----------------------------- MODULE GameRules -----------------------------
(***************************************************************************)
(* What the chat game promises, whoever types and however often the tool   *)
(* is called: there is one game at a time, a game starts from an empty     *)
(* board (the agent's opening on it when the agent has X), and each change *)
(* of it is one move of the user with the agent's answer.                  *)
(***************************************************************************)
EXTENDS TicTacToe

CONSTANTS NoGame,   \* no board has been posted yet
          Levels    \* the levels the user asks for

ASSUME LevelsAssumption == Levels \subseteq LEVELS /\ NoGame \notin Games

\* From an empty board X keeps a draw at least, and O does whatever X opens
\* with: what the rest of a game then keeps (HardNeverLoses) starts here.
ASSUME DrawAssumption ==
    LET opened(i) == Mark(emptyBoard, i, "x")
        forX == minimax("x", 0)[8]
        forO == minimax("o", 0)[8]
    IN  /\ \E i \in Squares : forX[opened(i)] >= 0
        /\ \A i \in Squares : forO[opened(i)] >= 0

VARIABLE current

GameInit == current = NoGame

GameStart == \E user \in Marks, level \in Levels : current' \in startGame(user, level)

GameTurn == /\ current # NoGame
            /\ \E square \in Squares : current' \in playTurn(current, square)

GameNext == GameStart \/ GameTurn

GameSpec == GameInit /\ [][GameNext]_current

-----------------------------------------------------------------------------

(***************************************************************************)
(* The solved level never loses (tictactoe.ts:178, "it never loses"): no   *)
(* play of the user's against it reaches a line of the user's marks, with  *)
(* either mark and whatever the engine picks among moves it holds equal.   *)
(***************************************************************************)
HardNeverLoses ==
    (current # NoGame /\ current.level = "hard") => ~Won(current.board, current.user)

=============================================================================
