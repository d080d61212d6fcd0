----------------------------- MODULE TicTacToe -----------------------------
(***************************************************************************)
(* The rules and the engine of the tic-tac-toe the agent plays in the      *)
(* user's own chat (agent/lib/tictactoe.ts).  No state: a board is a       *)
(* function from the nine squares to a mark or to Empty, a game is a board *)
(* with the user's mark and the level.  A random choice of the engine is   *)
(* the set of the squares it may pick from.                                *)
(***************************************************************************)
EXTENDS Integers, FiniteSets, FiniteSetsExt

Squares == 0 .. 8
Marks == {"x", "o"}
Empty == "."
LEVELS == {"easy", "normal", "hard"}
Boards == [Squares -> Marks \cup {Empty}]
Games == [board : Boards, user : Marks, level : LEVELS]

LINES == { {0, 1, 2}, {3, 4, 5}, {6, 7, 8}, {0, 3, 6}, {1, 4, 7}, {2, 5, 8},
           {0, 4, 8}, {2, 4, 6} }

emptyBoard == [i \in Squares |-> Empty]

other(mark) == IF mark = "x" THEN "o" ELSE "x"

CountOf(board, mark) == Cardinality({i \in Squares : board[i] = mark})

\* Whose turn it is is counted from the board; nothing stores it.
turnOf(board) == IF CountOf(board, "x") = CountOf(board, "o") THEN "x" ELSE "o"

legalMoves(board) == {i \in Squares : board[i] = Empty}

Won(board, mark) == \E line \in LINES : \A i \in line : board[i] = mark

isOver(board) == legalMoves(board) = {} \/ \E mark \in Marks : Won(board, mark)

Mark(board, index, mark) == [board EXCEPT ![index] = mark]

applies(board, index, mark) ==
    ~isOver(board) /\ turnOf(board) = mark /\ index \in legalMoves(board)

-----------------------------------------------------------------------------
(* The engine.                                                             *)

\* TLC tabulates a function it compares.
Tabulated(f) == CHOOSE table \in {f} : table = f

\* The boards of a game with so many squares left.
BoardsLeft ==
    Tabulated([left \in 0 .. 9 |->
                 {b \in Boards : /\ Cardinality(legalMoves(b)) = left
                                 /\ CountOf(b, "x") - CountOf(b, "o") \in {0, 1}}])

\* The scores of those boards, from the scores of the boards one move later.
ScoresOf(mark, root, left, later) ==
    LET depth == 9 - left - root IN
    Tabulated([b \in BoardsLeft[left] |->
                 IF Won(b, mark) THEN 10 - depth
                 ELSE IF Won(b, other(mark)) THEN depth - 10
                 ELSE IF left = 0 THEN 0
                 ELSE LET scores == {later[Mark(b, i, turnOf(b))] : i \in legalMoves(b)}
                      IN  IF turnOf(b) = mark THEN Max(scores) ELSE Min(scores)])

(***************************************************************************)
(* minimax(board, mark, depth), tabulated over the boards a search rooted  *)
(* at a board of root marks reaches: the depth of a board is how many      *)
(* marks it has more than the root.                                        *)
(***************************************************************************)
minimax(mark, root) ==
    LET scores[left \in 0 .. 8] ==
            ScoresOf(mark, root, left, IF left = 0 THEN <<>> ELSE scores[left - 1])
    IN scores

\* The scores of the boards one move away from a board of root marks.
Scores == Tabulated([root \in 0 .. 8 |->
                       minimax(IF root % 2 = 0 THEN "x" ELSE "o", root)[8 - root]])

winningSquares(board, mark) ==
    {i \in legalMoves(board) : Won(Mark(board, i, mark), mark)}

\* Mutant of BestMoves: the scores are read with the opponent's sign.
BestMovesReversed(board, mark) ==
    LET root == CountOf(board, "x") + CountOf(board, "o")
        score == [i \in legalMoves(board) |-> Scores[root][Mark(board, i, mark)]]
    IN  {i \in legalMoves(board) : score[i] = Min({score[j] : j \in legalMoves(board)})}

BestMoves(board, mark) ==
    LET root == CountOf(board, "x") + CountOf(board, "o")
        score == [i \in legalMoves(board) |-> Scores[root][Mark(board, i, mark)]]
        best == Max({score[i] : i \in legalMoves(board)})
    IN  {i \in legalMoves(board) : score[i] = best}

\* The squares the engine picks its move from: none when it has no move.
chooseMove(board, mark, level) ==
    LET moves == legalMoves(board)
        wins == winningSquares(board, mark)
        blocks == winningSquares(board, other(mark))
        corners == moves \cap {0, 2, 6, 8}
    IN  IF isOver(board) \/ turnOf(board) # mark THEN {}
        ELSE CASE level = "easy" -> moves
               [] level = "hard" -> BestMoves(board, mark)
               [] OTHER -> IF wins # {} THEN wins
                           ELSE IF blocks # {} THEN blocks
                           ELSE IF 4 \in moves THEN {4}
                           ELSE IF corners # {} THEN corners ELSE moves

-----------------------------------------------------------------------------
(* A turn and a new game, as the set of the games they may lead to.        *)

Answered(game, board) ==
    LET agent == other(game.user)
        replies == chooseMove(board, agent, game.level)
    IN  IF replies = {} THEN {[game EXCEPT !.board = board]}
        ELSE {[game EXCEPT !.board = Mark(board, i, agent)] : i \in replies}

\* A rejected square leaves the game as it is; an accepted one is answered in
\* the same step.
playTurn(game, square) ==
    IF applies(game.board, square, game.user)
    THEN Answered(game, Mark(game.board, square, game.user))
    ELSE {game}

startGame(user, level) ==
    LET game == [board |-> emptyBoard, user |-> user, level |-> level]
    IN  IF user = "x" THEN {game} ELSE Answered(game, emptyBoard)

=============================================================================
