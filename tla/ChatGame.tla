------------------------------ MODULE ChatGame ------------------------------
(***************************************************************************)
(* Tic-tac-toe with the chat as its save file: the whatsapp_tictactoe tool *)
(* (agent/tools/whatsapp_tictactoe.ts) over readGame and playTurn          *)
(* (agent/lib/tictactoe.ts).  The user types into the chat at any moment;  *)
(* calls of the tool are queued in the process and run one at a time, each *)
(* reading the chat, deciding, checking that the chat has not moved, and   *)
(* having the bridge post a board.  Nothing holds the chat between those   *)
(* steps.                                                                  *)
(*                                                                         *)
(* The chat is read from the archive, and nothing of our own comes back    *)
(* from WhatsApp: the bridge sends a board, and then files it.  Between    *)
(* the two the phone shows a board that the archive does not have, and for *)
(* good when the answer of the transport is lost or the archive refuses    *)
(* the row.  A call that is cancelled meanwhile lets the next one run with *)
(* its post still under way.                                               *)
(*                                                                         *)
(* readGame never looks before the newest board, so chat keeps that board  *)
(* and what was sent after it, and no more than the window the tool reads. *)
(* A message sent before that board and drained after it is filed is       *)
(* ordered before it, and changes nothing here.                            *)
(***************************************************************************)
EXTENDS TicTacToe, Sequences, SequencesExt

CONSTANTS Calls,         \* calls of the tool that may be outstanding at once
          ChatWindow,    \* WINDOW: messages the tool reads, newest last
          TypedSquares,  \* bound: the squares the user types
          ChatLevels,    \* bound: the levels the user asks for
          MaxTyped,      \* bound: messages the user types
          MaxCalled,     \* bound: calls of the tool
          NoBoard        \* no board in the window

ASSUME ChatAssumption ==
    /\ ChatWindow \in Nat \ {0}
    /\ TypedSquares \subseteq Squares /\ ChatLevels \subseteq LEVELS
    /\ NoBoard \notin Games

VARIABLES chat,      \* the newest board and the messages after it, as archived
          console,   \* the bridge's console is in a session with the user
          call,      \* call[c]: what the call c is doing
          posts,     \* the boards the bridge was asked to post, in their order
          phone,     \* the game of the last board the phone was sent
          filed,     \* the game of the last board the archive was given
          cancelled, \* a call was cancelled with its post under way
          typed,     \* messages typed
          called     \* calls made

gameVars == <<chat, console, call, posts, phone, filed, cancelled, typed, called>>

\* "b2" is a move only while a game is live, and so are the words of the game;
\* with "ttt" before them they are addressed to the game whatever is on the
\* board.  A note is nothing to it.
Moves == {[kind |-> "move", square |-> s, addressed |-> a] : s \in TypedSquares, a \in BOOLEAN}
News == {[kind |-> "new", user |-> m, level |-> l, addressed |-> a] :
            m \in Marks, l \in ChatLevels, a \in BOOLEAN}
Words == {[kind |-> k, addressed |-> a] : k \in {"resign", "status"}, a \in BOOLEAN}
Note == [kind |-> "note", addressed |-> FALSE]
Texts == Moves \cup News \cup Words \cup {Note}

BoardMessage(game) == [kind |-> "board", game |-> game]
Nothing == [kind |-> "none"]
Idle == [pc |-> "idle"]

\* What the user, in conversation, tells the agent to do.
Inputs == {[kind |-> "auto"], [kind |-> "status"], [kind |-> "resign"]}
              \cup {text \in Moves \cup News : text.addressed}

NewestOf(messages) == SubSeq(messages, Max({1, Len(messages) - ChatWindow + 1}), Len(messages))

-----------------------------------------------------------------------------
(* Reading the chat.                                                       *)

HasBoard == chat # <<>> /\ Head(chat).kind = "board"
GameOf == IF HasBoard THEN Head(chat).game ELSE NoBoard
After == IF HasBoard THEN Tail(chat) ELSE chat

parseCommand(text, live) ==
    IF text.kind # "note" /\ (text.addressed \/ live) THEN text ELSE Nothing

\* A restart supersedes everything, then a resignation, then the first move.
readGame ==
    LET live == HasBoard /\ ~isOver(GameOf.board)
        commands == [i \in DOMAIN After |-> parseCommand(After[i], live)]
        Of(kind) == {i \in DOMAIN After : commands[i].kind = kind}
    IN  CASE Of("new") # {} -> commands[Max(Of("new"))]
          [] Of("new") = {} /\ Of("resign") # {} -> commands[Min(Of("resign"))]
          [] OTHER -> IF Of("move") # {} THEN commands[Min(Of("move"))]
                      ELSE IF Of("status") # {} THEN commands[Min(Of("status"))]
                      ELSE Nothing

Newest == IF chat = <<>> THEN Nothing ELSE Last(chat)

-----------------------------------------------------------------------------

ChatInit ==
    /\ chat = <<>> /\ console = FALSE /\ phone = NoBoard /\ filed = NoBoard
    /\ call = [c \in Calls |-> Idle] /\ posts = <<>> /\ cancelled = FALSE
    /\ typed = 0 /\ called = 0

\* The board under way, if it was sent, stands before what is sent now.
Arrives(message) ==
    /\ chat' = NewestOf(Append(chat, message))
    /\ posts' = IF posts # <<>> /\ Head(posts).sent
                THEN [posts EXCEPT ![1].since = @ + 1] ELSE posts

UserTypes(text) ==
    /\ typed < MaxTyped
    /\ typed' = typed + 1
    /\ Arrives(text)
    /\ UNCHANGED <<console, call, phone, filed, cancelled, called>>

\* The user opens or leaves a session of the bridge's own console.
ConsoleSwitches ==
    /\ typed < MaxTyped
    /\ typed' = typed + 1
    /\ console' = ~console
    /\ UNCHANGED <<chat, call, posts, phone, filed, cancelled, called>>

ToolCalled(c, input) ==
    /\ call[c] = Idle
    /\ called < MaxCalled
    /\ called' = called + 1
    /\ call' = [call EXCEPT ![c] = [pc |-> "queued", input |-> input]]
    /\ UNCHANGED <<chat, console, posts, phone, filed, cancelled, typed>>

\* Mutant of NoTurnRuns: the chain is let go before the board is written.
NoTurnDecides == \A d \in Calls : call[d].pc \in {"idle", "queued", "write", "posted", "draw"}

\* The promise chain: a turn starts when the turns before it have ended.
NoTurnRuns == \A d \in Calls : call[d].pc \in {"idle", "queued"}

Ends(c) == call' = [call EXCEPT ![c] = Idle]

\* A turn that will post game; a check compares the chat with expect first.
Decided(c, game, expect) ==
    call' = [call EXCEPT ![c] = [pc |-> IF expect = NoBoard THEN "write" ELSE "check",
                                 game |-> game, expect |-> expect]]

CommandOf(input) == IF input.kind = "auto" THEN readGame ELSE input

\* There is nothing to write: nothing asked, no game, or the game is over.
NothingToDo(command) ==
    \/ command.kind = "none"
    \/ command.kind # "new" /\ ~HasBoard
    \/ command.kind = "resign" /\ HasBoard /\ isOver(GameOf.board)

TurnBegins(c) == call[c].pc = "queued" /\ NoTurnRuns

StandsDown(c) ==
    /\ TurnBegins(c)
    /\ console \/ NothingToDo(CommandOf(call[c].input))
    /\ Ends(c)
    /\ UNCHANGED <<chat, console, posts, phone, filed, cancelled, typed, called>>

OpensGame(c) ==
    /\ TurnBegins(c) /\ ~console
    /\ LET command == CommandOf(call[c].input) IN
        /\ command.kind = "new"
        /\ \E game \in startGame(command.user, command.level) :
              Decided(c, game, NoBoard)
    /\ UNCHANGED <<chat, console, posts, phone, filed, cancelled, typed, called>>

\* status re-posts the board; resign posts the very same token.
PostsAgain(c) ==
    /\ TurnBegins(c) /\ ~console
    /\ LET command == CommandOf(call[c].input) IN
        /\ command.kind \in {"status", "resign"}
        /\ ~NothingToDo(command)
    /\ Decided(c, GameOf, NoBoard)
    /\ UNCHANGED <<chat, console, posts, phone, filed, cancelled, typed, called>>

PlaysMove(c) ==
    /\ TurnBegins(c) /\ ~console
    /\ LET command == CommandOf(call[c].input) IN
        /\ command.kind = "move" /\ HasBoard
        /\ \E game \in playTurn(GameOf, command.square) :
              Decided(c, game, Newest)
    /\ UNCHANGED <<chat, console, posts, phone, filed, cancelled, typed, called>>

\* chatMoved compares the newest text with the one the turn was decided on.
ChecksChat(c) ==
    /\ call[c].pc = "check"
    /\ IF Newest = call[c].expect
       THEN call' = [call EXCEPT ![c].pc = "write"]
       ELSE Ends(c)
    /\ UNCHANGED <<chat, console, posts, phone, filed, cancelled, typed, called>>

\* POST /send/self: the bridge takes its notes in turn.
WritesBoard(c) ==
    /\ call[c].pc = "write"
    /\ posts' = Append(posts, [game |-> call[c].game, by |-> {c}, sent |-> FALSE, since |-> 0])
    /\ call' = [call EXCEPT ![c] = [pc |-> "posted"]]
    /\ UNCHANGED <<chat, console, phone, filed, cancelled, typed, called>>

\* The bridge cannot be reached, or the call is cancelled before it asks for
\* anything to be posted: the tool answers that nothing was played.
WriteFails(c) ==
    /\ TurnBegins(c) \/ call[c].pc \in {"check", "write"}
    /\ Ends(c)
    /\ UNCHANGED <<chat, console, posts, phone, filed, cancelled, typed, called>>

\* The same answer, with the post still under way in the bridge.
TurnCancelled(c) ==
    /\ call[c].pc = "posted"
    /\ Ends(c)
    /\ posts' = [i \in DOMAIN posts |-> [posts[i] EXCEPT !.by = @ \ {c}]]
    /\ cancelled' = TRUE
    /\ UNCHANGED <<chat, console, phone, filed, typed, called>>

\* The call that waits for the first post, if there still is one, goes on.
PostEnds(pc) ==
    /\ posts' = Tail(posts)
    /\ call' = [c \in Calls |-> IF c \in Head(posts).by THEN [pc |-> pc] ELSE call[c]]

PostRefused ==
    /\ posts # <<>> /\ ~Head(posts).sent
    /\ PostEnds("idle")
    /\ UNCHANGED <<chat, console, phone, filed, cancelled, typed, called>>

PostDelivered ==
    /\ posts # <<>> /\ ~Head(posts).sent
    /\ phone' = Head(posts).game
    /\ posts' = [posts EXCEPT ![1].sent = TRUE]
    /\ UNCHANGED <<chat, console, call, filed, cancelled, typed, called>>

\* The board is ordered by when it was sent, and by when it was filed among
\* what was sent in the same second.
PostFiled ==
    /\ posts # <<>> /\ Head(posts).sent
    /\ \E later \in 0 .. Min({Head(posts).since, Len(After)}) :
          chat' = NewestOf(<<BoardMessage(Head(posts).game)>>
                              \o SubSeq(After, Len(After) - later + 1, Len(After)))
    /\ filed' = Head(posts).game
    /\ PostEnds(IF isOver(Head(posts).game.board) THEN "draw" ELSE "idle")
    /\ UNCHANGED <<console, phone, cancelled, typed, called>>

\* The answer of the transport is lost, the archive refuses the row or the
\* bridge stops: the tool answers that nothing was played.
PostUnfiled ==
    /\ posts # <<>> /\ Head(posts).sent
    /\ PostEnds("idle")
    /\ UNCHANGED <<chat, console, phone, filed, cancelled, typed, called>>

\* The picture of a finished game: a message with a caption, or nothing.
DrawsBoard(c) ==
    /\ call[c].pc = "draw"
    /\ UNCHANGED <<chat, posts>> \/ Arrives(Note)
    /\ Ends(c)
    /\ UNCHANGED <<console, phone, filed, cancelled, typed, called>>

ChatNext ==
    \/ \E text \in Texts : UserTypes(text)
    \/ ConsoleSwitches
    \/ \E c \in Calls :
          \/ \E input \in Inputs : ToolCalled(c, input)
          \/ StandsDown(c) \/ OpensGame(c) \/ PostsAgain(c) \/ PlaysMove(c)
          \/ ChecksChat(c) \/ WritesBoard(c) \/ WriteFails(c) \/ TurnCancelled(c)
          \/ DrawsBoard(c)
    \/ PostRefused \/ PostDelivered \/ PostFiled \/ PostUnfiled

ChatSpec == ChatInit /\ [][ChatNext]_gameVars

-----------------------------------------------------------------------------

\* The rules, for the boards of the archive and for those of the phone.
Promised == INSTANCE GameRules WITH current <- filed, NoGame <- NoBoard, Levels <- ChatLevels
OnThePhone == INSTANCE GameRules WITH current <- phone, NoGame <- NoBoard, Levels <- ChatLevels

\* Unless a call was cancelled with its post under way: whatever is typed while
\* a turn is being decided, however the calls overlap, and whatever boards are
\* refused or sent and not filed, each board filed is a fresh game or follows
\* from the board filed before it by one move of the user and one answer
\* (whatsapp_tictactoe.ts:106, "Turns are taken one at a time").
OneGameAtATime ==
    Promised!GameInit /\ [][cancelled \/ Promised!GameNext]_filed

\* At the solved level no board is lost, on the phone or in the archive,
\* whatever is refused, lost or cancelled on the way (tictactoe.ts:178, "it
\* never loses").
TheChatIsSafe == Promised!HardNeverLoses /\ OnThePhone!HardNeverLoses
=============================================================================
