------------------------------ MODULE SelfNotes ------------------------------
(***************************************************************************)
(* The bridge's writes to the user's own chat: notes of one or two         *)
(* messages and pictures, which queue behind one another                   *)
(* (whatsapp-bridge/src/serial.js, self-note.js, server.js /send/self),    *)
(* and the console's answers, which do not.  Each message is sent by the   *)
(* transport, and filed, before the next one.                              *)
(***************************************************************************)
EXTENDS Naturals, Sequences, FiniteSets

CONSTANTS Notes,         \* requests for a note
          MAX_MESSAGES,  \* the messages a note may have
          SelfChatNamed, \* whether WA_SELF_CHAT_NAME is set
          MaxAnswers     \* bound: answers of the console

Console == "console"

ASSUME NotesAssumption ==
    MAX_MESSAGES \in Nat \ {0} /\ SelfChatNamed \in BOOLEAN /\ Console \notin Notes

VARIABLES note,     \* note[n]: its kind, its length, how much of it is sent
          chain,    \* the notes queued or in flight, oldest first
          selfLog,  \* what WhatsApp shows in the chat, in order
          connected \* whether the transport can send

noteVars == <<note, chain, selfLog, connected>>

Unasked == [pc |-> "none"]

NoteInit == /\ note = [n \in Notes |-> Unasked]
            /\ chain = <<>> /\ selfLog = <<>> /\ connected = TRUE

Ended(n, how) == note' = [note EXCEPT ![n].pc = how]

\* A request queues before anything about it is checked: the count of its
\* messages is looked at when its turn comes.
NoteAsked(n, kind, length) ==
    /\ note[n] = Unasked
    /\ kind = "picture" => length = 1
    /\ note' = [note EXCEPT ![n] = [pc |-> "queued", kind |-> kind, length |-> length, sent |-> 0]]
    /\ chain' = Append(chain, n)
    /\ UNCHANGED <<selfLog, connected>>

\* Mutant of Runs: every queued note runs at once.
RunsUnserialised(n) == \E i \in DOMAIN chain : chain[i] = n

\* serial: the head of the chain runs, whether what ran before it failed or not.
Runs(n) == chain # <<>> /\ Head(chain) = n

Acceptable(n) ==
    /\ note[n].length \in 1 .. MAX_MESSAGES
    /\ note[n].kind = "picture" => SelfChatNamed

NoteRefused(n) ==
    /\ Runs(n) /\ note[n].pc = "queued"
    /\ ~Acceptable(n) \/ ~connected
    /\ Ended(n, "refused")
    /\ chain' = Tail(chain)
    /\ UNCHANGED <<selfLog, connected>>

NoteStarts(n) ==
    /\ Runs(n) /\ note[n].pc = "queued"
    /\ Acceptable(n) /\ connected
    /\ Ended(n, "sending")
    /\ UNCHANGED <<chain, selfLog, connected>>

\* One message, sent and filed, before the next.
NoteSends(n) ==
    /\ Runs(n) /\ note[n].pc = "sending" /\ note[n].sent < note[n].length
    /\ connected
    /\ LET part == note[n].sent + 1 IN
        /\ note' = [note EXCEPT ![n].sent = part]
        /\ selfLog' = Append(selfLog, <<n, part>>)
    /\ UNCHANGED <<chain, connected>>

\* Mutant of NoteBreaks: the error is answered and the chain stays broken.
NoteBreaksChain(n) ==
    /\ Runs(n) /\ note[n].pc = "sending" /\ note[n].sent < note[n].length
    /\ ~connected
    /\ Ended(n, "failed")
    /\ UNCHANGED <<chain, selfLog, connected>>

\* The send throws: the rest of the note is dropped, the request is answered
\* with the error, and the chain goes on.
NoteBreaks(n) ==
    /\ Runs(n) /\ note[n].pc = "sending" /\ note[n].sent < note[n].length
    /\ ~connected
    /\ Ended(n, "failed")
    /\ chain' = Tail(chain)
    /\ UNCHANGED <<selfLog, connected>>

NoteDone(n) ==
    /\ Runs(n) /\ note[n].pc = "sending" /\ note[n].sent = note[n].length
    /\ Ended(n, "written")
    /\ chain' = Tail(chain)
    /\ UNCHANGED <<selfLog, connected>>

AnswersSaid == Cardinality({i \in DOMAIN selfLog : selfLog[i][1] = Console})

\* answerSelf: straight to the transport, beside the chain.
ConsoleAnswers ==
    /\ AnswersSaid < MaxAnswers
    /\ connected
    /\ selfLog' = Append(selfLog, <<Console, AnswersSaid + 1>>)
    /\ UNCHANGED <<note, chain, connected>>

ConnectionChanges == connected' = ~connected /\ UNCHANGED <<note, chain, selfLog>>

NoteStep(n) == NoteRefused(n) \/ NoteStarts(n) \/ NoteSends(n) \/ NoteBreaks(n) \/ NoteDone(n)

NoteNext ==
    \/ \E n \in Notes : \/ \E kind \in {"note", "picture"}, length \in 0 .. MAX_MESSAGES + 1 :
                              NoteAsked(n, kind, length)
                        \/ NoteStep(n)
    \/ ConsoleAnswers
    \/ ConnectionChanges

\* The handler runs until it has answered: each step of it is taken in the end.
NoteFairness == \A n \in Notes : WF_noteVars(NoteStep(n))

NoteSpec == NoteInit /\ [][NoteNext]_noteVars /\ NoteFairness

-----------------------------------------------------------------------------

\* The messages of the notes are at these places of the chat.
OfNotes == {i \in DOMAIN selfLog : selfLog[i][1] # Console}

(***************************************************************************)
(* "a multi-line note arrives as one note" (serial.js:2): the messages of  *)
(* a note stand in their order with no other note's message between them,  *)
(* and what is reported as written is all there.                           *)
(***************************************************************************)
NotesArriveWhole ==
    /\ \A i, j \in OfNotes :
          i < j /\ (\A k \in i + 1 .. j - 1 : k \notin OfNotes) =>
              \/ selfLog[j] = <<selfLog[i][1], selfLog[i][2] + 1>>
              \/ selfLog[j][2] = 1 /\ note[selfLog[i][1]].pc \in {"written", "failed"}
    /\ \A n \in Notes : note[n].pc = "written" =>
          \A part \in 1 .. note[n].length : \E i \in DOMAIN selfLog : selfLog[i] = <<n, part>>

(***************************************************************************)
(* "Rejections do not break the chain" (serial.js:30): every note that is  *)
(* queued is answered, written, refused or failed, whatever failed before. *)
(***************************************************************************)
EveryNoteIsAnswered ==
    \A n \in Notes : note[n].pc = "queued" ~> note[n].pc \in {"written", "refused", "failed"}

=============================================================================
