---- MODULE SelfConsole ----
(***************************************************************************)
(* The bridge's half of the console the operator types into: the router of *)
(* whatsapp-bridge/src/plugins.js, the session and the forward queue that  *)
(* whatsapp.js keeps in two JSON files, the push of a forwarded message to *)
(* the agent, and the long poll of GET /self/pending that drains what no   *)
(* push delivered.                                                         *)
(*                                                                         *)
(* Routing, queueing and saving run without an await, so they are one      *)
(* step.  The push is awaited: while it is in flight any number of polls   *)
(* read the same queue, the agent may take the request after the bridge    *)
(* has given it up, and the bridge may stop and reload its files.          *)
(***************************************************************************)
EXTENDS Naturals, FiniteSets, Sequences, SequencesExt

CONSTANTS
  Messages,   \* the unmarked texts of the self chat: what the operator types
  Polls,      \* the callers that may hold /self/pending open at one time
  MaxFaults   \* bound on crashes, failed calls, failed saves, dead callers

ASSUME SelfConsoleAssumption == IsFiniteSet(Messages) /\ MaxFaults \in Nat

VARIABLES
  session,      \* consoleSession.state in memory; "none" is IDLE
  sessionFile,  \* console-session.json
  queue,        \* forwardedCache
  queueFile,    \* console-queue.json
  unsaved,      \* the files whose last write failed
  pushing,      \* the messages whose push handleSelfMessage awaits
  wire,         \* the pushes the agent has not answered yet
  landed,       \* the pushes the agent has accepted
  confirmed,    \* the pushes whose acceptance the bridge has seen in time
  polls,        \* what each caller of /self/pending is doing
  selfKey,      \* the account's own key is cached
  heard,        \* the messages the drain has handed to handleSelfMessage
  forwarded,    \* of those, the ones routed to the agent
  polled,       \* how often a poll has handed each message to the agent
  voided,       \* taken by a poll whose caller had gone
  cut,          \* in the answer to a poll when the bridge stopped
  spoiled,      \* the bridge restarted from a queue file it had not written
  replies,      \* how many things the console has said in the chat
  owed,         \* how many the operator's messages called for
  echoes,       \* of each form, those that may still come back from the drain
  faults        \* faults injected, bounded by MaxFaults

files  == <<session, sessionFile, queue, queueFile, unsaved, spoiled>>
agent  == <<wire, landed, polled>>
talk   == <<replies, owed, echoes>>
vars   == <<files, agent, pushing, confirmed, polls, selfKey, heard, forwarded,
            voided, cut, talk, faults>>

Modes == {"none", "game", "eve"}

(* What a message can be to route(): a command, or anything else.          *)
Words == {"/quit", "/menu", "/noop", "/status", "/game", "/eve", "text"}

NoPoll == [at |-> "idle", items |-> <<>>, listening |-> FALSE]

Carried == UNION {Range(polls[p].items) : p \in Polls}

Faulty == faults < MaxFaults

----------------------------------------------------------------------------
(* Persistence: each file is written whole, and a failed write is logged.  *)

Write(file, ok) ==
  unsaved' = IF ok THEN unsaved \ {file} ELSE unsaved \union {file}

saveConsoleSession(s, ok) ==
  /\ session' = s
  /\ sessionFile' = IF ok THEN s ELSE sessionFile

saveForwardedQueue(q, ok) ==
  /\ queue' = q
  /\ queueFile' = IF ok THEN q ELSE queueFile

(* indexOf and splice: the item is taken out, where it is in.              *)
Without(q, m) ==
  IF m \in Range(q) THEN RemoveAt(q, CHOOSE i \in DOMAIN q : q[i] = m) ELSE q

(* A write that fails spends a fault.                                      *)
Spend(oks) ==
  /\ FALSE \in oks => Faulty
  /\ faults' = faults + IF FALSE \in oks THEN 1 ELSE 0

----------------------------------------------------------------------------
(* The router.                                                             *)

Forwards(word) == session = "eve" /\ word = "text"

(* What the console says has the marker of whoever answers at its head, is *)
(* bare, or is a picture, which has a caption and no text.                 *)
Forms == {"marked", "bare", "picture"}

(* Each command is answered under a marker, and so is a move; on entering  *)
(* a state a banner goes before the answer.  A note is not answered.       *)
Says(word) ==
  CASE word \in {"/game", "/eve"} -> {"picture", "marked"}
    [] word = "text" -> IF session = "game" THEN {"marked"} ELSE {}
    [] OTHER -> {"marked"}

(* Mutant: the router does not know its own words.                         *)
NothingIsOwn(form) == FALSE

isOwnReply(form) == form = "marked"

(* A move may finish the match, which leaves the state by itself.          *)
NextSessions(word) ==
  CASE word = "/quit" -> {"none"}
    [] word = "/game" -> {"game"}
    [] word = "/eve"  -> {"eve"}
    [] word = "text" /\ session = "game" -> {"game", "none"}
    [] OTHER -> {session}

(* The drain hands over one message at a time and waits for its push.      *)
Listening == pushing = {}

(* A command, a move or an ordinary note.  A banner or an answer that the  *)
(* transport does not take is missing; the other of the two may be there.  *)
RouteHere(m, word) ==
  /\ Listening
  /\ m \notin heard
  /\ ~Forwards(word)
  /\ \E s \in NextSessions(word), ok \in BOOLEAN, said \in SUBSET Says(word) :
       /\ saveConsoleSession(s, ok)
       /\ Write("session", ok)
       /\ replies' = replies + Cardinality(said)
       /\ echoes' = [f \in Forms |-> echoes[f] + IF f \in said THEN 1 ELSE 0]
       /\ Spend({ok, said = Says(word)})
  /\ owed' = owed + Cardinality(Says(word))
  /\ heard' = heard \union {m}
  /\ selfKey' = TRUE
  /\ UNCHANGED <<queue, queueFile, spoiled, agent, pushing, confirmed, polls,
                 forwarded, voided, cut>>

(* Text in /eve: queued and saved, then the push is on its way.            *)
RouteForward(m, word) ==
  /\ Listening
  /\ m \notin heard
  /\ Forwards(word)
  /\ \E okSession, okQueue \in BOOLEAN :
       /\ saveConsoleSession(session, okSession)
       /\ saveForwardedQueue(Append(queue, m), okQueue)
       /\ unsaved' = (unsaved \ {"session", "queue"})
                       \union (IF okSession THEN {} ELSE {"session"})
                       \union (IF okQueue THEN {} ELSE {"queue"})
       /\ Spend({okSession, okQueue})
  /\ heard' = heard \union {m}
  /\ forwarded' = forwarded \union {m}
  /\ selfKey' = TRUE
  /\ pushing' = {m}
  /\ wire' = wire \union {m}
  /\ UNCHANGED <<landed, polled, spoiled, confirmed, polls, voided, cut, talk>>

(* selfChatKey() fails before the key is cached: the router throws, and a  *)
(* message the drain has already acknowledged is not routed at all.        *)
RouteUnidentified(m) ==
  /\ Listening
  /\ m \notin heard
  /\ ~selfKey
  /\ Faulty
  /\ faults' = faults + 1
  /\ heard' = heard \union {m}
  /\ UNCHANGED <<files, agent, pushing, confirmed, polls, selfKey, forwarded,
                 voided, cut, talk>>

(* What the console said comes back in the same chat.  A picture has no    *)
(* text and a marked text is its own; anything else is read like what the  *)
(* operator types, and in a match that is answered.                        *)
HearOwnReply(form) ==
  /\ Listening
  /\ echoes[form] > 0
  /\ LET answer == IF form = "picture" \/ isOwnReply(form) THEN {} ELSE Says("text")
     IN  /\ echoes' = [f \in Forms |-> (echoes[f] - IF f = form THEN 1 ELSE 0)
                                           + IF f \in answer THEN 1 ELSE 0]
         /\ replies' = replies + Cardinality(answer)
  /\ selfKey' = (selfKey \/ form # "picture")
  /\ UNCHANGED <<files, agent, pushing, confirmed, polls, heard, forwarded,
                 voided, cut, owed, faults>>

----------------------------------------------------------------------------
(* The push.                                                               *)

(* The agent accepts the request, whether or not the bridge still waits.   *)
AgentAccepts(m) ==
  /\ m \in wire
  /\ wire' = wire \ {m}
  /\ landed' = landed \union {m}
  /\ UNCHANGED <<files, polled, pushing, confirmed, polls, selfKey, heard,
                 forwarded, voided, cut, talk, faults>>

(* Mutant: the landed item is taken out of memory only.                    *)
PushLandedUnsaved(m) ==
  /\ m \in pushing
  /\ m \in landed
  /\ queue' = Without(queue, m)
  /\ pushing' = {}
  /\ confirmed' = confirmed \union {m}
  /\ UNCHANGED <<session, sessionFile, queueFile, unsaved, spoiled, agent, polls,
                 selfKey, heard, forwarded, voided, cut, talk, faults>>

(* The acceptance arrives within the ten seconds: the item leaves the      *)
(* queue, if no poll has taken it meanwhile.                               *)
PushLanded(m) ==
  /\ m \in pushing
  /\ m \in landed
  /\ \E ok \in BOOLEAN :
       IF m \in Range(queue)
         THEN /\ saveForwardedQueue(Without(queue, m), ok)
              /\ Write("queue", ok)
              /\ Spend({ok})
         ELSE ok /\ UNCHANGED <<queue, queueFile, unsaved, faults>>
  /\ pushing' = {}
  /\ confirmed' = confirmed \union {m}
  /\ UNCHANGED <<session, sessionFile, spoiled, agent, polls, selfKey, heard,
                 forwarded, voided, cut, talk>>

(* Mutant: the item is taken out of the queue whatever became of the push. *)
PushRefusedDropsItem(m) ==
  /\ m \in pushing \intersect wire
  /\ pushing' = {}
  /\ wire' = wire \ {m}
  /\ Faulty
  /\ faults' = faults + 1
  /\ saveForwardedQueue(Without(queue, m), TRUE)
  /\ UNCHANGED <<session, sessionFile, unsaved, spoiled, landed, polled,
                 confirmed, polls, selfKey, heard, forwarded, voided, cut, talk>>

(* No agent configured, a refusal, an agent that is down: nothing on the   *)
(* wire, the item stays queued.                                            *)
PushRefused(m) ==
  /\ m \in pushing \intersect wire
  /\ pushing' = {}
  /\ wire' = wire \ {m}
  /\ Faulty
  /\ faults' = faults + 1
  /\ UNCHANGED <<files, landed, polled, confirmed, polls, selfKey, heard,
                 forwarded, voided, cut, talk>>

(* A request the bridge no longer waits for may come to nothing.           *)
PushAbandoned(m) ==
  /\ m \in wire \ pushing
  /\ wire' = wire \ {m}
  /\ UNCHANGED <<files, landed, polled, pushing, confirmed, polls, selfKey, heard,
                 forwarded, voided, cut, talk, faults>>

(* Ten seconds pass.  The request may still be on its way, or already      *)
(* accepted; the bridge cannot tell, and leaves the item queued.           *)
PushTimesOut(m) ==
  /\ m \in pushing
  /\ pushing' = {}
  /\ Faulty
  /\ faults' = faults + 1
  /\ UNCHANGED <<files, agent, confirmed, polls, selfKey, heard, forwarded,
                 voided, cut, talk>>

----------------------------------------------------------------------------
(* The poll.                                                               *)

(* Mutant: the queue is emptied in memory and not saved.                   *)
DrainQueueUnsaved(ok) ==
  /\ ok
  /\ queue' = <<>>
  /\ UNCHANGED <<session, sessionFile, queueFile, unsaved, spoiled, faults>>

(* drain(): everything queued, taken and saved before it is sent.          *)
DrainQueue(ok) ==
  /\ saveForwardedQueue(<<>>, ok)
  /\ Write("queue", ok)
  /\ Spend({ok})
  /\ UNCHANGED <<session, sessionFile, spoiled>>

(* What was queued goes into the answer; one whose caller has gone away is *)
(* never received.                                                         *)
Answer(p, listening) ==
  /\ \E ok \in BOOLEAN : DrainQueue(ok)
  /\ IF listening
       THEN /\ polls' = [polls EXCEPT ![p] =
                           [at |-> "answered", items |-> queue, listening |-> TRUE]]
            /\ UNCHANGED voided
       ELSE /\ polls' = [polls EXCEPT ![p] = NoPoll]
            /\ voided' = voided \union Range(queue)
  /\ UNCHANGED <<agent, pushing, confirmed, selfKey, heard, forwarded, cut, talk>>

Collect(p, listening) == queue /= <<>> /\ Answer(p, listening)

(* A call takes what is queued, or waits for it while the operator is in   *)
(* /eve; otherwise it is answered with nothing at once.                    *)
PollArrives(p) ==
  /\ polls[p].at = "idle"
  /\ \/ Collect(p, TRUE)
     \/ /\ queue = <<>>
        /\ session = "eve"
        /\ polls' = [polls EXCEPT ![p] =
                       [at |-> "waiting", items |-> <<>>, listening |-> TRUE]]
        /\ UNCHANGED <<files, agent, pushing, confirmed, selfKey, heard,
                       forwarded, voided, cut, talk, faults>>

(* Every 250 ms.  A caller that hung up is not noticed.                    *)
PollFinds(p) ==
  /\ polls[p].at = "waiting"
  /\ Collect(p, polls[p].listening)

(* The deadline passes, or the operator has left /eve.                     *)
PollGivesUp(p) ==
  /\ polls[p].at = "waiting"
  /\ queue = <<>>
  /\ polls' = [polls EXCEPT ![p] = NoPoll]
  /\ UNCHANGED <<files, agent, pushing, confirmed, selfKey, heard, forwarded,
                 voided, cut, talk, faults>>

PollReceived(p) ==
  /\ polls[p].at = "answered"
  /\ polled' = [m \in Messages |->
                  polled[m] + IF m \in Range(polls[p].items) THEN 1 ELSE 0]
  /\ polls' = [polls EXCEPT ![p] = NoPoll]
  /\ UNCHANGED <<files, wire, landed, pushing, confirmed, selfKey, heard,
                 forwarded, voided, cut, talk, faults>>

(* The agent restarts or aborts the call.                                  *)
CallerGone(p) ==
  /\ polls[p].at \in {"waiting", "answered"}
  /\ polls[p].listening
  /\ Faulty
  /\ faults' = faults + 1
  /\ voided' = voided \union Range(polls[p].items)
  /\ polls' = [polls EXCEPT ![p] =
                 IF @.at = "answered" THEN NoPoll ELSE [@ EXCEPT !.listening = FALSE]]
  /\ UNCHANGED <<files, agent, pushing, confirmed, selfKey, heard, forwarded,
                 cut, talk>>

(* The bridge stops and starts: memory is what the files hold, every open  *)
(* call is cut, and requests already sent stay on the wire.                *)
BridgeRestarts ==
  /\ Faulty
  /\ faults' = faults + 1
  /\ session' = sessionFile
  /\ queue' = queueFile
  /\ spoiled' = (spoiled \/ "queue" \in unsaved)
  /\ unsaved' = {}
  /\ pushing' = {}
  /\ polls' = [p \in Polls |-> NoPoll]
  /\ cut' = cut \union Carried
  /\ selfKey' = FALSE
  /\ UNCHANGED <<sessionFile, queueFile, agent, confirmed, heard, forwarded,
                 voided, talk>>

----------------------------------------------------------------------------

Init ==
  /\ session = "none" /\ sessionFile = "none"
  /\ queue = <<>> /\ queueFile = <<>>
  /\ unsaved = {} /\ spoiled = FALSE
  /\ pushing = {} /\ wire = {} /\ landed = {} /\ confirmed = {}
  /\ polls = [p \in Polls |-> NoPoll]
  /\ selfKey = FALSE
  /\ heard = {} /\ forwarded = {} /\ voided = {} /\ cut = {}
  /\ polled = [m \in Messages |-> 0]
  /\ replies = 0 /\ owed = 0 /\ echoes = [f \in Forms |-> 0] /\ faults = 0

Push(m) ==
  \/ AgentAccepts(m)
  \/ PushLanded(m)
  \/ PushRefused(m)
  \/ PushTimesOut(m)
  \/ PushAbandoned(m)

Poll(p) ==
  \/ PollArrives(p)
  \/ PollFinds(p)
  \/ PollGivesUp(p)
  \/ PollReceived(p)

Next ==
  \/ \E m \in Messages, word \in Words : RouteHere(m, word) \/ RouteForward(m, word)
  \/ \E m \in Messages : RouteUnidentified(m) \/ Push(m)
  \/ \E form \in Forms : HearOwnReply(form)
  \/ \E p \in Polls : Poll(p) \/ CallerGone(p)
  \/ BridgeRestarts

Spec == Init /\ [][Next]_vars

(* The agent answers, the bridge sees the answer, and inbox-watch calls    *)
(* every ten minutes.  Nothing says when the operator types.               *)
Fairness ==
  /\ \A m \in Messages : WF_vars(Push(m))
  /\ \A p \in Polls : WF_vars(Poll(p))

FairSpec == Spec /\ Fairness

----------------------------------------------------------------------------
(* Properties.                                                             *)

(* Types of the two files, their copies in memory and the open calls.      *)
TypeOK ==
  /\ session \in Modes /\ sessionFile \in Modes
  /\ Range(queue) \subseteq forwarded /\ Range(queueFile) \subseteq forwarded
  /\ unsaved \subseteq {"session", "queue"}
  /\ pushing \subseteq forwarded /\ Cardinality(pushing) <= 1
  /\ wire \union landed \subseteq forwarded
  /\ forwarded \subseteq heard
  /\ \A p \in Polls :
       /\ polls[p].at \in {"idle", "waiting", "answered"}
       /\ polls[p].items /= <<>> <=> polls[p].at = "answered"
  /\ faults <= MaxFaults

(* A message the operator sent to the agent is still queued, is on its way *)
(* in the answer to a poll, or was handed over; otherwise the caller of a  *)
(* poll went away, or the bridge restarted in the middle of the answer or  *)
(* without having saved the queue (handleSelfMessage queues before it      *)
(* pushes and removes after; pendingForAgent takes before it answers).     *)
NothingForgotten ==
  ~spoiled =>
    forwarded \subseteq
      Range(queue) \union Carried \union landed \union voided \union cut
        \union {m \in Messages : polled[m] > 0}

(* Reading /self/pending takes the items: no two polls are given the same  *)
(* message, even across a restart between them.                            *)
PolledOnce ==
  ~spoiled =>
    \A m \in Messages :
      polled[m] + Cardinality({p \in Polls : m \in Range(polls[p].items)}) <= 1

(* A message whose push the bridge saw land is in neither the queue nor    *)
(* its file, so that no poll that starts later, after a restart included,  *)
(* answers it again.                                                       *)
ConfirmedIsNotQueued ==
  /\ confirmed \intersect Range(queue) /= {} => spoiled
  /\ confirmed \intersect Range(queueFile) /= {} => spoiled \/ "queue" \in unsaved

(* The console never answers itself: it says no more than the operator's   *)
(* messages call for, an answer to a command or a move and a banner on     *)
(* entering a state, however its own words come back through the drain.    *)
NeverAnswersItself == replies <= owed

(* What the operator sent to the agent reaches it, by the push or by the   *)
(* scheduled poll, unless it was lost to a caller that went away or to a   *)
(* restart without a saved queue.                                          *)
ForwardedArrives ==
  \A m \in Messages :
    m \in forwarded ~> m \in landed \union voided \union cut \/ polled[m] > 0 \/ spoiled

(* Claim (whatsapp.js on pushToAgent: "an agent that is down, slow or      *)
(* restarting must not ... cost a message"): a forwarded message is not    *)
(* lost while the bridge itself keeps running and saving its queue.        *)
AgentCostsNothing ==
  \A m \in voided : m \in landed \/ m \in Range(queue) \/ polled[m] > 0 \/ m \in wire
====
