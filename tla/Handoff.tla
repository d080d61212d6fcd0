------------------------------ MODULE Handoff -------------------------------
(***************************************************************************)
(* The hand-over of received messages from the transport's outbox to the   *)
(* bridge's archive: handleOutbox and handleAck on one side, drainOnce and *)
(* startDrain on the other, with what may fail in between.                 *)
(*                                                                         *)
(* A drain is one invocation of drainOnce.  Ticks are the invocations the  *)
(* interval makes (several may overlap: only `running' keeps them apart);  *)
(* Manuals are the requests to /transport/drain, which call drainOnce      *)
(* without onMessage and outside `running'.  Every await of drainOnce is a *)
(* boundary between two actions.                                           *)
(***************************************************************************)
EXTENDS Outbox

CONSTANTS
  Ticks,        \* drains started by startDrain's interval
  Manuals,      \* drains started by POST /transport/drain
  Storable,     \* the messages toArchiveRow and the store accept
  Limits,       \* the batch sizes a drain may ask for
  MaxFaults     \* BOUND: failures, crashes and restarts in one behaviour

ASSUME HandoffAssumption ==
  /\ Storable \subseteq Messages
  /\ Limits \subseteq Nat \ {0}
  /\ Ticks \cap Manuals = {}
  /\ MaxFaults \in Nat

VARIABLES
  pc,           \* where each drain is suspended
  batch,        \* the entries it fetched; while routing, those still to route
  seen,         \* the `dropped' its response carried
  archived,     \* store.db: the messages with a row (keyed by message)
  running,      \* startDrain's overlap guard
  lastDropped,  \* the last gap this bridge process reported; 0 is null
  routed,       \* history: entries given to onMessage, in order
  reported,     \* history: the largest gap ever reported
  faults        \* how much of MaxFaults is used

bridgeVars == <<pc, batch, seen, archived, running, lastDropped, routed, reported>>
handoffVars == <<outboxVars, bridgeVars, faults>>

Drains == Ticks \cup Manuals

Stages == {"idle", "reading", "fetched", "stored", "acked", "routing"}

IsHighest(s, S) == s \in S /\ \A t \in S : t <= s
IsLowest(s, S)  == s \in S /\ \A t \in S : s <= t

-----------------------------------------------------------------------------
(* drainOnce ends in the drains D, normally or by throwing; a tick clears  *)
(* `running' in its finally.                                               *)
Leave(D) ==
  /\ pc'    = [d \in Drains |-> IF d \in D THEN "idle" ELSE pc[d]]
  /\ batch' = [d \in Drains |-> IF d \in D THEN {} ELSE batch[d]]
  /\ seen'  = [d \in Drains |-> IF d \in D THEN 0 ELSE seen[d]]
  /\ running' = (running /\ D \cap Ticks = {})

Goto(d, stage) == pc' = [pc EXCEPT ![d] = stage]

(* A message arrives: the dispatcher appends it.                           *)
Receive(m) ==
  /\ OutboxAppend(m)
  /\ UNCHANGED <<bridgeVars, faults>>

(* handleOutbox, first half: the oldest entries, read without removing     *)
(* them.  The interval's drains start only while none is running.          *)
BeginDrainUnguarded(d, limit) ==
  /\ pc[d] = "idle"
  /\ running' = (running \/ d \in Ticks)
  /\ batch' = [batch EXCEPT ![d] = Pending(limit)]
  /\ Goto(d, "reading")
  /\ UNCHANGED <<outboxVars, seen, archived, lastDropped, routed, reported, faults>>

BeginDrain(d, limit) ==
  /\ pc[d] = "idle"
  /\ d \in Ticks => ~running
  /\ running' = (running \/ d \in Ticks)
  /\ batch' = [batch EXCEPT ![d] = Pending(limit)]
  /\ Goto(d, "reading")
  /\ UNCHANGED <<outboxVars, seen, archived, lastDropped, routed, reported, faults>>

(* handleOutbox, second half: the counters are a separate query, and the   *)
(* answer reaches drainOnce.                                               *)
ReadStats(d) ==
  /\ pc[d] = "reading"
  /\ seen' = [seen EXCEPT ![d] = dropped]
  /\ Goto(d, IF batch[d] = {} THEN "routing" ELSE "fetched")
  /\ UNCHANGED <<outboxVars, batch, archived, running, lastDropped, routed, reported, faults>>

(* upsertTransportMessages: one transaction, INSERT OR IGNORE; what cannot *)
(* be written is counted and skipped.                                      *)
StoreNewestOnly(d) ==
  /\ pc[d] = "fetched"
  /\ archived' = archived \cup ({log[s] : s \in {t \in batch[d] : IsHighest(t, batch[d])}}
                               \cap Storable)
  /\ Goto(d, "stored")
  /\ UNCHANGED <<outboxVars, batch, seen, running, lastDropped, routed, reported, faults>>

StoreAndRoute(d) ==
  /\ pc[d] = "fetched"
  /\ archived' = archived \cup ({log[s] : s \in batch[d]} \cap Storable)
  /\ Goto(d, "routing")
  /\ UNCHANGED <<outboxVars, batch, seen, running, lastDropped, routed, reported, faults>>

Store(d) ==
  /\ pc[d] = "fetched"
  /\ archived' = archived \cup ({log[s] : s \in batch[d]} \cap Storable)
  /\ Goto(d, "stored")
  /\ UNCHANGED <<outboxVars, batch, seen, running, lastDropped, routed, reported, faults>>

(* handleAck: the transport forgets everything up to the batch's highest.  *)
AckRequest(d) ==
  /\ pc[d] = "stored"
  /\ \E through \in batch[d] : IsHighest(through, batch[d]) /\ OutboxAck(through)
  /\ Goto(d, "acked")
  /\ UNCHANGED <<batch, seen, archived, running, lastDropped, routed, reported, faults>>

(* The ack's answer: a drain without onMessage has nothing left to do.     *)
AckReply(d) ==
  /\ pc[d] = "acked"
  /\ batch' = [batch EXCEPT ![d] = IF d \in Ticks THEN @ ELSE {}]
  /\ Goto(d, "routing")
  /\ UNCHANGED <<outboxVars, seen, archived, running, lastDropped, routed, reported, faults>>

(* onMessage for the next entry, awaited; what it throws is swallowed.     *)
Route(d) ==
  /\ pc[d] = "routing"
  /\ \E s \in batch[d] :
       /\ IsLowest(s, batch[d])
       /\ routed' = Append(routed, s)
       /\ batch' = [batch EXCEPT ![d] = @ \ {s}]
  /\ UNCHANGED <<outboxVars, pc, seen, archived, running, lastDropped, reported, faults>>

ReportGapOnce(d) ==
  IF d \in Ticks /\ seen[d] > 0 /\ lastDropped = 0
    THEN /\ lastDropped' = seen[d]
         /\ reported' = IF seen[d] > reported THEN seen[d] ELSE reported
    ELSE UNCHANGED <<lastDropped, reported>>

(* The rest of a tick: report a gap that is not the one already reported.  *)
ReportGap(d) ==
  IF d \in Ticks /\ seen[d] > 0 /\ seen[d] # lastDropped
    THEN /\ lastDropped' = seen[d]
         /\ reported' = IF seen[d] > reported THEN seen[d] ELSE reported
    ELSE UNCHANGED <<lastDropped, reported>>

FinishStuck(d) ==
  /\ pc[d] = "routing"
  /\ batch[d] = {}
  /\ ReportGap(d)
  /\ pc' = [pc EXCEPT ![d] = "idle"]
  /\ seen' = [seen EXCEPT ![d] = 0]
  /\ UNCHANGED <<outboxVars, batch, running, archived, routed, faults>>

Finish(d) ==
  /\ pc[d] = "routing"
  /\ batch[d] = {}
  /\ ReportGap(d)
  /\ Leave({d})
  /\ UNCHANGED <<outboxVars, archived, routed, faults>>

-----------------------------------------------------------------------------
Fault ==
  /\ faults < MaxFaults
  /\ faults' = faults + 1

(* drainOnce throws: the fetch failed ("reading"), the store threw         *)
(* ("fetched"), the ack never arrived ("stored"), or the ack was applied   *)
(* and its answer was lost ("acked").  Nothing after the throw happens:    *)
(* no ack, no onMessage, no gap report.                                    *)
Fail(d) ==
  /\ Fault
  /\ pc[d] \in {"reading", "fetched", "stored", "acked"}
  /\ Leave({d})
  /\ UNCHANGED <<outboxVars, archived, lastDropped, routed, reported>>

(* The bridge dies: every drain and the loop's memory are gone, the        *)
(* archive stays.                                                          *)
BridgeCrash ==
  /\ Fault
  /\ Leave(Drains)
  /\ lastDropped' = 0
  /\ UNCHANGED <<outboxVars, archived, routed, reported>>

(* The transport restarts, perhaps with another capacity: a fetch it was   *)
(* answering fails, the file survives.                                     *)
TransportRestart(c) ==
  /\ Fault
  /\ OutboxReopen(c)
  /\ Leave({d \in Drains : pc[d] = "reading"})
  /\ UNCHANGED <<archived, lastDropped, routed, reported>>

-----------------------------------------------------------------------------
HandoffInit ==
  /\ OutboxInit
  /\ pc = [d \in Drains |-> "idle"]
  /\ batch = [d \in Drains |-> {}]
  /\ seen = [d \in Drains |-> 0]
  /\ archived = {}
  /\ running = FALSE
  /\ lastDropped = 0
  /\ routed = << >>
  /\ reported = 0
  /\ faults = 0

Continue(d) ==
  ReadStats(d) \/ Store(d) \/ AckRequest(d) \/ AckReply(d) \/ Route(d) \/ Finish(d)

HandoffNext ==
  \/ \E m \in Messages : Receive(m)
  \/ \E d \in Drains : (\E limit \in Limits : BeginDrain(d, limit)) \/ Continue(d) \/ Fail(d)
  \/ BridgeCrash
  \/ \E c \in Capacities : TransportRestart(c)

HandoffSpec == HandoffInit /\ [][HandoffNext]_handoffVars

(* The interval keeps firing (setInterval), so some tick starts whenever   *)
(* none is running, and a suspended drain is resumed when its await        *)
(* settles (every request has a timeout).  Nothing is assumed of arrivals, *)
(* of manual drains or of faults.                                          *)
HandoffFairness ==
  /\ WF_handoffVars(\E d \in Ticks, limit \in Limits : BeginDrain(d, limit))
  /\ \A d \in Drains : WF_handoffVars(Continue(d))

FairHandoffSpec == HandoffSpec /\ HandoffFairness

-----------------------------------------------------------------------------
HandoffTypeOK ==
  /\ OutboxTypeOK
  /\ pc \in [Drains -> Stages]
  /\ batch \in [Drains -> SUBSET Appended]
  /\ seen \in [Drains -> Nat]
  /\ archived \subseteq Storable
  /\ running \in BOOLEAN
  /\ lastDropped \in Nat
  /\ routed \in Seq(Appended)
  /\ reported \in Nat
  /\ faults \in 0..MaxFaults

(* Nothing disappears unaccounted: an entry that left the queue is in the  *)
(* archive, was counted as dropped, or is one the archive cannot write.    *)
(* This is "pull and acknowledge, not push and hope" (transport.js), with  *)
(* overlapping drains, lost answers, crashes and evictions in between.     *)
NoSilentLoss ==
  \A s \in Appended :
    s \in queue \/ s \in evicted \/ log[s] \in archived \cup (Messages \ Storable)

(* A batch is handed to the self-chat router at most once per entry and in *)
(* the order the entries were queued, whatever drains overlap or fail: a   *)
(* command is never executed twice because a batch was replayed.           *)
RoutedInOrder ==
  \A i, j \in DOMAIN routed : i < j => routed[i] < routed[j]

(* The router sees a message only after the archive has it and the queue   *)
(* has let go of it (transport.js, the comment on onMessage).              *)
RoutedAfterStored ==
  \A i \in DOMAIN routed :
    /\ routed[i] \notin queue
    /\ log[routed[i]] \in archived \cup (Messages \ Storable)

(* Every received entry eventually leaves the queue: no failure, crash or  *)
(* overlap leaves the loop unable to drain again.                          *)
QueueDrains == \A n \in 1..MaxAppends : (n \in queue) ~> (n \notin queue)

(* Every drop is eventually reported, in full, by some bridge process: the *)
(* gap after a reported gap as well, whatever the loop remembers of the    *)
(* last one.                                                               *)
GapReported == \A n \in 1..MaxAppends : (dropped >= n) ~> (reported >= n)

(* What all of this implements: see HandoffContract.                       *)
Contract == INSTANCE HandoffContract WITH
  received <- log, owed <- queue, lost <- evicted, archive <- archived

ImplementsContract == Contract!Spec

-----------------------------------------------------------------------------
(* A claim of a comment that the code does not keep; see README, findings. *)

(* A self-chat message passes through the drain like any other and is      *)
(* answered there (whatsapp.js:354-355): what a drain acknowledged is      *)
(* routed, unless some failure intervened.                                 *)
AcknowledgedIsRouted ==
  \A n \in 1..MaxAppends :
    (n \in Appended /\ n \notin queue /\ n \notin evicted /\ faults = 0)
      ~> (faults > 0 \/ \E i \in DOMAIN routed : routed[i] = n)
=============================================================================
