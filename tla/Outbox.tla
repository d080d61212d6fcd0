------------------------------- MODULE Outbox -------------------------------
(***************************************************************************)
(* The transport's durable queue: whatsapp-transport/internal/outbox.      *)
(*                                                                         *)
(* One SQLite file with a single connection, so every operation is one     *)
(* atomic step.  AUTOINCREMENT never reuses a sequence number, so the n-th *)
(* message ever appended is entry n: `log' keeps all of them (a history    *)
(* variable: the table holds only the rows whose numbers are in `queue').  *)
(***************************************************************************)
EXTENDS Integers, Sequences, FiniteSets

CONSTANTS
  Messages,     \* what the dispatcher can describe and hand over
  Capacities,   \* the capacities an operator may start the transport with
  MaxAppends    \* BOUND: how many messages are ever appended

ASSUME OutboxAssumption ==
  /\ Capacities \subseteq Nat \ {0}
  /\ Capacities # {}
  /\ MaxAppends \in Nat

VARIABLES
  log,       \* history: log[n] is the message that became entry n
  queue,     \* the entries still in the table
  dropped,   \* outbox_meta.dropped: durable, never reset
  evicted,   \* history: the entries evict() removed
  capacity   \* the capacity this process was started with

outboxVars == <<log, queue, dropped, evicted, capacity>>

Appended == 1..Len(log)

-----------------------------------------------------------------------------
(* "ORDER BY seq LIMIT k": the k members of S with the smallest numbers;   *)
(* none when k <= 0.                                                       *)
Oldest(S, k) == {s \in S : Cardinality({t \in S : t < s}) < k}

(* A mutated form: the newest entries go first.                            *)
Newest(S, k) == {s \in S : Cardinality({t \in S : t > s}) < k}

Pending(limit) == Oldest(queue, limit)

(* A mutated form: without the early return when there is room left.       *)
ExcessUnclamped(S) == Cardinality(S) - capacity

(* A mutated form: the row just inserted is not counted.                   *)
ExcessBeforeInsert(S) == LET over == Cardinality(S) - 1 - capacity
                         IN  IF over <= 0 THEN 0 ELSE over

(* How far a queue of this size is over capacity.                          *)
Excess(S) == LET over == Cardinality(S) - capacity
             IN  IF over <= 0 THEN 0 ELSE over

(* evict: trim the table S, which already holds the new row.  What the     *)
(* DELETE removes and what the UPDATE counts are computed separately, as   *)
(* in the code.                                                            *)
EvictNewest(S) ==
  /\ queue'   = S \ Newest(S, Excess(S))
  /\ evicted' = evicted \cup Newest(S, Excess(S))
  /\ dropped' = dropped + Excess(S)

EvictUncounted(S) ==
  /\ queue'   = S \ Oldest(S, Excess(S))
  /\ evicted' = evicted \cup Oldest(S, Excess(S))
  /\ UNCHANGED dropped

Evict(S) ==
  /\ queue'   = S \ Oldest(S, Excess(S))
  /\ evicted' = evicted \cup Oldest(S, Excess(S))
  /\ dropped' = dropped + Excess(S)

(* Append: insert and evict in one transaction.                            *)
OutboxAppend(m) ==
  /\ Len(log) < MaxAppends
  /\ log' = Append(log, m)
  /\ Evict(queue \cup {Len(log) + 1})
  /\ UNCHANGED capacity

(* Ack: forget everything up to and including `through'.  Idempotent.      *)
AckExactly(through) ==
  /\ queue' = queue \ {through}
  /\ UNCHANGED <<log, dropped, evicted, capacity>>

OutboxAck(through) ==
  /\ queue' = {s \in queue : s > through}
  /\ UNCHANGED <<log, dropped, evicted, capacity>>

(* Open on an existing file, with whatever capacity the environment now    *)
(* names.  Nothing is evicted here: the next append does that.             *)
OutboxReopen(c) ==
  /\ capacity' = c
  /\ UNCHANGED <<log, queue, dropped, evicted>>

-----------------------------------------------------------------------------
OutboxInit ==
  /\ log = << >>
  /\ queue = {}
  /\ dropped = 0
  /\ evicted = {}
  /\ capacity \in Capacities

(* On its own, the queue makes no assumption about what its consumer acks. *)
OutboxNext ==
  \/ \E m \in Messages : OutboxAppend(m)
  \/ \E through \in 0..MaxAppends : OutboxAck(through)
  \/ \E c \in Capacities : OutboxReopen(c)

OutboxSpec == OutboxInit /\ [][OutboxNext]_outboxVars

-----------------------------------------------------------------------------
OutboxTypeOK ==
  /\ log \in Seq(Messages)
  /\ queue \subseteq Appended
  /\ dropped \in Nat
  /\ evicted \subseteq Appended
  /\ capacity \in Capacities

(* The table is always the tail of what was ever appended: eviction and    *)
(* acknowledgement only ever eat it from the old end, so a batch read from *)
(* it leaves no hole behind that a cumulative ack would swallow.           *)
QueueIsSuffix ==
  \A s \in queue : \A t \in Appended : t > s => t \in queue

(* `dropped' is exact about evictions, across restarts and capacity        *)
(* changes: outbox.go:74 calls it the only record that a gap exists.       *)
DropsAreCounted == dropped = Cardinality(evicted)

(* No append ends over the capacity in force, whatever capacities earlier  *)
(* processes ran with: one append trims a backlog of any size (outbox.go). *)
AppendRespectsCapacity ==
  [][Len(log') > Len(log) => Cardinality(queue') <= capacity']_outboxVars
=============================================================================
