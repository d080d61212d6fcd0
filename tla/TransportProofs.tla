-------------------------- MODULE TransportProofs --------------------------
(***************************************************************************)
(* Theorems about the outbox and the hand-over, for every set of messages, *)
(* every number of drains, appends, capacities, batch sizes and faults.    *)
(*                                                                         *)
(* The outbox: the table is always one interval lo..Len(log) of sequence   *)
(* numbers. On an interval the oldest k entries are the first k numbers,   *)
(* so an eviction removes exactly as many rows as it counts.               *)
(*                                                                         *)
(* The hand-over: NoSilentLoss is not inductive: an acknowledgement is     *)
(* cumulative, so it is harmless only because a batch is an old end of the *)
(* queue (nothing older is left out of it) and because the whole batch has *)
(* been dealt with before the acknowledgement is sent. BatchInv says both. *)
(* That every entry is routed once and in order rests on there being one   *)
(* tick at a time (RunningInv) and on routed entries lying behind          *)
(* everything still queued or fetched (RouteInv).                          *)
(*                                                                         *)
(* The session's safety properties for every set of histories and every    *)
(* bound.  None of them is inductive by itself: between two steps of one   *)
(* record the counters are allowed to disagree, by exactly what DispatchInv *)
(* says, and a status poll may have read one half of what it reports.      *)
(***************************************************************************)
EXTENDS Handoff, Session, SequenceTheorems, FiniteSetTheorems, TLAPS

QueueIsInterval == \E lo \in 1..Len(log) + 1 : queue = lo..Len(log)

EvictedIsGone == evicted \cap queue = {}

(* The inductive invariant.                                                *)
OutboxInv ==
  /\ OutboxTypeOK
  /\ QueueIsInterval
  /\ EvictedIsGone
  /\ DropsAreCounted

-----------------------------------------------------------------------------
(* A run of k consecutive numbers has k members.                           *)
LEMMA CardinalityOfRun ==
  ASSUME NEW a \in Nat, NEW k \in Nat
  PROVE  IsFiniteSet(a..(a + k - 1)) /\ Cardinality(a..(a + k - 1)) = k
<1> DEFINE b == a + k - 1
<1>1. a \in Int /\ b \in Int
  OBVIOUS
<1>2. b - a + 1 = k /\ (a > b => k = 0)
  OBVIOUS
<1> HIDE DEF b
<1>3. IsFiniteSet(a..b) /\ Cardinality(a..b) = IF a > b THEN 0 ELSE b - a + 1
  BY <1>1, FS_Interval
<1>4. IsFiniteSet(a..b) /\ Cardinality(a..b) = k
  BY <1>2, <1>3
<1> QED
  BY <1>4 DEF b

(* The oldest k of an interval of numbers are its first k: what "ORDER BY  *)
(* seq LIMIT k" selects from the table.                                    *)
LEMMA OldestOfInterval ==
  ASSUME NEW lo \in Nat, NEW hi \in Nat, NEW k \in 0..(hi - lo + 1)
  PROVE  Oldest(lo..hi, k) = lo..(lo + k - 1)
<1>1. ASSUME NEW s \in lo..hi
      PROVE  Cardinality({t \in lo..hi : t < s}) = s - lo
  <2> DEFINE below == {t \in lo..hi : t < s}
             d == s - lo
  <2>1. below = lo..(lo + d - 1)
    OBVIOUS
  <2>2. d \in Nat
    OBVIOUS
  <2> HIDE DEF below, d
  <2>3. Cardinality(lo..(lo + d - 1)) = d
    BY <2>2, CardinalityOfRun
  <2>4. Cardinality(below) = d
    BY <2>1, <2>3, Zenon
  <2> QED
    BY <2>4 DEF below, d
<1>2. Oldest(lo..hi, k) = {s \in lo..hi : s - lo < k}
  BY <1>1 DEF Oldest
<1>3. {s \in lo..hi : s - lo < k} \subseteq lo..(lo + k - 1)
  OBVIOUS
<1>4. lo..(lo + k - 1) \subseteq {s \in lo..hi : s - lo < k}
  OBVIOUS
<1> QED
  BY <1>2, <1>3, <1>4

(* Taking the oldest k rows out of an interval leaves an interval, k rows  *)
(* shorter; exactly k rows are taken.                                      *)
LEMMA EvictInterval ==
  ASSUME NEW lo \in Nat, NEW hi \in Nat, lo <= hi,
         NEW k \in 0..(hi - lo)
  PROVE  /\ Oldest(lo..hi, k) = lo..(lo + k - 1)
         /\ IsFiniteSet(Oldest(lo..hi, k))
         /\ Cardinality(Oldest(lo..hi, k)) = k
         /\ (lo..hi) \ Oldest(lo..hi, k) = (lo + k)..hi
         /\ Cardinality((lo + k)..hi) = hi - lo + 1 - k
<1> DEFINE out == lo..(lo + k - 1)
<1>1. Oldest(lo..hi, k) = out
  BY OldestOfInterval
<1>2. (lo..hi) \ out = (lo + k)..hi
  OBVIOUS
<1>3. Cardinality((lo + k)..hi) = hi - lo + 1 - k
  BY FS_Interval
<1>4. IsFiniteSet(out) /\ Cardinality(out) = k
  BY CardinalityOfRun
<1> HIDE DEF out
<1>5. IsFiniteSet(Oldest(lo..hi, k)) /\ Cardinality(Oldest(lo..hi, k)) = k
  BY <1>1, <1>4, Zenon
<1> QED
  BY <1>1, <1>2, <1>3, <1>5 DEF out

-----------------------------------------------------------------------------
LEMMA OutboxInitInv == OutboxInit => OutboxInv
<1> SUFFICES ASSUME OutboxInit PROVE OutboxInv
  OBVIOUS
<1>1. OutboxTypeOK
  BY DEF OutboxInit, OutboxTypeOK, Appended
<1>2. QueueIsInterval
  BY DEF OutboxInit, QueueIsInterval
<1>3. EvictedIsGone /\ DropsAreCounted
  BY FS_EmptySet DEF OutboxInit, EvictedIsGone, DropsAreCounted
<1> QED
  BY <1>1, <1>2, <1>3 DEF OutboxInv

(* What an append does to a table that satisfies the invariant.            *)
LEMMA AppendStep ==
  ASSUME OutboxInv, NEW m \in Messages, OutboxAppend(m)
  PROVE  OutboxInv' /\ Cardinality(queue') <= capacity'
<1> USE OutboxAssumption
<1> DEFINE n == Len(log) + 1
<1>0. /\ log \in Seq(Messages) /\ Len(log) \in Nat /\ n \in Nat /\ n = Len(log')
      /\ log' \in Seq(Messages)
      /\ capacity' = capacity /\ capacity \in Capacities /\ capacity \in Nat \ {0}
      /\ dropped \in Nat
      /\ queue \subseteq 1..Len(log) /\ evicted \subseteq 1..Len(log)
  BY DEF OutboxInv, OutboxTypeOK, OutboxAppend, Appended
<1>1. PICK lo \in 1..n : queue = lo..Len(log)
  BY DEF OutboxInv, QueueIsInterval
<1>2. queue \cup {n} = lo..n
  BY <1>0, <1>1
<1>3. Evict(lo..n)
  BY <1>2 DEF OutboxAppend
<1>4. IsFiniteSet(evicted)
  <2>1. IsFiniteSet(1..Len(log))
    BY <1>0, FS_Interval
  <2> QED
    BY <1>0, <2>1, FS_Subset
<1>5. evicted \cap (lo..n) = {} /\ dropped = Cardinality(evicted)
  BY <1>0, <1>1 DEF OutboxInv, EvictedIsGone, DropsAreCounted
<1> DEFINE k == Excess(lo..n)
<1>6. /\ k \in 0..(n - lo)
      /\ queue' = (lo + k)..n
      /\ Cardinality(queue') <= capacity
      /\ evicted' = evicted \cup (lo..(lo + k - 1))
      /\ dropped' = dropped + k
      /\ dropped' = Cardinality(evicted')
  <2>1. lo \in Nat /\ n \in Nat /\ lo <= n
    BY <1>0, <1>1
  <2>2. Cardinality(lo..n) = n - lo + 1
    BY <2>1, FS_Interval
  <2>3. k \in 0..(n - lo) /\ n - lo + 1 - k <= capacity
    BY <1>0, <2>1, <2>2 DEF Excess
  <2>4. /\ queue' = (lo..n) \ Oldest(lo..n, k)
        /\ evicted' = evicted \cup Oldest(lo..n, k)
        /\ dropped' = dropped + k
    BY <1>3 DEF Evict
  <2> HIDE DEF n, k
  <2>5. /\ Oldest(lo..n, k) = lo..(lo + k - 1)
        /\ IsFiniteSet(Oldest(lo..n, k))
        /\ Cardinality(Oldest(lo..n, k)) = k
        /\ (lo..n) \ Oldest(lo..n, k) = (lo + k)..n
        /\ Cardinality((lo + k)..n) = n - lo + 1 - k
    BY <2>1, <2>3, EvictInterval
  <2>6. Cardinality(evicted \cup Oldest(lo..n, k)) = Cardinality(evicted) + k
    <3>1. evicted \cap Oldest(lo..n, k) = {}
      BY <1>5, <2>1, <2>3, <2>5
    <3>2. Cardinality(evicted \cup Oldest(lo..n, k))
            = Cardinality(evicted) + Cardinality(Oldest(lo..n, k))
                - Cardinality(evicted \cap Oldest(lo..n, k))
      BY <1>4, <2>5, FS_Union
    <3>3. Cardinality(evicted \cap Oldest(lo..n, k)) = 0 /\ Cardinality(evicted) \in Nat
      BY <1>4, <3>1, FS_EmptySet, FS_CardinalityType
    <3> QED
      BY <2>3, <2>5, <3>2, <3>3
  <2> QED
    BY <2>3, <2>4, <2>5, <2>6, <1>5
<1> HIDE DEF n, k
<1>7. OutboxTypeOK'
  <2>1. queue' \subseteq 1..n /\ evicted' \subseteq 1..n /\ dropped' \in Nat
    BY <1>0, <1>1, <1>6 DEF n
  <2> QED
    BY <1>0, <2>1 DEF OutboxTypeOK, Appended
<1>8. QueueIsInterval'
  <2>1. lo + k \in 1..(n + 1)
    BY <1>0, <1>1, <1>6
  <2> QED
    BY <1>0, <1>6, <2>1 DEF QueueIsInterval
<1>9. EvictedIsGone'
  BY <1>0, <1>1, <1>5, <1>6 DEF EvictedIsGone
<1>10. DropsAreCounted'
  BY <1>6 DEF DropsAreCounted
<1> QED
  BY <1>0, <1>6, <1>7, <1>8, <1>9, <1>10 DEF OutboxInv

(* An acknowledgement cuts the interval at its old end, wherever it falls. *)
LEMMA AckStep ==
  ASSUME OutboxInv, NEW through \in Nat, OutboxAck(through)
  PROVE  OutboxInv'
<1>0. Len(log) \in Nat /\ log' = log /\ evicted' = evicted /\ dropped' = dropped
      /\ capacity' = capacity
  BY DEF OutboxInv, OutboxTypeOK, OutboxAck
<1>1. PICK lo \in 1..Len(log) + 1 : queue = lo..Len(log)
  BY DEF OutboxInv, QueueIsInterval
<1>2. queue' = {s \in lo..Len(log) : s > through}
  BY <1>1 DEF OutboxAck
<1>3. queue' \subseteq queue
  BY <1>1, <1>2
<1>4. OutboxTypeOK' /\ EvictedIsGone' /\ DropsAreCounted'
  BY <1>0, <1>3 DEF OutboxInv, OutboxTypeOK, EvictedIsGone, DropsAreCounted, Appended
<1>5. QueueIsInterval'
  <2>1. CASE through < lo
    <3>1. queue' = lo..Len(log)
      BY <1>0, <1>2, <2>1
    <3> QED
      BY <1>0, <3>1 DEF QueueIsInterval
  <2>2. CASE through >= lo /\ through <= Len(log)
    <3>1. queue' = (through + 1)..Len(log) /\ through + 1 \in 1..Len(log) + 1
      BY <1>0, <1>2, <2>2
    <3> QED
      BY <1>0, <3>1 DEF QueueIsInterval
  <2>3. CASE through > Len(log)
    <3>1. queue' = (Len(log) + 1)..Len(log)
      BY <1>0, <1>2, <2>3
    <3> QED
      BY <1>0, <3>1 DEF QueueIsInterval
  <2> QED
    BY <1>0, <1>1, <2>1, <2>2, <2>3
<1> QED
  BY <1>4, <1>5 DEF OutboxInv

(* A restart with another capacity leaves the table as it is.              *)
LEMMA ReopenStep ==
  ASSUME OutboxInv, NEW c \in Capacities, OutboxReopen(c)
  PROVE  OutboxInv'
BY DEF OutboxInv, OutboxTypeOK, Appended, QueueIsInterval, EvictedIsGone,
       DropsAreCounted, OutboxReopen

LEMMA OutboxStutter ==
  ASSUME OutboxInv, UNCHANGED outboxVars
  PROVE  OutboxInv'
BY DEF OutboxInv, OutboxTypeOK, Appended, QueueIsInterval, EvictedIsGone,
       DropsAreCounted, outboxVars

LEMMA OutboxNextInv == OutboxInv /\ [OutboxNext]_outboxVars => OutboxInv'
<1> SUFFICES ASSUME OutboxInv, [OutboxNext]_outboxVars PROVE OutboxInv'
  OBVIOUS
<1>1. CASE \E m \in Messages : OutboxAppend(m)
  BY <1>1, AppendStep
<1>2. CASE \E through \in 0..MaxAppends : OutboxAck(through)
  BY <1>2, AckStep, OutboxAssumption
<1>3. CASE \E c \in Capacities : OutboxReopen(c)
  BY <1>3, ReopenStep
<1>4. CASE UNCHANGED outboxVars
  BY <1>4, OutboxStutter
<1> QED
  BY <1>1, <1>2, <1>3, <1>4 DEF OutboxNext

\* Whatever is appended, acknowledged and reopened, the queue is the newest end
\* of the log and what it lost is counted once (outbox.go).
THEOREM OutboxInvariant == OutboxSpec => []OutboxInv
<1> QED
  BY OutboxInitInv, OutboxNextInv, PTL DEF OutboxSpec

-----------------------------------------------------------------------------
(* Every variable keeps its type.                                          *)
THEOREM OutboxTypeCorrect == OutboxSpec => []OutboxTypeOK
<1>1. OutboxInv => OutboxTypeOK
  BY DEF OutboxInv
<1> QED
  BY <1>1, OutboxInvariant, PTL

(* The table is always the tail of what was ever appended, so a cumulative *)
(* acknowledgement of a batch never covers an entry that was not in it.    *)
THEOREM QueueStaysSuffix == OutboxSpec => []QueueIsSuffix
<1>1. OutboxInv => QueueIsSuffix
  <2> SUFFICES ASSUME OutboxInv PROVE QueueIsSuffix
    OBVIOUS
  <2>1. Len(log) \in Nat
    BY DEF OutboxInv, OutboxTypeOK
  <2>2. PICK lo \in 1..Len(log) + 1 : queue = lo..Len(log)
    BY DEF OutboxInv, QueueIsInterval
  <2> QED
    BY <2>1, <2>2 DEF QueueIsSuffix, Appended
<1> QED
  BY <1>1, OutboxInvariant, PTL

(* The durable counter equals the number of rows ever evicted, through     *)
(* restarts, changes of capacity and any acknowledgements.                 *)
THEOREM DropsStayCounted == OutboxSpec => []DropsAreCounted
<1>1. OutboxInv => DropsAreCounted
  BY DEF OutboxInv
<1> QED
  BY <1>1, OutboxInvariant, PTL

(* An append never ends over the capacity in force.                        *)
THEOREM AppendKeepsCapacity == OutboxSpec => AppendRespectsCapacity
<1>1. ASSUME OutboxInv, [OutboxNext]_outboxVars
      PROVE  [Len(log') > Len(log) => Cardinality(queue') <= capacity']_outboxVars
  <2>0. Len(log) \in Nat
    BY <1>1 DEF OutboxInv, OutboxTypeOK
  <2>1. CASE \E m \in Messages : OutboxAppend(m)
    BY <1>1, <2>1, AppendStep
  <2>2. CASE \E through \in 0..MaxAppends : OutboxAck(through)
    BY <2>0, <2>2 DEF OutboxAck
  <2>3. CASE \E c \in Capacities : OutboxReopen(c)
    BY <2>0, <2>3 DEF OutboxReopen
  <2>4. CASE UNCHANGED outboxVars
    BY <2>4
  <2> QED
    BY <1>1, <2>1, <2>2, <2>3, <2>4 DEF OutboxNext
<1> QED
  BY <1>1, OutboxInvariant, PTL DEF OutboxSpec, AppendRespectsCapacity

-----------------------------------------------------------------------------
DealtWith(s) == log[s] \in archived \cup (Messages \ Storable)

(* What a drain may rely on while it is suspended.                         *)
BatchInv ==
  \A d \in Drains :
    /\ pc[d] = "idle" => batch[d] = {}
    /\ pc[d] \in {"reading", "fetched", "stored"} =>
         \A s \in queue, t \in batch[d] : s <= t => s \in batch[d]
    /\ pc[d] \in {"stored", "acked", "routing"} => \A s \in batch[d] : DealtWith(s)
    /\ pc[d] \in {"acked", "routing"} => \A s \in batch[d], t \in queue : s < t
    /\ pc[d] = "routing" /\ d \in Manuals => batch[d] = {}

RunningInv ==
  \A d \in Ticks : pc[d] # "idle" =>
    running /\ \A e \in Ticks : pc[e] # "idle" => e = d

RouteInv ==
  \A i \in DOMAIN routed :
    /\ \A s \in queue : routed[i] < s
    /\ \A d \in Ticks : \A s \in batch[d] : routed[i] < s
    /\ DealtWith(routed[i])

(* The inductive invariant.                                                *)
HandoffInv ==
  /\ OutboxInv
  /\ HandoffTypeOK
  /\ NoSilentLoss
  /\ BatchInv
  /\ RunningInv
  /\ RouteInv
  /\ RoutedInOrder

-----------------------------------------------------------------------------
(* The oldest k of a set of numbers are an old end of it: whatever is older *)
(* than a member of the batch is in the batch.                             *)
LEMMA OldestIsOldEnd ==
  ASSUME NEW S, IsFiniteSet(S), S \subseteq Nat, NEW k \in Nat
  PROVE  /\ Oldest(S, k) \subseteq S
         /\ \A s \in S, t \in Oldest(S, k) : s <= t => s \in Oldest(S, k)
<1>1. Oldest(S, k) \subseteq S
  BY DEF Oldest
<1>2. ASSUME NEW s \in S, NEW t \in Oldest(S, k), s <= t
      PROVE  s \in Oldest(S, k)
  <2> DEFINE Below(u) == {v \in S : v < u}
  <2>1. t \in S /\ Cardinality(Below(t)) < k
    BY DEF Oldest
  <2>2. Below(s) \subseteq Below(t) /\ Below(t) \subseteq S
    <3>1. s \in Nat /\ t \in Nat /\ s <= t /\ \A v \in S : v \in Nat
      BY <1>2, <2>1
    <3>2. ASSUME NEW v \in Below(s) PROVE v \in Below(t)
      <4>1. v \in S /\ v \in Nat /\ v < s
        BY <3>1
      <4> QED
        BY <3>1, <4>1
    <3>3. Below(t) \subseteq S
      OBVIOUS
    <3> QED
      BY <3>2, <3>3
  <2>3. IsFiniteSet(Below(t))
    BY <2>2, FS_Subset
  <2>4. Cardinality(Below(s)) <= Cardinality(Below(t)) /\ IsFiniteSet(Below(s))
    BY <2>2, <2>3, FS_Subset
  <2>5. Cardinality(Below(s)) \in Nat /\ Cardinality(Below(t)) \in Nat
    BY <2>3, <2>4, FS_CardinalityType
  <2>6. Cardinality(Below(s)) < k
    BY <2>1, <2>4, <2>5
  <2> QED
    BY <2>6 DEF Oldest
<1> QED
  BY <1>1, <1>2

(* What a fetch may return.                                                *)
LEMMA PendingIsOldEnd ==
  ASSUME OutboxInv, NEW limit \in Limits
  PROVE  /\ Pending(limit) \subseteq queue
         /\ \A s \in queue, t \in Pending(limit) : s <= t => s \in Pending(limit)
<1>1. Len(log) \in Nat /\ queue \subseteq 1..Len(log)
  BY DEF OutboxInv, OutboxTypeOK, Appended
<1>2. IsFiniteSet(1..Len(log))
  BY <1>1, FS_Interval
<1>3. IsFiniteSet(queue)
  BY <1>1, <1>2, FS_Subset
<1>4. queue \subseteq Nat
  BY <1>1
<1>5. limit \in Nat
  BY HandoffAssumption
<1> QED
  BY <1>3, <1>4, <1>5, OldestIsOldEnd DEF Pending

-----------------------------------------------------------------------------
LEMMA HandoffInitInv == HandoffInit => HandoffInv
<1> SUFFICES ASSUME HandoffInit PROVE HandoffInv
  OBVIOUS
<1> USE DEF HandoffInit
<1>1. OutboxInv
  BY OutboxInitInv
<1>2. HandoffTypeOK
  <2>1. faults \in 0..MaxFaults /\ reported \in Nat /\ lastDropped \in Nat
    BY HandoffAssumption
  <2>2. pc \in [Drains -> Stages] /\ seen \in [Drains -> Nat]
    BY DEF Stages
  <2>3. batch \in [Drains -> SUBSET Appended] /\ archived \subseteq Storable /\ running \in BOOLEAN
    OBVIOUS
  <2>4. routed \in Seq(Appended)
    OBVIOUS
  <2> QED
    BY <1>1, <2>1, <2>2, <2>3, <2>4 DEF OutboxInv, HandoffTypeOK
<1>3. Appended = {} /\ queue = {}
  BY DEF OutboxInit, Appended
<1>4. NoSilentLoss /\ BatchInv /\ RunningInv /\ RouteInv /\ RoutedInOrder
  BY <1>3 DEF NoSilentLoss, BatchInv, RunningInv, RouteInv, RoutedInOrder, Drains
<1> QED
  BY <1>1, <1>2, <1>4 DEF HandoffInv

(* An arrival: the new entry is newer than everything fetched or routed.   *)
LEMMA ReceiveStep ==
  ASSUME HandoffInv, NEW m \in Messages, Receive(m)
  PROVE  HandoffInv'
<1> DEFINE n == Len(log) + 1
<1>0. /\ Len(log) \in Nat /\ n = Len(log')
      /\ log' = Append(log, m) /\ log \in Seq(Messages)
      /\ \A s \in 1..Len(log) : log'[s] = log[s]
      /\ UNCHANGED <<bridgeVars, faults>>
      /\ UNCHANGED <<pc, batch, seen, archived, running, lastDropped, routed, reported>>
  BY DEF HandoffInv, OutboxInv, OutboxTypeOK, Receive, OutboxAppend, bridgeVars
<1>1. OutboxInv'
  BY AppendStep DEF HandoffInv, Receive
<1>2. /\ queue' \subseteq queue \cup {n}
      /\ queue \cup {n} \subseteq queue' \cup evicted'
      /\ evicted \subseteq evicted'
  BY DEF Receive, OutboxAppend, Evict
<1>3. queue \subseteq 1..Len(log)
  BY DEF HandoffInv, OutboxInv, OutboxTypeOK, Appended
<1>4. /\ batch \in [Drains -> SUBSET (1..Len(log))]
      /\ routed \in Seq(1..Len(log))
      /\ \A i \in DOMAIN routed : routed[i] \in 1..Len(log)
  BY DEF HandoffInv, HandoffTypeOK, Appended
<1>5. HandoffTypeOK'
  <2>1. 1..Len(log) \subseteq 1..n
    BY <1>0
  <2>2. batch' \in [Drains -> SUBSET (1..n)]
    BY <1>0, <1>4, <2>1
  <2>3. routed' \in Seq(1..n)
    BY <1>0, <1>4, <2>1
  <2> HIDE DEF n
  <2> QED
    BY <1>0, <1>1, <2>2, <2>3 DEF HandoffInv, OutboxInv, HandoffTypeOK, Appended
<1>6. \A s \in 1..Len(log) : DealtWith(s) => DealtWith(s)'
  BY <1>0 DEF DealtWith
<1>7. NoSilentLoss'
  <2> SUFFICES ASSUME NEW s \in 1..n
               PROVE  s \in queue' \/ s \in evicted' \/ DealtWith(s)'
    BY <1>0 DEF NoSilentLoss, Appended, DealtWith
  <2>1. CASE s = n
    BY <1>2, <2>1
  <2>2. CASE s # n
    <3>1. s \in 1..Len(log)
      BY <1>0, <2>2
    <3>2. s \in queue \/ s \in evicted \/ DealtWith(s)
      BY <3>1 DEF HandoffInv, NoSilentLoss, Appended, DealtWith
    <3> QED
      BY <1>2, <1>6, <3>1, <3>2
  <2> QED
    BY <2>1, <2>2
<1>8. BatchInv'
  <2> SUFFICES ASSUME NEW d \in Drains
               PROVE  BatchInv!(d)'
    BY DEF BatchInv
  <2>1. batch[d] \subseteq 1..Len(log)
    BY <1>4
  <2>2. \A t \in batch[d] : t < n
    BY <1>0, <2>1
  <2> HIDE DEF n
  <2> QED
    BY <1>0, <1>2, <1>6, <2>1, <2>2 DEF HandoffInv, BatchInv
<1>9. RunningInv' /\ RoutedInOrder'
  BY <1>0 DEF HandoffInv, RunningInv, RoutedInOrder
<1>10. RouteInv'
  <2> SUFFICES ASSUME NEW i \in DOMAIN routed
               PROVE  RouteInv!(i)'
    BY <1>0 DEF RouteInv
  <2>1. routed[i] \in 1..Len(log) /\ routed[i] < n
    BY <1>0, <1>4
  <2> HIDE DEF n
  <2> QED
    BY <1>0, <1>2, <1>6, <2>1 DEF HandoffInv, RouteInv
<1> QED
  BY <1>1, <1>5, <1>7, <1>8, <1>9, <1>10 DEF HandoffInv

-----------------------------------------------------------------------------
(* A step that leaves the outbox, the archive and the routing history      *)
(* alone keeps everything that is about them.                              *)
LEMMA QuietStep ==
  ASSUME HandoffInv, UNCHANGED <<outboxVars, archived>>
  PROVE  OutboxInv' /\ NoSilentLoss' /\ \A s : DealtWith(s)' <=> DealtWith(s)
<1>1. OutboxInv'
  BY OutboxStutter DEF HandoffInv
<1>2. log' = log /\ queue' = queue /\ evicted' = evicted /\ archived' = archived
  BY DEF outboxVars
<1> QED
  BY <1>1, <1>2 DEF HandoffInv, NoSilentLoss, DealtWith, Appended

(* A fetch is answered: what it returns is an old end of the queue, ahead  *)
(* of everything routed, and no other tick holds a batch.                  *)
LEMMA BeginDrainStep ==
  ASSUME HandoffInv, NEW d \in Drains, NEW limit \in Limits, BeginDrain(d, limit)
  PROVE  HandoffInv'
<1>0. /\ UNCHANGED <<outboxVars, archived>>
      /\ UNCHANGED <<log, queue, seen, archived, lastDropped, routed, reported, faults>>
      /\ pc[d] = "idle" /\ (d \in Ticks => ~running)
      /\ running' = (running \/ d \in Ticks)
      /\ batch' = [batch EXCEPT ![d] = Pending(limit)]
      /\ pc' = [pc EXCEPT ![d] = "reading"]
  BY DEF BeginDrain, Goto, outboxVars
<1>1. OutboxInv' /\ NoSilentLoss' /\ \A s : DealtWith(s)' <=> DealtWith(s)
  BY <1>0, QuietStep
<1>2. /\ Pending(limit) \subseteq queue
      /\ \A s \in queue, t \in Pending(limit) : s <= t => s \in Pending(limit)
  BY PendingIsOldEnd DEF HandoffInv
<1>3. /\ pc \in [Drains -> Stages] /\ batch \in [Drains -> SUBSET Appended]
      /\ queue \subseteq Appended /\ Appended' = Appended
  BY <1>0 DEF HandoffInv, OutboxInv, OutboxTypeOK, HandoffTypeOK, Appended
<1> DEFINE new == Pending(limit)
<1> HIDE DEF new
<1>4. HandoffTypeOK'
  <2>1. batch' \in [Drains -> SUBSET Appended] /\ pc' \in [Drains -> Stages]
    BY <1>0, <1>2, <1>3 DEF Stages
  <2>2. running' \in BOOLEAN
    BY <1>0 DEF HandoffInv, HandoffTypeOK
  <2> QED
    BY <1>0, <1>1, <1>3, <2>1, <2>2 DEF HandoffInv, OutboxInv, HandoffTypeOK
<1>5. BatchInv'
  <2> SUFFICES ASSUME NEW e \in Drains PROVE BatchInv!(e)'
    BY DEF BatchInv
  <2>1. CASE e = d
    BY <1>0, <1>2, <1>3, <2>1
  <2>2. CASE e # d
    BY <1>0, <1>1, <1>3, <2>2 DEF HandoffInv, BatchInv
  <2> QED
    BY <2>1, <2>2
<1>6. RunningInv'
  BY <1>0, <1>3 DEF HandoffInv, RunningInv, Drains
<1>7. RouteInv'
  <2> SUFFICES ASSUME NEW i \in DOMAIN routed PROVE RouteInv!(i)'
    BY <1>0 DEF RouteInv
  <2>1. ASSUME NEW e \in Ticks, NEW s \in batch'[e] PROVE routed[i] < s
    <3>1. CASE e = d
      BY <1>0, <1>2, <1>3, <2>1, <3>1 DEF HandoffInv, RouteInv
    <3>2. CASE e # d
      BY <1>0, <1>3, <2>1, <3>2 DEF HandoffInv, RouteInv, Drains
    <3> QED
      BY <3>1, <3>2
  <2> QED
    BY <1>0, <1>1, <2>1 DEF HandoffInv, RouteInv
<1>8. RoutedInOrder'
  BY <1>0 DEF HandoffInv, RoutedInOrder
<1> QED
  BY <1>1, <1>4, <1>5, <1>6, <1>7, <1>8 DEF HandoffInv

(* The answer reaches the drain: an empty one has nothing to store.        *)
LEMMA ReadStatsStep ==
  ASSUME HandoffInv, NEW d \in Drains, ReadStats(d)
  PROVE  HandoffInv'
<1>0. /\ UNCHANGED <<outboxVars, archived>>
      /\ UNCHANGED <<log, queue, dropped, batch, archived, running, lastDropped, routed, reported, faults>>
      /\ pc[d] = "reading"
      /\ seen' = [seen EXCEPT ![d] = dropped]
      /\ pc' = [pc EXCEPT ![d] = IF batch[d] = {} THEN "routing" ELSE "fetched"]
  BY DEF ReadStats, Goto, outboxVars
<1>1. OutboxInv' /\ NoSilentLoss' /\ \A s : DealtWith(s)' <=> DealtWith(s)
  BY <1>0, QuietStep
<1>2. /\ pc \in [Drains -> Stages] /\ seen \in [Drains -> Nat] /\ dropped \in Nat
      /\ Appended' = Appended
  BY <1>0 DEF HandoffInv, OutboxInv, OutboxTypeOK, HandoffTypeOK, Appended
<1>3. HandoffTypeOK'
  <2>1. seen' \in [Drains -> Nat] /\ pc' \in [Drains -> Stages]
    BY <1>0, <1>2 DEF Stages
  <2> QED
    BY <1>0, <1>1, <1>2, <2>1 DEF HandoffInv, OutboxInv, HandoffTypeOK
<1>4. BatchInv'
  <2> SUFFICES ASSUME NEW e \in Drains PROVE BatchInv!(e)'
    BY DEF BatchInv
  <2>1. CASE e = d
    BY <1>0, <1>2, <2>1 DEF HandoffInv, BatchInv
  <2>2. CASE e # d
    BY <1>0, <1>1, <1>2, <2>2 DEF HandoffInv, BatchInv
  <2> QED
    BY <2>1, <2>2
<1>5. RunningInv'
  BY <1>0, <1>2 DEF HandoffInv, RunningInv, Drains
<1>6. RouteInv' /\ RoutedInOrder'
  BY <1>0, <1>1 DEF HandoffInv, RouteInv, RoutedInOrder
<1> QED
  BY <1>1, <1>3, <1>4, <1>5, <1>6 DEF HandoffInv

(* The batch is written: every entry of it has now been dealt with.        *)
LEMMA StoreStep ==
  ASSUME HandoffInv, NEW d \in Drains, Store(d)
  PROVE  HandoffInv'
<1>0. /\ UNCHANGED outboxVars
      /\ UNCHANGED <<log, queue, evicted, batch, seen, running, lastDropped, routed, reported, faults>>
      /\ pc[d] = "fetched"
      /\ archived' = archived \cup ({log[s] : s \in batch[d]} \cap Storable)
      /\ pc' = [pc EXCEPT ![d] = "stored"]
  BY DEF Store, Goto, outboxVars
<1>1. /\ pc \in [Drains -> Stages] /\ batch \in [Drains -> SUBSET Appended]
      /\ archived \subseteq Storable /\ log \in Seq(Messages) /\ Appended = 1..Len(log)
      /\ Appended' = Appended
  BY <1>0 DEF HandoffInv, OutboxInv, OutboxTypeOK, HandoffTypeOK, Appended
<1>2. OutboxInv'
  BY <1>0, OutboxStutter DEF HandoffInv
<1>3. /\ \A s : DealtWith(s) => DealtWith(s)'
      /\ \A s \in batch[d] : DealtWith(s)'
  <2>1. \A s \in batch[d] : log[s] \in Messages
    BY <1>1
  <2> QED
    BY <1>0, <2>1 DEF DealtWith
<1>4. HandoffTypeOK'
  <2>1. archived' \subseteq Storable /\ pc' \in [Drains -> Stages]
    BY <1>0, <1>1 DEF Stages
  <2> QED
    BY <1>0, <1>1, <1>2, <2>1 DEF HandoffInv, OutboxInv, HandoffTypeOK
<1>5. NoSilentLoss'
  BY <1>0, <1>1, <1>3 DEF HandoffInv, NoSilentLoss, DealtWith
<1>6. BatchInv'
  <2> SUFFICES ASSUME NEW e \in Drains PROVE BatchInv!(e)'
    BY DEF BatchInv
  <2>1. CASE e = d
    BY <1>0, <1>1, <1>3, <2>1 DEF HandoffInv, BatchInv
  <2>2. CASE e # d
    BY <1>0, <1>1, <1>3, <2>2 DEF HandoffInv, BatchInv
  <2> QED
    BY <2>1, <2>2
<1>7. RunningInv'
  BY <1>0, <1>1 DEF HandoffInv, RunningInv, Drains
<1>8. RouteInv' /\ RoutedInOrder'
  BY <1>0, <1>3 DEF HandoffInv, RouteInv, RoutedInOrder
<1> QED
  BY <1>2, <1>4, <1>5, <1>6, <1>7, <1>8 DEF HandoffInv

(* The acknowledgement: everything it removes was in the stored batch.     *)
LEMMA AckRequestStep ==
  ASSUME HandoffInv, NEW d \in Drains, AckRequest(d)
  PROVE  HandoffInv'
<1>0. /\ UNCHANGED <<log, dropped, evicted, capacity>>
      /\ UNCHANGED <<batch, seen, archived, running, lastDropped, routed, reported, faults>>
      /\ pc[d] = "stored"
      /\ pc' = [pc EXCEPT ![d] = "acked"]
  BY DEF AckRequest, Goto, OutboxAck
<1>1. PICK through \in batch[d] : IsHighest(through, batch[d]) /\ OutboxAck(through)
  BY DEF AckRequest
<1>2. /\ pc \in [Drains -> Stages] /\ batch \in [Drains -> SUBSET Appended]
      /\ Len(log) \in Nat /\ Appended = 1..Len(log) /\ Appended' = Appended
      /\ queue \subseteq 1..Len(log)
  BY <1>0 DEF HandoffInv, OutboxInv, OutboxTypeOK, HandoffTypeOK, Appended
<1>3. through \in 1..Len(log) /\ batch[d] \subseteq 1..Len(log)
  BY <1>1, <1>2
<1>4. /\ queue' = {s \in queue : s > through}
      /\ \A t \in batch[d] : t <= through
  BY <1>1 DEF OutboxAck, IsHighest
<1>5. OutboxInv'
  <2>1. through \in Nat
    BY <1>3
  <2> QED
    BY <1>1, <2>1, AckStep DEF HandoffInv
<1>6. \A s : DealtWith(s)' <=> DealtWith(s)
  BY <1>0 DEF DealtWith
<1>7. HandoffTypeOK'
  <2>1. pc' \in [Drains -> Stages]
    BY <1>0, <1>2 DEF Stages
  <2> QED
    BY <1>0, <1>2, <1>5, <2>1 DEF HandoffInv, OutboxInv, HandoffTypeOK
<1>8. NoSilentLoss'
  <2> SUFFICES ASSUME NEW s \in Appended
               PROVE  s \in queue' \/ s \in evicted' \/ DealtWith(s)'
    BY <1>2 DEF NoSilentLoss, DealtWith
  <2>1. CASE s \in queue /\ s <= through
    <3>1. s \in batch[d]
      BY <1>0, <1>1, <2>1 DEF HandoffInv, BatchInv
    <3> QED
      BY <1>0, <1>6, <3>1 DEF HandoffInv, BatchInv
  <2>2. CASE s \in queue /\ ~(s <= through)
    BY <1>2, <1>3, <1>4, <2>2
  <2>3. CASE s \notin queue
    BY <1>0, <1>6, <2>3 DEF HandoffInv, NoSilentLoss, DealtWith
  <2> QED
    BY <2>1, <2>2, <2>3
<1>9. BatchInv'
  <2> SUFFICES ASSUME NEW e \in Drains PROVE BatchInv!(e)'
    BY DEF BatchInv
  <2>0. queue' \subseteq queue
    BY <1>4
  <2>1. CASE e = d
    <3>1. \A s \in batch[d], t \in queue' : s < t
      BY <1>2, <1>3, <1>4
    <3> QED
      BY <1>0, <1>2, <1>6, <2>1, <3>1 DEF HandoffInv, BatchInv
  <2>2. CASE e # d
    BY <1>0, <1>2, <1>6, <2>0, <2>2 DEF HandoffInv, BatchInv
  <2> QED
    BY <2>1, <2>2
<1>10. RunningInv'
  BY <1>0, <1>2 DEF HandoffInv, RunningInv, Drains
<1>11. RouteInv' /\ RoutedInOrder'
  BY <1>0, <1>4, <1>6 DEF HandoffInv, RouteInv, RoutedInOrder
<1> QED
  BY <1>5, <1>7, <1>8, <1>9, <1>10, <1>11 DEF HandoffInv

(* The acknowledgement is answered.                                        *)
LEMMA AckReplyStep ==
  ASSUME HandoffInv, NEW d \in Drains, AckReply(d)
  PROVE  HandoffInv'
<1>0. /\ UNCHANGED <<outboxVars, archived>>
      /\ UNCHANGED <<log, queue, seen, archived, running, lastDropped, routed, reported, faults>>
      /\ pc[d] = "acked"
      /\ batch' = [batch EXCEPT ![d] = IF d \in Ticks THEN @ ELSE {}]
      /\ pc' = [pc EXCEPT ![d] = "routing"]
  BY DEF AckReply, Goto, outboxVars
<1>1. OutboxInv' /\ NoSilentLoss' /\ \A s : DealtWith(s)' <=> DealtWith(s)
  BY <1>0, QuietStep
<1>2. /\ pc \in [Drains -> Stages] /\ batch \in [Drains -> SUBSET Appended]
      /\ Appended' = Appended
  BY <1>0 DEF HandoffInv, HandoffTypeOK, Appended
<1>3. \A e \in Drains : batch'[e] \subseteq batch[e]
  BY <1>0, <1>2
<1>4. HandoffTypeOK'
  <2>1. pc' \in [Drains -> Stages] /\ batch' \in [Drains -> SUBSET Appended]
    BY <1>0, <1>2 DEF Stages
  <2> QED
    BY <1>0, <1>1, <1>2, <2>1 DEF HandoffInv, OutboxInv, HandoffTypeOK
<1>5. BatchInv'
  <2> SUFFICES ASSUME NEW e \in Drains PROVE BatchInv!(e)'
    BY DEF BatchInv
  <2>1. CASE e = d
    <3>1. d \in Manuals => batch'[d] = {}
      BY <1>0, <1>2, HandoffAssumption
    <3> QED
      BY <1>0, <1>1, <1>2, <1>3, <2>1, <3>1 DEF HandoffInv, BatchInv
  <2>2. CASE e # d
    BY <1>0, <1>1, <1>2, <2>2 DEF HandoffInv, BatchInv
  <2> QED
    BY <2>1, <2>2
<1>6. RunningInv'
  BY <1>0, <1>2 DEF HandoffInv, RunningInv, Drains
<1>7. RouteInv' /\ RoutedInOrder'
  BY <1>0, <1>1, <1>3 DEF HandoffInv, RouteInv, RoutedInOrder, Drains
<1> QED
  BY <1>1, <1>4, <1>5, <1>6, <1>7 DEF HandoffInv

(* The next entry is routed: it is the oldest not yet routed of the only   *)
(* tick that is running.                                                   *)
LEMMA RouteStep ==
  ASSUME HandoffInv, NEW d \in Drains, Route(d)
  PROVE  HandoffInv'
<1>0. /\ UNCHANGED <<outboxVars, archived>>
      /\ UNCHANGED <<log, queue, pc, seen, archived, running, lastDropped, reported, faults>>
      /\ pc[d] = "routing"
  BY DEF Route, outboxVars
<1>1. PICK s \in batch[d] :
        /\ IsLowest(s, batch[d])
        /\ routed' = Append(routed, s)
        /\ batch' = [batch EXCEPT ![d] = @ \ {s}]
  BY DEF Route
<1>2. OutboxInv' /\ NoSilentLoss' /\ \A u : DealtWith(u)' <=> DealtWith(u)
  BY <1>0, QuietStep
<1>3. /\ pc \in [Drains -> Stages] /\ batch \in [Drains -> SUBSET Appended]
      /\ routed \in Seq(Appended) /\ Appended = 1..Len(log) /\ Len(log) \in Nat
      /\ queue \subseteq Appended /\ Appended' = Appended
  BY <1>0 DEF HandoffInv, OutboxInv, OutboxTypeOK, HandoffTypeOK, Appended
<1>4. d \in Ticks
  BY <1>0, <1>1 DEF HandoffInv, BatchInv, Drains
<1>5. \A e \in Ticks : e # d => batch[e] = {}
  BY <1>0, <1>4 DEF HandoffInv, BatchInv, RunningInv, Drains
<1>6. /\ s \in Appended /\ batch'[d] = batch[d] \ {s}
      /\ \A e \in Drains : e # d => batch'[e] = batch[e]
      /\ \A e \in Drains : batch'[e] \subseteq batch[e]
  BY <1>1, <1>3
<1>7. HandoffTypeOK'
  <2>1. batch' \in [Drains -> SUBSET Appended] /\ routed' \in Seq(Appended)
    BY <1>1, <1>3, <1>6
  <2> QED
    BY <1>0, <1>2, <1>3, <2>1 DEF HandoffInv, OutboxInv, HandoffTypeOK
<1>8. BatchInv'
  <2> SUFFICES ASSUME NEW e \in Drains PROVE BatchInv!(e)'
    BY DEF BatchInv
  <2>1. CASE e = d
    BY <1>0, <1>2, <1>4, <1>6, <2>1 DEF HandoffInv, BatchInv
  <2>2. CASE e # d
    BY <1>0, <1>2, <1>6, <2>2 DEF HandoffInv, BatchInv
  <2> QED
    BY <2>1, <2>2
<1>9. RunningInv'
  BY <1>0 DEF HandoffInv, RunningInv
<1>10. /\ \A q \in queue : s < q
       /\ \A e \in Ticks : \A u \in batch'[e] : s < u
       /\ DealtWith(s)
  <2>1. \A u \in batch'[d] : s < u
    BY <1>1, <1>3, <1>6 DEF IsLowest
  <2>2. \A e \in Ticks : e # d => batch'[e] = {}
    BY <1>5, <1>6 DEF Drains
  <2> QED
    BY <1>0, <1>1, <2>1, <2>2 DEF HandoffInv, BatchInv
<1>11. /\ DOMAIN routed = 1..Len(routed) /\ Len(routed) \in Nat
       /\ DOMAIN routed' = 1..(Len(routed) + 1)
       /\ routed'[Len(routed) + 1] = s
       /\ \A i \in 1..Len(routed) : routed'[i] = routed[i]
  BY <1>1, <1>3
<1>12. RouteInv'
  <2> SUFFICES ASSUME NEW i \in 1..(Len(routed) + 1) PROVE RouteInv!(i)'
    BY <1>11 DEF RouteInv
  <2>1. CASE i = Len(routed) + 1
    BY <1>0, <1>2, <1>10, <1>11, <2>1
  <2>2. CASE i # Len(routed) + 1
    <3>1. i \in 1..Len(routed) /\ i \in DOMAIN routed
      BY <1>11, <2>2
    <3> QED
      BY <1>0, <1>2, <1>6, <1>11, <3>1 DEF HandoffInv, RouteInv, Drains
  <2> QED
    BY <2>1, <2>2
<1>13. RoutedInOrder'
  <2> SUFFICES ASSUME NEW i \in 1..(Len(routed) + 1), NEW j \in 1..(Len(routed) + 1), i < j
               PROVE  routed'[i] < routed'[j]
    BY <1>11 DEF RoutedInOrder
  <2>1. i \in 1..Len(routed)
    BY <1>11
  <2>2. CASE j = Len(routed) + 1
    BY <1>1, <1>4, <1>11, <2>1, <2>2 DEF HandoffInv, RouteInv
  <2>3. CASE j # Len(routed) + 1
    <3>1. j \in 1..Len(routed)
      BY <1>11, <2>3
    <3> QED
      BY <1>11, <2>1, <3>1 DEF HandoffInv, RoutedInOrder
  <2> QED
    BY <2>2, <2>3
<1> QED
  BY <1>2, <1>7, <1>8, <1>9, <1>12, <1>13 DEF HandoffInv

(* Drains end, in whatever way: what is said of the others still holds,    *)
(* and `running' is cleared only when no tick remains.                     *)
LEMMA LeaveStep ==
  ASSUME HandoffInv, NEW D \in SUBSET Drains, Leave(D),
         D = Drains \/ \A d \in D : pc[d] # "idle",
         UNCHANGED <<log, queue, dropped, evicted, archived, routed>>,
         lastDropped' \in Nat, reported' \in Nat, faults' \in 0..MaxFaults, OutboxInv'
  PROVE  HandoffInv'
<1>0. /\ pc'    = [d \in Drains |-> IF d \in D THEN "idle" ELSE pc[d]]
      /\ batch' = [d \in Drains |-> IF d \in D THEN {} ELSE batch[d]]
      /\ seen'  = [d \in Drains |-> IF d \in D THEN 0 ELSE seen[d]]
      /\ running' = (running /\ D \cap Ticks = {})
  BY DEF Leave
<1>1. /\ pc \in [Drains -> Stages] /\ batch \in [Drains -> SUBSET Appended]
      /\ seen \in [Drains -> Nat] /\ running \in BOOLEAN /\ Appended' = Appended
  BY DEF HandoffInv, HandoffTypeOK, Appended
<1>2. \A s : DealtWith(s)' <=> DealtWith(s)
  BY DEF DealtWith
<1>3. HandoffTypeOK'
  <2>1. pc' \in [Drains -> Stages]
    BY <1>0, <1>1 DEF Stages
  <2>2. batch' \in [Drains -> SUBSET Appended] /\ seen' \in [Drains -> Nat]
    BY <1>0, <1>1
  <2>3. running' \in BOOLEAN
    BY <1>0, <1>1
  <2> QED
    BY <1>1, <2>1, <2>2, <2>3 DEF HandoffInv, OutboxInv, HandoffTypeOK
<1>4. NoSilentLoss' /\ RoutedInOrder'
  BY <1>1 DEF HandoffInv, NoSilentLoss, RoutedInOrder
<1>5. BatchInv'
  <2> SUFFICES ASSUME NEW e \in Drains PROVE BatchInv!(e)'
    BY DEF BatchInv
  <2>1. CASE e \in D
    BY <1>0, <2>1
  <2>2. CASE e \notin D
    BY <1>0, <1>2, <2>2 DEF HandoffInv, BatchInv
  <2> QED
    BY <2>1, <2>2
<1>6. RunningInv'
  <2> SUFFICES ASSUME NEW d \in Ticks, pc'[d] # "idle" PROVE RunningInv!(d)!2'
    BY DEF RunningInv
  <2>1. d \in Drains /\ d \notin D /\ pc[d] # "idle"
    BY <1>0 DEF Drains
  <2>2. running /\ \A e \in Ticks : pc[e] # "idle" => e = d
    BY <2>1 DEF HandoffInv, RunningInv
  <2>3. D \cap Ticks = {}
    BY <2>1, <2>2
  <2>4. \A e \in Ticks : pc'[e] # "idle" => pc[e] # "idle"
    BY <1>0 DEF Drains
  <2> QED
    BY <1>0, <2>2, <2>3, <2>4
<1>7. RouteInv'
  <2>1. \A e \in Drains : batch'[e] \subseteq batch[e]
    BY <1>0, <1>1
  <2> QED
    BY <1>2, <2>1 DEF HandoffInv, RouteInv, Drains
<1> QED
  BY <1>3, <1>4, <1>5, <1>6, <1>7 DEF HandoffInv

(* A drain returns, and a tick may report a gap.                           *)
LEMMA FinishStep ==
  ASSUME HandoffInv, NEW d \in Drains, Finish(d)
  PROVE  HandoffInv'
<1>0. /\ UNCHANGED outboxVars
      /\ UNCHANGED <<log, queue, dropped, evicted, archived, routed, faults>>
      /\ pc[d] = "routing" /\ ReportGap(d) /\ Leave({d})
  BY DEF Finish, outboxVars
<1>1. OutboxInv'
  BY <1>0, OutboxStutter DEF HandoffInv
<1>2. seen[d] \in Nat /\ lastDropped \in Nat /\ reported \in Nat /\ faults' \in 0..MaxFaults
  BY <1>0 DEF HandoffInv, HandoffTypeOK
<1>3. lastDropped' \in Nat /\ reported' \in Nat
  BY <1>0, <1>2 DEF ReportGap
<1>4. {d} \in SUBSET Drains /\ \A e \in {d} : pc[e] # "idle"
  BY <1>0
<1> QED
  BY <1>0, <1>1, <1>2, <1>3, <1>4, LeaveStep

LEMMA FailStep ==
  ASSUME HandoffInv, NEW d \in Drains, Fail(d)
  PROVE  HandoffInv'
<1>0. /\ UNCHANGED outboxVars
      /\ UNCHANGED <<log, queue, dropped, evicted, archived, lastDropped, routed, reported>>
      /\ pc[d] # "idle" /\ Leave({d})
  BY DEF Fail, outboxVars
<1>1. OutboxInv'
  BY <1>0, OutboxStutter DEF HandoffInv
<1>2. lastDropped' \in Nat /\ reported' \in Nat
  BY <1>0 DEF HandoffInv, HandoffTypeOK
<1>3. faults' \in 0..MaxFaults
  BY HandoffAssumption DEF Fail, Fault, HandoffInv, HandoffTypeOK
<1>4. {d} \in SUBSET Drains /\ \A e \in {d} : pc[e] # "idle"
  BY <1>0
<1> QED
  BY <1>0, <1>1, <1>2, <1>3, <1>4, LeaveStep

LEMMA BridgeCrashStep ==
  ASSUME HandoffInv, BridgeCrash
  PROVE  HandoffInv'
<1>0. /\ UNCHANGED outboxVars
      /\ UNCHANGED <<log, queue, dropped, evicted, archived, routed, reported>>
      /\ Leave(Drains) /\ lastDropped' \in Nat
  BY DEF BridgeCrash, outboxVars
<1>1. OutboxInv'
  BY <1>0, OutboxStutter DEF HandoffInv
<1>2. reported' \in Nat
  BY <1>0 DEF HandoffInv, HandoffTypeOK
<1>3. faults' \in 0..MaxFaults
  BY HandoffAssumption DEF BridgeCrash, Fault, HandoffInv, HandoffTypeOK
<1> QED
  BY <1>0, <1>1, <1>2, <1>3, LeaveStep

LEMMA TransportRestartStep ==
  ASSUME HandoffInv, NEW c \in Capacities, TransportRestart(c)
  PROVE  HandoffInv'
<1> DEFINE D == {d \in Drains : pc[d] = "reading"}
<1>0. /\ UNCHANGED <<log, queue, dropped, evicted, archived, lastDropped, routed, reported>>
      /\ OutboxReopen(c) /\ Leave(D)
  BY DEF TransportRestart, OutboxReopen
<1>1. OutboxInv'
  BY <1>0, ReopenStep DEF HandoffInv
<1>2. lastDropped' \in Nat /\ reported' \in Nat
  BY <1>0 DEF HandoffInv, HandoffTypeOK
<1>3. faults' \in 0..MaxFaults
  BY HandoffAssumption DEF TransportRestart, Fault, HandoffInv, HandoffTypeOK
<1>4. D \in SUBSET Drains /\ \A d \in D : pc[d] # "idle"
  OBVIOUS
<1> HIDE DEF D
<1> QED
  BY <1>0, <1>1, <1>2, <1>3, <1>4, LeaveStep

LEMMA HandoffStutter ==
  ASSUME HandoffInv, UNCHANGED handoffVars
  PROVE  HandoffInv'
<1>0. /\ UNCHANGED outboxVars
      /\ UNCHANGED <<log, queue, evicted, pc, batch, seen, archived, running,
                     lastDropped, routed, reported, faults>>
  BY DEF handoffVars, bridgeVars, outboxVars
<1>1. OutboxInv'
  BY <1>0, OutboxStutter DEF HandoffInv
<1>2. \A s : DealtWith(s)' <=> DealtWith(s)
  BY <1>0 DEF DealtWith
<1> QED
  BY <1>0, <1>1, <1>2 DEF HandoffInv, OutboxInv, HandoffTypeOK, NoSilentLoss, BatchInv,
    RunningInv, RouteInv, RoutedInOrder, Appended, DealtWith

LEMMA HandoffNextInv == HandoffInv /\ [HandoffNext]_handoffVars => HandoffInv'
<1> SUFFICES ASSUME HandoffInv, [HandoffNext]_handoffVars PROVE HandoffInv'
  OBVIOUS
<1>1. CASE \E m \in Messages : Receive(m)
  BY <1>1, ReceiveStep
<1>2. ASSUME NEW d \in Drains, \E limit \in Limits : BeginDrain(d, limit) PROVE HandoffInv'
  BY <1>2, BeginDrainStep
<1>3. ASSUME NEW d \in Drains, Continue(d) PROVE HandoffInv'
  BY <1>3, ReadStatsStep, StoreStep, AckRequestStep, AckReplyStep, RouteStep, FinishStep
    DEF Continue
<1>4. ASSUME NEW d \in Drains, Fail(d) PROVE HandoffInv'
  BY <1>4, FailStep
<1>5. CASE BridgeCrash
  BY <1>5, BridgeCrashStep
<1>6. CASE \E c \in Capacities : TransportRestart(c)
  BY <1>6, TransportRestartStep
<1>7. CASE UNCHANGED handoffVars
  BY <1>7, HandoffStutter
<1> QED
  BY <1>1, <1>2, <1>3, <1>4, <1>5, <1>6, <1>7 DEF HandoffNext

\* However drains overlap and fail, each knows where its batch stands: queued,
\* archived or gone (drainOnce, transport.js).
THEOREM HandoffInvariant == HandoffSpec => []HandoffInv
<1> QED
  BY HandoffInitInv, HandoffNextInv, PTL DEF HandoffSpec

-----------------------------------------------------------------------------
(* Every variable keeps its type.                                          *)
THEOREM HandoffTypeCorrect == HandoffSpec => []HandoffTypeOK
<1>1. HandoffInv => HandoffTypeOK
  BY DEF HandoffInv
<1> QED
  BY <1>1, HandoffInvariant, PTL

(* No received message leaves the queue unaccounted for, whatever drains   *)
(* overlap, requests fail and processes restart.                           *)
THEOREM NothingIsLostSilently == HandoffSpec => []NoSilentLoss
<1>1. HandoffInv => NoSilentLoss
  BY DEF HandoffInv
<1> QED
  BY <1>1, HandoffInvariant, PTL

(* The self-chat router sees an entry at most once, in queue order.        *)
THEOREM RoutedOnceInOrder == HandoffSpec => []RoutedInOrder
<1>1. HandoffInv => RoutedInOrder
  BY DEF HandoffInv
<1> QED
  BY <1>1, HandoffInvariant, PTL

(* It sees it only after the archive has it and the queue let it go.       *)
THEOREM RoutedOnlyAfterStored == HandoffSpec => []RoutedAfterStored
<1>1. HandoffInv => RoutedAfterStored
  <2> SUFFICES ASSUME HandoffInv, NEW i \in DOMAIN routed
               PROVE  routed[i] \notin queue /\ DealtWith(routed[i])
    BY DEF RoutedAfterStored, DealtWith
  <2>1. routed[i] \in Appended /\ Appended = 1..Len(log)
    BY DEF HandoffInv, HandoffTypeOK, Appended
  <2>2. \A s \in queue : routed[i] < s
    BY DEF HandoffInv, RouteInv
  <2>3. ~(routed[i] < routed[i])
    BY <2>1
  <2> QED
    BY <2>2, <2>3 DEF HandoffInv, RouteInv
<1> QED
  BY <1>1, HandoffInvariant, PTL

-----------------------------------------------------------------------------
(* The refinement: every step of the hand-over is a step of the contract   *)
(* or changes nothing the contract speaks of.                              *)
LEMMA ReceiveArrives ==
  ASSUME HandoffInv, NEW m \in Messages, Receive(m)
  PROVE  Contract!Arrive(m)
<1> DEFINE all == queue \cup {Len(log) + 1}
           out == Oldest(all, Excess(all))
<1>1. /\ log' = Append(log, m) /\ archived' = archived
      /\ queue' = all \ out /\ evicted' = evicted \cup out
  BY DEF Receive, OutboxAppend, Evict, bridgeVars
<1>2. /\ Len(log) \in Nat /\ queue \subseteq 1..Len(log)
      /\ capacity \in Nat
  BY OutboxAssumption DEF HandoffInv, OutboxInv, OutboxTypeOK, Appended
<1>3. all \subseteq 1..(Len(log) + 1)
  <2>1. 1..Len(log) \subseteq 1..(Len(log) + 1) /\ Len(log) + 1 \in 1..(Len(log) + 1)
    BY <1>2
  <2> QED
    BY <1>2, <2>1
<1>4. IsFiniteSet(all) /\ all \subseteq Nat
  <2>1. IsFiniteSet(1..(Len(log) + 1))
    BY <1>2, FS_Interval
  <2>2. IsFiniteSet(all)
    BY <1>3, <2>1, FS_Subset
  <2> QED
    BY <1>3, <2>2
<1>5. Excess(all) \in Nat
  <2>1. Cardinality(all) \in Nat
    BY <1>4, FS_CardinalityType
  <2> HIDE DEF all
  <2> QED
    BY <1>2, <2>1 DEF Excess
<1>6. out \subseteq all /\ \A s \in all, t \in out : s <= t => s \in out
  <2> HIDE DEF all
  <2> QED
    BY <1>4, <1>5, OldestIsOldEnd
<1>7. Contract!OldEnd(out, all)
  <2> HIDE DEF all, out
  <2>2. ASSUME NEW s \in out, NEW t \in all \ out PROVE s < t
    <3>1. s \in Nat /\ t \in Nat
      BY <1>4, <1>6
    <3>2. ~(t <= s)
      BY <1>6
    <3> QED
      BY <3>1, <3>2
  <2> QED
    BY <1>6, <2>2 DEF Contract!OldEnd
<1> QED
  BY <1>1, <1>6, <1>7 DEF Contract!Arrive

LEMMA AckReleases ==
  ASSUME HandoffInv, NEW d \in Drains, AckRequest(d)
  PROVE  \E S \in SUBSET queue : Contract!Release(S)
<1>1. PICK through \in batch[d] : IsHighest(through, batch[d]) /\ OutboxAck(through)
  BY DEF AckRequest
<1>2. /\ pc[d] = "stored" /\ UNCHANGED <<log, evicted, archived>>
      /\ batch \in [Drains -> SUBSET Appended] /\ queue \subseteq Appended
      /\ Appended = 1..Len(log) /\ Len(log) \in Nat
  BY <1>1 DEF AckRequest, OutboxAck, HandoffInv, OutboxInv, OutboxTypeOK, HandoffTypeOK, Appended
<1> DEFINE S == {s \in queue : ~(s > through)}
<1>3. through \in Nat /\ \A s \in queue : s \in Nat
  BY <1>1, <1>2
<1>4. queue' = queue \ S
  BY <1>1 DEF OutboxAck
<1>5. Contract!OldEnd(S, queue)
  BY <1>3 DEF Contract!OldEnd
<1>6. \A s \in S : s \in batch[d]
  BY <1>1, <1>2, <1>3 DEF HandoffInv, BatchInv
<1>7. \A s \in S : Contract!DealtWith(s)
  BY <1>2, <1>6 DEF HandoffInv, BatchInv, DealtWith, Contract!DealtWith
<1> QED
  BY <1>2, <1>4, <1>5, <1>7 DEF Contract!Release

LEMMA StepRefines ==
  HandoffInv /\ [HandoffNext]_handoffVars => [Contract!Next]_Contract!contractVars
<1> SUFFICES ASSUME HandoffInv, [HandoffNext]_handoffVars
             PROVE  Contract!Next \/ UNCHANGED <<log, queue, evicted, archived>>
  BY DEF Contract!contractVars
<1>1. CASE \E m \in Messages : Receive(m)
  BY <1>1, ReceiveArrives DEF Contract!Next
<1>2. ASSUME NEW d \in Drains, AckRequest(d) PROVE Contract!Next
  BY <1>2, AckReleases DEF Contract!Next
<1>3. ASSUME NEW d \in Drains, Store(d) PROVE Contract!Next
  <2>1. batch[d] \in SUBSET (1..Len(log))
    BY DEF HandoffInv, HandoffTypeOK, Appended
  <2>2. Contract!Keep(batch[d])
    BY <1>3 DEF Store, outboxVars, Contract!Keep
  <2> QED
    BY <2>1, <2>2 DEF Contract!Next
<1>4. ASSUME NEW d \in Drains,
             \/ \E limit \in Limits : BeginDrain(d, limit)
             \/ ReadStats(d) \/ AckReply(d) \/ Route(d) \/ Finish(d) \/ Fail(d)
      PROVE  UNCHANGED <<log, queue, evicted, archived>>
  BY <1>4 DEF BeginDrain, ReadStats, AckReply, Route, Finish, Fail, outboxVars
<1>5. CASE BridgeCrash \/ (\E c \in Capacities : TransportRestart(c)) \/ UNCHANGED handoffVars
  BY <1>5 DEF BridgeCrash, TransportRestart, OutboxReopen, outboxVars, handoffVars, bridgeVars
<1> QED
  BY <1>1, <1>2, <1>3, <1>4, <1>5 DEF HandoffNext, Continue

(* The hand-over implements its contract.                                  *)
THEOREM HandoffImplementsContract == HandoffSpec => ImplementsContract
<1>1. HandoffInit => Contract!Init
  BY DEF HandoffInit, OutboxInit, Contract!Init
<1> QED
  BY <1>1, HandoffInvariant, StepRefines, PTL
    DEF HandoffSpec, ImplementsContract, Contract!Spec

-----------------------------------------------------------------------------
(* The session.                                                            *)

(* Records of the event in hand that no counter has yet.                   *)
Uncounted == Len(work) - IF step \in {"note", "tally"} THEN 1 ELSE 0

(* Everything given is counted or still in hand.                           *)
BalanceInv ==
  given = counters["messages"] + counters["failed"] + counters["ignored"]
            + counters["undecryptable"] + Uncounted

(* The tally is one behind its counter between the halves of               *)
(* NoteUnrecognised, and a poll has copied it no later than it reads on.   *)
TallyInv ==
  /\ counters["unrecognised"] = tally + IF step = "tally" THEN 1 ELSE 0
  /\ snap.at = "copied" => snap.tally <= tally
  /\ snap.at = "read" => snap.tally <= snap.unrecognised

(* Only the record in hand can owe a pointer, and the queue has it.        *)
PointerInv ==
  /\ pointers \subseteq queued
  /\ step = "media" => handled \in queued
  /\ owing \subseteq (IF step = "media" THEN {handled} ELSE {})

DispatchInv == DispatchTypeOK /\ BalanceInv /\ TallyInv /\ PointerInv

-----------------------------------------------------------------------------
(* A record in hand is one of the kinds, and putting it away leaves one    *)
(* record less.                                                            *)
LEMMA RecordInHand ==
  ASSUME work \in Seq(Kinds), work # << >>
  PROVE  /\ Head(work) \in Kinds
         /\ Tail(work) \in Seq(Kinds)
         /\ Len(Tail(work)) = Len(work) - 1
  BY HeadTailProperties

(* The dispatcher starts with nothing in hand and nothing counted.         *)
LEMMA DispatchInitInv == DispatchInit => DispatchInv
<1> SUFFICES ASSUME DispatchInit
             PROVE  DispatchInv
  OBVIOUS
<1>1. work \in Seq(Kinds) /\ counters \in [Counters -> Nat]
  BY DEF DispatchInit, Zero
<1>2. snap \in [at : {"none", "copied", "read"}, tally : Nat, unrecognised : Nat]
  BY DEF DispatchInit, NoSnapshot
<1>3. DispatchTypeOK
  BY <1>1, <1>2 DEF DispatchInit, DispatchTypeOK
<1>4. BalanceInv /\ TallyInv /\ PointerInv
  BY DEF DispatchInit, BalanceInv, Uncounted, TallyInv, PointerInv, Zero, Counters, NoSnapshot
<1>5. QED
  BY <1>3, <1>4 DEF DispatchInv

(* An event taken in hand is owed as a whole.                              *)
LEMMA TakeStep ==
  ASSUME DispatchInv, NEW records \in Seq(Kinds), NEW history \in BOOLEAN,
         Take(records, history)
  PROVE  DispatchInv'
<1>1. DispatchTypeOK'
  BY DEF Take, DispatchInv, DispatchTypeOK, Counters
<1>2. BalanceInv'
  BY DEF Take, DispatchInv, DispatchTypeOK, BalanceInv, Uncounted, Counters
<1>3. TallyInv'
  BY DEF Take, DispatchInv, DispatchTypeOK, TallyInv, Counters
<1>4. PointerInv'
  BY DEF Take, DispatchInv, DispatchTypeOK, PointerInv
<1>5. QED
  BY <1>1, <1>2, <1>3, <1>4 DEF DispatchInv

(* An event that is only counted is given and counted at once.             *)
LEMMA OtherStep ==
  ASSUME DispatchInv, NEW c \in {"ignored", "undecryptable"}, HandleOther(c)
  PROVE  DispatchInv'
<1>1. DispatchTypeOK'
  BY DEF HandleOther, Count, DispatchInv, DispatchTypeOK, Counters
<1>2. BalanceInv'
  BY DEF HandleOther, Count, DispatchInv, DispatchTypeOK, BalanceInv,
     Uncounted, Counters
<1>3. TallyInv'
  BY DEF HandleOther, Count, DispatchInv, DispatchTypeOK, TallyInv, Counters
<1>4. PointerInv'
  BY DEF HandleOther, Count, DispatchInv, DispatchTypeOK, PointerInv
<1>5. QED
  BY <1>1, <1>2, <1>3, <1>4 DEF DispatchInv

(* A record that fails moves from "in hand" to "failed", before the queue  *)
(* or at it.                                                               *)
LEMMA RecordFailsStep ==
  ASSUME DispatchInv, RecordFails
  PROVE  DispatchInv'
<1>1. work \in Seq(Kinds) /\ work # << >>
  BY DEF DispatchInv, DispatchTypeOK, RecordFails
<1>2. Tail(work) \in Seq(Kinds) /\ Len(Tail(work)) = Len(work) - 1
  BY <1>1, RecordInHand
<1>3. DispatchTypeOK'
  BY <1>1, <1>2, SMTT(30) DEF RecordFails, NextRecord, Count, DispatchInv,
     DispatchTypeOK, Counters
<1>4. BalanceInv'
  BY <1>1, <1>2, SMTT(30) DEF RecordFails, NextRecord, Count, DispatchInv,
     DispatchTypeOK, BalanceInv, Uncounted, Counters
<1>5. TallyInv'
  BY <1>1, <1>2, SMTT(30) DEF RecordFails, NextRecord, Count, DispatchInv,
     DispatchTypeOK, TallyInv, Counters
<1>6. PointerInv'
  BY <1>1, <1>2, SMTT(30) DEF RecordFails, NextRecord, Count, DispatchInv,
     DispatchTypeOK, PointerInv
<1>7. QED
  BY <1>3, <1>4, <1>5, <1>6 DEF DispatchInv

LEMMA AppendFailsStep ==
  ASSUME DispatchInv, AppendFails
  PROVE  DispatchInv'
<1>1. work \in Seq(Kinds) /\ work # << >>
  BY DEF DispatchInv, DispatchTypeOK, AppendFails
<1>2. Tail(work) \in Seq(Kinds) /\ Len(Tail(work)) = Len(work) - 1
  BY <1>1, RecordInHand
<1>3. DispatchTypeOK'
  BY <1>1, <1>2, SMTT(30) DEF AppendFails, NextRecord, Count, DispatchInv,
     DispatchTypeOK, Counters
<1>4. BalanceInv'
  BY <1>1, <1>2, SMTT(30) DEF AppendFails, NextRecord, Count, DispatchInv,
     DispatchTypeOK, BalanceInv, Uncounted, Counters
<1>5. TallyInv'
  BY <1>1, <1>2, SMTT(30) DEF AppendFails, NextRecord, Count, DispatchInv,
     DispatchTypeOK, TallyInv, Counters
<1>6. PointerInv'
  BY <1>1, <1>2, SMTT(30) DEF AppendFails, NextRecord, Count, DispatchInv,
     DispatchTypeOK, PointerInv
<1>7. QED
  BY <1>3, <1>4, <1>5, <1>6 DEF DispatchInv

(* A record the queue took may owe a pointer, and nothing is counted yet.  *)
LEMMA AppendSucceedsStep ==
  ASSUME DispatchInv, AppendSucceeds
  PROVE  DispatchInv'
<1>1. CASE Head(work) = "media"
  <2>1. DispatchTypeOK'
    BY <1>1 DEF AppendSucceeds, DispatchInv, DispatchTypeOK, Counters
  <2>2. BalanceInv'
    BY <1>1 DEF AppendSucceeds, DispatchInv, DispatchTypeOK, BalanceInv,
       Uncounted, Counters
  <2>3. TallyInv'
    BY <1>1 DEF AppendSucceeds, DispatchInv, DispatchTypeOK, TallyInv, Counters
  <2>4. PointerInv'
    BY <1>1 DEF AppendSucceeds, DispatchInv, DispatchTypeOK, PointerInv
  <2>5. QED
    BY <2>1, <2>2, <2>3, <2>4 DEF DispatchInv
<1>2. CASE Head(work) # "media"
  <2>1. DispatchTypeOK'
    BY <1>2 DEF AppendSucceeds, DispatchInv, DispatchTypeOK, Counters
  <2>2. BalanceInv'
    BY <1>2 DEF AppendSucceeds, DispatchInv, DispatchTypeOK, BalanceInv,
       Uncounted, Counters
  <2>3. TallyInv'
    BY <1>2 DEF AppendSucceeds, DispatchInv, DispatchTypeOK, TallyInv, Counters
  <2>4. PointerInv'
    BY <1>2 DEF AppendSucceeds, DispatchInv, DispatchTypeOK, PointerInv
  <2>5. QED
    BY <2>1, <2>2, <2>3, <2>4 DEF DispatchInv
<1>3. QED
  BY <1>1, <1>2 DEF AppendSucceeds

(* Its pointer is kept, or counted as missing: nothing is owed any more.   *)
LEMMA PutMediaStep ==
  ASSUME DispatchInv, PutMedia
  PROVE  DispatchInv'
<1>1. CASE pointers' = pointers \cup {handled} /\ UNCHANGED <<counters, failures>>
  <2>1. DispatchTypeOK'
    BY <1>1 DEF PutMedia, Count, DispatchInv, DispatchTypeOK, PointerInv,
       Counters
  <2>2. BalanceInv'
    BY <1>1 DEF PutMedia, Count, DispatchInv, DispatchTypeOK, BalanceInv,
       Uncounted, Counters
  <2>3. TallyInv'
    BY <1>1 DEF PutMedia, Count, DispatchInv, DispatchTypeOK, TallyInv,
       Counters
  <2>4. PointerInv'
    BY <1>1 DEF PutMedia, Count, DispatchInv, DispatchTypeOK, PointerInv
  <2>5. QED
    BY <2>1, <2>2, <2>3, <2>4 DEF DispatchInv
<1>2. CASE failures' = failures + 1 /\ Count("mediaUnrecorded") /\ UNCHANGED pointers
  <2>1. DispatchTypeOK'
    BY <1>2 DEF PutMedia, Count, DispatchInv, DispatchTypeOK, Counters
  <2>2. BalanceInv'
    BY <1>2 DEF PutMedia, Count, DispatchInv, DispatchTypeOK, BalanceInv,
       Uncounted, Counters
  <2>3. TallyInv'
    BY <1>2 DEF PutMedia, Count, DispatchInv, DispatchTypeOK, TallyInv,
       Counters
  <2>4. PointerInv'
    BY <1>2 DEF PutMedia, Count, DispatchInv, DispatchTypeOK, PointerInv
  <2>5. QED
    BY <2>1, <2>2, <2>3, <2>4 DEF DispatchInv
<1>3. QED
  BY <1>1, <1>2 DEF PutMedia

(* Counting a message ends it, or leaves its type to be noted.             *)
LEMMA CountStep ==
  ASSUME DispatchInv, CountMessage
  PROVE  DispatchInv'
<1>1. work \in Seq(Kinds) /\ work # << >>
  BY DEF DispatchInv, DispatchTypeOK, CountMessage
<1>2. Tail(work) \in Seq(Kinds) /\ Len(Tail(work)) = Len(work) - 1 /\ Len(work) \in Nat
  BY <1>1, RecordInHand
<1>3. /\ counters' \in [Counters -> Nat]
      /\ counters'["messages"] = counters["messages"] + 1
      /\ \A c \in Counters \ {"messages", "fromHistory"} : counters'[c] = counters[c]
  BY DEF CountMessage, DispatchInv, DispatchTypeOK, Counters
<1>4. \/ step' = "note" /\ work' = work
      \/ step' = "next" /\ work' = Tail(work)
  BY DEF CountMessage, NextRecord
<1>5. /\ step = "count"
      /\ UNCHANGED <<replayed, tally, given, queued, pointers, handled, owing, failures, snap>>
  BY DEF CountMessage
<1>6. DispatchTypeOK'
  BY <1>1, <1>2, <1>3, <1>4, <1>5 DEF DispatchInv, DispatchTypeOK
<1>7. Uncounted' = Uncounted - 1 /\ Uncounted \in Int
  BY <1>2, <1>4, <1>5 DEF Uncounted
<1>8. BalanceInv'
  <2>1. \A c \in Counters : counters[c] \in Nat
    BY DEF DispatchInv, DispatchTypeOK
  <2>2. QED
    BY <1>3, <1>5, <1>7, <2>1 DEF DispatchInv, BalanceInv, Counters
<1>9. TallyInv'
  BY <1>3, <1>4, <1>5 DEF DispatchInv, TallyInv, Counters
<1>10. PointerInv'
  BY <1>4, <1>5 DEF DispatchInv, PointerInv
<1>11. QED
  BY <1>6, <1>8, <1>9, <1>10 DEF DispatchInv

(* The two halves of noting a type.                                        *)
LEMMA NoteStep ==
  ASSUME DispatchInv, NoteUnrecognised
  PROVE  DispatchInv'
<1>1. work \in Seq(Kinds) /\ work # << >>
  BY DEF DispatchInv, DispatchTypeOK, NoteUnrecognised
<1>2. Tail(work) \in Seq(Kinds) /\ Len(Tail(work)) = Len(work) - 1
  BY <1>1, RecordInHand
<1>3. CASE step = "note"
  <2>1. DispatchTypeOK'
    BY <1>1, <1>2, <1>3 DEF NoteUnrecognised, NextRecord, Count, DispatchInv,
       DispatchTypeOK, Counters
  <2>2. BalanceInv'
    BY <1>1, <1>2, <1>3 DEF NoteUnrecognised, NextRecord, Count, DispatchInv,
       DispatchTypeOK, BalanceInv, Uncounted, Counters
  <2>3. TallyInv'
    BY <1>1, <1>2, <1>3 DEF NoteUnrecognised, NextRecord, Count, DispatchInv,
       DispatchTypeOK, TallyInv, Counters
  <2>4. PointerInv'
    BY <1>1, <1>2, <1>3 DEF NoteUnrecognised, NextRecord, Count, DispatchInv,
       DispatchTypeOK, PointerInv
  <2>5. QED
    BY <2>1, <2>2, <2>3, <2>4 DEF DispatchInv
<1>4. CASE step = "tally"
  <2>1. DispatchTypeOK'
    <3>1. work' = Tail(work) /\ step' = "next" /\ tally' = tally + 1
      BY <1>4 DEF NoteUnrecognised, NextRecord
    <3>2. UNCHANGED <<counters, replayed, given, queued, pointers, handled, owing, failures,
                      snap>>
      BY <1>4 DEF NoteUnrecognised
    <3>3. QED
      BY <1>2, <3>1, <3>2 DEF DispatchInv, DispatchTypeOK
  <2>2. BalanceInv'
    BY <1>1, <1>2, <1>4, SMTT(30) DEF NoteUnrecognised, NextRecord, Count, DispatchInv,
       DispatchTypeOK, BalanceInv, Uncounted, Counters
  <2>3. TallyInv'
    BY <1>1, <1>2, <1>4, SMTT(30) DEF NoteUnrecognised, NextRecord, Count, DispatchInv,
       DispatchTypeOK, TallyInv, Counters
  <2>4. PointerInv'
    BY <1>1, <1>2, <1>4, SMTT(30) DEF NoteUnrecognised, NextRecord, Count, DispatchInv,
       DispatchTypeOK, PointerInv
  <2>5. QED
    BY <2>1, <2>2, <2>3, <2>4 DEF DispatchInv
<1>5. QED
  BY <1>3, <1>4 DEF NoteUnrecognised, DispatchInv, DispatchTypeOK

(* A poll reads, and the dispatcher is where it was.                       *)
LEMMA SnapshotStep ==
  ASSUME DispatchInv, Snapshot
  PROVE  DispatchInv'
<1>1. CASE CopyTypes
  <2>1. DispatchTypeOK'
    BY <1>1 DEF CopyTypes, LoadCounters, NoSnapshot, DispatchInv,
       DispatchTypeOK, Counters
  <2>2. BalanceInv'
    BY <1>1 DEF CopyTypes, LoadCounters, NoSnapshot, DispatchInv,
       DispatchTypeOK, BalanceInv, Uncounted, Counters
  <2>3. TallyInv'
    BY <1>1 DEF CopyTypes, LoadCounters, NoSnapshot, DispatchInv,
       DispatchTypeOK, TallyInv, Counters
  <2>4. PointerInv'
    BY <1>1 DEF CopyTypes, LoadCounters, NoSnapshot, DispatchInv,
       DispatchTypeOK, PointerInv
  <2>5. QED
    BY <2>1, <2>2, <2>3, <2>4 DEF DispatchInv
<1>2. CASE LoadCounters
  <2>1. DispatchTypeOK'
    BY <1>2 DEF CopyTypes, LoadCounters, NoSnapshot, DispatchInv,
       DispatchTypeOK, Counters
  <2>2. BalanceInv'
    BY <1>2 DEF CopyTypes, LoadCounters, NoSnapshot, DispatchInv,
       DispatchTypeOK, BalanceInv, Uncounted, Counters
  <2>3. TallyInv'
    BY <1>2 DEF CopyTypes, LoadCounters, NoSnapshot, DispatchInv,
       DispatchTypeOK, TallyInv, Counters
  <2>4. PointerInv'
    BY <1>2 DEF CopyTypes, LoadCounters, NoSnapshot, DispatchInv,
       DispatchTypeOK, PointerInv
  <2>5. QED
    BY <2>1, <2>2, <2>3, <2>4 DEF DispatchInv
<1>3. QED
  BY <1>1, <1>2 DEF Snapshot

(* A new process has counted nothing; what it queued before stays queued.  *)
LEMMA RestartStep ==
  ASSUME DispatchInv, DispatchRestart
  PROVE  DispatchInv'
<1>0. work' \in Seq(Kinds) /\ counters' \in [Counters -> Nat]
  BY DEF DispatchRestart, Zero
<1>1. DispatchTypeOK'
  BY <1>0 DEF DispatchRestart, NoSnapshot, DispatchInv, DispatchTypeOK
<1>2. BalanceInv'
  BY DEF DispatchRestart, Zero, NoSnapshot, DispatchInv, DispatchTypeOK,
     BalanceInv, Uncounted, Counters
<1>3. TallyInv'
  BY DEF DispatchRestart, Zero, NoSnapshot, DispatchInv, DispatchTypeOK,
     TallyInv, Counters
<1>4. PointerInv'
  BY DEF DispatchRestart, Zero, NoSnapshot, DispatchInv, DispatchTypeOK,
     PointerInv
<1>5. QED
  BY <1>1, <1>2, <1>3, <1>4 DEF DispatchInv

(* A step of the connection alone.                                         *)
LEMMA DispatchStutter == DispatchInv /\ UNCHANGED dispatchVars => DispatchInv'
  BY DEF dispatchVars, DispatchInv, DispatchTypeOK, BalanceInv, Uncounted, TallyInv, PointerInv

(* The connection's variables keep their types.                            *)
LEMMA PairingTypeStep ==
  ASSUME PairingTypeOK,
         PairingStep \/ PairSuccess \/ PairingRestart \/ UNCHANGED pairingVars
  PROVE  PairingTypeOK'
<1>1. ASSUME BeginQRPairing \/ PairPhone \/ CodesRunOut \/ RequestEnds \/ ChannelCloses
      PROVE  PairingTypeOK'
  BY <1>1 DEF PairingTypeOK, BeginQRPairing, PairPhone, CodesRunOut, RequestEnds, ChannelCloses,
     EndedWithRequest
<1>2. ASSUME ServerCloses \/ ReconnectWaits \/ ReconnectConnects \/ Connect \/ PairSuccess
      PROVE  PairingTypeOK'
  BY <1>2 DEF PairingTypeOK, ServerCloses, ReconnectWaits, ReconnectConnects, Connect,
     PairSuccess, SocketUp, SocketFails
<1>3. ASSUME Drop \/ AutoReconnect \/ LoggedOut \/ PairingRestart
      PROVE  PairingTypeOK'
  <2>1. disruptions' \in 0..MaxDisruptions
    BY <1>3, PairingAssumption
       DEF PairingTypeOK, Drop, AutoReconnect, LoggedOut, PairingRestart, Disrupt
  <2>2. QED
    BY <1>3, <2>1, Zenon
       DEF PairingTypeOK, Drop, AutoReconnect, LoggedOut, PairingRestart, SocketUp
<1>4. CASE UNCHANGED pairingVars
  BY <1>4 DEF PairingTypeOK, pairingVars
<1>5. QED
  BY <1>1, <1>2, <1>3, <1>4 DEF PairingStep

-----------------------------------------------------------------------------
SessionInv == DispatchInv /\ PairingTypeOK

LEMMA SessionInitInv == SessionInit => SessionInv
<1>1. PairingInit => disruptions \in 0..MaxDisruptions
  BY PairingAssumption DEF PairingInit
<1>2. PairingInit => PairingTypeOK
  BY <1>1, Zenon DEF PairingInit, PairingTypeOK
<1>3. QED
  BY <1>2, DispatchInitInv DEF SessionInit, SessionInv

LEMMA SessionNextInv == SessionInv /\ [SessionNext]_sessionVars => SessionInv'
<1> SUFFICES ASSUME SessionInv, [SessionNext]_sessionVars
             PROVE  SessionInv'
  OBVIOUS
<1>0. DispatchInv /\ PairingTypeOK
  BY DEF SessionInv
<1>1. CASE EventArrives
  <2>1. PairingTypeOK'
    BY <1>0, <1>1, PairingTypeStep DEF EventArrives
  <2>2. ASSUME NEW kind \in Kinds, HandleLive(kind)
        PROVE  DispatchInv'
    BY <1>0, <2>2, TakeStep, <<kind>> \in Seq(Kinds) DEF HandleLive
  <2>3. ASSUME NEW records \in Histories, HandleHistorySync(records)
        PROVE  DispatchInv'
    BY <1>0, <2>3, TakeStep, DispatchAssumption DEF HandleHistorySync
  <2>4. ASSUME NEW c \in {"ignored", "undecryptable"}, HandleOther(c)
        PROVE  DispatchInv'
    BY <1>0, <2>4, OtherStep
  <2>5. QED
    BY <1>1, <2>1, <2>2, <2>3, <2>4 DEF EventArrives, SessionInv
<1>2. CASE Dispatching /\ UNCHANGED pairingVars
  BY <1>0, <1>2, RecordFailsStep, AppendFailsStep, AppendSucceedsStep, PutMediaStep, CountStep, NoteStep, PairingTypeStep
     DEF Dispatching, SessionInv
<1>3. CASE Snapshot /\ UNCHANGED pairingVars
  BY <1>0, <1>3, SnapshotStep, PairingTypeStep DEF SessionInv
<1>4. CASE PairingStep /\ UNCHANGED dispatchVars
  BY <1>0, <1>4, DispatchStutter, PairingTypeStep DEF SessionInv
<1>5. CASE DeviceLinked
  BY <1>0, <1>5, OtherStep, PairingTypeStep DEF DeviceLinked, SessionInv
<1>6. CASE Restart
  BY <1>0, <1>6, RestartStep, PairingTypeStep DEF Restart, SessionInv
<1>7. CASE UNCHANGED sessionVars
  BY <1>0, <1>7, DispatchStutter, PairingTypeStep DEF sessionVars, SessionInv
<1>8. QED
  BY <1>1, <1>2, <1>3, <1>4, <1>5, <1>6, <1>7 DEF SessionNext

(* The strengthened invariant holds of the session.                        *)
THEOREM SessionInvariant == SessionSpec => []SessionInv
  BY SessionInitInv, SessionNextInv, PTL DEF SessionSpec

(* Types, and that no step is under way without a record in hand.          *)
THEOREM SessionTypeCorrect == SessionSpec => []SessionTypeOK
<1>1. SessionInv => SessionTypeOK
  BY DEF SessionInv, DispatchInv, SessionTypeOK
<1>2. QED
  BY SessionInvariant, <1>1, PTL

(* Between events everything handed over is stored or counted, whatever    *)
(* the history syncs hold and wherever they failed (dispatch.go, Counters  *)
(* and handleHistorySync).                                                 *)
THEOREM EverythingIsAccounted == SessionSpec => []Accounted
<1>1. SessionInv => Accounted
  <2> SUFFICES ASSUME SessionInv, work = << >>
               PROVE  /\ given = counters["messages"] + counters["failed"]
                                   + counters["ignored"] + counters["undecryptable"]
                      /\ owing = {}
                      /\ tally = counters["unrecognised"]
    BY DEF Accounted
  <2>1. step = "next" /\ Len(work) = 0
    BY DEF SessionInv, DispatchInv, DispatchTypeOK
  <2>2. QED
    BY <2>1 DEF SessionInv, DispatchInv, DispatchTypeOK, BalanceInv, Uncounted, TallyInv,
       PointerInv, Counters
<1>2. QED
  BY SessionInvariant, <1>1, PTL

(* No pointer without its message, at any moment a process may stop        *)
(* (dispatch.go, "recorded after the queue, not before").                  *)
THEOREM PointersFollowMessages == SessionSpec => []PointerFollowsMessage
<1>1. SessionInv => PointerFollowsMessage
  BY DEF SessionInv, DispatchInv, PointerInv, PointerFollowsMessage
<1>2. QED
  BY SessionInvariant, <1>1, PTL

(* A status poll beside the dispatcher never reports more unrecognised     *)
(* types than unrecognised messages (dispatch.go, Snapshot).               *)
THEOREM SnapshotsNeverOverstate == SessionSpec => []TallyNeverOverstates
<1>1. SessionInv => TallyNeverOverstates
  BY DEF SessionInv, DispatchInv, TallyInv, TallyNeverOverstates
<1>2. QED
  BY SessionInvariant, <1>1, PTL
=============================================================================
