------------------------------ MODULE Dispatch ------------------------------
(***************************************************************************)
(* The transport's event dispatcher (internal/session/dispatch.go): one    *)
(* event at a time on whatsmeow's read loop, a live message or a history   *)
(* sync of many records, each described, queued in the outbox, given a     *)
(* media pointer and counted.  Status polls read the counters meanwhile,   *)
(* one load after another, without stopping the dispatcher.                *)
(*                                                                         *)
(* The sink is the outbox (module Outbox models it); here an append        *)
(* succeeds or fails.  Counters live in memory and start again at zero     *)
(* with the process; the queue and the media pointers survive.             *)
(***************************************************************************)
EXTENDS Naturals, Sequences, FiniteSets

CONSTANTS
  Histories,     \* the history payloads: sequences of record kinds
  MaxRecords,    \* BOUND: records handed to the dispatcher
  MaxFailures    \* BOUND: failing appends and media writes

(* "text" and "media" are stored; "unknown" is stored undescribed; an      *)
(* "indescribable" record fails before the sink: no web message, a parse   *)
(* error, a conversation whose id does not parse, or no identity.          *)
Describable == {"text", "media", "unknown"}
Kinds == Describable \cup {"indescribable"}

ASSUME DispatchAssumption ==
  /\ Histories \subseteq Seq(Kinds)
  /\ MaxRecords \in Nat
  /\ MaxFailures \in Nat

VARIABLES
  work,        \* the records of the event in hand still to handle
  replayed,    \* whether that event is a history sync
  step,        \* where the first is: "next", "media", "count", "note", "tally"
  counters,    \* the atomic counters
  tally,       \* the sum of unrecognisedTypes
  given,       \* records and other events this process was handed
  queued,      \* numbers of the records the sink took, ever
  pointers,    \* numbers of the records with a media pointer
  handled,     \* number of the record in hand, over all processes
  owing,       \* media queued, their pointer neither kept nor counted missing
  failures,
  snap         \* a status poll: how far it has read, and what

dispatchVars == <<work, replayed, step, counters, tally, given, queued, pointers,
                  handled, owing, failures, snap>>

Counters == {"messages", "fromHistory", "unrecognised", "undecryptable",
             "ignored", "failed", "mediaUnrecorded"}

Zero == [c \in Counters |-> 0]
NoSnapshot == [at |-> "none", tally |-> 0, unrecognised |-> 0]

Count(c) == counters' = [counters EXCEPT ![c] = @ + 1]

-----------------------------------------------------------------------------
(* Handle: an event arrives while none is being handled.                   *)

Take(records, history) ==
  /\ work = << >>
  /\ handled + Len(records) <= MaxRecords
  /\ work' = records
  /\ replayed' = history
  /\ given' = given + Len(records)
  /\ UNCHANGED <<step, counters, tally, queued, pointers, handled, owing, failures, snap>>

HandleLive(kind) == Take(<<kind>>, FALSE)

HandleHistorySync(records) == Take(records, TRUE)

(* An event that is only counted: undecryptable, or of no interest.        *)
HandleOther(c) ==
  /\ work = << >>
  /\ given' = given + 1
  /\ Count(c)
  /\ UNCHANGED <<work, replayed, step, tally, queued, pointers, handled, owing,
                 failures, snap>>

-----------------------------------------------------------------------------
(* handleMessage, and the loop of handleHistorySync around it.             *)

(* The record in hand is done with: a history sync goes on to the next,    *)
(* whatever became of this one.  Then its mutated forms: a failed record   *)
(* ends the batch; the next record is not started from the beginning.      *)
NextRecordUnstarted(failed) ==
  /\ work' = Tail(work)
  /\ UNCHANGED step

NextRecordUnlessFailed(failed) ==
  /\ work' = IF failed THEN << >> ELSE Tail(work)
  /\ step' = "next"

NextRecord(failed) ==
  /\ work' = Tail(work)
  /\ step' = "next"

(* It cannot be described: counted.                                        *)
RecordFails ==
  /\ work # << >>
  /\ step = "next"
  /\ Head(work) \notin Describable
  /\ handled' = handled + 1
  /\ Count("failed")
  /\ NextRecord(TRUE)
  /\ UNCHANGED <<replayed, tally, given, queued, pointers, owing, failures, snap>>

(* The sink refuses it: counted.                                           *)
AppendFails ==
  /\ work # << >>
  /\ step = "next"
  /\ Head(work) \in Describable
  /\ failures < MaxFailures
  /\ failures' = failures + 1
  /\ handled' = handled + 1
  /\ Count("failed")
  /\ NextRecord(TRUE)
  /\ UNCHANGED <<replayed, tally, given, queued, pointers, owing, snap>>

(* The sink takes it, and media goes on to its pointer.  First the mutated *)
(* form: the pointer is written ahead of an append that comes to nothing.  *)
PointerBeforeAppend ==
  /\ work # << >>
  /\ step = "next"
  /\ Head(work) \in Describable
  /\ handled' = handled + 1
  /\ pointers' = pointers \cup (IF Head(work) = "media" THEN {handled + 1} ELSE {})
  /\ queued' = queued \cup (IF Head(work) = "media" THEN {} ELSE {handled + 1})
  /\ step' = "count"
  /\ UNCHANGED <<work, replayed, counters, tally, given, owing, failures, snap>>

AppendSucceeds ==
  /\ work # << >>
  /\ step = "next"
  /\ Head(work) \in Describable
  /\ handled' = handled + 1
  /\ queued' = queued \cup {handled + 1}
  /\ LET media == Head(work) = "media"
     IN  /\ owing' = owing \cup (IF media THEN {handled + 1} ELSE {})
         /\ step' = IF media THEN "media" ELSE "count"
  /\ UNCHANGED <<work, replayed, counters, tally, given, pointers, failures, snap>>

(* The pointer is kept, or counted as missing; never a reason to give up   *)
(* the message.                                                            *)
PutMedia ==
  /\ step = "media"
  /\ \/ /\ pointers' = pointers \cup {handled}
        /\ UNCHANGED <<counters, failures>>
     \/ /\ failures < MaxFailures
        /\ failures' = failures + 1
        /\ Count("mediaUnrecorded")
        /\ UNCHANGED pointers
  /\ owing' = owing \ {handled}
  /\ step' = "count"
  /\ UNCHANGED <<work, replayed, tally, given, queued, handled, snap>>

(* Messages and FromHistory.                                               *)
CountMessage ==
  /\ step = "count"
  /\ counters' = [counters EXCEPT !["messages"] = @ + 1,
                                  !["fromHistory"] = @ + IF replayed THEN 1 ELSE 0]
  /\ IF Head(work) = "unknown"
       THEN step' = "note" /\ UNCHANGED work
       ELSE NextRecord(FALSE)
  /\ UNCHANGED <<replayed, tally, given, queued, pointers, handled, owing, failures, snap>>

(* NoteUnrecognised: the counter, then the type, under the lock.  First    *)
(* the mutated form: the type, then the counter.                           *)
NoteTypeFirst ==
  /\ \/ /\ step = "note"
        /\ tally' = tally + 1
        /\ step' = "tally"
        /\ UNCHANGED <<counters, work>>
     \/ /\ step = "tally"
        /\ Count("unrecognised")
        /\ NextRecord(FALSE)
        /\ UNCHANGED tally
  /\ UNCHANGED <<replayed, given, queued, pointers, handled, owing, failures, snap>>

NoteUnrecognised ==
  /\ \/ /\ step = "note"
        /\ Count("unrecognised")
        /\ step' = "tally"
        /\ UNCHANGED <<tally, work>>
     \/ /\ step = "tally"
        /\ tally' = tally + 1
        /\ NextRecord(FALSE)
        /\ UNCHANGED counters
  /\ UNCHANGED <<replayed, given, queued, pointers, handled, owing, failures, snap>>

-----------------------------------------------------------------------------
(* Snapshot, on a request goroutine: the types are copied under their      *)
(* lock, and only then the counters loaded.                                *)

CopyTypes ==
  /\ snap.at # "copied"
  /\ snap' = [NoSnapshot EXCEPT !.at = "copied", !.tally = tally]
  /\ UNCHANGED <<work, replayed, step, counters, tally, given, queued, pointers,
                 handled, owing, failures>>

LoadCounters ==
  /\ snap.at = "copied"
  /\ snap' = [snap EXCEPT !.at = "read", !.unrecognised = counters["unrecognised"]]
  /\ UNCHANGED <<work, replayed, step, counters, tally, given, queued, pointers,
                 handled, owing, failures>>

-----------------------------------------------------------------------------
(* The process starts: what it held in memory is gone.                     *)
DispatchRestart ==
  /\ work' = << >>
  /\ replayed' = FALSE
  /\ step' = "next"
  /\ counters' = Zero
  /\ tally' = 0
  /\ given' = 0
  /\ owing' = {}
  /\ snap' = NoSnapshot
  /\ UNCHANGED <<queued, pointers, handled, failures>>

DispatchInit ==
  /\ work = << >>
  /\ replayed = FALSE
  /\ step = "next"
  /\ counters = Zero
  /\ tally = 0
  /\ given = 0
  /\ queued = {}
  /\ pointers = {}
  /\ handled = 0
  /\ owing = {}
  /\ failures = 0
  /\ snap = NoSnapshot

(* The dispatcher goes on with the event in hand.                          *)
Dispatching ==
  \/ RecordFails \/ AppendFails \/ AppendSucceeds \/ PutMedia
  \/ CountMessage \/ NoteUnrecognised

Snapshot == CopyTypes \/ LoadCounters

-----------------------------------------------------------------------------
DispatchTypeOK ==
  /\ work \in Seq(Kinds)
  /\ replayed \in BOOLEAN
  /\ step \in {"next", "media", "count", "note", "tally"}
  /\ step # "next" => work # << >>
  /\ counters \in [Counters -> Nat]
  /\ tally \in Nat /\ given \in Nat /\ handled \in Nat /\ failures \in Nat
  /\ queued \subseteq 1..handled
  /\ pointers \subseteq 1..handled
  /\ owing \subseteq 1..handled
  /\ snap \in [at : {"none", "copied", "read"}, tally : Nat, unrecognised : Nat]

(* "An event class nobody handles and a message that never decrypted are   *)
(* both silent absences": between events, everything this process was      *)
(* handed, each record of a history sync included, is stored or counted as *)
(* failed, ignored or undecryptable; every stored media message has its    *)
(* pointer or is counted without it; and the tally of unrecognised types   *)
(* sums to the count.                                                      *)
Accounted ==
  work = << >> =>
    /\ given = counters["messages"] + counters["failed"] + counters["ignored"]
                 + counters["undecryptable"]
    /\ owing = {}
    /\ tally = counters["unrecognised"]

(* "A message the archive will never see needs no media pointer": the      *)
(* pointer is only ever kept for a message the queue took, whatever fails  *)
(* and whenever the process stops.                                         *)
PointerFollowsMessage == pointers \subseteq queued

(* A status poll that runs while the dispatcher writes may report a count  *)
(* ahead of its breakdown, never a breakdown that exceeds its count.       *)
TallyNeverOverstates == snap.at = "read" => snap.tally <= snap.unrecognised
=============================================================================
