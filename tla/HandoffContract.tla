-------------------------- MODULE HandoffContract ---------------------------
(***************************************************************************)
(* What the transport and the bridge together promise about a received     *)
(* message, with no queue capacity, drain, request or failure in it: every *)
(* entry is owed to the archive until it is released, an entry is released *)
(* only once the archive has dealt with it, and the only other way out is  *)
(* to be given up, oldest first, when something newer arrives.             *)
(***************************************************************************)
EXTENDS Integers, Sequences

CONSTANTS
  Messages,
  Storable      \* those the archive can keep

VARIABLES
  received,     \* every entry so far
  owed,         \* entries the transport still answers for
  lost,         \* entries it gave up
  archive       \* messages the archive has

contractVars == <<received, owed, lost, archive>>

DealtWith(s) == received[s] \in archive \cup (Messages \ Storable)

(* S is an old end of T.                                                   *)
OldEnd(S, T) == S \subseteq T /\ \A s \in S, t \in T \ S : s < t

(* A message arrives; to make room some of the oldest may be given up.     *)
Arrive(m) ==
  /\ received' = Append(received, m)
  /\ LET all == owed \cup {Len(received) + 1}
     IN  \E S \in SUBSET all :
           /\ OldEnd(S, all)
           /\ owed' = all \ S
           /\ lost' = lost \cup S
  /\ UNCHANGED archive

(* Some entries reach the archive: also late, after they were given up.    *)
Keep(S) ==
  /\ archive' = archive \cup ({received[s] : s \in S} \cap Storable)
  /\ UNCHANGED <<received, owed, lost>>

(* The oldest entries are released, all of them dealt with.                *)
Release(S) ==
  /\ OldEnd(S, owed)
  /\ \A s \in S : DealtWith(s)
  /\ owed' = owed \ S
  /\ UNCHANGED <<received, lost, archive>>

Init ==
  /\ received = << >>
  /\ owed = {}
  /\ lost = {}
  /\ archive = {}

Next ==
  \/ \E m \in Messages : Arrive(m)
  \/ \E S \in SUBSET (1..Len(received)) : Keep(S)
  \/ \E S \in SUBSET owed : Release(S)

Spec == Init /\ [][Next]_contractVars
=============================================================================
