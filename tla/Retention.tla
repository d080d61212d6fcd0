----------------------------- MODULE Retention ------------------------------
(***************************************************************************)
(* store.js prune: what the policy says is past keeping is deleted in one  *)
(* transaction, statement after statement, and with it what cites it.      *)
(* SQLite checks the foreign keys after each statement; one that fails     *)
(* rolls the whole prune back.  A dry run runs the same statements and     *)
(* rolls back: it leaves what it found, and is not a step.                 *)
(***************************************************************************)
EXTENDS Archive, Sequences

CONSTANTS
  Policies,      \* what retentionFromEnv may read: windows in days, per kind
  NoWindow       \* a window the operator did not set: keep for ever

ASSUME RetentionAssumption ==
  /\ NoWindow \notin Nat
  /\ Policies \subseteq [messages : Nat \cup {NoWindow}, transcripts : Nat \cup {NoWindow},
                         retracted : Nat \cup {NoWindow}]

(* The instants a window has passed; a window of zero keeps nothing.       *)
Past(days) == IF days = NoWindow THEN {} ELSE {i \in 0..now : i + days <= now}

(* A mutant: a message with no date counts as old.                         *)
OldByGuess(policy) ==
  {k \in Stored : policy.messages # NoWindow
                  /\ (DateOf[k] = Undated \/ DateOf[k] \in Past(policy.messages))}

(* Dated messages only are old enough to forget.                           *)
OldBy(policy) == {k \in Stored : DateOf[k] \in Past(policy.messages)}

(* What arcs a prune takes: those that begin or end in what goes.          *)
DoomedArcs(d, old) ==
  {i \in DOMAIN d.arcs : d.arcs[i].first \in old \/ d.arcs[i].last \in old}

(* The two windows of their own.                                           *)
ExpireTranscripts(d, policy) ==
  [d EXCEPT !.transcripts = Without(@, {k \in DOMAIN @ : @[k] \in Past(policy.transcripts)})]
ExpireRetracted(d, policy) ==
  [d EXCEPT !.facts = Without(@, {i \in DOMAIN @ : @[i].retracted \in Past(policy.retracted)})]

(* Children before parents.                                                *)
DeleteGoals(d, old) ==
  [d EXCEPT !.goals = Without(@, {g \in DOMAIN @ : \/ @[g].source \in old
                                                   \/ @[g].arc \in DoomedArcs(d, old)})]
(* A mutant: the moves hanging off a doomed arc are forgotten.             *)
DeleteProposalsOfNone(d, old) == d

DeleteProposals(d, old) ==
  [d EXCEPT !.proposals = Without(@, {p \in DOMAIN @ : @[p].arc \in DoomedArcs(d, old)})]

DeleteArcs(d, old) ==
  [d EXCEPT !.arcs = Without(@, DoomedArcs(d, old))]

(* Contexts, facts, transcripts, extractions and passes that cite it.      *)
DeleteCiting(d, old) ==
  [d EXCEPT !.contexts    = Without(@, {x \in DOMAIN @ : @[x].source \in old}),
            !.facts       = Without(@, {i \in DOMAIN @ : @[i].source \in old}),
            !.transcripts = Without(@, old),
            !.extractions = Without(@, {x \in DOMAIN @ : x[2] \in old}),
            !.passes      = Without(@, {c \in DOMAIN @ : @[c].through \in old})]

DeleteMessages(d, old) == [d EXCEPT !.messages = Without(@, old)]

(* A chat with nothing left in it is still a record of a conversation.     *)
DeleteEmptyChats(d) ==
  [d EXCEPT !.chats  = @ \cap Range(d.messages),
            !.titled = @ \cap Range(d.messages)]

(* What each statement leaves that a foreign key could object to.          *)
PruneStages(policy) ==
  LET d0  == ExpireRetracted(ExpireTranscripts(db, policy), policy)
      old == OldBy(policy)
      d1  == DeleteGoals(d0, old)
      d2  == DeleteProposals(d1, old)
      d3  == DeleteArcs(d2, old)
      d4  == DeleteCiting(d3, old)
      d5  == DeleteMessages(d4, old)
  IN  IF policy.messages = NoWindow THEN <<d0>>
      ELSE <<d0, d1, d2, d3, d4, d5, DeleteEmptyChats(d5)>>

(* A mutant: PRAGMA foreign_keys is left off.                              *)
RefusedNever(stages) == FALSE

Refused(stages) == \E i \in DOMAIN stages : ~ForeignKeys(stages[i])

Last(stages) == stages[Len(stages)]

(* No window at all is skipped; a refused prune throws and changes nothing.*)
Prune(policy) ==
  LET stages == PruneStages(policy)
  IN  /\ ~Refused(stages)
      /\ db' = Last(stages)
      /\ UNCHANGED now

=============================================================================
