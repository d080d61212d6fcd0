----------------------------- MODULE ChatRepair -----------------------------
(***************************************************************************)
(* chat-repair.js: a chat row filed under a display name, with no messages *)
(* in it, is a phantom of the conversation the name resolves to.  Its arcs,*)
(* goals, contexts, proposals and pass move there, each under the content  *)
(* key it would have had; where the conversation has that row already, its *)
(* own wins.  A name that holds messages is left alone, and one that       *)
(* resolves to nothing is too.  One transaction moves every phantom.       *)
(***************************************************************************)
EXTENDS Archive

Phantoms ==
  {n \in db.chats \cap Names : MessagesOf(db, n) = {} /\ HomeOf[n] \in db.titled}

(* A mutant: an arc keeps its key when it moves.                           *)
ArcKeyLeft(c, key) == key

(* A row is re-keyed for the conversation it moves to.                     *)
ArcKey(c, key) == <<c, key[2]>>

GoalKey(c, key) == <<<<c, key[1][2]>>, key[2]>>

ContextKey(c, key) == <<c, key[2]>>

ProposalKey(c, key, arc) == <<c, arc, key[3]>>

(* An arc that moves is the conversation's.                                *)
Moved(home, arc) ==
  [key |-> ArcKey(home, arc.key), chat |-> home, first |-> arc.first, last |-> arc.last]

MovedArcs(d, n) == {i \in DOMAIN d.arcs : d.arcs[i].chat = n}

(* The arc that holds a phantom's thread afterwards.                       *)
Twin(d, n, i) ==
  LET other == ArcWith(d, ArcKey(HomeOf[n], d.arcs[i].key))
  IN  IF other = {} THEN i ELSE CHOOSE j \in other : TRUE

MergeArcs(d, n) ==
  LET moved == MovedArcs(d, n)
      folded == {i \in moved : Twin(d, n, i) # i}
      hung(g) == d.goals[g].arc \in moved
      free(g) == hung(g) /\ GoalKey(HomeOf[n], g) \notin DOMAIN d.goals
      stay == {g \in DOMAIN d.goals : ~hung(g)}
      gone == {g \in DOMAIN d.goals : free(g)}
  IN  [d EXCEPT
        !.arcs = [i \in DOMAIN @ \ folded |->
                    IF i \in moved THEN Moved(HomeOf[n], d.arcs[i]) ELSE d.arcs[i]],
        !.goals = [key \in stay \cup {GoalKey(HomeOf[n], g) : g \in gone} |->
                    IF key \in stay THEN d.goals[key]
                    ELSE LET g == CHOOSE g \in gone : GoalKey(HomeOf[n], g) = key
                         IN  [d.goals[g] EXCEPT !.arc = Twin(d, n, d.goals[g].arc)]]]

MergeContexts(d, n) ==
  LET moved == {x \in DOMAIN d.contexts : d.contexts[x].chat = n}
      free  == {x \in moved : ContextKey(HomeOf[n], x) \notin DOMAIN d.contexts}
      stay  == DOMAIN d.contexts \ moved
  IN  [d EXCEPT !.contexts =
        [key \in stay \cup {ContextKey(HomeOf[n], x) : x \in free} |->
           IF key \in stay THEN d.contexts[key]
           ELSE LET x == CHOOSE x \in free : ContextKey(HomeOf[n], x) = key
                IN  [d.contexts[x] EXCEPT !.chat = HomeOf[n]]]]

(* before: the arcs as they were, which say where each proposal's went.    *)
MergeProposals(d, before, n) ==
  LET arc(p) == IF d.proposals[p].arc = NoArc THEN NoArc
                ELSE Twin(before, n, d.proposals[p].arc)
      key(p) == ProposalKey(HomeOf[n], p, arc(p))
      moved  == {p \in DOMAIN d.proposals : d.proposals[p].chat = n}
      free   == {p \in moved : key(p) \notin DOMAIN d.proposals}
      stay   == DOMAIN d.proposals \ moved
  IN  [d EXCEPT !.proposals =
        [q \in stay \cup {key(p) : p \in free} |->
           IF q \in stay THEN d.proposals[q]
           ELSE LET p == CHOOSE p \in free : key(p) = q
                IN  [d.proposals[p] EXCEPT !.chat = HomeOf[n], !.arc = arc(p)]]]

(* The later pass is kept; the phantom's wins only if it is later.         *)
MergePass(d, n) ==
  LET home == HomeOf[n]
      later == \/ home \notin DOMAIN d.passes
               \/ d.passes[home].at < d.passes[n].at
      kept == IF later THEN Put(d.passes, home, d.passes[n]) ELSE d.passes
  IN  IF n \notin DOMAIN d.passes THEN d
      ELSE [d EXCEPT !.passes = Without(kept, {n})]

MergeOne(n, d) ==
  LET moved == MergePass(MergeProposals(MergeContexts(MergeArcs(d, n), n), d, n), n)
  IN  [moved EXCEPT !.chats = @ \ {n}]

(* The phantoms are repaired one after another.                            *)
Repaired[names \in SUBSET Phantoms] ==
  IF names = {} THEN db
  ELSE LET n == The(names) IN MergeOne(n, Repaired[names \ {n}])

Repair ==
  /\ Phantoms # {}
  /\ db' = Repaired[Phantoms]
  /\ UNCHANGED now

=============================================================================
