--------------------------- MODULE ArchiveSystem ----------------------------
(***************************************************************************)
(* The archive as it is used: the bridge files what it drains and what the *)
(* agent derives, the operator prunes and repairs, and the clock goes on.  *)
(***************************************************************************)
EXTENDS Retention, ChatRepair

CONSTANT LegacyKeys    \* messages filed under names before the transport existed

ASSUME LegacyAssumption == LegacyKeys \subseteq Keys

ProposalStatuses == {"open", "dismissed"}   \* accepted and expired close a move alike
Answers == {"dismissed"}                    \* no caller opens a move again
ItemStatuses == {"open", "done"}            \* dropped closes an extraction like done

Empty == << >>

(* A file an earlier build may have left: rows filed under names, with the *)
(* messages it read there or with none.                                    *)
ArchiveInit ==
  /\ now = 0
  /\ \E names \in SUBSET Names, held \in SUBSET LegacyKeys : \E filed \in [held -> names] :
       db = [chats |-> names, titled |-> {}, messages |-> filed,
             facts |-> Empty, transcripts |-> Empty, extractions |-> Empty, aliases |-> Empty,
             arcs |-> Empty, goals |-> Empty, contexts |-> Empty, passes |-> Empty,
             proposals |-> Empty]

Tick ==
  /\ now < MaxNow
  /\ now' = now + 1
  /\ UNCHANGED db

AtMostOne(S) == {{}} \cup {{x} : x \in S}

NotesNext ==
  \/ \E k \in Keys : AddFact(k) \/ RecordTranscript(k)
  \/ \E i \in DOMAIN db.facts : RetractFact(i) \/ RestoreFact(i)
  \/ \E w \in Words, k \in Keys : AddExtraction(w, k)
  \/ \E x \in DOMAIN db.extractions, s \in ItemStatuses : ResolveExtraction(x, s)
  \/ \E n \in Nicknames, k \in Keys \cup {NoKey} : SetAlias(n, k)
  \/ \E n \in DOMAIN db.aliases : RemoveAlias(n)

TwinNext ==
  \/ \E asked \in Chats, k \in Keys :
       \E arcs \in AtMostOne([title : Titles, first : Keys, last : Keys,
                                goals : AtMostOne(Words \X Keys)]),
          contexts \in AtMostOne(Words \X Keys) :
         SaveInteractionModel(asked, k, arcs, contexts)
  \/ \E asked \in Chats, t \in Titles \cup {NoArc}, draft \in Drafts, basis \in SUBSET Keys :
       AddProposal(asked, t, draft, basis)
  \/ \E p \in DOMAIN db.proposals, s \in Answers : ResolveProposal(p, s)

ArchiveNext ==
  \/ \E k \in Keys, c \in Addresses, titled \in BOOLEAN : Drain(k, c, titled)
  \/ \E c \in Addresses : RenameChat(c)
  \/ NotesNext
  \/ TwinNext
  \/ \E policy \in Policies : Prune(policy)
  \/ Repair
  \/ Tick

ArchiveSpec == ArchiveInit /\ [][ArchiveNext]_archiveVars

-----------------------------------------------------------------------------
Instants == 0..MaxNow

(* Every table has the columns it is declared with, and every reference    *)
(* the schema declares resolves.                                           *)
ArchiveTypeOK ==
  /\ now \in Instants
  /\ db.chats \subseteq Chats /\ db.titled \subseteq db.chats \cap Addresses
  /\ DOMAIN db.messages \subseteq Keys
  /\ DOMAIN db.facts \subseteq Nat
  /\ DOMAIN db.transcripts \subseteq Keys
  /\ DOMAIN db.aliases \subseteq Nicknames
  /\ DOMAIN db.arcs \subseteq Nat
  /\ DOMAIN db.passes \subseteq Chats
  /\ \A i \in DOMAIN db.facts : db.facts[i].retracted \in Instants \cup {Undated}
  /\ \A c \in DOMAIN db.passes : db.passes[c].at \in Instants
  /\ \A p \in DOMAIN db.proposals : db.proposals[p].basis \in (SUBSET Keys) \ {{}}
  /\ ForeignKeys(db)

(* Every row is under the content key that its writer would compute for it *)
(* today, whatever passes, repairs and prunes came before: or the next     *)
(* pass forks the thread it should continue (chat-repair.js, store.js).    *)
KeysFollowRows ==
  /\ \A i \in DOMAIN db.arcs : db.arcs[i].key[1] = db.arcs[i].chat
  /\ \A i, j \in DOMAIN db.arcs : db.arcs[i].key = db.arcs[j].key => i = j
  /\ \A g \in DOMAIN db.goals : db.arcs[db.goals[g].arc].key = g[1]
  /\ \A x \in DOMAIN db.contexts : db.contexts[x].chat = x[1]
  /\ \A p \in DOMAIN db.proposals :
       /\ p[1] = db.proposals[p].chat /\ p[2] = db.proposals[p].arc
       /\ p[2] # NoArc => db.arcs[p[2]].chat = p[1]

(* A prune is refused only by what its statements do not reach: an alias   *)
(* read out of a message that goes, a move on no arc under a chat that     *)
(* goes, or a row that cites a message of another chat than its own.       *)
LocalCitations ==
  /\ \A i \in DOMAIN db.arcs :
       {db.arcs[i].first, db.arcs[i].last} \subseteq MessagesOf(db, db.arcs[i].chat)
  /\ \A x \in DOMAIN db.contexts : db.contexts[x].source \in MessagesOf(db, db.contexts[x].chat)
  /\ \A c \in DOMAIN db.passes : db.passes[c].through \in MessagesOf(db, c)
ReachedBy(policy) ==
  /\ LocalCitations
  /\ Range(db.aliases) \cap OldBy(policy) = {}
  /\ \A p \in DOMAIN db.proposals :
       db.proposals[p].arc = NoArc =>
         MessagesOf(db, db.proposals[p].chat) \ OldBy(policy) # {}
PruneCommits ==
  \A policy \in Policies : ReachedBy(policy) => ~Refused(PruneStages(policy))

(* store.js: refusing would mean that the archive can never shrink, so the *)
(* prune cascades.  No prune the operator may ask for is refused.          *)
PruneNeverRefused == \A policy \in Policies : ~Refused(PruneStages(policy))

(* What a prune may take: a message past its window, a row one of whose    *)
(* citations went or whose own window passed, a chat with nothing left.    *)
(* Undated messages stay for good, and so does what cites only what stays. *)
TakesOnlyWhatIsOwed(policy) ==
  LET after == Last(PruneStages(policy))
      gone(table) == DOMAIN db[table] \ DOMAIN after[table]
      old == {k \in Stored : DateOf[k] \in Past(policy.messages)}
  IN  /\ gone("messages") \subseteq old
      /\ gone("aliases") = {}
      /\ \A i \in gone("facts") :
           db.facts[i].source \in old \/ db.facts[i].retracted \in Past(policy.retracted)
      /\ \A k \in gone("transcripts") : k \in old \/ db.transcripts[k] \in Past(policy.transcripts)
      /\ \A x \in gone("extractions") : x[2] \in old
      /\ \A i \in gone("arcs") : {db.arcs[i].first, db.arcs[i].last} \cap old # {}
      /\ \A g \in gone("goals") : db.goals[g].source \in old \/ db.goals[g].arc \in gone("arcs")
      /\ \A p \in gone("proposals") : db.proposals[p].arc \in gone("arcs")
      /\ \A x \in gone("contexts") : db.contexts[x].source \in old
      /\ \A c \in gone("passes") : db.passes[c].through \in old
      /\ \A c \in db.chats \ after.chats : MessagesOf(db, c) \subseteq old
PruneTakesOnlyWhatIsOwed == \A policy \in Policies : TakesOnlyWhatIsOwed(policy)

=============================================================================
