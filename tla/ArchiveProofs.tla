---------------------------- MODULE ArchiveProofs ---------------------------
(***************************************************************************)
(* Theorems about the archive for every set of messages, conversations,    *)
(* names, titles and words, every retention policy and every bound.        *)
(*                                                                         *)
(* ArchiveInv is the invariant: table by table, every reference resolves   *)
(* (to a message there is, a chat there is, an arc there is), and every    *)
(* row is under the key its writer would compute for it today. Keys and    *)
(* references support each other: a repair may fold one arc into another   *)
(* only because no two arcs share a key, and a proposal may follow its arc *)
(* only because the arc is of the proposal's chat.                         *)
(*                                                                         *)
(* A prune is followed statement by statement (D0 to D6): up to the        *)
(* messages every stage is a part of what was there whose own references   *)
(* resolve; the messages may go because nothing left cites them            *)
(* (CitesWhatStays). What is left then satisfies the invariant because a   *)
(* part of a table does. A repair is Repaired, defined by recursion on a   *)
(* finite set of phantoms: RepairsExist shows by induction on its          *)
(* cardinality that there is such a function, RepairedIs that Repaired is  *)
(* one, and RepairedOK follows it phantom by phantom.                      *)
(***************************************************************************)
EXTENDS ArchiveSystem, Induction, FiniteSetTheorems, TLAPS

Tables == {"chats", "titled", "messages", "facts", "transcripts", "extractions", "aliases",
           "arcs", "goals", "contexts", "passes", "proposals"}

ArcKeys == Chats \X Titles
ArcIds == 1 .. MaxId
ArcRows == [key : ArcKeys, chat : Chats, first : Keys, last : Keys]

\* The rows of one table, whose references resolve among the messages known,
\* the chats there are and the arcs.
ChatsOK(chats, titled) == chats \subseteq Chats /\ titled \subseteq chats \cap Addresses

MessagesOK(messages, chats) ==
    DOMAIN messages \subseteq Keys /\ \A k \in DOMAIN messages : messages[k] \in chats

FactsOK(facts, known) ==
    /\ DOMAIN facts \subseteq ArcIds
    /\ \A i \in DOMAIN facts :
          facts[i] \in [source : known, retracted : Instants \cup {Undated}]

TranscriptsOK(transcripts, known) == DOMAIN transcripts \subseteq known

ExtractionsOK(extractions, known) == DOMAIN extractions \subseteq Words \X known

AliasesOK(aliases, known) ==
    DOMAIN aliases \subseteq Nicknames /\ \A n \in DOMAIN aliases : aliases[n] \in known \cup {NoKey}

\* An arc is under its chat's key, and no other arc is.
ArcsOK(arcs, chats, known) ==
    /\ DOMAIN arcs \subseteq ArcIds
    /\ \A i \in DOMAIN arcs : arcs[i] \in ArcRows
    /\ \A i \in DOMAIN arcs : /\ arcs[i].chat \in chats /\ arcs[i].key[1] = arcs[i].chat
                              /\ arcs[i].first \in known /\ arcs[i].last \in known
    /\ \A i, j \in DOMAIN arcs : arcs[i].key = arcs[j].key => i = j

\* A goal is under its arc's key.
GoalsOK(goals, arcs, known) ==
    /\ DOMAIN goals \subseteq ArcKeys \X Words
    /\ \A g \in DOMAIN goals : goals[g] \in [arc : DOMAIN arcs, source : known]
    /\ \A g \in DOMAIN goals : arcs[goals[g].arc].key = g[1]

ContextsOK(contexts, chats, known) ==
    /\ DOMAIN contexts \subseteq Chats \X Words
    /\ \A x \in DOMAIN contexts : contexts[x] \in [chat : chats, source : known]
    /\ \A x \in DOMAIN contexts : contexts[x].chat = x[1]

PassesOK(passes, chats, known) ==
    /\ DOMAIN passes \subseteq chats
    /\ \A c \in DOMAIN passes : passes[c] \in [through : known, at : Instants]

\* A proposal is under its chat's and its arc's key, and the arc is the chat's.
ProposalsOK(proposals, arcs, chats) ==
    /\ DOMAIN proposals \subseteq Chats \X (ArcIds \cup {NoArc}) \X Drafts
    /\ \A p \in DOMAIN proposals :
          proposals[p] \in [chat : chats, arc : DOMAIN arcs \cup {NoArc},
                            basis : (SUBSET Keys) \ {{}}, status : ProposalStatuses]
    /\ \A p \in DOMAIN proposals :
          /\ proposals[p].chat = p[1] /\ proposals[p].arc = p[2]
          /\ p[2] # NoArc => arcs[p[2]].chat = p[1]

ArchiveOK(d) ==
    /\ DOMAIN d = Tables
    /\ ChatsOK(d.chats, d.titled)
    /\ MessagesOK(d.messages, d.chats)
    /\ FactsOK(d.facts, DOMAIN d.messages)
    /\ TranscriptsOK(d.transcripts, DOMAIN d.messages)
    /\ ExtractionsOK(d.extractions, DOMAIN d.messages)
    /\ AliasesOK(d.aliases, DOMAIN d.messages)
    /\ ArcsOK(d.arcs, d.chats, DOMAIN d.messages)
    /\ GoalsOK(d.goals, d.arcs, DOMAIN d.messages)
    /\ ContextsOK(d.contexts, d.chats, DOMAIN d.messages)
    /\ PassesOK(d.passes, d.chats, DOMAIN d.messages)
    /\ ProposalsOK(d.proposals, d.arcs, d.chats)

ArchiveInv == now \in Instants /\ ArchiveOK(db)

-----------------------------------------------------------------------------
(* Tables.                                                                 *)

LEMMA PutNewIs ==
  ASSUME NEW table, NEW key, NEW row
  PROVE  /\ DOMAIN PutNew(table, key, row) = DOMAIN table \cup {key}
         /\ \A x \in DOMAIN table : PutNew(table, key, row)[x] = table[x]
         /\ key \notin DOMAIN table => PutNew(table, key, row)[key] = row
<1>1. CASE key \in DOMAIN table
  <2>1. PutNew(table, key, row) = table /\ DOMAIN table \cup {key} = DOMAIN table
    BY <1>1 DEF PutNew
  <2> QED
    BY <1>1, <2>1
<1>2. CASE key \notin DOMAIN table
  BY <1>2 DEF PutNew, Put
<1> QED
  BY <1>1, <1>2

\* The next id is a natural number that no row has.
LEMMA NextIdIsNew ==
  ASSUME NEW table, DOMAIN table \subseteq ArcIds
  PROVE  NextId(table) \in Nat \ {0} /\ NextId(table) \notin DOMAIN table
<1>1. CASE DOMAIN table = {}
  BY <1>1 DEF NextId
<1>2. CASE DOMAIN table # {}
  <2> DEFINE T == {MaxId - k : k \in DOMAIN table}
  <2>0. MaxId \in Nat /\ \A k \in DOMAIN table : k \in Nat /\ MaxId - k \in Nat
    BY ArchiveAssumption DEF ArcIds
  <2>1. T \subseteq Nat /\ T # {}
    BY <1>2, <2>0
  <2> HIDE DEF T
  <2>2. PICK least \in T : \A k \in T : least <= k
    BY <2>1, Least
  <2> USE DEF T
  <2>3. PICK k \in DOMAIN table : least = MaxId - k
    BY <2>2
  <2>4. \A j \in DOMAIN table : j <= k
    <3> TAKE j \in DOMAIN table
    <3>1. MaxId - k <= MaxId - j
      BY <2>2, <2>3
    <3> QED
      BY <2>0, <3>1
  <2> DEFINE last == CHOOSE i \in DOMAIN table : \A j \in DOMAIN table : j <= i
  <2>5. last \in DOMAIN table /\ \A j \in DOMAIN table : j <= last
    BY <2>4
  <2>6. NextId(table) = 1 + last
    BY <1>2 DEF NextId
  <2> HIDE DEF last
  <2> QED
    BY <2>0, <2>5, <2>6
<1> QED
  BY <1>1, <1>2

-----------------------------------------------------------------------------
(* Messages and chats that come leave every reference resolved.            *)

LEMMA ReferencesStay ==
  ASSUME NEW d, ArchiveOK(d), NEW known, DOMAIN d.messages \subseteq known,
         NEW chats, d.chats \subseteq chats
  PROVE  /\ FactsOK(d.facts, known) /\ TranscriptsOK(d.transcripts, known)
         /\ ExtractionsOK(d.extractions, known) /\ AliasesOK(d.aliases, known)
         /\ ArcsOK(d.arcs, chats, known) /\ GoalsOK(d.goals, d.arcs, known)
         /\ ContextsOK(d.contexts, chats, known) /\ PassesOK(d.passes, chats, known)
         /\ ProposalsOK(d.proposals, d.arcs, chats)
<1>1. FactsOK(d.facts, known)
  BY DEF ArchiveOK, FactsOK
<1>2. TranscriptsOK(d.transcripts, known) /\ AliasesOK(d.aliases, known)
  BY DEF ArchiveOK, TranscriptsOK, AliasesOK
<1>3. ExtractionsOK(d.extractions, known)
  BY DEF ArchiveOK, ExtractionsOK
<1>4. ArcsOK(d.arcs, chats, known)
  BY DEF ArchiveOK, ArcsOK
<1>5. GoalsOK(d.goals, d.arcs, known)
  BY DEF ArchiveOK, GoalsOK
<1>6. ContextsOK(d.contexts, chats, known)
  BY DEF ArchiveOK, ContextsOK
<1>7. PassesOK(d.passes, chats, known)
  BY DEF ArchiveOK, PassesOK
<1>8. ProposalsOK(d.proposals, d.arcs, chats)
  BY DEF ArchiveOK, ProposalsOK
<1> QED
  BY <1>1, <1>2, <1>3, <1>4, <1>5, <1>6, <1>7, <1>8

LEMMA DrainStep ==
  ASSUME ArchiveOK(db), NEW k \in Keys, NEW c \in Addresses, NEW titled \in BOOLEAN,
         Drain(k, c, titled)
  PROVE  ArchiveOK(db')
<1> DEFINE messages == PutNew(db.messages, k, c)
           chats == db.chats \cup {c}
<1>1. /\ DOMAIN db' = Tables
      /\ db'.chats = chats /\ db'.messages = messages
      /\ db'.titled = (IF titled THEN db.titled \cup {c} ELSE db.titled)
      /\ db'.facts = db.facts /\ db'.transcripts = db.transcripts
      /\ db'.extractions = db.extractions /\ db'.aliases = db.aliases
      /\ db'.arcs = db.arcs /\ db'.goals = db.goals /\ db'.contexts = db.contexts
      /\ db'.passes = db.passes /\ db'.proposals = db.proposals
  BY DEF Drain, ArchiveOK, Tables
<1>2. /\ DOMAIN messages = DOMAIN db.messages \cup {k}
      /\ \A x \in DOMAIN db.messages : messages[x] = db.messages[x]
      /\ k \notin DOMAIN db.messages => messages[k] = c
  BY PutNewIs
<1> HIDE DEF messages
<1>3. ChatsOK(db'.chats, db'.titled)
  BY <1>1 DEF ArchiveOK, ChatsOK, Chats
<1>4. MessagesOK(messages, chats)
  BY <1>2 DEF ArchiveOK, MessagesOK
<1>5. DOMAIN db.messages \subseteq DOMAIN messages /\ db.chats \subseteq chats
  BY <1>2
<1> HIDE DEF chats
<1> QED
  BY <1>1, <1>3, <1>4, <1>5, ReferencesStay DEF ArchiveOK

-----------------------------------------------------------------------------
(* What the agent derives from a message.                                  *)

\* What a step leaves alone.
SameBut(d, e, tables) == DOMAIN e = Tables /\ \A t \in Tables \ tables : e[t] = d[t]

LEMMA NotesStay ==
  ASSUME NEW d, ArchiveOK(d), NEW e,
         SameBut(d, e, {"facts", "transcripts", "extractions", "aliases", "titled"}),
         ChatsOK(e.chats, e.titled), FactsOK(e.facts, DOMAIN d.messages),
         TranscriptsOK(e.transcripts, DOMAIN d.messages),
         ExtractionsOK(e.extractions, DOMAIN d.messages), AliasesOK(e.aliases, DOMAIN d.messages)
  PROVE  ArchiveOK(e)
<1>1. /\ e.chats = d.chats /\ e.messages = d.messages /\ e.arcs = d.arcs /\ e.goals = d.goals
      /\ e.contexts = d.contexts /\ e.passes = d.passes /\ e.proposals = d.proposals
      /\ DOMAIN e = Tables
  BY DEF SameBut, Tables
<1> QED
  BY <1>1 DEF ArchiveOK

LEMMA NotesSteps ==
  ASSUME ArchiveInv, NotesNext \/ (\E c \in Addresses : RenameChat(c))
  PROVE  ArchiveOK(db')
<1>1. /\ DOMAIN db = Tables /\ now \in Instants /\ ChatsOK(db.chats, db.titled)
      /\ FactsOK(db.facts, Stored) /\ TranscriptsOK(db.transcripts, Stored)
      /\ ExtractionsOK(db.extractions, Stored) /\ AliasesOK(db.aliases, Stored)
  BY DEF ArchiveInv, ArchiveOK, Stored
<1>2. ASSUME NEW c \in Addresses, RenameChat(c) PROVE ArchiveOK(db')
  <2>1. SameBut(db, db', {"titled"}) /\ db'.titled = db.titled \cup {c} /\ c \in db.chats
    BY <1>1, <1>2 DEF RenameChat, SameBut, Tables
  <2>2. ChatsOK(db'.chats, db'.titled)
    BY <1>1, <2>1 DEF ChatsOK, SameBut, Tables
  <2> QED
    BY <1>1, <2>1, <2>2, NotesStay DEF ArchiveInv, SameBut, Tables, Stored
<1>3. ASSUME SameBut(db, db', {"facts"}), FactsOK(db'.facts, Stored) PROVE ArchiveOK(db')
  BY <1>1, <1>3, NotesStay DEF ArchiveInv, SameBut, Tables, Stored
<1>4. ASSUME NEW k \in Keys, AddFact(k) PROVE ArchiveOK(db')
  <2> DEFINE row == [source |-> k, retracted |-> Undated]
             id == NextId(db.facts)
  <2>1. SameBut(db, db', {"facts"}) /\ db'.facts = Put(db.facts, id, row)
    BY <1>1, <1>4 DEF AddFact, SameBut, Tables
  <2>2. id \in ArcIds
    BY <1>1, <1>4, NextIdIsNew, ArchiveAssumption DEF AddFact, ArcIds, FactsOK
  <2>3. row \in [source : Stored, retracted : Instants \cup {Undated}]
    BY <1>4 DEF AddFact
  <2> HIDE DEF row, id
  <2>4. FactsOK(db'.facts, Stored)
    BY <1>1, <2>1, <2>2, <2>3 DEF FactsOK, Put
  <2> QED
    BY <1>3, <2>1, <2>4
<1>5. ASSUME NEW i \in DOMAIN db.facts, NEW when \in Instants \cup {Undated},
             db' = [db EXCEPT !.facts[i].retracted = when]
      PROVE  ArchiveOK(db')
  <2>1. /\ SameBut(db, db', {"facts"})
        /\ db'.facts = [db.facts EXCEPT ![i] = [db.facts[i] EXCEPT !.retracted = when]]
    BY <1>1, <1>5 DEF SameBut, Tables
  <2>2. [db.facts[i] EXCEPT !.retracted = when]
           \in [source : Stored, retracted : Instants \cup {Undated}]
    BY <1>1 DEF FactsOK
  <2>3. FactsOK(db'.facts, Stored)
    BY <1>1, <2>1, <2>2 DEF FactsOK
  <2> QED
    BY <1>3, <2>1, <2>3
<1>6. ASSUME NEW k \in Keys, RecordTranscript(k) PROVE ArchiveOK(db')
  <2>1. SameBut(db, db', {"transcripts"}) /\ db'.transcripts = Put(db.transcripts, k, now)
    BY <1>1, <1>6 DEF RecordTranscript, SameBut, Tables
  <2>2. TranscriptsOK(db'.transcripts, Stored)
    BY <1>1, <1>6, <2>1 DEF RecordTranscript, TranscriptsOK, Put
  <2> QED
    BY <1>1, <2>1, <2>2, NotesStay DEF ArchiveInv, SameBut, Tables, Stored
<1>7. ASSUME SameBut(db, db', {"extractions"}), ExtractionsOK(db'.extractions, Stored)
      PROVE  ArchiveOK(db')
  BY <1>1, <1>7, NotesStay DEF ArchiveInv, SameBut, Tables, Stored
<1>8. ASSUME NEW w \in Words, NEW k \in Keys, AddExtraction(w, k) PROVE ArchiveOK(db')
  <2>1. /\ SameBut(db, db', {"extractions"})
        /\ db'.extractions = PutNew(db.extractions, <<w, k>>, "open") /\ k \in Stored
    BY <1>1, <1>8 DEF AddExtraction, SameBut, Tables
  <2>2. ExtractionsOK(db'.extractions, Stored)
    BY <1>1, <2>1 DEF ExtractionsOK, PutNew, Put
  <2> QED
    BY <1>7, <2>1, <2>2
<1>9. ASSUME NEW x \in DOMAIN db.extractions, NEW s \in ItemStatuses, ResolveExtraction(x, s)
      PROVE  ArchiveOK(db')
  <2>1. /\ SameBut(db, db', {"extractions"})
        /\ db'.extractions = [db.extractions EXCEPT ![x] = s]
    BY <1>1, <1>9 DEF ResolveExtraction, SameBut, Tables
  <2>2. ExtractionsOK(db'.extractions, Stored)
    BY <1>1, <2>1 DEF ExtractionsOK
  <2> QED
    BY <1>7, <2>1, <2>2
<1>10. ASSUME SameBut(db, db', {"aliases"}), AliasesOK(db'.aliases, Stored) PROVE ArchiveOK(db')
  BY <1>1, <1>10, NotesStay DEF ArchiveInv, SameBut, Tables, Stored
<1>11. ASSUME NEW n \in Nicknames, NEW k \in Keys \cup {NoKey}, SetAlias(n, k)
       PROVE  ArchiveOK(db')
  <2>1. /\ SameBut(db, db', {"aliases"}) /\ db'.aliases = Put(db.aliases, n, k)
        /\ k \in Stored \cup {NoKey}
    BY <1>1, <1>11 DEF SetAlias, SameBut, Tables
  <2>2. AliasesOK(db'.aliases, Stored)
    BY <1>1, <2>1 DEF AliasesOK, Put
  <2> QED
    BY <1>10, <2>1, <2>2
<1>12. ASSUME NEW n \in DOMAIN db.aliases, RemoveAlias(n) PROVE ArchiveOK(db')
  <2>1. SameBut(db, db', {"aliases"}) /\ db'.aliases = Without(db.aliases, {n})
    BY <1>1, <1>12 DEF RemoveAlias, SameBut, Tables
  <2>2. AliasesOK(db'.aliases, Stored)
    BY <1>1, <2>1 DEF AliasesOK, Without, Restrict
  <2> QED
    BY <1>10, <2>1, <2>2
<1>13. ASSUME NEW i \in DOMAIN db.facts, RetractFact(i) \/ RestoreFact(i) PROVE ArchiveOK(db')
  BY <1>1, <1>5, <1>13 DEF RetractFact, RestoreFact
<1> QED
  BY <1>2, <1>4, <1>6, <1>8, <1>9, <1>11, <1>12, <1>13 DEF NotesNext

-----------------------------------------------------------------------------
(* The interaction twin.                                                   *)

LEMMA TwinStays ==
  ASSUME NEW d, ArchiveOK(d), NEW e,
         SameBut(d, e, {"arcs", "goals", "contexts", "passes", "proposals"}),
         ArcsOK(e.arcs, d.chats, DOMAIN d.messages), GoalsOK(e.goals, e.arcs, DOMAIN d.messages),
         ContextsOK(e.contexts, d.chats, DOMAIN d.messages),
         PassesOK(e.passes, d.chats, DOMAIN d.messages),
         ProposalsOK(e.proposals, e.arcs, d.chats)
  PROVE  ArchiveOK(e)
<1>1. /\ e.chats = d.chats /\ e.titled = d.titled /\ e.messages = d.messages
      /\ e.facts = d.facts /\ e.transcripts = d.transcripts
      /\ e.extractions = d.extractions /\ e.aliases = d.aliases /\ DOMAIN e = Tables
  BY DEF SameBut, Tables
<1> QED
  BY <1>1 DEF ArchiveOK

\* What continues or begins an arc leaves exactly one arc under its key.
LEMMA WithArcIs ==
  ASSUME NEW d, ArchiveOK(d), NEW c \in d.chats, NEW t \in Titles,
         NEW first \in DOMAIN d.messages, NEW last \in DOMAIN d.messages,
         DOMAIN WithArc(d, c, t, first, last).arcs \subseteq ArcIds
  PROVE  /\ ArchiveOK(WithArc(d, c, t, first, last))
         /\ SameBut(d, WithArc(d, c, t, first, last), {"arcs"})
         /\ ArcWith(WithArc(d, c, t, first, last), <<c, t>>) # {}
<1> DEFINE e == WithArc(d, c, t, first, last)
           key == <<c, t>>
           id == NextId(d.arcs)
           row == [key |-> key, chat |-> c, first |-> first, last |-> last]
           known == DOMAIN d.messages
<1>1. /\ DOMAIN d = Tables /\ known \subseteq Keys /\ d.chats \subseteq Chats
      /\ ArcsOK(d.arcs, d.chats, known) /\ GoalsOK(d.goals, d.arcs, known)
      /\ ContextsOK(d.contexts, d.chats, known) /\ PassesOK(d.passes, d.chats, known)
      /\ ProposalsOK(d.proposals, d.arcs, d.chats)
  BY DEF ArchiveOK, MessagesOK, ChatsOK
<1>2. CASE ArcWith(d, key) # {}
  <2> DEFINE arcs == [i \in DOMAIN d.arcs |-> IF i \in ArcWith(d, key)
                                              THEN [d.arcs[i] EXCEPT !.last = last] ELSE d.arcs[i]]
  <2>1. e.arcs = arcs /\ SameBut(d, e, {"arcs"})
    BY <1>1, <1>2 DEF WithArc, SameBut, Tables
  <2>2. /\ DOMAIN arcs = DOMAIN d.arcs
        /\ \A i \in DOMAIN d.arcs : /\ arcs[i] \in ArcRows
                                    /\ arcs[i].key = d.arcs[i].key /\ arcs[i].chat = d.arcs[i].chat
                                    /\ arcs[i].first = d.arcs[i].first
                                    /\ arcs[i].last \in {d.arcs[i].last, last}
    BY <1>1 DEF ArcsOK, ArcRows
  <2> HIDE DEF arcs
  <2>3. ArcsOK(arcs, d.chats, known)
    BY <1>1, <2>2 DEF ArcsOK
  <2>4. GoalsOK(d.goals, arcs, known)
    BY <1>1, <2>2 DEF GoalsOK
  <2>5. ProposalsOK(d.proposals, arcs, d.chats)
    BY <1>1, <2>2 DEF ProposalsOK, ArcsOK
  <2>6. ArcWith(e, key) # {}
    BY <1>2, <2>1, <2>2 DEF ArcWith
  <2>7. e.goals = d.goals /\ e.contexts = d.contexts /\ e.passes = d.passes
        /\ e.proposals = d.proposals
    BY <2>1 DEF SameBut, Tables
  <2>8. SameBut(d, e, {"arcs", "goals", "contexts", "passes", "proposals"})
    BY <2>1 DEF SameBut
  <2> HIDE DEF e
  <2>9. ArchiveOK(e)
    BY <1>1, <2>1, <2>3, <2>4, <2>5, <2>7, <2>8, TwinStays
  <2> QED
    BY <2>1, <2>6, <2>9 DEF e
<1>3. CASE ArcWith(d, key) = {}
  <2> DEFINE arcs == Put(d.arcs, id, row)
  <2>1. e.arcs = arcs /\ SameBut(d, e, {"arcs"})
    BY <1>1, <1>3 DEF WithArc, SameBut, Tables
  <2>2. id \notin DOMAIN d.arcs
    BY <1>1, NextIdIsNew DEF ArcsOK
  <2>3. row \in ArcRows /\ row.key = key /\ key[1] = c /\ row.chat = c /\ row.first = first
        /\ row.last = last
    BY <1>1 DEF ArcRows, ArcKeys
  <2> HIDE DEF row, id, key
  <2>4. /\ DOMAIN arcs = DOMAIN d.arcs \cup {id} /\ arcs[id] = row
        /\ \A i \in DOMAIN d.arcs : arcs[i] = d.arcs[i]
    BY <2>2 DEF Put
  <2> HIDE DEF arcs
  <2>5. \A i \in DOMAIN d.arcs : d.arcs[i].key # key
    BY <1>3 DEF ArcWith
  <2>6. DOMAIN arcs \subseteq ArcIds
    BY <2>1
  <2>7. ArcsOK(arcs, d.chats, known)
    BY <1>1, <2>3, <2>4, <2>5, <2>6 DEF ArcsOK
  <2>8. GoalsOK(d.goals, arcs, known)
    BY <1>1, <2>4 DEF GoalsOK
  <2>9. ProposalsOK(d.proposals, arcs, d.chats)
    BY <1>1, <2>4 DEF ProposalsOK
  <2>10. ArcWith(e, key) # {}
    BY <2>1, <2>3, <2>4 DEF ArcWith
  <2>11. e.goals = d.goals /\ e.contexts = d.contexts /\ e.passes = d.passes
        /\ e.proposals = d.proposals
    BY <2>1 DEF SameBut, Tables
  <2>12. SameBut(d, e, {"arcs", "goals", "contexts", "passes", "proposals"})
    BY <2>1 DEF SameBut
  <2> HIDE DEF e
  <2>13. ArchiveOK(e)
    BY <1>1, <2>1, <2>7, <2>8, <2>9, <2>11, <2>12, TwinStays
  <2> QED
    BY <2>1, <2>10, <2>13 DEF e, key
<1> QED
  BY <1>2, <1>3

LEMMA WithGoalIs ==
  ASSUME NEW d, ArchiveOK(d), NEW c \in d.chats, NEW t \in Titles, NEW w \in Words,
         NEW k \in DOMAIN d.messages, ArcWith(d, <<c, t>>) # {}
  PROVE  ArchiveOK(WithGoal(d, c, t, w, k)) /\ SameBut(d, WithGoal(d, c, t, w, k), {"goals"})
<1> DEFINE e == WithGoal(d, c, t, w, k)
           arc == CHOOSE i \in ArcWith(d, <<c, t>>) : TRUE
           row == [arc |-> arc, source |-> k]
           key == <<<<c, t>>, w>>
           known == DOMAIN d.messages
           goals == PutNew(d.goals, key, row)
<1>1. /\ DOMAIN d = Tables /\ d.chats \subseteq Chats
      /\ ArcsOK(d.arcs, d.chats, known) /\ GoalsOK(d.goals, d.arcs, known)
      /\ ContextsOK(d.contexts, d.chats, known) /\ PassesOK(d.passes, d.chats, known)
      /\ ProposalsOK(d.proposals, d.arcs, d.chats)
  BY DEF ArchiveOK, ChatsOK
<1>2. e.goals = goals /\ SameBut(d, e, {"goals"})
  BY <1>1 DEF WithGoal, SameBut, Tables
<1>3. arc \in DOMAIN d.arcs /\ d.arcs[arc].key = <<c, t>>
  BY DEF ArcWith
<1> HIDE DEF arc
<1>4. row \in [arc : DOMAIN d.arcs, source : known] /\ d.arcs[row.arc].key = key[1]
      /\ key \in ArcKeys \X Words
  BY <1>1, <1>3 DEF ArcKeys
<1> HIDE DEF row, key
<1>5. GoalsOK(goals, d.arcs, known)
  BY <1>1, <1>4 DEF GoalsOK, PutNew, Put
<1>6. e.arcs = d.arcs /\ e.contexts = d.contexts /\ e.passes = d.passes
      /\ e.proposals = d.proposals
  BY <1>2 DEF SameBut, Tables
<1>7. SameBut(d, e, {"arcs", "goals", "contexts", "passes", "proposals"})
  BY <1>2 DEF SameBut
<1> HIDE DEF e
<1>8. ArchiveOK(e)
  BY <1>1, <1>2, <1>5, <1>6, <1>7, TwinStays
<1> QED
  BY <1>2, <1>8 DEF e

LEMMA WithThreadIs ==
  ASSUME NEW d, ArchiveOK(d), NEW c \in d.chats,
         NEW a \in [title : Titles, first : Keys, last : Keys, goals : AtMostOne(Words \X Keys)],
         a.first \in DOMAIN d.messages, a.last \in DOMAIN d.messages,
         \A g \in a.goals : g[2] \in DOMAIN d.messages,
         DOMAIN WithThread(d, c, a).arcs \subseteq ArcIds
  PROVE  ArchiveOK(WithThread(d, c, a)) /\ SameBut(d, WithThread(d, c, a), {"arcs", "goals"})
<1> DEFINE e == WithArc(d, c, a.title, a.first, a.last)
           g == The(a.goals)
           f == WithGoal(e, c, a.title, g[1], g[2])
<1>1. WithThread(d, c, a) = IF a.goals = {} THEN e ELSE f
  BY DEF WithThread
<1>2. f.arcs = e.arcs
  <2>1. DOMAIN e = Tables
    BY DEF WithArc, ArchiveOK
  <2> HIDE DEF e, g
  <2> QED
    BY <2>1 DEF WithGoal, Tables
<1>3. DOMAIN e.arcs \subseteq ArcIds
  BY <1>1, <1>2
<1>4. a.title \in Titles
  OBVIOUS
<1>5. ArchiveOK(e) /\ SameBut(d, e, {"arcs"}) /\ ArcWith(e, <<c, a.title>>) # {}
  BY <1>3, <1>4, WithArcIs
<1>6. a.goals # {} => g[1] \in Words /\ g[2] \in DOMAIN d.messages
  BY DEF The, AtMostOne
<1>7. e.messages = d.messages /\ e.chats = d.chats
  BY <1>5 DEF SameBut, Tables
<1> HIDE DEF e, g
<1>8. a.goals # {} => ArchiveOK(f) /\ SameBut(e, f, {"goals"})
  BY <1>4, <1>5, <1>6, <1>7, WithGoalIs
<1> HIDE DEF f
<1> QED
  BY <1>1, <1>5, <1>8 DEF SameBut

LEMMA WithContextIs ==
  ASSUME NEW d, ArchiveOK(d), NEW c \in d.chats, NEW w \in Words, NEW k \in DOMAIN d.messages
  PROVE  ArchiveOK(WithContext(d, c, w, k)) /\ SameBut(d, WithContext(d, c, w, k), {"contexts"})
<1> DEFINE e == WithContext(d, c, w, k)
           key == <<c, w>>
           row == [chat |-> IF key \in DOMAIN d.contexts THEN d.contexts[key].chat ELSE c,
                   source |-> k]
           known == DOMAIN d.messages
           contexts == Put(d.contexts, key, row)
<1>1. /\ DOMAIN d = Tables /\ d.chats \subseteq Chats
      /\ ArcsOK(d.arcs, d.chats, known) /\ GoalsOK(d.goals, d.arcs, known)
      /\ ContextsOK(d.contexts, d.chats, known) /\ PassesOK(d.passes, d.chats, known)
      /\ ProposalsOK(d.proposals, d.arcs, d.chats)
  BY DEF ArchiveOK, ChatsOK
<1>2. e.contexts = contexts /\ SameBut(d, e, {"contexts"})
  BY <1>1 DEF WithContext, SameBut, Tables
<1>3. row \in [chat : d.chats, source : known] /\ row.chat = key[1] /\ key \in Chats \X Words
  BY <1>1 DEF ContextsOK
<1> HIDE DEF row, key
<1>4. ContextsOK(contexts, d.chats, known)
  BY <1>1, <1>3 DEF ContextsOK, Put
<1>5. e.arcs = d.arcs /\ e.goals = d.goals /\ e.passes = d.passes /\ e.proposals = d.proposals
  BY <1>2 DEF SameBut, Tables
<1>6. SameBut(d, e, {"arcs", "goals", "contexts", "passes", "proposals"})
  BY <1>2 DEF SameBut
<1> HIDE DEF e
<1>7. ArchiveOK(e)
  BY <1>1, <1>2, <1>4, <1>5, <1>6, TwinStays
<1> QED
  BY <1>2, <1>7 DEF e

LEMMA ResolvedIsChat ==
  ASSUME NEW asked \in Chats
  PROVE  Resolved(asked) \in Chats
BY ArchiveAssumption DEF Resolved, Chats

LEMMA SaveStep ==
  ASSUME ArchiveInv, NEW asked \in Chats, NEW through \in Keys,
         NEW arcs \in AtMostOne([title : Titles, first : Keys, last : Keys,
                                 goals : AtMostOne(Words \X Keys)]),
         NEW contexts \in AtMostOne(Words \X Keys),
         SaveInteractionModel(asked, through, arcs, contexts)
  PROVE  ArchiveOK(db') /\ SameBut(db, db', {"arcs", "goals", "contexts", "passes"})
<1> DEFINE c == Resolved(asked)
           a == The(arcs)
           x == The(contexts)
           d == IF arcs = {} THEN db ELSE WithThread(db, c, a)
           e == IF contexts = {} THEN d ELSE WithContext(d, c, x[1], x[2])
           pass == [through |-> through, at |-> now]
           passes == Put(e.passes, c, pass)
<1>1. /\ c \in db.chats /\ db' = [e EXCEPT !.passes = passes]
      /\ DOMAIN db'.arcs \subseteq ArcIds /\ through \in Stored
      /\ \A b \in arcs : b.first \in Stored /\ b.last \in Stored /\ \A g \in b.goals : g[2] \in Stored
      /\ \A y \in contexts : y[2] \in Stored
  BY DEF SaveInteractionModel, ArcIds
<1>2. ArchiveOK(db) /\ Stored = DOMAIN db.messages /\ now \in Instants
  BY DEF ArchiveInv, Stored
<1> HIDE DEF c
<1>3. arcs # {} => a \in arcs /\ a \in [title : Titles, first : Keys, last : Keys,
                                        goals : AtMostOne(Words \X Keys)]
  BY DEF The, AtMostOne
<1>4. contexts # {} => x \in contexts /\ x[1] \in Words /\ x[2] \in Stored
  BY <1>1 DEF The, AtMostOne
<1> HIDE DEF a, x
<1>5. DOMAIN d = Tables /\ DOMAIN e = Tables /\ e.arcs = d.arcs
  BY <1>2 DEF ArchiveOK, WithThread, WithArc, WithGoal, WithContext, Tables
<1> HIDE DEF e
<1>6. DOMAIN d.arcs \subseteq ArcIds
  BY <1>1, <1>5 DEF Tables
<1>7. ArchiveOK(d) /\ SameBut(db, d, {"arcs", "goals"})
  <2>1. CASE arcs = {}
    BY <1>2, <2>1 DEF SameBut, ArchiveOK
  <2>2. CASE arcs # {}
    BY <1>1, <1>2, <1>3, <1>6, <2>2, WithThreadIs
  <2> QED
    BY <2>1, <2>2
<1> HIDE DEF d
<1>8. d.chats = db.chats /\ d.messages = db.messages
  BY <1>7 DEF SameBut, Tables
<1>9. ArchiveOK(e) /\ SameBut(d, e, {"contexts"})
  <2>1. CASE contexts = {}
    BY <1>7, <2>1 DEF SameBut, ArchiveOK, e
  <2>2. CASE contexts # {}
    BY <1>1, <1>2, <1>4, <1>7, <1>8, <2>2, WithContextIs DEF e
  <2> QED
    BY <2>1, <2>2
<1>10. e.chats = db.chats /\ e.messages = db.messages
  BY <1>8, <1>9 DEF SameBut, Tables
<1>11. /\ SameBut(e, db', {"passes"}) /\ db'.passes = passes
  BY <1>1, <1>5 DEF SameBut, Tables
<1>12. /\ ArcsOK(e.arcs, e.chats, Stored) /\ GoalsOK(e.goals, e.arcs, Stored)
       /\ ContextsOK(e.contexts, e.chats, Stored) /\ PassesOK(e.passes, e.chats, Stored)
       /\ ProposalsOK(e.proposals, e.arcs, e.chats)
  BY <1>2, <1>9, <1>10 DEF ArchiveOK
<1>13. pass \in [through : Stored, at : Instants]
  BY <1>1, <1>2
<1> HIDE DEF pass
<1>14. PassesOK(passes, e.chats, Stored)
  BY <1>1, <1>10, <1>12, <1>13 DEF PassesOK, Put
<1>15. /\ SameBut(e, db', {"arcs", "goals", "contexts", "passes", "proposals"})
       /\ db'.arcs = e.arcs /\ db'.goals = e.goals /\ db'.contexts = e.contexts
       /\ db'.proposals = e.proposals
  BY <1>11 DEF SameBut, Tables
<1>16. ArchiveOK(db')
  BY <1>2, <1>9, <1>10, <1>11, <1>12, <1>14, <1>15, TwinStays
<1> QED
  BY <1>7, <1>9, <1>11, <1>16 DEF SameBut

LEMMA ProposalStep ==
  ASSUME ArchiveOK(db), NEW proposals, SameBut(db, db', {"proposals"}),
         db'.proposals = proposals, ProposalsOK(proposals, db.arcs, db.chats)
  PROVE  ArchiveOK(db')
<1>1. /\ SameBut(db, db', {"arcs", "goals", "contexts", "passes", "proposals"})
      /\ db'.arcs = db.arcs /\ db'.goals = db.goals /\ db'.contexts = db.contexts
      /\ db'.passes = db.passes
  BY DEF SameBut, Tables
<1>2. /\ ArcsOK(db.arcs, db.chats, DOMAIN db.messages)
      /\ GoalsOK(db.goals, db.arcs, DOMAIN db.messages)
      /\ ContextsOK(db.contexts, db.chats, DOMAIN db.messages)
      /\ PassesOK(db.passes, db.chats, DOMAIN db.messages)
  BY DEF ArchiveOK
<1> QED
  BY <1>1, <1>2, TwinStays

LEMMA AddProposalStep ==
  ASSUME ArchiveInv, NEW asked \in Chats, NEW title \in Titles \cup {NoArc}, NEW draft \in Drafts,
         NEW basis \in SUBSET Keys, AddProposal(asked, title, draft, basis)
  PROVE  ArchiveOK(db')
<1> DEFINE c == Resolved(asked)
           arc == IF title = NoArc THEN NoArc ELSE CHOOSE i \in ArcWith(db, <<c, title>>) : TRUE
           key == <<c, arc, draft>>
           row == [chat |-> c, arc |-> arc, basis |-> basis, status |-> "open"]
           proposals == PutNew(db.proposals, key, row)
<1>1. /\ basis # {} /\ c \in db.chats
      /\ title = NoArc \/ ArcWith(db, <<c, title>>) # {}
      /\ db' = [db EXCEPT !.proposals = proposals]
  BY DEF AddProposal
<1>2. /\ ArchiveOK(db) /\ DOMAIN db = Tables /\ db.chats \subseteq Chats
      /\ ArcsOK(db.arcs, db.chats, DOMAIN db.messages)
      /\ ProposalsOK(db.proposals, db.arcs, db.chats)
  BY DEF ArchiveInv, ArchiveOK, ChatsOK
<1> HIDE DEF c
<1>3. \/ arc = NoArc
      \/ arc \in DOMAIN db.arcs /\ arc \in ArcIds /\ db.arcs[arc].chat = c
  <2>1. ASSUME title # NoArc PROVE arc \in DOMAIN db.arcs /\ db.arcs[arc].key = <<c, title>>
    BY <1>1, <2>1 DEF ArcWith
  <2> HIDE DEF arc
  <2>2. ASSUME title # NoArc PROVE arc \in ArcIds /\ db.arcs[arc].chat = c
    BY <1>2, <2>1, <2>2 DEF ArcsOK
  <2> QED
    BY <2>1, <2>2 DEF arc
<1> HIDE DEF arc
<1>4. /\ key \in Chats \X (ArcIds \cup {NoArc}) \X Drafts
      /\ row \in [chat : db.chats, arc : DOMAIN db.arcs \cup {NoArc},
                  basis : (SUBSET Keys) \ {{}}, status : ProposalStatuses]
      /\ row.chat = key[1] /\ row.arc = key[2] /\ key[2] = arc /\ key[1] = c
  <2>1. c \in Chats /\ c \in db.chats /\ arc \in ArcIds \cup {NoArc}
        /\ arc \in DOMAIN db.arcs \cup {NoArc}
    BY <1>1, <1>2, <1>3
  <2>2. basis \in (SUBSET Keys) \ {{}} /\ "open" \in ProposalStatuses
    BY <1>1 DEF ProposalStatuses
  <2> QED
    BY <2>1, <2>2
<1> HIDE DEF key, row
<1>5. SameBut(db, db', {"proposals"}) /\ db'.proposals = proposals
  BY <1>1, <1>2 DEF SameBut, Tables
<1>6. ProposalsOK(proposals, db.arcs, db.chats)
  BY <1>2, <1>3, <1>4 DEF ProposalsOK, PutNew, Put
<1> QED
  BY <1>2, <1>5, <1>6, ProposalStep

LEMMA ResolveProposalStep ==
  ASSUME ArchiveInv, NEW p \in DOMAIN db.proposals, NEW status \in ProposalStatuses,
         ResolveProposal(p, status)
  PROVE  ArchiveOK(db')
<1> DEFINE row == [db.proposals[p] EXCEPT !.status = status]
           proposals == [db.proposals EXCEPT ![p] = row]
<1>1. ArchiveOK(db) /\ DOMAIN db = Tables /\ ProposalsOK(db.proposals, db.arcs, db.chats)
  BY DEF ArchiveInv, ArchiveOK
<1>2. SameBut(db, db', {"proposals"}) /\ db'.proposals = proposals
  BY <1>1 DEF ResolveProposal, SameBut, Tables
<1>3. /\ row \in [chat : db.chats, arc : DOMAIN db.arcs \cup {NoArc},
                  basis : (SUBSET Keys) \ {{}}, status : ProposalStatuses]
      /\ row.chat = db.proposals[p].chat /\ row.arc = db.proposals[p].arc
  BY <1>1 DEF ProposalsOK
<1> HIDE DEF row
<1>4. ProposalsOK(proposals, db.arcs, db.chats)
  BY <1>1, <1>3 DEF ProposalsOK
<1> QED
  BY <1>1, <1>2, <1>4, ProposalStep

-----------------------------------------------------------------------------
(* Pruning.                                                                *)

\* What each statement of a prune leaves.
D0(policy) == ExpireRetracted(ExpireTranscripts(db, policy), policy)
D1(policy) == DeleteGoals(D0(policy), OldBy(policy))
D2(policy) == DeleteProposals(D1(policy), OldBy(policy))
D3(policy) == DeleteArcs(D2(policy), OldBy(policy))
D4(policy) == DeleteCiting(D3(policy), OldBy(policy))
D5(policy) == DeleteMessages(D4(policy), OldBy(policy))
D6(policy) == DeleteEmptyChats(D5(policy))

LEMMA StagesAre ==
  ASSUME NEW policy
  PROVE  /\ policy.messages = NoWindow =>
              DOMAIN PruneStages(policy) = {1} /\ PruneStages(policy)[1] = D0(policy)
              /\ Last(PruneStages(policy)) = D0(policy)
         /\ policy.messages # NoWindow =>
              /\ DOMAIN PruneStages(policy) = 1 .. 7
              /\ PruneStages(policy)[1] = D0(policy) /\ PruneStages(policy)[2] = D1(policy)
              /\ PruneStages(policy)[3] = D2(policy) /\ PruneStages(policy)[4] = D3(policy)
              /\ PruneStages(policy)[5] = D4(policy) /\ PruneStages(policy)[6] = D5(policy)
              /\ PruneStages(policy)[7] = D6(policy)
              /\ Last(PruneStages(policy)) = D6(policy)
<1>1. PruneStages(policy) =
        IF policy.messages = NoWindow THEN <<D0(policy)>>
        ELSE <<D0(policy), D1(policy), D2(policy), D3(policy), D4(policy), D5(policy), D6(policy)>>
  BY DEF PruneStages, D0, D1, D2, D3, D4, D5, D6
<1> QED
  BY <1>1 DEF Last

\* The rows that are left of a table are as they were.
Part(table, left) == DOMAIN left \subseteq DOMAIN table /\ \A x \in DOMAIN left : left[x] = table[x]

Expired(policy) == {k \in DOMAIN db.transcripts : db.transcripts[k] \in Past(policy.transcripts)}
Retracted(policy) == {i \in DOMAIN db.facts : db.facts[i].retracted \in Past(policy.retracted)}
Doomed(policy) == DoomedArcs(db, OldBy(policy))

LEMMA ExpiresOnly ==
  ASSUME NEW policy, DOMAIN db = Tables
  PROVE  /\ SameBut(db, D0(policy), {"facts", "transcripts"})
         /\ D0(policy).transcripts = Without(db.transcripts, Expired(policy))
         /\ D0(policy).facts = Without(db.facts, Retracted(policy))
<1> DEFINE e == ExpireTranscripts(db, policy)
<1>1. /\ DOMAIN e = Tables /\ \A t \in Tables \ {"transcripts"} : e[t] = db[t]
      /\ e.transcripts = Without(db.transcripts, Expired(policy))
  BY DEF ExpireTranscripts, Expired, Tables
<1> HIDE DEF e
<1>2. e.facts = db.facts
  BY <1>1 DEF Tables
<1>3. D0(policy) = ExpireRetracted(e, policy)
  BY DEF D0, e
<1>4. /\ DOMAIN D0(policy) = Tables /\ \A t \in Tables \ {"facts"} : D0(policy)[t] = e[t]
      /\ D0(policy).facts = Without(db.facts, Retracted(policy))
  BY <1>1, <1>2, <1>3 DEF ExpireRetracted, Retracted, Tables
<1> QED
  BY <1>1, <1>4 DEF SameBut, Tables

LEMMA DeletesOnly ==
  ASSUME NEW policy, DOMAIN db = Tables
  PROVE  LET old == OldBy(policy) IN
         /\ SameBut(D0(policy), D1(policy), {"goals"})
         /\ D1(policy).goals = Without(db.goals, {g \in DOMAIN db.goals :
              db.goals[g].source \in old \/ db.goals[g].arc \in Doomed(policy)})
         /\ SameBut(D1(policy), D2(policy), {"proposals"})
         /\ D2(policy).proposals = Without(db.proposals, {p \in DOMAIN db.proposals :
              db.proposals[p].arc \in Doomed(policy)})
         /\ SameBut(D2(policy), D3(policy), {"arcs"})
         /\ D3(policy).arcs = Without(db.arcs, Doomed(policy))
<1> DEFINE old == OldBy(policy)
<1>1. /\ DOMAIN D0(policy) = Tables /\ D0(policy).arcs = db.arcs
      /\ D0(policy).goals = db.goals /\ D0(policy).proposals = db.proposals
  BY ExpiresOnly DEF SameBut, Tables
<1>2. /\ SameBut(D0(policy), D1(policy), {"goals"})
      /\ D1(policy).goals = Without(db.goals, {g \in DOMAIN db.goals :
           db.goals[g].source \in old \/ db.goals[g].arc \in Doomed(policy)})
  BY <1>1 DEF D1, DeleteGoals, DoomedArcs, Doomed, SameBut, Tables
<1>3. D1(policy).arcs = db.arcs /\ D1(policy).proposals = db.proposals /\ DOMAIN D1(policy) = Tables
  BY <1>1, <1>2 DEF SameBut, Tables
<1>4. /\ SameBut(D1(policy), D2(policy), {"proposals"})
      /\ D2(policy).proposals = Without(db.proposals, {p \in DOMAIN db.proposals :
           db.proposals[p].arc \in Doomed(policy)})
  BY <1>3 DEF D2, DeleteProposals, DoomedArcs, Doomed, SameBut, Tables
<1>5. D2(policy).arcs = db.arcs /\ DOMAIN D2(policy) = Tables
  BY <1>3, <1>4 DEF SameBut, Tables
<1>6. /\ SameBut(D2(policy), D3(policy), {"arcs"})
      /\ D3(policy).arcs = Without(db.arcs, Doomed(policy))
  BY <1>5 DEF D3, DeleteArcs, DoomedArcs, Doomed, SameBut, Tables
<1> QED
  BY <1>2, <1>4, <1>6

LEMMA CitingGoes ==
  ASSUME NEW policy, DOMAIN db = Tables
  PROVE  LET old == OldBy(policy) IN
         /\ SameBut(D3(policy), D4(policy),
                    {"contexts", "facts", "transcripts", "extractions", "passes"})
         /\ D4(policy).contexts =
              Without(db.contexts, {x \in DOMAIN db.contexts : db.contexts[x].source \in old})
         /\ D4(policy).facts =
              Without(D0(policy).facts,
                      {i \in DOMAIN D0(policy).facts : D0(policy).facts[i].source \in old})
         /\ D4(policy).transcripts = Without(D0(policy).transcripts, old)
         /\ D4(policy).extractions =
              Without(db.extractions, {x \in DOMAIN db.extractions : x[2] \in old})
         /\ D4(policy).passes =
              Without(db.passes, {c \in DOMAIN db.passes : db.passes[c].through \in old})
<1> DEFINE d == D3(policy)
<1>1. /\ DOMAIN d = Tables /\ d.contexts = db.contexts /\ d.facts = D0(policy).facts
      /\ d.transcripts = D0(policy).transcripts /\ d.extractions = db.extractions
      /\ d.passes = db.passes
  <2>1. /\ SameBut(db, D0(policy), {"facts", "transcripts"})
        /\ SameBut(D0(policy), D1(policy), {"goals"})
        /\ SameBut(D1(policy), D2(policy), {"proposals"})
        /\ SameBut(D2(policy), D3(policy), {"arcs"})
    BY ExpiresOnly, DeletesOnly
  <2> QED
    BY <2>1 DEF SameBut, Tables
<1>2. D4(policy) = DeleteCiting(d, OldBy(policy))
  BY DEF D4
<1> HIDE DEF d
<1>3. /\ SameBut(d, D4(policy), {"contexts", "facts", "transcripts", "extractions", "passes"})
      /\ D4(policy).contexts =
           Without(d.contexts, {x \in DOMAIN d.contexts : d.contexts[x].source \in OldBy(policy)})
      /\ D4(policy).facts =
           Without(d.facts, {i \in DOMAIN d.facts : d.facts[i].source \in OldBy(policy)})
      /\ D4(policy).transcripts = Without(d.transcripts, OldBy(policy))
      /\ D4(policy).extractions =
           Without(d.extractions, {x \in DOMAIN d.extractions : x[2] \in OldBy(policy)})
      /\ D4(policy).passes =
           Without(d.passes, {c \in DOMAIN d.passes : d.passes[c].through \in OldBy(policy)})
  BY <1>1, <1>2 DEF DeleteCiting, SameBut, Tables
<1> QED
  BY <1>1, <1>3 DEF d

LEMMA MessagesGo ==
  ASSUME NEW policy, DOMAIN db = Tables
  PROVE  /\ SameBut(D4(policy), D5(policy), {"messages"})
         /\ D5(policy).messages = Without(db.messages, OldBy(policy))
         /\ SameBut(D5(policy), D6(policy), {"chats", "titled"})
         /\ D6(policy).chats = db.chats \cap Range(Without(db.messages, OldBy(policy)))
         /\ D6(policy).titled = db.titled \cap Range(Without(db.messages, OldBy(policy)))
<1>1. /\ DOMAIN D4(policy) = Tables /\ D4(policy).messages = db.messages
      /\ D4(policy).chats = db.chats /\ D4(policy).titled = db.titled
  <2>1. /\ SameBut(db, D0(policy), {"facts", "transcripts"})
        /\ SameBut(D0(policy), D1(policy), {"goals"})
        /\ SameBut(D1(policy), D2(policy), {"proposals"})
        /\ SameBut(D2(policy), D3(policy), {"arcs"})
        /\ SameBut(D3(policy), D4(policy),
                   {"contexts", "facts", "transcripts", "extractions", "passes"})
    BY ExpiresOnly, DeletesOnly, CitingGoes
  <2> QED
    BY <2>1 DEF SameBut, Tables
<1>2. /\ SameBut(D4(policy), D5(policy), {"messages"})
      /\ D5(policy).messages = Without(db.messages, OldBy(policy))
  BY <1>1 DEF D5, DeleteMessages, SameBut, Tables
<1>3. DOMAIN D5(policy) = Tables /\ D5(policy).chats = db.chats /\ D5(policy).titled = db.titled
  BY <1>1, <1>2 DEF SameBut, Tables
<1>4. /\ SameBut(D5(policy), D6(policy), {"chats", "titled"})
      /\ D6(policy).chats = db.chats \cap Range(Without(db.messages, OldBy(policy)))
      /\ D6(policy).titled = db.titled \cap Range(Without(db.messages, OldBy(policy)))
  BY <1>2, <1>3 DEF D6, DeleteEmptyChats, SameBut, Tables
<1> QED
  BY <1>2, <1>4

\* A file whose references resolve, as the schema declares them.
LEMMA ReferencesResolve ==
  ASSUME NEW d, ArchiveOK(d)
  PROVE  ForeignKeys(d)
<1> DEFINE known == DOMAIN d.messages
<1>1. Range(d.messages) \subseteq d.chats
  BY DEF ArchiveOK, MessagesOK, Range
<1>2. \A i \in DOMAIN d.facts : d.facts[i].source \in known
  BY DEF ArchiveOK, FactsOK
<1>3. DOMAIN d.transcripts \subseteq known /\ \A x \in DOMAIN d.extractions : x[2] \in known
  BY DEF ArchiveOK, TranscriptsOK, ExtractionsOK
<1>4. Range(d.aliases) \subseteq known \cup {NoKey}
  BY DEF ArchiveOK, AliasesOK, Range
<1>5. \A i \in DOMAIN d.arcs :
         d.arcs[i].chat \in d.chats /\ {d.arcs[i].first, d.arcs[i].last} \subseteq known
  BY DEF ArchiveOK, ArcsOK
<1>6. \A g \in DOMAIN d.goals : d.goals[g].arc \in DOMAIN d.arcs /\ d.goals[g].source \in known
  BY DEF ArchiveOK, GoalsOK
<1>7. \A x \in DOMAIN d.contexts :
         d.contexts[x].chat \in d.chats /\ d.contexts[x].source \in known
  BY DEF ArchiveOK, ContextsOK
<1>8. \A c \in DOMAIN d.passes : c \in d.chats /\ d.passes[c].through \in known
  BY DEF ArchiveOK, PassesOK
<1>9. \A p \in DOMAIN d.proposals :
         /\ d.proposals[p].chat \in d.chats
         /\ d.proposals[p].arc \in DOMAIN d.arcs \cup {NoArc}
  BY DEF ArchiveOK, ProposalsOK
<1> QED
  BY <1>1, <1>2, <1>3, <1>4, <1>5, <1>6, <1>7, <1>8, <1>9 DEF ForeignKeys

\* Children may go while every message and chat is there, parents after them.
PartOf(e) ==
    /\ e.messages = db.messages /\ e.chats = db.chats /\ e.aliases = db.aliases
    /\ Part(db.facts, e.facts) /\ Part(db.transcripts, e.transcripts)
    /\ Part(db.extractions, e.extractions) /\ Part(db.arcs, e.arcs) /\ Part(db.goals, e.goals)
    /\ Part(db.contexts, e.contexts) /\ Part(db.passes, e.passes)
    /\ Part(db.proposals, e.proposals)
    /\ \A g \in DOMAIN e.goals : e.goals[g].arc \in DOMAIN e.arcs
    /\ \A p \in DOMAIN e.proposals : e.proposals[p].arc \in DOMAIN e.arcs \cup {NoArc}

LEMMA PartsResolve ==
  ASSUME ArchiveOK(db), NEW e, PartOf(e)
  PROVE  ForeignKeys(e)
<1>1. ForeignKeys(db)
  BY ReferencesResolve
<1>2. /\ \A i \in DOMAIN e.facts : e.facts[i].source \in DOMAIN e.messages
      /\ DOMAIN e.transcripts \subseteq DOMAIN e.messages
      /\ \A x \in DOMAIN e.extractions : x[2] \in DOMAIN e.messages
      /\ Range(e.messages) \subseteq e.chats
      /\ Range(e.aliases) \subseteq DOMAIN e.messages \cup {NoKey}
  BY <1>1 DEF PartOf, Part, ForeignKeys
<1>3. \A i \in DOMAIN e.arcs :
         e.arcs[i].chat \in e.chats /\ {e.arcs[i].first, e.arcs[i].last} \subseteq DOMAIN e.messages
  BY <1>1 DEF PartOf, Part, ForeignKeys
<1>4. \A g \in DOMAIN e.goals :
         e.goals[g].arc \in DOMAIN e.arcs /\ e.goals[g].source \in DOMAIN e.messages
  BY <1>1 DEF PartOf, Part, ForeignKeys
<1>5. /\ \A x \in DOMAIN e.contexts :
            e.contexts[x].chat \in e.chats /\ e.contexts[x].source \in DOMAIN e.messages
      /\ \A c \in DOMAIN e.passes : c \in e.chats /\ e.passes[c].through \in DOMAIN e.messages
  BY <1>1 DEF PartOf, Part, ForeignKeys
<1>6. \A p \in DOMAIN e.proposals :
         /\ e.proposals[p].chat \in e.chats
         /\ e.proposals[p].arc \in DOMAIN e.arcs \cup {NoArc}
  BY <1>1 DEF PartOf, Part, ForeignKeys
<1> QED
  BY <1>2, <1>3, <1>4, <1>5, <1>6 DEF ForeignKeys

LEMMA PartOfPart ==
  ASSUME NEW table, NEW some, Part(table, some), NEW less, Part(some, less)
  PROVE  Part(table, less)
BY DEF Part

LEMMA EarlyStages ==
  ASSUME ArchiveOK(db), NEW policy
  PROVE  /\ PartOf(D0(policy)) /\ PartOf(D1(policy)) /\ PartOf(D2(policy))
         /\ PartOf(D3(policy)) /\ PartOf(D4(policy))
<1> DEFINE old == OldBy(policy)
<1>0. DOMAIN db = Tables /\ ForeignKeys(db)
  BY ReferencesResolve DEF ArchiveOK
<1>1. \A table : Part(table, table)
  BY DEF Part
<1>2. PartOf(D0(policy))
  <2>1. /\ SameBut(db, D0(policy), {"facts", "transcripts"})
        /\ Part(db.facts, D0(policy).facts) /\ Part(db.transcripts, D0(policy).transcripts)
    <3>1. /\ SameBut(db, D0(policy), {"facts", "transcripts"})
          /\ D0(policy).transcripts = Without(db.transcripts, Expired(policy))
          /\ D0(policy).facts = Without(db.facts, Retracted(policy))
      BY <1>0, ExpiresOnly
    <3> QED
      BY <3>1 DEF Part, Without, Restrict
  <2>2. /\ D0(policy).messages = db.messages /\ D0(policy).chats = db.chats
        /\ D0(policy).aliases = db.aliases /\ D0(policy).extractions = db.extractions
        /\ D0(policy).arcs = db.arcs /\ D0(policy).goals = db.goals
        /\ D0(policy).contexts = db.contexts /\ D0(policy).passes = db.passes
        /\ D0(policy).proposals = db.proposals
    BY <2>1 DEF SameBut, Tables
  <2>3. /\ \A g \in DOMAIN db.goals : db.goals[g].arc \in DOMAIN db.arcs
        /\ \A p \in DOMAIN db.proposals : db.proposals[p].arc \in DOMAIN db.arcs \cup {NoArc}
    BY <1>0 DEF ForeignKeys
  <2> QED
    BY <1>1, <2>1, <2>2, <2>3 DEF PartOf
<1>3. PartOf(D1(policy)) /\ \A g \in DOMAIN D1(policy).goals :
                               D1(policy).goals[g].arc \notin Doomed(policy)
  <2>1. /\ SameBut(D0(policy), D1(policy), {"goals"})
        /\ D1(policy).goals = Without(db.goals, {g \in DOMAIN db.goals :
             db.goals[g].source \in old \/ db.goals[g].arc \in Doomed(policy)})
    BY <1>0, DeletesOnly
  <2>2. /\ D1(policy).messages = D0(policy).messages /\ D1(policy).chats = D0(policy).chats
        /\ D1(policy).aliases = D0(policy).aliases /\ D1(policy).facts = D0(policy).facts
        /\ D1(policy).transcripts = D0(policy).transcripts
        /\ D1(policy).extractions = D0(policy).extractions /\ D1(policy).arcs = D0(policy).arcs
        /\ D1(policy).contexts = D0(policy).contexts /\ D1(policy).passes = D0(policy).passes
        /\ D1(policy).proposals = D0(policy).proposals
    BY <2>1 DEF SameBut, Tables
  <2>3. /\ Part(db.goals, D1(policy).goals)
        /\ \A g \in DOMAIN D1(policy).goals : D1(policy).goals[g].arc \notin Doomed(policy)
    BY <2>1 DEF Part, Without, Restrict
  <2>4. D0(policy).arcs = db.arcs
    BY <1>0, ExpiresOnly DEF SameBut, Tables
  <2>5. \A g \in DOMAIN D1(policy).goals : D1(policy).goals[g].arc \in DOMAIN D1(policy).arcs
    BY <1>0, <2>2, <2>3, <2>4 DEF Part, ForeignKeys
  <2> QED
    BY <1>2, <2>2, <2>3, <2>5 DEF PartOf
<1>4. PartOf(D2(policy)) /\ D2(policy).goals = D1(policy).goals
      /\ \A p \in DOMAIN D2(policy).proposals : D2(policy).proposals[p].arc \notin Doomed(policy)
  <2>1. /\ SameBut(D1(policy), D2(policy), {"proposals"})
        /\ D2(policy).proposals = Without(db.proposals, {p \in DOMAIN db.proposals :
             db.proposals[p].arc \in Doomed(policy)})
    BY <1>0, DeletesOnly
  <2>2. /\ D2(policy).messages = D1(policy).messages /\ D2(policy).chats = D1(policy).chats
        /\ D2(policy).aliases = D1(policy).aliases /\ D2(policy).facts = D1(policy).facts
        /\ D2(policy).transcripts = D1(policy).transcripts
        /\ D2(policy).extractions = D1(policy).extractions /\ D2(policy).arcs = D1(policy).arcs
        /\ D2(policy).contexts = D1(policy).contexts /\ D2(policy).passes = D1(policy).passes
        /\ D2(policy).goals = D1(policy).goals
    BY <2>1 DEF SameBut, Tables
  <2>3. /\ Part(db.proposals, D2(policy).proposals)
        /\ \A p \in DOMAIN D2(policy).proposals : D2(policy).proposals[p].arc \notin Doomed(policy)
    BY <2>1 DEF Part, Without, Restrict
  <2>4. D1(policy).arcs = db.arcs
    <3>1. SameBut(db, D0(policy), {"facts", "transcripts"})
          /\ SameBut(D0(policy), D1(policy), {"goals"})
      BY <1>0, ExpiresOnly, DeletesOnly
    <3> QED
      BY <3>1 DEF SameBut, Tables
  <2>5. \A p \in DOMAIN D2(policy).proposals :
           D2(policy).proposals[p].arc \in DOMAIN D2(policy).arcs \cup {NoArc}
    BY <1>0, <2>2, <2>3, <2>4 DEF Part, ForeignKeys
  <2> QED
    BY <1>3, <2>2, <2>3, <2>5 DEF PartOf
<1>5. PartOf(D3(policy)) /\ DOMAIN D3(policy).arcs = DOMAIN db.arcs \ Doomed(policy)
  <2>1. /\ SameBut(D2(policy), D3(policy), {"arcs"})
        /\ D3(policy).arcs = Without(db.arcs, Doomed(policy))
    BY <1>0, DeletesOnly
  <2>2. /\ D3(policy).messages = D2(policy).messages /\ D3(policy).chats = D2(policy).chats
        /\ D3(policy).aliases = D2(policy).aliases /\ D3(policy).facts = D2(policy).facts
        /\ D3(policy).transcripts = D2(policy).transcripts
        /\ D3(policy).extractions = D2(policy).extractions
        /\ D3(policy).contexts = D2(policy).contexts /\ D3(policy).passes = D2(policy).passes
        /\ D3(policy).goals = D2(policy).goals /\ D3(policy).proposals = D2(policy).proposals
    BY <2>1 DEF SameBut, Tables
  <2>3. /\ Part(db.arcs, D3(policy).arcs)
        /\ DOMAIN D3(policy).arcs = DOMAIN db.arcs \ Doomed(policy)
    BY <2>1 DEF Part, Without, Restrict
  <2>4. \A i \in DOMAIN D2(policy).arcs : i \in DOMAIN db.arcs
    BY <1>4 DEF PartOf, Part
  <2>5. /\ \A g \in DOMAIN D3(policy).goals : D3(policy).goals[g].arc \in DOMAIN D3(policy).arcs
        /\ \A p \in DOMAIN D3(policy).proposals :
              D3(policy).proposals[p].arc \in DOMAIN D3(policy).arcs \cup {NoArc}
    BY <1>3, <1>4, <2>2, <2>3, <2>4 DEF PartOf
  <2> QED
    BY <1>4, <2>2, <2>3, <2>5 DEF PartOf
<1>6. PartOf(D4(policy))
  <2>1. /\ SameBut(D3(policy), D4(policy),
                   {"contexts", "facts", "transcripts", "extractions", "passes"})
        /\ Part(db.contexts, D4(policy).contexts) /\ Part(D0(policy).facts, D4(policy).facts)
        /\ Part(D0(policy).transcripts, D4(policy).transcripts)
        /\ Part(db.extractions, D4(policy).extractions) /\ Part(db.passes, D4(policy).passes)
    <3>1. SameBut(D3(policy), D4(policy),
                  {"contexts", "facts", "transcripts", "extractions", "passes"})
      BY <1>0, CitingGoes
    <3>2. /\ D4(policy).contexts =
               Without(db.contexts, {x \in DOMAIN db.contexts : db.contexts[x].source \in old})
          /\ D4(policy).extractions =
               Without(db.extractions, {x \in DOMAIN db.extractions : x[2] \in old})
          /\ D4(policy).passes =
               Without(db.passes, {c \in DOMAIN db.passes : db.passes[c].through \in old})
      BY <1>0, CitingGoes
    <3>3. /\ D4(policy).facts =
               Without(D0(policy).facts,
                       {i \in DOMAIN D0(policy).facts : D0(policy).facts[i].source \in old})
          /\ D4(policy).transcripts = Without(D0(policy).transcripts, old)
      BY <1>0, CitingGoes
    <3>4. /\ Part(db.contexts, D4(policy).contexts)
          /\ Part(db.extractions, D4(policy).extractions)
          /\ Part(db.passes, D4(policy).passes)
      BY <3>2 DEF Part, Without, Restrict
    <3>5. /\ Part(D0(policy).facts, D4(policy).facts)
          /\ Part(D0(policy).transcripts, D4(policy).transcripts)
      BY <3>3 DEF Part, Without, Restrict
    <3> QED
      BY <3>1, <3>4, <3>5
  <2>2. /\ D4(policy).messages = D3(policy).messages /\ D4(policy).chats = D3(policy).chats
        /\ D4(policy).aliases = D3(policy).aliases /\ D4(policy).arcs = D3(policy).arcs
        /\ D4(policy).goals = D3(policy).goals /\ D4(policy).proposals = D3(policy).proposals
    BY <2>1 DEF SameBut, Tables
  <2>3. Part(db.facts, D4(policy).facts) /\ Part(db.transcripts, D4(policy).transcripts)
    BY <1>2, <2>1, PartOfPart DEF PartOf
  <2> QED
    BY <1>5, <2>1, <2>2, <2>3 DEF PartOf
<1> QED
  BY <1>2, <1>3, <1>4, <1>5, <1>6

\* What a prune leaves cites nothing that goes.
CitesWhatStays(e, old) ==
    /\ \A i \in DOMAIN e.facts : e.facts[i].source \notin old
    /\ DOMAIN e.transcripts \cap old = {}
    /\ \A x \in DOMAIN e.extractions : x[2] \notin old
    /\ \A i \in DOMAIN e.arcs : e.arcs[i].first \notin old /\ e.arcs[i].last \notin old
    /\ \A g \in DOMAIN e.goals : e.goals[g].source \notin old
    /\ \A x \in DOMAIN e.contexts : e.contexts[x].source \notin old
    /\ \A c \in DOMAIN e.passes : e.passes[c].through \notin old

LEMMA CitationsGo ==
  ASSUME ArchiveOK(db), NEW policy
  PROVE  CitesWhatStays(D4(policy), OldBy(policy))
<1> DEFINE old == OldBy(policy)
<1>0. DOMAIN db = Tables
  BY DEF ArchiveOK
<1>1. /\ D4(policy).arcs = D3(policy).arcs /\ D4(policy).goals = D1(policy).goals
  <2>1. /\ SameBut(D1(policy), D2(policy), {"proposals"})
        /\ SameBut(D2(policy), D3(policy), {"arcs"})
        /\ SameBut(D3(policy), D4(policy),
                   {"contexts", "facts", "transcripts", "extractions", "passes"})
    BY <1>0, DeletesOnly, CitingGoes
  <2> QED
    BY <2>1 DEF SameBut, Tables
<1>2. \A i \in DOMAIN D3(policy).arcs :
         D3(policy).arcs[i].first \notin old /\ D3(policy).arcs[i].last \notin old
  <2>1. D3(policy).arcs = Without(db.arcs, Doomed(policy))
    BY <1>0, DeletesOnly
  <2> QED
    BY <2>1 DEF Without, Restrict, Doomed, DoomedArcs
<1>3. \A g \in DOMAIN D1(policy).goals : D1(policy).goals[g].source \notin old
  <2>1. D1(policy).goals = Without(db.goals, {g \in DOMAIN db.goals :
             db.goals[g].source \in old \/ db.goals[g].arc \in Doomed(policy)})
    BY <1>0, DeletesOnly
  <2> QED
    BY <2>1 DEF Without, Restrict
<1>4. /\ \A x \in DOMAIN D4(policy).contexts : D4(policy).contexts[x].source \notin old
      /\ \A x \in DOMAIN D4(policy).extractions : x[2] \notin old
      /\ \A c \in DOMAIN D4(policy).passes : D4(policy).passes[c].through \notin old
  <2>1. /\ D4(policy).contexts =
             Without(db.contexts, {x \in DOMAIN db.contexts : db.contexts[x].source \in old})
        /\ D4(policy).extractions =
             Without(db.extractions, {x \in DOMAIN db.extractions : x[2] \in old})
        /\ D4(policy).passes =
             Without(db.passes, {c \in DOMAIN db.passes : db.passes[c].through \in old})
    BY <1>0, CitingGoes
  <2> QED
    BY <2>1 DEF Without, Restrict
<1>5. /\ \A i \in DOMAIN D4(policy).facts : D4(policy).facts[i].source \notin old
      /\ DOMAIN D4(policy).transcripts \cap old = {}
  <2>1. /\ D4(policy).facts =
             Without(D0(policy).facts,
                     {i \in DOMAIN D0(policy).facts : D0(policy).facts[i].source \in old})
        /\ D4(policy).transcripts = Without(D0(policy).transcripts, old)
    BY <1>0, CitingGoes
  <2> QED
    BY <2>1 DEF Without, Restrict
<1> QED
  BY <1>1, <1>2, <1>3, <1>4, <1>5 DEF CitesWhatStays

\* The last two statements take messages and chats only.
LEMMA LateStages ==
  ASSUME ArchiveOK(db), NEW policy
  PROVE  LET e == D4(policy)
             left == Without(db.messages, OldBy(policy))
         IN  \A f \in {D5(policy), D6(policy)} :
               /\ DOMAIN f = Tables /\ f.messages = left
               /\ f.facts = e.facts /\ f.transcripts = e.transcripts
               /\ f.extractions = e.extractions /\ f.aliases = e.aliases /\ f.arcs = e.arcs
               /\ f.goals = e.goals /\ f.contexts = e.contexts /\ f.passes = e.passes
               /\ f.proposals = e.proposals
<1> DEFINE left == Without(db.messages, OldBy(policy))
<1>1. /\ SameBut(D4(policy), D5(policy), {"messages"}) /\ D5(policy).messages = left
      /\ SameBut(D5(policy), D6(policy), {"chats", "titled"})
  BY MessagesGo DEF ArchiveOK
<1> HIDE DEF left
<1> QED
  BY <1>1 DEF SameBut, Tables, left

LEMMA MessagesLeft ==
  ASSUME NEW policy
  PROVE  LET left == Without(db.messages, OldBy(policy))
         IN  /\ DOMAIN left = DOMAIN db.messages \ OldBy(policy) /\ Part(db.messages, left)
             /\ \A k \in DOMAIN left : left[k] = db.messages[k]
BY DEF Without, Restrict, Part

LEMMA MessagesMayGo ==
  ASSUME ArchiveOK(db), NEW policy, Range(db.aliases) \cap OldBy(policy) = {}
  PROVE  ForeignKeys(D5(policy))
<1> DEFINE e == D4(policy)
           f == D5(policy)
           old == OldBy(policy)
<1>1. ForeignKeys(e) /\ CitesWhatStays(e, old) /\ PartOf(e)
  BY EarlyStages, PartsResolve, CitationsGo
<1>2. /\ f.facts = e.facts /\ f.transcripts = e.transcripts /\ f.extractions = e.extractions
      /\ f.aliases = e.aliases /\ f.arcs = e.arcs /\ f.goals = e.goals
      /\ f.contexts = e.contexts /\ f.passes = e.passes /\ f.proposals = e.proposals
      /\ f.messages = Without(db.messages, old)
  BY LateStages
<1>3. f.chats = db.chats
  <2>1. SameBut(D4(policy), D5(policy), {"messages"})
    BY MessagesGo DEF ArchiveOK
  <2> QED
    BY <1>1, <2>1 DEF SameBut, Tables, PartOf
<1>4. DOMAIN f.messages = DOMAIN db.messages \ old
      /\ \A k \in DOMAIN f.messages : f.messages[k] = db.messages[k]
  BY <1>2, MessagesLeft
<1>5. e.messages = db.messages /\ e.chats = db.chats /\ e.aliases = db.aliases
  BY <1>1 DEF PartOf
<1> HIDE DEF e, f, old
<1>6. Range(f.messages) \subseteq f.chats
  BY <1>1, <1>3, <1>4, <1>5 DEF ForeignKeys, Range
<1>7. Range(f.aliases) \subseteq DOMAIN f.messages \cup {NoKey}
  BY <1>1, <1>2, <1>4, <1>5 DEF ForeignKeys, old
<1>8. /\ \A i \in DOMAIN f.facts : f.facts[i].source \in DOMAIN f.messages
      /\ DOMAIN f.transcripts \subseteq DOMAIN f.messages
      /\ \A x \in DOMAIN f.extractions : x[2] \in DOMAIN f.messages
  BY <1>1, <1>2, <1>4, <1>5 DEF ForeignKeys, CitesWhatStays
<1>9. /\ \A i \in DOMAIN f.arcs :
            f.arcs[i].chat \in f.chats /\ {f.arcs[i].first, f.arcs[i].last} \subseteq DOMAIN f.messages
      /\ \A g \in DOMAIN f.goals :
            f.goals[g].arc \in DOMAIN f.arcs /\ f.goals[g].source \in DOMAIN f.messages
  BY <1>1, <1>2, <1>3, <1>4, <1>5 DEF ForeignKeys, CitesWhatStays
<1>10. /\ \A x \in DOMAIN f.contexts :
             f.contexts[x].chat \in f.chats /\ f.contexts[x].source \in DOMAIN f.messages
       /\ \A c \in DOMAIN f.passes : c \in f.chats /\ f.passes[c].through \in DOMAIN f.messages
       /\ \A p \in DOMAIN f.proposals :
             /\ f.proposals[p].chat \in f.chats
             /\ f.proposals[p].arc \in DOMAIN f.arcs \cup {NoArc}
  BY <1>1, <1>2, <1>3, <1>4, <1>5 DEF ForeignKeys, CitesWhatStays
<1> QED
  BY <1>6, <1>7, <1>8, <1>9, <1>10 DEF ForeignKeys, f

\* A chat with a row left under it has a message left, when rows cite locally.
LEMMA ChatsMayGo ==
  ASSUME ArchiveOK(db), NEW policy, ReachedBy(policy)
  PROVE  ForeignKeys(D6(policy))
<1> DEFINE e == D5(policy)
           f == D6(policy)
           old == OldBy(policy)
           left == Range(e.messages)
<1>1. ForeignKeys(e)
  BY MessagesMayGo DEF ReachedBy
<1>2. CitesWhatStays(D4(policy), old) /\ PartOf(D4(policy))
  BY EarlyStages, CitationsGo
<1>3. /\ f.facts = e.facts /\ f.transcripts = e.transcripts /\ f.extractions = e.extractions
      /\ f.aliases = e.aliases /\ f.arcs = e.arcs /\ f.goals = e.goals
      /\ f.contexts = e.contexts /\ f.passes = e.passes /\ f.proposals = e.proposals
      /\ f.messages = e.messages
  BY LateStages
<1>4. /\ DOMAIN e.messages = DOMAIN db.messages \ old
      /\ \A k \in DOMAIN e.messages : e.messages[k] = db.messages[k]
  <2>1. e.messages = Without(db.messages, old)
    BY LateStages
  <2> QED
    BY <2>1, MessagesLeft
<1>5. f.chats = db.chats \cap left
  BY <1>4, MessagesGo, LateStages DEF ArchiveOK
<1>6. /\ CitesWhatStays(e, old)
      /\ Part(db.arcs, e.arcs) /\ Part(db.contexts, e.contexts) /\ Part(db.passes, e.passes)
      /\ Part(db.proposals, e.proposals)
  BY <1>2, LateStages DEF CitesWhatStays, PartOf
<1> HIDE DEF e, f, old
<1>7. \A c \in Chats : \A k \in MessagesOf(db, c) : k \notin old => c \in left
  BY <1>4 DEF MessagesOf, Range
<1>8. /\ \A i \in DOMAIN db.arcs : db.arcs[i].chat \in Chats
      /\ \A x \in DOMAIN db.contexts : db.contexts[x].chat \in Chats
      /\ DOMAIN db.passes \subseteq Chats
      /\ \A p \in DOMAIN db.proposals : db.proposals[p].chat \in Chats
  BY DEF ArchiveOK, ArcsOK, ContextsOK, PassesOK, ProposalsOK, ChatsOK
<1> HIDE DEF left
<1>9. \A i \in DOMAIN e.arcs : e.arcs[i].chat \in left
  BY <1>6, <1>7, <1>8 DEF ReachedBy, LocalCitations, CitesWhatStays, Part
<1>10. \A x \in DOMAIN e.contexts : e.contexts[x].chat \in left
  BY <1>6, <1>7, <1>8 DEF ReachedBy, LocalCitations, CitesWhatStays, Part
<1>11. \A c \in DOMAIN e.passes : c \in left
  BY <1>6, <1>7, <1>8 DEF ReachedBy, LocalCitations, CitesWhatStays, Part
<1>12. \A p \in DOMAIN e.proposals : e.proposals[p].chat \in left
  <2> TAKE p \in DOMAIN e.proposals
  <2>1. p \in DOMAIN db.proposals /\ e.proposals[p] = db.proposals[p]
    BY <1>6 DEF Part
  <2>2. CASE db.proposals[p].arc = NoArc
    BY <1>7, <1>8, <2>1, <2>2 DEF ReachedBy, old
  <2>3. CASE db.proposals[p].arc # NoArc
    <3>1. /\ db.proposals[p].arc \in DOMAIN e.arcs
          /\ db.arcs[db.proposals[p].arc].chat = db.proposals[p].chat
      BY <1>1, <2>1, <2>3 DEF ForeignKeys, ArchiveOK, ProposalsOK
    <3> QED
      BY <1>6, <1>9, <2>1, <3>1 DEF Part
  <2> QED
    BY <2>2, <2>3
<1>13. Range(f.messages) \subseteq f.chats
  BY <1>1, <1>3, <1>4, <1>5 DEF ForeignKeys, left, ArchiveOK, MessagesOK, Range
<1>14. f.chats \subseteq db.chats /\ \A i \in DOMAIN e.arcs : e.arcs[i].chat \in db.chats
  BY <1>5, <1>6 DEF Part, ArchiveOK, ArcsOK
<1>15. /\ \A x \in DOMAIN e.contexts : e.contexts[x].chat \in db.chats
       /\ \A c \in DOMAIN e.passes : c \in db.chats
       /\ \A p \in DOMAIN e.proposals : e.proposals[p].chat \in db.chats
  BY <1>6 DEF Part, ArchiveOK, ContextsOK, PassesOK, ProposalsOK
<1>16. /\ \A i \in DOMAIN f.arcs :
             f.arcs[i].chat \in f.chats /\ {f.arcs[i].first, f.arcs[i].last} \subseteq DOMAIN f.messages
       /\ \A g \in DOMAIN f.goals :
             f.goals[g].arc \in DOMAIN f.arcs /\ f.goals[g].source \in DOMAIN f.messages
  BY <1>1, <1>3, <1>5, <1>9, <1>14 DEF ForeignKeys
<1>17. /\ \A x \in DOMAIN f.contexts :
             f.contexts[x].chat \in f.chats /\ f.contexts[x].source \in DOMAIN f.messages
       /\ \A c \in DOMAIN f.passes : c \in f.chats /\ f.passes[c].through \in DOMAIN f.messages
       /\ \A p \in DOMAIN f.proposals :
             /\ f.proposals[p].chat \in f.chats
             /\ f.proposals[p].arc \in DOMAIN f.arcs \cup {NoArc}
  BY <1>1, <1>3, <1>5, <1>10, <1>11, <1>12, <1>15 DEF ForeignKeys
<1>18. /\ \A i \in DOMAIN f.facts : f.facts[i].source \in DOMAIN f.messages
       /\ DOMAIN f.transcripts \subseteq DOMAIN f.messages
       /\ \A x \in DOMAIN f.extractions : x[2] \in DOMAIN f.messages
       /\ Range(f.aliases) \subseteq DOMAIN f.messages \cup {NoKey}
  BY <1>1, <1>3 DEF ForeignKeys
<1> QED
  BY <1>13, <1>16, <1>17, <1>18 DEF ForeignKeys, f

LEMMA PruneIsAccepted == ArchiveInv => PruneCommits
<1> SUFFICES ASSUME ArchiveOK(db), NEW policy \in Policies, ReachedBy(policy)
             PROVE  ~Refused(PruneStages(policy))
  BY DEF ArchiveInv, PruneCommits
<1>1. /\ ForeignKeys(D0(policy)) /\ ForeignKeys(D1(policy)) /\ ForeignKeys(D2(policy))
      /\ ForeignKeys(D3(policy)) /\ ForeignKeys(D4(policy))
  BY EarlyStages, PartsResolve
<1>2. ForeignKeys(D5(policy)) /\ ForeignKeys(D6(policy))
  BY MessagesMayGo, ChatsMayGo DEF ReachedBy
<1>3. CASE policy.messages = NoWindow
  BY <1>1, <1>3, StagesAre DEF Refused
<1>4. CASE policy.messages # NoWindow
  <2>1. DOMAIN PruneStages(policy) = {1, 2, 3, 4, 5, 6, 7}
    BY <1>4, StagesAre
  <2> QED
    BY <1>1, <1>2, <1>4, <2>1, StagesAre DEF Refused
<1> QED
  BY <1>3, <1>4

\* What is left of a file is one, when its references resolve.
LEMMA WhatIsLeftIsOK ==
  ASSUME ArchiveOK(db), NEW e, DOMAIN e = Tables, ForeignKeys(e),
         e.chats \subseteq db.chats, e.titled = db.titled \cap e.chats, e.aliases = db.aliases,
         Part(db.messages, e.messages), Part(db.facts, e.facts),
         Part(db.transcripts, e.transcripts), Part(db.extractions, e.extractions),
         Part(db.arcs, e.arcs), Part(db.goals, e.goals), Part(db.contexts, e.contexts),
         Part(db.passes, e.passes), Part(db.proposals, e.proposals)
  PROVE  ArchiveOK(e)
<1> DEFINE known == DOMAIN e.messages
<1>1. ChatsOK(e.chats, e.titled)
  BY DEF ArchiveOK, ChatsOK
<1>2. MessagesOK(e.messages, e.chats)
  BY DEF ArchiveOK, MessagesOK, ForeignKeys, Range, Part
<1>3. FactsOK(e.facts, known)
  BY DEF ArchiveOK, FactsOK, ForeignKeys, Part
<1>4. TranscriptsOK(e.transcripts, known)
  BY DEF TranscriptsOK, ForeignKeys
<1>5. ExtractionsOK(e.extractions, known)
  BY DEF ArchiveOK, ExtractionsOK, ForeignKeys, Part
<1>6. AliasesOK(e.aliases, known)
  BY DEF ArchiveOK, AliasesOK, ForeignKeys, Range
<1>7. ArcsOK(e.arcs, e.chats, known)
  BY DEF ArchiveOK, ArcsOK, ForeignKeys, Part
<1>8. GoalsOK(e.goals, e.arcs, known)
  BY DEF ArchiveOK, GoalsOK, ForeignKeys, Part
<1>9. ContextsOK(e.contexts, e.chats, known)
  BY DEF ArchiveOK, ContextsOK, ForeignKeys, Part
<1>10. PassesOK(e.passes, e.chats, known)
  BY DEF ArchiveOK, PassesOK, ForeignKeys, Part
<1>11. ProposalsOK(e.proposals, e.arcs, e.chats)
  BY DEF ArchiveOK, ProposalsOK, ForeignKeys, Part
<1> QED
  BY <1>1, <1>2, <1>3, <1>4, <1>5, <1>6, <1>7, <1>8, <1>9, <1>10, <1>11 DEF ArchiveOK

LEMMA PruneStep ==
  ASSUME ArchiveOK(db), NEW policy \in Policies, Prune(policy)
  PROVE  ArchiveOK(db')
<1>1. ~Refused(PruneStages(policy)) /\ db' = Last(PruneStages(policy)) /\ DOMAIN db = Tables
  BY DEF Prune, ArchiveOK
<1>2. CASE policy.messages = NoWindow
  <2>1. db' = D0(policy) /\ ForeignKeys(D0(policy)) /\ PartOf(D0(policy))
    BY <1>1, <1>2, StagesAre, EarlyStages, PartsResolve
  <2>2. SameBut(db, D0(policy), {"facts", "transcripts"})
    BY <1>1, ExpiresOnly
  <2>3. DOMAIN db' = Tables /\ db'.titled = db.titled
    BY <2>1, <2>2 DEF SameBut, Tables
  <2>4. db.titled = db.titled \cap db.chats /\ Part(db.messages, db.messages)
    BY DEF ArchiveOK, ChatsOK, Part
  <2> QED
    BY <2>1, <2>3, <2>4, WhatIsLeftIsOK DEF PartOf
<1>3. CASE policy.messages # NoWindow
  <2>1. db' = D6(policy) /\ ForeignKeys(D6(policy))
    <3>1. /\ 7 \in DOMAIN PruneStages(policy) /\ PruneStages(policy)[7] = D6(policy)
          /\ Last(PruneStages(policy)) = D6(policy)
      BY <1>3, StagesAre
    <3> QED
      BY <1>1, <3>1 DEF Refused
  <2>2. PartOf(D4(policy))
    BY EarlyStages
  <2>3. /\ DOMAIN db' = Tables /\ db'.messages = Without(db.messages, OldBy(policy))
        /\ db'.facts = D4(policy).facts /\ db'.transcripts = D4(policy).transcripts
        /\ db'.extractions = D4(policy).extractions /\ db'.aliases = D4(policy).aliases
        /\ db'.arcs = D4(policy).arcs /\ db'.goals = D4(policy).goals
        /\ db'.contexts = D4(policy).contexts /\ db'.passes = D4(policy).passes
        /\ db'.proposals = D4(policy).proposals
    BY <2>1, LateStages
  <2>4. db'.chats \subseteq db.chats /\ db'.titled = db.titled \cap db'.chats
    <3>1. /\ db'.chats = db.chats \cap Range(Without(db.messages, OldBy(policy)))
          /\ db'.titled = db.titled \cap Range(Without(db.messages, OldBy(policy)))
      BY <1>1, <2>1, MessagesGo
    <3>2. db.titled \subseteq db.chats
      BY DEF ArchiveOK, ChatsOK
    <3> QED
      BY <3>1, <3>2
  <2>5. Part(db.messages, db'.messages)
    BY <2>3, MessagesLeft
  <2> QED
    BY <2>1, <2>2, <2>3, <2>4, <2>5, WhatIsLeftIsOK DEF PartOf
<1> QED
  BY <1>2, <1>3

\* What the windows of its own take of a table, whatever the messages' window.
LEMMA ExpiredIsOwed ==
  ASSUME ArchiveOK(db), NEW policy
  PROVE  /\ DOMAIN db.transcripts \ DOMAIN D0(policy).transcripts \subseteq Expired(policy)
         /\ DOMAIN db.facts \ DOMAIN D0(policy).facts \subseteq Retracted(policy)
<1>1. /\ D0(policy).transcripts = Without(db.transcripts, Expired(policy))
      /\ D0(policy).facts = Without(db.facts, Retracted(policy))
  BY ExpiresOnly DEF ArchiveOK
<1> QED
  BY <1>1 DEF Without, Restrict

LEMMA PruneTakesWhatIsOwed == ArchiveInv => PruneTakesOnlyWhatIsOwed
<1> SUFFICES ASSUME ArchiveOK(db), NEW policy \in Policies PROVE TakesOnlyWhatIsOwed(policy)
  BY DEF ArchiveInv, PruneTakesOnlyWhatIsOwed
<1> DEFINE after == Last(PruneStages(policy))
           old == {k \in Stored : DateOf[k] \in Past(policy.messages)}
<1>0. DOMAIN db = Tables /\ OldBy(policy) = old
  BY DEF ArchiveOK, OldBy
<1>1. CASE policy.messages = NoWindow
  <2>1. after = D0(policy)
    BY <1>1, StagesAre
  <2>2. SameBut(db, D0(policy), {"facts", "transcripts"})
    BY <1>0, ExpiresOnly
  <2>3. /\ after.messages = db.messages /\ after.aliases = db.aliases
        /\ after.extractions = db.extractions /\ after.arcs = db.arcs /\ after.goals = db.goals
        /\ after.proposals = db.proposals /\ after.contexts = db.contexts
        /\ after.passes = db.passes /\ after.chats = db.chats
    BY <2>1, <2>2 DEF SameBut, Tables
  <2>4. /\ \A i \in DOMAIN db.facts \ DOMAIN after.facts :
              db.facts[i].retracted \in Past(policy.retracted)
        /\ \A k \in DOMAIN db.transcripts \ DOMAIN after.transcripts :
              db.transcripts[k] \in Past(policy.transcripts)
    BY <2>1, ExpiredIsOwed DEF Expired, Retracted
  <2> HIDE DEF after
  <2> QED
    BY <2>3, <2>4 DEF TakesOnlyWhatIsOwed, after
<1>2. CASE policy.messages # NoWindow
  <2>1. after = D6(policy)
    BY <1>2, StagesAre
  <2>2. /\ after.messages = Without(db.messages, old)
        /\ after.facts = D4(policy).facts /\ after.transcripts = D4(policy).transcripts
        /\ after.extractions = D4(policy).extractions /\ after.aliases = D4(policy).aliases
        /\ after.arcs = D4(policy).arcs /\ after.goals = D4(policy).goals
        /\ after.contexts = D4(policy).contexts /\ after.passes = D4(policy).passes
        /\ after.proposals = D4(policy).proposals
    BY <1>0, <2>1, LateStages
  <2>3. /\ after.chats = db.chats \cap Range(Without(db.messages, old))
    BY <1>0, <2>1, MessagesGo
  <2>4. D4(policy).arcs = D3(policy).arcs /\ D4(policy).goals = D1(policy).goals
        /\ D4(policy).proposals = D2(policy).proposals /\ D4(policy).aliases = db.aliases
    <3>1. /\ SameBut(D1(policy), D2(policy), {"proposals"})
          /\ SameBut(D2(policy), D3(policy), {"arcs"})
          /\ SameBut(D3(policy), D4(policy),
                     {"contexts", "facts", "transcripts", "extractions", "passes"})
      BY <1>0, DeletesOnly, CitingGoes
    <3>2. D4(policy).aliases = db.aliases
      BY EarlyStages DEF PartOf
    <3> QED
      BY <3>1, <3>2 DEF SameBut, Tables
  <2>5. after.arcs = Without(db.arcs, Doomed(policy))
    BY <1>0, <2>2, <2>4, DeletesOnly
  <2>6. after.goals = Without(db.goals, {g \in DOMAIN db.goals :
          db.goals[g].source \in old \/ db.goals[g].arc \in Doomed(policy)})
    BY <1>0, <2>2, <2>4, DeletesOnly
  <2>7. after.proposals = Without(db.proposals, {p \in DOMAIN db.proposals :
          db.proposals[p].arc \in Doomed(policy)})
    BY <1>0, <2>2, <2>4, DeletesOnly
  <2>8. /\ after.contexts =
             Without(db.contexts, {x \in DOMAIN db.contexts : db.contexts[x].source \in old})
        /\ after.extractions =
             Without(db.extractions, {x \in DOMAIN db.extractions : x[2] \in old})
        /\ after.passes =
             Without(db.passes, {c \in DOMAIN db.passes : db.passes[c].through \in old})
    <3>1. /\ D4(policy).contexts = Without(db.contexts,
               {x \in DOMAIN db.contexts : db.contexts[x].source \in OldBy(policy)})
          /\ D4(policy).extractions = Without(db.extractions,
               {x \in DOMAIN db.extractions : x[2] \in OldBy(policy)})
          /\ D4(policy).passes = Without(db.passes,
               {c \in DOMAIN db.passes : db.passes[c].through \in OldBy(policy)})
      BY <1>0, CitingGoes
    <3> HIDE DEF after, old
    <3> QED
      BY <1>0, <2>2, <3>1
  <2>9. /\ after.facts =
             Without(D0(policy).facts,
                     {i \in DOMAIN D0(policy).facts : D0(policy).facts[i].source \in old})
        /\ after.transcripts = Without(D0(policy).transcripts, old)
    BY <1>0, <2>2, CitingGoes, ZenonT(60)
  <2> HIDE DEF after, old
  <2>10. /\ \A i \in DOMAIN db.facts \ DOMAIN after.facts :
               db.facts[i].source \in old \/ db.facts[i].retracted \in Past(policy.retracted)
    <3>1. Part(db.facts, D0(policy).facts)
      BY EarlyStages DEF PartOf
    <3>2. DOMAIN after.facts = DOMAIN D0(policy).facts \
             {i \in DOMAIN D0(policy).facts : D0(policy).facts[i].source \in old}
      BY <2>9 DEF Without, Restrict
    <3> QED
      BY <3>1, <3>2, ExpiredIsOwed DEF Part, Retracted
  <2>11. \A k \in DOMAIN db.transcripts \ DOMAIN after.transcripts :
               k \in old \/ db.transcripts[k] \in Past(policy.transcripts)
    <3>1. DOMAIN after.transcripts = DOMAIN D0(policy).transcripts \ old
      BY <2>9 DEF Without, Restrict
    <3> QED
      BY <3>1, ExpiredIsOwed DEF Expired
  <2>12. /\ DOMAIN db.messages \ DOMAIN after.messages \subseteq old
         /\ DOMAIN db.aliases \ DOMAIN after.aliases = {}
         /\ \A x \in DOMAIN db.extractions \ DOMAIN after.extractions : x[2] \in old
    BY <2>2, <2>4, <2>8 DEF Without, Restrict
  <2>13. DOMAIN db.arcs \ DOMAIN after.arcs = Doomed(policy)
    BY <2>5 DEF Without, Restrict, Doomed, DoomedArcs
  <2>14. \A i \in Doomed(policy) : {db.arcs[i].first, db.arcs[i].last} \cap old # {}
    BY <1>0 DEF Doomed, DoomedArcs
  <2>15. /\ \A g \in DOMAIN db.goals \ DOMAIN after.goals :
               db.goals[g].source \in old \/ db.goals[g].arc \in Doomed(policy)
         /\ \A p \in DOMAIN db.proposals \ DOMAIN after.proposals :
               db.proposals[p].arc \in Doomed(policy)
    BY <2>6, <2>7 DEF Without, Restrict
  <2>16. /\ \A x \in DOMAIN db.contexts \ DOMAIN after.contexts : db.contexts[x].source \in old
         /\ \A c \in DOMAIN db.passes \ DOMAIN after.passes : db.passes[c].through \in old
    BY <2>8 DEF Without, Restrict
  <2>17. \A c \in db.chats \ after.chats : MessagesOf(db, c) \subseteq old
    <3> SUFFICES ASSUME NEW c \in db.chats \ after.chats, NEW k \in MessagesOf(db, c), k \notin old
                 PROVE  FALSE
      OBVIOUS
    <3>1. k \in DOMAIN Without(db.messages, old) /\ Without(db.messages, old)[k] = c
      BY DEF MessagesOf, Without, Restrict
    <3>2. c \in Range(Without(db.messages, old))
      BY <3>1 DEF Range
    <3> QED
      BY <2>3, <3>2
  <2> QED
    BY <2>10, <2>11, <2>12, <2>13, <2>14, <2>15, <2>16, <2>17
       DEF TakesOnlyWhatIsOwed, after, old
<1> QED
  BY <1>1, <1>2

-----------------------------------------------------------------------------
(* Repairing.                                                              *)

\* A phantom whose conversation is there.
Phantom(d, n) == n \in Names /\ HomeOf[n] \in d.titled /\ MessagesOf(d, n) = {}

LEMMA HomeIsAnother ==
  ASSUME NEW d, ArchiveOK(d), NEW n, Phantom(d, n)
  PROVE  /\ n \in Chats /\ HomeOf[n] \in Chats /\ HomeOf[n] # n
         /\ HomeOf[n] \in d.chats \ {n} /\ n \notin d.titled
BY ArchiveAssumption DEF Phantom, ArchiveOK, ChatsOK, Chats

\* Where a phantom's thread goes: to the arc the conversation has for it, or
\* it moves as it is.
LEMMA TwinIs ==
  ASSUME NEW d, ArchiveOK(d), NEW n, Phantom(d, n), NEW i \in MovedArcs(d, n)
  PROVE  /\ i \in DOMAIN d.arcs /\ d.arcs[i].key = <<n, d.arcs[i].key[2]>>
         /\ \/ /\ Twin(d, n, i) = i
               /\ \A j \in DOMAIN d.arcs : d.arcs[j].key # <<HomeOf[n], d.arcs[i].key[2]>>
            \/ /\ Twin(d, n, i) \in DOMAIN d.arcs \ MovedArcs(d, n)
               /\ Twin(d, n, i) # i
               /\ d.arcs[Twin(d, n, i)].key = <<HomeOf[n], d.arcs[i].key[2]>>
               /\ d.arcs[Twin(d, n, i)].chat = HomeOf[n]
<1> DEFINE key == <<HomeOf[n], d.arcs[i].key[2]>>
           other == ArcWith(d, key)
<1>1. /\ i \in DOMAIN d.arcs /\ d.arcs[i].chat = n /\ d.arcs[i].key[1] = n
      /\ d.arcs[i].key \in Chats \X Titles
  BY DEF MovedArcs, ArchiveOK, ArcsOK, ArcRows, ArcKeys
<1>2. d.arcs[i].key = <<n, d.arcs[i].key[2]>>
  BY <1>1
<1>3. Twin(d, n, i) = IF other = {} THEN i ELSE CHOOSE j \in other : TRUE
  BY DEF Twin, ArcKey
<1>4. key[1] = HomeOf[n] /\ HomeOf[n] # n
  BY HomeIsAnother
<1> HIDE DEF key
<1>5. ASSUME NEW j \in other
      PROVE  /\ j \in DOMAIN d.arcs \ MovedArcs(d, n) /\ j # i
             /\ d.arcs[j].key = key /\ d.arcs[j].chat = HomeOf[n]
  BY <1>1, <1>4 DEF ArcWith, MovedArcs, ArchiveOK, ArcsOK
<1>6. CASE other = {}
  BY <1>1, <1>2, <1>3, <1>6 DEF ArcWith, key
<1>7. CASE other # {}
  <2>1. Twin(d, n, i) \in other
    BY <1>3, <1>7
  <2> QED
    BY <1>1, <1>2, <1>5, <2>1 DEF key
<1> QED
  BY <1>6, <1>7

\* The arcs afterwards: one of each thread, all of them the conversation's.
MergedOK(d, n) == ArcsOK(MergeArcs(d, n).arcs, d.chats \ {n}, DOMAIN d.messages)
ThreadsKept(d, n) ==
  /\ \A i \in DOMAIN d.arcs \ MovedArcs(d, n) :
        i \in DOMAIN MergeArcs(d, n).arcs /\ MergeArcs(d, n).arcs[i] = d.arcs[i]
  /\ \A i \in MovedArcs(d, n) :
        /\ Twin(d, n, i) \in DOMAIN MergeArcs(d, n).arcs
        /\ MergeArcs(d, n).arcs[Twin(d, n, i)].key = <<HomeOf[n], d.arcs[i].key[2]>>
        /\ MergeArcs(d, n).arcs[Twin(d, n, i)].chat = HomeOf[n]

LEMMA MergedArcs ==
  ASSUME NEW d, ArchiveOK(d), NEW n, Phantom(d, n)
  PROVE  MergedOK(d, n) /\ ThreadsKept(d, n)
<1> DEFINE h == HomeOf[n]
           moved == MovedArcs(d, n)
           folded == {i \in moved : Twin(d, n, i) # i}
           row(i) == Moved(h, d.arcs[i])
           arcs == [i \in DOMAIN d.arcs \ folded |-> IF i \in moved THEN row(i) ELSE d.arcs[i]]
<1>1. MergeArcs(d, n).arcs = arcs
  BY DEF MergeArcs, ArchiveOK, Tables
<1>2. /\ h \in Chats /\ h # n /\ h \in d.chats \ {n}
      /\ ArcsOK(d.arcs, d.chats, DOMAIN d.messages)
  BY HomeIsAnother DEF ArchiveOK
<1> HIDE DEF h
<1>3. ASSUME NEW i \in moved
      PROVE  /\ row(i) \in ArcRows /\ row(i).key = <<h, d.arcs[i].key[2]>> /\ row(i).chat = h
             /\ row(i).first = d.arcs[i].first /\ row(i).last = d.arcs[i].last
  <2>1. d.arcs[i] \in ArcRows
    BY <1>2 DEF MovedArcs, ArcsOK
  <2> DEFINE key == <<h, d.arcs[i].key[2]>>
  <2>2. key \in ArcKeys
    BY <1>2, <2>1 DEF ArcRows, ArcKeys
  <2>3. row(i) = [key |-> key, chat |-> h, first |-> d.arcs[i].first, last |-> d.arcs[i].last]
    BY DEF ArcKey, Moved
  <2>4. d.arcs[i].first \in Keys /\ d.arcs[i].last \in Keys
    BY <2>1 DEF ArcRows
  <2> HIDE DEF key, row
  <2>5. row(i) \in ArcRows /\ row(i).key = key
    BY <1>2, <2>2, <2>3, <2>4 DEF ArcRows
  <2> QED
    BY <2>3, <2>5 DEF key
<1> HIDE DEF row
<1>4. /\ DOMAIN arcs = DOMAIN d.arcs \ folded
      /\ \A i \in DOMAIN arcs : arcs[i] = IF i \in moved THEN row(i) ELSE d.arcs[i]
  OBVIOUS
<1>5. \A i \in DOMAIN d.arcs \ moved : i \in DOMAIN arcs /\ arcs[i] = d.arcs[i]
                                       /\ d.arcs[i].chat # n
  BY <1>4 DEF MovedArcs
<1>6. ASSUME NEW i \in moved, i \in DOMAIN arcs
      PROVE  /\ arcs[i] = row(i) /\ i \in DOMAIN d.arcs
             /\ \A j \in DOMAIN d.arcs : d.arcs[j].key # <<h, d.arcs[i].key[2]>>
  <2>1. Twin(d, n, i) = i
    BY <1>4, <1>6
  <2> QED
    BY <1>4, <2>1, TwinIs DEF h
<1> HIDE DEF arcs, folded, moved
<1>7. ASSUME NEW i \in DOMAIN arcs, NEW j \in DOMAIN arcs, arcs[i].key = arcs[j].key PROVE i = j
  <2>1. i \in DOMAIN d.arcs /\ j \in DOMAIN d.arcs
    BY <1>4
  <2>2. CASE i \in moved /\ j \in moved
    <3>1. d.arcs[i].key = <<n, d.arcs[i].key[2]>> /\ d.arcs[j].key = <<n, d.arcs[j].key[2]>>
      BY <2>2, TwinIs DEF moved
    <3>2. <<h, d.arcs[i].key[2]>> = <<h, d.arcs[j].key[2]>>
      BY <1>3, <1>6, <1>7, <2>2
    <3>3. d.arcs[i].key = d.arcs[j].key
      BY <3>1, <3>2
    <3> QED
      BY <1>2, <2>1, <3>3 DEF ArcsOK
  <2>3. CASE i \in moved /\ j \notin moved
    BY <1>3, <1>5, <1>6, <1>7, <2>1, <2>3
  <2>4. CASE i \notin moved /\ j \in moved
    BY <1>3, <1>5, <1>6, <1>7, <2>1, <2>4
  <2>5. CASE i \notin moved /\ j \notin moved
    BY <1>2, <1>5, <1>7, <2>1, <2>5 DEF ArcsOK
  <2> QED
    BY <2>2, <2>3, <2>4, <2>5
<1>8. ASSUME NEW i \in DOMAIN arcs
      PROVE  /\ arcs[i] \in ArcRows /\ arcs[i].chat \in d.chats \ {n} /\ arcs[i].key[1] = arcs[i].chat
             /\ arcs[i].first \in DOMAIN d.messages /\ arcs[i].last \in DOMAIN d.messages
             /\ i \in ArcIds
  <2>1. i \in DOMAIN d.arcs
    BY <1>4
  <2>2. CASE i \in moved
    <3>1. arcs[i].key = <<h, d.arcs[i].key[2]>>
      BY <1>3, <1>6, <2>2
    <3>2. arcs[i].key[1] = h
      BY <3>1
    <3> QED
      BY <1>2, <1>3, <1>6, <2>1, <2>2, <3>2 DEF ArcsOK
  <2>3. CASE i \notin moved
    BY <1>2, <1>5, <2>1, <2>3 DEF ArcsOK
  <2> QED
    BY <2>2, <2>3
<1>9. ArcsOK(arcs, d.chats \ {n}, DOMAIN d.messages)
  BY <1>7, <1>8 DEF ArcsOK
<1>10. ASSUME NEW i \in moved
       PROVE  /\ Twin(d, n, i) \in DOMAIN arcs
              /\ arcs[Twin(d, n, i)].key = <<h, d.arcs[i].key[2]>> /\ arcs[Twin(d, n, i)].chat = h
  <2>1. CASE Twin(d, n, i) = i
    <3>1. i \in DOMAIN arcs
      BY <1>4, <2>1, TwinIs DEF folded, moved
    <3> QED
      BY <1>3, <1>6, <2>1, <3>1
  <2>2. CASE Twin(d, n, i) # i
    <3>1. /\ Twin(d, n, i) \in DOMAIN d.arcs \ moved
          /\ d.arcs[Twin(d, n, i)].key = <<h, d.arcs[i].key[2]>>
          /\ d.arcs[Twin(d, n, i)].chat = h
      BY <2>2, TwinIs DEF moved, h
    <3> QED
      BY <1>5, <3>1
  <2> QED
    BY <2>1, <2>2
<1>11. MergedOK(d, n)
  BY <1>1, <1>9 DEF MergedOK
<1>12. ThreadsKept(d, n)
  BY <1>1, <1>5, <1>10 DEF h, moved, ThreadsKept
<1> QED
  BY <1>11, <1>12

\* The goals afterwards: each with the arc that holds its thread.
LEMMA MergedGoals ==
  ASSUME NEW d, ArchiveOK(d), NEW n, Phantom(d, n)
  PROVE  GoalsOK(MergeArcs(d, n).goals, MergeArcs(d, n).arcs, DOMAIN d.messages)
<1> DEFINE h == HomeOf[n]
           moved == MovedArcs(d, n)
           arcs == MergeArcs(d, n).arcs
           hung(g) == d.goals[g].arc \in moved
           free(g) == hung(g) /\ GoalKey(h, g) \notin DOMAIN d.goals
           stay == {g \in DOMAIN d.goals : ~hung(g)}
           gone == {g \in DOMAIN d.goals : free(g)}
           from(key) == CHOOSE g \in gone : GoalKey(h, g) = key
           row(g) == [d.goals[g] EXCEPT !.arc = Twin(d, n, d.goals[g].arc)]
           goals == [key \in stay \cup {GoalKey(h, g) : g \in gone} |->
                       IF key \in stay THEN d.goals[key] ELSE row(from(key))]
<1>1. MergeArcs(d, n).goals = goals
  BY DEF MergeArcs, ArchiveOK, Tables
<1>2. /\ h \in Chats /\ GoalsOK(d.goals, d.arcs, DOMAIN d.messages)
      /\ ArcsOK(d.arcs, d.chats, DOMAIN d.messages)
  BY HomeIsAnother DEF ArchiveOK
<1>3. /\ \A i \in DOMAIN d.arcs \ moved : i \in DOMAIN arcs /\ arcs[i] = d.arcs[i]
      /\ \A i \in moved : /\ Twin(d, n, i) \in DOMAIN arcs
                          /\ arcs[Twin(d, n, i)].key = <<h, d.arcs[i].key[2]>>
  BY MergedArcs DEF ThreadsKept
<1> HIDE DEF h, arcs
<1>4. ASSUME NEW g \in stay
      PROVE  /\ g \in ArcKeys \X Words /\ goals[g] \in [arc : DOMAIN arcs, source : DOMAIN d.messages]
             /\ arcs[goals[g].arc].key = g[1]
  <2>1. g \in DOMAIN d.goals /\ d.goals[g].arc \in DOMAIN d.arcs \ moved /\ goals[g] = d.goals[g]
    BY <1>2 DEF GoalsOK
  <2> QED
    BY <1>2, <1>3, <2>1 DEF GoalsOK
<1>5. ASSUME NEW g \in gone
      PROVE  /\ GoalKey(h, g) \in ArcKeys \X Words
             /\ row(g) \in [arc : DOMAIN arcs, source : DOMAIN d.messages]
             /\ arcs[row(g).arc].key = GoalKey(h, g)[1]
  <2> DEFINE a == d.goals[g].arc
             key == GoalKey(h, g)
  <2>1. /\ g \in DOMAIN d.goals /\ a \in moved /\ g \in ArcKeys \X Words
        /\ d.goals[g] \in [arc : DOMAIN d.arcs, source : DOMAIN d.messages]
        /\ d.arcs[a].key = g[1]
    BY <1>2 DEF GoalsOK
  <2>2. Twin(d, n, a) \in DOMAIN arcs /\ arcs[Twin(d, n, a)].key = <<h, d.arcs[a].key[2]>>
    BY <1>3, <2>1
  <2>3. row(g) \in [arc : DOMAIN arcs, source : DOMAIN d.messages] /\ row(g).arc = Twin(d, n, a)
    BY <2>1, <2>2
  <2>4. key \in ArcKeys \X Words /\ key[1] = <<h, g[1][2]>>
    BY <1>2, <2>1 DEF GoalKey, ArcKeys
  <2> QED
    BY <2>1, <2>2, <2>3, <2>4
<1> HIDE DEF stay, gone, row
<1>6. ASSUME NEW key \in DOMAIN goals, key \notin stay
      PROVE  from(key) \in gone /\ GoalKey(h, from(key)) = key /\ goals[key] = row(from(key))
  <2>1. \E g \in gone : GoalKey(h, g) = key
    BY <1>6
  <2> QED
    BY <1>6, <2>1
<1> HIDE DEF goals, from
<1>7. ASSUME NEW key \in DOMAIN goals
      PROVE  /\ key \in ArcKeys \X Words
             /\ goals[key] \in [arc : DOMAIN arcs, source : DOMAIN d.messages]
             /\ arcs[goals[key].arc].key = key[1]
  <2>1. CASE key \in stay
    BY <1>4, <2>1
  <2>2. CASE key \notin stay
    <3> DEFINE g == from(key)
    <3>1. g \in gone /\ GoalKey(h, g) = key /\ goals[key] = row(g)
      BY <1>6, <2>2
    <3> HIDE DEF g
    <3> QED
      BY <1>5, <3>1
  <2> QED
    BY <2>1, <2>2
<1> QED
  BY <1>1, <1>7 DEF GoalsOK, arcs

\* The contexts afterwards: each under the key of the chat it is of.
LEMMA MergedContexts ==
  ASSUME NEW d, NEW n, ContextsOK(d.contexts, d.chats, DOMAIN d.messages),
         HomeOf[n] \in d.chats \ {n}, d.chats \subseteq Chats, NEW e,
         "contexts" \in DOMAIN e, e.contexts = d.contexts
  PROVE  ContextsOK(MergeContexts(e, n).contexts, d.chats \ {n}, DOMAIN d.messages)
<1> DEFINE h == HomeOf[n]
           moved == {x \in DOMAIN d.contexts : d.contexts[x].chat = n}
           free  == {x \in moved : ContextKey(h, x) \notin DOMAIN d.contexts}
           stay  == DOMAIN d.contexts \ moved
           from(key) == CHOOSE x \in free : ContextKey(h, x) = key
           row(x) == [d.contexts[x] EXCEPT !.chat = h]
           contexts == [key \in stay \cup {ContextKey(h, x) : x \in free} |->
                          IF key \in stay THEN d.contexts[key] ELSE row(from(key))]
           OK(key, r) == /\ key \in Chats \X Words
                         /\ r \in [chat : d.chats \ {n}, source : DOMAIN d.messages]
                         /\ r.chat = key[1]
<1>1. MergeContexts(e, n).contexts = contexts
  BY DEF MergeContexts
<1>2. h \in d.chats \ {n} /\ h \in Chats
  OBVIOUS
<1> HIDE DEF h
<1>3. ASSUME NEW x \in stay PROVE OK(x, d.contexts[x])
  BY DEF ContextsOK
<1>4. ASSUME NEW x \in free PROVE OK(ContextKey(h, x), row(x))
  BY <1>2 DEF ContextsOK, ContextKey
<1> HIDE DEF stay, free, row
<1>5. ASSUME NEW key \in DOMAIN contexts, key \notin stay
      PROVE  from(key) \in free /\ ContextKey(h, from(key)) = key /\ contexts[key] = row(from(key))
  <2>1. \E x \in free : ContextKey(h, x) = key
    BY <1>5
  <2> QED
    BY <1>5, <2>1
<1>6. \A key \in stay : key \in DOMAIN contexts => contexts[key] = d.contexts[key]
  OBVIOUS
<1> HIDE DEF contexts, from, OK
<1>7. \A key \in DOMAIN contexts : OK(key, contexts[key])
  <2> TAKE key \in DOMAIN contexts
  <2>1. CASE key \in stay
    BY <1>3, <1>6, <2>1
  <2>2. CASE key \notin stay
    <3> DEFINE x == from(key)
    <3>1. x \in free /\ ContextKey(h, x) = key /\ contexts[key] = row(x)
      BY <1>5, <2>2
    <3> HIDE DEF x
    <3> QED
      BY <1>4, <3>1
  <2> QED
    BY <2>1, <2>2
<1> QED
  BY <1>1, <1>7 DEF ContextsOK, OK

\* The proposals afterwards: each on the arc that holds its thread, which is
\* the conversation's.
LEMMA MergedProposals ==
  ASSUME NEW d, ArchiveOK(d), NEW n, Phantom(d, n), NEW e,
         "proposals" \in DOMAIN e, e.proposals = d.proposals
  PROVE  ProposalsOK(MergeProposals(e, d, n).proposals, MergeArcs(d, n).arcs, d.chats \ {n})
<1> DEFINE h == HomeOf[n]
           arcs == MergeArcs(d, n).arcs
           to(i) == IF i = NoArc THEN NoArc ELSE Twin(d, n, i)
           arc(p) == to(d.proposals[p].arc)
           key(p) == ProposalKey(h, p, arc(p))
           moved  == {p \in DOMAIN d.proposals : d.proposals[p].chat = n}
           free   == {p \in moved : key(p) \notin DOMAIN d.proposals}
           stay   == DOMAIN d.proposals \ moved
           from(q) == CHOOSE p \in free : key(p) = q
           row(p) == [d.proposals[p] EXCEPT !.chat = h, !.arc = arc(p)]
           proposals == [q \in stay \cup {key(p) : p \in free} |->
                           IF q \in stay THEN d.proposals[q] ELSE row(from(q))]
           OK(q, r) ==
             /\ q \in Chats \X (ArcIds \cup {NoArc}) \X Drafts
             /\ r \in [chat : d.chats \ {n}, arc : DOMAIN arcs \cup {NoArc},
                       basis : (SUBSET Keys) \ {{}}, status : ProposalStatuses]
             /\ r.chat = q[1] /\ r.arc = q[2]
             /\ q[2] # NoArc => arcs[q[2]].chat = q[1]
<1>1. MergeProposals(e, d, n).proposals = proposals
  BY DEF MergeProposals
<1>2. /\ h \in d.chats \ {n} /\ h \in Chats /\ ProposalsOK(d.proposals, d.arcs, d.chats)
  BY HomeIsAnother DEF ArchiveOK
<1>3. /\ \A i \in DOMAIN d.arcs \ MovedArcs(d, n) : i \in DOMAIN arcs /\ arcs[i] = d.arcs[i]
      /\ \A i \in MovedArcs(d, n) : Twin(d, n, i) \in DOMAIN arcs /\ arcs[Twin(d, n, i)].chat = h
  BY MergedArcs DEF ThreadsKept
<1>4. DOMAIN arcs \subseteq ArcIds /\ NoArc \notin ArcIds
  BY MergedArcs, ArchiveAssumption DEF MergedOK, ArcsOK, ArcIds
<1> HIDE DEF h, arcs
<1>5. ASSUME NEW p \in stay PROVE OK(p, d.proposals[p])
  <2>1. /\ p \in DOMAIN d.proposals /\ d.proposals[p].chat # n /\ d.proposals[p].chat = p[1]
        /\ d.proposals[p].arc = p[2]
        /\ p[2] # NoArc => p[2] \in DOMAIN d.arcs /\ d.arcs[p[2]].chat = p[1]
        /\ d.proposals[p] \in [chat : d.chats, arc : DOMAIN d.arcs \cup {NoArc},
                               basis : (SUBSET Keys) \ {{}}, status : ProposalStatuses]
        /\ p \in Chats \X (ArcIds \cup {NoArc}) \X Drafts
    BY <1>2 DEF ProposalsOK
  <2>2. p[2] # NoArc => p[2] \in DOMAIN d.arcs \ MovedArcs(d, n)
    BY <2>1 DEF MovedArcs
  <2>3. p[2] # NoArc => p[2] \in DOMAIN arcs /\ arcs[p[2]].chat = p[1]
    BY <1>3, <2>1, <2>2
  <2> QED
    BY <2>1, <2>3
<1>6. ASSUME NEW p \in moved PROVE OK(key(p), row(p))
  <2>1. /\ p \in DOMAIN d.proposals /\ p[1] = n
        /\ d.proposals[p].arc = p[2]
        /\ p[2] # NoArc => p[2] \in DOMAIN d.arcs /\ d.arcs[p[2]].chat = p[1]
        /\ d.proposals[p] \in [chat : d.chats, arc : DOMAIN d.arcs \cup {NoArc},
                               basis : (SUBSET Keys) \ {{}}, status : ProposalStatuses]
        /\ p \in Chats \X (ArcIds \cup {NoArc}) \X Drafts
    BY <1>2 DEF ProposalsOK
  <2>2. p[2] # NoArc => p[2] \in MovedArcs(d, n)
    BY <2>1 DEF MovedArcs
  <2>3. arc(p) = to(p[2])
    BY <2>1
  <2>4. /\ arc(p) \in DOMAIN arcs \cup {NoArc}
        /\ arc(p) # NoArc => arcs[arc(p)].chat = h
    BY <1>3, <2>2, <2>3
  <2>5. key(p) = <<h, arc(p), p[3]>>
    BY DEF ProposalKey
  <2> HIDE DEF arc, key, to
  <2>6. /\ row(p) \in [chat : d.chats \ {n}, arc : DOMAIN arcs \cup {NoArc},
                       basis : (SUBSET Keys) \ {{}}, status : ProposalStatuses]
        /\ row(p).chat = h /\ row(p).arc = arc(p)
    BY <1>2, <2>1, <2>4
  <2>7. key(p) \in Chats \X (ArcIds \cup {NoArc}) \X Drafts /\ key(p)[1] = h /\ key(p)[2] = arc(p)
    BY <1>2, <1>4, <2>1, <2>4, <2>5
  <2> QED
    BY <2>4, <2>6, <2>7
<1> HIDE DEF key, stay, free, row
<1>7. ASSUME NEW q \in DOMAIN proposals, q \notin stay
      PROVE  from(q) \in free /\ key(from(q)) = q /\ proposals[q] = row(from(q))
  <2>1. \E p \in free : key(p) = q
    BY <1>7
  <2> QED
    BY <1>7, <2>1
<1>8. \A q \in stay : q \in DOMAIN proposals => proposals[q] = d.proposals[q]
  OBVIOUS
<1>9. free \subseteq moved
  BY DEF free
<1> HIDE DEF proposals, from, moved, OK
<1>10. \A q \in DOMAIN proposals : OK(q, proposals[q])
  <2> TAKE q \in DOMAIN proposals
  <2>1. CASE q \in stay
    BY <1>5, <1>8, <2>1
  <2>2. CASE q \notin stay
    <3> DEFINE p == from(q)
    <3>1. p \in moved /\ key(p) = q /\ proposals[q] = row(p)
      BY <1>7, <1>9, <2>2
    <3> HIDE DEF p
    <3> QED
      BY <1>6, <3>1
  <2> QED
    BY <2>1, <2>2
<1> QED
  BY <1>1, <1>10 DEF ProposalsOK, OK, arcs

\* The passes afterwards: none is the phantom's.
LEMMA MergedPasses ==
  ASSUME NEW d, ArchiveOK(d), NEW n, Phantom(d, n), NEW e,
         "passes" \in DOMAIN e, e.passes = d.passes
  PROVE  PassesOK(MergePass(e, n).passes, d.chats \ {n}, DOMAIN d.messages)
<1>1. PassesOK(d.passes, d.chats, DOMAIN d.messages) /\ HomeOf[n] \in d.chats \ {n}
  BY HomeIsAnother DEF ArchiveOK
<1>2. CASE n \notin DOMAIN d.passes
  BY <1>1, <1>2 DEF MergePass, PassesOK
<1>3. CASE n \in DOMAIN d.passes
  <2> DEFINE home == HomeOf[n]
             later == home \notin DOMAIN d.passes \/ d.passes[home].at < d.passes[n].at
             kept == IF later THEN Put(d.passes, home, d.passes[n]) ELSE d.passes
  <2>1. MergePass(e, n).passes = Without(kept, {n})
    BY <1>3 DEF MergePass
  <2>2. CASE later
    BY <1>1, <1>3, <2>1, <2>2 DEF PassesOK, Without, Restrict, Put
  <2>3. CASE ~later
    BY <1>1, <2>1, <2>3 DEF PassesOK, Without, Restrict
  <2> QED
    BY <2>2, <2>3
<1> QED
  BY <1>2, <1>3

\* Without the row of a phantom every reference resolves that did.
LEMMA MergeOneOK ==
  ASSUME NEW d, ArchiveOK(d), NEW n, Phantom(d, n)
  PROVE  /\ ArchiveOK(MergeOne(n, d))
         /\ MergeOne(n, d).titled = d.titled /\ MergeOne(n, d).messages = d.messages
<1> DEFINE e1 == MergeArcs(d, n)
           e2 == MergeContexts(e1, n)
           e3 == MergeProposals(e2, d, n)
           e4 == MergePass(e3, n)
           e5 == MergeOne(n, d)
<1>1. DOMAIN d = Tables
  BY DEF ArchiveOK
<1>2. SameBut(d, e1, {"arcs", "goals"})
  BY <1>1 DEF MergeArcs, SameBut
<1> HIDE DEF e1
<1>3. SameBut(e1, e2, {"contexts"})
  BY <1>2 DEF MergeContexts, SameBut
<1> HIDE DEF e2
<1>4. SameBut(e2, e3, {"proposals"})
  BY <1>3 DEF MergeProposals, SameBut
<1> HIDE DEF e3
<1>5. SameBut(e3, e4, {"passes"})
  BY <1>4 DEF MergePass, SameBut
<1>6. e5 = [e4 EXCEPT !.chats = @ \ {n}]
  BY DEF MergeOne, e1, e2, e3
<1> HIDE DEF e4, e5
<1>7. SameBut(e4, e5, {"chats"}) /\ e5.chats = e4.chats \ {n}
  BY <1>5, <1>6 DEF SameBut, Tables
<1>8. /\ e5.arcs = e1.arcs /\ e5.goals = e1.goals /\ e5.contexts = e2.contexts
      /\ e5.proposals = e3.proposals /\ e5.passes = e4.passes
      /\ e1.contexts = d.contexts /\ e2.proposals = d.proposals /\ e3.passes = d.passes
      /\ e5.chats = d.chats \ {n} /\ DOMAIN e5 = Tables
      /\ {"contexts", "proposals", "passes"} \subseteq DOMAIN e1
      /\ {"contexts", "proposals", "passes"} \subseteq DOMAIN e2
      /\ {"contexts", "proposals", "passes"} \subseteq DOMAIN e3
  BY <1>2, <1>3, <1>4, <1>5, <1>7 DEF SameBut, Tables
<1>9. /\ e5.messages = d.messages /\ e5.titled = d.titled /\ e5.facts = d.facts
      /\ e5.transcripts = d.transcripts /\ e5.extractions = d.extractions
      /\ e5.aliases = d.aliases
  BY <1>2, <1>3, <1>4, <1>5, <1>7 DEF SameBut, Tables
<1>10. ArcsOK(e5.arcs, e5.chats, DOMAIN d.messages)
  BY <1>8, MergedArcs DEF MergedOK, e1
<1>11. GoalsOK(e5.goals, e5.arcs, DOMAIN d.messages)
  BY <1>8, MergedGoals DEF e1
<1>12. HomeOf[n] \in d.chats \ {n} /\ n \notin d.titled
  BY HomeIsAnother
<1>13. ContextsOK(e5.contexts, e5.chats, DOMAIN d.messages)
  <2>1. ContextsOK(d.contexts, d.chats, DOMAIN d.messages) /\ d.chats \subseteq Chats
    BY DEF ArchiveOK, ChatsOK
  <2> QED
    BY <1>8, <1>12, <2>1, MergedContexts, ZenonT(60) DEF e2
<1>14. ProposalsOK(e5.proposals, e5.arcs, e5.chats)
  BY <1>8, MergedProposals DEF e1, e3
<1>15. PassesOK(e5.passes, e5.chats, DOMAIN d.messages)
  BY <1>8, MergedPasses DEF e4
<1>16. ChatsOK(e5.chats, e5.titled)
  BY <1>8, <1>9, <1>12 DEF ArchiveOK, ChatsOK
<1>17. MessagesOK(e5.messages, e5.chats)
  BY <1>8, <1>9 DEF ArchiveOK, MessagesOK, Phantom, MessagesOf
<1>18. /\ FactsOK(e5.facts, DOMAIN d.messages) /\ TranscriptsOK(e5.transcripts, DOMAIN d.messages)
       /\ ExtractionsOK(e5.extractions, DOMAIN d.messages) /\ AliasesOK(e5.aliases, DOMAIN d.messages)
  BY <1>9 DEF ArchiveOK
<1>19. ArchiveOK(e5)
  BY <1>8, <1>9, <1>10, <1>11, <1>13, <1>14, <1>15, <1>16, <1>17, <1>18 DEF ArchiveOK
<1> QED
  BY <1>9, <1>19 DEF e5

-----------------------------------------------------------------------------
(* Repairing one phantom after another: Repaired is defined by recursion   *)
(* on what is left to repair, which is a finite set.                       *)

\* What Repaired[names] is, when f stands for Repaired.
Repairing(f, names) ==
  IF names = {} THEN db ELSE MergeOne(The(names), f[names \ {The(names)}])

\* f repairs up to k phantoms as Repaired does.
RepairsUpTo(f, k) ==
  /\ DOMAIN f = {S \in SUBSET Phantoms : Cardinality(S) <= k}
  /\ \A S \in DOMAIN f : f[S] = Repairing(f, S)

LEMMA PhantomsAreFinite ==
  ASSUME NEW S \in SUBSET Phantoms
  PROVE  /\ IsFiniteSet(S) /\ Cardinality(S) \in Nat
         /\ Cardinality(S) <= Cardinality(Phantoms) /\ Cardinality(Phantoms) \in Nat
         /\ S = {} <=> Cardinality(S) = 0
         /\ S # {} => /\ The(S) \in S /\ S \ {The(S)} \in SUBSET Phantoms
                      /\ Cardinality(S \ {The(S)}) = Cardinality(S) - 1
                      /\ Cardinality(S) >= 1
<1>1. IsFiniteSet(Phantoms)
  <2>1. Phantoms \subseteq Names
    BY DEF Phantoms
  <2> QED
    BY <2>1, ArchiveAssumption, FS_Subset
<1>2. /\ IsFiniteSet(S) /\ Cardinality(S) <= Cardinality(Phantoms)
  BY <1>1, FS_Subset
<1>3. Cardinality(S) \in Nat /\ Cardinality(Phantoms) \in Nat
  BY <1>1, <1>2, FS_CardinalityType
<1>4. S = {} <=> Cardinality(S) = 0
  BY <1>2, FS_EmptySet
<1>5. ASSUME S # {}
      PROVE  /\ The(S) \in S /\ S \ {The(S)} \in SUBSET Phantoms
             /\ Cardinality(S \ {The(S)}) = Cardinality(S) - 1
  <2>1. The(S) \in S
    BY <1>5 DEF The
  <2> QED
    BY <1>2, <2>1, FS_RemoveElement
<1> QED
  BY <1>2, <1>3, <1>4, <1>5

LEMMA RepairsExist ==
  ASSUME NEW k \in Nat
  PROVE  \E f : RepairsUpTo(f, k)
<1> DEFINE E(i) == \E f : RepairsUpTo(f, i)
           bad == {i \in Nat : ~ E(i)}
<1>1. E(0)
  <2> DEFINE f == [S \in {T \in SUBSET Phantoms : Cardinality(T) <= 0} |-> db]
  <2>1. \A S \in DOMAIN f : S = {} /\ f[S] = db
    <3> TAKE S \in DOMAIN f
    <3>1. S \in SUBSET Phantoms /\ Cardinality(S) <= 0
      OBVIOUS
    <3>2. Cardinality(S) \in Nat
      BY <3>1, PhantomsAreFinite
    <3> HIDE DEF f
    <3>3. Cardinality(S) = 0
      BY <3>1, <3>2
    <3>4. S = {}
      BY <3>1, <3>3, PhantomsAreFinite
    <3> USE DEF f
    <3> QED
      BY <3>1, <3>4
  <2>2. \A S \in DOMAIN f : f[S] = Repairing(f, S)
    BY <2>1 DEF Repairing
  <2>3. DOMAIN f = {S \in SUBSET Phantoms : Cardinality(S) <= 0}
    OBVIOUS
  <2> HIDE DEF f
  <2> QED
    BY <2>2, <2>3 DEF RepairsUpTo
<1>2. ASSUME NEW i \in Nat, E(i)
      PROVE  E(i + 1)
  <2>1. PICK f : RepairsUpTo(f, i)
    BY <1>2
  <2> DEFINE dom == {S \in SUBSET Phantoms : Cardinality(S) <= i + 1}
             g == [S \in dom |-> IF Cardinality(S) <= i THEN f[S] ELSE Repairing(f, S)]
  <2>2. ASSUME NEW S \in dom
        PROVE  g[S] = Repairing(g, S)
    <3> DEFINE rest == S \ {The(S)}
    <3>1. CASE S = {}
      <4>0. Cardinality(S) = 0
        BY <3>1, PhantomsAreFinite
      <4>1. Cardinality(S) <= i /\ S \in DOMAIN f
        BY <2>1, <4>0 DEF RepairsUpTo
      <4> QED
        BY <2>1, <3>1, <4>1 DEF RepairsUpTo, Repairing
    <3>2. CASE S # {}
      <4>1. /\ rest \in SUBSET Phantoms /\ Cardinality(rest) = Cardinality(S) - 1
            /\ Cardinality(S) \in Nat /\ Cardinality(S) <= i + 1
        BY <3>2, PhantomsAreFinite
      <4>2. rest \in dom /\ Cardinality(rest) <= i
        BY <4>1
      <4> HIDE DEF rest
      <4>3. g[rest] = f[rest]
        BY <4>2
      <4>4. g[S] = Repairing(f, S)
        <5>1. Cardinality(S) <= i => f[S] = Repairing(f, S)
          BY <2>1 DEF RepairsUpTo
        <5> QED
          BY <5>1
      <4> HIDE DEF g, dom
      <4>5. Repairing(f, S) = MergeOne(The(S), f[rest]) /\ Repairing(g, S) = MergeOne(The(S), g[rest])
        BY <3>2 DEF Repairing, rest
      <4> QED
        BY <4>3, <4>4, <4>5
    <3> QED
      BY <3>1, <3>2
  <2>3. DOMAIN g = dom
    OBVIOUS
  <2> HIDE DEF g
  <2>4. RepairsUpTo(g, i + 1)
    BY <2>2, <2>3 DEF RepairsUpTo
  <2> QED
    BY <2>4
<1> HIDE DEF E
<1>3. bad = {}
  <2> SUFFICES ASSUME bad # {} PROVE FALSE
    OBVIOUS
  <2>1. PICK least \in bad : \A i \in bad : least <= i
    BY Least
  <2>2. least \in Nat /\ ~ E(least) /\ least # 0
    BY <1>1, <2>1
  <2>3. E(least - 1)
    BY <2>1, <2>2
  <2>4. E(least - 1 + 1)
    BY <1>2, <2>2, <2>3
  <2>5. least - 1 + 1 = least
    BY <2>2
  <2> QED
    BY <2>2, <2>4, <2>5
<1> QED
  BY <1>3 DEF E

LEMMA RepairedIs ==
  ASSUME NEW S \in SUBSET Phantoms
  PROVE  Repaired[S] = Repairing(Repaired, S)
<1> DEFINE Is(f) == f = [names \in SUBSET Phantoms |-> Repairing(f, names)]
<1>1. \E f : Is(f)
  <2> DEFINE dom == {T \in SUBSET Phantoms : Cardinality(T) <= Cardinality(Phantoms)}
  <2>1. PICK f : RepairsUpTo(f, Cardinality(Phantoms))
    BY PhantomsAreFinite, RepairsExist
  <2>2. dom = SUBSET Phantoms
    BY PhantomsAreFinite
  <2> DEFINE g == [names \in SUBSET Phantoms |-> f[names]]
  <2>3. \A T \in SUBSET Phantoms : g[T] = Repairing(g, T)
    <3> TAKE T \in SUBSET Phantoms
    <3>1. g[T] = Repairing(f, T)
      BY <2>1, <2>2 DEF RepairsUpTo
    <3>2. CASE T = {}
      BY <3>1, <3>2 DEF Repairing
    <3>3. CASE T # {}
      <4> DEFINE rest == T \ {The(T)}
      <4>1. rest \in SUBSET Phantoms
        BY <3>3, PhantomsAreFinite
      <4> HIDE DEF rest
      <4>2. g[rest] = f[rest]
        BY <4>1
      <4> HIDE DEF g
      <4> QED
        BY <3>1, <3>3, <4>2 DEF Repairing, rest
    <3> QED
      BY <3>2, <3>3
  <2>4. g = [names \in SUBSET Phantoms |-> g[names]]
    OBVIOUS
  <2> HIDE DEF g
  <2>5. Is(g)
    BY <2>3, <2>4
  <2> QED
    BY <2>5
<1>2. Repaired = CHOOSE f : Is(f)
  BY DEF Repaired, Repairing
<1> HIDE DEF Is
<1>3. Is(Repaired)
  BY <1>1, <1>2
<1> QED
  BY <1>3 DEF Is

\* However many phantoms are repaired, the references resolve.
LEMMA RepairedOK ==
  ASSUME ArchiveOK(db), NEW S \in SUBSET Phantoms
  PROVE  ArchiveOK(Repaired[S])
<1> DEFINE OK(d) == ArchiveOK(d) /\ d.titled = db.titled /\ d.messages = db.messages
           bad == {Cardinality(T) : T \in {U \in SUBSET Phantoms : ~ OK(Repaired[U])}}
<1>1. ASSUME NEW T \in SUBSET Phantoms, T # {}, OK(Repaired[T \ {The(T)}])
      PROVE  OK(Repaired[T])
  <2> DEFINE d == Repaired[T \ {The(T)}]
             n == The(T)
  <2>1. n \in Phantoms /\ Repaired[T] = MergeOne(n, d)
    BY <1>1, RepairedIs, PhantomsAreFinite DEF Repairing
  <2>2. Phantom(d, n)
    BY <1>1, <2>1 DEF Phantom, Phantoms, MessagesOf
  <2> HIDE DEF d, n
  <2>3. OK(MergeOne(n, d))
    BY <1>1, <2>2, MergeOneOK DEF d
  <2> QED
    BY <2>1, <2>3
<1>2. OK(Repaired[{}])
  BY RepairedIs DEF Repairing
<1> HIDE DEF OK
<1>3. bad \subseteq Nat
  <2>1. \A T \in SUBSET Phantoms : Cardinality(T) \in Nat
    BY PhantomsAreFinite
  <2> QED
    BY <2>1
<1>4. bad = {}
  <2> SUFFICES ASSUME bad # {} PROVE FALSE
    OBVIOUS
  <2>1. PICK least \in bad : \A i \in bad : least <= i
    BY <1>3, Least
  <2>2. PICK T \in SUBSET Phantoms : ~ OK(Repaired[T]) /\ least = Cardinality(T)
    BY <2>1
  <2>3. T # {}
    BY <1>2, <2>2
  <2> DEFINE rest == T \ {The(T)}
  <2>4. rest \in SUBSET Phantoms /\ Cardinality(rest) = least - 1 /\ least \in Nat
    BY <2>2, <2>3, PhantomsAreFinite
  <2>5. Cardinality(rest) \notin bad
    BY <2>1, <2>4
  <2>6. OK(Repaired[rest])
    BY <2>4, <2>5
  <2> QED
    BY <1>1, <2>2, <2>3, <2>6
<1> QED
  <2>1. Cardinality(S) \notin bad
    BY <1>4
  <2> QED
    BY <2>1 DEF OK

LEMMA RepairStep ==
  ASSUME ArchiveOK(db), Repair
  PROVE  ArchiveOK(db')
<1>1. db' = Repaired[Phantoms] /\ Phantoms \in SUBSET Phantoms
  BY DEF Repair
<1> QED
  BY <1>1, RepairedOK

-----------------------------------------------------------------------------
(* The archive as it is used.                                              *)

LEMMA ArchiveInitOK == ArchiveInit => ArchiveInv
<1> SUFFICES ASSUME ArchiveInit PROVE ArchiveInv
  OBVIOUS
<1>1. PICK names \in SUBSET Names, held \in SUBSET LegacyKeys :
        \E filed \in [held -> names] :
          db = [chats |-> names, titled |-> {}, messages |-> filed,
                facts |-> Empty, transcripts |-> Empty, extractions |-> Empty, aliases |-> Empty,
                arcs |-> Empty, goals |-> Empty, contexts |-> Empty, passes |-> Empty,
                proposals |-> Empty]
  BY DEF ArchiveInit
<1>2. PICK filed \in [held -> names] :
        db = [chats |-> names, titled |-> {}, messages |-> filed,
              facts |-> Empty, transcripts |-> Empty, extractions |-> Empty, aliases |-> Empty,
              arcs |-> Empty, goals |-> Empty, contexts |-> Empty, passes |-> Empty,
              proposals |-> Empty]
  BY <1>1
<1>3. now \in Instants
  BY ArchiveAssumption DEF ArchiveInit, Instants
<1>4. DOMAIN Empty = {}
  BY DEF Empty
<1> HIDE DEF Empty
<1>5. DOMAIN db = Tables
  BY <1>2 DEF Tables
<1>6. /\ db.chats = names /\ db.titled = {} /\ db.messages = filed
      /\ db.facts = Empty /\ db.transcripts = Empty /\ db.extractions = Empty
      /\ db.aliases = Empty /\ db.arcs = Empty /\ db.goals = Empty /\ db.contexts = Empty
      /\ db.passes = Empty /\ db.proposals = Empty
  BY <1>2
<1>7. ChatsOK(db.chats, db.titled) /\ MessagesOK(db.messages, db.chats)
  BY <1>6, LegacyAssumption DEF ChatsOK, MessagesOK, Chats
<1>8. /\ FactsOK(Empty, DOMAIN db.messages) /\ TranscriptsOK(Empty, DOMAIN db.messages)
      /\ ExtractionsOK(Empty, DOMAIN db.messages) /\ AliasesOK(Empty, DOMAIN db.messages)
      /\ ArcsOK(Empty, db.chats, DOMAIN db.messages)
  BY <1>4 DEF FactsOK, TranscriptsOK, ExtractionsOK, AliasesOK, ArcsOK
<1>9. /\ GoalsOK(Empty, Empty, DOMAIN db.messages) /\ ContextsOK(Empty, db.chats, DOMAIN db.messages)
      /\ PassesOK(Empty, db.chats, DOMAIN db.messages) /\ ProposalsOK(Empty, Empty, db.chats)
  BY <1>4 DEF GoalsOK, ContextsOK, PassesOK, ProposalsOK
<1> QED
  BY <1>3, <1>5, <1>6, <1>7, <1>8, <1>9 DEF ArchiveInv, ArchiveOK

LEMMA TwinSteps ==
  ASSUME ArchiveInv, TwinNext
  PROVE  ArchiveOK(db')
<1>1. ASSUME NEW asked \in Chats, NEW k \in Keys,
             NEW arcs \in AtMostOne([title : Titles, first : Keys, last : Keys,
                                     goals : AtMostOne(Words \X Keys)]),
             NEW contexts \in AtMostOne(Words \X Keys),
             SaveInteractionModel(asked, k, arcs, contexts)
      PROVE  ArchiveOK(db')
  BY <1>1, SaveStep
<1>2. ASSUME NEW asked \in Chats, NEW t \in Titles \cup {NoArc}, NEW draft \in Drafts,
             NEW basis \in SUBSET Keys, AddProposal(asked, t, draft, basis)
      PROVE  ArchiveOK(db')
  BY <1>2, AddProposalStep
<1>3. ASSUME NEW p \in DOMAIN db.proposals, NEW s \in Answers, ResolveProposal(p, s)
      PROVE  ArchiveOK(db')
  BY <1>3, ResolveProposalStep DEF Answers, ProposalStatuses
<1> QED
  BY <1>1, <1>2, <1>3 DEF TwinNext

LEMMA ArchiveSteps ==
  ASSUME ArchiveInv, [ArchiveNext]_archiveVars
  PROVE  ArchiveInv'
<1>1. ArchiveOK(db) /\ now \in Instants
  BY DEF ArchiveInv
<1>2. ASSUME NEW k \in Keys, NEW c \in Addresses, NEW titled \in BOOLEAN, Drain(k, c, titled)
      PROVE  ArchiveOK(db') /\ now' = now
  BY <1>1, <1>2, DrainStep DEF Drain
<1>3. CASE \E c \in Addresses : RenameChat(c)
  BY <1>1, <1>3, NotesSteps DEF RenameChat, ArchiveInv
<1>4. CASE NotesNext
  <2>1. now' = now
    BY <1>4 DEF NotesNext, AddFact, RecordTranscript, RetractFact, RestoreFact, AddExtraction,
                ResolveExtraction, SetAlias, RemoveAlias
  <2> QED
    BY <1>1, <1>4, <2>1, NotesSteps DEF ArchiveInv
<1>5. CASE TwinNext
  <2>1. now' = now
    <3>1. ASSUME NEW asked, NEW k, NEW arcs, NEW contexts,
                 SaveInteractionModel(asked, k, arcs, contexts)
          PROVE  now' = now
      BY <3>1 DEF SaveInteractionModel
    <3>2. ASSUME NEW asked, NEW t, NEW draft, NEW basis, AddProposal(asked, t, draft, basis)
          PROVE  now' = now
      BY <3>2 DEF AddProposal
    <3>3. ASSUME NEW p, NEW s, ResolveProposal(p, s)
          PROVE  now' = now
      BY <3>3 DEF ResolveProposal
    <3> QED
      BY <1>5, <3>1, <3>2, <3>3 DEF TwinNext
  <2> QED
    BY <1>1, <1>5, <2>1, TwinSteps DEF ArchiveInv
<1>6. ASSUME NEW policy \in Policies, Prune(policy) PROVE ArchiveOK(db') /\ now' = now
  BY <1>1, <1>6, PruneStep DEF Prune
<1>7. CASE Repair
  BY <1>1, <1>7, RepairStep DEF Repair, ArchiveInv
<1>8. CASE Tick
  BY <1>1, <1>8, ArchiveAssumption DEF Tick, ArchiveInv, Instants
<1>9. CASE UNCHANGED archiveVars
  BY <1>1, <1>9 DEF archiveVars, ArchiveInv
<1> QED
  BY <1>1, <1>2, <1>3, <1>4, <1>5, <1>6, <1>7, <1>8, <1>9 DEF ArchiveNext, ArchiveInv

(* The archive's invariant: every reference resolves, and every row is     *)
(* under the key its writer would give it today (store.js, chat-repair.js).*)
THEOREM ArchiveInvariant == ArchiveSpec => []ArchiveInv
<1>1. ArchiveInit => ArchiveInv
  BY ArchiveInitOK
<1>2. ArchiveInv /\ [ArchiveNext]_archiveVars => ArchiveInv'
  BY ArchiveSteps
<1> QED
  BY <1>1, <1>2, PTL DEF ArchiveSpec

(* Every table has the columns it is declared with, and every foreign key  *)
(* of the schema resolves, whatever is drained, derived, pruned, repaired. *)
THEOREM ArchiveIsTyped == ArchiveSpec => []ArchiveTypeOK
<1>1. ArchiveInv => ArchiveTypeOK
  <2> SUFFICES ASSUME ArchiveInv PROVE ArchiveTypeOK
    OBVIOUS
  <2>1. now \in Instants /\ ArchiveOK(db) /\ ForeignKeys(db)
    BY ReferencesResolve DEF ArchiveInv
  <2>2. ArcIds \subseteq Nat
    BY ArchiveAssumption DEF ArcIds
  <2>3. /\ db.chats \subseteq Chats /\ db.titled \subseteq db.chats \cap Addresses
        /\ DOMAIN db.messages \subseteq Keys
    BY <2>1 DEF ArchiveOK, ChatsOK, MessagesOK
  <2>4. /\ DOMAIN db.facts \subseteq Nat /\ DOMAIN db.transcripts \subseteq Keys
        /\ DOMAIN db.aliases \subseteq Nicknames
        /\ \A i \in DOMAIN db.facts : db.facts[i].retracted \in Instants \cup {Undated}
    BY <2>1, <2>2, <2>3 DEF ArchiveOK, FactsOK, TranscriptsOK, AliasesOK
  <2>5. /\ DOMAIN db.arcs \subseteq Nat /\ DOMAIN db.passes \subseteq Chats
        /\ \A c \in DOMAIN db.passes : db.passes[c].at \in Instants
    BY <2>1, <2>2, <2>3 DEF ArchiveOK, ArcsOK, PassesOK
  <2>6. \A p \in DOMAIN db.proposals : db.proposals[p].basis \in (SUBSET Keys) \ {{}}
    BY <2>1 DEF ArchiveOK, ProposalsOK
  <2> QED
    BY <2>1, <2>3, <2>4, <2>5, <2>6 DEF ArchiveTypeOK
<1> QED
  BY <1>1, ArchiveInvariant, PTL

(* No pass, repair or prune leaves a row under a key that its writer would *)
(* not find again: a thread is continued, and never forked.                *)
THEOREM KeysAlwaysFollowRows == ArchiveSpec => []KeysFollowRows
<1>1. ArchiveInv => KeysFollowRows
  BY DEF ArchiveInv, ArchiveOK, ArcsOK, GoalsOK, ContextsOK, ProposalsOK, KeysFollowRows
<1> QED
  BY <1>1, ArchiveInvariant, PTL

(* A prune whose statements reach everything that cites what goes is never *)
(* refused: none of them leaves a reference a foreign key objects to.      *)
THEOREM PrunesCommit == ArchiveSpec => []PruneCommits
BY ArchiveInvariant, PruneIsAccepted, PTL

(* A prune takes a message only past its window, and a derived row only    *)
(* with what it cites or past its own.                                     *)
THEOREM PrunesTakeOnlyWhatIsOwed == ArchiveSpec => []PruneTakesOnlyWhatIsOwed
BY ArchiveInvariant, PruneTakesWhatIsOwed, PTL

=============================================================================
