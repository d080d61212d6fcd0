------------------------------ MODULE Archive -------------------------------
(***************************************************************************)
(* The bridge's archive (whatsapp-bridge/src/store.js, and the calls in    *)
(* whatsapp.js that lead to it): messages, and everything derived from     *)
(* them.  db is the SQLite file, one field per table; a table is a         *)
(* function from its UNIQUE column to the rest of a row.  A transaction is *)
(* one step: it leaves another db, or the same one if it is rolled back,   *)
(* which is a step not taken.                                              *)
(*                                                                         *)
(* An arc's content key is <<chat, title>>, a goal's <<arc key, words>>, a *)
(* context's <<chat, words>>, a proposal's <<chat, arc id, draft>>.  The   *)
(* chat of a key is a string hashed into it; the chat of a row is a        *)
(* reference: they agree only if every writer keeps them so.  Wording,     *)
(* confidence, kinds and counts of repeats are left out.                   *)
(***************************************************************************)
EXTENDS Naturals, FiniteSets, Functions

CONSTANTS
  Keys,          \* message keys
  DateOf,        \* when each was sent, or Undated
  Addresses,     \* what the protocol calls a conversation
  Names,         \* display names an earlier build filed conversations under
  HomeOf,        \* the address each name resolves to, once it has learned it
  Titles, Words, Drafts, Nicknames,
  NoArc, NoKey, Undated,
  MaxNow,        \* BOUND: the clock
  MaxId,         \* BOUND: ids of facts and arcs
  MaxLoad,       \* BOUND: the rows derived from messages, weighed
  NoteWeight     \* what a fact, transcript, extraction or alias weighs

ASSUME ArchiveAssumption ==
  /\ DateOf \in [Keys -> Nat \cup {Undated}]
  /\ HomeOf \in [Names -> Addresses]
  /\ Addresses \cap Names = {} /\ IsFiniteSet(Names)
  /\ Undated \notin Nat
  /\ NoArc \notin Nat
  /\ NoKey \notin Keys
  /\ MaxNow \in Nat /\ MaxId \in Nat /\ MaxLoad \in Nat /\ NoteWeight \in Nat

VARIABLES
  db,            \* the tables
  now            \* the clock

archiveVars == <<db, now>>

Chats == Addresses \cup Names
Size(table) == Cardinality(DOMAIN table)
Notes(d) == Size(d.facts) + Size(d.transcripts) + Size(d.extractions) + Size(d.aliases)
Twins(d) == Size(d.arcs) + Size(d.goals) + Size(d.contexts) + Size(d.passes) + Size(d.proposals)
Load(d) == Twins(d) + NoteWeight * Notes(d)
Room == Load(db) + NoteWeight <= MaxLoad

Stored == DOMAIN db.messages
MessagesOf(d, c) == {k \in DOMAIN d.messages : d.messages[k] = c}

(* INSERT, or UPDATE on conflict.                                          *)
Put(table, key, row) ==
  [x \in DOMAIN table \cup {key} |-> IF x = key THEN row ELSE table[x]]
Without(table, keys) == Restrict(table, DOMAIN table \ keys)

(* INSERT OR IGNORE; also a proposal's ON CONFLICT, which only counts.      *)
PutNew(table, key, row) ==
  IF key \in DOMAIN table THEN table ELSE Put(table, key, row)

(* INTEGER PRIMARY KEY without AUTOINCREMENT: one more than the largest.   *)
NextId(table) ==
  IF DOMAIN table = {} THEN 1
  ELSE 1 + CHOOSE i \in DOMAIN table : \A j \in DOMAIN table : j <= i

ArcWith(d, key) == {i \in DOMAIN d.arcs : d.arcs[i].key = key}

-----------------------------------------------------------------------------
(* The foreign keys of the schema.  A proposal's basis is a JSON array and *)
(* none of them covers it.                                                 *)
ForeignKeys(d) ==
  LET known == DOMAIN d.messages
  IN  /\ Range(d.messages) \subseteq d.chats
      /\ \A i \in DOMAIN d.facts : d.facts[i].source \in known
      /\ DOMAIN d.transcripts \subseteq known
      /\ \A x \in DOMAIN d.extractions : x[2] \in known
      /\ Range(d.aliases) \subseteq known \cup {NoKey}
      /\ \A i \in DOMAIN d.arcs :
           d.arcs[i].chat \in d.chats /\ {d.arcs[i].first, d.arcs[i].last} \subseteq known
      /\ \A g \in DOMAIN d.goals :
           d.goals[g].arc \in DOMAIN d.arcs /\ d.goals[g].source \in known
      /\ \A x \in DOMAIN d.contexts :
           d.contexts[x].chat \in d.chats /\ d.contexts[x].source \in known
      /\ \A c \in DOMAIN d.passes : c \in d.chats /\ d.passes[c].through \in known
      /\ \A p \in DOMAIN d.proposals :
           /\ d.proposals[p].chat \in d.chats
           /\ d.proposals[p].arc \in DOMAIN d.arcs \cup {NoArc}

(* requireChatKey: an address as it is; a name as the address that answers *)
(* to it, which wins over a row filed under the name, or as that row.      *)
Resolved(asked) ==
  IF asked \in Names /\ HomeOf[asked] \in db.titled THEN HomeOf[asked] ELSE asked

-----------------------------------------------------------------------------
(* upsertTransportMessages, for one row of a batch: the chat is upserted   *)
(* first, its title kept if the row has none; a known key is left alone.   *)
Drain(k, c, titled) ==
  /\ DateOf[k] # Undated => DateOf[k] <= now
  /\ db' = [db EXCEPT !.chats = @ \cup {c},
                      !.titled = IF titled THEN @ \cup {c} ELSE @,
                      !.messages = PutNew(@, k, c)]
  /\ UNCHANGED now

(* renameChats: the roster has a title for a chat that is there.           *)
RenameChat(c) ==
  /\ c \in db.chats
  /\ db' = [db EXCEPT !.titled = @ \cup {c}]
  /\ UNCHANGED now

AddFact(k) ==
  /\ k \in Stored
  /\ Room
  /\ NextId(db.facts) <= MaxId
  /\ db' = [db EXCEPT !.facts = Put(@, NextId(@), [source |-> k, retracted |-> Undated])]
  /\ UNCHANGED now

(* The first retraction keeps its time: a second is not an error.          *)
RetractFact(i) ==
  /\ i \in DOMAIN db.facts
  /\ db.facts[i].retracted = Undated
  /\ db' = [db EXCEPT !.facts[i].retracted = now]
  /\ UNCHANGED now

RestoreFact(i) ==
  /\ i \in DOMAIN db.facts
  /\ db' = [db EXCEPT !.facts[i].retracted = Undated]
  /\ UNCHANGED now

RecordTranscript(k) ==
  /\ k \in Stored
  /\ k \in DOMAIN db.transcripts \/ Room
  /\ db' = [db EXCEPT !.transcripts = Put(@, k, now)]
  /\ UNCHANGED now

(* addExtractions ignores an item it has: what is done stays done.         *)
AddExtraction(w, k) ==
  /\ k \in Stored
  /\ <<w, k>> \in DOMAIN db.extractions \/ Room
  /\ db' = [db EXCEPT !.extractions = PutNew(@, <<w, k>>, "open")]
  /\ UNCHANGED now

ResolveExtraction(x, status) ==
  /\ x \in DOMAIN db.extractions
  /\ db' = [db EXCEPT !.extractions[x] = status]
  /\ UNCHANGED now

(* An alias read out of a message cites it; one the user stated does not.  *)
SetAlias(n, source) ==
  /\ source \in Stored \cup {NoKey}
  /\ n \in DOMAIN db.aliases \/ Room
  /\ db' = [db EXCEPT !.aliases = Put(@, n, source)]
  /\ UNCHANGED now

RemoveAlias(n) ==
  /\ n \in DOMAIN db.aliases
  /\ db' = [db EXCEPT !.aliases = Without(@, {n})]
  /\ UNCHANGED now

-----------------------------------------------------------------------------
(* The interaction twin.                                                   *)

(* An arc known by its title is continued, and keeps where it began.       *)
WithArc(d, c, title, first, last) ==
  LET key == <<c, title>>
      id  == NextId(d.arcs)
  IN  IF ArcWith(d, key) # {}
      THEN [d EXCEPT !.arcs = [i \in DOMAIN @ |-> IF i \in ArcWith(d, key)
                                                  THEN [@[i] EXCEPT !.last = last] ELSE @[i]]]
      ELSE [d EXCEPT !.arcs = Put(@, id, [key |-> key, chat |-> c, first |-> first, last |-> last])]

WithGoal(d, c, title, w, k) ==
  LET key == <<<<c, title>>, w>>
  IN  [d EXCEPT !.goals =
         PutNew(@, key, [arc    |-> CHOOSE i \in ArcWith(d, <<c, title>>) : TRUE, source |-> k])]

(* A context keeps its chat and cites the latest message.                  *)
WithContext(d, c, w, k) ==
  LET key == <<c, w>>
  IN  [d EXCEPT !.contexts =
         Put(@, key, [chat   |-> IF key \in DOMAIN @ THEN @[key].chat ELSE c, source |-> k])]

The(S) == CHOOSE x \in S : TRUE

(* An arc with its goal, if it has one.                                    *)
WithThread(d, c, a) ==
  LET e == WithArc(d, c, a.title, a.first, a.last)
      g == The(a.goals)
  IN  IF a.goals = {} THEN e ELSE WithGoal(e, c, a.title, g[1], g[2])

(* saveInteractionModel, with the arcs (at most one, of at most one goal)  *)
(* and contexts (at most one) of a pass: all of it is stored or none.      *)
SaveInteractionModel(asked, through, arcs, contexts) ==
  LET c == Resolved(asked)
      threaded == IF arcs = {} THEN db ELSE WithThread(db, c, The(arcs))
      modelled == IF contexts = {} THEN threaded
                  ELSE WithContext(threaded, c, The(contexts)[1], The(contexts)[2])
      saved == [modelled EXCEPT !.passes = Put(@, c, [through |-> through, at |-> now])]
      cited == {through} \cup (UNION {{a.first, a.last} : a \in arcs})
                 \cup {g[2] : g \in UNION {a.goals : a \in arcs}} \cup {x[2] : x \in contexts}
  IN  /\ c \in db.chats
      /\ cited \subseteq Stored
      /\ Load(saved) <= MaxLoad
      /\ DOMAIN saved.arcs \subseteq 1..MaxId
      /\ db' = saved
      /\ UNCHANGED now

(* addProposals: the basis must be known, and so must an arc that is named *)
(* (title is NoArc if none is).  A move already there keeps its status.    *)
AddProposal(asked, title, draft, basis) ==
  LET c   == Resolved(asked)
      arc == IF title = NoArc THEN NoArc ELSE CHOOSE i \in ArcWith(db, <<c, title>>) : TRUE
      key == <<c, arc, draft>>
      d   == [db EXCEPT !.proposals =
                PutNew(@, key, [chat |-> c, arc |-> arc, basis |-> basis, status |-> "open"])]
  IN  /\ basis # {} /\ basis \subseteq Stored
      /\ c \in db.chats
      /\ title = NoArc \/ ArcWith(db, <<c, title>>) # {}
      /\ Load(d) <= MaxLoad
      /\ db' = d
      /\ UNCHANGED now

ResolveProposal(p, status) ==
  /\ p \in DOMAIN db.proposals
  /\ db' = [db EXCEPT !.proposals[p].status = status]
  /\ UNCHANGED now

=============================================================================
