------------------------------ MODULE TwinPass ------------------------------
(***************************************************************************)
(* The passes that read one archived conversation with a model and write   *)
(* down what it found: whatsapp_model_interaction, whatsapp_extract_actions*)
(* and whatsapp_next_best (agent/tools), with the checks of agent/lib      *)
(* (twin.ts, extraction.ts) between the model's answer and the store's own *)
(* (whatsapp-bridge/src/store.js).  A pass reads, thinks for a while and   *)
(* saves; messages arrive, other passes save, the user answers proposals   *)
(* and old messages are pruned in between.                                 *)
(*                                                                         *)
(* A message key is the message's place in sent order; Invented is a key   *)
(* the model made up.  Titles with the same form are one thread.  Wording, *)
(* statuses and confidence are folded into whether a candidate is usable.  *)
(***************************************************************************)
EXTENDS Naturals, Sequences, SequencesExt, FiniteSets, FiniteSetsExt, TLC

CONSTANTS Passes,         \* calls of the tools
          Titles,         \* what the model may call a thread
          FormOf,         \* normalizeArcTitle, a function on Titles
          Drafts,         \* what a proposed move says
          MaxMessages,    \* bound: messages of the conversation
          MaxCandidates,  \* bound: candidates in one answer of the model
          PassLimit,      \* limit of a modelling or extraction pass
          TailLimit,      \* recentMessages of a proposal pass
          MaxKept,        \* MAX_ARCS, MAX_ITEMS, MAX_PROPOSALS
          NoTitle         \* a move on no thread

ASSUME TwinAssumption ==
    /\ MaxMessages \in Nat /\ MaxCandidates \in Nat /\ MaxKept \in Nat
    /\ PassLimit \in Nat \ {0} /\ TailLimit \in Nat \ {0}
    /\ Titles \subseteq DOMAIN FormOf /\ NoTitle \notin Titles

VARIABLES archived,  \* the messages of the conversation
          pruned,    \* the messages that have been forgotten
          arcs,      \* the threads: a function from forms
          contexts,  \* the messages the contexts were read from
          owed,      \* the messages the open obligations were read from
          anchor,    \* through_message_key of the last pass, or Invented
          proposals, \* a function from <<form, draft>> to a status
          pass       \* pass[p]: what the pass p is doing

twinData == <<archived, pruned, arcs, contexts, owed, anchor, proposals>>
twinVars == <<twinData, pass>>

Invented == 0
Messages == 1 .. MaxMessages
Forms == {FormOf[t] : t \in Titles}
SomeKeys == archived \cup {Invented}

ArcCandidates == [title : Titles, first : SomeKeys, last : SomeKeys, goal : SomeKeys,
                  usable : {TRUE}]
Unusable == [title |-> NoTitle, usable |-> FALSE, basis |-> {}]
MoveCandidates == [title : Titles \cup {NoTitle}, draft : Drafts, basis : SUBSET SomeKeys,
                   usable : {TRUE}]

AnswersOf(candidates) == BoundedSeq(candidates \cup {Unusable}, MaxCandidates)

-----------------------------------------------------------------------------
(* Reading.                                                                *)

\* messagesFor: the limit is cut from the oldest end unless newest is asked.
messagesFor(limit, newest) ==
    {k \in archived :
        Cardinality({j \in archived : IF newest THEN j > k ELSE j < k}) < limit}

\* /archive/messages as the tools call it, without newest.
archiveMessages(limit) == messagesFor(limit, FALSE)

\* The messages the twin rests on.
citableKeysFromTwin ==
    (UNION {{arcs[f].first, arcs[f].last} \cup arcs[f].goals : f \in DOMAIN arcs})
    \cup contexts \cup owed

\* A pass is behind as many messages as stand after its anchor.
messagesSince == IF anchor = Invented THEN 0 ELSE Cardinality({k \in archived : k > anchor})
stale == anchor = Invented \/ messagesSince > 0

-----------------------------------------------------------------------------
(* What is kept of a model's answer: what is usable and cites what was     *)
(* read, each identity once, no more than the cap.                         *)

Firsts(good, identity) ==
    LET fresh == {i \in good : \A j \in good : j < i => identity[j] # identity[i]}
    IN  {i \in fresh : Cardinality({l \in fresh : l < i}) < MaxKept}

FormIn(c) == IF c.title = NoTitle THEN NoTitle ELSE FormOf[c.title]

FormsIn(answer) == [i \in DOMAIN answer |-> FormIn(answer[i])]

\* The arcs of an answer, among those at the places given.
ArcsAt(answer, places, citable) ==
    {[answer[i] EXCEPT !.goal = IF @ \in citable THEN {@} ELSE {}] :
        i \in Firsts(places, FormsIn(answer))}

\* Mutant of KeptArcs: where an arc began is not looked up.
KeptArcsByTheirEnd(answer, citable) ==
    ArcsAt(answer, {i \in DOMAIN answer : answer[i].usable /\ answer[i].last \in citable}, citable)

KeptArcs(answer, citable) ==
    ArcsAt(answer, {i \in DOMAIN answer : /\ answer[i].usable
                                         /\ {answer[i].first, answer[i].last} \subseteq citable},
           citable)

\* What the contexts cite, and what the obligations cite.
KeptContexts(keys, citable) == keys \cap citable
KeptKeys(keys, citable) == keys \cap citable

\* A move keeps the part of its basis that may be cited, and needs some; its
\* thread must be known, and the user must not have said no to it.
KeptMoves(answer, citable, known, refused) ==
    LET Identity(i) == <<FormIn(answer[i]), answer[i].draft>>
        good == {i \in DOMAIN answer :
                   /\ answer[i].usable
                   /\ answer[i].basis \cap citable # {}
                   /\ FormIn(answer[i]) \in known \cup {NoTitle}
                   /\ Identity(i) \notin refused}
    IN  {[answer[i] EXCEPT !.basis = @ \cap citable] :
            i \in Firsts(good, [i \in good |-> Identity(i)])}

-----------------------------------------------------------------------------

TwinInit ==
    /\ archived = {} /\ pruned = {} /\ contexts = {} /\ owed = {} /\ anchor = Invented
    /\ arcs = <<>> /\ proposals = <<>>
    /\ pass = [p \in Passes |-> [pc |-> "none"]]

\* In any order: history comes in after what is newer than it.
MessageArrives(k) ==
    /\ k \notin archived \cup pruned
    /\ archived' = archived \cup {k}
    /\ UNCHANGED <<pruned, arcs, contexts, owed, anchor, proposals, pass>>

Restricted(f, domain) == [x \in domain |-> f[x]]

\* The oldest message goes, and what was read from it.
MessageIsPruned ==
    /\ archived # {}
    /\ LET k == Min(archived)
           kept == {f \in DOMAIN arcs : k \notin {arcs[f].first, arcs[f].last}}
       IN  /\ archived' = archived \ {k}
           /\ pruned' = pruned \cup {k}
           /\ arcs' = [f \in kept |-> [arcs[f] EXCEPT !.goals = @ \ {k}]]
           /\ proposals' = Restricted(proposals,
                             {m \in DOMAIN proposals : m[1] \in kept \cup {NoTitle}})
           /\ contexts' = contexts \ {k}
           /\ owed' = owed \ {k}
           /\ anchor' = IF anchor = k THEN Invented ELSE anchor
    /\ UNCHANGED pass

Becomes(p, record) == pass' = [pass EXCEPT ![p] = record]
EndsPass(p, how) == pass' = [pass EXCEPT ![p].pc = how]

\* Nothing archived is nothing to read.
ReadsMessages(p, kind) ==
    /\ pass[p].pc = "none"
    /\ LET read == archiveMessages(PassLimit)
       IN  Becomes(p, IF read = {} THEN [pc |-> "done", kind |-> "empty"]
                      ELSE [pc |-> "thinking", kind |-> kind, shown |-> read, had |-> archived])
    /\ UNCHANGED twinData

Dismissed == {m \in DOMAIN proposals : proposals[m] = "dismissed"}

\* What /twin answers: what may be cited, the threads and what was refused.
Twin == [pc |-> "tail", kind |-> "next", shown |-> citableKeysFromTwin,
         known |-> DOMAIN arcs, refused |-> Dismissed]

\* No thread and nothing outstanding is a conversation that needs no move.
ReadsTwin(p) ==
    /\ pass[p].pc = "none"
    /\ Becomes(p, IF archived = {} \/ (arcs = <<>> /\ owed = {})
                  THEN [pc |-> "done", kind |-> "empty"]
                  ELSE Twin)
    /\ UNCHANGED twinData

ReadsTail(p) ==
    /\ pass[p].pc = "tail"
    /\ Becomes(p, [pass[p] EXCEPT !.pc = "thinking",
                                  !.shown = @ \cup archiveMessages(TailLimit)])
    /\ UNCHANGED twinData

Thinks(p, kind) == pass[p].pc = "thinking" /\ pass[p].kind = kind

ModelFails(p) ==
    /\ pass[p].pc = "thinking"
    /\ EndsPass(p, "done")
    /\ UNCHANGED twinData

\* throughMessageKey is the last of the messages read.
Models(p) ==
    /\ Thinks(p, "model")
    /\ \E answer \in AnswersOf(ArcCandidates), keys \in SUBSET SomeKeys :
          Becomes(p, [pc |-> "saving", kind |-> "model", shown |-> pass[p].shown, had |-> pass[p].had,
                      arcs |-> KeptArcs(answer, pass[p].shown),
                      keys |-> KeptContexts(keys, pass[p].shown), through |-> Max(pass[p].shown)])
    /\ UNCHANGED twinData

Extracts(p) ==
    /\ Thinks(p, "extract")
    /\ \E keys \in SUBSET SomeKeys :
          Becomes(p, [pc |-> "saving", kind |-> "extract", shown |-> pass[p].shown,
                      keys |-> KeptKeys(keys, pass[p].shown)])
    /\ UNCHANGED twinData

\* A pass that keeps no move writes nothing.
Proposes(p) ==
    /\ Thinks(p, "next")
    /\ \E answer \in AnswersOf(MoveCandidates) :
          LET moves == KeptMoves(answer, pass[p].shown, pass[p].known, pass[p].refused)
          IN  Becomes(p, IF moves = {} THEN [pc |-> "done", kind |-> "next"]
                         ELSE [pc |-> "saving", kind |-> "next", shown |-> pass[p].shown,
                               known |-> pass[p].known, moves |-> moves])
    /\ UNCHANGED twinData

-----------------------------------------------------------------------------
(* Saving: one transaction, rolled back when anything it cites is unknown. *)

\* The messages a save names, which requireMessage looks up one by one.
CitedBy(p) ==
    CASE pass[p].kind = "model" -> (UNION {{c.first, c.last} \cup c.goal : c \in pass[p].arcs})
                                   \cup pass[p].keys \cup {pass[p].through}
      [] pass[p].kind = "extract" -> pass[p].keys
      [] OTHER -> UNION {m.basis : m \in pass[p].moves}

\* An arc that is there keeps where it began.
Continued(c, f) ==
    IF f \in DOMAIN arcs
    THEN [arcs[f] EXCEPT !.last = c.last, !.goals = @ \cup c.goal]
    ELSE [first |-> c.first, last |-> c.last, goals |-> c.goal]

\* A pass keeps one candidate of a form at most.
Modelled(kept) ==
    LET ofForm(f) == {c \in kept : FormOf[c.title] = f}
    IN  [f \in DOMAIN arcs \cup {FormOf[c.title] : c \in kept} |->
            IF ofForm(f) = {} THEN arcs[f] ELSE Continued(CHOOSE c \in ofForm(f) : TRUE, f)]

SavesModel(p) ==
    /\ pass[p].pc = "saving" /\ pass[p].kind = "model"
    /\ CitedBy(p) \subseteq archived
    /\ arcs' = Modelled(pass[p].arcs)
    /\ contexts' = contexts \cup pass[p].keys
    /\ anchor' = pass[p].through
    /\ EndsPass(p, "saved")
    /\ UNCHANGED <<archived, pruned, owed, proposals>>

SavesExtractions(p) ==
    /\ pass[p].pc = "saving" /\ pass[p].kind = "extract"
    /\ CitedBy(p) \subseteq archived
    /\ owed' = owed \cup pass[p].keys
    /\ EndsPass(p, "saved")
    /\ UNCHANGED <<archived, pruned, arcs, contexts, anchor, proposals>>

MovesOf(p) == {<<FormIn(m), m.draft>> : m \in pass[p].moves}
ThreadsKnown(p) == \A m \in MovesOf(p) : m[1] \in DOMAIN arcs \cup {NoTitle}

\* A repeat leaves the status as it is.
SavesProposals(p) ==
    /\ pass[p].pc = "saving" /\ pass[p].kind = "next"
    /\ CitedBy(p) \subseteq archived /\ ThreadsKnown(p)
    /\ proposals' = proposals @@ [m \in MovesOf(p) |-> "open"]
    /\ EndsPass(p, "saved")
    /\ UNCHANGED <<archived, pruned, arcs, contexts, owed, anchor>>

StoreRefuses(p) ==
    /\ pass[p].pc = "saving"
    /\ \/ ~ CitedBy(p) \subseteq archived
       \/ pass[p].kind = "next" /\ ~ThreadsKnown(p)
    /\ EndsPass(p, "refused")
    /\ UNCHANGED twinData

UserResolves(m, status) ==
    /\ m \in DOMAIN proposals
    /\ proposals' = [proposals EXCEPT ![m] = status]
    /\ UNCHANGED <<archived, pruned, arcs, contexts, owed, anchor, pass>>

\* An obligation that is done or dropped leaves the twin.
UserSettles(k) ==
    /\ k \in owed
    /\ owed' = owed \ {k}
    /\ UNCHANGED <<archived, pruned, arcs, contexts, anchor, proposals, pass>>

TwinNext ==
    \/ \E k \in Messages : MessageArrives(k) \/ UserSettles(k)
    \/ MessageIsPruned
    \/ \E p \in Passes :
          \/ \E kind \in {"model", "extract"} : ReadsMessages(p, kind)
          \/ ReadsTwin(p) \/ ReadsTail(p) \/ ModelFails(p)
          \/ Models(p) \/ Extracts(p) \/ Proposes(p)
          \/ SavesModel(p) \/ SavesExtractions(p) \/ SavesProposals(p) \/ StoreRefuses(p)
    \/ \E m \in DOMAIN proposals, status \in {"accepted", "dismissed", "expired"} :
          UserResolves(m, status)

TwinSpec == TwinInit /\ [][TwinNext]_twinVars

-----------------------------------------------------------------------------

(***************************************************************************)
(* "a good pass should not be lost to one invented id" (twin.ts:26-28):    *)
(* whatever the model answers and whatever other passes save meanwhile, the*)
(* store refuses a pass only for something the pass was shown and that a   *)
(* prune took while it thought: a message, or a thread, which goes with the*)
(* message another pass has since continued it to.                         *)
(***************************************************************************)
PassesAreNotLost ==
    [][\A p \in Passes : pass[p].pc = "saving" /\ pass'[p].pc = "refused" =>
          \/ pass[p].shown \cap pruned # {}
          \/ pass[p].kind = "next" /\ ~ pass[p].known \subseteq DOMAIN arcs]_twinVars

(***************************************************************************)
(* "Run it before proposing a next move on a chat the twin reports as      *)
(* stale" (whatsapp_model_interaction.ts:86): when nothing has come or gone*)
(* since a pass read the conversation, the saved pass leaves the twin      *)
(* current.                                                                *)
(***************************************************************************)
CurrentOnceModelled ==
    \A p \in Passes :
        pass[p].pc = "saved" /\ pass[p].kind = "model" /\ pass[p].had = archived => ~stale

=============================================================================
