----------------------------- MODULE AgentProofs ----------------------------
(***************************************************************************)
(* Theorems about what the agent does on its own: the passes that model a  *)
(* conversation, the game it plays in the chat, and the file its settings  *)
(* are saved to.                                                           *)
(*                                                                         *)
(* Passes: a pass over a conversation is refused only for something it was *)
(* shown and that a prune took (PassesAreNotLost), from an invariant of    *)
(* what the twin cites and of what every pass holds while it thinks.       *)
(*                                                                         *)
(* Game: at the solved level a board that the best play does not lose is   *)
(* answered with one that it does not lose: the sign of a score does not   *)
(* depend on the board the search began at (SameSign), and the engine      *)
(* takes a greatest one (BestKeep).  So the user's line is never           *)
(* completed.  The archive shows at most one board of the chat, the one    *)
(* filed last (ChatInv), and unless a call was cancelled with its post     *)
(* under way one call at a time holds or waits for a board, which follows  *)
(* from that one (AloneInv): every change of it is a start or one turn     *)
(* (OneGameIsPlayed).  Every board that is held, posted, sent or filed is  *)
(* one the solved level does not lose, whatever fails (SafeGames).         *)
(*                                                                         *)
(* Settings: a save of the preferences that met no other is the only one   *)
(* under way, and owns the file and its sibling (SettingsInv), so it lands *)
(* whole and leaves the rest, for every file, every form, and whatever any *)
(* number of saves before it failed to clean up.                           *)
(***************************************************************************)
EXTENDS TwinPass, ChatGame, GameRules, Settings, Induction, SequenceTheorems,
        FiniteSetTheorems, TLAPS

\* The twin cites what is archived and nothing else.
TwinCites ==
    /\ archived \subseteq Messages
    /\ \A f \in DOMAIN arcs :
          arcs[f] \in [first : archived, last : archived, goals : SUBSET archived]
    /\ contexts \subseteq archived /\ owed \subseteq archived

(* What a pass is doing, by what it holds.                                 *)
Unstarted(r) == r = [pc |-> "none"]
Over(r) == r.pc \in {"done", "saved", "refused"}

ReadsOver(r) ==
    /\ r.pc = "thinking" /\ r.kind \in {"model", "extract"}
    /\ r = [pc |-> r.pc, kind |-> r.kind, shown |-> r.shown, had |-> r.had]
    /\ r.shown # {} /\ r.shown \subseteq Messages

Advises(r) ==
    /\ r.pc \in {"tail", "thinking"} /\ r.kind = "next"
    /\ DOMAIN r = {"pc", "kind", "shown", "known", "refused"}

SavingModel(r) ==
    /\ r.pc = "saving" /\ r.kind = "model"
    /\ r = [pc |-> r.pc, kind |-> r.kind, shown |-> r.shown, had |-> r.had, arcs |-> r.arcs,
            keys |-> r.keys, through |-> r.through]
    /\ \A c \in r.arcs : c.first \in r.shown /\ c.last \in r.shown /\ c.goal \subseteq r.shown
    /\ r.keys \subseteq r.shown /\ r.through \in r.shown

SavingExtractions(r) ==
    /\ r.pc = "saving" /\ r.kind = "extract"
    /\ r = [pc |-> r.pc, kind |-> r.kind, shown |-> r.shown, keys |-> r.keys]
    /\ r.keys \subseteq r.shown

SavingMoves(r) ==
    /\ r.pc = "saving" /\ r.kind = "next"
    /\ r = [pc |-> r.pc, kind |-> r.kind, shown |-> r.shown, known |-> r.known,
            moves |-> r.moves]
    /\ \A m \in r.moves : m.basis \subseteq r.shown /\ FormIn(m) \in r.known \cup {NoTitle}

\* Whatever it may still cite was archived when it was shown.
PassOK(r, seen) ==
    \/ Unstarted(r)
    \/ Over(r)
    \/ /\ ReadsOver(r) \/ Advises(r) \/ SavingModel(r) \/ SavingExtractions(r) \/ SavingMoves(r)
       /\ r.shown \subseteq seen

TwinInv ==
    /\ TwinCites
    /\ pass = [p \in Passes |-> pass[p]]
    /\ \A p \in Passes : PassOK(pass[p], archived \cup pruned)

-----------------------------------------------------------------------------
(* The model's operators.                                                  *)

\* The last of the messages a pass read is one of them.
LEMMA LastIsRead ==
  ASSUME NEW S, S \subseteq Messages, S # {}
  PROVE  Max(S) \in S
<1>1. MaxMessages \in Nat /\ S \subseteq Within(MaxMessages)
  BY TwinAssumption DEF Messages, Within
<1> QED
  BY <1>1, ExtremesAre

\* An answer is a list of candidates and of what cannot be used.
LEMMA AnswerOf ==
  ASSUME NEW candidates, NEW answer \in AnswersOf(candidates), NEW i \in DOMAIN answer
  PROVE  answer[i] \in candidates \cup {Unusable}
<1>1. PICK n \in 0 .. MaxCandidates : answer \in [1 .. n -> candidates \cup {Unusable}]
  BY DEF AnswersOf, BoundedSeq, SeqOf
<1> QED
  BY <1>1

\* What is kept is at the places it is kept from.
LEMMA FirstsAreGood ==
  ASSUME NEW good, NEW identity
  PROVE  Firsts(good, identity) \subseteq good
BY DEF Firsts

\* An arc that is kept cites what was shown, whatever the model answered.
LEMMA KeptArcsCite ==
  ASSUME NEW keys, NEW answer \in AnswersOf(ArcCandidates), NEW shown,
         NEW c \in KeptArcs(answer, shown)
  PROVE  c.first \in shown /\ c.last \in shown /\ c.goal \subseteq shown
<1> DEFINE places == {i \in DOMAIN answer : /\ answer[i].usable
                                          /\ {answer[i].first, answer[i].last} \subseteq shown}
<1>1. PICK i \in Firsts(places, FormsIn(answer)) :
         c = [answer[i] EXCEPT !.goal = IF @ \in shown THEN {@} ELSE {}]
  BY DEF KeptArcs, ArcsAt
<1>2. i \in places
  BY <1>1, FirstsAreGood
<1>3. answer[i] \in ArcCandidates \cup {Unusable}
  BY <1>2, AnswerOf
<1>4. answer[i] \in ArcCandidates
  BY <1>2, <1>3 DEF Unusable
<1> QED
  BY <1>1, <1>2, <1>4 DEF ArcCandidates

\* A move that is kept rests on what was shown and hangs on a thread the twin
\* had, or on none.
LEMMA KeptMovesCite ==
  ASSUME NEW answer \in AnswersOf(MoveCandidates), NEW shown, NEW known, NEW refused,
         NEW m \in KeptMoves(answer, shown, known, refused)
  PROVE  m.basis \subseteq shown /\ FormIn(m) \in known \cup {NoTitle}
<1> DEFINE Identity(i) == <<FormIn(answer[i]), answer[i].draft>>
           good == {i \in DOMAIN answer :
                   /\ answer[i].usable
                   /\ answer[i].basis \cap shown # {}
                   /\ FormIn(answer[i]) \in known \cup {NoTitle}
                   /\ Identity(i) \notin refused}
<1>1. PICK i \in Firsts(good, [i \in good |-> Identity(i)]) :
         m = [answer[i] EXCEPT !.basis = @ \cap shown]
  BY DEF KeptMoves
<1>2. i \in good
  BY <1>1, FirstsAreGood
<1>3. answer[i] \in MoveCandidates
  BY <1>2, AnswerOf DEF Unusable
<1>4. m.basis \subseteq shown /\ m.title = answer[i].title
  BY <1>1, <1>3 DEF MoveCandidates
<1> QED
  BY <1>2, <1>4 DEF FormIn

-----------------------------------------------------------------------------
(* The invariant is inductive.                                             *)

\* A step of one pass that leaves the conversation and the twin alone.
LEMMA OnePass ==
  ASSUME TwinInv, NEW p \in Passes, NEW r, pass' = [pass EXCEPT ![p] = r],
         PassOK(r, archived \cup pruned), UNCHANGED twinData
  PROVE  TwinInv'
<1>1. pass' = [q \in Passes |-> pass'[q]] /\ \A q \in Passes : pass'[q] = IF q = p THEN r ELSE pass[q]
  BY DEF TwinInv
<1>2. TwinCites'
  BY DEF TwinInv, TwinCites, twinData
<1>3. archived' \cup pruned' = archived \cup pruned
  BY DEF twinData
<1>4. ASSUME NEW q \in Passes PROVE PassOK(pass'[q], archived' \cup pruned')
  BY <1>1, <1>3 DEF TwinInv
<1> QED
  BY <1>1, <1>2, <1>4 DEF TwinInv

\* What is archived and what was pruned only grow together: what a pass was
\* shown does not leave them.
LEMMA StillSeen ==
  ASSUME NEW r, NEW seen, NEW more, PassOK(r, seen), seen \subseteq more
  PROVE  PassOK(r, more)
BY DEF PassOK

\* A pass that ends holds nothing it may still cite.
LEMMA Ending ==
  ASSUME TwinInv, NEW p \in Passes, ~ Unstarted(pass[p]), ~ Over(pass[p]),
         NEW how \in {"done", "saved", "refused"}, EndsPass(p, how)
  PROVE  /\ pass' = [q \in Passes |-> pass'[q]]
         /\ pass'[p].pc = how
         /\ \A q \in Passes \ {p} : pass'[q] = pass[q]
<1>1. "pc" \in DOMAIN pass[p]
  <2>1. PassOK(pass[p], archived \cup pruned)
    BY DEF TwinInv
  <2>2. CASE ReadsOver(pass[p])
    BY <2>2 DEF ReadsOver
  <2>3. CASE Advises(pass[p])
    BY <2>3 DEF Advises
  <2>4. CASE SavingModel(pass[p])
    BY <2>4 DEF SavingModel
  <2>5. CASE SavingExtractions(pass[p])
    BY <2>5 DEF SavingExtractions
  <2>6. CASE SavingMoves(pass[p])
    BY <2>6 DEF SavingMoves
  <2> QED
    BY <2>1, <2>2, <2>3, <2>4, <2>5, <2>6 DEF PassOK
<1>2. pass' = [pass EXCEPT ![p] = [pass[p] EXCEPT !.pc = how]]
  BY DEF EndsPass
<1>3. pass = [q \in Passes |-> pass[q]]
  BY DEF TwinInv
<1> QED
  BY <1>1, <1>2, <1>3

\* The same, with what a save or a prune does to the twin.
LEMMA EndsWell ==
  ASSUME TwinInv, NEW p \in Passes, ~ Unstarted(pass[p]), ~ Over(pass[p]),
         NEW how \in {"done", "saved", "refused"}, EndsPass(p, how),
         TwinCites', UNCHANGED <<archived, pruned>>
  PROVE  TwinInv'
<1>1. /\ pass' = [q \in Passes |-> pass'[q]]
      /\ pass'[p].pc = how
      /\ \A q \in Passes \ {p} : pass'[q] = pass[q]
  BY Ending
<1>2. PassOK(pass'[p], archived' \cup pruned')
  BY <1>1 DEF PassOK, Over
<1>3. ASSUME NEW q \in Passes \ {p} PROVE PassOK(pass'[q], archived' \cup pruned')
  BY <1>1 DEF TwinInv
<1> QED
  BY <1>1, <1>2, <1>3 DEF TwinInv

LEMMA TwinStarts == TwinInit => TwinInv
BY DEF TwinInit, TwinInv, TwinCites, PassOK, Unstarted

LEMMA ArrivalStep ==
  ASSUME TwinInv, NEW k \in Messages, MessageArrives(k)
  PROVE  TwinInv'
<1>1. TwinCites'
  BY DEF MessageArrives, TwinInv, TwinCites
<1>2. archived \cup pruned \subseteq archived' \cup pruned' /\ pass' = pass
  BY DEF MessageArrives
<1> QED
  BY <1>1, <1>2, StillSeen DEF TwinInv

LEMMA PruneStep ==
  ASSUME TwinInv, MessageIsPruned
  PROVE  TwinInv'
<1> DEFINE k == Min(archived)
           kept == {f \in DOMAIN arcs : k \notin {arcs[f].first, arcs[f].last}}
<1>1. /\ archived' = archived \ {k} /\ pruned' = pruned \cup {k}
      /\ arcs' = [f \in kept |-> [arcs[f] EXCEPT !.goals = @ \ {k}]]
      /\ contexts' = contexts \ {k} /\ owed' = owed \ {k}
      /\ pass' = pass
  BY DEF MessageIsPruned
<1> HIDE DEF k
<1>2. ASSUME NEW f \in DOMAIN arcs'
      PROVE  arcs'[f] \in [first : archived', last : archived', goals : SUBSET archived']
  <2>1. f \in kept /\ arcs'[f] = [arcs[f] EXCEPT !.goals = @ \ {k}]
    BY <1>1
  <2>2. arcs[f] \in [first : archived, last : archived, goals : SUBSET archived]
    BY <2>1 DEF TwinInv, TwinCites
  <2> QED
    BY <1>1, <2>1, <2>2
<1>3. TwinCites'
  BY <1>1, <1>2 DEF TwinInv, TwinCites
<1>4. archived \cup pruned \subseteq archived' \cup pruned'
  BY <1>1
<1> QED
  BY <1>1, <1>3, <1>4, StillSeen DEF TwinInv

LEMMA ReadsStep ==
  ASSUME TwinInv, NEW p \in Passes, NEW kind \in {"model", "extract"}, ReadsMessages(p, kind)
  PROVE  TwinInv'
<1> DEFINE read == archiveMessages(PassLimit)
           r == IF read = {} THEN [pc |-> "done", kind |-> "empty"]
                ELSE [pc |-> "thinking", kind |-> kind, shown |-> read, had |-> archived]
<1>1. read \subseteq archived /\ archived \subseteq Messages
  BY DEF archiveMessages, messagesFor, TwinInv, TwinCites
<1>2. pass' = [pass EXCEPT ![p] = r] /\ UNCHANGED twinData
  BY DEF ReadsMessages, Becomes
<1> HIDE DEF read
<1>3. PassOK(r, archived \cup pruned)
  BY <1>1 DEF PassOK, Over, ReadsOver
<1> QED
  BY <1>2, <1>3, OnePass

LEMMA TwinIsRead ==
  ASSUME TwinInv, NEW p \in Passes, ReadsTwin(p)
  PROVE  TwinInv'
<1> DEFINE empty == archived = {} \/ (arcs = <<>> /\ owed = {})
           r == IF empty THEN [pc |-> "done", kind |-> "empty"] ELSE Twin
<1>1. citableKeysFromTwin \subseteq archived
  <2>1. ASSUME NEW f \in DOMAIN arcs
        PROVE  {arcs[f].first, arcs[f].last} \cup arcs[f].goals \subseteq archived
    BY DEF TwinInv, TwinCites
  <2>2. contexts \cup owed \subseteq archived
    BY DEF TwinInv, TwinCites
  <2>3. ASSUME NEW k \in citableKeysFromTwin PROVE k \in archived
    <3>1. \/ k \in contexts \cup owed
          \/ \E f \in DOMAIN arcs : k \in {arcs[f].first, arcs[f].last} \cup arcs[f].goals
      <4> DEFINE spans == {{arcs[f].first, arcs[f].last} \cup arcs[f].goals : f \in DOMAIN arcs}
      <4>1. k \in contexts \cup owed \/ k \in UNION spans
        <5>1. citableKeysFromTwin = (UNION spans) \cup contexts \cup owed
          BY DEF citableKeysFromTwin
        <5> HIDE DEF spans
        <5> QED
          BY <2>3, <5>1
      <4>2. ASSUME NEW span \in spans, k \in span
            PROVE  \E f \in DOMAIN arcs : k \in {arcs[f].first, arcs[f].last} \cup arcs[f].goals
        BY <4>2
      <4> HIDE DEF spans
      <4> QED
        BY <4>1, <4>2
    <3> QED
      BY <2>1, <2>2, <3>1
  <2> QED
    BY <2>3
<1>2. pass' = [pass EXCEPT ![p] = r] /\ UNCHANGED twinData
  BY DEF ReadsTwin, Becomes
<1> HIDE DEF empty
<1>3. PassOK(r, archived \cup pruned)
  BY <1>1 DEF PassOK, Over, Advises, Twin
<1> QED
  BY <1>2, <1>3, OnePass

\* A pass at a point where it advises, by its program counter.
LEMMA AtAdvice ==
  ASSUME TwinInv, NEW p \in Passes, pass[p].pc = "tail" \/ Thinks(p, "next")
  PROVE  Advises(pass[p]) /\ pass[p].shown \subseteq archived \cup pruned
BY DEF Thinks, TwinInv, PassOK, Unstarted, Over, ReadsOver, SavingModel, SavingExtractions, SavingMoves

LEMMA TailStep ==
  ASSUME TwinInv, NEW p \in Passes, ReadsTail(p)
  PROVE  TwinInv'
<1> DEFINE r == [pass[p] EXCEPT !.pc = "thinking", !.shown = @ \cup archiveMessages(TailLimit)]
<1>1. Advises(pass[p]) /\ pass[p].shown \subseteq archived \cup pruned
  BY AtAdvice DEF ReadsTail
<1>2. archiveMessages(TailLimit) \subseteq archived
  BY DEF archiveMessages, messagesFor
<1>3. pass' = [pass EXCEPT ![p] = r] /\ UNCHANGED twinData
  BY DEF ReadsTail, Becomes
<1>4. Advises(r) /\ r.shown = pass[p].shown \cup archiveMessages(TailLimit)
  BY <1>1 DEF Advises
<1>5. PassOK(r, archived \cup pruned)
  BY <1>1, <1>2, <1>4 DEF PassOK
<1> QED
  BY <1>3, <1>5, OnePass

\* A pass that thinks over messages, or that saves, by what it is for.
LEMMA AtReading ==
  ASSUME TwinInv, NEW p \in Passes, NEW kind \in {"model", "extract"}, Thinks(p, kind)
  PROVE  ReadsOver(pass[p]) /\ pass[p].shown \subseteq archived \cup pruned
BY DEF Thinks, TwinInv, PassOK, Unstarted, Over, Advises, SavingModel, SavingExtractions,
       SavingMoves

LEMMA AtSaving ==
  ASSUME TwinInv, NEW p \in Passes, pass[p].pc = "saving"
  PROVE  /\ pass[p].shown \subseteq archived \cup pruned
         /\ \/ SavingModel(pass[p]) \/ SavingExtractions(pass[p]) \/ SavingMoves(pass[p])
         /\ ~ Unstarted(pass[p]) /\ ~ Over(pass[p])
BY DEF TwinInv, PassOK, Unstarted, Over, ReadsOver, Advises

LEMMA FailureStep ==
  ASSUME TwinInv, NEW p \in Passes, ModelFails(p)
  PROVE  TwinInv'
<1>1. ~ Unstarted(pass[p]) /\ ~ Over(pass[p])
  BY DEF ModelFails, Unstarted, Over
<1>2. TwinCites' /\ UNCHANGED <<archived, pruned>>
  BY DEF ModelFails, twinData, TwinInv, TwinCites
<1> QED
  BY <1>1, <1>2, EndsWell DEF ModelFails

LEMMA ModelsStep ==
  ASSUME TwinInv, NEW p \in Passes, Models(p)
  PROVE  TwinInv'
<1>1. ReadsOver(pass[p]) /\ pass[p].shown \subseteq archived \cup pruned
  BY AtReading DEF Models
<1>2. PICK answer \in AnswersOf(ArcCandidates), keys \in SUBSET SomeKeys :
         pass' = [pass EXCEPT ![p] =
            [pc |-> "saving", kind |-> "model", shown |-> pass[p].shown, had |-> pass[p].had,
             arcs |-> KeptArcs(answer, pass[p].shown),
             keys |-> KeptContexts(keys, pass[p].shown), through |-> Max(pass[p].shown)]]
  BY DEF Models, Becomes
<1> DEFINE shown == pass[p].shown
           r == [pc |-> "saving", kind |-> "model", shown |-> shown, had |-> pass[p].had,
                 arcs |-> KeptArcs(answer, shown),
                 keys |-> KeptContexts(keys, shown), through |-> Max(shown)]
<1>3. Max(shown) \in shown
  BY <1>1, LastIsRead DEF ReadsOver
<1>4. \A c \in KeptArcs(answer, shown) :
         c.first \in shown /\ c.last \in shown /\ c.goal \subseteq shown
  BY KeptArcsCite
<1>5. KeptContexts(keys, shown) \subseteq shown
  BY DEF KeptContexts
<1>6. SavingModel(r) /\ r.shown = shown
  <2> HIDE DEF shown
  <2> QED
    BY <1>3, <1>4, <1>5 DEF SavingModel
<1>7. PassOK(r, archived \cup pruned)
  BY <1>1, <1>6 DEF PassOK
<1> QED
  BY <1>2, <1>7, OnePass DEF Models

LEMMA ExtractsStep ==
  ASSUME TwinInv, NEW p \in Passes, Extracts(p)
  PROVE  TwinInv'
<1>1. ReadsOver(pass[p]) /\ pass[p].shown \subseteq archived \cup pruned
  BY AtReading DEF Extracts
<1>2. PICK keys \in SUBSET SomeKeys :
         pass' = [pass EXCEPT ![p] = [pc |-> "saving", kind |-> "extract", shown |-> pass[p].shown,
                                      keys |-> KeptKeys(keys, pass[p].shown)]]
  BY DEF Extracts, Becomes
<1> DEFINE r == [pc |-> "saving", kind |-> "extract", shown |-> pass[p].shown,
                 keys |-> KeptKeys(keys, pass[p].shown)]
<1>3. PassOK(r, archived \cup pruned)
  BY <1>1 DEF PassOK, SavingExtractions, KeptKeys
<1> QED
  BY <1>2, <1>3, OnePass DEF Extracts

LEMMA ProposesStep ==
  ASSUME TwinInv, NEW p \in Passes, Proposes(p)
  PROVE  TwinInv'
<1>1. Advises(pass[p]) /\ pass[p].shown \subseteq archived \cup pruned
  BY AtAdvice DEF Proposes
<1> DEFINE kept(answer) == KeptMoves(answer, pass[p].shown, pass[p].known, pass[p].refused)
           r(answer) == IF kept(answer) = {} THEN [pc |-> "done", kind |-> "next"]
                        ELSE [pc |-> "saving", kind |-> "next", shown |-> pass[p].shown,
                              known |-> pass[p].known, moves |-> kept(answer)]
<1>2. PICK answer \in AnswersOf(MoveCandidates) : pass' = [pass EXCEPT ![p] = r(answer)]
  BY DEF Proposes, Becomes
<1>3. \A m \in kept(answer) :
         m.basis \subseteq pass[p].shown /\ FormIn(m) \in pass[p].known \cup {NoTitle}
  BY KeptMovesCite
<1>4. PassOK(r(answer), archived \cup pruned)
  <2> DEFINE moves == kept(answer)
  <2>1. \A m \in moves :
         m.basis \subseteq pass[p].shown /\ FormIn(m) \in pass[p].known \cup {NoTitle}
    BY <1>3
  <2> HIDE DEF moves
  <2>2. CASE moves = {}
    <3>1. r(answer) = [pc |-> "done", kind |-> "next"]
      BY <2>2 DEF moves
    <3> QED
      BY <3>1 DEF PassOK, Over
  <2>3. CASE moves # {}
    <3>1. r(answer) = [pc |-> "saving", kind |-> "next", shown |-> pass[p].shown,
                       known |-> pass[p].known, moves |-> moves]
      BY <2>3 DEF moves
    <3> HIDE DEF r
    <3>2. SavingMoves(r(answer)) /\ r(answer).shown = pass[p].shown
      BY <2>1, <3>1 DEF SavingMoves
    <3> QED
      BY <1>1, <3>2 DEF PassOK
  <2> QED
    BY <2>2, <2>3
<1> QED
  BY <1>2, <1>4, OnePass DEF Proposes

\* An arc that is continued, or opened, cites what is archived.
LEMMA ModelledCites ==
  ASSUME TwinInv, NEW kept,
         \A c \in kept : c.first \in archived /\ c.last \in archived /\ c.goal \subseteq archived,
         NEW f \in DOMAIN Modelled(kept)
  PROVE  Modelled(kept)[f] \in [first : archived, last : archived, goals : SUBSET archived]
<1> DEFINE ofForm == {c \in kept : FormOf[c.title] = f}
           chosen == CHOOSE c \in ofForm : TRUE
           forms == {FormOf[c.title] : c \in kept}
<1>1. Modelled(kept)[f] = IF ofForm = {} THEN arcs[f] ELSE Continued(chosen, f)
  BY DEF Modelled
<1>2. f \in DOMAIN arcs \cup forms
  BY DEF Modelled
<1>3. f \in DOMAIN arcs => arcs[f] \in [first : archived, last : archived, goals : SUBSET archived]
  BY DEF TwinInv, TwinCites
<1>4. CASE ofForm = {}
  <2>1. f \in DOMAIN arcs
    BY <1>2, <1>4
  <2> QED
    BY <1>1, <1>3, <1>4, <2>1
<1>5. CASE ofForm # {}
  <2>1. chosen \in kept
    BY <1>5
  <2> HIDE DEF chosen
  <2>2. Continued(chosen, f) \in [first : archived, last : archived, goals : SUBSET archived]
    BY <1>3, <2>1 DEF Continued
  <2> QED
    BY <1>1, <1>5, <2>2
<1> QED
  BY <1>4, <1>5

LEMMA SavesModelStep ==
  ASSUME TwinInv, NEW p \in Passes, SavesModel(p)
  PROVE  TwinInv'
<1>1. ~ Unstarted(pass[p]) /\ ~ Over(pass[p])
  BY AtSaving DEF SavesModel
<1> DEFINE kept == pass[p].arcs
           spans == {{c.first, c.last} \cup c.goal : c \in kept}
<1>2. UNION spans \subseteq archived /\ pass[p].keys \subseteq archived
  <2>1. CitedBy(p) = (UNION spans) \cup pass[p].keys \cup {pass[p].through}
    BY DEF SavesModel, CitedBy
  <2>2. CitedBy(p) \subseteq archived
    BY DEF SavesModel
  <2> HIDE DEF spans
  <2> QED
    BY <2>1, <2>2
<1>3. ASSUME NEW c \in kept
      PROVE  c.first \in archived /\ c.last \in archived /\ c.goal \subseteq archived
  <2>1. {c.first, c.last} \cup c.goal \in spans
    OBVIOUS
  <2> HIDE DEF spans
  <2>2. {c.first, c.last} \cup c.goal \subseteq archived
    BY <1>2, <2>1
  <2> QED
    BY <2>2
<1>4. UNCHANGED <<archived, pruned, owed>> /\ arcs' = Modelled(kept)
      /\ contexts' = contexts \cup pass[p].keys
  BY DEF SavesModel
<1>5. ASSUME NEW f \in DOMAIN arcs'
      PROVE  arcs'[f] \in [first : archived', last : archived', goals : SUBSET archived']
  <2> HIDE DEF kept
  <2> QED
    BY <1>3, <1>4, <1>5, ModelledCites
<1>6. TwinCites'
  BY <1>2, <1>4, <1>5 DEF TwinInv, TwinCites
<1> QED
  BY <1>1, <1>4, <1>6, EndsWell DEF SavesModel

LEMMA SavesExtractionsStep ==
  ASSUME TwinInv, NEW p \in Passes, SavesExtractions(p)
  PROVE  TwinInv'
<1>1. ~ Unstarted(pass[p]) /\ ~ Over(pass[p])
  BY AtSaving DEF SavesExtractions
<1>2. pass[p].keys \subseteq archived
  BY DEF SavesExtractions, CitedBy
<1>3. TwinCites' /\ UNCHANGED <<archived, pruned>>
  BY <1>2 DEF SavesExtractions, TwinInv, TwinCites
<1> QED
  BY <1>1, <1>3, EndsWell DEF SavesExtractions

LEMMA SavesProposalsStep ==
  ASSUME TwinInv, NEW p \in Passes, SavesProposals(p)
  PROVE  TwinInv'
<1>1. ~ Unstarted(pass[p]) /\ ~ Over(pass[p])
  BY AtSaving DEF SavesProposals
<1>2. TwinCites' /\ UNCHANGED <<archived, pruned>>
  BY DEF SavesProposals, TwinInv, TwinCites
<1> QED
  BY <1>1, <1>2, EndsWell DEF SavesProposals

LEMMA RefusalStep ==
  ASSUME TwinInv, NEW p \in Passes, StoreRefuses(p)
  PROVE  TwinInv'
<1>1. ~ Unstarted(pass[p]) /\ ~ Over(pass[p])
  BY AtSaving DEF StoreRefuses
<1>2. TwinCites' /\ UNCHANGED <<archived, pruned>>
  BY DEF StoreRefuses, twinData, TwinInv, TwinCites
<1> QED
  BY <1>1, <1>2, EndsWell DEF StoreRefuses

\* The user's answers leave what the passes hold alone.
LEMMA UserStep ==
  ASSUME TwinInv, (\E m, status : UserResolves(m, status)) \/ (\E k : UserSettles(k))
  PROVE  TwinInv'
<1>1. TwinCites' /\ UNCHANGED <<archived, pruned, pass>>
  BY DEF UserResolves, UserSettles, TwinInv, TwinCites
<1> QED
  BY <1>1 DEF TwinInv

LEMMA TwinSteps == TwinInv /\ [TwinNext]_twinVars => TwinInv'
<1> SUFFICES ASSUME TwinInv, [TwinNext]_twinVars PROVE TwinInv'
  OBVIOUS
<1>1. CASE UNCHANGED twinVars
  BY <1>1 DEF twinVars, twinData, TwinInv, TwinCites
<1>2. ASSUME NEW k \in Messages, MessageArrives(k) PROVE TwinInv'
  BY <1>2, ArrivalStep
<1>3. CASE MessageIsPruned
  BY <1>3, PruneStep
<1>4. ASSUME NEW p \in Passes, NEW kind \in {"model", "extract"}, ReadsMessages(p, kind)
      PROVE  TwinInv'
  BY <1>4, ReadsStep
<1>5. ASSUME NEW p \in Passes,
             \/ ReadsTwin(p) \/ ReadsTail(p) \/ ModelFails(p)
             \/ Models(p) \/ Extracts(p) \/ Proposes(p)
      PROVE  TwinInv'
  BY <1>5, TwinIsRead, TailStep, FailureStep, ModelsStep, ExtractsStep, ProposesStep
<1>6. ASSUME NEW p \in Passes,
             SavesModel(p) \/ SavesExtractions(p) \/ SavesProposals(p) \/ StoreRefuses(p)
      PROVE  TwinInv'
  BY <1>6, SavesModelStep, SavesExtractionsStep, SavesProposalsStep, RefusalStep
<1>7. ASSUME (\E m, status : UserResolves(m, status)) \/ (\E k : UserSettles(k)) PROVE TwinInv'
  BY <1>7, UserStep
<1> QED
  BY <1>1, <1>2, <1>3, <1>4, <1>5, <1>6, <1>7 DEF TwinNext

-----------------------------------------------------------------------------

\* Whatever the passes save, the twin's threads, contexts and obligations rest
\* on archived messages, and a pass is never about to save a citation it was
\* not shown (whatsapp-bridge/src/store.js, agent/lib/twin.ts).
THEOREM TwinInvariant == TwinSpec => []TwinInv
<1>1. TwinInit => TwinInv
  BY TwinStarts
<1>2. TwinInv /\ [TwinNext]_twinVars => TwinInv'
  BY TwinSteps
<1> QED
  BY <1>1, <1>2, PTL DEF TwinSpec

\* What a pass that saves cites, it was shown.
LEMMA CitesTheShown ==
  ASSUME TwinInv, NEW p \in Passes, pass[p].pc = "saving"
  PROVE  CitedBy(p) \subseteq pass[p].shown
<1> DEFINE r == pass[p]
<1>1. CASE SavingModel(r)
  <2> DEFINE spans == {{c.first, c.last} \cup c.goal : c \in r.arcs}
  <2>1. \A span \in spans : span \subseteq r.shown
    BY <1>1 DEF SavingModel
  <2>2. CitedBy(p) = (UNION spans) \cup r.keys \cup {r.through}
    BY <1>1 DEF SavingModel, CitedBy
  <2>3. r.keys \subseteq r.shown /\ r.through \in r.shown
    BY <1>1 DEF SavingModel
  <2> HIDE DEF spans, r
  <2>4. UNION spans \subseteq r.shown
    BY <2>1
  <2> QED
    BY <2>2, <2>3, <2>4 DEF r
<1>2. CASE SavingExtractions(r)
  BY <1>2 DEF SavingExtractions, CitedBy
<1>3. CASE SavingMoves(r)
  <2>1. CitedBy(p) = UNION {m.basis : m \in r.moves}
    BY <1>3 DEF SavingMoves, CitedBy
  <2> QED
    BY <1>3, <2>1 DEF SavingMoves
<1> QED
  BY <1>1, <1>2, <1>3, AtSaving

LEMMA RefusedForAReason ==
  ASSUME TwinInv, NEW p \in Passes, StoreRefuses(p)
  PROVE  \/ pass[p].shown \cap pruned # {}
         \/ pass[p].kind = "next" /\ ~ pass[p].known \subseteq DOMAIN arcs
<1>1. pass[p].pc = "saving"
  BY DEF StoreRefuses
<1>2. CASE ~ CitedBy(p) \subseteq archived
  <2>1. PICK k \in CitedBy(p) : k \notin archived
    BY <1>2
  <2>2. k \in pass[p].shown /\ k \in pruned
    BY <1>1, <2>1, CitesTheShown, AtSaving
  <2> QED
    BY <2>2
<1>3. CASE pass[p].kind = "next" /\ ~ ThreadsKnown(p)
  <2>1. PICK m \in pass[p].moves : FormIn(m) \notin DOMAIN arcs \cup {NoTitle}
    BY <1>3 DEF ThreadsKnown, MovesOf
  <2>2. SavingMoves(pass[p])
    BY <1>1, <1>3, AtSaving DEF SavingModel, SavingExtractions
  <2>3. FormIn(m) \in pass[p].known
    BY <2>1, <2>2 DEF SavingMoves
  <2> QED
    BY <1>3, <2>1, <2>3
<1> QED
  BY <1>2, <1>3 DEF StoreRefuses

\* Only the store's refusal ends a pass as refused.
LEMMA OnlyTheStoreRefuses ==
  ASSUME TwinInv, TwinNext, NEW p \in Passes, pass[p].pc = "saving", pass'[p].pc = "refused"
  PROVE  StoreRefuses(p)
<1>1. pass' # pass
  OBVIOUS
<1>2. ASSUME NEW q \in Passes, NEW r, Becomes(q, r), pass[q].pc # "saving" PROVE FALSE
  BY <1>2 DEF Becomes, TwinInv
<1>3. ASSUME NEW q \in Passes, NEW kind, ReadsMessages(q, kind) PROVE FALSE
  BY <1>2, <1>3 DEF ReadsMessages
<1>4. ASSUME NEW q \in Passes,
             ReadsTwin(q) \/ ReadsTail(q) \/ Models(q) \/ Extracts(q) \/ Proposes(q)
      PROVE  FALSE
  BY <1>2, <1>4 DEF ReadsTwin, ReadsTail, Models, Extracts, Proposes, Thinks
<1>5. ASSUME NEW q \in Passes, NEW how \in {"done", "saved", "refused"}, EndsPass(q, how),
             pass[q].pc \in {"thinking", "saving"}
      PROVE  q = p /\ how = "refused"
  BY <1>5, Ending DEF Unstarted, Over
<1>6. ASSUME NEW q \in Passes,
             ModelFails(q) \/ SavesModel(q) \/ SavesExtractions(q) \/ SavesProposals(q)
      PROVE  FALSE
  BY <1>5, <1>6 DEF ModelFails, SavesModel, SavesExtractions, SavesProposals
<1>7. ASSUME NEW q \in Passes, StoreRefuses(q) PROVE q = p
  BY <1>5, <1>7 DEF StoreRefuses
<1> QED
  BY <1>1, <1>3, <1>4, <1>6, <1>7
     DEF TwinNext, MessageArrives, MessageIsPruned, UserResolves, UserSettles

\* No pass is lost to an invented citation: what the store refuses, it refuses
\* for a message or a thread that the pass was shown and that a prune took.
THEOREM NoPassIsLost == TwinSpec => PassesAreNotLost
<1>1. ASSUME TwinInv, [TwinNext]_twinVars
      PROVE  [\A p \in Passes : pass[p].pc = "saving" /\ pass'[p].pc = "refused" =>
                 \/ pass[p].shown \cap pruned # {}
                 \/ pass[p].kind = "next" /\ ~ pass[p].known \subseteq DOMAIN arcs]_twinVars
  BY <1>1, OnlyTheStoreRefuses, RefusedForAReason
<1> QED
  BY <1>1, TwinInvariant, PTL DEF TwinSpec, PassesAreNotLost

-----------------------------------------------------------------------------
(* The rules and the engine.                                               *)

\* Whatever the level, the engine answers on a free square.
LEMMA RepliesAreLegal ==
  ASSUME NEW board, NEW mark, NEW level
  PROVE  chooseMove(board, mark, level) \subseteq legalMoves(board)
<1>1. /\ winningSquares(board, mark) \subseteq legalMoves(board)
      /\ winningSquares(board, other(mark)) \subseteq legalMoves(board)
      /\ BestMoves(board, mark) \subseteq legalMoves(board)
  BY DEF winningSquares, BestMoves
<1> QED
  BY <1>1 DEF chooseMove

LEMMA MarkIsBoard ==
  ASSUME NEW board \in Boards, NEW i, NEW mark \in Marks
  PROVE  Mark(board, i, mark) \in Boards
BY DEF Mark, Boards

LEMMA AnsweredIsGame ==
  ASSUME NEW game \in Games, NEW board \in Boards
  PROVE  Answered(game, board) \subseteq Games
<1>1. other(game.user) \in Marks
  BY DEF Games, other, Marks
<1>2. \A b \in Boards : [game EXCEPT !.board = b] \in Games
  BY DEF Games
<1> QED
  BY <1>1, <1>2, MarkIsBoard DEF Answered

LEMMA TurnIsGame ==
  ASSUME NEW game \in Games, NEW square
  PROVE  playTurn(game, square) \subseteq Games
<1>1. game.board \in Boards /\ game.user \in Marks
  BY DEF Games
<1> QED
  BY <1>1, MarkIsBoard, AnsweredIsGame DEF playTurn

LEMMA StartIsGame ==
  ASSUME NEW user \in Marks, NEW level \in LEVELS
  PROVE  startGame(user, level) \subseteq Games
<1> DEFINE game == [board |-> emptyBoard, user |-> user, level |-> level]
<1>1. emptyBoard \in Boards
  BY DEF emptyBoard, Boards
<1>2. game \in Games
  BY <1>1 DEF Games
<1> QED
  BY <1>1, <1>2, AnsweredIsGame DEF startGame

-----------------------------------------------------------------------------
(* The rules that GameRules takes with it are the rules.                   *)

LEMMA SameLeft == Promised!BoardsLeft = BoardsLeft
BY DEF Promised!BoardsLeft, BoardsLeft, Promised!Tabulated, Tabulated, Promised!Boards, Boards,
   Promised!Squares, Squares, Promised!Marks, Marks, Promised!Empty, Empty,
   Promised!legalMoves, legalMoves, Promised!CountOf, CountOf,
   Promised!Cardinality, Cardinality, Promised!IsFiniteSet, IsFiniteSet

LEMMA SameScores == Promised!Scores = Scores
<1>1. \A mark, root, left, later :
         Promised!ScoresOf(mark, root, left, later) = ScoresOf(mark, root, left, later)
  BY SameLeft
     DEF Promised!ScoresOf, ScoresOf, Promised!Tabulated, Tabulated, Promised!Squares, Squares,
         Promised!Marks, Marks, Promised!Empty, Empty, Promised!legalMoves, legalMoves,
         Promised!CountOf, CountOf, Promised!Won, Won, Promised!LINES, LINES, Promised!other, other,
         Promised!Mark, Mark, Promised!turnOf, turnOf, Promised!Cardinality, Cardinality,
         Promised!IsFiniteSet, IsFiniteSet, Promised!Min, Min, Promised!Max, Max
<1>2. \A mark, root : Promised!minimax(mark, root) = minimax(mark, root)
  BY <1>1 DEF Promised!minimax, minimax
<1> QED
  BY <1>2 DEF Promised!Scores, Scores, Promised!Tabulated, Tabulated

LEMMA SameBoards ==
  /\ Promised!Squares = Squares /\ Promised!Marks = Marks /\ Promised!emptyBoard = emptyBoard
  /\ \A mark : Promised!other(mark) = other(mark)
  /\ \A board : Promised!legalMoves(board) = legalMoves(board)
  /\ \A board, index, mark : Promised!Mark(board, index, mark) = Mark(board, index, mark)
BY DEF Promised!Squares, Squares, Promised!Marks, Marks, Promised!emptyBoard, emptyBoard,
   Promised!Empty, Empty, Promised!other, other, Promised!legalMoves, legalMoves,
   Promised!Mark, Mark

LEMMA SameTurns ==
  /\ \A board, mark : Promised!CountOf(board, mark) = CountOf(board, mark)
  /\ \A board : Promised!turnOf(board) = turnOf(board)
  /\ \A board : Promised!isOver(board) = isOver(board)
  /\ \A board, index, mark : Promised!applies(board, index, mark) = applies(board, index, mark)
BY DEF Promised!CountOf, CountOf, Promised!turnOf, turnOf, Promised!isOver, isOver,
   Promised!applies, applies, Promised!legalMoves, legalMoves, Promised!Won, Won,
   Promised!LINES, LINES, Promised!Marks, Marks, Promised!Squares, Squares,
   Promised!Empty, Empty, Promised!Cardinality, Cardinality

LEMMA SameMoves ==
  \A board, mark, level : Promised!chooseMove(board, mark, level) = chooseMove(board, mark, level)
<1>1. \A board, mark : Promised!BestMoves(board, mark) = BestMoves(board, mark)
  BY SameScores
     DEF Promised!BestMoves, BestMoves, Promised!legalMoves, legalMoves, Promised!Squares, Squares,
         Promised!Empty, Empty, Promised!CountOf, CountOf, Promised!Mark, Mark,
         Promised!Cardinality, Cardinality, Promised!Min, Min, Promised!Max, Max
<1>2. \A board, mark : Promised!winningSquares(board, mark) = winningSquares(board, mark)
  BY DEF Promised!winningSquares, winningSquares, Promised!legalMoves, legalMoves, Promised!Won, Won,
         Promised!LINES, LINES, Promised!Mark, Mark, Promised!Squares, Squares,
         Promised!Empty, Empty
<1> QED
  BY <1>1, <1>2, SameBoards, SameTurns DEF Promised!chooseMove, chooseMove

LEMMA SameRules ==
  /\ \A game, board : Promised!Answered(game, board) = Answered(game, board)
  /\ \A user, level : Promised!startGame(user, level) = startGame(user, level)
  /\ \A game, square : Promised!playTurn(game, square) = playTurn(game, square)
<1>1. \A game, board : Promised!Answered(game, board) = Answered(game, board)
  BY SameMoves, SameBoards DEF Promised!Answered, Answered
<1>2. \A user, level : Promised!startGame(user, level) = startGame(user, level)
  BY <1>1, SameBoards DEF Promised!startGame, startGame
<1>3. \A game, square : Promised!playTurn(game, square) = playTurn(game, square)
  BY <1>1, SameBoards, SameTurns DEF Promised!playTurn, playTurn
<1> QED
  BY <1>1, <1>2, <1>3

-----------------------------------------------------------------------------
(* The rules of the game, on their own.                                    *)

LEMMA TwentyIs == 20 \in Nat
OBVIOUS

LEMMA TabulatedIs == ASSUME NEW f PROVE Tabulated(f) = f
BY DEF Tabulated

LEMMA SquaresAre == IsFiniteSet(Squares) /\ Cardinality(Squares) = 9
<1>1. 0 \in Int /\ 8 \in Int
  OBVIOUS
<1>2. IsFiniteSet(0 .. 8) /\ Cardinality(0 .. 8) = IF 0 > 8 THEN 0 ELSE 8 - 0 + 1
  BY <1>1, FS_Interval
<1> QED
  BY <1>2 DEF Squares

\* The squares of a board are X's, O's and free.
LEMMA CountsAdd ==
  ASSUME NEW board \in Boards
  PROVE  /\ CountOf(board, "x") \in Nat /\ CountOf(board, "o") \in Nat
         /\ Cardinality(legalMoves(board)) \in Nat /\ IsFiniteSet(legalMoves(board))
         /\ CountOf(board, "x") + CountOf(board, "o") + Cardinality(legalMoves(board)) = 9
<1> DEFINE X == {i \in Squares : board[i] = "x"}  O == {i \in Squares : board[i] = "o"}
           F == legalMoves(board)
<1>1. IsFiniteSet(Squares) /\ Cardinality(Squares) = 9
  BY SquaresAre
<1>2. X \subseteq Squares /\ O \subseteq Squares /\ F \subseteq Squares
  BY DEF legalMoves
<1>3. X \cup O \cup F = Squares /\ X \cap O = {} /\ (X \cup O) \cap F = {}
  BY DEF Boards, Marks, legalMoves, Empty
<1>4. CountOf(board, "x") = Cardinality(X) /\ CountOf(board, "o") = Cardinality(O)
  BY DEF CountOf
<1> HIDE DEF X, O, F
<1>5. IsFiniteSet(X) /\ IsFiniteSet(O) /\ IsFiniteSet(F)
  BY <1>1, <1>2, FS_Subset
<1>6. Cardinality(X) \in Nat /\ Cardinality(O) \in Nat /\ Cardinality(F) \in Nat
  BY <1>5, FS_CardinalityType
<1>7. Cardinality({}) = 0
  BY FS_EmptySet
<1>8. IsFiniteSet(X \cup O) /\ Cardinality(X \cup O) = Cardinality(X) + Cardinality(O)
  <2>1. IsFiniteSet(X \cup O)
        /\ Cardinality(X \cup O) = Cardinality(X) + Cardinality(O) - Cardinality(X \cap O)
    BY <1>5, FS_Union
  <2>2. Cardinality(X \cap O) = 0
    BY <1>3, <1>7
  <2> DEFINE cx == Cardinality(X)  co == Cardinality(O)  both == Cardinality(X \cap O)
  <2>3. cx + co - both = cx + co
    <3>1. cx \in Nat /\ co \in Nat /\ both = 0
      BY <1>6, <2>2
    <3> HIDE DEF cx, co, both
    <3> QED
      BY <3>1
  <2> QED
    BY <2>1, <2>3
<1>9. Cardinality(X) + Cardinality(O) + Cardinality(F) = 9
  <2> DEFINE XO == X \cup O
  <2>1. Cardinality(XO \cup F) = Cardinality(XO) + Cardinality(F) - Cardinality(XO \cap F)
    <3> HIDE DEF XO
    <3>1. IsFiniteSet(XO)
      BY <1>8 DEF XO
    <3> QED
      BY <1>5, <3>1, FS_Union
  <2>2. Cardinality(XO \cup F) = 9 /\ Cardinality(XO \cap F) = 0
    BY <1>1, <1>3, <1>7
  <2>3. Cardinality(XO) = Cardinality(X) + Cardinality(O)
    BY <1>8
  <2> HIDE DEF XO
  <2> QED
    BY <1>6, <2>1, <2>2, <2>3
<1> QED
  BY <1>4, <1>5, <1>6, <1>9 DEF F

LEMMA MarkCounts ==
  ASSUME NEW board \in Boards, NEW i \in legalMoves(board), NEW mark \in Marks
  PROVE  LET new == Mark(board, i, mark) IN
         /\ new \in Boards /\ i \in Squares /\ other(mark) \in Marks
         /\ CountOf(new, mark) = CountOf(board, mark) + 1
         /\ CountOf(new, other(mark)) = CountOf(board, other(mark))
         /\ Cardinality(legalMoves(new)) = Cardinality(legalMoves(board)) - 1
         /\ \A j \in Squares : new[j] = IF j = i THEN mark ELSE board[j]
<1> DEFINE new == Mark(board, i, mark)
           Of(b, m) == {j \in Squares : b[j] = m}
<1>1. i \in Squares /\ board[i] = Empty
  BY DEF legalMoves
<1>2. new \in Boards /\ \A j \in Squares : new[j] = IF j = i THEN mark ELSE board[j]
  BY <1>1 DEF Boards, Mark
<1>3. other(mark) \in Marks /\ other(mark) # mark /\ mark # Empty /\ other(mark) # Empty
  BY DEF other, Marks, Empty
<1> HIDE DEF new
<1>4. /\ Of(new, mark) = Of(board, mark) \cup {i} /\ i \notin Of(board, mark)
      /\ Of(new, other(mark)) = Of(board, other(mark))
      /\ legalMoves(new) = legalMoves(board) \ {i}
  BY <1>1, <1>2, <1>3 DEF legalMoves
<1>5. IsFiniteSet(Squares) /\ IsFiniteSet(Of(board, mark)) /\ IsFiniteSet(legalMoves(board))
  <2>1. IsFiniteSet(Squares)
    BY SquaresAre
  <2>2. Of(board, mark) \subseteq Squares /\ legalMoves(board) \subseteq Squares
    BY DEF legalMoves
  <2> HIDE DEF Of
  <2> QED
    BY <2>1, <2>2, FS_Subset
<1>6. \A b, m : CountOf(b, m) = Cardinality(Of(b, m))
  BY DEF CountOf
<1> HIDE DEF Of
<1>7. CountOf(new, mark) = CountOf(board, mark) + 1
  BY <1>4, <1>5, <1>6, FS_AddElement
<1>8. CountOf(new, other(mark)) = CountOf(board, other(mark))
  BY <1>4, <1>6
<1>9. Cardinality(legalMoves(new)) = Cardinality(legalMoves(board)) - 1
  BY <1>4, <1>5, FS_RemoveElement
<1> QED
  BY <1>1, <1>2, <1>3, <1>7, <1>8, <1>9 DEF new

\* The boards a game goes through: X has as many marks as O, or one more.
LEMMA BoardsLeftIs ==
  \A left \in 0 .. 9 : BoardsLeft[left] =
      {b \in Boards : Cardinality(legalMoves(b)) = left /\ CountOf(b, "x") - CountOf(b, "o") \in {0, 1}}
BY TabulatedIs DEF BoardsLeft

LEMMA MoveIsLeft ==
  ASSUME NEW left \in 0 .. 9, NEW board \in BoardsLeft[left], NEW i \in legalMoves(board)
  PROVE  left \in 1 .. 9 /\ turnOf(board) \in Marks /\ Mark(board, i, turnOf(board)) \in BoardsLeft[left - 1]
<1> DEFINE mark == turnOf(board)  new == Mark(board, i, mark)
           x(b) == CountOf(b, "x")  o(b) == CountOf(b, "o")  free(b) == Cardinality(legalMoves(b))
<1>1. board \in Boards /\ free(board) = left /\ x(board) - o(board) \in {0, 1}
  BY BoardsLeftIs
<1>2. mark \in Marks /\ mark = IF x(board) = o(board) THEN "x" ELSE "o"
  BY DEF turnOf, Marks
<1>3. x(board) \in Nat /\ o(board) \in Nat /\ IsFiniteSet(legalMoves(board))
  BY <1>1, CountsAdd
<1> HIDE DEF mark
<1>4. /\ new \in Boards /\ CountOf(new, mark) = CountOf(board, mark) + 1
      /\ CountOf(new, other(mark)) = CountOf(board, other(mark)) /\ free(new) = free(board) - 1
  BY <1>1, <1>2, MarkCounts
<1>5. left # 0
  <2> SUFFICES ASSUME left = 0 PROVE FALSE
    OBVIOUS
  <2>1. legalMoves(board) = {}
    BY <1>1, <1>3, FS_EmptySet
  <2> QED
    BY <2>1
<1> HIDE DEF new
<1>6. x(new) - o(new) \in {0, 1}
  <2>1. CASE mark = "x"
    <3>1. other(mark) = "o" /\ x(board) = o(board)
      BY <1>2, <2>1 DEF other
    <3>2. x(new) = x(board) + 1 /\ o(new) = o(board)
      BY <1>4, <2>1, <3>1
    <3> QED
      BY <1>3, <3>1, <3>2
  <2>2. CASE mark = "o"
    <3>1. other(mark) = "x" /\ x(board) # o(board)
      BY <1>2, <2>2 DEF other
    <3>2. o(new) = o(board) + 1 /\ x(new) = x(board)
      BY <1>4, <2>2, <3>1
    <3> HIDE DEF x, o
    <3> QED
      BY <1>1, <1>3, <3>1, <3>2
  <2> QED
    BY <1>2, <2>1, <2>2
<1>7. left - 1 \in 0 .. 9 /\ left \in 1 .. 9
  BY <1>5
<1>8. new \in BoardsLeft[left - 1]
  BY <1>1, <1>4, <1>6, <1>7, BoardsLeftIs
<1> QED
  BY <1>2, <1>7, <1>8 DEF new, mark

\* A board with a square left has a move.
LEMMA SomeMove ==
  ASSUME NEW left \in 1 .. 9, NEW board \in BoardsLeft[left]
  PROVE  legalMoves(board) # {}
<1>1. Cardinality(legalMoves(board)) = left
  BY BoardsLeftIs
<1> QED
  BY <1>1, FS_EmptySet

-----------------------------------------------------------------------------
(* The engine's scores.                                                    *)

Table(left) == [BoardsLeft[left] -> Within(20)]

Later(later, board) == {later[Mark(board, i, turnOf(board))] : i \in legalMoves(board)}

Score(mark, root, left, later, board) ==
    LET depth == 9 - left - root IN
    IF Won(board, mark) THEN 10 - depth
    ELSE IF Won(board, other(mark)) THEN depth - 10
    ELSE IF left = 0 THEN 0
    ELSE IF turnOf(board) = mark THEN Max(Later(later, board)) ELSE Min(Later(later, board))

LEMMA LaterIs ==
  ASSUME NEW left \in 1 .. 9, NEW later \in Table(left - 1), NEW board \in BoardsLeft[left]
  PROVE  /\ Later(later, board) \subseteq Within(20) /\ Later(later, board) # {}
         /\ Max(Later(later, board)) \in Later(later, board)
         /\ \A k \in Later(later, board) : k <= Max(Later(later, board))
         /\ Min(Later(later, board)) \in Later(later, board)
         /\ \A k \in Later(later, board) : Min(Later(later, board)) <= k
<1>1. \A i \in legalMoves(board) : Mark(board, i, turnOf(board)) \in BoardsLeft[left - 1]
  <2>1. left \in 0 .. 9
    OBVIOUS
  <2> QED
    BY <2>1, MoveIsLeft
<1>2. Later(later, board) \subseteq Within(20) /\ Later(later, board) # {}
  BY <1>1, SomeMove DEF Later, Table
<1> QED
  BY <1>2, TwentyIs, ExtremesAre

LEMMA ScoreIs ==
  ASSUME NEW mark \in Marks, NEW root \in 0 .. 8, NEW left \in 0 .. 8, NEW later,
         left = 0 \/ later \in Table(left - 1)
  PROVE  /\ ScoresOf(mark, root, left, later) \in Table(left)
         /\ \A b \in BoardsLeft[left] :
               ScoresOf(mark, root, left, later)[b] = Score(mark, root, left, later, b)
<1> DEFINE row == [b \in BoardsLeft[left] |-> Score(mark, root, left, later, b)]
<1>1. ScoresOf(mark, root, left, later) = row
  BY TabulatedIs DEF ScoresOf, Score, Later
<1>2. ASSUME NEW b \in BoardsLeft[left]
      PROVE  Score(mark, root, left, later, b) \in Within(20)
  <2> DEFINE depth == 9 - left - root
  <2>1. 10 - depth \in Within(20) /\ depth - 10 \in Within(20) /\ 0 \in Within(20)
    BY DEF Within
  <2>2. left # 0 => Max(Later(later, b)) \in Within(20) /\ Min(Later(later, b)) \in Within(20)
    <3>1. left # 0 => left \in 1 .. 9
      OBVIOUS
    <3> QED
      BY <3>1, LaterIs
  <2> HIDE DEF depth
  <2>3. Score(mark, root, left, later, b) =
           IF Won(b, mark) THEN 10 - depth
           ELSE IF Won(b, other(mark)) THEN depth - 10
           ELSE IF left = 0 THEN 0
           ELSE IF turnOf(b) = mark THEN Max(Later(later, b)) ELSE Min(Later(later, b))
    BY DEF Score, depth
  <2> QED
    BY <2>1, <2>2, <2>3
<1>3. row \in Table(left)
  BY <1>2 DEF Table
<1> QED
  BY <1>1, <1>3

LEMMA MinimaxIs ==
  ASSUME NEW mark \in Marks, NEW root \in 0 .. 8
  PROVE  LET scores == minimax(mark, root) IN
         \A left \in 0 .. 8 :
            /\ scores[left] \in Table(left)
            /\ \A b \in BoardsLeft[left] :
                  scores[left][b] = Score(mark, root, left, IF left = 0 THEN <<>> ELSE scores[left - 1], b)
<1> DEFINE n == 8  none == <<>>  u == minimax(mark, root)
           Row(k, t) == ScoresOf(mark, root, k, t)
           S == UNION {Table(k) : k \in 0 .. n}
           base == Row(0, none)
           Is(f) == f = [k \in 0 .. n |-> Row(k, IF k = 0 THEN none ELSE f[k - 1])]
           Step(k, t) == IF t \in Table(k - 1) THEN Row(k, t) ELSE t
           step == [p \in (1 .. n) \X S |-> Step(p[1], p[2])]
<1>1. n \in Nat /\ \A k \in 0 .. n : k \in 0 .. 8
  OBVIOUS
<1>2. base \in Table(0)
  BY ScoreIs
<1>3. ASSUME NEW k \in 1 .. n, NEW t \in Table(k - 1)
      PROVE  Row(k, t) \in Table(k)
  <2>1. k \in 0 .. 8
    OBVIOUS
  <2> QED
    BY <2>1, ScoreIs
<1>4. u = CHOOSE g : Is(g)
  BY DEF minimax
<1> HIDE DEF n, u, Row, base, none
<1>5. base \in S
  BY <1>1, <1>2
<1>6. \A k \in 1 .. n, t \in S : Step(k, t) \in S
  BY <1>1, <1>3
<1> HIDE DEF S
<1>7. step \in [(1 .. n) \X S -> S]
  <2> HIDE DEF Step
  <2> QED
    BY <1>6
<1>8. \A k \in 1 .. n, t \in S : step[<<k, t>>] = Step(k, t)
  OBVIOUS
<1> HIDE DEF step
<1>9. PICK f : Iteration(f, n, S, base, step)
  BY <1>1, <1>5, <1>7, Iterates
<1>10. \A k \in 1 .. n : k - 1 \in 0 .. n /\ k \in 0 .. n /\ k # 0
  BY <1>1
<1>11. f \in [0 .. n -> S] /\ f[0] = base /\ \A k \in 1 .. n : f[k] = Step(k, f[k - 1])
  BY <1>8, <1>9, <1>10 DEF Iteration
<1> DEFINE F == {k \in 0 .. n : f[k] \in Table(k)}
<1>12. 0 \in F
  BY <1>1, <1>2, <1>11
<1>13. ASSUME NEW k \in 0 .. n - 1, k \in F
       PROVE  k + 1 \in F
  <2>1. k + 1 \in 1 .. n /\ k + 1 - 1 = k /\ k + 1 \in 0 .. n
    BY <1>1
  <2>2. \A m \in 1 .. n : m - 1 = k => f[m] \in Table(m)
    BY <1>3, <1>11, <1>13
  <2> QED
    BY <2>1, <2>2
<1>14. \A k \in 0 .. n : k \in F
  <2> HIDE DEF F
  <2> QED
    BY <1>1, <1>12, <1>13, Rises
<1>15. \A k \in 1 .. n : f[k] = Row(k, f[k - 1])
  BY <1>10, <1>11, <1>14
<1>16. Is(f)
  <2>1. f = [k \in 0 .. n |-> f[k]]
    BY <1>11
  <2>2. \A k \in 0 .. n : f[k] = Row(k, IF k = 0 THEN none ELSE f[k - 1])
    BY <1>1, <1>11, <1>15 DEF base
  <2> QED
    BY <2>1, <2>2
<1>17. Is(u)
  <2> HIDE DEF Is
  <2> QED
    BY <1>4, <1>16
<1>18. \A k \in 0 .. n : u[k] = Row(k, IF k = 0 THEN none ELSE u[k - 1])
  BY <1>17
<1> HIDE DEF Is
<1> DEFINE G == {k \in 0 .. n : u[k] \in Table(k)}
<1>19. 0 \in G
  BY <1>1, <1>2, <1>18 DEF base
<1>20. ASSUME NEW k \in 0 .. n - 1, k \in G
       PROVE  k + 1 \in G
  <2>1. k + 1 \in 1 .. n /\ k + 1 - 1 = k /\ k + 1 \in 0 .. n
    BY <1>1
  <2>2. \A m \in 1 .. n : m - 1 = k => u[m] \in Table(m)
    BY <1>3, <1>10, <1>18, <1>20
  <2> QED
    BY <2>1, <2>2
<1>21. \A k \in 0 .. n : k \in G
  <2> HIDE DEF G
  <2> QED
    BY <1>1, <1>19, <1>20, Rises
<1>22. \A k \in 0 .. n : u[k] \in Table(k)
  BY <1>21
<1>23. ASSUME NEW k \in 0 .. n, NEW b \in BoardsLeft[k]
       PROVE  u[k][b] = Score(mark, root, k, IF k = 0 THEN none ELSE u[k - 1], b)
  <2> DEFINE before == IF k = 0 THEN none ELSE u[k - 1]
  <2>1. k = 0 \/ before \in Table(k - 1)
    BY <1>1, <1>22
  <2>2. u[k] = ScoresOf(mark, root, k, before)
    BY <1>18 DEF Row
  <2> HIDE DEF before
  <2>3. ScoresOf(mark, root, k, before)[b] = Score(mark, root, k, before, b)
    BY <1>1, <2>1, ScoreIs
  <2> QED
    BY <2>2, <2>3 DEF before
<1> QED
  BY <1>22, <1>23 DEF u, n, none

-----------------------------------------------------------------------------
(* What a score's sign says.  It is the same whatever board the search     *)
(* began at, as long as that was an earlier one.                           *)

\* Not lost, when the boards one move later are lost or not as later says.
Sound(mark, left, later, board) ==
    \/ Won(board, mark)
    \/ /\ ~Won(board, other(mark))
       /\ \/ left = 0
          \/ /\ turnOf(board) = mark
             /\ \E i \in legalMoves(board) : later[Mark(board, i, turnOf(board))] >= 0
          \/ /\ turnOf(board) # mark
             /\ \A i \in legalMoves(board) : later[Mark(board, i, turnOf(board))] >= 0

LEMMA SignOfScore ==
  ASSUME NEW mark, NEW root \in 0 .. 8, NEW left \in 0 .. 8 - root, NEW later,
         left = 0 \/ later \in Table(left - 1), NEW board \in BoardsLeft[left]
  PROVE  Score(mark, root, left, later, board) >= 0 <=> Sound(mark, left, later, board)
<1> DEFINE depth == 9 - left - root  L == Later(later, board)  s == Score(mark, root, left, later, board)
<1>1. depth \in 1 .. 9
  OBVIOUS
<1>2. 10 - depth >= 0 /\ ~ (depth - 10 >= 0)
  BY <1>1
<1>3. s = IF Won(board, mark) THEN 10 - depth
          ELSE IF Won(board, other(mark)) THEN depth - 10
          ELSE IF left = 0 THEN 0
          ELSE IF turnOf(board) = mark THEN Max(L) ELSE Min(L)
  BY DEF Score
<1> HIDE DEF depth, s
<1>4. CASE Won(board, mark) \/ Won(board, other(mark)) \/ left = 0
  BY <1>2, <1>3, <1>4 DEF Sound, s
<1>5. ASSUME ~Won(board, mark), ~Won(board, other(mark)), left # 0
      PROVE  s >= 0 <=> Sound(mark, left, later, board)
  <2>1. left \in 1 .. 9
    BY <1>5
  <2>2. /\ L \subseteq Within(20) /\ Max(L) \in L /\ Min(L) \in L
        /\ \A k \in L : k <= Max(L) /\ Min(L) <= k
    BY <1>5, <2>1, LaterIs
  <2>3. \A k \in L : k \in Int
    BY <2>2 DEF Within
  <2>4. /\ \A i \in legalMoves(board) : later[Mark(board, i, turnOf(board))] \in L
        /\ \A k \in L : \E i \in legalMoves(board) : k = later[Mark(board, i, turnOf(board))]
    BY DEF Later
  <2> HIDE DEF L
  <2>5. Max(L) >= 0 <=> \E i \in legalMoves(board) : later[Mark(board, i, turnOf(board))] >= 0
    BY <2>2, <2>3, <2>4
  <2>6. Min(L) >= 0 <=> \A i \in legalMoves(board) : later[Mark(board, i, turnOf(board))] >= 0
    BY <2>2, <2>3, <2>4
  <2> QED
    BY <1>3, <1>5, <2>5, <2>6 DEF Sound
<1> QED
  BY <1>4, <1>5 DEF s

\* By the search from the empty board.
Kept(mark, board) == minimax(mark, 0)[Cardinality(legalMoves(board))][board] >= 0

LEMMA KeptIs ==
  ASSUME NEW mark \in Marks, NEW left \in 0 .. 8, NEW board \in BoardsLeft[left]
  PROVE  /\ Kept(mark, board) <=> minimax(mark, 0)[left][board] >= 0
         /\ Kept(mark, board) <=>
               \/ Won(board, mark)
               \/ /\ ~Won(board, other(mark))
                  /\ \/ left = 0
                     \/ /\ turnOf(board) = mark
                        /\ \E i \in legalMoves(board) : Kept(mark, Mark(board, i, turnOf(board)))
                     \/ /\ turnOf(board) # mark
                        /\ \A i \in legalMoves(board) : Kept(mark, Mark(board, i, turnOf(board)))
<1> DEFINE w == minimax(mark, 0)  later == IF left = 0 THEN <<>> ELSE w[left - 1]
<1>1. \A k \in 0 .. 8 : w[k] \in Table(k)
  BY MinimaxIs
<1>2. w[left][board] = Score(mark, 0, left, later, board)
  BY MinimaxIs
<1>3. \A k \in 0 .. 8 : \A b \in BoardsLeft[k] : Kept(mark, b) <=> w[k][b] >= 0
  <2> TAKE k \in 0 .. 8
  <2> TAKE b \in BoardsLeft[k]
  <2>1. Cardinality(legalMoves(b)) = k
    BY BoardsLeftIs
  <2> QED
    BY <2>1 DEF Kept
<1> HIDE DEF w
<1>4. left = 0 \/ later \in Table(left - 1)
  BY <1>1
<1>5. w[left][board] >= 0 <=> Sound(mark, left, later, board)
  <2>1. 0 \in 0 .. 8 /\ left \in 0 .. 8 - 0
    OBVIOUS
  <2> HIDE DEF later
  <2>2. Score(mark, 0, left, later, board) >= 0 <=> Sound(mark, left, later, board)
    BY <1>4, <2>1, SignOfScore
  <2>3. w[left][board] = Score(mark, 0, left, later, board)
    BY <1>2 DEF later
  <2> QED
    BY <2>2, <2>3
<1>6. ASSUME left # 0
      PROVE  \A i \in legalMoves(board) :
                later[Mark(board, i, turnOf(board))] >= 0 <=> Kept(mark, Mark(board, i, turnOf(board)))
  <2>1. left - 1 \in 0 .. 8 /\ left \in 0 .. 9
    BY <1>6
  <2>2. \A i \in legalMoves(board) : Mark(board, i, turnOf(board)) \in BoardsLeft[left - 1]
    BY <2>1, MoveIsLeft
  <2>3. later = w[left - 1]
    BY <1>6
  <2> QED
    BY <1>3, <2>1, <2>2, <2>3
<1>7. left = 0 \/ left # 0
  OBVIOUS
<1> HIDE DEF later
<1>8. Sound(mark, left, later, board) <=>
               \/ Won(board, mark)
               \/ /\ ~Won(board, other(mark))
                  /\ \/ left = 0
                     \/ /\ turnOf(board) = mark
                        /\ \E i \in legalMoves(board) : Kept(mark, Mark(board, i, turnOf(board)))
                     \/ /\ turnOf(board) # mark
                        /\ \A i \in legalMoves(board) : Kept(mark, Mark(board, i, turnOf(board)))
  BY <1>6, <1>7 DEF Sound
<1> QED
  BY <1>3, <1>5, <1>8 DEF w

LEMMA SameSign ==
  ASSUME NEW mark \in Marks, NEW root \in 0 .. 8
  PROVE  \A left \in 0 .. 8 - root : \A b \in BoardsLeft[left] :
            minimax(mark, root)[left][b] >= 0 <=> Kept(mark, b)
<1> DEFINE n == 8 - root  w == minimax(mark, root)
           G == {k \in 0 .. n : \A b \in BoardsLeft[k] : w[k][b] >= 0 <=> Kept(mark, b)}
           before(k) == IF k = 0 THEN <<>> ELSE w[k - 1]
<1>1. n \in Nat /\ \A k \in 0 .. n : k \in 0 .. 8
  OBVIOUS
<1>2. \A k \in 0 .. 8 : /\ w[k] \in Table(k)
                        /\ \A b \in BoardsLeft[k] : w[k][b] = Score(mark, root, k, before(k), b)
  BY MinimaxIs
<1> HIDE DEF w
<1>3. \A k \in 0 .. 8 : k = 0 \/ before(k) \in Table(k - 1)
  BY <1>2
<1>4. \A k \in 1 .. 8 : before(k) = w[k - 1]
  OBVIOUS
<1> HIDE DEF before
<1>5. ASSUME NEW k \in 0 .. n, NEW b \in BoardsLeft[k]
      PROVE  w[k][b] >= 0 <=> Sound(mark, k, before(k), b)
  <2>1. k \in 0 .. 8
    BY <1>1
  <2> QED
    BY <1>2, <1>3, <2>1, SignOfScore
<1> HIDE DEF n
<1>6. 0 \in G
  <2>1. 0 \in 0 .. n /\ 0 \in 0 .. 8
    BY <1>1
  <2>2. ASSUME NEW b \in BoardsLeft[0]
        PROVE  w[0][b] >= 0 <=> Kept(mark, b)
    <3>1. w[0][b] >= 0 <=> Won(b, mark) \/ ~Won(b, other(mark))
      BY <1>5, <2>1 DEF Sound
    <3>2. Kept(mark, b) <=> Won(b, mark) \/ ~Won(b, other(mark))
      BY <2>1, KeptIs
    <3> QED
      BY <3>1, <3>2
  <2> QED
    BY <2>1, <2>2
<1>7. ASSUME NEW k \in 0 .. n - 1, k \in G
      PROVE  k + 1 \in G
  <2> DEFINE m == k + 1
  <2>1. m \in 0 .. n /\ m - 1 = k /\ m \in 1 .. 8 /\ m \in 0 .. 8 /\ m \in 0 .. 9 /\ m # 0
    BY <1>1
  <2> HIDE DEF m
  <2>2. ASSUME NEW b \in BoardsLeft[m]
        PROVE  w[m][b] >= 0 <=> Kept(mark, b)
    <3>1. \A i \in legalMoves(b) : Mark(b, i, turnOf(b)) \in BoardsLeft[k]
      BY <2>1, MoveIsLeft
    <3>2. before(m) = w[k]
      BY <1>4, <2>1
    <3>3. \A i \in legalMoves(b) :
             before(m)[Mark(b, i, turnOf(b))] >= 0 <=> Kept(mark, Mark(b, i, turnOf(b)))
      BY <1>7, <3>1, <3>2
    <3>4. w[m][b] >= 0 <=> Sound(mark, m, before(m), b)
      BY <1>5, <2>1
    <3>5. Kept(mark, b) <=>
               \/ Won(b, mark)
               \/ /\ ~Won(b, other(mark))
                  /\ \/ m = 0
                     \/ /\ turnOf(b) = mark
                        /\ \E i \in legalMoves(b) : Kept(mark, Mark(b, i, turnOf(b)))
                     \/ /\ turnOf(b) # mark
                        /\ \A i \in legalMoves(b) : Kept(mark, Mark(b, i, turnOf(b)))
      BY <2>1, KeptIs
    <3> QED
      BY <3>3, <3>4, <3>5 DEF Sound
  <2> QED
    BY <2>1, <2>2 DEF m
<1>8. \A k \in 0 .. n : k \in G
  <2> HIDE DEF G
  <2> QED
    BY <1>1, <1>6, <1>7, Rises
<1> QED
  BY <1>8 DEF n, w

-----------------------------------------------------------------------------
(* The solved level.                                                       *)

LEMMA Parity ==
  ASSUME NEW x \in Nat, NEW o \in Nat, x - o \in {0, 1}
  PROVE  (x + o) % 2 = 0 <=> x = o
<1>1. CASE x = o
  <2>1. x + o = 2 * o
    BY <1>1
  <2> QED
    BY <1>1, <2>1
<1>2. CASE x = o + 1
  <2>1. x + o = 2 * o + 1
    BY <1>2
  <2> QED
    BY <1>2, <2>1
<1> QED
  BY <1>1, <1>2

\* When some move keeps the game, the best moves do.
LEMMA BestKeep ==
  ASSUME NEW left \in 1 .. 9, NEW board \in BoardsLeft[left],
         \E i \in legalMoves(board) : Kept(turnOf(board), Mark(board, i, turnOf(board))),
         NEW j \in BestMoves(board, turnOf(board))
  PROVE  j \in legalMoves(board) /\ Kept(turnOf(board), Mark(board, j, turnOf(board)))
<1> DEFINE mark == turnOf(board)  x == CountOf(board, "x")  o == CountOf(board, "o")
           root == x + o  table == minimax(mark, root)[left - 1]
           new(i) == Mark(board, i, mark)
           score == [i \in legalMoves(board) |-> Scores[root][new(i)]]
           all == {score[i] : i \in legalMoves(board)}
<1>1. board \in Boards /\ Cardinality(legalMoves(board)) = left /\ x - o \in {0, 1}
  BY BoardsLeftIs
<1>2. x \in Nat /\ o \in Nat /\ x + o + left = 9
  BY <1>1, CountsAdd
<1>3. mark = IF x = o THEN "x" ELSE "o"
  BY DEF turnOf
<1>4. mark \in Marks /\ \A i \in legalMoves(board) : new(i) \in BoardsLeft[left - 1]
  <2>1. left \in 0 .. 9
    OBVIOUS
  <2> QED
    BY <2>1, <1>3, MoveIsLeft DEF Marks
<1>5. j \in legalMoves(board) /\ score[j] = Max(all)
  BY DEF BestMoves
<1>6. PICK i \in legalMoves(board) : Kept(mark, new(i))
  OBVIOUS
<1>7. root \in 0 .. 8 /\ 8 - root = left - 1 /\ left - 1 \in 0 .. 8 - root /\ left - 1 \in 0 .. 8
  <2> HIDE DEF x, o
  <2> QED
    BY <1>2
<1>8. root % 2 = 0 <=> x = o
  <2> HIDE DEF x, o
  <2> QED
    BY <1>1, <1>2, Parity
<1> HIDE DEF mark, root
<1>9. Scores[root] = table
  <2>1. Scores[root] = minimax(IF root % 2 = 0 THEN "x" ELSE "o", root)[8 - root]
    BY <1>7, TabulatedIs DEF Scores
  <2>2. mark = IF root % 2 = 0 THEN "x" ELSE "o"
    BY <1>3, <1>8
  <2> QED
    BY <1>7, <2>1, <2>2
<1>10. table \in Table(left - 1)
  BY <1>4, <1>7, MinimaxIs
<1>11. \A b \in BoardsLeft[left - 1] : table[b] >= 0 <=> Kept(mark, b)
  BY <1>4, <1>7, SameSign
<1> HIDE DEF table, new
<1>12. \A k \in legalMoves(board) : score[k] = table[new(k)] /\ score[k] \in Within(20) /\ score[k] \in all
  BY <1>4, <1>9, <1>10 DEF Table
<1>13. \A s \in all : \E k \in legalMoves(board) : s = score[k]
  OBVIOUS
<1> HIDE DEF score, all
<1>14. all \subseteq Within(20) /\ all # {}
  BY <1>5, <1>12, <1>13
<1>15. \A k \in all : k <= Max(all)
  BY <1>14, TwentyIs, ExtremesAre
<1>16. score[i] >= 0 /\ score[i] <= score[j] /\ score[i] \in Int /\ score[j] \in Int
  BY <1>4, <1>5, <1>6, <1>11, <1>12, <1>15 DEF Within
<1>17. table[new(j)] >= 0
  BY <1>5, <1>12, <1>16
<1> QED
  BY <1>4, <1>5, <1>11, <1>17 DEF mark, new

\* A mark completes no line of the other player's.
LEMMA OnlyTheMoverWins ==
  ASSUME NEW board \in Boards, NEW i \in legalMoves(board), NEW mark \in Marks,
         Won(Mark(board, i, mark), other(mark))
  PROVE  Won(board, other(mark))
<1> DEFINE new == Mark(board, i, mark)
<1>1. \A j \in Squares : new[j] = IF j = i THEN mark ELSE board[j]
  BY MarkCounts
<1>2. mark # other(mark)
  BY DEF other, Marks
<1>3. \A line \in LINES : line \subseteq Squares
  BY DEF LINES, Squares
<1>4. PICK line \in LINES : \A j \in line : new[j] = other(mark)
  BY DEF Won
<1> HIDE DEF new
<1>5. \A j \in line : board[j] = other(mark)
  BY <1>1, <1>2, <1>3, <1>4
<1> QED
  BY <1>5 DEF Won

\* The game has not been lost, and is not against the best play.
Right(board, user) ==
    \E left \in 0 .. 9 :
        /\ board \in BoardsLeft[left]
        /\ ~ (Won(board, user) /\ Won(board, other(user)))
        /\ board = emptyBoard \/ (left \in 0 .. 8 /\ Kept(other(user), board))

GameInv ==
    current # NoGame =>
        current \in Games /\ (current.level = "hard" => Right(current.board, current.user))

LEMMA EmptyBoardIs ==
  /\ emptyBoard \in Boards /\ emptyBoard \in BoardsLeft[9] /\ legalMoves(emptyBoard) = Squares
  /\ turnOf(emptyBoard) = "x" /\ \A mark \in Marks : ~ Won(emptyBoard, mark)
<1>1. emptyBoard \in Boards /\ \A i \in Squares : emptyBoard[i] = Empty
  BY DEF emptyBoard, Boards
<1>2. \A mark \in Marks : mark # Empty
  BY DEF Marks, Empty
<1>3. \A mark \in Marks : CountOf(emptyBoard, mark) = 0
  <2> TAKE mark \in Marks
  <2>1. {i \in Squares : emptyBoard[i] = mark} = {}
    BY <1>1, <1>2
  <2> QED
    BY <2>1, FS_EmptySet DEF CountOf
<1>4. CountOf(emptyBoard, "x") = 0 /\ CountOf(emptyBoard, "o") = 0
  BY <1>3 DEF Marks
<1>5. legalMoves(emptyBoard) = Squares
  BY <1>1 DEF legalMoves
<1>6. Cardinality(legalMoves(emptyBoard)) = 9
  BY <1>5, SquaresAre
<1>7. emptyBoard \in BoardsLeft[9]
  <2>1. 9 \in 0 .. 9 /\ 0 - 0 \in {0, 1}
    OBVIOUS
  <2> QED
    BY <1>1, <1>4, <1>6, <2>1, BoardsLeftIs
<1>8. turnOf(emptyBoard) = "x"
  BY <1>4 DEF turnOf
<1>9. \A line \in LINES : line \subseteq Squares /\ line # {}
  BY DEF LINES, Squares
<1>10. \A mark \in Marks : ~ Won(emptyBoard, mark)
  BY <1>1, <1>2, <1>9 DEF Won
<1> QED
  BY <1>1, <1>5, <1>7, <1>8, <1>10

LEMMA RightIsNotLost ==
  ASSUME NEW user \in Marks, NEW board, Right(board, user)
  PROVE  ~ Won(board, user)
<1>1. PICK left \in 0 .. 9 :
        /\ board \in BoardsLeft[left]
        /\ ~ (Won(board, user) /\ Won(board, other(user)))
        /\ board = emptyBoard \/ (left \in 0 .. 8 /\ Kept(other(user), board))
  BY DEF Right
<1>2. other(user) \in Marks /\ other(other(user)) = user
  BY DEF other, Marks
<1>3. CASE board = emptyBoard
  BY <1>3, EmptyBoardIs
<1>4. CASE left \in 0 .. 8 /\ Kept(other(user), board)
  <2>1. Won(board, other(user)) \/ ~ Won(board, other(other(user)))
    BY <1>1, <1>2, <1>4, KeptIs
  <2> QED
    BY <1>1, <1>2, <2>1
<1> QED
  BY <1>1, <1>3, <1>4

\* The agent's answer to a board that is kept.
LEMMA AnswerIsRight ==
  ASSUME NEW game \in Games, game.level = "hard", NEW left \in 0 .. 8, NEW board \in BoardsLeft[left],
         ~ (Won(board, game.user) /\ Won(board, other(game.user))), Kept(other(game.user), board),
         NEW next \in Answered(game, board)
  PROVE  next \in Games /\ next.level = "hard" /\ next.user = game.user /\ Right(next.board, game.user)
<1> DEFINE agent == other(game.user)  replies == chooseMove(board, agent, game.level)
<1>0. /\ game.user \in Marks /\ agent \in Marks /\ other(agent) = game.user /\ board \in Boards
      /\ game.level \in LEVELS
  BY BoardsLeftIs DEF Games, other, Marks
<1>1. CASE replies = {}
  <2>1. next = [game EXCEPT !.board = board]
    BY <1>1 DEF Answered
  <2>2. Right(board, game.user)
    BY DEF Right
  <2> QED
    BY <1>0, <2>1, <2>2 DEF Games
<1>2. CASE replies # {}
  <2>1. PICK i \in replies : next = [game EXCEPT !.board = Mark(board, i, agent)]
    BY <1>2 DEF Answered
  <2>2. ~ isOver(board) /\ turnOf(board) = agent /\ i \in BestMoves(board, agent)
    <3>1. replies = IF isOver(board) \/ turnOf(board) # agent THEN {} ELSE BestMoves(board, agent)
      BY DEF chooseMove
    <3> HIDE DEF replies
    <3> QED
      BY <2>1, <3>1
  <2> DEFINE new == Mark(board, i, agent)
  <2>3. ~ Won(board, agent) /\ ~ Won(board, game.user) /\ legalMoves(board) # {}
    BY <1>0, <2>2 DEF isOver
  <2>4. left # 0
    <3> SUFFICES ASSUME left = 0 PROVE FALSE
      OBVIOUS
    <3>1. Cardinality(legalMoves(board)) = 0 /\ IsFiniteSet(legalMoves(board))
      BY <1>0, BoardsLeftIs, CountsAdd
    <3> QED
      BY <2>3, <3>1, FS_EmptySet
  <2>5. \E k \in legalMoves(board) : Kept(agent, Mark(board, k, agent))
    BY <1>0, <2>2, <2>3, <2>4, KeptIs
  <2>6. left \in 1 .. 9 /\ left \in 0 .. 9 /\ left - 1 \in 0 .. 9 /\ left - 1 \in 0 .. 8
    BY <2>4
  <2>7. i \in legalMoves(board) /\ Kept(agent, new)
    BY <2>2, <2>5, <2>6, BestKeep
  <2>8. new \in BoardsLeft[left - 1] /\ new \in Boards
    BY <1>0, <2>2, <2>6, <2>7, MoveIsLeft, MarkCounts
  <2>9. ~ Won(new, game.user)
    BY <1>0, <2>3, <2>7, OnlyTheMoverWins
  <2>10. Right(new, game.user)
    <3> HIDE DEF new
    <3> QED
      BY <2>6, <2>7, <2>8, <2>9 DEF Right
  <2> HIDE DEF new
  <2>11. next = [game EXCEPT !.board = new]
    BY <2>1 DEF new
  <2> QED
    BY <2>8, <2>10, <2>11 DEF Games
<1> QED
  BY <1>1, <1>2

LEMMA AnyAnswerIsGame ==
  ASSUME NEW game \in Games, NEW board \in Boards, NEW next \in Answered(game, board)
  PROVE  next \in Games /\ next.level = game.level /\ next.user = game.user
<1> DEFINE agent == other(game.user)  replies == chooseMove(board, agent, game.level)
<1>1. replies \subseteq legalMoves(board)
  BY RepliesAreLegal
<1>2. agent \in Marks
  BY DEF other, Marks
<1>3. \A i \in replies : Mark(board, i, agent) \in Boards
  BY <1>1, <1>2, MarkCounts
<1>4. \E b \in Boards : next = [game EXCEPT !.board = b]
  <2> HIDE DEF replies, agent
  <2> QED
    BY <1>3 DEF Answered, replies, agent
<1> QED
  BY <1>4 DEF Games

LEMMA StartIsRight ==
  ASSUME NEW user \in Marks, NEW level \in LEVELS, NEW next \in startGame(user, level)
  PROVE  next \in Games /\ next.level = level /\ (level = "hard" => Right(next.board, next.user))
<1> DEFINE game == [board |-> emptyBoard, user |-> user, level |-> level]
<1>1. game \in Games /\ game.board = emptyBoard /\ game.user = user /\ game.level = level
  BY EmptyBoardIs DEF Games
<1>2. Right(emptyBoard, user)
  <2>1. ~ Won(emptyBoard, user) /\ 9 \in 0 .. 9
    BY EmptyBoardIs
  <2> QED
    BY <2>1, EmptyBoardIs DEF Right
<1>3. CASE user = "x"
  <2>1. next = game
    BY <1>3 DEF startGame
  <2> QED
    BY <1>1, <1>2, <2>1
<1>4. CASE user # "x"
  <2>0. user = "o" /\ other(user) = "x"
    BY <1>4 DEF Marks, other
  <2>1. next \in Answered(game, emptyBoard)
    BY <1>4 DEF startGame
  <2> HIDE DEF game
  <2>2. next \in Games /\ next.level = level /\ next.user = user
    BY <1>1, <2>1, EmptyBoardIs, AnyAnswerIsGame
  <2>3. ASSUME level = "hard"
        PROVE  Right(next.board, user)
    <3> DEFINE replies == chooseMove(emptyBoard, "x", "hard")
    <3>1. CASE replies = {}
      <4>1. next = [game EXCEPT !.board = emptyBoard]
        BY <1>1, <2>0, <2>1, <2>3, <3>1 DEF Answered
      <4> QED
        BY <1>1, <1>2, <4>1 DEF Games
    <3>2. CASE replies # {}
      <4>1. PICK i \in replies : next = [game EXCEPT !.board = Mark(emptyBoard, i, "x")]
        BY <1>1, <2>0, <2>1, <2>3, <3>2 DEF Answered
      <4>2. i \in BestMoves(emptyBoard, "x")
        <5>1. replies = IF isOver(emptyBoard) \/ turnOf(emptyBoard) # "x" THEN {}
                        ELSE BestMoves(emptyBoard, "x")
          BY DEF chooseMove
        <5> HIDE DEF replies
        <5> QED
          BY <4>1, <5>1
      <4>3. \E k \in legalMoves(emptyBoard) : Kept("x", Mark(emptyBoard, k, "x"))
        <5>1. PICK k \in Squares : minimax("x", 0)[8][Mark(emptyBoard, k, "x")] >= 0
          BY DrawAssumption
        <5>2. k \in legalMoves(emptyBoard) /\ 9 \in 0 .. 9 /\ 9 - 1 = 8 /\ 8 \in 0 .. 8 /\ "x" \in Marks
          BY EmptyBoardIs DEF Marks
        <5>3. Mark(emptyBoard, k, "x") \in BoardsLeft[8]
          <6>1. Mark(emptyBoard, k, turnOf(emptyBoard)) \in BoardsLeft[9 - 1]
            BY <5>2, EmptyBoardIs, MoveIsLeft
          <6> QED
            BY <5>2, <6>1, EmptyBoardIs
        <5>4. Kept("x", Mark(emptyBoard, k, "x"))
          BY <5>1, <5>2, <5>3, KeptIs
        <5> QED
          BY <5>2, <5>4
      <4> DEFINE new == Mark(emptyBoard, i, "x")
      <4>4. 9 \in 1 .. 9 /\ 9 \in 0 .. 9 /\ 9 - 1 = 8 /\ 8 \in 0 .. 8 /\ 8 \in 0 .. 9 /\ "x" \in Marks
        BY DEF Marks
      <4>5. i \in legalMoves(emptyBoard) /\ Kept("x", new)
        BY <4>2, <4>3, <4>4, EmptyBoardIs, BestKeep
      <4>6. new \in BoardsLeft[8]
        <5>1. Mark(emptyBoard, i, turnOf(emptyBoard)) \in BoardsLeft[9 - 1]
          BY <4>4, <4>5, EmptyBoardIs, MoveIsLeft
        <5> QED
          BY <4>4, <5>1, EmptyBoardIs
      <4>7. ~ Won(new, user)
        <5>1. other("x") = user
          BY <2>0 DEF other
        <5> QED
          BY <4>4, <4>5, <5>1, EmptyBoardIs, OnlyTheMoverWins
      <4>8. Right(new, user)
        <5> HIDE DEF new
        <5> QED
          BY <2>0, <4>4, <4>5, <4>6, <4>7 DEF Right
      <4>9. next.board = new
        <5> HIDE DEF new
        <5>1. next = [game EXCEPT !.board = new]
          BY <4>1 DEF new
        <5> QED
          BY <1>1, <5>1 DEF Games
      <4> QED
        BY <4>8, <4>9
    <3> QED
      BY <3>1, <3>2
  <2> QED
    BY <2>2, <2>3
<1> QED
  BY <1>3, <1>4

LEMMA TurnIsRight ==
  ASSUME NEW game \in Games, game.level = "hard" => Right(game.board, game.user),
         NEW square \in Squares, NEW next \in playTurn(game, square)
  PROVE  next \in Games /\ (next.level = "hard" => Right(next.board, next.user))
<1> DEFINE user == game.user  board == game.board  new == Mark(board, square, user)
<1>1. game.board \in Boards /\ user \in Marks /\ other(user) \in Marks
  BY DEF Games, other, Marks
<1>2. CASE ~ applies(board, square, user)
  BY <1>2 DEF playTurn
<1>3. CASE applies(board, square, user)
  <2>1. next \in Answered(game, new)
    BY <1>3 DEF playTurn
  <2>2. ~ isOver(board) /\ turnOf(board) = user /\ square \in legalMoves(board)
    BY <1>3 DEF applies
  <2>3. new \in Boards
    BY <1>1, <2>2, MarkCounts
  <2>4. next \in Games /\ next.level = game.level /\ next.user = user
    BY <2>1, <2>3, AnyAnswerIsGame
  <2>5. ASSUME game.level = "hard"
        PROVE  Right(next.board, next.user)
    <3>1. PICK left \in 0 .. 9 :
            /\ board \in BoardsLeft[left]
            /\ board = emptyBoard \/ (left \in 0 .. 8 /\ Kept(other(user), board))
      BY <2>5 DEF Right
    <3>2. ~ Won(board, user) /\ ~ Won(board, other(user))
      BY <1>1, <2>2 DEF isOver
    <3>3. left \in 1 .. 9 /\ new \in BoardsLeft[left - 1] /\ left - 1 \in 0 .. 8
      <4>1. left \in 1 .. 9 /\ new \in BoardsLeft[left - 1]
        BY <2>2, <3>1, MoveIsLeft
      <4> QED
        BY <4>1
    <3>4. ~ Won(new, other(user))
      BY <1>1, <2>2, <3>2, OnlyTheMoverWins
    <3>5. Kept(other(user), new)
      <4>1. CASE board = emptyBoard
        <5>1. user = "x" /\ other(user) = "o" /\ "o" \in Marks
          BY <2>2, <4>1, EmptyBoardIs DEF other, Marks
        <5>2. left = 9
          <6>1. Cardinality(legalMoves(board)) = left
            BY <3>1, BoardsLeftIs
          <6> QED
            BY <4>1, <6>1, SquaresAre, EmptyBoardIs
        <5>3. new \in BoardsLeft[8] /\ 8 \in 0 .. 8
          <6>1. 9 - 1 = 8
            OBVIOUS
          <6> QED
            BY <3>3, <5>2, <6>1
        <5>4. minimax("o", 0)[8][new] >= 0
          BY <4>1, <5>1, DrawAssumption
        <5> HIDE DEF new
        <5> QED
          BY <5>1, <5>3, <5>4, KeptIs
      <4>2. CASE board # emptyBoard
        <5>1. left \in 0 .. 8 /\ Kept(other(user), board)
          BY <3>1, <4>2
        <5>2. turnOf(board) # other(user) /\ other(other(user)) = user
          BY <1>1, <2>2 DEF other, Marks
        <5>3. left # 0
          BY <3>3
        <5>4. \A i \in legalMoves(board) : Kept(other(user), Mark(board, i, turnOf(board)))
          BY <1>1, <3>1, <3>2, <5>1, <5>2, <5>3, KeptIs
        <5> QED
          BY <2>2, <5>4
      <4> QED
        BY <4>1, <4>2
    <3> HIDE DEF new
    <3> QED
      BY <2>1, <2>4, <2>5, <3>3, <3>4, <3>5, AnswerIsRight
  <2> QED
    BY <2>4, <2>5
<1> QED
  BY <1>2, <1>3

\* What the solved level keeps: a board it does not lose with the best play
\* that is to come.
THEOREM GameInvariant == GameSpec => []GameInv
<1>1. GameInit => GameInv
  BY DEF GameInit, GameInv
<1>2. ASSUME GameInv, [GameNext]_current
      PROVE  GameInv'
  <2>1. CASE UNCHANGED current
    BY <1>2, <2>1 DEF GameInv
  <2>2. CASE GameStart
    <3>1. PICK user \in Marks, level \in Levels : current' \in startGame(user, level)
      BY <2>2 DEF GameStart
    <3>2. level \in LEVELS
      BY LevelsAssumption
    <3> QED
      BY <3>1, <3>2, StartIsRight DEF GameInv
  <2>3. CASE GameTurn
    <3>1. current # NoGame /\ \E square \in Squares : current' \in playTurn(current, square)
      BY <2>3 DEF GameTurn
    <3> QED
      BY <1>2, <3>1, TurnIsRight DEF GameInv
  <2> QED
    BY <1>2, <2>1, <2>2, <2>3 DEF GameNext
<1> QED
  BY <1>1, <1>2, PTL DEF GameSpec

\* Whoever has X and whatever the user plays, the solved level does not lose
\* (tictactoe.ts:178).
THEOREM TheSolvedLevelNeverLoses == GameSpec => []HardNeverLoses
<1>1. GameInv => HardNeverLoses
  <2> SUFFICES ASSUME GameInv, current # NoGame, current.level = "hard"
               PROVE  ~ Won(current.board, current.user)
    BY DEF HardNeverLoses
  <2>1. current.user \in Marks /\ Right(current.board, current.user)
    BY DEF GameInv, Games
  <2> QED
    BY <2>1, RightIsNotLost
<1> QED
  BY <1>1, GameInvariant, PTL

-----------------------------------------------------------------------------
(* The game in the chat.                                                   *)

\* A game that a call may hold or post, and that the chat and the phone show.
SafeGames == {game \in Games : game.level = "hard" => Right(game.board, game.user)}

\* A sequence of the chat, or a message a turn was decided on.
Archived == Texts \cup {BoardMessage(game) : game \in Games}

Queued == [pc : {"queued"}, input : Inputs]
Deciding == [pc : {"check", "write"}, game : SafeGames,
             expect : Archived \cup {Nothing, NoBoard}]
Posting == [pc : {"posted", "draw"}]
Posts == [game : SafeGames, by : SUBSET Calls, sent : BOOLEAN, since : Nat]

\* The only board of the messages is the first, and it is of that game.
Shows(messages, game) ==
    /\ messages \in Seq(Archived)
    /\ \A i \in 1 .. Len(messages) :
          messages[i] \in Texts
          \/ (i = 1 /\ messages[i] = BoardMessage(game) /\ game \in SafeGames)

ChatInv ==
    /\ filed \in SafeGames \cup {NoBoard} /\ phone \in SafeGames \cup {NoBoard}
    /\ Shows(chat, filed)

CallInv ==
    /\ call \in [Calls -> {Idle} \cup Queued \cup Deciding \cup Posting]
    /\ posts \in Seq(Posts)

\* A game that may be posted over the one that was filed last.
Follows(game) ==
    \/ game = filed
    \/ \E user \in Marks, level \in ChatLevels : game \in startGame(user, level)
    \/ filed \in Games /\ \E square \in Squares : game \in playTurn(filed, square)

Running(c) == call[c].pc \notin {"idle", "queued"}

\* The bridge has one post, of the call that waits for it.
OnePost ==
    /\ Len(posts) = 1 /\ Follows(Head(posts).game)
    /\ \E c \in Calls : Head(posts).by = {c} /\ call[c].pc = "posted"

\* Unless a call was cancelled too late, one turn is under way at a time, and
\* what it will post follows from the board filed last.
AloneInv ==
    cancelled \/
        /\ \A c, d \in Calls : Running(c) /\ Running(d) => c = d
        /\ \A c \in Calls : call[c].pc \in {"check", "write"} =>
                               Follows(call[c].game) /\ posts = <<>>
        /\ posts # <<>> => OnePost

ChatGameInv == ChatInv /\ CallInv /\ AloneInv

\* What starts and what follows is safe.
LEMMA StartIsSafe ==
  ASSUME NEW user \in Marks, NEW level \in ChatLevels
  PROVE  startGame(user, level) \subseteq SafeGames
BY StartIsRight, ChatAssumption DEF SafeGames

LEMMA TurnIsSafe ==
  ASSUME NEW game \in SafeGames, NEW square \in Squares
  PROVE  playTurn(game, square) \subseteq SafeGames
BY TurnIsRight DEF SafeGames

-----------------------------------------------------------------------------
(* The window and what is read in it.                                      *)

\* The window keeps the end of what it is given.
LEMMA Windowed ==
  ASSUME NEW all, NEW game, Shows(all, game), all # <<>>
  PROVE  Shows(NewestOf(all), game)
<1> DEFINE from == Max({1, Len(all) - ChatWindow + 1})
           kept == NewestOf(all)
<1>1. all \in Seq(Archived) /\ Len(all) \in Nat \ {0}
  BY EmptySeq DEF Shows
<1>2. from \in 1 .. Len(all)
  <2> DEFINE low == Len(all) - ChatWindow + 1
  <2>1. low \in Int /\ low <= Len(all)
    BY <1>1, ChatAssumption
  <2> HIDE DEF low
  <2>2. \E m \in {1, low} : \A k \in {1, low} : m >= k
    BY <2>1
  <2>3. Max({1, low}) \in {1, low} /\ Max({1, low}) >= 1
    BY <2>1, <2>2 DEF Max
  <2> QED
    BY <1>1, <2>1, <2>3 DEF low
<1>3. kept = SubSeq(all, from, Len(all))
  BY DEF NewestOf
<1> HIDE DEF kept, from
<1>4. \A i \in from .. Len(all) : all[i] \in Archived
  BY <1>1, <1>2, ElementOfSeq
<1>5. /\ kept \in Seq(Archived) /\ Len(kept) = Len(all) - from + 1
      /\ \A i \in 1 .. Len(kept) : kept[i] = all[from + i - 1]
  BY <1>1, <1>2, <1>3, <1>4, SubSeqProperties
<1>6. ASSUME NEW i \in 1 .. Len(kept)
      PROVE  kept[i] \in Texts
             \/ (i = 1 /\ kept[i] = BoardMessage(game) /\ game \in SafeGames)
  <2>1. from + i - 1 \in 1 .. Len(all) /\ (from + i - 1 = 1 => i = 1)
    BY <1>1, <1>2, <1>5
  <2> QED
    BY <1>5, <2>1 DEF Shows
<1> QED
  BY <1>5, <1>6 DEF Shows, kept

\* What is typed stands last.
LEMMA Arrived ==
  ASSUME ChatInv, NEW text \in Texts, chat' = NewestOf(Append(chat, text)),
         filed' = filed, phone' = phone
  PROVE  ChatInv'
<1> DEFINE all == Append(chat, text)
<1>1. text \in Archived
  BY DEF Archived
<1>2. /\ all \in Seq(Archived) /\ Len(all) = Len(chat) + 1 /\ Len(chat) \in Nat
      /\ all[Len(chat) + 1] = text
      /\ \A i \in 1 .. Len(chat) : all[i] = chat[i]
  BY <1>1, AppendProperties, LenProperties DEF ChatInv, Shows
<1>3. chat' = NewestOf(all)
  OBVIOUS
<1> HIDE DEF all
<1>4. all # <<>>
  BY <1>2, EmptySeq
<1>5. ASSUME NEW i \in 1 .. Len(all)
      PROVE  all[i] \in Texts \/ (i = 1 /\ all[i] = BoardMessage(filed) /\ filed \in SafeGames)
  <2>1. CASE i = Len(chat) + 1
    BY <1>2, <2>1
  <2>2. CASE i # Len(chat) + 1
    <3>1. i \in 1 .. Len(chat) /\ all[i] = chat[i]
      BY <1>2, <2>2
    <3> QED
      BY <3>1 DEF ChatInv, Shows
  <2> QED
    BY <2>1, <2>2
<1>6. Shows(all, filed)
  BY <1>2, <1>5 DEF Shows
<1>7. Shows(chat', filed)
  BY <1>3, <1>4, <1>6, Windowed
<1> QED
  BY <1>7 DEF ChatInv

LEMMA BoardIsFiled ==
  ASSUME ChatInv, HasBoard
  PROVE  GameOf = filed /\ filed \in SafeGames
<1>1. 1 \in 1 .. Len(chat) /\ chat[1] = Head(chat)
  BY LenProperties, HeadTailProperties, EmptySeq DEF ChatInv, Shows, HasBoard
<1>2. chat[1] \notin Texts
  BY <1>1 DEF HasBoard, Texts, Moves, News, Words, Note
<1>3. Head(chat) = BoardMessage(filed) /\ filed \in SafeGames
  BY <1>1, <1>2 DEF ChatInv, Shows
<1> QED
  BY <1>3 DEF GameOf, BoardMessage

LEMMA AfterIsTyped ==
  ASSUME ChatInv
  PROVE  After \in Seq(Texts)
<1>1. chat \in Seq(Archived) /\ Len(chat) \in Nat /\ DOMAIN chat = 1 .. Len(chat)
  BY LenProperties DEF ChatInv, Shows
<1>2. CASE HasBoard
  <2>1. /\ After = Tail(chat) /\ Len(chat) \in Nat \ {0} /\ After \in Seq(Archived)
        /\ Len(After) = Len(chat) - 1
        /\ \A i \in 1 .. Len(After) : After[i] = chat[i + 1]
    BY <1>1, <1>2, HeadTailProperties, EmptySeq DEF HasBoard, After
  <2>2. \A i \in 1 .. Len(After) : After[i] \in Texts
    <3> TAKE i \in 1 .. Len(After)
    <3>1. i + 1 \in 1 .. Len(chat) /\ i + 1 # 1
      BY <1>1, <2>1
    <3> QED
      BY <2>1, <3>1 DEF ChatInv, Shows
  <2>3. After \in [1 .. Len(After) -> Texts] /\ Len(After) \in Nat
    BY <2>1, <2>2, LenProperties
  <2> QED
    BY <2>3, SeqDef
<1>3. CASE ~HasBoard
  <2>1. After = chat
    BY <1>3 DEF After
  <2>2. \A i \in 1 .. Len(chat) : chat[i] \in Texts
    <3> TAKE i \in 1 .. Len(chat)
    <3>1. CASE i = 1
      <4>1. chat # <<>> /\ chat[1] = Head(chat)
        BY <1>1, <3>1, HeadTailProperties, EmptySeq
      <4>2. Head(chat).kind # "board"
        BY <1>3, <4>1 DEF HasBoard
      <4> QED
        BY <3>1, <4>1, <4>2 DEF ChatInv, Shows, BoardMessage
    <3>2. CASE i # 1
      BY <3>2 DEF ChatInv, Shows
    <3> QED
      BY <3>1, <3>2
  <2>3. chat \in [1 .. Len(chat) -> Texts]
    BY <1>1, <2>2, LenProperties
  <2> QED
    BY <1>1, <2>1, <2>3, SeqDef
<1> QED
  BY <1>2, <1>3

\* What the chat says is one of the texts that stand in it, or nothing.
LEMMA ReadIsTyped ==
  ASSUME ChatInv
  PROVE  readGame \in Texts \cup {Nothing}
<1> DEFINE live == HasBoard /\ ~isOver(GameOf.board)
           commands == [i \in DOMAIN After |-> parseCommand(After[i], live)]
           Of(kind) == {i \in DOMAIN After : commands[i].kind = kind}
<1>1. PICK n \in Nat : DOMAIN After = 1 .. n /\ n = Len(After)
  BY AfterIsTyped, LenProperties
<1>2. \A i \in DOMAIN After : commands[i] \in Texts \cup {Nothing}
  BY <1>1, AfterIsTyped, ElementOfSeq DEF parseCommand
<1>3. ASSUME NEW kind, Of(kind) # {} 
      PROVE  commands[Min(Of(kind))] \in Texts \cup {Nothing}
             /\ commands[Max(Of(kind))] \in Texts \cup {Nothing}
  <2>1. Of(kind) \subseteq Within(n)
    BY <1>1 DEF Within
  <2>2. Min(Of(kind)) \in Of(kind) /\ Max(Of(kind)) \in Of(kind)
    BY <1>3, <2>1, ExtremesAre
  <2> QED
    BY <1>2, <2>2
<1>4. readGame = CASE Of("new") # {} -> commands[Max(Of("new"))]
                   [] Of("new") = {} /\ Of("resign") # {} -> commands[Min(Of("resign"))]
                   [] OTHER -> IF Of("move") # {} THEN commands[Min(Of("move"))]
                               ELSE IF Of("status") # {} THEN commands[Min(Of("status"))]
                               ELSE Nothing
  BY DEF readGame
<1> HIDE DEF commands, Of
<1> QED
  BY <1>3, <1>4

LEMMA CommandIsKnown ==
  ASSUME ChatInv, NEW input \in Inputs
  PROVE  LET command == CommandOf(input) IN
         /\ command.kind = "new" => command.user \in Marks /\ command.level \in ChatLevels
         /\ command.kind = "move" => command.square \in Squares
<1> DEFINE command == CommandOf(input)
<1>1. command \in Texts \cup Inputs \cup {Nothing}
  BY ReadIsTyped DEF CommandOf
<1>2. command.kind = "new" => command \in News
  BY <1>1 DEF Texts, Inputs, Nothing, Moves, News, Words, Note
<1>3. command.kind = "move" => command \in Moves
  BY <1>1 DEF Texts, Inputs, Nothing, Moves, News, Words, Note
<1> QED
  BY <1>2, <1>3, ChatAssumption DEF News, Moves

\* The newest message is one of the chat's, when there is one.
LEMMA NewestIsArchived ==
  ASSUME ChatInv
  PROVE  Newest \in Archived \cup {Nothing}
<1>1. CASE chat # <<>>
  <2>1. Len(chat) \in 1 .. Len(chat)
    BY <1>1, LenProperties, EmptySeq DEF ChatInv, Shows
  <2> QED
    BY <2>1, ElementOfSeq DEF ChatInv, Shows, Newest, Last
<1> QED
  BY <1>1 DEF Newest

-----------------------------------------------------------------------------
(* Each step preserves the invariant.                                      *)

LEMMA ChatStarts == ChatInit => ChatGameInv
<1> SUFFICES ASSUME ChatInit PROVE ChatGameInv
  OBVIOUS
<1>1. /\ chat = <<>> /\ filed = NoBoard /\ phone = NoBoard /\ posts = <<>>
      /\ call = [c \in Calls |-> Idle]
  BY DEF ChatInit
<1>2. Shows(chat, filed)
  BY <1>1, EmptySeq DEF Shows
<1>3. \A c \in Calls : call[c].pc = "idle"
  BY <1>1 DEF Idle
<1> QED
  BY <1>1, <1>2, <1>3, EmptySeq DEF ChatGameInv, ChatInv, CallInv, AloneInv, Running

\* The chat, the phone and the archive as they were.
LEMMA ChatStays ==
  ASSUME ChatInv, chat' = chat, filed' = filed, phone' = phone
  PROVE  ChatInv'
BY DEF ChatInv

\* The posts are those they were, the first of them further on.
Recounted ==
    /\ posts' \in Seq(Posts) /\ Len(posts') = Len(posts)
    /\ posts' = <<>> <=> posts = <<>>
    /\ posts # <<>> => Head(posts').game = Head(posts).game /\ Head(posts').by = Head(posts).by

LEMMA RecountedFirst ==
  ASSUME posts \in Seq(Posts), posts # <<>>, NEW first \in Posts,
         first.game = Head(posts).game, first.by = Head(posts).by,
         posts' = [posts EXCEPT ![1] = first]
  PROVE  Recounted
<1>1. 1 \in 1 .. Len(posts) /\ Len(posts) \in Nat \ {0}
  BY EmptySeq
<1>2. posts' \in Seq(Posts) /\ Len(posts') = Len(posts) /\ posts'[1] = first
  BY <1>1, ExceptSeq
<1>3. posts' # <<>>
  BY <1>1, <1>2, EmptySeq
<1>4. Head(posts') = posts'[1]
  BY <1>2, <1>3
<1> QED
  BY <1>2, <1>3, <1>4 DEF Recounted

LEMMA FirstPost ==
  ASSUME posts \in Seq(Posts), posts # <<>>
  PROVE  /\ Head(posts) \in Posts /\ Head(posts) = posts[1] /\ Tail(posts) \in Seq(Posts)
         /\ Len(posts) = 1 => Tail(posts) = <<>>
<1>1. /\ Head(posts) \in Posts /\ Tail(posts) \in Seq(Posts) /\ Len(Tail(posts)) = Len(posts) - 1
  BY HeadTailProperties
<1>2. Tail(posts) # <<>> => Len(Tail(posts)) \in Nat \ {0}
  BY <1>1, EmptySeq
<1>3. Head(posts) = posts[1]
  OBVIOUS
<1> QED
  BY <1>1, <1>2, <1>3

LEMMA Sooner ==
  ASSUME posts \in Seq(Posts), NEW message, Arrives(message)
  PROVE  Recounted
<1>1. CASE posts' = posts
  BY <1>1 DEF Recounted
<1>2. CASE posts # <<>> /\ posts' = [posts EXCEPT ![1].since = @ + 1]
  <2> DEFINE first == [Head(posts) EXCEPT !.since = @ + 1]
  <2>0. Head(posts) \in Posts
    BY <1>2, FirstPost
  <2>1. first \in Posts /\ first.game = Head(posts).game /\ first.by = Head(posts).by
    BY <2>0 DEF Posts
  <2>2. posts' = [posts EXCEPT ![1] = first]
    BY <1>2, FirstPost
  <2> HIDE DEF first
  <2> QED
    BY <1>2, <2>1, <2>2, RecountedFirst
<1> QED
  BY <1>1, <1>2 DEF Arrives

\* Nothing that a turn may follow from has changed.
LEMMA StillFollows ==
  ASSUME filed' = filed, NEW game, Follows(game)
  PROVE  Follows(game)'
BY DEF Follows

\* The calls as they were.
LEMMA QuietChat ==
  ASSUME ChatGameInv, ChatInv', call' = call, filed' = filed, cancelled' = cancelled, Recounted
  PROVE  ChatGameInv'
<1>1. CallInv'
  BY DEF ChatGameInv, CallInv, Recounted
<1>2. AloneInv'
  <2> SUFFICES ASSUME ~cancelled
               PROVE  /\ \A c, d \in Calls : Running(c)' /\ Running(d)' => c = d
                      /\ \A c \in Calls : call'[c].pc \in {"check", "write"} =>
                                             Follows(call[c].game)' /\ posts' = <<>>
                      /\ posts' # <<>> => OnePost'
    BY DEF AloneInv
  <2>1. \A c, d \in Calls : Running(c)' /\ Running(d)' => c = d
    BY DEF ChatGameInv, AloneInv, Running
  <2>2. ASSUME NEW c \in Calls, call'[c].pc \in {"check", "write"}
        PROVE  Follows(call[c].game)' /\ posts' = <<>>
    <3>1. Follows(call[c].game) /\ posts = <<>>
      BY <2>2 DEF ChatGameInv, AloneInv
    <3>2. posts' = <<>>
      BY <3>1 DEF Recounted
    <3> QED
      BY <3>1, <3>2 DEF Follows
  <2>3. ASSUME posts' # <<>> PROVE OnePost'
    <3>1. posts # <<>> /\ Len(posts') = Len(posts) /\ Head(posts').game = Head(posts).game
          /\ Head(posts').by = Head(posts).by
      BY <2>3 DEF Recounted
    <3>2. OnePost
      BY <3>1 DEF ChatGameInv, AloneInv
    <3>3. Follows(Head(posts).game)'
      BY <3>1, <3>2 DEF OnePost, Follows
    <3> QED
      BY <3>1, <3>2, <3>3 DEF OnePost
  <2> QED
    BY <2>1, <2>2, <2>3
<1> QED
  BY <1>1, <1>2 DEF ChatGameInv

\* A turn that begins leaves what it decided, and no other turn is under way.
LEMMA Decides ==
  ASSUME ChatGameInv, NEW c \in Calls, TurnBegins(c), NEW game \in SafeGames, Follows(game),
         NEW expect \in Archived \cup {Nothing, NoBoard}, Decided(c, game, expect),
         UNCHANGED <<chat, posts, phone, filed, cancelled>>
  PROVE  ChatGameInv'
<1>1. ChatInv'
  BY ChatStays DEF ChatGameInv
<1> DEFINE new == [pc |-> IF expect = NoBoard THEN "write" ELSE "check",
                   game |-> game, expect |-> expect]
<1>2. new \in Deciding /\ new.pc \in {"check", "write"} /\ new.game = game
  BY DEF Deciding
<1>3. call' = [call EXCEPT ![c] = new] /\ call'[c] = new
  BY DEF Decided, ChatGameInv, CallInv
<1>4. Follows(game)'
  BY StillFollows
<1>5. \A d \in Calls : call[d].pc \in {"idle", "queued"}
  BY DEF TurnBegins, NoTurnRuns
<1> HIDE DEF new
<1>6. CallInv'
  BY <1>2, <1>3 DEF ChatGameInv, CallInv
<1>7. ~cancelled => posts = <<>>
  BY <1>5 DEF ChatGameInv, AloneInv, OnePost
<1>8. \A d \in Calls : call'[d].pc \notin {"idle", "queued"} => d = c
  BY <1>3, <1>5 DEF ChatGameInv, CallInv
<1>9. AloneInv'
  <2>1. \A d, e \in Calls : Running(d)' /\ Running(e)' => d = e
    BY <1>8 DEF Running
  <2>2. \A d \in Calls : call'[d].pc \in {"check", "write"} => call'[d].game = game
    BY <1>2, <1>3, <1>8
  <2> QED
    BY <1>4, <1>7, <2>1, <2>2 DEF AloneInv, Follows
<1> QED
  BY <1>1, <1>6, <1>9 DEF ChatGameInv

\* A call that is over without a post, and the board that was filed last as it
\* was.
LEMMA EndsStep ==
  ASSUME ChatGameInv, NEW c \in Calls, Ends(c), call[c].pc # "posted",
         filed' = filed, cancelled' = cancelled, Recounted, ChatInv'
  PROVE  ChatGameInv'
<1>1. /\ call' \in [Calls -> {Idle} \cup Queued \cup Deciding \cup Posting]
      /\ \A d \in Calls : call'[d] = IF d = c THEN Idle ELSE call[d]
      /\ Idle.pc = "idle"
  BY DEF ChatGameInv, CallInv, Ends, Idle
<1>2. CallInv'
  BY <1>1 DEF CallInv, Recounted
<1>3. AloneInv'
  <2> SUFFICES ASSUME ~cancelled
               PROVE  /\ \A d, e \in Calls : Running(d)' /\ Running(e)' => d = e
                      /\ \A d \in Calls : call'[d].pc \in {"check", "write"} =>
                                             Follows(call[d].game)' /\ posts' = <<>>
                      /\ posts' # <<>> => OnePost'
    BY DEF AloneInv
  <2>1. \A d \in Calls : Running(d)' => Running(d) /\ d # c
    BY <1>1 DEF Running
  <2>2. ASSUME NEW d \in Calls, call'[d].pc \in {"check", "write"}
        PROVE  Follows(call[d].game)' /\ posts' = <<>>
    <3>1. call'[d] = call[d] /\ call[d].pc \in {"check", "write"}
      BY <1>1, <2>2
    <3>2. Follows(call[d].game) /\ posts = <<>>
      BY <3>1 DEF ChatGameInv, AloneInv
    <3>3. posts' = <<>>
      BY <3>2 DEF Recounted
    <3> QED
      BY <3>1, <3>2, <3>3 DEF Follows
  <2>3. ASSUME posts' # <<>> PROVE OnePost'
    <3>1. posts # <<>> /\ Len(posts') = Len(posts) /\ Head(posts').game = Head(posts).game
          /\ Head(posts').by = Head(posts).by
      BY <2>3 DEF Recounted
    <3>2. OnePost
      BY <3>1 DEF ChatGameInv, AloneInv
    <3>3. Follows(Head(posts).game)'
      BY <3>1, <3>2 DEF OnePost, Follows
    <3>4. PICK d \in Calls : Head(posts).by = {d} /\ call[d].pc = "posted"
      BY <3>2 DEF OnePost
    <3>5. call'[d] = call[d]
      BY <1>1, <3>4
    <3> QED
      BY <3>1, <3>2, <3>3, <3>4, <3>5 DEF OnePost
  <2>4. \A d, e \in Calls : Running(d) /\ Running(e) => d = e
    BY DEF ChatGameInv, AloneInv
  <2> QED
    BY <2>1, <2>2, <2>3, <2>4
<1> QED
  BY <1>2, <1>3 DEF ChatGameInv

LEMMA TypesStep ==
  ASSUME ChatGameInv, NEW text \in Texts, UserTypes(text)
  PROVE  ChatGameInv'
<1>1. Arrives(text) /\ UNCHANGED <<call, phone, filed, cancelled>>
  BY DEF UserTypes
<1>2. ChatInv'
  BY <1>1, Arrived DEF Arrives, ChatGameInv
<1>3. Recounted
  BY <1>1, Sooner DEF ChatGameInv, CallInv
<1> QED
  BY <1>1, <1>2, <1>3, QuietChat

LEMMA CalledStep ==
  ASSUME ChatGameInv, NEW c \in Calls, NEW input \in Inputs, ToolCalled(c, input)
  PROVE  ChatGameInv'
<1> DEFINE queued == [pc |-> "queued", input |-> input]
<1>1. /\ call' = [call EXCEPT ![c] = queued] /\ call[c] = Idle
      /\ UNCHANGED <<chat, posts, phone, filed, cancelled>>
  BY DEF ToolCalled
<1>2. queued \in Queued /\ queued.pc = "queued"
  BY DEF Queued
<1> HIDE DEF queued
<1>3. ChatInv'
  BY <1>1, ChatStays DEF ChatGameInv
<1>4. /\ CallInv'
      /\ \A d \in Calls : call'[d] = IF d = c THEN queued ELSE call[d]
  BY <1>1, <1>2 DEF ChatGameInv, CallInv
<1>5. AloneInv'
  <2> SUFFICES ASSUME ~cancelled
               PROVE  /\ \A d, e \in Calls : Running(d)' /\ Running(e)' => d = e
                      /\ \A d \in Calls : call'[d].pc \in {"check", "write"} =>
                                             Follows(call[d].game)' /\ posts = <<>>
                      /\ posts # <<>> => OnePost'
    BY <1>1 DEF AloneInv
  <2>1. \A d \in Calls : Running(d)' => Running(d)
    BY <1>2, <1>4 DEF Running
  <2>2. ASSUME NEW d \in Calls, call'[d].pc \in {"check", "write"}
        PROVE  Follows(call[d].game)' /\ posts = <<>>
    <3>1. call'[d] = call[d] /\ Follows(call[d].game) /\ posts = <<>>
      BY <1>2, <1>4, <2>2 DEF ChatGameInv, AloneInv
    <3> QED
      BY <1>1, <3>1 DEF Follows
  <2>3. ASSUME posts # <<>> PROVE OnePost'
    <3>1. OnePost
      BY <2>3 DEF ChatGameInv, AloneInv
    <3>2. PICK d \in Calls : Head(posts).by = {d} /\ call[d].pc = "posted"
      BY <3>1 DEF OnePost
    <3>3. call'[d] = call[d]
      BY <1>1, <1>4, <3>2 DEF Idle
    <3> QED
      BY <1>1, <3>1, <3>2, <3>3 DEF OnePost, Follows
  <2>4. \A d, e \in Calls : Running(d) /\ Running(e) => d = e
    BY DEF ChatGameInv, AloneInv
  <2> QED
    BY <2>1, <2>2, <2>3, <2>4
<1> QED
  BY <1>3, <1>4, <1>5 DEF ChatGameInv

LEMMA QueuedInput ==
  ASSUME ChatGameInv, NEW c \in Calls, TurnBegins(c)
  PROVE  call[c].input \in Inputs
BY DEF ChatGameInv, CallInv, TurnBegins, Idle, Queued, Deciding, Posting

LEMMA OpensStep ==
  ASSUME ChatGameInv, NEW c \in Calls, OpensGame(c)
  PROVE  ChatGameInv'
<1> DEFINE command == CommandOf(call[c].input)
<1>1. command.user \in Marks /\ command.level \in ChatLevels
  BY QueuedInput, CommandIsKnown DEF OpensGame, ChatGameInv
<1>2. PICK game \in startGame(command.user, command.level) : Decided(c, game, NoBoard)
  BY DEF OpensGame
<1> HIDE DEF command
<1>3. game \in SafeGames /\ Follows(game)
  BY <1>1, <1>2, StartIsSafe DEF Follows
<1> QED
  BY <1>2, <1>3, Decides DEF OpensGame

LEMMA PostsStep ==
  ASSUME ChatGameInv, NEW c \in Calls, PostsAgain(c)
  PROVE  ChatGameInv'
<1>1. HasBoard
  BY DEF PostsAgain, NothingToDo
<1>2. GameOf \in SafeGames /\ Follows(GameOf)
  BY <1>1, BoardIsFiled DEF ChatGameInv, Follows
<1> QED
  BY <1>2, Decides DEF PostsAgain

LEMMA PlaysStep ==
  ASSUME ChatGameInv, NEW c \in Calls, PlaysMove(c)
  PROVE  ChatGameInv'
<1> DEFINE command == CommandOf(call[c].input)
<1>1. HasBoard /\ command.kind = "move"
  BY DEF PlaysMove
<1>2. command.square \in Squares
  BY <1>1, QueuedInput, CommandIsKnown DEF PlaysMove, ChatGameInv
<1>3. PICK game \in playTurn(GameOf, command.square) : Decided(c, game, Newest)
  BY DEF PlaysMove
<1> HIDE DEF command
<1>4. GameOf = filed /\ filed \in SafeGames /\ filed \in Games
  BY <1>1, BoardIsFiled DEF ChatGameInv, SafeGames
<1>5. game \in SafeGames /\ Follows(game)
  BY <1>2, <1>3, <1>4, TurnIsSafe DEF Follows
<1>6. Newest \in Archived \cup {Nothing, NoBoard}
  BY NewestIsArchived DEF ChatGameInv
<1> QED
  BY <1>3, <1>5, <1>6, Decides DEF PlaysMove

LEMMA PostsSame ==
  ASSUME CallInv, posts' = posts
  PROVE  Recounted
BY DEF CallInv, Recounted

LEMMA ChecksStep ==
  ASSUME ChatGameInv, NEW c \in Calls, ChecksChat(c)
  PROVE  ChatGameInv'
<1>1. ChatInv' /\ UNCHANGED <<filed, posts, cancelled>>
  BY ChatStays DEF ChatGameInv, ChecksChat
<1>2. CASE Ends(c)
  BY <1>1, <1>2, EndsStep, PostsSame DEF ChecksChat, ChatGameInv
<1>3. CASE call' = [call EXCEPT ![c].pc = "write"]
  <2>1. call[c] \in Deciding
    BY DEF ChecksChat, ChatGameInv, CallInv, Idle, Queued, Deciding, Posting
  <2>2. [call[c] EXCEPT !.pc = "write"] \in Deciding
    BY <2>1 DEF Deciding
  <2>3. /\ CallInv'
        /\ \A d \in Calls : d # c => call'[d] = call[d]
        /\ call'[c].game = call[c].game
    BY <1>1, <1>3, <2>1, <2>2 DEF ChatGameInv, CallInv, Deciding
  <2>4. AloneInv'
    <3> SUFFICES ASSUME ~cancelled
                 PROVE  /\ \A d, e \in Calls : Running(d)' /\ Running(e)' => d = e
                        /\ \A d \in Calls : call'[d].pc \in {"check", "write"} =>
                                               Follows(call[d].game)' /\ posts = <<>>
                        /\ posts # <<>> => OnePost'
      BY <1>1 DEF AloneInv
    <3>1. posts = <<>>
      BY DEF ChecksChat, ChatGameInv, AloneInv
    <3>2. \A d \in Calls : Running(d)' => Running(d)
      BY <2>3 DEF Running, ChecksChat
    <3>3. ASSUME NEW d \in Calls, call'[d].pc \in {"check", "write"}
          PROVE  Follows(call[d].game)'
      <4>1. call'[d].game = call[d].game /\ call[d].pc \in {"check", "write"}
        BY <2>3, <3>3 DEF ChecksChat
      <4>2. Follows(call[d].game)
        BY <4>1 DEF ChatGameInv, AloneInv
      <4> QED
        BY <1>1, <4>1, <4>2 DEF Follows
    <3>4. \A d, e \in Calls : Running(d) /\ Running(e) => d = e
      BY DEF ChatGameInv, AloneInv
    <3> QED
      BY <3>1, <3>2, <3>3, <3>4
  <2> QED
    BY <1>1, <2>3, <2>4 DEF ChatGameInv
<1> QED
  BY <1>2, <1>3 DEF ChecksChat

\* The post of a call that is alone is alone.
LEMMA WritesStep ==
  ASSUME ChatGameInv, NEW c \in Calls, WritesBoard(c)
  PROVE  ChatGameInv'
<1> DEFINE post == [game |-> call[c].game, by |-> {c}, sent |-> FALSE, since |-> 0]
<1>1. /\ posts' = Append(posts, post) /\ call' = [call EXCEPT ![c] = [pc |-> "posted"]]
      /\ UNCHANGED <<chat, phone, filed, cancelled>>
  BY DEF WritesBoard
<1>2. call[c].pc = "write" /\ call[c].game \in SafeGames
  BY DEF WritesBoard, ChatGameInv, CallInv, Idle, Queued, Deciding, Posting
<1>3. post \in Posts /\ post.game = call[c].game /\ post.by = {c}
  BY <1>2 DEF Posts
<1> HIDE DEF post
<1>4. ChatInv'
  BY <1>1, ChatStays DEF ChatGameInv
<1>5. /\ CallInv'
      /\ call'[c].pc = "posted" /\ \A d \in Calls : d # c => call'[d] = call[d]
  BY <1>1, <1>3, AppendProperties DEF ChatGameInv, CallInv, Posting
<1>6. AloneInv'
  <2> SUFFICES ASSUME ~cancelled
               PROVE  /\ \A d, e \in Calls : Running(d)' /\ Running(e)' => d = e
                      /\ \A d \in Calls : call'[d].pc \notin {"check", "write"}
                      /\ OnePost'
    BY <1>1 DEF AloneInv
  <2>1. posts = <<>> /\ Follows(call[c].game)
    BY <1>2 DEF ChatGameInv, AloneInv
  <2>2. \A d \in Calls : d # c => ~ Running(d)
    BY <1>2 DEF ChatGameInv, AloneInv, Running
  <2>3. posts' = <<post>>
    BY <1>1, <2>1
  <2>4. Len(posts') = 1 /\ Head(posts') = post
    BY <2>3
  <2>5. Head(posts').game = call[c].game
    BY <1>3, <2>4
  <2>6. Follows(Head(posts).game)'
    BY <1>1, <2>1, <2>5 DEF Follows
  <2>7. OnePost'
    BY <1>3, <1>5, <2>4, <2>6 DEF OnePost
  <2>8. \A d \in Calls : Running(d)' => d = c
    BY <1>5, <2>2 DEF Running
  <2>9. \A d \in Calls : call'[d].pc \notin {"check", "write"}
    BY <1>5, <2>2 DEF Running
  <2> QED
    BY <2>7, <2>8, <2>9
<1> QED
  BY <1>4, <1>5, <1>6 DEF ChatGameInv

LEMMA CancelStep ==
  ASSUME ChatGameInv, NEW c \in Calls, TurnCancelled(c)
  PROVE  ChatGameInv'
<1>1. /\ call' = [call EXCEPT ![c] = Idle] /\ cancelled'
      /\ posts' = [i \in DOMAIN posts |-> [posts[i] EXCEPT !.by = @ \ {c}]]
      /\ UNCHANGED <<chat, phone, filed>>
  BY DEF TurnCancelled, Ends
<1>2. posts \in [1 .. Len(posts) -> Posts] /\ Len(posts) \in Nat
  BY LenProperties DEF ChatGameInv, CallInv
<1>3. \A i \in 1 .. Len(posts) : [posts[i] EXCEPT !.by = @ \ {c}] \in Posts
  BY <1>2 DEF Posts
<1>4. posts' \in [1 .. Len(posts) -> Posts]
  BY <1>1, <1>2, <1>3
<1>5. posts' \in Seq(Posts)
  BY <1>2, <1>4, SeqDef
<1> QED
  BY <1>1, <1>5, ChatStays DEF ChatGameInv, CallInv, AloneInv

\* The first post is over: the call that waits for it was the only one under
\* way, and now no board is.
LEMMA PostStep ==
  ASSUME ChatGameInv, NEW pc \in {"idle", "draw"}, posts # <<>>, PostEnds(pc),
         cancelled' = cancelled, ChatInv'
  PROVE  ChatGameInv'
<1>1. /\ posts' = Tail(posts)
      /\ call' = [c \in Calls |-> IF c \in Head(posts).by THEN [pc |-> pc] ELSE call[c]]
  BY DEF PostEnds
<1>2. posts \in Seq(Posts) /\ Tail(posts) \in Seq(Posts)
  BY FirstPost DEF ChatGameInv, CallInv
<1>3. [pc |-> pc] \in {Idle} \cup Posting
  BY DEF Idle, Posting
<1>4. CallInv'
  BY <1>1, <1>2, <1>3 DEF ChatGameInv, CallInv
<1>5. AloneInv'
  <2> SUFFICES ASSUME ~cancelled
               PROVE  /\ \A c, d \in Calls : Running(c)' /\ Running(d)' => c = d
                      /\ \A c \in Calls : call'[c].pc \notin {"check", "write"}
                      /\ posts' = <<>>
    BY DEF AloneInv
  <2>1. OnePost
    BY DEF ChatGameInv, AloneInv
  <2>2. posts' = <<>>
    BY <1>1, <1>2, <2>1, FirstPost DEF OnePost
  <2>3. PICK c \in Calls : Head(posts).by = {c} /\ call[c].pc = "posted"
    BY <2>1 DEF OnePost
  <2>4. \A d \in Calls : d # c => call'[d] = call[d]
    BY <1>1, <2>3
  <2>5. \A d \in Calls : d # c => ~ Running(d)
    BY <2>3 DEF ChatGameInv, AloneInv, Running
  <2>6. call'[c].pc = pc
    BY <1>1, <2>3
  <2> QED
    BY <2>2, <2>4, <2>5, <2>6 DEF Running
<1> QED
  BY <1>4, <1>5 DEF ChatGameInv

\* The board that is filed is the chat's only board.
LEMMA FiledStep ==
  ASSUME ChatGameInv, PostFiled
  PROVE  ChatGameInv'
<1> DEFINE game == Head(posts).game
           board == <<BoardMessage(game)>>
<1>1. posts # <<>> /\ filed' = game /\ UNCHANGED <<phone, cancelled>>
  BY DEF PostFiled
<1>2. PICK later \in 0 .. Min({Head(posts).since, Len(After)}) :
        chat' = NewestOf(board \o SubSeq(After, Len(After) - later + 1, Len(After)))
  BY DEF PostFiled
<1>3. Head(posts) \in Posts
  BY <1>1, FirstPost DEF ChatGameInv, CallInv
<1>4. game \in SafeGames /\ game \in Games /\ Head(posts).since \in Nat
  BY <1>3 DEF Posts, SafeGames
<1>5. After \in Seq(Texts) /\ Len(After) \in Nat
  BY AfterIsTyped, LenProperties DEF ChatGameInv
<1>6. later \in 0 .. Len(After)
  <2> DEFINE n == Len(After)  m == Head(posts).since
  <2>1. n \in Nat /\ m \in Nat /\ later \in 0 .. Min({m, n})
    BY <1>2, <1>4, <1>5
  <2> HIDE DEF n, m
  <2>2. \E k \in {m, n} : \A l \in {m, n} : k <= l
    BY <2>1
  <2>3. Min({m, n}) \in {m, n} /\ Min({m, n}) <= n
    BY <2>1, <2>2 DEF Min
  <2>4. later \in 0 .. n
    BY <2>1, <2>3
  <2> QED
    BY <2>4 DEF n
<1> DEFINE from == Len(After) - later + 1
           rest == SubSeq(After, from, Len(After))
           all == board \o rest
<1>7. rest \in Seq(Texts)
  <2>1. from \in Int /\ from >= 1 /\ Len(After) \in Int
    BY <1>5, <1>6
  <2>2. \A i \in from .. Len(After) : After[i] \in Texts
    BY <1>5, <2>1, ElementOfSeq
  <2> HIDE DEF from
  <2> QED
    BY <2>1, <2>2, SubSeqProperties
<1>8. /\ board \in Seq(Archived) /\ Len(board) = 1 /\ board[1] = BoardMessage(game)
      /\ rest \in Seq(Archived)
  <2>1. BoardMessage(game) \in Archived /\ Texts \subseteq Archived
    BY <1>4 DEF Archived
  <2>2. rest \in Seq(Archived)
    BY <1>7, <2>1, SeqMonotonic
  <2> HIDE DEF rest, game
  <2> QED
    BY <2>1, <2>2
<1> HIDE DEF rest, board, game
<1>9. /\ all \in Seq(Archived) /\ Len(all) = 1 + Len(rest) /\ Len(rest) \in Nat
      /\ \A i \in 1 .. Len(all) : all[i] = IF i <= 1 THEN board[i] ELSE rest[i - 1]
  <2>1. /\ all \in Seq(Archived) /\ Len(all) = Len(board) + Len(rest)
        /\ \A i \in 1 .. Len(board) + Len(rest) :
              all[i] = IF i <= Len(board) THEN board[i] ELSE rest[i - Len(board)]
    BY <1>8, ConcatProperties
  <2>2. Len(rest) \in Nat
    BY <1>8, LenProperties
  <2> HIDE DEF all
  <2> QED
    BY <1>8, <2>1, <2>2
<1>10. all # <<>>
  BY <1>9, EmptySeq
<1>11. chat' = NewestOf(all)
  BY <1>2 DEF rest
<1> HIDE DEF all
<1>12. ASSUME NEW i \in 1 .. Len(all)
       PROVE  all[i] \in Texts \/ (i = 1 /\ all[i] = BoardMessage(game) /\ game \in SafeGames)
  <2>1. CASE i = 1
    BY <1>4, <1>8, <1>9, <2>1
  <2>2. CASE i # 1
    <3>1. i - 1 \in 1 .. Len(rest) /\ all[i] = rest[i - 1]
      BY <1>9, <2>2
    <3> QED
      BY <1>7, <3>1, ElementOfSeq
  <2> QED
    BY <2>1, <2>2
<1>13. Shows(all, game)
  BY <1>9, <1>12 DEF Shows
<1>14. Shows(chat', game)
  BY <1>10, <1>11, <1>13, Windowed
<1>15. ChatInv'
  BY <1>1, <1>4, <1>14 DEF ChatInv, ChatGameInv
<1>16. \E pc \in {"idle", "draw"} : PostEnds(pc)
  BY DEF PostFiled
<1> QED
  BY <1>1, <1>15, <1>16, PostStep

LEMMA DeliveredStep ==
  ASSUME ChatGameInv, PostDelivered
  PROVE  ChatGameInv'
<1> DEFINE first == [Head(posts) EXCEPT !.sent = TRUE]
<1>1. /\ posts # <<>> /\ posts' = [posts EXCEPT ![1].sent = TRUE] /\ phone' = Head(posts).game
      /\ UNCHANGED <<chat, call, filed, cancelled>>
  BY DEF PostDelivered
<1>2. Head(posts) \in Posts /\ Head(posts) = posts[1]
  BY <1>1, FirstPost DEF ChatGameInv, CallInv
<1>3. /\ first \in Posts /\ first.game = Head(posts).game /\ first.by = Head(posts).by
      /\ phone' \in SafeGames
  BY <1>1, <1>2 DEF Posts
<1>4. posts' = [posts EXCEPT ![1] = first]
  BY <1>1, <1>2
<1> HIDE DEF first
<1>5. Recounted
  BY <1>1, <1>3, <1>4, RecountedFirst DEF ChatGameInv, CallInv
<1>6. ChatInv'
  BY <1>1, <1>3 DEF ChatGameInv, ChatInv
<1> QED
  BY <1>1, <1>5, <1>6, QuietChat

LEMMA DrawsStep ==
  ASSUME ChatGameInv, NEW c \in Calls, DrawsBoard(c)
  PROVE  ChatGameInv'
<1>1. Ends(c) /\ call[c].pc = "draw" /\ UNCHANGED <<phone, filed, cancelled>>
  BY DEF DrawsBoard
<1>2. Note \in Texts
  BY DEF Texts
<1>3. CASE UNCHANGED <<chat, posts>>
  BY <1>1, <1>3, ChatStays, PostsSame, EndsStep DEF ChatGameInv
<1>4. CASE Arrives(Note)
  <2>1. ChatInv'
    BY <1>1, <1>2, <1>4, Arrived DEF Arrives, ChatGameInv
  <2>2. Recounted
    BY <1>4, Sooner DEF ChatGameInv, CallInv
  <2> QED
    BY <1>1, <2>1, <2>2, EndsStep
<1> QED
  BY <1>3, <1>4 DEF DrawsBoard

LEMMA ChatGameSteps == ChatGameInv /\ [ChatNext]_gameVars => ChatGameInv'
<1> SUFFICES ASSUME ChatGameInv, [ChatNext]_gameVars PROVE ChatGameInv'
  OBVIOUS
<1>1. CASE ConsoleSwitches \/ UNCHANGED gameVars
  <2>1. UNCHANGED <<chat, call, posts, phone, filed, cancelled>>
    BY <1>1 DEF ConsoleSwitches, gameVars
  <2> QED
    BY <2>1, ChatStays, PostsSame, QuietChat DEF ChatGameInv
<1>2. ASSUME NEW c \in Calls, StandsDown(c) \/ WriteFails(c) PROVE ChatGameInv'
  <2>1. /\ Ends(c) /\ call[c].pc # "posted"
        /\ UNCHANGED <<chat, posts, phone, filed, cancelled>>
    BY <1>2 DEF StandsDown, WriteFails, TurnBegins
  <2> QED
    BY <2>1, ChatStays, PostsSame, EndsStep DEF ChatGameInv
<1>3. CASE PostRefused \/ PostUnfiled
  <2>1. posts # <<>> /\ PostEnds("idle") /\ UNCHANGED <<chat, phone, filed, cancelled>>
    BY <1>3 DEF PostRefused, PostUnfiled
  <2> QED
    BY <2>1, ChatStays, PostStep DEF ChatGameInv
<1> QED
  BY <1>1, <1>2, <1>3, TypesStep, CalledStep, OpensStep, PostsStep, PlaysStep, ChecksStep,
     WritesStep, CancelStep, DrawsStep, DeliveredStep, FiledStep DEF ChatNext

\* The archive shows the agent at most one board, the one filed last; while no
\* call was cancelled with its post under way, one call at a time is deciding
\* or waiting, and what it posts is the game filed last or one that follows it;
\* and no board that is decided on, posted, sent or filed is one that the
\* solved level loses (whatsapp_tictactoe.ts).
THEOREM ChatGameInvariant == ChatSpec => []ChatGameInv
BY ChatStarts, ChatGameSteps, PTL DEF ChatSpec

LEMMA OnlyFiled ==
  ASSUME [ChatNext]_gameVars, filed' # filed
  PROVE  PostFiled
BY DEF ChatNext, gameVars, UserTypes, ConsoleSwitches, ToolCalled, StandsDown, OpensGame,
       PostsAgain, PlaysMove, ChecksChat, WritesBoard, WriteFails, TurnCancelled, PostRefused,
       PostDelivered, PostUnfiled, DrawsBoard

LEMMA ChatStepRefines ==
  ChatGameInv /\ [ChatNext]_gameVars => [cancelled \/ Promised!GameNext]_filed
<1> SUFFICES ASSUME ChatGameInv, [ChatNext]_gameVars, filed' # filed, ~cancelled
             PROVE  Promised!GameNext
  OBVIOUS
<1>1. posts # <<>> /\ filed' = Head(posts).game
  BY OnlyFiled DEF PostFiled
<1>2. Follows(Head(posts).game)
  BY <1>1 DEF ChatGameInv, AloneInv, OnePost
<1>3. filed \in Games => filed # NoBoard
  BY ChatAssumption
<1> QED
  BY <1>1, <1>2, <1>3, SameRules, SameBoards
     DEF Follows, Promised!GameNext, Promised!GameStart, Promised!GameTurn

\* However the calls overlap, whatever is typed meanwhile and whichever boards
\* are refused, or sent and not filed, the boards the archive has are those of
\* one game after another, as long as no call was cancelled with its post
\* under way (whatsapp_tictactoe.ts).
THEOREM OneGameIsPlayed == ChatSpec => OneGameAtATime
<1>1. ChatInit => Promised!GameInit
  BY DEF ChatInit, Promised!GameInit
<1> QED
  BY <1>1, ChatGameInvariant, ChatStepRefines, PTL DEF ChatSpec, OneGameAtATime

LEMMA SafeIsNotLost ==
  ASSUME NEW game \in SafeGames, game.level = "hard"
  PROVE  ~ Won(game.board, game.user)
BY RightIsNotLost DEF SafeGames, Games

\* So no board that is sent to the phone or filed in the archive, by whichever
\* call, after whatever failure, shows the solved level beaten
\* (whatsapp_tictactoe.ts, tictactoe.ts:178).
THEOREM TheChatIsNeverLost == ChatSpec => []TheChatIsSafe
<1>1. ChatGameInv => TheChatIsSafe
  <2> SUFFICES ASSUME ChatGameInv PROVE TheChatIsSafe
    OBVIOUS
  <2>1. filed \in SafeGames \cup {NoBoard} /\ phone \in SafeGames \cup {NoBoard}
    BY DEF ChatGameInv, ChatInv
  <2>2. filed # NoBoard /\ filed.level = "hard" => ~ Promised!Won(filed.board, filed.user)
    BY <2>1, SafeIsNotLost DEF Promised!Won, Won, Promised!LINES, LINES
  <2>3. phone # NoBoard /\ phone.level = "hard" => ~ OnThePhone!Won(phone.board, phone.user)
    BY <2>1, SafeIsNotLost DEF OnThePhone!Won, Won, OnThePhone!LINES, LINES
  <2> QED
    BY <2>2, <2>3 DEF TheChatIsSafe, Promised!HardNeverLoses, OnThePhone!HardNeverLoses
<1> QED
  BY <1>1, ChatGameInvariant, PTL

-----------------------------------------------------------------------------
\* A file with the values of a batch put in.
Put(read, batch) == [k \in Keys |-> IF k \in DOMAIN batch THEN batch[k] ELSE read[k]]

\* A save before it has read the file, and one that has its text.
AskedFor(batch) == [step |-> "asked", batch |-> batch]
Saving(step, batch, read, text, file) ==
    [step |-> step, batch |-> batch, read |-> read, text |-> text, file |-> file]

\* How far a save that met no other has come, and what the files are by then.
SaveInv(save, file, sibling) ==
    /\ save = Saving(save.step, save.batch, save.read, save.text, save.file)
    /\ save.step \in {"begin", "tempOpen", "written", "fell", "inPlace", "envOpen"}
    /\ save.text = Put(save.read, save.batch)
    /\ save.step = "tempOpen" => save.file = "tmp" /\ sibling = Truncated
    /\ save.step = "written" => sibling = save.text
    /\ save.step = "envOpen" => save.file = "env" /\ file = Truncated

Own(save, file, sibling) == save = AskedFor(save.batch) \/ SaveInv(save, file, sibling)

NotSaving(s) == saver[s].step = "idle"

\* A save is over, or has met another, or is the only one under way and owns
\* the files.
SettingsInv ==
    /\ DOMAIN saver = Savers
    /\ \A s \in Savers :
          \/ NotSaving(s) \/ s \in crossed
          \/ (\A o \in Savers \ {s} : NotSaving(o)) /\ Own(saver[s], env, tmp)

-----------------------------------------------------------------------------

LEMMA InitSettings == SettingsInit => SettingsInv
BY DEF SettingsInit, SettingsInv, NoSave, NotSaving

\* A step of one save, which leaves those that are over as they are.
LEMMA OneSave ==
    ASSUME SettingsInv, NEW s \in Savers, ~ NotSaving(s), crossed' = crossed,
           DOMAIN saver' = Savers, \A t \in Savers \ {s} : NotSaving(t) => NotSaving(t)',
           s \notin crossed => NotSaving(s)' \/ Own(saver'[s], env', tmp')
    PROVE  SettingsInv'
<1> SUFFICES ASSUME NEW t \in Savers, t \notin crossed, ~ NotSaving(t)'
             PROVE  (\A o \in Savers \ {t} : NotSaving(o)') /\ Own(saver'[t], env', tmp')
  BY DEF SettingsInv
<1>1. t = s
  BY DEF SettingsInv
<1>2. \A o \in Savers \ {s} : NotSaving(o)
  BY <1>1 DEF SettingsInv
<1> QED BY <1>1, <1>2

LEMMA SavingFields ==
    ASSUME NEW step, NEW batch, NEW read, NEW text, NEW file, NEW save,
           save = Saving(step, batch, read, text, file)
    PROVE  /\ save.step = step /\ save.batch = batch /\ save.read = read
           /\ save.text = text /\ save.file = file
BY DEF Saving

\* What a save that met no other owns.
LEMMA Owns ==
    ASSUME SettingsInv, NEW s \in Savers \ crossed, ~ NotSaving(s), saver[s].step # "asked"
    PROVE  SaveInv(saver[s], env, tmp)
<1>1. Own(saver[s], env, tmp)
  BY DEF SettingsInv
<1>2. saver[s] # AskedFor(saver[s].batch)
  <2>1. AskedFor(saver[s].batch).step = "asked"
    BY DEF AskedFor
  <2> QED BY <2>1
<1> QED BY <1>1, <1>2 DEF Own

\* A save at another step, with another file under its handle.
Moved(save, to, handle) == [save EXCEPT !.step = to, !.file = handle]

LEMMA MovedIs ==
    ASSUME NEW save, NEW to, NEW handle,
           save = Saving(save.step, save.batch, save.read, save.text, save.file)
    PROVE  Moved(save, to, handle) = Saving(to, save.batch, save.read, save.text, handle)
<1> DEFINE x == Moved(save, to, handle)
           y == Saving(to, save.batch, save.read, save.text, handle)
           fields == {"step", "batch", "read", "text", "file"}
<1>1. DOMAIN x = fields /\ DOMAIN y = fields
  BY DEF Saving, Moved
<1>2. /\ x["step"] = y["step"] /\ x["batch"] = y["batch"] /\ x["read"] = y["read"]
      /\ x["text"] = y["text"] /\ x["file"] = y["file"]
  BY DEF Saving, Moved
<1>3. x = [i \in DOMAIN x |-> x[i]] /\ y = [i \in DOMAIN y |-> y[i]]
  BY DEF Saving, Moved
<1> HIDE DEF x, y
<1>4. x = y
  BY <1>1, <1>2, <1>3
<1> QED BY <1>4 DEF x, y

\* One save moves to a step at which the files are as they should be.
LEMMA MovesOn ==
    ASSUME SettingsInv, NEW s \in Savers, ~ NotSaving(s), saver[s].step # "asked", crossed' = crossed,
           NEW to \in {"begin", "tempOpen", "written", "fell", "inPlace", "envOpen"}, NEW handle,
           saver' = [saver EXCEPT ![s] = Moved(saver[s], to, handle)],
           to = "tempOpen" => handle = "tmp" /\ tmp' = Truncated,
           to = "written" /\ s \notin crossed => tmp' = saver[s].text,
           to = "envOpen" => handle = "env" /\ env' = Truncated
    PROVE  SettingsInv'
<1> DEFINE was == saver[s]
<1>1. DOMAIN saver' = Savers /\ \A t \in Savers \ {s} : NotSaving(t) => NotSaving(t)'
  BY DEF SettingsInv, NotSaving
<1>2. saver'[s] = Moved(was, to, handle)
  BY DEF SettingsInv
<1>3. ASSUME s \notin crossed PROVE SaveInv(saver'[s], env', tmp')
  <2>1. SaveInv(was, env, tmp)
    BY <1>3, Owns
  <2>2. /\ was = Saving(was.step, was.batch, was.read, was.text, was.file)
        /\ was.text = Put(was.read, was.batch)
    BY <2>1 DEF SaveInv
  <2>3. saver'[s] = Saving(to, was.batch, was.read, was.text, handle)
    BY <1>2, <2>2, MovedIs
  <2> DEFINE now == saver'[s]
  <2>4. /\ now.step = to /\ now.batch = was.batch /\ now.read = was.read
        /\ now.text = was.text /\ now.file = handle
    BY <2>3, SavingFields
  <2>5. now = Saving(now.step, now.batch, now.read, now.text, now.file)
    BY <2>3, <2>4
  <2> HIDE DEF now
  <2>6. SaveInv(now, env', tmp')
    BY <1>3, <2>2, <2>4, <2>5 DEF SaveInv, was
  <2> QED BY <2>6 DEF now
<1> QED BY <1>1, <1>3, OneSave DEF Own

\* One save is over.
LEMMA OneSaveEnds ==
    ASSUME SettingsInv, NEW s \in Savers, ~ NotSaving(s), crossed' = crossed,
           saver' = [saver EXCEPT ![s] = NoSave]
    PROVE  SettingsInv'
<1>1. DOMAIN saver' = Savers /\ \A t \in Savers \ {s} : NotSaving(t) => NotSaving(t)'
  BY DEF SettingsInv, NotSaving
<1>2. NotSaving(s)'
  BY DEF SettingsInv, NotSaving, NoSave
<1> QED BY <1>1, <1>2, OneSave

-----------------------------------------------------------------------------

LEMMA Asking ==
    ASSUME SettingsInv, NEW s \in Savers, NEW b \in Batches, savePreferences(s, b)
    PROVE  SettingsInv'
<1>1. saver' = [saver EXCEPT ![s] = AskedFor(b)] /\ DOMAIN saver' = Savers
  BY DEF savePreferences, AskedFor, SettingsInv
<1>2. saver'[s] = AskedFor(b) /\ \A t \in Savers \ {s} : saver'[t] = saver[t]
  BY <1>1 DEF SettingsInv
<1>3. CASE UnderWay = {}
  <2>1. \A t \in Savers : NotSaving(t)
    BY <1>3 DEF UnderWay, NotSaving
  <2>2. AskedFor(b).batch = b
    BY DEF AskedFor
  <2>3. Own(saver'[s], env', tmp')
    BY <1>2, <2>2 DEF Own
  <2>4. \A t \in Savers \ {s} : NotSaving(t)'
    BY <1>2, <2>1 DEF NotSaving
  <2> QED BY <1>1, <2>3, <2>4 DEF SettingsInv
<1>4. CASE UnderWay # {}
  <2>1. crossed' = crossed \cup UnderWay \cup {s}
    BY <1>4 DEF savePreferences
  <2>2. ASSUME NEW t \in Savers PROVE NotSaving(t)' \/ t \in crossed'
    BY <1>2, <2>1 DEF UnderWay, NotSaving
  <2> QED BY <1>1, <2>2 DEF SettingsInv
<1> QED BY <1>3, <1>4

LEMMA Applying ==
    ASSUME SettingsInv, NEW s \in Savers, Applies(s)
    PROVE  SettingsInv'
<1> DEFINE batch == saver[s].batch
<1>1. PICK text \in applySettings(env, batch) :
        saver' = [saver EXCEPT ![s] = Saving("begin", batch, env, text, "closed")]
  BY DEF Applies, Saving
<1>2. text = Put(env, batch)
  BY <1>1, Zenon DEF applySettings, setEnvValues, Put
<1>3. DOMAIN saver' = Savers /\ saver'[s] = Saving("begin", batch, env, text, "closed")
      /\ \A t \in Savers \ {s} : NotSaving(t) => NotSaving(t)'
  BY <1>1 DEF SettingsInv, NotSaving
<1> DEFINE now == saver'[s]
<1>4. /\ now.step = "begin" /\ now.batch = batch /\ now.read = env
      /\ now.text = text /\ now.file = "closed"
  BY <1>3, SavingFields
<1>5. now = Saving(now.step, now.batch, now.read, now.text, now.file)
  BY <1>3, <1>4
<1> HIDE DEF now, batch
<1>6. SaveInv(now, env', tmp')
  BY <1>2, <1>4, <1>5 DEF SaveInv
<1>7. ~ NotSaving(s) /\ crossed' = crossed
  BY DEF Applies, NotSaving
<1> QED BY <1>3, <1>6, <1>7, OneSave DEF Own, now

LEMMA SaveEnds ==
    ASSUME SettingsInv, NEW s \in Savers, Refuses(s) \/ InPlaceFails(s) \/ WritesInPlace(s)
    PROVE  SettingsInv'
<1>1. ~ NotSaving(s) /\ crossed' = crossed /\ saver' = [saver EXCEPT ![s] = NoSave]
  BY DEF Refuses, InPlaceFails, WritesInPlace, NotSaving
<1> QED BY <1>1, OneSaveEnds

LEMMA Falling ==
    ASSUME SettingsInv, NEW s \in Savers, TempFails(s)
    PROVE  SettingsInv'
<1>1. /\ ~ NotSaving(s) /\ saver[s].step # "asked" /\ crossed' = crossed
      /\ saver' = [saver EXCEPT ![s] = Moved(saver[s], "fell", "closed")]
  BY DEF TempFails, Moved, NotSaving
<1> QED BY <1>1, MovesOn

LEMMA OpeningTemp ==
    ASSUME SettingsInv, NEW s \in Savers, OpensTemp(s)
    PROVE  SettingsInv'
<1>1. ~ NotSaving(s) /\ saver[s].step # "asked" /\ crossed' = crossed /\ tmp' = Truncated
  BY DEF OpensTemp, NotSaving
<1>2. saver' = [saver EXCEPT ![s].step = "tempOpen", ![s].file = "tmp"]
  BY DEF OpensTemp
<1>3. saver' = [saver EXCEPT ![s] = Moved(saver[s], "tempOpen", "tmp")]
  BY <1>2 DEF Moved
<1> QED BY <1>1, <1>3, MovesOn

LEMMA OpeningInPlace ==
    ASSUME SettingsInv, NEW s \in Savers, OpensInPlace(s)
    PROVE  SettingsInv'
<1>1. ~ NotSaving(s) /\ saver[s].step # "asked" /\ crossed' = crossed /\ env' = Truncated
  BY DEF OpensInPlace, NotSaving
<1>2. saver' = [saver EXCEPT ![s].step = "envOpen", ![s].file = "env"]
  BY DEF OpensInPlace
<1>3. saver' = [saver EXCEPT ![s] = Moved(saver[s], "envOpen", "env")]
  BY <1>2 DEF Moved
<1> QED BY <1>1, <1>3, MovesOn

\* A save that met no other writes on an empty file.
LEMMA WritesItsText ==
    ASSUME SettingsInv, NEW s \in Savers \ crossed, WritesTemp(s) \/ WritesInPlace(s)
    PROVE  /\ WritesTemp(s) => tmp' = saver[s].text
           /\ WritesInPlace(s) => env' = saver[s].text
<1>1. SaveInv(saver[s], env, tmp)
  BY Owns DEF WritesTemp, WritesInPlace, NotSaving
<1>2. Overwritten(Truncated, saver[s].text) = {saver[s].text}
  BY DEF Overwritten
<1>3. CASE WritesTemp(s)
  <2>1. saver[s].file = "tmp" /\ tmp = Truncated /\ saver[s].step = "tempOpen" /\ Lands(s)
    BY <1>1, <1>3 DEF SaveInv, WritesTemp
  <2>2. tmp' \in Overwritten(tmp, saver[s].text)
    BY <2>1 DEF Lands
  <2> QED BY <1>2, <2>1, <2>2 DEF WritesInPlace
<1>4. CASE WritesInPlace(s)
  <2>1. saver[s].file = "env" /\ env = Truncated /\ saver[s].step = "envOpen" /\ Lands(s)
    BY <1>1, <1>4 DEF SaveInv, WritesInPlace
  <2>2. env' \in Overwritten(env, saver[s].text)
    BY <2>1 DEF Lands
  <2> QED BY <1>2, <2>1, <2>2 DEF WritesTemp
<1> QED BY <1>3, <1>4

LEMMA Writing ==
    ASSUME SettingsInv, NEW s \in Savers, WritesTemp(s)
    PROVE  SettingsInv'
<1>1. /\ ~ NotSaving(s) /\ saver[s].step # "asked" /\ crossed' = crossed
      /\ saver' = [saver EXCEPT ![s] = Moved(saver[s], "written", "closed")]
  BY DEF WritesTemp, Moved, NotSaving
<1>2. s \notin crossed => tmp' = saver[s].text
  BY WritesItsText
<1> QED BY <1>1, <1>2, MovesOn

\* The sibling takes the place of `.env`; a handle on the old one names no path.
LEMMA Renaming ==
    ASSUME SettingsInv, NEW s \in Savers, Renames(s)
    PROVE  SettingsInv'
<1> DEFINE after == Reopened([tmp |-> "env", env |-> "gone", gone |-> "gone"])
<1>1. saver' = [after EXCEPT ![s] = NoSave] /\ DOMAIN after = Savers
  BY DEF Renames, Reopened
<1>2. \A t \in Savers : NotSaving(t) => after[t] = saver[t]
  BY DEF Reopened, NotSaving
<1> HIDE DEF after
<1>3. DOMAIN saver' = Savers /\ saver'[s] = NoSave
      /\ \A t \in Savers \ {s} : saver'[t] = after[t]
  BY <1>1
<1>4. NotSaving(s)' /\ \A t \in Savers \ {s} : NotSaving(t) => NotSaving(t)'
  BY <1>2, <1>3 DEF NotSaving, NoSave
<1>5. ~ NotSaving(s) /\ crossed' = crossed
  BY DEF Renames, NotSaving
<1> QED BY <1>3, <1>4, <1>5, OneSave

LEMMA Unlinking ==
    ASSUME SettingsInv, NEW s \in Savers, Unlinks(s)
    PROVE  SettingsInv'
<1> DEFINE after == Reopened([tmp |-> "gone", env |-> "env", gone |-> "gone"])
           was == saver[s]
           now == saver'[s]
<1>1. saver' = [after EXCEPT ![s].step = "inPlace"] /\ DOMAIN after = Savers
  BY DEF Unlinks, Reopened
<1>2. \A t \in Savers : NotSaving(t) => after[t] = saver[t]
  BY DEF Reopened, NotSaving
<1>3. after[s] = was /\ was.step = "fell"
  BY DEF Reopened, Unlinks
<1> HIDE DEF after, was
<1>4. DOMAIN saver' = Savers /\ saver'[s] = [was EXCEPT !.step = "inPlace"]
      /\ \A t \in Savers \ {s} : saver'[t] = after[t]
  BY <1>1, <1>3
<1>5. \A t \in Savers \ {s} : NotSaving(t) => NotSaving(t)'
  BY <1>2, <1>4 DEF NotSaving
<1>6. ~ NotSaving(s) /\ crossed' = crossed /\ saver[s].step # "asked"
  BY DEF Unlinks, NotSaving
<1>7. ASSUME s \notin crossed PROVE Own(saver'[s], env', tmp')
  <2>1. /\ was = Saving(was.step, was.batch, was.read, was.text, was.file)
        /\ was.text = Put(was.read, was.batch)
    BY <1>6, <1>7, Owns DEF SaveInv, was
  <2>2. now = Saving("inPlace", was.batch, was.read, was.text, was.file)
    BY <1>4, <2>1 DEF Saving
  <2>3. /\ now.step = "inPlace" /\ now.batch = was.batch /\ now.read = was.read
        /\ now.text = was.text /\ now.file = was.file
    BY <2>2, SavingFields
  <2>4. now = Saving(now.step, now.batch, now.read, now.text, now.file)
    BY <2>2, <2>3
  <2> HIDE DEF now
  <2>5. SaveInv(now, env', tmp')
    BY <2>1, <2>3, <2>4 DEF SaveInv
  <2> QED BY <2>5 DEF Own, now
<1> QED BY <1>4, <1>5, <1>6, <1>7, OneSave

LEMMA Stopping ==
    ASSUME SettingsInv, AgentStops
    PROVE  SettingsInv'
BY DEF AgentStops, SettingsInv, NotSaving, NoSave

LEMMA NextSettings == SettingsInv /\ [SettingsNext]_settingVars => SettingsInv'
<1> SUFFICES ASSUME SettingsInv, [SettingsNext]_settingVars PROVE SettingsInv'
  OBVIOUS
<1>1. ASSUME NEW s \in Savers, NEW b \in Batches, savePreferences(s, b) PROVE SettingsInv'
  BY <1>1, Asking
<1>2. ASSUME NEW s \in Savers, Applies(s) PROVE SettingsInv'
  BY <1>2, Applying
<1>3. ASSUME NEW s \in Savers, Refuses(s) \/ InPlaceFails(s) \/ WritesInPlace(s)
      PROVE  SettingsInv'
  BY <1>3, SaveEnds
<1>4. ASSUME NEW s \in Savers, OpensTemp(s) \/ OpensInPlace(s) PROVE SettingsInv'
  BY <1>4, OpeningTemp, OpeningInPlace
<1>5. ASSUME NEW s \in Savers, WritesTemp(s) PROVE SettingsInv'
  BY <1>5, Writing
<1>6. ASSUME NEW s \in Savers, Renames(s) PROVE SettingsInv'
  BY <1>6, Renaming
<1>7. ASSUME NEW s \in Savers, TempFails(s) PROVE SettingsInv'
  BY <1>7, Falling
<1>8. ASSUME NEW s \in Savers, Unlinks(s) PROVE SettingsInv'
  BY <1>8, Unlinking
<1>9. CASE AgentStops
  BY <1>9, Stopping
<1>10. CASE UNCHANGED settingVars
  BY <1>10 DEF settingVars, SettingsInv, NotSaving
<1> QED
  BY <1>1, <1>2, <1>3, <1>4, <1>5, <1>6, <1>7, <1>8, <1>9, <1>10 DEF SettingsNext

\* A save that met no other is the only one under way, and the file or its
\* sibling is at each step what that step makes it (writeEnvFileSafely).
THEOREM SettingsInvariant == SettingsSpec => []SettingsInv
<1> QED BY InitSettings, NextSettings, PTL DEF SettingsSpec

\* Whatever the form, the kinds, the file, and what earlier saves left: a save
\* that met no other puts its batch in and leaves the rest (env-file.ts:23).
THEOREM SavesLandWhole == SettingsSpec => AloneLandsWhole
<1>1. SettingsInv /\ [SettingsNext]_settingVars =>
        [\A s \in Savers \ crossed : Saved(s) =>
           env' = [k \in Keys |-> IF k \in DOMAIN saver[s].batch
                                 THEN saver[s].batch[k] ELSE saver[s].read[k]]]_settingVars
  <2> SUFFICES ASSUME SettingsInv, NEW s \in Savers \ crossed, Saved(s)
               PROVE  env' = Put(saver[s].read, saver[s].batch)
    BY DEF Put
  <2>1. SaveInv(saver[s], env, tmp)
    BY Owns DEF Saved, Renames, WritesInPlace, NotSaving
  <2>2. saver[s].text = Put(saver[s].read, saver[s].batch)
    BY <2>1 DEF SaveInv
  <2>3. CASE Renames(s)
    BY <2>1, <2>2, <2>3 DEF Renames, SaveInv
  <2>4. CASE WritesInPlace(s)
    BY <2>2, <2>4, WritesItsText
  <2> QED BY <2>3, <2>4 DEF Saved
<1> QED BY <1>1, SettingsInvariant, PTL DEF SettingsSpec, AloneLandsWhole

=============================================================================
