----------------------------- MODULE ToolProofs -----------------------------
(***************************************************************************)
(* Two tools of the agent: what it is told of a search, and what it says.  *)
(*                                                                         *)
(* Search: what a session is told of its search is true of the rows it     *)
(* found, for any number of sessions and messages, any window, limits and  *)
(* number of open sets, and wherever it resumes.  A set and the session    *)
(* that opened it agree on the rows; what a session has read that skipped  *)
(* nothing is a beginning of them (Begun).                                 *)
(*                                                                         *)
(* Speech: the requests that chunkText makes of a text are the text, for   *)
(* every text and limit.  While a sentence is taken, the full requests say *)
(* the text up to a place, and the one in hand up to the next (Hand); the  *)
(* loop over a sentence keeps it (CutsKeepsHand), taking a sentence gets   *)
(* from its beginning to its end (TakesEnds), and so the last sentence     *)
(* ends with the text (TakenEnds).                                         *)
(***************************************************************************)
EXTENDS SearchPages, Voice, Induction, SequenceTheorems, FiniteSetTheorems, TLAPS

SetRecord == [id : Nat, rows : Seq(Nat), head : Nat]

AskedRecord == [pc : {"asked"}, limit : Nat \ {0}, anyMatched : BOOLEAN,
                hits : SUBSET Seq(Nat), coverage : SUBSET Nat]

\* Rows at positions.
Pieces == UNION {[D -> Nat] : D \in SUBSET Nat}

ToldRecord == [pc : {"told"}, verdict : {"none", "all", "part", "refused"},
               read : Pieces, next : Nat, found : Seq(Nat), id : Nat, skipped : BOOLEAN,
               anyMatched : BOOLEAN]

\* What matched as the session asked still does, and is in both answers.
AskedOK(r, matched) ==
    r.anyMatched => matched > 0 /\ <<>> \notin r.hits /\ 0 \notin r.coverage

\* Read from the first on, as far as the answer says.
Begun(verdict, read, next, found) ==
    /\ \E n \in 0 .. Len(found) : DOMAIN read = 1 .. n
    /\ verdict = "all" => DOMAIN read = 1 .. Len(found)
    /\ verdict = "part" => next \in 1 .. Len(found) - 1 /\ 1 .. next \subseteq DOMAIN read

ToldOK(r, last) ==
    /\ r.id <= last
    /\ r.verdict = "none" => ~r.anyMatched
    /\ IsRestriction(r.read, r.found)
    /\ r.skipped \/ Begun(r.verdict, r.read, r.next, r.found)

ReaderOK(r, matched, last) ==
    \/ r = Silent
    \/ r \in AskedRecord /\ AskedOK(r, matched)
    \/ r \in ToldRecord /\ ToldOK(r, last)

\* The session a set was opened for, if this is it, is reading its rows.
Agrees(r, set) == r.pc = "told" /\ r.id = set.id => set.rows = r.found

CountsOK == matching \in Nat /\ others \in Nat /\ opened \in Nat
            /\ ledger \in [Sessions -> Nat]

SearchInv ==
    /\ CountsOK
    /\ sets \in Seq(SetRecord)
    /\ \A set \in ToSet(sets) : set.id \in 1 .. opened
    /\ \A a, b \in ToSet(sets) : a.id = b.id => a = b
    /\ DOMAIN reader = Sessions
    /\ \A s \in Sessions : /\ ReaderOK(reader[s], matching, opened)
                           /\ \A set \in ToSet(sets) : Agrees(reader[s], set)

-----------------------------------------------------------------------------
(* The lesser and the greater of two numbers; the sequences.               *)

LEMMA MinOfTwo ==
    ASSUME NEW a \in Int, NEW b \in Int
    PROVE  Min({a, b}) = IF a <= b THEN a ELSE b
<1> DEFINE m == IF a <= b THEN a ELSE b
<1>1. m \in {a, b} /\ \A y \in {a, b} : m <= y
  OBVIOUS
<1>2. \A x \in {a, b} : (\A y \in {a, b} : x <= y) => x = m
  OBVIOUS
<1> HIDE DEF m
<1>3. Min({a, b}) \in {a, b} /\ \A y \in {a, b} : Min({a, b}) <= y
  BY <1>1, Zenon DEF Min
<1>4. Min({a, b}) = m
  BY <1>2, <1>3
<1> QED BY <1>4 DEF m

LEMMA MaxOfTwo ==
    ASSUME NEW a \in Int, NEW b \in Int
    PROVE  Max({a, b}) = IF a >= b THEN a ELSE b
<1> DEFINE m == IF a >= b THEN a ELSE b
<1>1. m \in {a, b} /\ \A y \in {a, b} : m >= y
  OBVIOUS
<1>2. \A x \in {a, b} : (\A y \in {a, b} : x >= y) => x = m
  OBVIOUS
<1> HIDE DEF m
<1>3. Max({a, b}) \in {a, b} /\ \A y \in {a, b} : Max({a, b}) >= y
  BY <1>1, Zenon DEF Max
<1>4. Max({a, b}) = m
  BY <1>2, <1>3
<1> QED BY <1>4 DEF m

LEMMA ElementOf ==
    ASSUME NEW S, NEW q \in Seq(S), NEW x \in ToSet(q)
    PROVE  x \in S
BY DEF ToSet

LEMMA TailElements ==
    ASSUME NEW S, NEW q \in Seq(S), q # <<>>
    PROVE  Tail(q) \in Seq(S) /\ ToSet(Tail(q)) \subseteq ToSet(q)
<1>1. /\ Tail(q) \in Seq(S) /\ Len(Tail(q)) = Len(q) - 1
      /\ \A i \in 1 .. Len(Tail(q)) : Tail(q)[i] = q[i + 1]
  BY HeadTailProperties
<1>2. Len(q) \in Nat /\ DOMAIN q = 1 .. Len(q) /\ DOMAIN Tail(q) = 1 .. Len(Tail(q))
  BY <1>1
<1>3. \A i \in DOMAIN Tail(q) : i + 1 \in DOMAIN q /\ Tail(q)[i] = q[i + 1]
  BY <1>1, <1>2
<1> QED BY <1>1, <1>3 DEF ToSet

LEMMA PartElements ==
    ASSUME NEW S, NEW q \in Seq(S), NEW m \in Nat \ {0}
    PROVE  /\ SubSeq(q, m, Len(q)) \in Seq(S)
           /\ ToSet(SubSeq(q, m, Len(q))) \subseteq ToSet(q)
<1> DEFINE p == SubSeq(q, m, Len(q))
<1>1. Len(q) \in Nat /\ \A i \in m .. Len(q) : q[i] \in S
  OBVIOUS
<1>2. /\ p \in Seq(S)
      /\ Len(p) = IF m <= Len(q) THEN Len(q) - m + 1 ELSE 0
      /\ \A i \in 1 .. Len(q) - m + 1 : p[i] = q[m + i - 1]
  BY <1>1, SubSeqProperties
<1> HIDE DEF p
<1>3. \A i \in DOMAIN p : m + i - 1 \in DOMAIN q /\ p[i] = q[m + i - 1]
  <2> SUFFICES ASSUME NEW i \in DOMAIN p PROVE m + i - 1 \in DOMAIN q /\ p[i] = q[m + i - 1]
    OBVIOUS
  <2>1. DOMAIN p = 1 .. Len(p) /\ DOMAIN q = 1 .. Len(q)
    BY <1>2
  <2>2. m <= Len(q) /\ i \in 1 .. Len(q) - m + 1
    BY <1>1, <1>2, <2>1
  <2>3. m + i - 1 \in 1 .. Len(q)
    BY <1>1, <2>2
  <2> QED BY <1>2, <2>1, <2>2, <2>3
<1>4. ToSet(p) \subseteq ToSet(q)
  BY <1>3 DEF ToSet
<1> QED BY <1>2, <1>4 DEF p

LEMMA EndElements ==
    ASSUME NEW S, NEW q \in Seq(S), NEW e \in S
    PROVE  /\ q \o <<e>> \in Seq(S)
           /\ ToSet(q \o <<e>>) \subseteq ToSet(q) \cup {e}
<1> DEFINE p == q \o <<e>>
<1>1. /\ p \in Seq(S) /\ Len(p) = Len(q) + 1
      /\ \A i \in 1 .. Len(q) + 1 : p[i] = IF i <= Len(q) THEN q[i] ELSE <<e>>[i - Len(q)]
  BY ConcatProperties
<1> HIDE DEF p
<1>2. \A i \in DOMAIN p : \/ i \in DOMAIN q /\ p[i] = q[i]
                          \/ p[i] = e
  BY <1>1
<1>3. ToSet(p) \subseteq ToSet(q) \cup {e}
  BY <1>2 DEF ToSet
<1> QED BY <1>1, <1>3 DEF p

\* A beginning of a sequence, by its length.
LEMMA BeginningOf ==
    ASSUME NEW S, NEW q \in Seq(S), NEW n \in 0 .. Len(q)
    PROVE  /\ SubSeq(q, 1, n) \in Seq(S) /\ Len(SubSeq(q, 1, n)) = n
           /\ \A i \in 1 .. n : SubSeq(q, 1, n)[i] = q[i]
<1>1. \A i \in 1 .. n : q[i] \in S
  OBVIOUS
<1> QED BY <1>1, SubSeqProperties

-----------------------------------------------------------------------------
(* One reader takes a step, and a set may open, be evicted or expire.      *)

LEMMA OneReader ==
    ASSUME SearchInv, NEW s \in Sessions, NEW x, ReaderOK(x, matching, opened'),
           reader' = [reader EXCEPT ![s] = x],
           matching' = matching, others' = others, ledger' = ledger,
           sets' \in Seq(SetRecord), opened' \in Nat, opened <= opened', NEW e,
           \A set \in ToSet(sets') :
               /\ set \in ToSet(sets) \/ (set = e /\ e.id = opened' /\ opened < opened')
               /\ Agrees(x, set)
    PROVE  SearchInv'
<1>1. opened \in Nat /\ CountsOK'
  BY DEF SearchInv, CountsOK
<1>2. \A set \in ToSet(sets') : set.id \in 1 .. opened'
  <2> SUFFICES ASSUME NEW set \in ToSet(sets') PROVE set.id \in 1 .. opened'
    OBVIOUS
  <2>1. CASE set \in ToSet(sets)
    <3>1. set.id \in 1 .. opened
      BY <2>1 DEF SearchInv
    <3> QED BY <1>1, <3>1
  <2>2. CASE set = e /\ e.id = opened' /\ opened < opened'
    BY <1>1, <2>2
  <2> QED BY <2>1, <2>2
<1>3. ASSUME NEW t \in Sessions
      PROVE  /\ ReaderOK(reader'[t], matching, opened')
             /\ \A set \in ToSet(sets') : Agrees(reader'[t], set)
  <2>1. CASE t = s
    <3>1. reader'[t] = x
      BY <2>1 DEF SearchInv
    <3> QED BY <3>1
  <2>2. CASE t # s
    <3>1. reader'[t] = reader[t] /\ ReaderOK(reader[t], matching, opened)
      BY <2>2 DEF SearchInv
    <3>2. ReaderOK(reader[t], matching, opened')
      BY <1>1, <3>1 DEF ReaderOK, ToldOK, ToldRecord
    <3>3. ASSUME NEW set \in ToSet(sets') PROVE Agrees(reader[t], set)
      <4>1. CASE set \in ToSet(sets)
        BY <4>1 DEF SearchInv
      <4>2. CASE set = e /\ e.id = opened' /\ opened < opened'
        <5>1. reader[t].pc = "told" => reader[t].id \in Nat /\ reader[t].id <= opened
          BY <3>1 DEF ReaderOK, Silent, AskedRecord, ToldRecord, ToldOK
        <5> QED BY <1>1, <4>2, <5>1 DEF Agrees
      <4> QED BY <4>1, <4>2
    <3> QED BY <3>1, <3>2, <3>3
  <2> QED BY <2>1, <2>2
<1>4. DOMAIN reader' = Sessions
  BY DEF SearchInv
<1>5. ASSUME NEW a \in ToSet(sets'), NEW b \in ToSet(sets'), a.id = b.id PROVE a = b
  <2>1. /\ a \in ToSet(sets) => a.id \in 1 .. opened
        /\ b \in ToSet(sets) => b.id \in 1 .. opened
        /\ a \in ToSet(sets) /\ b \in ToSet(sets) => a = b
    BY <1>5 DEF SearchInv
  <2>2. /\ a \in ToSet(sets) \/ (a = e /\ e.id = opened' /\ opened < opened')
        /\ b \in ToSet(sets) \/ (b = e /\ e.id = opened' /\ opened < opened')
    OBVIOUS
  <2> QED BY <1>1, <1>5, <2>1, <2>2
<1> QED BY <1>1, <1>2, <1>3, <1>4, <1>5 DEF SearchInv

\* The same, for a step that leaves the sets as they were.
LEMMA OneReaderAlone ==
    ASSUME SearchInv, NEW s \in Sessions, NEW x, ReaderOK(x, matching, opened),
           reader' = [reader EXCEPT ![s] = x],
           UNCHANGED <<matching, others, ledger, sets, opened>>,
           \A set \in ToSet(sets) : Agrees(x, set)
    PROVE  SearchInv'
<1>1. opened' \in Nat /\ opened <= opened' /\ sets' \in Seq(SetRecord)
  BY DEF SearchInv, CountsOK
<1>2. ReaderOK(x, matching, opened')
  OBVIOUS
<1>3. \A set \in ToSet(sets') : set \in ToSet(sets) /\ Agrees(x, set)
  BY Zenon
<1> QED BY <1>1, <1>2, <1>3, OneReader

LEMMA InitSearch == SearchInit => SearchInv
<1> SUFFICES ASSUME SearchInit PROVE SearchInv
  OBVIOUS
<1>1. CountsOK
  BY DEF SearchInit, CountsOK
<1>2. sets \in Seq(SetRecord) /\ ToSet(sets) = {}
  BY DEF SearchInit, ToSet
<1>3. DOMAIN reader = Sessions /\ \A s \in Sessions : reader[s] = Silent
  BY DEF SearchInit
<1> QED BY <1>1, <1>2, <1>3 DEF SearchInv, ReaderOK

LEMMA Arriving ==
    ASSUME SearchInv, MessageMatches \/ MessageDiffers PROVE SearchInv'
<1>1. /\ matching' \in Nat /\ others' \in Nat /\ matching <= matching'
      /\ UNCHANGED <<sets, opened, ledger, reader>>
  BY DEF SearchInv, CountsOK, MessageMatches, MessageDiffers
<1>2. CountsOK'
  BY <1>1 DEF SearchInv, CountsOK
<1>3. ASSUME NEW s \in Sessions PROVE ReaderOK(reader[s], matching', opened)
  <2>1. ReaderOK(reader[s], matching, opened) /\ matching \in Nat
    BY DEF SearchInv, CountsOK
  <2>2. AskedOK(reader[s], matching) => AskedOK(reader[s], matching')
    BY <1>1, <2>1 DEF AskedOK
  <2> QED BY <2>1, <2>2 DEF ReaderOK
<1> QED BY <1>1, <1>2, <1>3 DEF SearchInv

LEMMA Completing ==
    ASSUME SearchInv, SearchAssumption, NEW s \in Sessions, StepCompletes(s)
    PROVE  SearchInv'
<1>1. PICK used \in Readings : ledger' = observeUsage(s, used)
  BY DEF StepCompletes
<1>2. used \in Nat /\ ledger[s] \in Nat
  BY DEF SearchAssumption, SearchInv, CountsOK
<1>3. Max({ledger[s], used}) \in Nat
  BY <1>2, MaxOfTwo
<1>4. ledger' \in [Sessions -> Nat]
  BY <1>1, <1>3 DEF observeUsage, SearchInv, CountsOK
<1>5. UNCHANGED <<matching, others, sets, opened, reader>>
  BY DEF StepCompletes
<1> QED BY <1>4, <1>5 DEF SearchInv, CountsOK

-----------------------------------------------------------------------------
(* Asking.                                                                 *)

LEMMA AskedAgrees ==
    ASSUME NEW x, x \in AskedRecord \/ x = Silent, NEW set PROVE Agrees(x, set)
BY DEF AskedRecord, Silent, Agrees

LEMMA Asking ==
    ASSUME SearchInv, SearchAssumption, NEW s \in Sessions, Searches(s)
    PROVE  SearchInv'
<1>1. PICK limit \in SearchLimits :
        reader' = [reader EXCEPT ![s] =
            [pc |-> "asked", limit |-> limit, anyMatched |-> matching > 0,
             hits |-> NotYet, coverage |-> NotYet]]
  BY DEF Searches
<1> DEFINE x == [pc |-> "asked", limit |-> limit, anyMatched |-> matching > 0,
                 hits |-> NotYet, coverage |-> NotYet]
<1>2. x \in AskedRecord
  <2>1. limit \in Nat \ {0}
    BY DEF SearchAssumption
  <2>2. NotYet \in SUBSET Seq(Nat) /\ NotYet \in SUBSET Nat
    BY DEF NotYet
  <2>3. (matching > 0) \in BOOLEAN
    OBVIOUS
  <2> QED BY <2>1, <2>2, <2>3, Zenon DEF AskedRecord
<1>3. AskedOK(x, matching)
  BY DEF AskedOK, NotYet
<1>4. reader' = [reader EXCEPT ![s] = x] /\ UNCHANGED <<matching, others, ledger, sets, opened>>
  BY <1>1 DEF Searches
<1> HIDE DEF x
<1>5. ReaderOK(x, matching, opened)
  BY <1>2, <1>3 DEF ReaderOK
<1> QED BY <1>2, <1>4, <1>5, AskedAgrees, OneReaderAlone

\* The answer to a search: as many rows as were asked for and are there.
LEMMA AnswerRows ==
    ASSUME SearchInv, NEW limit \in Nat \ {0}
    PROVE  Answer(limit) \in Seq(Nat) /\ (matching > 0 => Answer(limit) # <<>>)
<1> DEFINE n == Min({limit, matching})
<1>1. matching \in Nat
  BY DEF SearchInv, CountsOK
<1>2. n \in Nat /\ n <= matching /\ (matching > 0 => n > 0)
  BY <1>1, MinOfTwo
<1>3. Answer(limit) = [i \in 1 .. n |-> matching - i + 1]
  BY DEF Answer
<1> HIDE DEF n
<1>4. [i \in 1 .. n |-> matching - i + 1] \in Seq(Nat)
      /\ Len([i \in 1 .. n |-> matching - i + 1]) = n
  BY <1>1, <1>2
<1> QED BY <1>2, <1>3, <1>4

LEMMA AskedReader ==
    ASSUME SearchInv, NEW s \in Sessions, reader[s].pc = "asked"
    PROVE  reader[s] \in AskedRecord /\ AskedOK(reader[s], matching)
BY DEF SearchInv, ReaderOK, Silent, ToldRecord

LEMMA Answering ==
    ASSUME SearchInv, NEW s \in Sessions, HitsAnswered(s) \/ CoverageAnswered(s)
    PROVE  SearchInv'
<1> DEFINE was == reader[s]
<1>1. was \in AskedRecord /\ AskedOK(was, matching)
  BY AskedReader DEF HitsAnswered, CoverageAnswered
<1>2. UNCHANGED <<matching, others, ledger, sets, opened>>
  BY DEF HitsAnswered, CoverageAnswered
<1>3. matching \in Nat /\ others \in Nat
  BY DEF SearchInv, CountsOK
<1>4. CASE HitsAnswered(s)
  <2> DEFINE x == [was EXCEPT !.hits = {Answer(was.limit)}]
  <2>1. reader' = [reader EXCEPT ![s] = x]
    BY <1>4 DEF HitsAnswered
  <2> HIDE DEF was
  <2>2. Answer(was.limit) \in Seq(Nat) /\ (matching > 0 => Answer(was.limit) # <<>>)
    BY <1>1, AnswerRows DEF AskedRecord
  <2>3. x \in AskedRecord
    BY <1>1, <2>2 DEF AskedRecord
  <2>4. AskedOK(x, matching)
    BY <1>1, <2>2 DEF AskedRecord, AskedOK
  <2> HIDE DEF x
  <2>5. ReaderOK(x, matching, opened)
    BY <2>3, <2>4 DEF ReaderOK
  <2> QED BY <1>2, <2>1, <2>3, <2>5, AskedAgrees, OneReaderAlone
<1>5. CASE CoverageAnswered(s)
  <2> DEFINE x == [was EXCEPT !.coverage = {matching + others}]
  <2>1. reader' = [reader EXCEPT ![s] = x]
    BY <1>5 DEF CoverageAnswered
  <2> HIDE DEF was
  <2>2. matching + others \in Nat /\ (matching > 0 => matching + others # 0)
    BY <1>3
  <2>3. x \in AskedRecord
    BY <1>1, <2>2 DEF AskedRecord
  <2>4. AskedOK(x, matching)
    BY <1>1, <2>2 DEF AskedRecord, AskedOK
  <2> HIDE DEF x
  <2>5. ReaderOK(x, matching, opened)
    BY <2>3, <2>4 DEF ReaderOK
  <2> QED BY <1>2, <2>1, <2>3, <2>5, AskedAgrees, OneReaderAlone
<1> QED BY <1>4, <1>5

LEMMA Failing ==
    ASSUME SearchInv, NEW s \in Sessions, SearchFails(s) PROVE SearchInv'
<1>1. reader' = [reader EXCEPT ![s] = Silent]
      /\ UNCHANGED <<matching, others, ledger, sets, opened>>
  BY DEF SearchFails
<1>2. ReaderOK(Silent, matching, opened)
  BY DEF ReaderOK
<1> QED BY <1>1, <1>2, AskedAgrees, OneReaderAlone
-----------------------------------------------------------------------------
(* Being told.                                                             *)

TellRecord(verdict, read, next, found, id, skipped, matched) ==
    [pc |-> "told", verdict |-> verdict, read |-> read, next |-> next, found |-> found,
     id |-> id, skipped |-> skipped, anyMatched |-> matched]

Tellable(verdict, read, next, found, id, skipped, matched, last) ==
    /\ verdict \in {"none", "all", "part", "refused"} /\ read \in Pieces /\ next \in Nat
    /\ found \in Seq(Nat) /\ id \in Nat /\ skipped \in BOOLEAN /\ matched \in BOOLEAN
    /\ id <= last
    /\ verdict = "none" => ~matched
    /\ IsRestriction(read, found)
    /\ skipped \/ Begun(verdict, read, next, found)

LEMMA Telling ==
    ASSUME NEW verdict, NEW read, NEW next, NEW found, NEW id, NEW skipped, NEW matched,
           NEW last, Tellable(verdict, read, next, found, id, skipped, matched, last), NEW now
    PROVE  LET x == TellRecord(verdict, read, next, found, id, skipped, matched) IN
           /\ ReaderOK(x, now, last)
           /\ \A set : (id = set.id => set.rows = found) => Agrees(x, set)
<1> DEFINE x == TellRecord(verdict, read, next, found, id, skipped, matched)
<1>1. x \in ToldRecord
  BY Zenon DEF Tellable, TellRecord, ToldRecord
<1>2. /\ x.verdict = verdict /\ x.read = read /\ x.next = next /\ x.found = found /\ x.id = id
      /\ x.skipped = skipped /\ x.anyMatched = matched
  BY DEF TellRecord
<1> HIDE DEF x
<1>3. ToldOK(x, last)
  BY <1>2, Zenon DEF Tellable, ToldOK
<1>4. ASSUME NEW set, id = set.id => set.rows = found PROVE Agrees(x, set)
  BY <1>2, <1>4 DEF Agrees
<1>5. ReaderOK(x, now, last)
  BY <1>1, <1>3 DEF ReaderOK
<1> QED BY <1>4, <1>5 DEF x

\* A sequence is rows at the positions from the first on.
LEMMA SequenceIsPieces ==
    ASSUME NEW q \in Seq(Nat)
    PROVE  q \in Pieces /\ Len(q) \in Nat /\ DOMAIN q = 1 .. Len(q)
<1>1. q \in [1 .. Len(q) -> Nat] /\ Len(q) \in Nat
  OBVIOUS
<1>2. (1 .. Len(q)) \in SUBSET Nat
  BY <1>1
<1> QED BY <1>1, <1>2 DEF Pieces

LEMMA ToldReader ==
    ASSUME SearchInv, NEW s \in Sessions, reader[s].pc = "told"
    PROVE  reader[s] \in ToldRecord /\ ToldOK(reader[s], opened)
BY DEF SearchInv, ReaderOK, Silent, AskedRecord

LEMMA HeadIsPositive ==
    ASSUME SearchInv, SearchAssumption, NEW s \in Sessions
    PROVE  headSize(s) \in Nat \ {0}
<1>1. ledger[s] \in Nat /\ Window \in Nat /\ ByteBudget \in Nat
  BY DEF SearchInv, CountsOK, SearchAssumption
<1>2. remainingTokens(ledger[s]) \in Nat
  BY <1>1 DEF remainingTokens
<1>3. Window \div 4 \in Nat /\ remainingTokens(ledger[s]) \div 2 \in Nat
  BY <1>1, <1>2
<1>4. budgetBytes(ledger[s]) \in Nat
  BY <1>3, MinOfTwo DEF budgetBytes
<1>5. budgetFor(s) \in Nat
  BY <1>1, <1>4, MinOfTwo DEF budgetFor
<1>6. budgetFor(s) \div 2 \in Nat
  BY <1>5
<1> QED BY <1>6, MaxOfTwo DEF headSize

\* Opening a set evicts the oldest and adds the new one at the end.
LEMMA OpenedSets ==
    ASSUME SearchInv, SearchAssumption, NEW rows \in Seq(Nat), NEW head \in Nat
    PROVE  /\ Opened(rows, head) \in Seq(SetRecord)
           /\ \A set \in ToSet(Opened(rows, head)) :
                 set \in ToSet(sets) \cup {[id |-> opened + 1, rows |-> rows, head |-> head]}
<1> DEFINE m == Max({1, Len(sets) - MAX_OPEN_SETS + 2})
           e == [id |-> opened + 1, rows |-> rows, head |-> head]
           rest == SubSeq(sets, m, Len(sets))
<1>1. sets \in Seq(SetRecord) /\ opened \in Nat /\ MAX_OPEN_SETS \in Nat
  BY DEF SearchInv, CountsOK, SearchAssumption
<1>2. Len(sets) - MAX_OPEN_SETS + 2 \in Int
  BY <1>1
<1>3. m \in Nat \ {0}
  BY <1>2, MaxOfTwo
<1>4. e \in SetRecord
  BY <1>1 DEF SetRecord
<1>5. Opened(rows, head) = rest \o <<e>>
  BY DEF Opened
<1> HIDE DEF m, e
<1>6. rest \in Seq(SetRecord) /\ ToSet(rest) \subseteq ToSet(sets)
  BY <1>1, <1>3, PartElements
<1> HIDE DEF rest
<1>7. /\ rest \o <<e>> \in Seq(SetRecord)
      /\ ToSet(rest \o <<e>>) \subseteq ToSet(rest) \cup {e}
  BY <1>4, <1>6, EndElements
<1> QED BY <1>5, <1>6, <1>7 DEF e

LEMMA Showing ==
    ASSUME SearchInv, SearchAssumption, NEW s \in Sessions, ShowsHead(s)
    PROVE  SearchInv'
<1> DEFINE was == reader[s]
           empty(rows) == rows = <<>> \/ 0 \in was.coverage
           n(rows) == Min({headSize(s), Len(rows)})
           shown(rows) == SubSeq(rows, 1, n(rows))
<1>1. was \in AskedRecord /\ AskedOK(was, matching)
  BY AskedReader DEF ShowsHead
<1>2. PICK rows \in was.hits :
        \/ /\ shown(rows) = rows
           /\ reader' = [reader EXCEPT ![s] =
                 TellRecord(IF empty(rows) THEN "none" ELSE "all", shown(rows),
                            Len(shown(rows)), rows, 0, FALSE, was.anyMatched)]
           /\ UNCHANGED <<sets, opened>>
        \/ /\ shown(rows) # rows
           /\ reader' = [reader EXCEPT ![s] =
                 TellRecord(IF empty(rows) THEN "none" ELSE "part", shown(rows),
                            Len(shown(rows)), rows, opened + 1, FALSE, was.anyMatched)]
           /\ sets' = Opened(rows, Len(shown(rows))) /\ opened' = opened + 1
  BY DEF ShowsHead, Tells, TellRecord
<1>3. UNCHANGED <<matching, others, ledger>>
  BY DEF ShowsHead
<1> DEFINE v == empty(rows)  k == n(rows)  part == shown(rows)
<1>4. /\ rows \in Seq(Nat) /\ was.anyMatched \in BOOLEAN
      /\ was.anyMatched => ~v
  BY <1>1 DEF AskedRecord, AskedOK
<1>5. Len(rows) \in Nat /\ headSize(s) \in Nat \ {0}
  BY <1>4, HeadIsPositive
<1>6. k \in 0 .. Len(rows) /\ (rows # <<>> => k > 0)
  BY <1>4, <1>5, MinOfTwo
<1> HIDE DEF k
<1>7. /\ part \in Seq(Nat) /\ Len(part) = k /\ part = SubSeq(rows, 1, k)
      /\ \A i \in 1 .. k : part[i] = rows[i]
  BY <1>4, <1>6, BeginningOf DEF k
<1>8. opened \in Nat /\ sets \in Seq(SetRecord) /\ \A set \in ToSet(sets) : set.id \in 1 .. opened
  BY DEF SearchInv, CountsOK
<1> HIDE DEF v, part, was
<1>11. /\ part \in Pieces /\ DOMAIN part = 1 .. k /\ k \in Nat
       /\ DOMAIN rows = 1 .. Len(rows)
  BY <1>4, <1>5, <1>6, <1>7, SequenceIsPieces
<1>12. IsRestriction(part, rows)
  BY <1>5, <1>6, <1>7, <1>11 DEF IsRestriction
<1>9. CASE part = rows
  <2> DEFINE verdict == IF v THEN "none" ELSE "all"
             x == TellRecord(verdict, part, k, rows, 0, FALSE, was.anyMatched)
  <2>1. reader' = [reader EXCEPT ![s] = x] /\ UNCHANGED <<sets, opened>>
    BY <1>2, <1>7, <1>9 DEF v, part, was
  <2>2. /\ verdict \in {"none", "all", "part", "refused"} /\ verdict # "part"
        /\ verdict = "none" => ~was.anyMatched
    BY <1>4
  <2> HIDE DEF verdict
  <2>3. Begun(verdict, part, k, rows)
    BY <1>6, <1>9, <1>11, <2>2 DEF Begun
  <2>4. 0 \in Nat /\ 0 <= opened /\ FALSE \in BOOLEAN
    BY <1>8
  <2>5. /\ ReaderOK(x, matching, opened)
        /\ \A set : (0 = set.id => set.rows = rows) => Agrees(x, set)
    <3>1. Tellable(verdict, part, k, rows, 0, FALSE, was.anyMatched, opened)
      BY <1>4, <1>11, <1>12, <2>2, <2>3, <2>4, Zenon DEF Tellable
    <3> QED BY <3>1, Telling, Zenon
  <2>6. \A set \in ToSet(sets) : 0 # set.id
    BY <1>8
  <2>7. \A set \in ToSet(sets) : Agrees(x, set)
    BY <2>5, <2>6, Zenon
  <2> HIDE DEF x
  <2> QED BY <1>3, <2>1, <2>5, <2>7, OneReaderAlone
<1>10. CASE part # rows
  <2> DEFINE verdict == IF v THEN "none" ELSE "part"
             x == TellRecord(verdict, part, k, rows, opened + 1, FALSE, was.anyMatched)
  <2>1. /\ reader' = [reader EXCEPT ![s] = x]
        /\ sets' = Opened(rows, k) /\ opened' = opened + 1
    BY <1>2, <1>7, <1>10 DEF v, part, was
  <2>2. /\ verdict \in {"none", "all", "part", "refused"} /\ verdict # "all"
        /\ verdict = "none" => ~was.anyMatched
    BY <1>4
  <2> HIDE DEF verdict
  <2>3. k # Len(rows) /\ rows # <<>>
    <3>1. SubSeq(rows, 1, Len(rows)) = rows
      BY <1>4, SubSeqFull
    <3>2. k # Len(rows)
      BY <1>7, <1>10, <3>1
    <3>3. rows = <<>> => Len(rows) = 0
      OBVIOUS
    <3> QED BY <1>5, <1>6, <3>2, <3>3
  <2>4. Begun(verdict, part, k, rows)
    <3>1. k \in 1 .. Len(rows) - 1 /\ k \in 0 .. Len(rows)
      BY <1>5, <1>6, <2>3
    <3>2. \E j \in 0 .. Len(rows) : DOMAIN part = 1 .. j
      BY <1>11, <3>1, Zenon
    <3>3. 1 .. k \subseteq DOMAIN part
      BY <1>11, Zenon
    <3> QED BY <2>2, <3>1, <3>2, <3>3, Zenon DEF Begun
  <2>5. opened + 1 \in Nat /\ opened + 1 <= opened' /\ FALSE \in BOOLEAN
    BY <1>8, <2>1
  <2>6. /\ ReaderOK(x, matching, opened')
        /\ \A set : (opened + 1 = set.id => set.rows = rows) => Agrees(x, set)
    <3>1. Tellable(verdict, part, k, rows, opened + 1, FALSE, was.anyMatched, opened')
      BY <1>4, <1>11, <1>12, <2>2, <2>4, <2>5, Zenon DEF Tellable
    <3> QED BY <3>1, Telling, Zenon
  <2> HIDE DEF x
  <2> DEFINE e == [id |-> opened + 1, rows |-> rows, head |-> k]
  <2>7. /\ sets' \in Seq(SetRecord)
        /\ \A set \in ToSet(sets') : set \in ToSet(sets) \cup {e}
    BY <1>4, <1>6, <2>1, OpenedSets
  <2>10. e.id = opened + 1 /\ e.rows = rows
    OBVIOUS
  <2> HIDE DEF e
  <2>8. \A set \in ToSet(sets') :
           /\ set \in ToSet(sets) \/ (set = e /\ e.id = opened' /\ opened < opened')
           /\ Agrees(x, set)
    <3> SUFFICES ASSUME NEW set \in ToSet(sets')
                 PROVE  /\ set \in ToSet(sets) \/ (set = e /\ e.id = opened' /\ opened < opened')
                        /\ Agrees(x, set)
      OBVIOUS
    <3>1. CASE set \in ToSet(sets)
      <4>1. opened + 1 # set.id
        BY <1>8, <3>1
      <4> QED BY <2>6, <3>1, <4>1
    <3>2. CASE set = e
      <4>1. opened < opened'
        BY <1>8, <2>1
      <4> QED BY <2>1, <2>6, <2>10, <3>2, <4>1
    <3> QED BY <2>7, <3>1, <3>2
  <2>9. opened' \in Nat /\ opened <= opened'
    BY <1>8, <2>1
  <2> QED BY <1>3, <2>1, <2>6, <2>7, <2>8, <2>9, OneReader
<1> QED BY <1>9, <1>10

\* Where a page of at most l rows from f on, of N rows, ends.
LEMMA PageBounds ==
    ASSUME NEW f \in Nat, NEW l \in Nat \ {0}, NEW N \in Nat,
           NEW to, to = IF f + l <= N THEN f + l ELSE N,
           NEW len, len = IF f + 1 <= to THEN to - f ELSE 0, NEW next, next = f + len
    PROVE  /\ to \in Nat /\ to <= N /\ next \in Nat /\ len \in Nat /\ f <= next
           /\ f <= N => next <= N
           /\ f < N => f < next
           /\ \A i \in f + 1 .. next : i \in 1 .. N /\ i - f \in 1 .. to - f
OBVIOUS

\* A page of the rows from a position on.
LEMMA PageIs ==
    ASSUME SearchAssumption, NEW set \in SetRecord, NEW limit \in PageLimits, NEW after \in Nat
    PROVE  LET from == Max({set.head, after})
               page == PageOf(set, after, limit)
               next == from + Len(page)
           IN /\ from \in Nat /\ next \in Nat /\ from <= next
              /\ from <= Len(set.rows) => next <= Len(set.rows)
              /\ from < Len(set.rows) => from < next
              /\ \A i \in from + 1 .. next :
                    i \in 1 .. Len(set.rows) /\ page[i - from] = set.rows[i]
<1> DEFINE q == set.rows  N == Len(q)
           f == Max({set.head, after})  to == Min({f + limit, N})
           page == SubSeq(q, f + 1, to)  len == Len(page)  next == f + len
<1>1. set.head \in Nat /\ q \in Seq(Nat)
  BY DEF SetRecord
<1>2. limit \in Nat \ {0}
  BY DEF SearchAssumption
<1>3. N \in Nat
  BY <1>1
<1>4. f \in Nat
  BY <1>1, MaxOfTwo
<1>5. PageOf(set, after, limit) = page
  BY DEF PageOf
<1>6. \A i \in 1 .. N : q[i] \in Nat
  BY <1>1
<1> HIDE DEF q, N, f
<1>7. f + limit \in Int /\ N \in Int
  BY <1>2, <1>3, <1>4
<1>8. to = IF f + limit <= N THEN f + limit ELSE N
  BY <1>7, MinOfTwo
<1> HIDE DEF to
<1>9. to \in Nat /\ to <= N
  BY <1>2, <1>3, <1>4, <1>8
<1>10. \A i \in f + 1 .. to : q[i] \in Nat
  BY <1>3, <1>4, <1>6, <1>9
<1> DEFINE m == f + 1
<1>11. m \in Nat \ {0}
  BY <1>4
<1>12. /\ Len(SubSeq(q, m, to)) = IF m <= to THEN to - m + 1 ELSE 0
       /\ \A i \in 1 .. to - m + 1 : SubSeq(q, m, to)[i] = q[m + i - 1]
  <2>1. \A i \in m .. to : q[i] \in Nat
    BY <1>10
  <2> HIDE DEF m
  <2> QED BY <1>9, <1>11, <2>1, SubSeqProperties
<1>13. len = IF f + 1 <= to THEN to - f ELSE 0
  BY <1>4, <1>9, <1>12
<1>14. ASSUME NEW i \in 1 .. to - f PROVE page[i] = q[f + i]
  <2>1. i \in 1 .. to - m + 1 /\ m + i - 1 = f + i
    BY <1>4, <1>9
  <2> QED BY <1>12, <2>1
<1> HIDE DEF page, len
<1>15. /\ next \in Nat /\ f <= next
       /\ f <= N => next <= N
       /\ f < N => f < next
       /\ \A i \in f + 1 .. next : i \in 1 .. N /\ i - f \in 1 .. to - f
  BY <1>2, <1>3, <1>4, <1>8, <1>13, PageBounds
<1>16. ASSUME NEW i \in f + 1 .. next PROVE i \in 1 .. N /\ page[i - f] = q[i]
  <2>1. i \in 1 .. N /\ i - f \in 1 .. to - f
    BY <1>15
  <2>2. page[i - f] = q[f + (i - f)]
    BY <1>14, <2>1
  <2>3. f + (i - f) = i
    BY <1>4, <2>1
  <2> QED BY <2>1, <2>2, <2>3
<1> HIDE DEF next
<1>17. next = f + Len(PageOf(set, after, limit))
  BY <1>5 DEF next, len
<1> QED BY <1>4, <1>5, <1>15, <1>16, <1>17 DEF q, N, f

\* What was read, and what a page adds to it.
Added(read, from, next, page) ==
    [i \in DOMAIN read \cup (from + 1 .. next) |->
        IF i \in from + 1 .. next THEN page[i - from] ELSE read[i]]

LEMMA AddedIsRead ==
    ASSUME NEW read \in Pieces, NEW found \in Seq(Nat), IsRestriction(read, found),
           NEW from \in Nat, NEW next \in Nat, NEW page,
           \A i \in from + 1 .. next : i \in 1 .. Len(found) /\ page[i - from] = found[i],
           NEW all, all = Added(read, from, next, page)
    PROVE  /\ all \in Pieces /\ DOMAIN all = DOMAIN read \cup (from + 1 .. next)
           /\ IsRestriction(all, found)
<1>1. Len(found) \in Nat /\ DOMAIN found = 1 .. Len(found)
  BY SequenceIsPieces
<1>2. DOMAIN read \subseteq DOMAIN found /\ \A i \in DOMAIN read : read[i] = found[i]
  BY DEF IsRestriction
<1>3. DOMAIN all = DOMAIN read \cup (from + 1 .. next)
  BY DEF Added
<1>4. \A i \in DOMAIN all : i \in DOMAIN found /\ all[i] = found[i]
  BY <1>1, <1>2, <1>3 DEF Added
<1>5. DOMAIN all \subseteq Nat
  BY <1>1, <1>4
<1>6. \A i \in DOMAIN all : all[i] \in Nat
  BY <1>1, <1>4
<1>7. all \in [DOMAIN all -> Nat]
  BY <1>3, <1>6 DEF Added
<1>8. all \in Pieces
  BY <1>5, <1>7 DEF Pieces
<1> QED BY <1>3, <1>4, <1>8 DEF IsRestriction

LEMMA Paging ==
    ASSUME SearchInv, SearchAssumption, NEW s \in Sessions, Pages(s)
    PROVE  SearchInv'
<1> DEFINE was == reader[s]
<1>1. was \in ToldRecord /\ ToldOK(was, opened) /\ was.verdict # "none"
  BY ToldReader DEF Pages
<1> DEFINE Told(set, limit, after) ==
             LET from == Max({set.head, after})
                 page == PageOf(set, after, limit)
                 next == from + Len(page)
             IN reader' = [reader EXCEPT ![s] =
                    TellRecord(IF next < Len(set.rows) THEN "part" ELSE "all",
                               Added(was.read, from, next, page), next, was.found, set.id,
                               was.skipped \/ from \notin DOMAIN was.read, was.anyMatched)]
<1>0. PICK set \in SetsOf(was.id), limit \in PageLimits :
        \E after \in 0 .. Len(set.rows) + 1 : Told(set, limit, after)
  BY DEF Pages, Tells, TellRecord, Added
<1>2. PICK after \in 0 .. Len(set.rows) + 1 : Told(set, limit, after)
  BY <1>0
<1>3. UNCHANGED <<matching, others, ledger, sets, opened>>
  BY DEF Pages
<1> DEFINE from == Max({set.head, after})
           page == PageOf(set, after, limit)
           next == from + Len(page)
           read == Added(was.read, from, next, page)
           skipped == was.skipped \/ from \notin DOMAIN was.read
           verdict == IF next < Len(set.rows) THEN "part" ELSE "all"
           x == TellRecord(verdict, read, next, was.found, set.id, skipped, was.anyMatched)
<1>4. set \in ToSet(sets) /\ set.id = was.id
  BY DEF SetsOf
<1>5. set \in SetRecord /\ set.id <= opened /\ set.id \in Nat /\ Len(set.rows) \in Nat
  <2>1. set \in SetRecord /\ set.id \in 1 .. opened /\ opened \in Nat
    BY <1>4, ElementOf DEF SearchInv, CountsOK
  <2> QED BY <2>1 DEF SetRecord
<1>6. set.rows = was.found
  <2>1. Agrees(was, set) /\ was.pc = "told"
    BY <1>1, <1>4 DEF SearchInv, ToldRecord
  <2> QED BY <1>4, <2>1 DEF Agrees
<1>7. /\ was.found \in Seq(Nat) /\ was.read \in Pieces /\ was.skipped \in BOOLEAN
      /\ was.anyMatched \in BOOLEAN
  BY <1>1 DEF ToldRecord
<1>8. /\ IsRestriction(was.read, was.found)
      /\ was.skipped \/ Begun(was.verdict, was.read, was.next, was.found)
  BY <1>1 DEF ToldOK
<1>9. reader' = [reader EXCEPT ![s] = x]
  BY <1>2
<1>10. after \in Nat
  BY <1>5
<1> HIDE DEF was, from, page, next
<1>11. /\ from \in Nat /\ next \in Nat /\ from <= next
       /\ from <= Len(set.rows) => next <= Len(set.rows)
       /\ from < Len(set.rows) => from < next
       /\ \A i \in from + 1 .. next : i \in 1 .. Len(set.rows) /\ page[i - from] = set.rows[i]
  BY <1>5, <1>10, PageIs, Zenon DEF from, page, next
<1>12. /\ read \in Pieces /\ DOMAIN read = DOMAIN was.read \cup (from + 1 .. next)
       /\ IsRestriction(read, was.found)
  <2> DEFINE q == was.found
  <2>1. q \in Seq(Nat) /\ IsRestriction(was.read, q) /\ \A i \in from + 1 .. next :
           i \in 1 .. Len(q) /\ page[i - from] = q[i]
    BY <1>6, <1>7, <1>8, <1>11
  <2> HIDE DEF q
  <2>2. from \in Nat /\ next \in Nat
    BY <1>11
  <2> QED BY <1>7, <2>1, <2>2, AddedIsRead, ZenonT(30) DEF q
<1> HIDE DEF read
<1>13. ASSUME ~skipped PROVE Begun(verdict, read, next, was.found)
  <2> DEFINE N == Len(was.found)
  <2>1. N \in Nat /\ N = Len(set.rows)
    BY <1>5, <1>6
  <2>2. from \in DOMAIN was.read /\ Begun(was.verdict, was.read, was.next, was.found)
    BY <1>8, <1>13
  <2>3. PICK n \in 0 .. N : DOMAIN was.read = 1 .. n
    BY <2>2 DEF Begun
  <2> HIDE DEF N
  <2>4. from \in 1 .. n /\ from <= N /\ next <= N
    BY <1>11, <2>1, <2>2, <2>3
  <2> DEFINE m == IF next > n THEN next ELSE n
  <2>5. DOMAIN read = 1 .. m /\ m \in 0 .. N
    BY <1>11, <1>12, <2>1, <2>3, <2>4
  <2>6. verdict = "all" => DOMAIN read = 1 .. N
    BY <1>11, <2>1, <2>3, <2>4, <2>5
  <2>7. verdict = "part" => next \in 1 .. N - 1 /\ 1 .. next \subseteq DOMAIN read
    BY <1>11, <2>1, <2>3, <2>4, <2>5
  <2>8. \E k \in 0 .. N : DOMAIN read = 1 .. k
    BY <2>5
  <2> QED BY <2>6, <2>7, <2>8 DEF Begun, N
<1>14. /\ verdict \in {"none", "all", "part", "refused"} /\ verdict # "none"
       /\ skipped \in BOOLEAN
  BY <1>7
<1> HIDE DEF verdict, skipped
<1>15. /\ ReaderOK(x, matching, opened)
       /\ \A other : (set.id = other.id => other.rows = was.found) => Agrees(x, other)
  <2>1. skipped \/ Begun(verdict, read, next, was.found)
    BY <1>13
  <2>2. verdict = "none" => ~was.anyMatched
    BY <1>14
  <2>3. Tellable(verdict, read, next, was.found, set.id, skipped, was.anyMatched, opened)
    BY <1>5, <1>7, <1>11, <1>12, <1>14, <2>1, <2>2, Zenon DEF Tellable
  <2> QED BY <2>3, Telling, Zenon
<1> HIDE DEF x
<1>16. ASSUME NEW other \in ToSet(sets), set.id = other.id PROVE other.rows = was.found
  <2>1. other = set
    BY <1>4, <1>16 DEF SearchInv
  <2> QED BY <1>6, <2>1
<1> QED BY <1>3, <1>9, <1>15, <1>16, OneReaderAlone

LEMMA Refusing ==
    ASSUME SearchInv, NEW s \in Sessions, PageRefused(s) PROVE SearchInv'
<1> DEFINE was == reader[s]
           x == [was EXCEPT !.verdict = "refused"]
<1>1. was \in ToldRecord /\ ToldOK(was, opened)
  BY ToldReader DEF PageRefused
<1>2. reader' = [reader EXCEPT ![s] = x] /\ UNCHANGED <<matching, others, ledger, sets, opened>>
  BY DEF PageRefused
<1>3. \A set \in ToSet(sets) : Agrees(was, set)
  BY DEF SearchInv
<1> HIDE DEF was
<1>4. /\ x \in ToldRecord /\ x.verdict = "refused" /\ x.read = was.read /\ x.found = was.found
      /\ x.id = was.id /\ x.pc = was.pc /\ x.next = was.next /\ x.skipped = was.skipped
  BY <1>1 DEF ToldRecord
<1> HIDE DEF x
<1>5. Begun(was.verdict, was.read, was.next, was.found)
         => Begun("refused", was.read, was.next, was.found)
  BY DEF Begun
<1>6. ToldOK(x, opened)
  BY <1>1, <1>4, <1>5 DEF ToldOK
<1>7. \A set \in ToSet(sets) : Agrees(x, set)
  BY <1>3, <1>4 DEF Agrees
<1>8. ReaderOK(x, matching, opened)
  BY <1>4, <1>6 DEF ReaderOK
<1> QED BY <1>2, <1>7, <1>8, OneReaderAlone

-----------------------------------------------------------------------------

LEMMA Expiring ==
    ASSUME SearchInv, SetExpires PROVE SearchInv'
<1>1. sets \in Seq(SetRecord) /\ sets # <<>> /\ sets' = Tail(sets)
  BY DEF SearchInv, SetExpires
<1>2. sets' \in Seq(SetRecord) /\ ToSet(sets') \subseteq ToSet(sets)
  BY <1>1, TailElements
<1>3. UNCHANGED <<matching, others, opened, ledger, reader>>
  BY DEF SetExpires
<1> QED BY <1>2, <1>3 DEF SearchInv, CountsOK

LEMMA Restarting ==
    ASSUME SearchInv, AgentRestarts PROVE SearchInv'
<1>1. sets' \in Seq(SetRecord) /\ ToSet(sets') = {}
  BY DEF AgentRestarts, ToSet
<1>2. UNCHANGED <<matching, others, opened>> /\ ledger' \in [Sessions -> Nat]
  BY DEF AgentRestarts
<1>3. DOMAIN reader' = Sessions
  BY DEF AgentRestarts
<1>4. ASSUME NEW s \in Sessions PROVE ReaderOK(reader'[s], matching, opened)
  <2>1. reader'[s] \in {Silent, reader[s]}
    BY DEF AgentRestarts
  <2> QED BY <2>1 DEF SearchInv, ReaderOK
<1> QED BY <1>1, <1>2, <1>3, <1>4 DEF SearchInv, CountsOK

LEMMA NextSearch == SearchInv /\ [SearchNext]_searchVars => SearchInv'
<1> SUFFICES ASSUME SearchInv, [SearchNext]_searchVars PROVE SearchInv'
  OBVIOUS
<1>1. CASE MessageMatches \/ MessageDiffers
  BY <1>1, Arriving
<1>2. CASE SetExpires
  BY <1>2, Expiring
<1>3. CASE AgentRestarts
  BY <1>3, Restarting
<1>4. ASSUME NEW s \in Sessions, StepCompletes(s) PROVE SearchInv'
  BY <1>4, SearchAssumption, Completing
<1>5. ASSUME NEW s \in Sessions, Searches(s) PROVE SearchInv'
  BY <1>5, SearchAssumption, Asking
<1>6. ASSUME NEW s \in Sessions, HitsAnswered(s) \/ CoverageAnswered(s) PROVE SearchInv'
  BY <1>6, Answering
<1>7. ASSUME NEW s \in Sessions, SearchFails(s) PROVE SearchInv'
  BY <1>7, Failing
<1>8. ASSUME NEW s \in Sessions, ShowsHead(s) PROVE SearchInv'
  BY <1>8, SearchAssumption, Showing
<1>9. ASSUME NEW s \in Sessions, Pages(s) PROVE SearchInv'
  BY <1>9, SearchAssumption, Paging
<1>10. ASSUME NEW s \in Sessions, PageRefused(s) PROVE SearchInv'
  BY <1>10, Refusing
<1>11. CASE UNCHANGED searchVars
  <2>1. UNCHANGED <<matching, others, sets, opened, ledger, reader>>
    BY <1>11 DEF searchVars
  <2> QED BY <2>1 DEF SearchInv, CountsOK
<1> QED
  BY <1>1, <1>2, <1>3, <1>4, <1>5, <1>6, <1>7, <1>8, <1>9, <1>10, <1>11 DEF SearchNext

\* Every open set and the session that opened it agree on the rows, no id is
\* given twice, each row read is the one found at its position, and what a
\* session that skipped nothing has read is a beginning of what was found, as
\* far as the answer says (openResultSet, pageResultSet: result-set.ts).
THEOREM SearchInvariant == SearchSpec => []SearchInv
<1> QED BY InitSearch, NextSearch, PTL DEF SearchSpec

LEMMA PiecesEqual ==
    ASSUME NEW read \in Pieces, NEW found \in Seq(Nat), IsRestriction(read, found),
           DOMAIN read = 1 .. Len(found)
    PROVE  read = found
<1>1. read \in [1 .. Len(found) -> Nat]
  BY DEF Pieces
<1>2. found \in [1 .. Len(found) -> Nat]
  OBVIOUS
<1>3. \A i \in 1 .. Len(found) : read[i] = found[i]
  BY <1>2 DEF IsRestriction
<1> QED BY <1>1, <1>2, <1>3

\* "all", "part" and "none" are true of the rows the search found, whatever
\* arrived, was evicted or expired since, for a session that resumes only where
\* it has read; and no session is shown a row that is not the one there
\* (whatsapp_search_page).
THEOREM PagesTellTheTruth == SearchSpec => []PagesAreTheAnswer
<1>1. SearchInv => PagesAreTheAnswer
  <2> SUFFICES ASSUME SearchInv, NEW s \in Sessions, reader[s].pc = "told"
               PROVE  LET r == reader[s] IN
                      /\ IsRestriction(r.read, r.found)
                      /\ r.verdict = "none" => ~r.anyMatched
                      /\ r.verdict = "all" /\ ~r.skipped => r.read = r.found
                      /\ r.verdict = "part" /\ ~r.skipped =>
                            r.next \in 1 .. Len(r.found) - 1 /\ 1 .. r.next \subseteq DOMAIN r.read
    BY DEF PagesAreTheAnswer
  <2> DEFINE r == reader[s]
  <2>1. r \in ToldRecord /\ ToldOK(r, opened)
    BY ToldReader
  <2> HIDE DEF r
  <2>2. r.read \in Pieces /\ r.found \in Seq(Nat)
    BY <2>1 DEF ToldRecord
  <2>3. /\ r.verdict = "none" => ~r.anyMatched
        /\ IsRestriction(r.read, r.found)
        /\ r.skipped \/ Begun(r.verdict, r.read, r.next, r.found)
    BY <2>1 DEF ToldOK
  <2>4. ASSUME r.verdict = "all", ~r.skipped PROVE r.read = r.found
    <3>1. DOMAIN r.read = 1 .. Len(r.found)
      BY <2>3, <2>4 DEF Begun
    <3> QED BY <2>2, <2>3, <3>1, PiecesEqual
  <2>5. ASSUME r.verdict = "part", ~r.skipped
        PROVE  r.next \in 1 .. Len(r.found) - 1 /\ 1 .. r.next \subseteq DOMAIN r.read
    BY <2>3, <2>5 DEF Begun
  <2> QED BY <2>3, <2>4, <2>5 DEF r
<1> QED BY <1>1, SearchInvariant, PTL

-----------------------------------------------------------------------------
(* A text and its sentences.                                               *)

LEMMA SpacedIs ==
  ASSUME NEW left \in Seq(Nat), NEW right \in Seq(Nat)
  PROVE  /\ Spaced(left, right) \in Seq(Nat)
         /\ left = <<>> => Spaced(left, right) = right
         /\ left # <<>> =>
               /\ Len(Spaced(left, right)) = Len(left) + 1 + Len(right)
               /\ \A i \in 1 .. Len(left) : Spaced(left, right)[i] = left[i]
               /\ Spaced(left, right)[Len(left) + 1] = Space
               /\ \A j \in 1 .. Len(right) : Spaced(left, right)[Len(left) + 1 + j] = right[j]
<1>1. CASE left = <<>>
  BY <1>1 DEF Spaced
<1>2. CASE left # <<>>
  <2> DEFINE one == <<Space>>  gap == left \o one  all == gap \o right
  <2>0. one \in Seq(Nat) /\ Len(one) = 1 /\ one[1] = Space
    BY DEF Space
  <2>1. Len(left) \in Nat /\ Len(right) \in Nat
    BY LenProperties
  <2> HIDE DEF one
  <2>2. /\ gap \in Seq(Nat) /\ Len(gap) = Len(left) + 1
        /\ \A i \in 1 .. Len(left) + 1 : gap[i] = IF i <= Len(left) THEN left[i] ELSE one[i - Len(left)]
    <3>1. /\ gap \in Seq(Nat) /\ Len(gap) = Len(left) + Len(one)
          /\ \A i \in 1 .. Len(left) + Len(one) :
                gap[i] = IF i <= Len(left) THEN left[i] ELSE one[i - Len(left)]
      BY <2>0, ConcatProperties
    <3> QED
      BY <2>0, <3>1
  <2> HIDE DEF gap
  <2>3. /\ all \in Seq(Nat) /\ Len(all) = Len(gap) + Len(right)
        /\ \A i \in 1 .. Len(gap) + Len(right) :
              all[i] = IF i <= Len(gap) THEN gap[i] ELSE right[i - Len(gap)]
    BY <2>2, ConcatProperties
  <2>4. Spaced(left, right) = all
    BY <1>2 DEF Spaced, gap, one
  <2> HIDE DEF all
  <2>5. \A i \in 1 .. Len(left) : all[i] = left[i]
    BY <2>1, <2>2, <2>3
  <2>6. all[Len(left) + 1] = Space
    <3>1. Len(left) + 1 - Len(left) = 1
      BY <2>1
    <3> QED
      BY <2>0, <2>1, <2>2, <2>3, <3>1
  <2>7. \A j \in 1 .. Len(right) : all[Len(left) + 1 + j] = right[j]
    <3> TAKE j \in 1 .. Len(right)
    <3> DEFINE l == Len(left)  r == Len(right)  i == l + 1 + j
    <3>1. l \in Nat /\ r \in Nat /\ j \in 1 .. r
      BY <2>1
    <3>2. Len(gap) = l + 1
      BY <2>2
    <3>3. /\ i \in 1 .. Len(gap) + r /\ ~ (i <= Len(gap)) /\ i - Len(gap) = j
      <4> HIDE DEF l, r
      <4> QED
        BY <3>1, <3>2
    <3> HIDE DEF i
    <3>4. all[i] = right[i - Len(gap)]
      BY <2>3, <3>3
    <3> QED
      BY <3>3, <3>4 DEF i
  <2> QED
    BY <1>2, <2>1, <2>2, <2>3, <2>4, <2>5, <2>6, <2>7
<1> QED
  BY <1>1, <1>2

LEMMA UpToIs ==
  ASSUME NEW text \in Seq(Seq(Nat))
  PROVE  /\ UpTo(text) \in [0 .. Len(text) -> Seq(Nat)]
         /\ UpTo(text)[0] = <<>>
         /\ \A k \in 1 .. Len(text) : UpTo(text)[k] = Spaced(UpTo(text)[k - 1], text[k])
<1> DEFINE n == Len(text)  S == Seq(Nat)  base == <<>>  u == UpTo(text)
           Is(f) == f = [k \in 0 .. n |-> IF k = 0 THEN base ELSE Spaced(f[k - 1], text[k])]
           step == [p \in (1 .. n) \X S |-> Spaced(p[2], text[p[1]])]
<1>1. n \in Nat /\ \A k \in 1 .. n : text[k] \in S
  BY LenProperties, ElementOfSeq
<1>2. base \in S /\ \A left, right \in S : Spaced(left, right) \in S
  BY EmptySeq, SpacedIs
<1>3. u = CHOOSE g : Is(g)
  BY DEF UpTo
<1> HIDE DEF n, S, base, u
<1>4. step \in [(1 .. n) \X S -> S]
  BY <1>1, <1>2
<1>5. \A k \in 1 .. n, s \in S : step[<<k, s>>] = Spaced(s, text[k])
  OBVIOUS
<1> HIDE DEF step
<1>6. PICK f : Iteration(f, n, S, base, step)
  BY <1>1, <1>2, <1>4, Iterates
<1>7. \A k \in 1 .. n : k - 1 \in 0 .. n /\ k \in 0 .. n /\ k # 0
  BY <1>1
<1>8. \A k \in 1 .. n : f[k] = Spaced(f[k - 1], text[k])
  BY <1>5, <1>6, <1>7 DEF Iteration
<1>9. Is(f)
  BY <1>1, <1>6, <1>8 DEF Iteration
<1>10. Is(u)
  <2> HIDE DEF Is
  <2> QED
    BY <1>3, <1>9
<1>11. /\ DOMAIN u = 0 .. n /\ u[0] = base /\ u = [k \in 0 .. n |-> u[k]]
       /\ \A k \in 1 .. n : u[k] = Spaced(u[k - 1], text[k])
  <2>1. DOMAIN u = 0 .. n /\ u = [k \in 0 .. n |-> u[k]]
    BY <1>10
  <2>2. \A k \in 0 .. n : u[k] = IF k = 0 THEN base ELSE Spaced(u[k - 1], text[k])
    BY <1>10
  <2>3. 0 \in 0 .. n
    BY <1>1
  <2> HIDE DEF Is
  <2> QED
    BY <1>7, <2>1, <2>2, <2>3
<1> HIDE DEF Is
<1> DEFINE G == {k \in 0 .. n : u[k] \in S}
<1>12. 0 \in G
  BY <1>1, <1>2, <1>11
<1>13. ASSUME NEW k \in 0 .. n - 1, k \in G
       PROVE  k + 1 \in G
  <2>1. k + 1 \in 1 .. n /\ k + 1 - 1 = k /\ k + 1 \in 0 .. n
    BY <1>1
  <2>2. u[k + 1] = Spaced(u[k], text[k + 1]) /\ text[k + 1] \in S /\ u[k] \in S
    <3>1. \A i \in 1 .. n : i - 1 = k => u[i] = Spaced(u[k], text[i])
      BY <1>11
    <3> QED
      BY <1>1, <1>13, <2>1, <3>1
  <2> QED
    BY <1>2, <2>1, <2>2
<1>14. \A k \in 0 .. n : k \in G
  <2> HIDE DEF G
  <2> QED
    BY <1>1, <1>12, <1>13, Rises
<1> QED
  BY <1>11, <1>14 DEF u, n, S, base

Texts == {text \in Seq(Seq(Nat)) : \A k \in 1 .. Len(text) : IsSentence(text[k])}

PrefixOf(short, long) ==
    Len(short) <= Len(long) /\ \A i \in 1 .. Len(short) : long[i] = short[i]

\* Where a sentence begins in the text.
Start(text, k) == IF k = 1 THEN 1 ELSE Len(UpTo(text)[k - 1]) + 2

\* All is the left, a space if there is any, and the right from start on.
Joins(all, left, right, start) ==
    /\ all \in Seq(Nat) /\ all # <<>> /\ start \in Nat \ {0} /\ Len(right) \in Nat \ {0}
    /\ Len(all) = start - 1 + Len(right)
    /\ \A j \in 1 .. Len(right) : all[start - 1 + j] = right[j]
    /\ PrefixOf(left, all)
    /\ left # <<>> => start - 1 \in 1 .. Len(all) /\ all[start - 1] = Space

LEMMA SpacedEnds ==
  ASSUME NEW left \in Seq(Nat), NEW right \in Seq(Nat), right # <<>>,
         NEW start, start = IF left = <<>> THEN 1 ELSE Len(left) + 2
  PROVE  Joins(Spaced(left, right), left, right, start)
<1> DEFINE all == Spaced(left, right)  l == Len(left)  r == Len(right)
<1>1. l \in Nat /\ r \in Nat \ {0}
  BY LenProperties, EmptySeq
<1>2. all \in Seq(Nat)
  BY SpacedIs
<1>3. CASE left = <<>>
  <2>1. all = right /\ start = 1
    BY <1>3, SpacedIs
  <2>2. l = 0
    BY <1>3, EmptySeq
  <2>3. PrefixOf(left, all)
    <3>1. 1 .. l = {} /\ l <= Len(all)
      BY <1>1, <2>1, <2>2
    <3> QED
      BY <3>1 DEF PrefixOf
  <2>4. \A j \in 1 .. r : start - 1 + j = j
    BY <1>1, <2>1
  <2>5. Len(all) = start - 1 + r
    BY <1>1, <2>1
  <2> HIDE DEF all
  <2> QED
    BY <1>1, <1>2, <1>3, <2>1, <2>3, <2>4, <2>5 DEF all, Joins
<1>4. CASE left # <<>>
  <2>1. /\ Len(all) = l + 1 + r
        /\ \A i \in 1 .. l : all[i] = left[i]
        /\ all[l + 1] = Space
        /\ \A j \in 1 .. r : all[l + 1 + j] = right[j]
    BY <1>4, SpacedIs
  <2> HIDE DEF all, r
  <2>2. PrefixOf(left, all)
    <3>1. l <= Len(all)
      BY <1>1, <2>1
    <3> QED
      BY <2>1, <3>1 DEF PrefixOf
  <2> HIDE DEF l
  <2>3. start = l + 2 /\ start - 1 = l + 1 /\ start - 1 \in 1 .. Len(all) /\ Len(all) # 0
    BY <1>1, <1>4, <2>1 DEF l
  <2>4. all # <<>>
    BY <2>3, EmptySeq
  <2>5. Len(all) = start - 1 + r
    BY <1>1, <2>1, <2>3
  <2>6. \A j \in 1 .. r : all[start - 1 + j] = right[j]
    BY <2>1, <2>3
  <2>7. start \in Nat \ {0} /\ all[start - 1] = Space
    BY <1>1, <2>1, <2>3
  <2> HIDE DEF PrefixOf
  <2>8. /\ all \in Seq(Nat) /\ all # <<>> /\ start \in Nat \ {0} /\ r \in Nat \ {0}
        /\ Len(all) = start - 1 + r
        /\ \A j \in 1 .. r : all[start - 1 + j] = right[j]
        /\ PrefixOf(left, all)
        /\ left # <<>> => start - 1 \in 1 .. Len(all) /\ all[start - 1] = Space
    BY <1>1, <1>2, <2>2, <2>3, <2>4, <2>5, <2>6, <2>7
  <2> QED
    BY <2>8 DEF all, r, Joins
<1> QED
  BY <1>3, <1>4

\* The text up to a sentence ends with it, past a space if another was before it.
LEMMA SentenceEnds ==
  ASSUME NEW text \in Texts, NEW k \in 1 .. Len(text)
  PROVE  LET u == UpTo(text) IN
         /\ text[k] \in Seq(Nat) /\ IsSentence(text[k]) /\ Len(text[k]) \in Nat \ {0}
         /\ u[k] \in Seq(Nat) /\ u[k - 1] \in Seq(Nat)
         /\ u[k] # <<>> /\ Start(text, k) \in Nat \ {0}
         /\ Len(u[k]) = Start(text, k) - 1 + Len(text[k])
         /\ \A j \in 1 .. Len(text[k]) : u[k][Start(text, k) - 1 + j] = text[k][j]
         /\ PrefixOf(u[k - 1], u[k])
         /\ k > 1 => /\ u[k - 1] # <<>> /\ Start(text, k) - 1 \in 1 .. Len(u[k])
                     /\ u[k][Start(text, k) - 1] = Space
<1> DEFINE n == Len(text)  u == UpTo(text)
<1>0. text \in Seq(Seq(Nat)) /\ n \in Nat /\ k \in 1 .. n
  BY LenProperties DEF Texts
<1>1. \A i \in 1 .. n : text[i] \in Seq(Nat) /\ text[i] # <<>> /\ IsSentence(text[i])
  <2> TAKE i \in 1 .. n
  <2>1. text[i] \in Seq(Nat)
    BY <1>0, ElementOfSeq
  <2>2. IsSentence(text[i])
    BY DEF Texts
  <2> QED
    BY <2>1, <2>2 DEF IsSentence
<1>2. /\ u \in [0 .. n -> Seq(Nat)] /\ u[0] = <<>>
      /\ \A i \in 1 .. n : u[i] = Spaced(u[i - 1], text[i])
  BY <1>0, UpToIs
<1>3. Start(text, k) = IF k = 1 THEN 1 ELSE Len(u[k - 1]) + 2
  BY DEF Start
<1> HIDE DEF u, n
<1>4. ASSUME NEW i \in 1 .. n
      PROVE  u[i - 1] \in Seq(Nat) /\ u[i] = Spaced(u[i - 1], text[i]) /\ u[i] # <<>>
  <2>1. i - 1 \in 0 .. n
    BY <1>0
  <2>2. u[i - 1] \in Seq(Nat) /\ u[i] = Spaced(u[i - 1], text[i])
    BY <1>2, <2>1
  <2>3. Spaced(u[i - 1], text[i]) # <<>>
    BY <1>1, <2>2, SpacedEnds DEF Joins
  <2> QED
    BY <2>2, <2>3
<1>5. k > 1 => u[k - 1] # <<>>
  <2>1. k > 1 => k - 1 \in 1 .. n
    BY <1>0
  <2> QED
    BY <1>4, <2>1
<1>6. k = 1 => u[k - 1] = <<>>
  BY <1>2
<1>7. Start(text, k) = IF u[k - 1] = <<>> THEN 1 ELSE Len(u[k - 1]) + 2
  BY <1>0, <1>3, <1>5, <1>6
<1>8. u[k - 1] \in Seq(Nat) /\ u[k] = Spaced(u[k - 1], text[k]) /\ text[k] \in Seq(Nat) /\ text[k] # <<>>
  BY <1>0, <1>1, <1>4
<1>9. Joins(u[k], u[k - 1], text[k], Start(text, k))
  <2> HIDE DEF Start
  <2> QED
    BY <1>7, <1>8, SpacedEnds
<1> QED
  BY <1>0, <1>1, <1>5, <1>8, <1>9 DEF u, Joins

LEMMA UpToGrows ==
  ASSUME NEW text \in Texts, NEW k \in 0 .. Len(text)
  PROVE  /\ Len(text) \in Nat /\ UpTo(text)[k] \in Seq(Nat) /\ Body(text) \in Seq(Nat)
         /\ PrefixOf(UpTo(text)[k], Body(text))
<1> DEFINE n == Len(text)  u == UpTo(text)
           G == {m \in 0 .. n : k <= m => PrefixOf(u[k], u[m])}
<1>0. text \in Seq(Seq(Nat)) /\ n \in Nat
  BY LenProperties DEF Texts
<1>1. u \in [0 .. n -> Seq(Nat)]
  BY <1>0, UpToIs
<1>2. \A m \in 1 .. n : PrefixOf(u[m - 1], u[m])
  BY SentenceEnds
<1>3. Body(text) = u[n]
  BY DEF Body
<1> HIDE DEF u, n
<1>4. \A m \in 0 .. n : u[m] \in Seq(Nat) /\ Len(u[m]) \in Nat
  BY <1>1, LenProperties
<1>5. k \in 0 .. n
  BY DEF n
<1>6. PrefixOf(u[k], u[k])
  BY <1>4, <1>5 DEF PrefixOf
<1>7. 0 \in G
  BY <1>0, <1>5, <1>6
<1>8. ASSUME NEW m \in 0 .. n - 1, m \in G
      PROVE  m + 1 \in G
  <2>0. m + 1 \in 1 .. n /\ m + 1 - 1 = m /\ m \in 0 .. n /\ m + 1 \in 0 .. n
    BY <1>0
  <2>1. PrefixOf(u[m], u[m + 1])
    BY <1>2, <2>0
  <2>2. k <= m => PrefixOf(u[k], u[m + 1])
    <3> SUFFICES ASSUME k <= m PROVE PrefixOf(u[k], u[m + 1])
      OBVIOUS
    <3>1. PrefixOf(u[k], u[m])
      BY <1>8
    <3> QED
      BY <1>4, <1>5, <2>0, <2>1, <3>1 DEF PrefixOf
  <2>3. k = m + 1 => PrefixOf(u[k], u[m + 1])
    BY <1>6
  <2> QED
    BY <1>0, <1>5, <2>0, <2>2, <2>3
<1>9. n \in G
  <2> HIDE DEF G
  <2>1. \A m \in 0 .. n : m \in G
    BY <1>0, <1>7, <1>8, Rises
  <2> QED
    BY <1>0, <2>1
<1> QED
  BY <1>0, <1>3, <1>4, <1>5, <1>9 DEF u, n

\* A sentence stands in the text where it begins.
LEMMA SentenceStands ==
  ASSUME NEW text \in Texts, NEW k \in 1 .. Len(text)
  PROVE  LET start == Start(text, k)  past == Len(UpTo(text)[k]) + 1 IN
         /\ start \in Nat \ {0} /\ past = start + Len(text[k]) /\ past <= Len(Body(text)) + 1
         /\ \A j \in 1 .. Len(text[k]) : Body(text)[start - 1 + j] = text[k][j]
         /\ k > 1 => Body(text)[start - 1] = Space
<1> DEFINE w == UpTo(text)[k]  b == Body(text)  start == Start(text, k)  r == Len(text[k])
<1>1. PrefixOf(w, b) /\ w \in Seq(Nat) /\ b \in Seq(Nat)
  <2>1. k \in 0 .. Len(text)
    OBVIOUS
  <2> QED
    BY <2>1, UpToGrows
<1>2. /\ r \in Nat \ {0} /\ start \in Nat \ {0} /\ Len(w) = start - 1 + r
      /\ \A j \in 1 .. r : w[start - 1 + j] = text[k][j]
      /\ k > 1 => start - 1 \in 1 .. Len(w) /\ w[start - 1] = Space
  BY SentenceEnds
<1> HIDE DEF w, b, start, r
<1>3. Len(w) \in Nat /\ Len(b) \in Nat
  BY <1>1, LenProperties
<1>4. Len(w) + 1 = start + r /\ Len(w) + 1 <= Len(b) + 1
  BY <1>1, <1>2, <1>3 DEF PrefixOf
<1>5. \A j \in 1 .. r : b[start - 1 + j] = text[k][j]
  <2> TAKE j \in 1 .. r
  <2>1. start - 1 + j \in 1 .. Len(w)
    BY <1>2
  <2> QED
    BY <1>1, <1>2, <2>1 DEF PrefixOf
<1>6. k > 1 => b[start - 1] = Space
  BY <1>1, <1>2 DEF PrefixOf
<1> QED
  BY <1>2, <1>4, <1>5, <1>6 DEF w, b, start, r

-----------------------------------------------------------------------------
(* Requests laid along a text.                                             *)

\* The request is what the text says from this place on, and can be sent.
Stretch(body, said, from) ==
    /\ said \in Seq(Nat) /\ Len(said) \in 1 .. CHUNK_CHARS
    /\ from \in Nat \ {0} /\ from + Len(said) <= Len(body) + 1
    /\ \A j \in 1 .. Len(said) : said[j] = body[from - 1 + j]

\* When one request ended before past, another may begin at next.
Leads(body, past, next) ==
    /\ past \in 1 .. Len(body) /\ next \in 1 .. Len(body)
    /\ IF body[past] = Space THEN next = past + 1 ELSE next = past /\ InLongWord(body, past)

Places(body, chunks, at) ==
    /\ at \in [1 .. Len(chunks) + 1 -> Nat] /\ at[1] = 1
    /\ \A i \in 1 .. Len(chunks) : /\ Stretch(body, chunks[i], at[i])
                                   /\ Leads(body, at[i] + Len(chunks[i]), at[i + 1])

\* The full requests say the text up to where the next is to begin.
Laid(body, chunks, next) ==
    /\ chunks \in Seq(Seq(Nat))
    /\ \E at : Places(body, chunks, at) /\ at[Len(chunks) + 1] = next

\* With the one in hand they say the text up to a place that is still to be
\* said, but for the space before it.
Hand(body, chunks, inHand, place) ==
    /\ place \in 1 .. Len(body)
    /\ \/ inHand = <<>> /\ Laid(body, chunks, place)
       \/ \E from : /\ Laid(body, chunks, from) /\ Stretch(body, inHand, from)
                    /\ from + Len(inHand) + 1 = place /\ body[place - 1] = Space

\* All of the text before past is said, the end of it in hand.
Ends(body, acc, past) ==
    \E from : /\ Laid(body, acc.chunks, from) /\ Stretch(body, acc.current, from)
              /\ from + Len(acc.current) = past

LEMMA NothingLaid ==
  ASSUME NEW body
  PROVE  Laid(body, <<>>, 1)
<1> DEFINE at == [i \in 1 .. 1 |-> 1]  none == <<>>
<1>1. none \in Seq(Seq(Nat)) /\ Len(none) = 0
  BY EmptySeq
<1> HIDE DEF none
<1>2. Places(body, none, at) /\ at[Len(none) + 1] = 1
  BY <1>1 DEF Places
<1> HIDE DEF at
<1> QED
  BY <1>1, <1>2 DEF Laid, none

LEMMA LaidMore ==
  ASSUME NEW body, NEW chunks, NEW from, NEW said, NEW next,
         Laid(body, chunks, from), Stretch(body, said, from),
         Leads(body, from + Len(said), next)
  PROVE  Laid(body, Append(chunks, said), next)
<1> DEFINE n == Len(chunks)  more == Append(chunks, said)
<1>1. PICK at : Places(body, chunks, at) /\ at[n + 1] = from
  BY DEF Laid
<1>2. chunks \in Seq(Seq(Nat)) /\ said \in Seq(Nat) /\ n \in Nat
  BY LenProperties DEF Laid, Stretch
<1>3. /\ more \in Seq(Seq(Nat)) /\ Len(more) = n + 1
      /\ \A i \in 1 .. n : more[i] = chunks[i]
      /\ more[n + 1] = said
  BY <1>2, AppendProperties
<1>4. /\ at \in [1 .. n + 1 -> Nat] /\ at[1] = 1
      /\ \A i \in 1 .. n : Stretch(body, chunks[i], at[i])
                           /\ Leads(body, at[i] + Len(chunks[i]), at[i + 1])
  BY <1>1 DEF Places
<1>5. next \in Nat
  BY DEF Leads
<1> DEFINE longer == [i \in 1 .. n + 2 |-> IF i <= n + 1 THEN at[i] ELSE next]
<1> HIDE DEF n, more
<1>6. /\ longer \in [1 .. n + 1 + 1 -> Nat] /\ longer[1] = 1
      /\ \A i \in 1 .. n + 1 : longer[i] = at[i]
      /\ longer[n + 2] = next
  BY <1>2, <1>4, <1>5
<1> HIDE DEF longer
<1>7. ASSUME NEW i \in 1 .. n + 1
      PROVE  Stretch(body, more[i], longer[i]) /\ Leads(body, longer[i] + Len(more[i]), longer[i + 1])
  <2>1. CASE i = n + 1
    <3>1. i + 1 = n + 2 /\ longer[i] = from /\ more[i] = said
      BY <1>1, <1>2, <1>3, <1>6, <2>1
    <3> QED
      BY <1>6, <3>1
  <2>2. CASE i # n + 1
    <3>1. i \in 1 .. n /\ i + 1 \in 1 .. n + 1
      BY <1>2, <2>2
    <3> QED
      BY <1>3, <1>4, <1>6, <3>1
  <2> QED
    BY <2>1, <2>2
<1>8. Places(body, more, longer)
  BY <1>3, <1>6, <1>7 DEF Places
<1>9. longer[Len(more) + 1] = next
  BY <1>2, <1>3, <1>6
<1> QED
  BY <1>3, <1>8, <1>9 DEF Laid, more

LEMMA PushedIsLaid ==
  ASSUME NEW body, NEW chunks, NEW inHand, NEW place, Hand(body, chunks, inHand, place),
         Len(body) \in Nat
  PROVE  Laid(body, Pushed(chunks, inHand), place)
<1>1. CASE inHand = <<>> /\ Laid(body, chunks, place)
  BY <1>1 DEF Pushed
<1>2. ASSUME NEW from, Laid(body, chunks, from), Stretch(body, inHand, from),
             from + Len(inHand) + 1 = place, body[place - 1] = Space
      PROVE  Laid(body, Pushed(chunks, inHand), place)
  <2>1. inHand # <<>> /\ from \in Nat \ {0} /\ Len(inHand) \in Nat \ {0}
    BY <1>2, EmptySeq, VoiceAssumption DEF Stretch
  <2>2. place \in 1 .. Len(body) /\ place - 1 = from + Len(inHand) /\ from + Len(inHand) \in 1 .. Len(body)
    BY <1>2, <2>1 DEF Hand
  <2>3. Leads(body, from + Len(inHand), place)
    BY <1>2, <2>2 DEF Leads
  <2> QED
    BY <1>2, <2>1, <2>3, LaidMore DEF Pushed
<1> QED
  BY <1>1, <1>2 DEF Hand

-----------------------------------------------------------------------------
(* Taking a sentence.                                                      *)

Stands(body, part, start) ==
    /\ part \in Seq(Nat) /\ IsSentence(part) /\ Len(part) \in Nat \ {0}
    /\ start \in Nat \ {0} /\ start + Len(part) <= Len(body) + 1
    /\ \A j \in 1 .. Len(part) : body[start - 1 + j] = part[j]

LEMMA CutIs ==
  ASSUME NEW part \in Seq(Nat), IsSentence(part), NEW from \in 1 .. Len(part), ~ Fits(part, from)
  PROVE  LET next == from + Cut(part, from) IN
         /\ Cut(part, from) \in 1 .. CHUNK_CHARS /\ next \in 1 .. Len(part)
         /\ part[next] = Space => next + 1 \in 1 .. Len(part) /\ part[next + 1] # Space
         /\ part[next] # Space => /\ Cut(part, from) = CHUNK_CHARS
                                  /\ \A k \in 1 .. CHUNK_CHARS : part[from + k] # Space
<1> DEFINE spaces == {k \in 1 .. CHUNK_CHARS : part[from + k] = Space}
           cut == Cut(part, from)  len == Len(part)  limit == CHUNK_CHARS
<1>1. len \in Nat /\ limit \in Nat \ {0} /\ from \in 1 .. len /\ len + 1 - from > limit
  BY LenProperties, VoiceAssumption DEF Fits
<1>2. part[len] # Space /\ \A k \in 1 .. len - 1 : part[k] # Space \/ part[k + 1] # Space
  BY DEF IsSentence
<1>3. cut = IF spaces = {} THEN limit ELSE Max(spaces)
  BY DEF Cut
<1>4. spaces # {} => cut \in spaces
  <2>1. spaces \subseteq Within(limit)
    BY <1>1 DEF Within
  <2> HIDE DEF spaces, limit
  <2> QED
    BY <1>1, <1>3, <2>1, ExtremesAre
<1>5. cut \in 1 .. limit
  BY <1>1, <1>3, <1>4
<1>6. spaces = {} => \A k \in 1 .. limit : part[from + k] # Space
  OBVIOUS
<1>7. cut \in spaces => part[from + cut] = Space
  OBVIOUS
<1> HIDE DEF spaces, cut, len, limit
<1>8. from + cut \in 1 .. len
  BY <1>1, <1>5
<1>9. ASSUME part[from + cut] = Space
      PROVE  from + cut + 1 \in 1 .. len /\ part[from + cut + 1] # Space
  <2>1. from + cut # len
    BY <1>2, <1>9
  <2>2. from + cut \in 1 .. len - 1
    BY <1>1, <1>8, <2>1
  <2>3. part[from + cut] # Space \/ part[from + cut + 1] # Space
    BY <1>2, <2>2
  <2> QED
    BY <1>1, <1>9, <2>2, <2>3
<1>10. ASSUME part[from + cut] # Space
       PROVE  cut = limit /\ \A k \in 1 .. limit : part[from + k] # Space
  <2>1. spaces = {}
    BY <1>4, <1>7, <1>10
  <2> QED
    BY <1>3, <1>6, <2>1
<1> QED
  BY <1>5, <1>8, <1>9, <1>10 DEF cut, len, limit

Accs == [chunks : Seq(Seq(Nat)), current : Seq(Nat)]
Hands(part) ==
    {s \in [chunks : Seq(Seq(Nat)), current : Seq(Nat), from : Nat] :
        s.from \in 1 .. Len(part) /\ part[s.from] # Space}

LEMMA PieceOf ==
  ASSUME NEW part \in Seq(Nat), NEW from \in 1 .. Len(part), NEW past \in from + 1 .. Len(part) + 1
  PROVE  LET piece == SubSeq(part, from, past - 1) IN
         /\ piece \in Seq(Nat) /\ Len(piece) = past - from
         /\ \A j \in 1 .. past - from : piece[j] = part[from - 1 + j]
<1> DEFINE len == Len(part)  last == past - 1
<1>1. len \in Nat /\ \A i \in 1 .. len : part[i] \in Nat
  BY LenProperties, ElementOfSeq
<1>2. from \in 1 .. len /\ past \in from + 1 .. len + 1
  OBVIOUS
<1> HIDE DEF len
<1>3. last \in Int /\ from \in Int /\ from <= last /\ last - from + 1 = past - from
      /\ \A i \in from .. last : part[i] \in Nat
  BY <1>1, <1>2
<1>4. \A j \in Int : from + j - 1 = from - 1 + j
  BY <1>3
<1> DEFINE piece == SubSeq(part, from, last)
<1> HIDE DEF last
<1>5. /\ piece \in Seq(Nat) /\ Len(piece) = IF from <= last THEN last - from + 1 ELSE 0
      /\ \A j \in 1 .. last - from + 1 : piece[j] = part[from + j - 1]
  BY <1>3, SubSeqProperties
<1> HIDE DEF piece
<1> QED
  BY <1>3, <1>4, <1>5 DEF piece, last

LEMMA CutsIs ==
  ASSUME NEW part \in Seq(Nat), IsSentence(part), NEW s \in Hands(part), ~ Fits(part, s.from)
  PROVE  /\ Cuts(s, part) \in Hands(part)
         /\ Cuts(s, part).from \in s.from + 1 .. Len(part)
<1> DEFINE next == s.from + Cut(part, s.from)  t == Cuts(s, part)
           piece == SubSeq(part, s.from, next - 1)
<1>1. /\ s.chunks \in Seq(Seq(Nat)) /\ s.current \in Seq(Nat) /\ s.from \in 1 .. Len(part)
      /\ Len(part) \in Nat
  BY LenProperties DEF Hands
<1>2. /\ Cut(part, s.from) \in 1 .. CHUNK_CHARS /\ next \in 1 .. Len(part)
      /\ part[next] = Space => next + 1 \in 1 .. Len(part) /\ part[next + 1] # Space
  BY <1>1, CutIs
<1>3. next \in s.from + 1 .. Len(part) + 1 /\ next \in s.from + 1 .. Len(part) /\ next + 1 > s.from
  BY <1>1, <1>2, VoiceAssumption
<1>4. /\ t.chunks = Append(Pushed(s.chunks, s.current), piece) /\ t.current = <<>>
      /\ t.from = IF part[next] = Space THEN next + 1 ELSE next
      /\ t = [chunks |-> t.chunks, current |-> t.current, from |-> t.from]
  BY DEF Cuts
<1> HIDE DEF t
<1>5. piece \in Seq(Nat)
  <2> HIDE DEF next
  <2> QED
    BY <1>1, <1>3, PieceOf
<1> HIDE DEF piece, next
<1>6. Pushed(s.chunks, s.current) \in Seq(Seq(Nat))
  BY <1>1, AppendProperties DEF Pushed
<1>7. t.chunks \in Seq(Seq(Nat)) /\ t.current \in Seq(Nat)
  BY <1>4, <1>5, <1>6, AppendProperties, EmptySeq
<1>8. t.from \in s.from + 1 .. Len(part) /\ part[t.from] # Space
  BY <1>1, <1>2, <1>3, <1>4
<1>9. t.from \in 1 .. Len(part) /\ t.from \in Nat
  BY <1>1, <1>8
<1>10. t \in [chunks : Seq(Seq(Nat)), current : Seq(Nat), from : Nat]
  BY <1>4, <1>7, <1>9
<1> QED
  BY <1>8, <1>9, <1>10 DEF Hands, t

LEMMA CutsKeepsHand ==
  ASSUME NEW body \in Seq(Nat), NEW part, NEW start, Stands(body, part, start),
         NEW s \in Hands(part), ~ Fits(part, s.from),
         Hand(body, s.chunks, s.current, start - 1 + s.from)
  PROVE  Hand(body, Cuts(s, part).chunks, Cuts(s, part).current, start - 1 + Cuts(s, part).from)
<1> DEFINE f == s.from  next == f + Cut(part, f)  t == Cuts(s, part)
           piece == SubSeq(part, f, next - 1)  limit == CHUNK_CHARS  len == Len(part)
           pushed == Pushed(s.chunks, s.current)  l == Len(body)  p == Len(piece)
<1>1. /\ part \in Seq(Nat) /\ IsSentence(part) /\ len \in Nat \ {0} /\ start \in Nat \ {0}
      /\ start + len <= l + 1 /\ \A j \in 1 .. len : body[start - 1 + j] = part[j]
  BY DEF Stands
<1>0. l \in Nat /\ DOMAIN body = 1 .. l
  BY LenProperties
<1>2. f \in 1 .. len /\ part[f] # Space
  BY DEF Hands
<1>3. LET c == Cut(part, f) IN
      /\ c \in 1 .. limit /\ f + c \in 1 .. len
      /\ part[f + c] = Space => f + c + 1 \in 1 .. len /\ part[f + c + 1] # Space
      /\ part[f + c] # Space => c = limit /\ \A k \in 1 .. limit : part[f + k] # Space
  BY <1>1, <1>2, CutIs
<1>4. /\ t.chunks = Append(pushed, piece) /\ t.current = <<>>
      /\ t.from = IF part[next] = Space THEN next + 1 ELSE next
  BY DEF Cuts
<1>L. limit \in Nat \ {0}
  BY VoiceAssumption
<1>6. Laid(body, pushed, start - 1 + f)
  BY <1>0, PushedIsLaid
<1> HIDE DEF f, t, limit, len, pushed, l
<1>5. /\ next \in f + 1 .. len /\ next <= f + limit
      /\ part[next] = Space => next + 1 \in 1 .. len
      /\ part[next] # Space => next = f + limit /\ \A k \in 1 .. limit : part[f + k] # Space
  <2> DEFINE c == Cut(part, f)
  <2>1. /\ c \in 1 .. limit /\ f + c \in 1 .. len
        /\ part[f + c] = Space => f + c + 1 \in 1 .. len
        /\ part[f + c] # Space => c = limit /\ \A k \in 1 .. limit : part[f + k] # Space
    BY <1>3
  <2> HIDE DEF c
  <2>2. f + c \in f + 1 .. len /\ f + c <= f + limit
    BY <1>L, <1>1, <1>2, <2>1
  <2>3. next = f + c
    BY DEF c
  <2> HIDE DEF next
  <2> QED
    BY <2>1, <2>2, <2>3
<1> HIDE DEF next
<1>7. piece \in Seq(Nat) /\ p = next - f /\ \A j \in 1 .. next - f : piece[j] = part[f - 1 + j]
  <2>1. next \in f + 1 .. len + 1
    BY <1>1, <1>2, <1>5
  <2> QED
    BY <1>1, <1>2, <2>1, PieceOf DEF len
<1>P. Len(piece) = p
  OBVIOUS
<1> HIDE DEF piece, p
<1> DEFINE past == start - 1 + next  new == start - 1 + t.from
<1>8. Stretch(body, piece, start - 1 + f)
  <2>1. /\ start - 1 + f \in Nat \ {0} /\ start - 1 + f + p <= l + 1
        /\ p \in 1 .. limit
    BY <1>0, <1>1, <1>2, <1>5, <1>7, <1>L
  <2>2. ASSUME NEW j \in 1 .. p
        PROVE  piece[j] = body[(start - 1 + f) - 1 + j]
    <3>1. j \in 1 .. next - f
      BY <1>7
    <3>2. f - 1 + j \in 1 .. len /\ start - 1 + (f - 1 + j) = (start - 1 + f) - 1 + j
      BY <1>1, <1>2, <1>5, <3>1
    <3>3. body[start - 1 + (f - 1 + j)] = part[f - 1 + j]
      BY <1>1, <3>2
    <3> QED
      BY <1>7, <3>1, <3>2, <3>3
  <2>3. /\ piece \in Seq(Nat) /\ Len(piece) \in 1 .. CHUNK_CHARS
        /\ start - 1 + f \in Nat \ {0} /\ start - 1 + f + Len(piece) <= Len(body) + 1
        /\ \A j \in 1 .. Len(piece) : piece[j] = body[(start - 1 + f) - 1 + j]
    BY <1>7, <1>P, <2>1, <2>2 DEF limit, l
  <2> QED
    BY <2>3 DEF Stretch
<1>9. start - 1 + f + p = past /\ past \in 1 .. l
  <2>1. start \in Nat \ {0} /\ next \in 1 .. len /\ f \in Nat /\ p = next - f /\ start + len <= l + 1
        /\ len \in Nat /\ l \in Nat
    BY <1>0, <1>1, <1>2, <1>5, <1>7
  <2>2. start - 1 + f + p = start - 1 + next
    BY <2>1
  <2>3. start - 1 + next \in 1 .. l
    BY <2>1
  <2> QED
    BY <2>2, <2>3
<1>N. new \in 1 .. l
  <2>1. t.from \in 1 .. len
    BY <1>1, <1>2, <1>4, <1>5
  <2> QED
    BY <1>0, <1>1, <2>1
<1>B. body[past] = part[next]
  <2>1. next \in 1 .. len
    BY <1>1, <1>2, <1>5
  <2> QED
    BY <1>1, <2>1
<1>10. Leads(body, past, new)
  <2>1. CASE part[next] = Space
    <3>1. new = past + 1
      BY <1>1, <1>2, <1>4, <1>5, <2>1
    <3> HIDE DEF new, past
    <3> QED
      BY <1>9, <1>N, <1>B, <2>1, <3>1 DEF Leads, l
  <2>2. CASE part[next] # Space
    <3>1. new = past
      BY <1>4, <2>2
    <3>2. InLongWord(body, past)
      <4> DEFINE i == start - 1 + f  j == start - 1 + f + limit
      <4>0. next = f + limit
        BY <1>5, <2>2
      <4>1. i \in Nat \ {0} /\ j \in Nat \ {0} /\ i < past /\ past <= j /\ j - i >= limit
        BY <1>1, <1>2, <1>L, <4>0
      <4>2. j <= l
        BY <1>0, <1>1, <1>2, <1>9, <1>L, <4>0
      <4>3. ASSUME NEW k \in i .. j
            PROVE  body[k] # Space
        <5> DEFINE m == k - i
        <5>1. m \in 0 .. limit /\ f + m \in 1 .. len /\ start - 1 + (f + m) = k
          <6>1. k \in start - 1 + f .. start - 1 + f + limit
            OBVIOUS
          <6>2. start \in Nat /\ f \in Nat /\ f >= 1 /\ f + limit <= len /\ limit \in Nat /\ len \in Nat
            BY <1>1, <1>2, <1>5, <1>L, <4>0
          <6>3. m \in 0 .. limit
            BY <6>1, <6>2
          <6>4. start - 1 + (f + m) = k
            BY <6>1, <6>2
          <6> HIDE DEF m
          <6> QED
            BY <6>2, <6>3, <6>4
        <5>2. body[k] = part[f + m]
          <6>1. body[start - 1 + (f + m)] = part[f + m]
            BY <1>1, <5>1
          <6> QED
            BY <5>1, <6>1
        <5> HIDE DEF m
        <5>3. part[f + m] # Space
          <6>1. CASE m = 0
            <7>1. f + m = f
              BY <1>1, <1>2, <6>1
            <7> QED
              BY <1>2, <7>1
          <6>2. CASE m # 0
            <7>1. m \in 1 .. limit
              BY <1>L, <5>1, <6>2
            <7> QED
              BY <1>5, <2>2, <7>1
          <6> QED
            BY <6>1, <6>2
        <5> QED
          BY <5>2, <5>3
      <4>4. i \in DOMAIN body /\ j \in DOMAIN body
        <5> HIDE DEF past
        <5>1. i <= l /\ i \in 1 .. l /\ j \in 1 .. l
          BY <1>0, <1>L, <4>1, <4>2
        <5> QED
          BY <1>0, <5>1
      <4> HIDE DEF i, j, past
      <4> QED
        BY <4>1, <4>3, <4>4 DEF InLongWord, limit
    <3> HIDE DEF new, past
    <3> QED
      BY <1>9, <1>N, <1>B, <2>2, <3>1, <3>2 DEF Leads, l
  <2> QED
    BY <2>1, <2>2
<1>S. start - 1 + f + Len(piece) = past
  BY <1>9, <1>P
<1> HIDE DEF new, past
<1>11. Laid(body, t.chunks, new)
  BY <1>4, <1>6, <1>8, <1>10, <1>S, LaidMore
<1> QED
  BY <1>4, <1>N, <1>11 DEF Hand, t, new, l

LEMMA TurnsIs ==
  ASSUME NEW acc \in Accs, NEW part \in Seq(Nat), IsSentence(part)
  PROVE  LET turns == Turns(acc, part)  n == Len(part) IN
         /\ n \in Nat \ {0} /\ turns \in [0 .. n -> Hands(part)]
         /\ turns[0] = [chunks |-> acc.chunks, current |-> acc.current, from |-> 1]
         /\ \A k \in 1 .. n : turns[k] = IF Fits(part, turns[k - 1].from) THEN turns[k - 1]
                                         ELSE Cuts(turns[k - 1], part)
<1> DEFINE n == Len(part)  S == Hands(part)  u == Turns(acc, part)
           base == [chunks |-> acc.chunks, current |-> acc.current, from |-> 1]
           Step(s) == IF Fits(part, s.from) THEN s ELSE Cuts(s, part)
           Is(f) == f = [k \in 0 .. n |-> IF k = 0 THEN base ELSE Step(f[k - 1])]
           step == [p \in (1 .. n) \X S |-> Step(p[2])]
<1>1. n \in Nat \ {0}
  BY LenProperties, EmptySeq DEF IsSentence
<1>2. base \in S
  <2>1. part[1] # Space /\ 1 \in 1 .. n
    BY <1>1 DEF IsSentence
  <2> QED
    BY <2>1 DEF Accs, Hands
<1>3. \A s \in S : Step(s) \in S
  BY CutsIs
<1>4. u = CHOOSE g : Is(g)
  BY DEF Turns
<1> HIDE DEF n, S, base, u, Step
<1>5. step \in [(1 .. n) \X S -> S]
  BY <1>3
<1>6. \A k \in 1 .. n, s \in S : step[<<k, s>>] = Step(s)
  OBVIOUS
<1> HIDE DEF step
<1>7. PICK f : Iteration(f, n, S, base, step)
  BY <1>1, <1>2, <1>5, Iterates
<1>8. \A k \in 1 .. n : k - 1 \in 0 .. n /\ k \in 0 .. n /\ k # 0
  BY <1>1
<1>9. \A k \in 1 .. n : f[k] = Step(f[k - 1])
  BY <1>6, <1>7, <1>8 DEF Iteration
<1>10. Is(f)
  BY <1>1, <1>7, <1>9 DEF Iteration
<1>11. Is(u)
  <2> HIDE DEF Is
  <2> QED
    BY <1>4, <1>10
<1>12. /\ DOMAIN u = 0 .. n /\ u[0] = base /\ u = [k \in 0 .. n |-> u[k]]
       /\ \A k \in 1 .. n : u[k] = Step(u[k - 1])
  <2>1. DOMAIN u = 0 .. n /\ u = [k \in 0 .. n |-> u[k]]
    BY <1>11
  <2>2. \A k \in 0 .. n : u[k] = IF k = 0 THEN base ELSE Step(u[k - 1])
    BY <1>11
  <2>3. 0 \in 0 .. n
    BY <1>1
  <2> HIDE DEF Is
  <2> QED
    BY <1>8, <2>1, <2>2, <2>3
<1> HIDE DEF Is
<1> DEFINE G == {k \in 0 .. n : u[k] \in S}
<1>13. 0 \in G
  BY <1>1, <1>2, <1>12
<1>14. ASSUME NEW k \in 0 .. n - 1, k \in G
       PROVE  k + 1 \in G
  <2>1. k + 1 \in 1 .. n /\ k + 1 - 1 = k /\ k + 1 \in 0 .. n
    BY <1>1
  <2>2. \A i \in 1 .. n : i - 1 = k => u[i] = Step(u[k])
    BY <1>12
  <2>3. u[k + 1] = Step(u[k]) /\ u[k] \in S
    BY <1>1, <1>14, <2>1, <2>2
  <2> QED
    BY <1>3, <2>1, <2>3
<1>15. \A k \in 0 .. n : k \in G
  <2> HIDE DEF G
  <2> QED
    BY <1>1, <1>13, <1>14, Rises
<1>16. u \in [0 .. n -> S]
  BY <1>12, <1>15
<1> QED
  BY <1>1, <1>12, <1>16 DEF u, n, S, base, Step

\* After as many turns as it has characters the rest of a sentence fits.
LEMMA TurnsEnd ==
  ASSUME NEW acc \in Accs, NEW part \in Seq(Nat), IsSentence(part)
  PROVE  LET last == Turns(acc, part)[Len(part)] IN last \in Hands(part) /\ Fits(part, last.from)
<1> DEFINE n == Len(part)  u == Turns(acc, part)
           G == {k \in 0 .. n : u[k].from > k \/ Fits(part, u[k].from)}
<1>0. /\ n \in Nat \ {0} /\ u \in [0 .. n -> Hands(part)]
      /\ u[0] = [chunks |-> acc.chunks, current |-> acc.current, from |-> 1]
      /\ \A k \in 1 .. n : u[k] = IF Fits(part, u[k - 1].from) THEN u[k - 1] ELSE Cuts(u[k - 1], part)
  BY TurnsIs
<1>1. /\ n \in Nat \ {0} /\ u \in [0 .. n -> Hands(part)] /\ u[0].from = 1
      /\ \A k \in 1 .. n : u[k] = IF Fits(part, u[k - 1].from) THEN u[k - 1] ELSE Cuts(u[k - 1], part)
  <2> HIDE DEF u, n
  <2> QED
    BY <1>0
<1> HIDE DEF u
<1>2. 0 \in G
  BY <1>1
<1>3. ASSUME NEW k \in 0 .. n - 1, k \in G
      PROVE  k + 1 \in G
  <2>1. k + 1 \in 1 .. n /\ k \in 0 .. n /\ k + 1 \in 0 .. n /\ u[k] \in Hands(part)
    BY <1>1
  <2>2. \A i \in 1 .. n : i - 1 = k => u[i] = IF Fits(part, u[k].from) THEN u[k] ELSE Cuts(u[k], part)
    BY <1>1
  <2>3. u[k + 1] = IF Fits(part, u[k].from) THEN u[k] ELSE Cuts(u[k], part)
    BY <1>1, <2>1, <2>2
  <2>4. CASE Fits(part, u[k].from)
    BY <2>1, <2>3, <2>4
  <2>5. CASE ~ Fits(part, u[k].from)
    <3>1. Cuts(u[k], part).from \in u[k].from + 1 .. n
      BY <2>1, <2>5, CutsIs
    <3>2. u[k].from > k /\ u[k].from \in Nat
      BY <1>3, <2>1, <2>5 DEF Hands
    <3>3. u[k + 1].from > k + 1
      <4> DEFINE c == Cuts(u[k], part)
      <4>1. u[k + 1] = c /\ c.from \in u[k].from + 1 .. n
        BY <2>3, <2>5, <3>1
      <4> HIDE DEF c, n
      <4> QED
        BY <1>1, <3>2, <4>1
    <3> QED
      BY <2>1, <3>3
  <2> QED
    BY <2>4, <2>5
<1>4. \A k \in 0 .. n : k \in G
  <2> HIDE DEF G, n
  <2> QED
    BY <1>1, <1>2, <1>3, Rises
<1>5. n \in 0 .. n
  BY <1>1
<1>6. u[n].from > n \/ Fits(part, u[n].from)
  BY <1>4, <1>5
<1>7. u[n] \in Hands(part) /\ ~ (u[n].from > n)
  <2>1. u[n] \in Hands(part)
    BY <1>1, <1>5
  <2>2. u[n].from \in 1 .. n
    BY <2>1 DEF Hands
  <2> HIDE DEF n
  <2> QED
    BY <1>1, <2>1, <2>2
<1> QED
  BY <1>6, <1>7 DEF u

LEMMA TurnsHand ==
  ASSUME NEW body \in Seq(Nat), NEW part, NEW start, Stands(body, part, start),
         NEW acc \in Accs, Hand(body, acc.chunks, acc.current, start)
  PROVE  LET last == Turns(acc, part)[Len(part)] IN
         Hand(body, last.chunks, last.current, start - 1 + last.from)
<1> DEFINE n == Len(part)  u == Turns(acc, part)
           Holds(s) == Hand(body, s.chunks, s.current, start - 1 + s.from)
           G == {k \in 0 .. n : Holds(u[k])}
<1>1. part \in Seq(Nat) /\ IsSentence(part) /\ start \in Nat \ {0}
  BY DEF Stands
<1>2. /\ n \in Nat \ {0} /\ u \in [0 .. n -> Hands(part)]
      /\ u[0] = [chunks |-> acc.chunks, current |-> acc.current, from |-> 1]
      /\ \A k \in 1 .. n : u[k] = IF Fits(part, u[k - 1].from) THEN u[k - 1] ELSE Cuts(u[k - 1], part)
  BY <1>1, TurnsIs
<1> HIDE DEF u
<1>3. Holds(u[0])
  <2>1. start - 1 + u[0].from = start /\ u[0].chunks = acc.chunks /\ u[0].current = acc.current
    BY <1>1, <1>2
  <2> QED
    BY <2>1
<1>4. \A s \in Hands(part) : Holds(s) /\ ~ Fits(part, s.from) => Holds(Cuts(s, part))
  BY CutsKeepsHand
<1> HIDE DEF Holds
<1>5. 0 \in G
  BY <1>2, <1>3
<1>6. ASSUME NEW k \in 0 .. n - 1, k \in G
      PROVE  k + 1 \in G
  <2>1. k + 1 \in 1 .. n /\ k \in 0 .. n /\ k + 1 \in 0 .. n /\ u[k] \in Hands(part)
    BY <1>2
  <2>2. \A i \in 1 .. n : i - 1 = k => u[i] = IF Fits(part, u[k].from) THEN u[k] ELSE Cuts(u[k], part)
    BY <1>2
  <2>3. u[k + 1] = IF Fits(part, u[k].from) THEN u[k] ELSE Cuts(u[k], part)
    BY <1>2, <2>1, <2>2
  <2> QED
    BY <1>4, <1>6, <2>1, <2>3
<1>7. \A k \in 0 .. n : k \in G
  <2> HIDE DEF G, n
  <2> QED
    BY <1>2, <1>5, <1>6, Rises
<1>8. n \in 0 .. n
  BY <1>2
<1> QED
  BY <1>7, <1>8 DEF u, Holds

LEMMA TakesType ==
  ASSUME NEW acc \in Accs, NEW part \in Seq(Nat), IsSentence(part)
  PROVE  LET last == Turns(acc, part)[Len(part)]  rest == SubSeq(part, last.from, Len(part)) IN
         /\ Takes(acc, part) \in Accs
         /\ last.chunks \in Seq(Seq(Nat)) /\ last.current \in Seq(Nat)
         /\ last.from \in 1 .. Len(part) /\ Len(part) \in Nat
         /\ rest \in Seq(Nat) /\ Len(rest) \in 1 .. CHUNK_CHARS /\ Len(rest) = Len(part) + 1 - last.from
         /\ \A j \in 1 .. Len(rest) : rest[j] = part[last.from - 1 + j]
<1> DEFINE n == Len(part)  last == Turns(acc, part)[n]  rest == SubSeq(part, last.from, n)
           f == last.from
<1>1. last \in Hands(part) /\ Fits(part, last.from) /\ n \in Nat
  BY TurnsEnd, LenProperties
<1>2. last.chunks \in Seq(Seq(Nat)) /\ last.current \in Seq(Nat) /\ f \in 1 .. n
  BY <1>1 DEF Hands
<1>3. n + 1 - f \in 1 .. CHUNK_CHARS
  <2>1. n + 1 - f <= CHUNK_CHARS /\ CHUNK_CHARS \in Nat
    BY <1>1, VoiceAssumption DEF Fits
  <2> HIDE DEF f, n
  <2> QED
    BY <1>1, <1>2, <2>1
<1>4. rest \in Seq(Nat) /\ Len(rest) = n + 1 - f /\ \A j \in 1 .. n + 1 - f : rest[j] = part[f - 1 + j]
  <2>1. n + 1 \in f + 1 .. n + 1 /\ n + 1 - 1 = n
    <3> HIDE DEF f, n
    <3> QED
      BY <1>1, <1>2
  <2> DEFINE past == n + 1
  <2>2. past - 1 = n /\ past \in f + 1 .. n + 1
    BY <2>1
  <2> HIDE DEF past, f
  <2>3. LET piece == SubSeq(part, f, past - 1) IN
        piece \in Seq(Nat) /\ Len(piece) = past - f /\ \A j \in 1 .. past - f : piece[j] = part[f - 1 + j]
    BY <1>2, <2>2, PieceOf
  <2>4. rest = SubSeq(part, f, past - 1)
    BY <2>2 DEF f
  <2> QED
    BY <2>3, <2>4 DEF past
<1> HIDE DEF rest
<1>5. Takes(acc, part) \in Accs
  <2>1. Append(last.chunks, last.current) \in Seq(Seq(Nat)) /\ Spaced(last.current, rest) \in Seq(Nat)
    BY <1>2, <1>4, AppendProperties, SpacedIs
  <2> DEFINE tight == last.current # <<>> /\ Len(last.current) + 1 + Len(rest) > CHUNK_CHARS
  <2>2. Takes(acc, part) = IF tight THEN [chunks |-> Append(last.chunks, last.current), current |-> rest]
                           ELSE [chunks |-> last.chunks, current |-> Spaced(last.current, rest)]
    BY DEF Takes, rest
  <2> HIDE DEF tight, last
  <2> QED
    BY <1>2, <1>4, <2>1, <2>2 DEF Accs
<1> QED
  BY <1>1, <1>2, <1>3, <1>4, <1>5 DEF rest

\* What is in hand leads to the place that is still to be said.
LEMMA HandLeads ==
  ASSUME NEW body, Len(body) \in Nat, NEW chunks, NEW inHand, NEW place,
         Hand(body, chunks, inHand, place), inHand # <<>>
  PROVE  \E from : /\ Laid(body, chunks, from) /\ Stretch(body, inHand, from)
                   /\ from \in Nat \ {0} /\ Len(inHand) \in Nat \ {0}
                   /\ from + Len(inHand) + 1 = place /\ body[place - 1] = Space
                   /\ Leads(body, from + Len(inHand), place)
<1>1. PICK from : /\ Laid(body, chunks, from) /\ Stretch(body, inHand, from)
                  /\ from + Len(inHand) + 1 = place /\ body[place - 1] = Space
  BY DEF Hand
<1>2. from \in Nat \ {0} /\ Len(inHand) \in Nat \ {0}
  BY <1>1, VoiceAssumption DEF Stretch
<1>3. place \in 1 .. Len(body) /\ place - 1 = from + Len(inHand) /\ from + Len(inHand) \in 1 .. Len(body)
  BY <1>1, <1>2 DEF Hand
<1>4. Leads(body, from + Len(inHand), place)
  BY <1>1, <1>3 DEF Leads
<1> QED
  BY <1>1, <1>2, <1>4

\* A sentence taken where it stands, with all before it said: the text is
\* said up to its end.
LEMMA TakesEnds ==
  ASSUME NEW body \in Seq(Nat), NEW part, NEW start, Stands(body, part, start),
         NEW acc \in Accs, Hand(body, acc.chunks, acc.current, start)
  PROVE  Ends(body, Takes(acc, part), start + Len(part))
<1> DEFINE n == Len(part)  last == Turns(acc, part)[n]  rest == SubSeq(part, last.from, n)
           f == last.from  place == start - 1 + f  c == last.current  r == Len(rest)
           l == Len(body)  t == Takes(acc, part)  limit == CHUNK_CHARS
<1>1. /\ part \in Seq(Nat) /\ IsSentence(part) /\ start \in Nat \ {0} /\ start + n <= l + 1
      /\ \A j \in 1 .. n : body[start - 1 + j] = part[j]
  BY DEF Stands
<1>2. /\ last.chunks \in Seq(Seq(Nat)) /\ c \in Seq(Nat) /\ f \in 1 .. n /\ n \in Nat
      /\ rest \in Seq(Nat) /\ r \in 1 .. limit /\ r = n + 1 - f
      /\ \A j \in 1 .. r : rest[j] = part[f - 1 + j]
  BY <1>1, TakesType
<1>3. Hand(body, last.chunks, c, place)
  BY TurnsHand
<1>4. t = IF c # <<>> /\ Len(c) + 1 + r > limit
          THEN [chunks |-> Append(last.chunks, c), current |-> rest]
          ELSE [chunks |-> last.chunks, current |-> Spaced(c, rest)]
  BY DEF Takes
<1>5. l \in Nat /\ Len(c) \in Nat
  BY <1>2, LenProperties
<1>L. limit \in Nat
  BY VoiceAssumption
<1>6. Len(rest) = r
  OBVIOUS
<1> HIDE DEF n, last, rest, f, c, r, l, t, limit
<1>7. place \in Nat \ {0} /\ place + r = start + n /\ place + r <= l + 1
  BY <1>1, <1>2
<1>8. \A j \in 1 .. r : rest[j] = body[place - 1 + j]
  <2> TAKE j \in 1 .. r
  <2>1. f - 1 + j \in 1 .. n /\ start - 1 + (f - 1 + j) = place - 1 + j
    BY <1>1, <1>2
  <2>2. body[start - 1 + (f - 1 + j)] = part[f - 1 + j]
    BY <1>1, <2>1
  <2> HIDE DEF place
  <2> QED
    BY <1>2, <2>1, <2>2
<1> HIDE DEF place
<1>9. Stretch(body, rest, place)
  <2>1. /\ rest \in Seq(Nat) /\ Len(rest) \in 1 .. CHUNK_CHARS
        /\ place \in Nat \ {0} /\ place + Len(rest) <= Len(body) + 1
        /\ \A j \in 1 .. Len(rest) : rest[j] = body[place - 1 + j]
    BY <1>2, <1>6, <1>7, <1>8 DEF limit, l
  <2> QED
    BY <2>1 DEF Stretch
<1>10. CASE c = <<>>
  <2>1. Laid(body, last.chunks, place)
    <3>1. \A from : ~ Stretch(body, c, from)
      BY <1>10, EmptySeq, VoiceAssumption DEF Stretch
    <3> QED
      BY <1>3, <3>1 DEF Hand
  <2>2. t.chunks = last.chunks /\ t.current = rest
    BY <1>2, <1>4, <1>10, SpacedIs
  <2> QED
    BY <1>6, <1>7, <1>9, <2>1, <2>2 DEF Ends, n, t
<1>11. ASSUME c # <<>>
       PROVE  Ends(body, t, start + n)
  <2>1. PICK from : /\ Laid(body, last.chunks, from) /\ Stretch(body, c, from)
                    /\ from \in Nat \ {0} /\ Len(c) \in Nat \ {0}
                    /\ from + Len(c) + 1 = place /\ body[place - 1] = Space
                    /\ Leads(body, from + Len(c), place)
    BY <1>3, <1>5, <1>11, HandLeads DEF l
  <2>2. CASE Len(c) + 1 + r > limit
    <3>1. t.chunks = Append(last.chunks, c) /\ t.current = rest
      BY <1>4, <1>11, <2>2
    <3>2. Laid(body, t.chunks, place)
      BY <2>1, <3>1, LaidMore
    <3> QED
      BY <1>6, <1>7, <1>9, <3>1, <3>2 DEF Ends
  <2>3. CASE ~ (Len(c) + 1 + r > limit)
    <3> DEFINE all == Spaced(c, rest)
    <3>1. t.chunks = last.chunks /\ t.current = all
      BY <1>4, <2>3
    <3>2. /\ all \in Seq(Nat) /\ Len(all) = Len(c) + 1 + r
          /\ \A i \in 1 .. Len(c) : all[i] = c[i]
          /\ all[Len(c) + 1] = Space
          /\ \A j \in 1 .. r : all[Len(c) + 1 + j] = rest[j]
      <4>1. /\ all \in Seq(Nat) /\ Len(all) = Len(c) + 1 + Len(rest)
            /\ \A i \in 1 .. Len(c) : all[i] = c[i]
            /\ all[Len(c) + 1] = Space
            /\ \A j \in 1 .. Len(rest) : all[Len(c) + 1 + j] = rest[j]
        BY <1>2, <1>11, SpacedIs
      <4> HIDE DEF all
      <4> QED
        BY <1>6, <4>1
    <3> HIDE DEF all
    <3> DEFINE m == Len(c)
    <3>3. m \in Nat \ {0} /\ from \in Nat \ {0} /\ from + m + 1 = place /\ r \in Nat
      BY <1>2, <1>L, <2>1
    <3>4. \A i \in 1 .. m : c[i] = body[from - 1 + i]
      BY <2>1 DEF Stretch
    <3> HIDE DEF m
    <3>5. m + 1 + r \in 1 .. limit /\ from + (m + 1 + r) = start + n /\ from + (m + 1 + r) <= l + 1
      <4>1. ~ (m + 1 + r > limit)
        BY <2>3 DEF m
      <4>2. m + 1 + r \in 1 .. limit
        BY <1>L, <3>3, <4>1
      <4>3. from + (m + 1 + r) = place + r
        BY <3>3
      <4> QED
        BY <1>7, <4>2, <4>3
    <3>6. ASSUME NEW i \in 1 .. m + 1 + r
          PROVE  all[i] = body[from - 1 + i]
      <4>1. CASE i \in 1 .. m
        BY <3>2, <3>4, <4>1 DEF m
      <4>2. CASE i = m + 1
        <5>1. from - 1 + i = place - 1
          BY <3>3, <4>2
        <5> QED
          BY <2>1, <3>2, <4>2, <5>1 DEF m
      <4>3. CASE i > m + 1
        <5> DEFINE j == i - (m + 1)
        <5>1. j \in 1 .. r /\ m + 1 + j = i /\ place - 1 + j = from - 1 + i
          BY <3>3, <4>3
        <5> HIDE DEF j
        <5>2. all[m + 1 + j] = rest[j]
          BY <3>2, <5>1 DEF m
        <5> QED
          BY <1>8, <5>1, <5>2
      <4> QED
        BY <3>3, <4>1, <4>2, <4>3
    <3>7. Stretch(body, all, from)
      <4>1. Len(all) = m + 1 + r
        BY <3>2 DEF m
      <4>2. /\ all \in Seq(Nat) /\ Len(all) \in 1 .. CHUNK_CHARS
            /\ from \in Nat \ {0} /\ from + Len(all) <= Len(body) + 1
            /\ \A j \in 1 .. Len(all) : all[j] = body[from - 1 + j]
        BY <3>2, <3>3, <3>5, <3>6, <4>1 DEF limit, l
      <4> QED
        BY <4>2 DEF Stretch
    <3>8. from + Len(all) = start + n
      BY <3>2, <3>5 DEF m
    <3> QED
      BY <2>1, <3>1, <3>7, <3>8 DEF Ends
  <2> QED
    BY <2>2, <2>3
<1> QED
  BY <1>10, <1>11 DEF n, t

LEMMA TakenIs ==
  ASSUME NEW text \in Texts
  PROVE  LET taken == Taken(text)  n == Len(text) IN
         /\ n \in Nat /\ taken \in [0 .. n -> Accs]
         /\ taken[0] = [chunks |-> <<>>, current |-> <<>>]
         /\ \A k \in 1 .. n : taken[k] = Takes(taken[k - 1], text[k])
<1> DEFINE n == Len(text)  S == Accs  u == Taken(text)
           base == [chunks |-> <<>>, current |-> <<>>]
           Is(f) == f = [k \in 0 .. n |-> IF k = 0 THEN base ELSE Takes(f[k - 1], text[k])]
           step == [p \in (1 .. n) \X S |-> Takes(p[2], text[p[1]])]
<1>1. n \in Nat /\ \A k \in 1 .. n : text[k] \in Seq(Nat) /\ IsSentence(text[k])
  <2>1. n \in Nat
    BY LenProperties DEF Texts
  <2> QED
    BY <2>1, SentenceEnds
<1>2. base \in S
  BY EmptySeq DEF Accs
<1>3. \A k \in 1 .. n, s \in S : Takes(s, text[k]) \in S
  BY <1>1, TakesType
<1>4. u = CHOOSE g : Is(g)
  BY DEF Taken
<1> HIDE DEF n, S, base, u
<1>5. step \in [(1 .. n) \X S -> S]
  BY <1>3
<1>6. \A k \in 1 .. n, s \in S : step[<<k, s>>] = Takes(s, text[k])
  OBVIOUS
<1> HIDE DEF step
<1>7. PICK f : Iteration(f, n, S, base, step)
  BY <1>1, <1>2, <1>5, Iterates
<1>8. \A k \in 1 .. n : k - 1 \in 0 .. n /\ k \in 0 .. n /\ k # 0
  BY <1>1
<1>9. \A k \in 1 .. n : f[k] = Takes(f[k - 1], text[k])
  BY <1>6, <1>7, <1>8 DEF Iteration
<1>10. Is(f)
  BY <1>1, <1>7, <1>9 DEF Iteration
<1>11. Is(u)
  <2> HIDE DEF Is
  <2> QED
    BY <1>4, <1>10
<1>12. /\ DOMAIN u = 0 .. n /\ u[0] = base /\ u = [k \in 0 .. n |-> u[k]]
       /\ \A k \in 1 .. n : u[k] = Takes(u[k - 1], text[k])
  <2>1. DOMAIN u = 0 .. n /\ u = [k \in 0 .. n |-> u[k]]
    BY <1>11
  <2>2. \A k \in 0 .. n : u[k] = IF k = 0 THEN base ELSE Takes(u[k - 1], text[k])
    BY <1>11
  <2>3. 0 \in 0 .. n
    BY <1>1
  <2> HIDE DEF Is
  <2> QED
    BY <1>8, <2>1, <2>2, <2>3
<1> HIDE DEF Is
<1> DEFINE G == {k \in 0 .. n : u[k] \in S}
<1>13. 0 \in G
  BY <1>1, <1>2, <1>12
<1>14. ASSUME NEW k \in 0 .. n - 1, k \in G
       PROVE  k + 1 \in G
  <2>1. k + 1 \in 1 .. n /\ k + 1 - 1 = k /\ k + 1 \in 0 .. n
    BY <1>1
  <2>2. \A i \in 1 .. n : i - 1 = k => u[i] = Takes(u[k], text[i])
    BY <1>12
  <2>3. u[k + 1] = Takes(u[k], text[k + 1]) /\ u[k] \in S
    BY <1>1, <1>14, <2>1, <2>2
  <2> QED
    BY <1>3, <2>1, <2>3
<1>15. \A k \in 0 .. n : k \in G
  <2> HIDE DEF G
  <2> QED
    BY <1>1, <1>13, <1>14, Rises
<1>16. u \in [0 .. n -> S]
  BY <1>12, <1>15
<1> QED
  BY <1>1, <1>12, <1>16 DEF u, n, S, base

\* After each sentence the text up to its end is said, the last of it in hand.
LEMMA TakenEnds ==
  ASSUME NEW text \in Texts, NEW k \in 1 .. Len(text)
  PROVE  Ends(Body(text), Taken(text)[k], Len(UpTo(text)[k]) + 1)
<1> DEFINE n == Len(text)  b == Body(text)  t == Taken(text)  past(i) == Len(UpTo(text)[i]) + 1
           Done(i) == Ends(b, t[i], past(i))
           G == {i \in 0 .. n : i > 0 => Done(i)}
<1>1. n \in Nat /\ b \in Seq(Nat) /\ Len(b) \in Nat
  <2>1. k \in 0 .. Len(text)
    OBVIOUS
  <2> QED
    BY <2>1, UpToGrows, LenProperties
<1>2. /\ t \in [0 .. n -> Accs] /\ t[0] = [chunks |-> <<>>, current |-> <<>>]
      /\ \A i \in 1 .. n : t[i] = Takes(t[i - 1], text[i])
  BY TakenIs
<1>3. ASSUME NEW i \in 1 .. n
      PROVE  /\ Stands(b, text[i], Start(text, i)) /\ past(i) = Start(text, i) + Len(text[i])
             /\ i > 1 => b[Start(text, i) - 1] = Space
  <2>1. text[i] \in Seq(Nat) /\ IsSentence(text[i]) /\ Len(text[i]) \in Nat \ {0}
    BY SentenceEnds
  <2>2. /\ Start(text, i) \in Nat \ {0} /\ past(i) = Start(text, i) + Len(text[i])
        /\ past(i) <= Len(b) + 1
        /\ \A j \in 1 .. Len(text[i]) : b[Start(text, i) - 1 + j] = text[i][j]
        /\ i > 1 => b[Start(text, i) - 1] = Space
    BY SentenceStands
  <2> HIDE DEF past, b
  <2> QED
    BY <2>1, <2>2 DEF Stands
<1>4. ASSUME NEW i \in 1 .. n, Hand(b, t[i - 1].chunks, t[i - 1].current, Start(text, i))
      PROVE  Done(i)
  <2>1. t[i] = Takes(t[i - 1], text[i]) /\ t[i - 1] \in Accs
    <3>1. i - 1 \in 0 .. n
      BY <1>1
    <3> QED
      BY <1>2, <3>1
  <2> HIDE DEF b, t, past
  <2>2. Ends(b, Takes(t[i - 1], text[i]), Start(text, i) + Len(text[i]))
    BY <1>1, <1>3, <1>4, <2>1, TakesEnds
  <2> QED
    BY <1>3, <2>1, <2>2
<1>5. Start(text, 1) = 1
  BY DEF Start
<1>6. \A i \in 1 .. n : i > 1 => Start(text, i) = past(i - 1) + 1
  <2> TAKE i \in 1 .. n
  <2> HAVE i > 1
  <2>1. Len(UpTo(text)[i - 1]) \in Nat
    <3>1. UpTo(text)[i - 1] \in Seq(Nat)
      BY SentenceEnds
    <3> QED
      BY <3>1, LenProperties
  <2> DEFINE u == Len(UpTo(text)[i - 1])
  <2>2. Start(text, i) = u + 2 /\ past(i - 1) = u + 1 /\ u \in Nat
    BY <2>1 DEF Start
  <2> HIDE DEF past, u
  <2> QED
    BY <2>2
<1> HIDE DEF b, t, past, n, Done
<1>7. 0 \in G
  BY <1>1
<1>8. ASSUME NEW i \in 0 .. n - 1, i \in G
      PROVE  i + 1 \in G
  <2> DEFINE m == i + 1
  <2>1. m \in 1 .. n /\ m - 1 = i /\ m \in 0 .. n
    BY <1>1
  <2> HIDE DEF m
  <2>2. Hand(b, t[i].chunks, t[i].current, Start(text, m))
    <3>1. CASE i = 0
      <4>1. t[i].chunks = <<>> /\ t[i].current = <<>> /\ m = 1
        BY <1>2, <3>1 DEF m
      <4>2. Start(text, m) \in 1 .. Len(b)
        <5>1. /\ Stands(b, text[m], Start(text, m)) /\ Start(text, m) \in Nat \ {0}
              /\ Start(text, m) + Len(text[m]) <= Len(b) + 1 /\ Len(text[m]) \in Nat \ {0}
          BY <1>3, <2>1 DEF Stands
        <5> QED
          BY <1>1, <5>1
      <4>3. Laid(b, t[i].chunks, Start(text, m))
        BY <1>5, <4>1, NothingLaid
      <4> QED
        BY <4>1, <4>2, <4>3 DEF Hand
    <3>2. CASE i > 0
      <4>1. Done(i)
        BY <1>8, <3>2
      <4>2. PICK from : /\ Laid(b, t[i].chunks, from) /\ Stretch(b, t[i].current, from)
                        /\ from + Len(t[i].current) = past(i)
        BY <4>1 DEF Done, Ends
      <4>3. m > 1 /\ Start(text, m) = past(i) + 1 /\ b[Start(text, m) - 1] = Space
        BY <1>1, <1>3, <1>6, <2>1, <3>2
      <4>4. Start(text, m) \in 1 .. Len(b)
        <5>1. /\ Stands(b, text[m], Start(text, m)) /\ Start(text, m) \in Nat \ {0}
              /\ Start(text, m) + Len(text[m]) <= Len(b) + 1 /\ Len(text[m]) \in Nat \ {0}
          BY <1>3, <2>1 DEF Stands
        <5> QED
          BY <1>1, <5>1
      <4>5. from + Len(t[i].current) + 1 = Start(text, m)
        BY <4>2, <4>3
      <4> QED
        BY <4>2, <4>3, <4>4, <4>5 DEF Hand
    <3> QED
      BY <1>1, <3>1, <3>2
  <2>3. Done(m)
    BY <1>4, <2>1, <2>2
  <2> QED
    BY <2>1, <2>3 DEF m
<1>9. \A i \in 0 .. n : i \in G
  <2> HIDE DEF G
  <2> QED
    BY <1>1, <1>7, <1>8, Rises
<1>10. k \in 0 .. n /\ k > 0
  BY <1>1 DEF n
<1> QED
  BY <1>9, <1>10 DEF Done, b, t, past

-----------------------------------------------------------------------------
(* What the requests say.                                                  *)

\* The requests follow one another along the text, to its end.
Tiled(body, said, at) ==
    /\ said \in Seq(Seq(Nat)) /\ Len(said) \in Nat \ {0}
    /\ at \in [1 .. Len(said) -> Nat \ {0}] /\ at[1] = 1
    /\ \A i \in 1 .. Len(said) :
          /\ Len(said[i]) \in Nat /\ at[i] + Len(said[i]) <= Len(body) + 1
          /\ \A j \in 1 .. Len(said[i]) : said[i][j] = body[at[i] - 1 + j]
    /\ \A i \in 1 .. Len(said) - 1 : Leads(body, at[i] + Len(said[i]), at[i + 1])
    /\ at[Len(said)] + Len(said[Len(said)]) = Len(body) + 1

\* Beginning where the one before ended is beginning where each begins.
LEMMA BeginsIs ==
  ASSUME NEW body \in Seq(Nat), NEW said, NEW at, Tiled(body, said, at)
  PROVE  Begins(body, said) = at
<1> DEFINE n == Len(said)  u == Begins(body, said)
           Past(i) == at[i] + Len(said[i])
           Next(e) == IF e \in DOMAIN body /\ body[e] = Space THEN e + 1 ELSE e
           After(i, b) == LET end == b + Len(said[i]) IN
                          IF end \in DOMAIN body /\ body[end] = Space THEN end + 1 ELSE end
           Is(f) == f = [i \in 1 .. n |-> IF i = 1 THEN 1 ELSE After(i - 1, f[i - 1])]
<1>1. /\ n \in Nat \ {0} /\ at \in [1 .. n -> Nat \ {0}] /\ at[1] = 1
      /\ \A i \in 1 .. n - 1 : Leads(body, Past(i), at[i + 1])
  BY DEF Tiled
<1>2. Len(body) \in Nat /\ DOMAIN body = 1 .. Len(body)
  BY LenProperties
<1>3. \A i \in 1 .. n - 1 : at[i + 1] = After(i, at[i])
  <2> TAKE i \in 1 .. n - 1
  <2> DEFINE e == Past(i)
  <2>1. e \in 1 .. Len(body) /\ IF body[e] = Space THEN at[i + 1] = e + 1 ELSE at[i + 1] = e
    BY <1>1 DEF Leads
  <2>2. After(i, at[i]) = Next(e)
    OBVIOUS
  <2> HIDE DEF e, After
  <2> QED
    BY <1>2, <2>1, <2>2
<1>4. u = CHOOSE g : Is(g)
  BY DEF Begins
<1> HIDE DEF n, u, After
<1>5. Is(at)
  <2>1. \A i \in 1 .. n : at[i] = IF i = 1 THEN 1 ELSE After(i - 1, at[i - 1])
    <3> TAKE i \in 1 .. n
    <3>1. CASE i = 1
      BY <1>1, <3>1
    <3>2. CASE i # 1
      <4>1. i - 1 \in 1 .. n - 1 /\ i - 1 + 1 = i
        BY <1>1, <3>2
      <4>2. at[i - 1 + 1] = After(i - 1, at[i - 1])
        BY <1>3, <4>1
      <4> QED
        BY <3>2, <4>1, <4>2
    <3> QED
      BY <3>1, <3>2
  <2> QED
    BY <1>1, <2>1
<1>6. Is(u)
  <2> HIDE DEF Is
  <2> QED
    BY <1>4, <1>5
<1>7. /\ DOMAIN u = 1 .. n /\ u = [i \in 1 .. n |-> u[i]]
      /\ \A i \in 1 .. n : u[i] = IF i = 1 THEN 1 ELSE After(i - 1, u[i - 1])
  BY <1>6
<1> HIDE DEF Is
<1> DEFINE G == {i \in 0 .. n : i > 0 => u[i] = at[i]}
<1>8. 0 \in G
  BY <1>1
<1>9. ASSUME NEW i \in 0 .. n - 1, i \in G
      PROVE  i + 1 \in G
  <2> DEFINE m == i + 1
  <2>1. m \in 1 .. n /\ m - 1 = i /\ m \in 0 .. n
    BY <1>1
  <2>2. CASE i = 0
    <3>1. m = 1
      BY <2>2
    <3> QED
      BY <1>1, <1>7, <2>1, <3>1
  <2>3. CASE i > 0
    <3>1. m # 1 /\ i \in 1 .. n - 1
      BY <1>1, <2>3
    <3>2. u[i] = at[i] /\ at[m] = After(i, at[i])
      BY <1>3, <1>9, <2>3, <3>1
    <3> HIDE DEF m
    <3>3. u[m] = After(i, u[i])
      BY <1>7, <2>1, <3>1
    <3> QED
      BY <2>1, <3>2, <3>3 DEF m
  <2> QED
    BY <1>1, <2>2, <2>3
<1>10. \A i \in 0 .. n : i \in G
  <2> HIDE DEF G
  <2> QED
    BY <1>1, <1>8, <1>9, Rises
<1>11. \A i \in 1 .. n : u[i] = at[i]
  <2> TAKE i \in 1 .. n
  <2>1. i \in 0 .. n /\ i > 0
    BY <1>1
  <2> QED
    BY <1>10, <2>1
<1>12. u = at
  BY <1>1, <1>7, <1>11
<1> QED
  BY <1>12 DEF u

LEMMA TiledSays ==
  ASSUME NEW body \in Seq(Nat), NEW said, NEW at, Tiled(body, said, at)
  PROVE  Says(body, said)
<1> DEFINE n == Len(said)  l == Len(body)  past(i) == at[i] + Len(said[i])
<1>1. Begins(body, said) = at
  BY BeginsIs
<1>2. /\ n \in Nat \ {0} /\ at \in [1 .. n -> Nat \ {0}] /\ said \in Seq(Seq(Nat))
      /\ past(n) = l + 1
      /\ \A i \in 1 .. n : /\ Len(said[i]) \in Nat /\ past(i) <= l + 1
                           /\ \A j \in 1 .. Len(said[i]) : said[i][j] = body[at[i] - 1 + j]
      /\ \A i \in 1 .. n - 1 : Leads(body, past(i), at[i + 1])
  BY DEF Tiled
<1>3. l \in Nat /\ \A i \in 1 .. l : body[i] \in Nat
  BY LenProperties, ElementOfSeq
<1> HIDE DEF n, l
<1>4. ASSUME NEW i \in 1 .. n
      PROVE  said[i] = SubSeq(body, at[i], past(i) - 1)
  <2> DEFINE piece == said[i]  m == at[i]  r == Len(piece)  last == (m + r) - 1
             sub == SubSeq(body, m, last)
  <2>1. /\ piece \in Seq(Nat) /\ m \in Nat \ {0} /\ r \in Nat /\ m + r <= l + 1
        /\ \A j \in 1 .. r : piece[j] = body[m - 1 + j]
    <3>1. piece \in Seq(Nat)
      BY <1>2, ElementOfSeq DEF n
    <3> QED
      BY <1>2, <3>1
  <2> HIDE DEF piece, m, r
  <2>2. /\ last \in Int /\ m \in Int /\ last - m + 1 = r
        /\ \A k \in m .. last : body[k] \in Nat
    BY <1>3, <2>1
  <2>3. (m <= last => last - m + 1 = r) /\ (~ (m <= last) => r = 0)
    BY <2>1, <2>2
  <2> HIDE DEF last
  <2>4. /\ sub \in Seq(Nat) /\ Len(sub) = IF m <= last THEN last - m + 1 ELSE 0
        /\ \A j \in 1 .. last - m + 1 : sub[j] = body[m + j - 1]
    BY <2>2, SubSeqProperties
  <2> HIDE DEF sub
  <2>5. Len(sub) = Len(piece)
    BY <2>3, <2>4 DEF r
  <2>6. \A j \in 1 .. r : sub[j] = piece[j]
    <3> TAKE j \in 1 .. r
    <3>1. m - 1 + j = m + j - 1
      BY <2>1
    <3>2. sub[j] = body[m + j - 1] /\ piece[j] = body[m - 1 + j]
      BY <2>1, <2>2, <2>4
    <3> QED
      BY <3>1, <3>2
  <2>7. sub = piece
    BY <2>1, <2>4, <2>5, <2>6, SeqEqual DEF r
  <2>8. past(i) - 1 = last
    BY DEF last, m, r, piece
  <2> QED
    BY <2>7, <2>8 DEF sub, piece, m
<1>5. ASSUME NEW i \in 2 .. n
      PROVE  body[at[i] - 1] = Space \/ InLongWord(body, at[i])
  <2> DEFINE k == i - 1  e == past(k)
  <2>1. k \in 1 .. n - 1 /\ k + 1 = i
    BY <1>2
  <2>2. Leads(body, past(k), at[k + 1])
    BY <1>2, <2>1
  <2>3. e \in 1 .. l /\ IF body[e] = Space THEN at[i] = e + 1 ELSE at[i] = e /\ InLongWord(body, e)
    BY <2>1, <2>2 DEF Leads, l
  <2> HIDE DEF e
  <2> QED
    BY <1>3, <2>3
<1>6. n > 0
  BY <1>2
<1> QED
  BY <1>1, <1>2, <1>4, <1>5, <1>6 DEF Says, n, l

\* One request with the whole text.
LEMMA SaysAtOnce ==
  ASSUME NEW body \in Seq(Nat)
  PROVE  Says(body, <<body>>)
<1> DEFINE said == <<body>>  at == [i \in 1 .. 1 |-> 1]
<1>1. /\ said \in Seq(Seq(Nat)) /\ Len(said) = 1 /\ said[1] = body
  OBVIOUS
<1>2. Len(body) \in Nat
  BY LenProperties
<1> HIDE DEF said
<1>3. Tiled(body, said, at)
  <2>1. 1 .. Len(said) - 1 = {}
    BY <1>1
  <2>2. at \in [1 .. Len(said) -> Nat \ {0}] /\ at[1] = 1 /\ \A i \in 1 .. Len(said) : i = 1
    BY <1>1
  <2>3. \A j \in 1 .. Len(body) : 1 - 1 + j = j
    BY <1>2
  <2>4. 1 + Len(body) = Len(body) + 1
    BY <1>2
  <2> HIDE DEF at
  <2> QED
    BY <1>1, <1>2, <2>1, <2>2, <2>3, <2>4 DEF Tiled
<1> HIDE DEF at
<1> QED
  BY <1>3, TiledSays DEF said

\* What chunkText makes of a text is the text, in requests none of them empty
\* and none over the limit (speech.ts:131-165).
LEMMA ChunksSay ==
  ASSUME NEW text \in Texts, Len(Body(text)) \in Nat \ {0}
  PROVE  /\ Body(text) \in Seq(Nat)
         /\ chunkText(text) \in Seq(Seq(Nat)) /\ Len(chunkText(text)) \in Nat \ {0}
         /\ \A i \in 1 .. Len(chunkText(text)) : Len(chunkText(text)[i]) \in 1 .. CHUNK_CHARS
         /\ Says(Body(text), chunkText(text))
<1> DEFINE b == Body(text)  said == chunkText(text)  n == Len(text)
           all == Taken(text)[n]  l == Len(b)
<1>1. b \in Seq(Nat) /\ n \in Nat /\ l \in Nat \ {0}
  <2>1. n \in Nat
    BY LenProperties DEF Texts
  <2>2. 0 \in 0 .. n
    BY <2>1
  <2> QED
    BY <2>1, <2>2, UpToGrows
<1>2. CASE l <= CHUNK_CHARS
  <2>1. said = <<b>> /\ Len(said) = 1 /\ said[1] = b /\ said \in Seq(Seq(Nat))
    BY <1>1, <1>2 DEF chunkText
  <2>2. Says(b, said)
    BY <1>1, <2>1, SaysAtOnce
  <2>3. l \in 1 .. CHUNK_CHARS
    BY <1>1, <1>2, VoiceAssumption
  <2> HIDE DEF said, b
  <2>4. \A i \in 1 .. Len(said) : Len(said[i]) \in 1 .. CHUNK_CHARS
    BY <2>1, <2>3
  <2>5. Len(said) \in Nat \ {0}
    BY <2>1
  <2> QED
    BY <1>1, <2>1, <2>2, <2>4, <2>5 DEF said, b
<1>3. CASE ~ (l <= CHUNK_CHARS)
  <2>1. n \in 1 .. n
    <3>1. n # 0
      <4> SUFFICES ASSUME n = 0 PROVE FALSE
        OBVIOUS
      <4>1. b = <<>>
        <5>1. text \in Seq(Seq(Nat))
          BY DEF Texts
        <5>2. UpTo(text)[0] = <<>>
          BY <5>1, UpToIs
        <5> QED
          BY <5>2 DEF Body
      <4> QED
        BY <1>1, <4>1, EmptySeq
    <3> QED
      BY <1>1, <3>1
  <2>2. b = UpTo(text)[n]
    BY DEF Body
  <2>3. Ends(b, all, l + 1)
    BY <2>1, <2>2, TakenEnds
  <2>4. all \in Accs
    <3>1. n \in 0 .. n
      BY <1>1
    <3> QED
      BY <3>1, TakenIs
  <2>5. said = Pushed(all.chunks, all.current)
    BY <1>3 DEF chunkText
  <2> HIDE DEF b, said, all, n, l
  <2>6. PICK from : /\ Laid(b, all.chunks, from) /\ Stretch(b, all.current, from)
                    /\ from + Len(all.current) = l + 1
    BY <2>3 DEF Ends
  <2>7. all.current # <<>> /\ all.chunks \in Seq(Seq(Nat)) /\ all.current \in Seq(Nat)
    BY <2>4, <2>6, EmptySeq, VoiceAssumption DEF Stretch, Accs
  <2> DEFINE m == Len(all.chunks)
  <2>8. /\ m \in Nat /\ said \in Seq(Seq(Nat)) /\ Len(said) = m + 1
        /\ \A i \in 1 .. m : said[i] = all.chunks[i]
        /\ said[m + 1] = all.current
    BY <2>5, <2>7, AppendProperties, LenProperties DEF Pushed
  <2>9. PICK at : Places(b, all.chunks, at) /\ at[m + 1] = from
    BY <2>6 DEF Laid
  <2>10. /\ at \in [1 .. m + 1 -> Nat] /\ at[1] = 1
         /\ \A i \in 1 .. m : /\ Stretch(b, all.chunks[i], at[i])
                              /\ Leads(b, at[i] + Len(all.chunks[i]), at[i + 1])
    BY <2>9 DEF Places
  <2> HIDE DEF m
  <2>11. ASSUME NEW i \in 1 .. m + 1
         PROVE  Stretch(b, said[i], at[i])
    <3>1. CASE i = m + 1
      BY <2>6, <2>8, <2>9, <3>1
    <3>2. CASE i # m + 1
      <4>1. i \in 1 .. m
        BY <2>8, <3>2
      <4> QED
        BY <2>8, <2>10, <4>1
    <3> QED
      BY <3>1, <3>2
  <2>12. \A i \in 1 .. m + 1 :
            /\ Len(said[i]) \in 1 .. CHUNK_CHARS /\ at[i] \in Nat \ {0}
            /\ at[i] + Len(said[i]) <= Len(b) + 1
            /\ \A j \in 1 .. Len(said[i]) : said[i][j] = b[at[i] - 1 + j]
    BY <2>11 DEF Stretch
  <2>13. Tiled(b, said, at)
    <3>1. Len(said) - 1 = m
      BY <2>8
    <3>2. at \in [1 .. Len(said) -> Nat \ {0}]
      BY <2>8, <2>10, <2>12
    <3>3. \A i \in 1 .. Len(said) - 1 : Leads(b, at[i] + Len(said[i]), at[i + 1])
      BY <2>8, <2>10, <3>1
    <3>4. \A i \in 1 .. Len(said) : Len(said[i]) \in Nat
      BY <2>8, <2>12, VoiceAssumption
    <3>5. at[Len(said)] + Len(said[Len(said)]) = Len(b) + 1
      BY <2>6, <2>8, <2>9 DEF l
    <3>6. Len(said) \in Nat \ {0}
      BY <2>8
    <3> QED
      BY <2>8, <2>10, <2>12, <3>2, <3>3, <3>4, <3>5, <3>6 DEF Tiled
  <2>14. Says(b, said)
    BY <1>1, <2>13, TiledSays
  <2>15. Len(said) \in Nat \ {0} /\ \A i \in 1 .. Len(said) : Len(said[i]) \in 1 .. CHUNK_CHARS
    BY <2>8, <2>12
  <2> QED
    BY <1>1, <2>8, <2>14, <2>15 DEF b, said
<1> QED
  BY <1>2, <1>3

-----------------------------------------------------------------------------
(* The speech machine.                                                     *)

Requests == [text : Seq(Nat), previous : Seq(Nat), next : Seq(Nat)]

SpeechType ==
    speech \in [pc : {"voices", "speaking", "encoding", "measuring", "note"}, text : Speeches,
                eleven : BOOLEAN, asked : VoicesAsked, chunks : Seq(Seq(Nat)),
                withContext : BOOLEAN, heard : Seq(Requests), attempt : Nat]

\* What was heard are the first requests, in order, and all of them once the
\* requests are done.
VoiceInv ==
    speech # Quiet =>
        /\ SpeechType
        /\ Len(Body(speech.text)) \in Nat \ {0}
        /\ speech.chunks = IF speech.eleven THEN chunkText(speech.text) ELSE <<Body(speech.text)>>
        /\ IF Requesting THEN Len(speech.heard) < Len(speech.chunks)
                         ELSE Len(speech.heard) = Len(speech.chunks)
        /\ \A i \in 1 .. Len(speech.heard) :
              /\ speech.heard[i].text = speech.chunks[i]
              /\ i > 1 => speech.heard[i].previous \in {<<>>, speech.chunks[i - 1]}

LEMMA SpeechesAreTexts == Speeches \subseteq Texts
BY VoiceAssumption DEF Texts

LEMMA TextSaid ==
  ASSUME NEW text \in Speeches, Len(Body(text)) \in Nat \ {0}, NEW eleven \in BOOLEAN
  PROVE  LET chunks == IF eleven THEN chunkText(text) ELSE <<Body(text)>> IN
         /\ Body(text) \in Seq(Nat) /\ chunks \in Seq(Seq(Nat)) /\ Len(chunks) \in Nat \ {0}
         /\ Says(Body(text), chunks)
         /\ eleven => \A i \in 1 .. Len(chunks) : Len(chunks[i]) \in 1 .. CHUNK_CHARS
         /\ ~ eleven => Len(chunks) = 1 /\ chunks[1] = Body(text)
<1>1. text \in Texts
  BY SpeechesAreTexts
<1>2. Body(text) \in Seq(Nat)
  BY <1>1, ChunksSay
<1>3. CASE eleven
  BY <1>1, <1>3, ChunksSay
<1>4. CASE ~ eleven
  <2> DEFINE b == Body(text)  said == <<b>>
  <2>1. b \in Seq(Nat)
    BY <1>2
  <2> HIDE DEF b
  <2>2. said \in Seq(Seq(Nat)) /\ Len(said) = 1 /\ said[1] = b
    BY <2>1
  <2>3. Says(b, said)
    BY <2>1, SaysAtOnce
  <2> HIDE DEF said
  <2> QED
    BY <1>4, <2>1, <2>2, <2>3 DEF b, said
<1> QED
  BY <1>3, <1>4

LEMMA VoiceSays == VoiceInv => VoiceSaysItAll
<1> SUFFICES ASSUME VoiceInv, speech # Quiet PROVE VoiceSaysItAll
  BY DEF VoiceSaysItAll
<1> DEFINE chunks == speech.chunks  heard == speech.heard  body == Body(speech.text)
           spoken == [i \in 1 .. Len(heard) |-> heard[i].text]  none == <<>>
<1>1. /\ SpeechType
      /\ Len(body) \in Nat \ {0}
      /\ chunks = IF speech.eleven THEN chunkText(speech.text) ELSE <<body>>
      /\ IF Requesting THEN Len(heard) < Len(chunks) ELSE Len(heard) = Len(chunks)
      /\ \A i \in 1 .. Len(heard) : /\ heard[i].text = chunks[i]
                                    /\ i > 1 => heard[i].previous \in {none, chunks[i - 1]}
  BY DEF VoiceInv
<1>2. /\ speech.text \in Speeches /\ speech.eleven \in BOOLEAN /\ chunks \in Seq(Seq(Nat))
      /\ heard \in Seq(Requests)
  BY <1>1 DEF SpeechType
<1>3. /\ Says(body, chunks)
      /\ speech.eleven => \A i \in 1 .. Len(chunks) : Len(chunks[i]) \in 1 .. CHUNK_CHARS
  BY <1>1, <1>2, TextSaid
<1>4. Len(heard) \in Nat /\ Len(chunks) \in Nat
  BY <1>2, LenProperties
<1> HIDE DEF chunks, heard, body, none
<1>5. speech.pc \in {"encoding", "measuring", "note"} => Says(body, spoken)
  <2> SUFFICES ASSUME speech.pc \in {"encoding", "measuring", "note"} PROVE Says(body, spoken)
    OBVIOUS
  <2>1. Len(heard) = Len(chunks)
    BY <1>1 DEF Requesting
  <2>2. chunks = [i \in 1 .. Len(chunks) |-> chunks[i]]
    BY <1>2
  <2>3. \A i \in 1 .. Len(chunks) : heard[i].text = chunks[i]
    BY <1>1, <2>1
  <2>4. spoken = chunks
    BY <2>1, <2>2, <2>3
  <2> QED
    BY <1>3, <2>4
<1>6. \A i \in 2 .. Len(heard) : heard[i].previous \in {none, heard[i - 1].text}
  <2> TAKE i \in 2 .. Len(heard)
  <2>1. i \in 1 .. Len(heard) /\ i - 1 \in 1 .. Len(heard) /\ i > 1
    BY <1>4
  <2>2. heard[i].previous \in {none, chunks[i - 1]} /\ heard[i - 1].text = chunks[i - 1]
    BY <1>1, <2>1
  <2> QED
    BY <2>2
<1> QED
  BY <1>3, <1>5, <1>6 DEF VoiceSaysItAll, chunks, heard, body, none

LEMMA SpeaksKeeps == ASSUME Speaks PROVE VoiceInv'
<1>1. PICK text \in Speeches, env \in Environments, asked \in VoicesAsked, withContext \in BOOLEAN :
        LET eleven == chooseProvider(env) = "elevenlabs" IN
        /\ Len(Body(text)) \in 1 .. MAX_SPEECH_CHARS
        /\ speech' = [pc |-> IF eleven /\ ~looksLikeVoiceId(asked) THEN "voices" ELSE "speaking",
                      text |-> text, eleven |-> eleven, asked |-> asked,
                      chunks |-> IF eleven THEN chunkText(text) ELSE <<Body(text)>>,
                      withContext |-> withContext, heard |-> <<>>, attempt |-> 1]
  BY DEF Speaks
<1> DEFINE eleven == chooseProvider(env) = "elevenlabs"
           chunks == IF eleven THEN chunkText(text) ELSE <<Body(text)>>
           none == <<>>  b == Body(text)
           pc == IF eleven /\ ~looksLikeVoiceId(asked) THEN "voices" ELSE "speaking"
<1>2. Len(b) \in Nat \ {0} /\ eleven \in BOOLEAN /\ pc \in {"voices", "speaking"}
  BY <1>1, VoiceAssumption
<1> HIDE DEF eleven, pc
<1>3. chunks \in Seq(Seq(Nat)) /\ Len(chunks) \in Nat \ {0}
  BY <1>2, TextSaid
<1>4. none \in Seq(Requests) /\ Len(none) = 0
  BY EmptySeq
<1>5. speech' = [pc |-> pc, text |-> text, eleven |-> eleven, asked |-> asked,
                 chunks |-> chunks, withContext |-> withContext, heard |-> none, attempt |-> 1]
  BY <1>1 DEF eleven, pc
<1>6. chunks = IF eleven THEN chunkText(text) ELSE <<b>>
  OBVIOUS
<1> HIDE DEF chunks, none, b
<1>7. SpeechType'
  BY <1>2, <1>3, <1>4, <1>5 DEF SpeechType
<1>8. speech'.heard = none /\ speech'.chunks = chunks /\ speech'.text = text /\ speech'.eleven = eleven
      /\ speech'.pc = pc
  BY <1>5
<1> QED
  BY <1>2, <1>3, <1>4, <1>6, <1>7, <1>8 DEF VoiceInv, Requesting, b

\* A step that changes none of what was asked, cut and heard.
LEMMA KeepsWhatIsHeard ==
  ASSUME VoiceInv, speech # Quiet, SpeechType',
         speech'.text = speech.text, speech'.eleven = speech.eleven,
         speech'.chunks = speech.chunks, speech'.heard = speech.heard,
         Requesting' <=> Requesting
  PROVE  VoiceInv'
BY DEF VoiceInv

LEMMA ChunkSpokenKeeps == ASSUME VoiceInv, speech # Quiet, ChunkSpoken PROVE VoiceInv'
<1> DEFINE chunks == speech.chunks  heard == speech.heard  n == Len(heard)  i == n + 1
           said == IF speech.eleven THEN elevenLabsRequest(chunks, i, speech.withContext)
                   ELSE ttsRequest(Body(speech.text))
           longer == Append(heard, said)  none == <<>>
           done == IF Len(longer) = Len(chunks) THEN "encoding" ELSE speech.pc
<1>1. /\ SpeechType
      /\ Len(Body(speech.text)) \in Nat \ {0}
      /\ chunks = IF speech.eleven THEN chunkText(speech.text) ELSE <<Body(speech.text)>>
      /\ IF Requesting THEN n < Len(chunks) ELSE n = Len(chunks)
      /\ \A k \in 1 .. n : /\ heard[k].text = chunks[k]
                           /\ k > 1 => heard[k].previous \in {none, chunks[k - 1]}
  BY DEF VoiceInv
<1>2. /\ speech.text \in Speeches /\ speech.eleven \in BOOLEAN /\ chunks \in Seq(Seq(Nat))
      /\ heard \in Seq(Requests)
  BY <1>1 DEF SpeechType
<1>3. /\ Body(speech.text) \in Seq(Nat) /\ Len(chunks) \in Nat
      /\ ~ speech.eleven => Len(chunks) = 1 /\ chunks[1] = Body(speech.text)
  BY <1>1, <1>2, TextSaid
<1>4. speech.pc = "speaking" /\ n \in Nat /\ n < Len(chunks)
  BY <1>1, <1>2, LenProperties DEF ChunkSpoken, Requesting
<1>5. speech' = [speech EXCEPT !.heard = longer, !.attempt = 1, !.pc = done]
  BY DEF ChunkSpoken
<1>6. /\ said \in Requests /\ said.text = chunks[i]
      /\ i > 1 => said.previous \in {none, chunks[i - 1]}
  <2>1. i \in 1 .. Len(chunks) /\ chunks[i] \in Seq(Nat)
    BY <1>2, <1>3, <1>4, ElementOfSeq
  <2>2. none \in Seq(Nat)
    BY EmptySeq
  <2>3. CASE speech.eleven
    <3> DEFINE before == IF speech.withContext /\ i > 1 THEN chunks[i - 1] ELSE none
               after == IF speech.withContext /\ i < Len(chunks) THEN chunks[i + 1] ELSE none
    <3>1. said = [text |-> chunks[i], previous |-> before, next |-> after]
      BY <2>3 DEF elevenLabsRequest
    <3>2. before \in Seq(Nat)
      <4>1. i > 1 => i - 1 \in 1 .. Len(chunks)
        BY <1>3, <1>4
      <4> HIDE DEF i, none
      <4>2. i > 1 => chunks[i - 1] \in Seq(Nat)
        BY <1>2, <4>1, ElementOfSeq
      <4> QED
        BY <2>2, <4>2
    <3>3. after \in Seq(Nat)
      <4>1. i < Len(chunks) => i + 1 \in 1 .. Len(chunks)
        BY <1>3, <1>4
      <4> HIDE DEF i, none
      <4>2. i < Len(chunks) => chunks[i + 1] \in Seq(Nat)
        BY <1>2, <4>1, ElementOfSeq
      <4> QED
        BY <2>2, <4>2
    <3>4. before \in {none, chunks[i - 1]}
      OBVIOUS
    <3> HIDE DEF said, before, after, i, none
    <3> QED
      BY <2>1, <3>1, <3>2, <3>3, <3>4 DEF Requests
  <2>4. CASE ~ speech.eleven
    <3>1. said = [text |-> Body(speech.text), previous |-> none, next |-> none]
      BY <2>4 DEF ttsRequest
    <3>0. Len(chunks) = 1
      BY <1>3, <2>4
    <3>2. i = 1
      <4> HIDE DEF n, chunks
      <4> QED
        BY <1>4, <3>0
    <3> HIDE DEF said, i, none
    <3> QED
      BY <1>3, <2>2, <2>4, <3>1, <3>2 DEF Requests
  <2> QED
    BY <1>2, <2>3, <2>4
<1> HIDE DEF said, chunks, heard, none
<1>7. /\ longer \in Seq(Requests) /\ Len(longer) = n + 1
      /\ \A k \in 1 .. n : longer[k] = heard[k]
      /\ longer[n + 1] = said
  BY <1>2, <1>6, AppendProperties
<1> HIDE DEF longer
<1>8. done \in {"speaking", "encoding"}
  BY <1>4
<1>9. /\ SpeechType'
      /\ speech'.text = speech.text /\ speech'.eleven = speech.eleven /\ speech'.chunks = chunks
      /\ speech'.heard = longer /\ speech'.pc = done
  <2> HIDE DEF done
  <2> QED
    BY <1>1, <1>5, <1>7, <1>8 DEF SpeechType, chunks
<1>10. IF Requesting' THEN Len(longer) < Len(chunks) ELSE Len(longer) = Len(chunks)
  <2>1. CASE Len(longer) = Len(chunks)
    BY <1>9, <2>1 DEF Requesting
  <2>2. CASE Len(longer) # Len(chunks)
    <3>1. speech'.pc = "speaking"
      BY <1>4, <1>9, <2>2
    <3>2. Len(longer) < Len(chunks)
      BY <1>3, <1>4, <1>7, <2>2
    <3> QED
      BY <3>1, <3>2 DEF Requesting
  <2> QED
    BY <2>1, <2>2
<1>11. ASSUME NEW k \in 1 .. Len(longer)
       PROVE  /\ longer[k].text = chunks[k]
              /\ k > 1 => longer[k].previous \in {none, chunks[k - 1]}
  <2>1. CASE k = i
    BY <1>6, <1>7, <2>1
  <2>2. CASE k # i
    <3>1. k \in 1 .. n
      BY <1>4, <1>7, <2>2
    <3> QED
      BY <1>1, <1>7, <3>1
  <2> QED
    BY <2>1, <2>2
<1> QED
  BY <1>1, <1>9, <1>10, <1>11 DEF VoiceInv, none, chunks

LEMMA VoiceStep == ASSUME VoiceInv, [VoiceNext]_voiceVars PROVE VoiceInv'
<1>1. CASE UNCHANGED voiceVars
  BY <1>1 DEF voiceVars, VoiceInv, SpeechType, Requesting
<1>2. CASE Speaks
  BY <1>2, SpeaksKeeps
<1>3. CASE Failed \/ NoteTaken
  BY <1>3 DEF Failed, NoteTaken, VoiceInv
<1>4. ASSUME RequestRetried \/ VoiceFound \/ Encodes \/ Measures \/ ChunkSpoken
      PROVE  speech # Quiet /\ SpeechType
  BY <1>4 DEF RequestRetried, VoiceFound, Encodes, Measures, ChunkSpoken, Requesting, Quiet, VoiceInv
<1>5. CASE RequestRetried
  BY <1>4, <1>5, KeepsWhatIsHeard DEF RequestRetried, SpeechType, Requesting
<1>6. CASE VoiceFound
  BY <1>4, <1>6, KeepsWhatIsHeard DEF VoiceFound, SpeechType, Requesting
<1>7. CASE Encodes
  BY <1>4, <1>7, KeepsWhatIsHeard DEF Encodes, SpeechType, Requesting
<1>8. CASE Measures
  BY <1>4, <1>8, KeepsWhatIsHeard DEF Measures, SpeechType, Requesting
<1>9. CASE ChunkSpoken
  BY <1>4, <1>9, ChunkSpokenKeeps
<1> QED
  BY <1>1, <1>2, <1>3, <1>5, <1>6, <1>7, <1>8, <1>9
  DEF VoiceNext, RequestFails, VoiceNotFound, BinaryFails

\* What the speech machine keeps: its requests are those of the text, and
\* what was heard are the first of them.
THEOREM VoiceInvariant == VoiceSpec => []VoiceInv
<1>1. VoiceInit => VoiceInv
  BY DEF VoiceInit, VoiceInv
<1>2. VoiceInv /\ [VoiceNext]_voiceVars => VoiceInv'
  BY VoiceStep
<1> QED
  BY <1>1, <1>2, PTL DEF VoiceSpec

\* Of any text.
THEOREM VoiceSpeaksTheText == VoiceSpec => []VoiceSaysItAll
<1> QED
  BY VoiceInvariant, VoiceSays, PTL
=============================================================================
