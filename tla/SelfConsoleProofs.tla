-------------------------- MODULE SelfConsoleProofs --------------------------
(***************************************************************************)
(* The self-chat console's safety properties for every set of messages,    *)
(* any number of callers and any number of faults.  They rest on where a   *)
(* forwarded message can be: PlaceInv says that a poll, another poll and   *)
(* the queue never hold the same message while the file is written, and    *)
(* FileInv that the file is behind the queue only when its write failed.   *)
(***************************************************************************)
EXTENDS SelfConsole, SequenceTheorems, FiniteSetTheorems, TLAPS

Distinct(q) == \A i, j \in DOMAIN q : q[i] = q[j] => i = j

QueueOf == Seq(Messages)

PollRecord == [at : {"idle", "waiting", "answered"}, items : QueueOf, listening : BOOLEAN]

(* What each variable may be.                                              *)
ShapeInv ==
  /\ session \in Modes /\ sessionFile \in Modes
  /\ queue \in QueueOf /\ queueFile \in QueueOf
  /\ unsaved \subseteq {"session", "queue"}
  /\ polls \in [Polls -> PollRecord]
  /\ polled \in [Messages -> Nat]
  /\ heard \subseteq Messages
  /\ faults \in 0..MaxFaults

(* What is queued, pushed or taken was forwarded, and is queued once.      *)
QueueInv ==
  /\ Range(queue) \subseteq forwarded /\ Range(queueFile) \subseteq forwarded
  /\ Distinct(queue) /\ Distinct(queueFile)
  /\ forwarded \subseteq heard
  /\ pushing = {} \/ \E m \in forwarded : pushing = {m}
  /\ wire \cup landed \subseteq forwarded
  /\ confirmed \subseteq landed

FileInv == "queue" \notin unsaved => queueFile = queue

AnswerInv == \A p \in Polls : polls[p].items # << >> <=> polls[p].at = "answered"

Carries(p, m) == m \in Range(polls[p].items)

PlaceInv ==
  ~spoiled => \A m \in Messages :
    /\ m \notin forwarded => polled[m] = 0 /\ \A p \in Polls : ~Carries(p, m)
    /\ m \in Range(queue) => polled[m] = 0 /\ \A p \in Polls : ~Carries(p, m)
    /\ \A p \in Polls : Carries(p, m) =>
         polled[m] = 0 /\ \A r \in Polls : Carries(r, m) => r = p
    /\ polled[m] <= 1

ConfirmedInv == ~spoiled => confirmed \cap Range(queue) = {}

(* What the console says is called for, and none of it is bare.            *)
QuietInv ==
  /\ replies \in Nat /\ owed \in Nat /\ echoes \in [Forms -> Nat]
  /\ echoes["bare"] = 0
  /\ NeverAnswersItself

ConsoleInv ==
  /\ ShapeInv /\ QueueInv /\ FileInv /\ AnswerInv /\ PlaceInv
  /\ NothingForgotten /\ ConfirmedInv /\ QuietInv

-----------------------------------------------------------------------------
(* Queues.                                                                 *)

LEMMA RangeOfEmpty == Range(<< >>) = {} /\ Distinct(<< >>)
BY DEF Range, Distinct

LEMMA RangeTyped ==
  ASSUME NEW q \in QueueOf
  PROVE  Range(q) \subseteq Messages
BY ElementOfSeq, LenProperties DEF QueueOf, Range

(* What is appended to a queue it is not in leaves it distinct.            *)
LEMMA Appended ==
  ASSUME NEW q \in QueueOf, NEW m \in Messages, m \notin Range(q), Distinct(q)
  PROVE  /\ Append(q, m) \in QueueOf /\ Distinct(Append(q, m))
         /\ Range(Append(q, m)) = Range(q) \cup {m}
<1>1. /\ Append(q, m) \in QueueOf /\ Len(q) \in Nat
      /\ DOMAIN q = 1..Len(q) /\ DOMAIN Append(q, m) = 1..(Len(q) + 1)
      /\ \A i \in 1..Len(q) : Append(q, m)[i] = q[i]
      /\ Append(q, m)[Len(q) + 1] = m
  BY AppendProperties DEF QueueOf
<1>2. Distinct(Append(q, m))
  BY <1>1 DEF Distinct, Range
<1>3. Range(Append(q, m)) = Range(q) \cup {m}
  BY <1>1 DEF Range
<1>4. QED
  BY <1>1, <1>2, <1>3

(* Taking an item out of a queue takes it out, and nothing else.           *)
LEMMA TakenOut ==
  ASSUME NEW q \in QueueOf, NEW m \in Range(q), Distinct(q)
  PROVE  /\ Without(q, m) \in QueueOf /\ Distinct(Without(q, m))
         /\ Range(Without(q, m)) = Range(q) \ {m}
<1> DEFINE k == CHOOSE i \in DOMAIN q : q[i] = m
           front == SubSeq(q, 1, k - 1)
           back == SubSeq(q, k + 1, Len(q))
<1>1. Len(q) \in Nat /\ DOMAIN q = 1..Len(q) /\ \A i \in 1..Len(q) : q[i] \in Messages
  BY LenProperties, ElementOfSeq DEF QueueOf
<1>2. k \in 1..Len(q) /\ q[k] = m
  BY <1>1 DEF Range
<1> HIDE DEF k
<1>3. /\ front \in Seq(Messages) /\ Len(front) = k - 1
      /\ \A i \in 1..(k - 1) : front[i] = q[i]
  BY <1>1, <1>2, SubSeqProperties
<1>4. /\ back \in Seq(Messages) /\ Len(back) = Len(q) - k
      /\ \A i \in 1..(Len(q) - k) : back[i] = q[k + i]
  <2>1. k + 1 \in Int /\ Len(q) \in Int /\ \A i \in (k + 1)..Len(q) : q[i] \in Messages
    BY <1>1, <1>2
  <2>2. /\ back \in Seq(Messages)
        /\ Len(back) = IF k + 1 <= Len(q) THEN Len(q) - (k + 1) + 1 ELSE 0
        /\ \A i \in 1..(Len(q) - (k + 1) + 1) : back[i] = q[(k + 1) + i - 1]
    BY <2>1, SubSeqProperties
  <2>3. \A n \in Nat : \A j \in 1..n :
          /\ n - (j + 1) + 1 = n - j
          /\ (IF j + 1 <= n THEN n - (j + 1) + 1 ELSE 0) = n - j
          /\ \A i \in 1..(n - j) : (j + 1) + i - 1 = j + i
    OBVIOUS
  <2>4. /\ Len(back) = Len(q) - k
        /\ \A i \in 1..(Len(q) - k) : back[i] = q[(k + 1) + i - 1]
    BY <1>1, <1>2, <2>2, <2>3
  <2>5. QED
    BY <1>1, <1>2, <2>2, <2>3, <2>4
<1>5. Without(q, m) = front \o back
  BY DEF Without, RemoveAt, k
<1> HIDE DEF front, back
<1>6. /\ Without(q, m) \in Seq(Messages) /\ Len(Without(q, m)) = Len(q) - 1
      /\ \A i \in 1..(Len(q) - 1) :
           Without(q, m)[i] = IF i < k THEN q[i] ELSE q[i + 1]
  <2>1. /\ Without(q, m) \in Seq(Messages) /\ Len(Without(q, m)) = Len(front) + Len(back)
        /\ \A i \in 1..(Len(front) + Len(back)) : Without(q, m)[i] =
             IF i <= Len(front) THEN front[i] ELSE back[i - Len(front)]
    <3>1. \A a, b \in Seq(Messages) :
            /\ a \o b \in Seq(Messages) /\ Len(a \o b) = Len(a) + Len(b)
            /\ \A i \in 1..(Len(a) + Len(b)) :
                 (a \o b)[i] = IF i <= Len(a) THEN a[i] ELSE b[i - Len(a)]
      BY ConcatProperties
    <3>2. front \in Seq(Messages) /\ back \in Seq(Messages)
      BY <1>3, <1>4
    <3>3. QED
      BY <1>5, <3>1, <3>2
  <2>2. Len(front) = k - 1 /\ Len(front) + Len(back) = Len(q) - 1
    BY <1>1, <1>2, <1>3, <1>4
  <2>3. ASSUME NEW i \in 1..(Len(q) - 1), i < k
        PROVE  Without(q, m)[i] = q[i]
    <3>1. i \in 1..(Len(front) + Len(back)) /\ i <= Len(front) /\ i \in 1..(k - 1)
      BY <1>1, <1>2, <2>2, <2>3
    <3>2. QED
      BY <1>3, <2>1, <3>1
  <2>4. ASSUME NEW i \in 1..(Len(q) - 1), ~(i < k)
        PROVE  Without(q, m)[i] = q[i + 1]
    <3>1. /\ i \in 1..(Len(front) + Len(back)) /\ ~(i <= Len(front))
          /\ i - Len(front) \in 1..(Len(q) - k) /\ k + (i - Len(front)) = i + 1
      BY <1>1, <1>2, <2>2, <2>4
    <3>2. Without(q, m)[i] = back[i - Len(front)]
      BY <2>1, <3>1
    <3>3. back[i - Len(front)] = q[k + (i - Len(front))]
      BY <1>4, <3>1
    <3>4. QED
      BY <3>1, <3>2, <3>3
  <2>5. QED
    BY <2>1, <2>2, <2>3, <2>4
<1>7. DOMAIN Without(q, m) = 1..(Len(q) - 1)
  BY <1>6, LenProperties
<1>8. Distinct(Without(q, m))
  BY <1>1, <1>2, <1>6, <1>7, SMTT(30) DEF Distinct
<1>9. Range(Without(q, m)) = Range(q) \ {m}
  <2>1. \A i \in 1..(Len(q) - 1) : \E j \in 1..Len(q) : j # k /\ Without(q, m)[i] = q[j]
    <3>1. TAKE i \in 1..(Len(q) - 1)
    <3>2. CASE i < k
      BY <1>1, <1>2, <1>6, <3>2
    <3>3. CASE ~(i < k)
      <4>1. i + 1 \in 1..Len(q) /\ i + 1 # k
        BY <1>1, <1>2, <3>3
      <4>2. QED
        BY <1>6, <3>3, <4>1
    <3>4. QED
      BY <3>2, <3>3
  <2>2. \A j \in 1..Len(q) : j # k => \E i \in 1..(Len(q) - 1) : Without(q, m)[i] = q[j]
    <3>1. TAKE j \in 1..Len(q)
    <3>2. CASE j < k
      BY <1>1, <1>2, <1>6, <3>2
    <3>3. CASE j > k
      <4>1. j - 1 \in 1..(Len(q) - 1) /\ ~(j - 1 < k) /\ (j - 1) + 1 = j
        BY <1>1, <1>2, <3>3
      <4>2. QED
        BY <1>6, <4>1
    <3>4. QED
      BY <1>2, <3>2, <3>3
  <2>3. \A j \in 1..Len(q) : j # k => q[j] # m
    BY <1>1, <1>2 DEF Distinct
  <2>4. Range(Without(q, m)) \subseteq Range(q) \ {m}
    BY <1>1, <1>7, <2>1, <2>3 DEF Range
  <2>5. Range(q) \ {m} \subseteq Range(Without(q, m))
    BY <1>1, <1>2, <1>7, <2>2 DEF Range
  <2>6. QED
    BY <2>4, <2>5
<1>10. QED
  BY <1>6, <1>8, <1>9 DEF QueueOf

LEMMA FaultsBounded ==
  ASSUME faults \in 0..MaxFaults,
         \/ faults' = faults
         \/ Faulty /\ faults' = faults + 1
         \/ \E oks : Spend(oks)
  PROVE  faults' \in 0..MaxFaults
<1> USE SelfConsoleAssumption
<1>1. CASE Faulty /\ faults' = faults + 1
  BY <1>1 DEF Faulty
<1>2. ASSUME NEW oks, Spend(oks)
      PROVE  faults' = faults \/ (Faulty /\ faults' = faults + 1)
  <2>1. CASE FALSE \in oks
    BY <1>2, <2>1 DEF Spend
  <2>2. CASE FALSE \notin oks
    BY <1>2, <2>2 DEF Spend
  <2>3. QED
    BY <2>1, <2>2
<1>3. QED
  BY <1>1, <1>2

(* The console says nothing bare, and a part of what is called for is no   *)
(* more than what is called for.                                           *)
LEMMA PartOfWhatIsSaid ==
  ASSUME NEW word \in Words, NEW said \in SUBSET Says(word)
  PROVE  /\ said \subseteq Forms /\ "bare" \notin said
         /\ Cardinality(said) \in Nat /\ Cardinality(Says(word)) \in Nat
         /\ Cardinality(said) <= Cardinality(Says(word))
<1>1. Says(word) \in {{}, {"marked"}, {"picture", "marked"}}
  BY DEF Says
<1>2. Says(word) \subseteq Forms /\ "bare" \notin Says(word)
  BY <1>1 DEF Forms
<1>3. IsFiniteSet(Says(word))
  <2>1. IsFiniteSet({}) /\ IsFiniteSet({"marked"})
    BY FS_EmptySet, FS_Singleton
  <2>2. IsFiniteSet({"marked"} \cup {"picture"})
    BY <2>1, FS_AddElement
  <2>3. {"marked"} \cup {"picture"} = {"picture", "marked"}
    OBVIOUS
  <2>4. QED
    BY <1>1, <2>1, <2>2, <2>3
<1>4. QED
  BY <1>2, <1>3, FS_Subset, FS_CardinalityType

(* Nothing is said, and nothing comes back.                                *)
LEMMA SilenceIsQuiet ==
  ASSUME QuietInv, UNCHANGED talk
  PROVE  QuietInv'
BY DEF QuietInv, NeverAnswersItself, talk

-----------------------------------------------------------------------------
LEMMA ConsoleInitInv == Init => ConsoleInv
<1> SUFFICES ASSUME Init
             PROVE  ConsoleInv
  OBVIOUS
<1>1. NoPoll \in PollRecord /\ NoPoll.items = << >> /\ NoPoll.at = "idle"
  BY DEF NoPoll, PollRecord, QueueOf
<1>2. Cardinality({}) = 0
  BY FS_EmptySet
<1>3. << >> \in QueueOf
  BY DEF QueueOf
<1>4. ShapeInv
  BY <1>1, <1>3, SelfConsoleAssumption DEF Init, ShapeInv, Modes
<1>5. QueueInv /\ FileInv
  BY RangeOfEmpty DEF Init, QueueInv, FileInv
<1>6. AnswerInv
  BY <1>1 DEF Init, AnswerInv
<1>7. PlaceInv /\ ConfirmedInv /\ NothingForgotten /\ QuietInv
  BY <1>1, <1>2, RangeOfEmpty DEF Init, PlaceInv, Carries, ConfirmedInv, NothingForgotten,
     QuietInv, NeverAnswersItself, Forms
<1>8. QED
  BY <1>4, <1>5, <1>6, <1>7 DEF ConsoleInv

(* Where messages are does not depend on what these steps change.          *)
LEMMA PlacesUnchanged ==
  ASSUME ConsoleInv,
         UNCHANGED <<queue, queueFile, polls, forwarded, polled, spoiled>>,
         landed \subseteq landed', voided \subseteq voided', cut \subseteq cut',
         confirmed' = confirmed, unsaved' \cap {"queue"} = unsaved \cap {"queue"}
  PROVE  /\ FileInv' /\ AnswerInv' /\ PlaceInv' /\ ConfirmedInv' /\ NothingForgotten'
         /\ Range(queue') \subseteq forwarded' /\ Range(queueFile') \subseteq forwarded'
         /\ Distinct(queue') /\ Distinct(queueFile')
<1>1. FileInv' /\ AnswerInv' /\ ConfirmedInv'
  BY DEF ConsoleInv, FileInv, AnswerInv, ConfirmedInv
<1>2. PlaceInv'
  BY DEF ConsoleInv, PlaceInv, Carries
<1>3. NothingForgotten'
  BY DEF ConsoleInv, NothingForgotten, Carried
<1>4. QED
  BY <1>1, <1>2, <1>3 DEF ConsoleInv, QueueInv

LEMMA RouteHereStep ==
  ASSUME ConsoleInv, NEW m \in Messages, NEW word \in Words, RouteHere(m, word)
  PROVE  ConsoleInv'
<1>1. PICK s \in NextSessions(word), ok \in BOOLEAN, said \in SUBSET Says(word) :
        /\ saveConsoleSession(s, ok) /\ Write("session", ok)
        /\ replies' = replies + Cardinality(said)
        /\ echoes' = [f \in Forms |-> echoes[f] + IF f \in said THEN 1 ELSE 0]
        /\ Spend({ok, said = Says(word)})
  BY DEF RouteHere
<1>2. m \notin heard /\ heard' = heard \cup {m}
      /\ owed' = owed + Cardinality(Says(word))
      /\ UNCHANGED <<queue, queueFile, spoiled, wire, landed, polled, pushing, confirmed, polls,
                     forwarded, voided, cut>>
  BY DEF RouteHere, agent
<1>3. s \in Modes
  BY DEF NextSessions, Modes, ConsoleInv, ShapeInv
<1>4. faults' \in 0..MaxFaults
  BY <1>1, FaultsBounded DEF ConsoleInv, ShapeInv
<1>5. /\ "bare" \notin said
      /\ Cardinality(said) \in Nat /\ Cardinality(Says(word)) \in Nat
      /\ Cardinality(said) <= Cardinality(Says(word))
  BY PartOfWhatIsSaid
<1>6. QuietInv'
  <2>1. replies \in Nat /\ owed \in Nat /\ replies <= owed /\ echoes \in [Forms -> Nat]
        /\ echoes["bare"] = 0
    BY DEF ConsoleInv, QuietInv, NeverAnswersItself
  <2>2. replies' \in Nat /\ owed' \in Nat /\ replies' <= owed'
    BY <1>1, <1>2, <1>5, <2>1
  <2>3. echoes' \in [Forms -> Nat] /\ echoes'["bare"] = 0
    BY <1>1, <1>5, <2>1 DEF Forms
  <2>4. QED
    BY <2>2, <2>3 DEF QuietInv, NeverAnswersItself
<1>7. unsaved' \subseteq {"session", "queue"} /\ unsaved' \cap {"queue"} = unsaved \cap {"queue"}
  BY <1>1 DEF Write, ConsoleInv, ShapeInv
<1>8. ShapeInv'
  BY <1>1, <1>2, <1>3, <1>4, <1>7 DEF saveConsoleSession, ConsoleInv, ShapeInv
<1>9. /\ FileInv' /\ AnswerInv' /\ PlaceInv' /\ ConfirmedInv' /\ NothingForgotten'
      /\ Range(queue') \subseteq forwarded' /\ Range(queueFile') \subseteq forwarded'
      /\ Distinct(queue') /\ Distinct(queueFile')
  BY <1>2, <1>7, PlacesUnchanged
<1>10. QueueInv'
  BY <1>2, <1>9 DEF ConsoleInv, QueueInv
<1>11. QED
  BY <1>6, <1>8, <1>9, <1>10 DEF ConsoleInv

(* A message is queued once: it had not been heard before.                 *)
LEMMA RouteForwardStep ==
  ASSUME ConsoleInv, NEW m \in Messages, NEW word \in Words, RouteForward(m, word)
  PROVE  ConsoleInv'
<1>1. PICK okSession \in BOOLEAN, okQueue \in BOOLEAN :
        /\ saveConsoleSession(session, okSession)
        /\ saveForwardedQueue(Append(queue, m), okQueue)
        /\ unsaved' = (unsaved \ {"session", "queue"})
                        \cup (IF okSession THEN {} ELSE {"session"})
                        \cup (IF okQueue THEN {} ELSE {"queue"})
        /\ Spend({okSession, okQueue})
  BY DEF RouteForward
<1>2. m \notin heard /\ heard' = heard \cup {m} /\ forwarded' = forwarded \cup {m}
      /\ pushing' = {m} /\ wire' = wire \cup {m}
      /\ UNCHANGED <<landed, polled, spoiled, confirmed, polls, voided, cut, talk>>
  BY DEF RouteForward
<1>3. m \notin forwarded /\ m \notin Range(queue) /\ m \notin Range(queueFile)
  BY <1>2 DEF ConsoleInv, QueueInv
<1>4. /\ queue' \in QueueOf /\ Distinct(queue') /\ Range(queue') = Range(queue) \cup {m}
      /\ queueFile' \in {queue', queueFile} /\ (okQueue => queueFile' = queue')
  BY <1>1, <1>3, Appended DEF saveForwardedQueue, ConsoleInv, ShapeInv, QueueInv
<1>5. QuietInv'
  BY <1>2, SilenceIsQuiet DEF ConsoleInv
<1>6. faults' \in 0..MaxFaults
  BY <1>1, FaultsBounded DEF ConsoleInv, ShapeInv
<1>7. ShapeInv'
  BY <1>1, <1>2, <1>4, <1>6 DEF saveConsoleSession, ConsoleInv, ShapeInv
<1>8. QueueInv' /\ FileInv' /\ AnswerInv'
  <2>1. Range(queueFile') \subseteq forwarded' /\ Distinct(queueFile')
    BY <1>2, <1>4 DEF ConsoleInv, QueueInv
  <2>2. FileInv'
    BY <1>1, <1>4 DEF FileInv
  <2>3. QED
    BY <1>2, <1>4, <2>1, <2>2 DEF ConsoleInv, QueueInv, AnswerInv
<1>9. PlaceInv'
  BY <1>2, <1>3, <1>4 DEF ConsoleInv, PlaceInv, Carries
<1>10. NothingForgotten'
  BY <1>2, <1>4 DEF ConsoleInv, NothingForgotten, Carried
<1>11. ConfirmedInv'
  BY <1>2, <1>3, <1>4 DEF ConsoleInv, QueueInv, ConfirmedInv
<1>12. QED
  BY <1>5, <1>7, <1>8, <1>9, <1>10, <1>11 DEF ConsoleInv

LEMMA UnidentifiedStep ==
  ASSUME ConsoleInv, NEW m \in Messages, RouteUnidentified(m)
  PROVE  ConsoleInv'
<1>1. m \notin heard /\ heard' = heard \cup {m} /\ Faulty /\ faults' = faults + 1
      /\ UNCHANGED <<session, sessionFile, queue, queueFile, unsaved, spoiled, wire, landed, polled,
                     pushing, confirmed, polls, forwarded, voided, cut, talk>>
  BY DEF RouteUnidentified, files, agent
<1>2. QuietInv'
  BY <1>1, SilenceIsQuiet DEF ConsoleInv
<1>3. ShapeInv'
  BY <1>1, FaultsBounded DEF ConsoleInv, ShapeInv
<1>4. /\ FileInv' /\ AnswerInv' /\ PlaceInv' /\ ConfirmedInv' /\ NothingForgotten'
      /\ Range(queue') \subseteq forwarded' /\ Range(queueFile') \subseteq forwarded'
      /\ Distinct(queue') /\ Distinct(queueFile')
  BY <1>1, PlacesUnchanged
<1>5. QueueInv'
  BY <1>1, <1>4 DEF ConsoleInv, QueueInv
<1>6. QED
  BY <1>2, <1>3, <1>4, <1>5 DEF ConsoleInv

-----------------------------------------------------------------------------
(* The push, and what the console reads back: no queue, no poll is touched *)
(* except where the push is seen to land.                                  *)
LEMMA QuietStep ==
  ASSUME ConsoleInv,
         \/ UNCHANGED vars
         \/ \E m \in Messages : \/ AgentAccepts(m) \/ PushRefused(m)
                                \/ PushTimesOut(m) \/ PushAbandoned(m)
  PROVE  ConsoleInv'
<1>1. /\ UNCHANGED <<session, sessionFile, queue, queueFile, unsaved, spoiled, polled, confirmed,
                     polls, heard, forwarded, voided, cut, talk>>
      /\ pushing' \in {pushing, {}}
      /\ wire' \subseteq wire /\ landed \subseteq landed' /\ landed' \subseteq landed \cup wire
      /\ faults' = faults \/ (Faulty /\ faults' = faults + 1)
  BY DEF vars, files, agent, AgentAccepts, PushRefused, PushTimesOut, PushAbandoned
<1>2. ShapeInv'
  BY <1>1, FaultsBounded DEF ConsoleInv, ShapeInv
<1>3. /\ FileInv' /\ AnswerInv' /\ PlaceInv' /\ ConfirmedInv' /\ NothingForgotten'
      /\ Range(queue') \subseteq forwarded' /\ Range(queueFile') \subseteq forwarded'
      /\ Distinct(queue') /\ Distinct(queueFile')
  BY <1>1, PlacesUnchanged
<1>4. QueueInv' /\ QuietInv'
  BY <1>1, <1>3, SilenceIsQuiet DEF ConsoleInv, QueueInv
<1>5. QED
  BY <1>2, <1>3, <1>4 DEF ConsoleInv

(* The console's own word comes back: it is a picture or marked, and is not *)
(* answered.                                                               *)
LEMMA HearOwnReplyStep ==
  ASSUME ConsoleInv, NEW form \in Forms, HearOwnReply(form)
  PROVE  ConsoleInv'
<1> DEFINE answer == IF form = "picture" \/ isOwnReply(form) THEN {} ELSE Says("text")
<1>1. /\ UNCHANGED <<session, sessionFile, queue, queueFile, unsaved, spoiled, wire, landed, polled,
                     pushing, confirmed, polls, heard, forwarded, voided, cut, owed, faults>>
      /\ echoes[form] > 0
      /\ echoes' = [f \in Forms |-> (echoes[f] - IF f = form THEN 1 ELSE 0)
                                          + IF f \in answer THEN 1 ELSE 0]
      /\ replies' = replies + Cardinality(answer)
  BY DEF HearOwnReply, files, agent
<1>2. replies \in Nat /\ owed \in Nat /\ replies <= owed /\ echoes \in [Forms -> Nat]
      /\ echoes["bare"] = 0
  BY DEF ConsoleInv, QuietInv, NeverAnswersItself
<1>3. form # "bare"
  BY <1>1, <1>2
<1>4. answer = {} /\ Cardinality(answer) = 0
  BY <1>3, FS_EmptySet DEF Forms, isOwnReply
<1> HIDE DEF answer
<1>5. QuietInv'
  <2>1. replies' \in Nat /\ owed' \in Nat /\ replies' <= owed'
    BY <1>1, <1>2, <1>4
  <2>2. \A f \in Forms : echoes'[f] = echoes[f] - IF f = form THEN 1 ELSE 0
    BY <1>1, <1>2, <1>4
  <2>3. echoes' = [f \in Forms |-> echoes'[f]]
    BY <1>1
  <2>4. \A f \in Forms : echoes'[f] \in Nat
    BY <1>1, <1>2, <2>2
  <2>5. echoes'["bare"] = 0
    BY <1>2, <1>3, <2>2 DEF Forms
  <2>6. QED
    BY <2>1, <2>3, <2>4, <2>5 DEF QuietInv, NeverAnswersItself
<1>6. ShapeInv'
  BY <1>1 DEF ConsoleInv, ShapeInv
<1>7. /\ FileInv' /\ AnswerInv' /\ PlaceInv' /\ ConfirmedInv' /\ NothingForgotten'
      /\ Range(queue') \subseteq forwarded' /\ Range(queueFile') \subseteq forwarded'
      /\ Distinct(queue') /\ Distinct(queueFile')
  BY <1>1, PlacesUnchanged
<1>8. QueueInv'
  BY <1>1, <1>7 DEF ConsoleInv, QueueInv
<1>9. QED
  BY <1>5, <1>6, <1>7, <1>8 DEF ConsoleInv

LEMMA PushLandedStep ==
  ASSUME ConsoleInv, NEW m \in Messages, PushLanded(m)
  PROVE  ConsoleInv'
<1>1. m \in landed /\ pushing' = {} /\ confirmed' = confirmed \cup {m}
      /\ UNCHANGED <<session, sessionFile, spoiled, wire, landed, polled, polls, heard, forwarded,
                     voided, cut, talk>>
  BY DEF PushLanded, agent
<1>2. /\ queue' \in QueueOf /\ Distinct(queue') /\ Range(queue') = Range(queue) \ {m}
      /\ queueFile' \in {queue', queueFile}
      /\ unsaved' \subseteq {"session", "queue"} /\ FileInv'
      /\ faults' \in 0..MaxFaults
  <2>1. CASE m \in Range(queue)
    <3>1. PICK ok \in BOOLEAN : /\ saveForwardedQueue(Without(queue, m), ok)
                               /\ Write("queue", ok) /\ Spend({ok})
      BY <2>1 DEF PushLanded
    <3>2. /\ Without(queue, m) \in QueueOf /\ Distinct(Without(queue, m))
          /\ Range(Without(queue, m)) = Range(queue) \ {m}
      BY <2>1, TakenOut DEF ConsoleInv, ShapeInv, QueueInv
    <3>3. faults' \in 0..MaxFaults
      BY <3>1, FaultsBounded DEF ConsoleInv, ShapeInv
    <3>4. FileInv' /\ unsaved' \subseteq {"session", "queue"}
      BY <3>1 DEF saveForwardedQueue, Write, FileInv, ConsoleInv, ShapeInv
    <3>5. QED
      BY <3>1, <3>2, <3>3, <3>4 DEF saveForwardedQueue
  <2>2. CASE m \notin Range(queue)
    BY <2>2 DEF PushLanded, ConsoleInv, ShapeInv, QueueInv, FileInv
  <2>3. QED
    BY <2>1, <2>2
<1>3. ShapeInv'
  BY <1>1, <1>2 DEF ConsoleInv, ShapeInv
<1>4. QueueInv'
  <2>1. Range(queueFile') \subseteq forwarded' /\ Distinct(queueFile')
    BY <1>1, <1>2 DEF ConsoleInv, QueueInv
  <2>2. QED
    BY <1>1, <1>2, <2>1 DEF ConsoleInv, QueueInv
<1>5. PlaceInv'
  BY <1>1, <1>2 DEF ConsoleInv, PlaceInv, Carries
<1>6. NothingForgotten'
  BY <1>1, <1>2 DEF ConsoleInv, NothingForgotten, Carried
<1>7. ConfirmedInv' /\ AnswerInv' /\ QuietInv'
  BY <1>1, <1>2, SilenceIsQuiet DEF ConsoleInv, ConfirmedInv, AnswerInv
<1>8. QED
  BY <1>2, <1>3, <1>4, <1>5, <1>6, <1>7 DEF ConsoleInv

-----------------------------------------------------------------------------
(* The poll.                                                               *)

LEMMA NoPollTyped == NoPoll \in PollRecord /\ NoPoll.items = << >> /\ NoPoll.at = "idle"
BY DEF NoPoll, PollRecord, QueueOf

(* The queue is emptied into the answer, or into the void.                 *)
LEMMA AnswerStep ==
  ASSUME ConsoleInv, NEW p \in Polls, NEW listening \in BOOLEAN, Collect(p, listening),
         polls[p].at # "answered"
  PROVE  ConsoleInv'
<1>1. PICK ok \in BOOLEAN : DrainQueue(ok)
  BY DEF Collect, Answer
<1>2. /\ queue # << >> /\ queue' = << >> /\ queueFile' \in {queue', queueFile}
      /\ unsaved' \subseteq {"session", "queue"} /\ FileInv' /\ faults' \in 0..MaxFaults
      /\ UNCHANGED <<session, sessionFile, spoiled>>
  <2>1. faults' \in 0..MaxFaults
    BY <1>1, FaultsBounded DEF DrainQueue, ConsoleInv, ShapeInv
  <2>2. unsaved' \subseteq {"session", "queue"} /\ FileInv'
    BY <1>1 DEF DrainQueue, saveForwardedQueue, Write, FileInv, ConsoleInv, ShapeInv
  <2>3. QED
    BY <1>1, <2>1, <2>2 DEF DrainQueue, saveForwardedQueue, Collect
<1>3. UNCHANGED <<wire, landed, polled, pushing, confirmed, heard, forwarded, talk, cut>>
  BY DEF Collect, Answer, agent
<1>4. polls \in [Polls -> PollRecord] /\ queue \in QueueOf
  BY DEF ConsoleInv, ShapeInv
<1>5. polls[p].items = << >>
  BY DEF ConsoleInv, AnswerInv
<1>6. /\ polls' \in [Polls -> PollRecord]
      /\ polls'[p].items # << >> <=> polls'[p].at = "answered"
      /\ \A r \in Polls \ {p} : polls'[r] = polls[r]
      /\ \/ polls'[p].items = queue /\ voided' = voided
         \/ polls'[p].items = << >> /\ voided' = voided \cup Range(queue)
  <2>1. CASE listening
    <3> DEFINE answer == [at |-> "answered", items |-> queue, listening |-> TRUE]
    <3>1. answer \in PollRecord /\ answer.items = queue /\ answer.at = "answered"
      BY <1>4 DEF PollRecord
    <3>2. polls' = [polls EXCEPT ![p] = answer] /\ voided' = voided
      BY <2>1 DEF Collect, Answer
    <3> HIDE DEF answer
    <3>3. QED
      BY <1>2, <1>4, <3>1, <3>2
  <2>2. CASE ~listening
    <3>1. polls' = [polls EXCEPT ![p] = NoPoll] /\ voided' = voided \cup Range(queue)
      BY <2>2 DEF Collect, Answer
    <3>2. QED
      BY <1>4, <3>1, NoPollTyped
  <2>3. QED
    BY <2>1, <2>2
<1>7. ShapeInv'
  <2>1. << >> \in QueueOf
    BY DEF QueueOf
  <2>2. QED
    BY <1>2, <1>3, <1>6, <2>1 DEF ConsoleInv, ShapeInv
<1>8. QueueInv' /\ AnswerInv'
  <2>1. Range(queueFile') \subseteq forwarded' /\ Distinct(queueFile')
    BY <1>2, <1>3, RangeOfEmpty DEF ConsoleInv, QueueInv
  <2>2. QueueInv'
    BY <1>2, <1>3, <2>1, RangeOfEmpty DEF ConsoleInv, QueueInv
  <2>3. AnswerInv'
    BY <1>6 DEF ConsoleInv, AnswerInv
  <2>4. QED
    BY <2>2, <2>3
<1>9. PlaceInv'
  <2>1. \A m \in Messages, r \in Polls :
          Carries(r, m)' => Carries(r, m) \/ (r = p /\ m \in Range(queue))
    BY <1>6, RangeOfEmpty DEF Carries
  <2>2. \A m \in Messages : ~Carries(p, m)
    BY <1>5, RangeOfEmpty DEF Carries
  <2>3. Range(queue') = {} /\ Range(queue) \subseteq forwarded
    BY <1>2, RangeOfEmpty DEF ConsoleInv, QueueInv
  <2>4. QED
    BY <1>2, <1>3, <2>1, <2>2, <2>3 DEF ConsoleInv, PlaceInv
<1>10. NothingForgotten'
  <2>1. Carried \cup Range(queue) \subseteq Carried' \cup voided'
    BY <1>5, <1>6, RangeOfEmpty DEF Carried
  <2>2. voided \subseteq voided'
    BY <1>6
  <2>3. QED
    BY <1>2, <1>3, <2>1, <2>2 DEF ConsoleInv, NothingForgotten
<1>11. ConfirmedInv' /\ QuietInv'
  BY <1>2, <1>3, RangeOfEmpty, SilenceIsQuiet DEF ConsoleInv, ConfirmedInv
<1>12. QED
  BY <1>2, <1>7, <1>8, <1>9, <1>10, <1>11 DEF ConsoleInv

(* A call that holds nothing comes, waits, ends or loses its caller.       *)
LEMMA EmptyPollStep ==
  ASSUME ConsoleInv, NEW p \in Polls, NEW after \in PollRecord,
         polls[p].items = << >>, after.items = << >>, after.at # "answered",
         polls' = [polls EXCEPT ![p] = after],
         UNCHANGED <<files, agent, pushing, confirmed, heard, forwarded, talk, cut>>,
         voided' = voided, faults' \in 0..MaxFaults
  PROVE  ConsoleInv'
<1>1. UNCHANGED <<session, sessionFile, queue, queueFile, unsaved, spoiled, wire, landed, polled,
                  pushing, confirmed, heard, forwarded, voided, cut, talk>>
  BY DEF files, agent
<1>2. /\ polls' \in [Polls -> PollRecord]
      /\ polls'[p].items = << >> /\ polls'[p].at # "answered"
      /\ \A r \in Polls : polls'[r].items = polls[r].items
      /\ \A r \in Polls \ {p} : polls'[r] = polls[r]
  BY DEF ConsoleInv, ShapeInv
<1>3. ShapeInv'
  BY <1>1, <1>2 DEF ConsoleInv, ShapeInv
<1>4. QueueInv' /\ FileInv'
  BY <1>1 DEF ConsoleInv, QueueInv, FileInv
<1>5. AnswerInv'
  BY <1>2 DEF ConsoleInv, AnswerInv
<1>6. PlaceInv'
  BY <1>1, <1>2 DEF ConsoleInv, PlaceInv, Carries
<1>7. NothingForgotten'
  <2>1. Carried' = Carried
    BY <1>2 DEF Carried
  <2>2. QED
    BY <1>1, <2>1 DEF ConsoleInv, NothingForgotten
<1>8. ConfirmedInv' /\ QuietInv'
  BY <1>1, SilenceIsQuiet DEF ConsoleInv, ConfirmedInv
<1>9. QED
  BY <1>3, <1>4, <1>5, <1>6, <1>7, <1>8 DEF ConsoleInv

(* What an answer carries leaves it, for the agent or for nobody.          *)
LEMMA AnswerEnds ==
  ASSUME ConsoleInv, NEW p \in Polls, polls' = [polls EXCEPT ![p] = NoPoll],
         UNCHANGED <<files, wire, landed, pushing, confirmed, heard, forwarded, talk, cut>>,
         faults' \in 0..MaxFaults,
         \/ /\ polled' = [m \in Messages |->
                            polled[m] + IF m \in Range(polls[p].items) THEN 1 ELSE 0]
            /\ voided' = voided
         \/ polled' = polled /\ voided' = voided \cup Range(polls[p].items)
  PROVE  ConsoleInv'
<1>1. UNCHANGED <<session, sessionFile, queue, queueFile, unsaved, spoiled, wire, landed,
                  pushing, confirmed, heard, forwarded, cut, talk>>
  BY DEF files
<1>2. /\ polls' \in [Polls -> PollRecord]
      /\ polls'[p].items = << >> /\ polls'[p].at = "idle"
      /\ \A r \in Polls \ {p} : polls'[r] = polls[r]
  BY NoPollTyped DEF ConsoleInv, ShapeInv
<1>3. /\ polled' \in [Messages -> Nat]
      /\ \A m \in Messages : polled'[m] = polled[m] \/ (Carries(p, m) /\ polled'[m] = polled[m] + 1)
      /\ \A m \in Messages : Carries(p, m) => polled'[m] > 0 \/ m \in voided'
      /\ voided \subseteq voided'
  <2>1. polled \in [Messages -> Nat]
    BY DEF ConsoleInv, ShapeInv
  <2>2. QED
    BY <2>1 DEF Carries
<1>4. ShapeInv'
  BY <1>1, <1>2, <1>3 DEF ConsoleInv, ShapeInv
<1>5. QueueInv' /\ FileInv'
  BY <1>1 DEF ConsoleInv, QueueInv, FileInv
<1>6. AnswerInv'
  BY <1>2 DEF ConsoleInv, AnswerInv
<1>7. \A m \in Messages, r \in Polls : Carries(r, m)' <=> Carries(r, m) /\ r # p
  BY <1>2, RangeOfEmpty DEF Carries
<1>8. PlaceInv'
  <2>1. polled \in [Messages -> Nat]
    BY DEF ConsoleInv, ShapeInv
  <2> SUFFICES ASSUME ~spoiled, NEW m \in Messages
               PROVE  /\ m \notin forwarded => polled'[m] = 0 /\ \A r \in Polls : ~Carries(r, m)'
                      /\ m \in Range(queue) => polled'[m] = 0 /\ \A r \in Polls : ~Carries(r, m)'
                      /\ \A r \in Polls : Carries(r, m)' =>
                           polled'[m] = 0 /\ \A t \in Polls : Carries(t, m)' => t = r
                      /\ polled'[m] <= 1
    BY <1>1 DEF PlaceInv
  <2>2. CASE Carries(p, m)
    <3>1. polled[m] = 0 /\ m \in forwarded /\ m \notin Range(queue)
          /\ \A r \in Polls : Carries(r, m) => r = p
      BY <2>2 DEF ConsoleInv, PlaceInv
    <3>2. QED
      BY <1>3, <1>7, <3>1
  <2>3. CASE ~Carries(p, m)
    BY <1>3, <1>7, <2>3 DEF ConsoleInv, PlaceInv
  <2>4. QED
    BY <2>2, <2>3
<1>9. NothingForgotten'
  <2>1. polled \in [Messages -> Nat] /\ polls \in [Polls -> PollRecord]
    BY DEF ConsoleInv, ShapeInv
  <2>2. Carried \subseteq Carried' \cup Range(polls[p].items)
    BY <1>2 DEF Carried
  <2>3. Range(polls[p].items) \subseteq Messages
    BY <2>1, RangeTyped DEF PollRecord
  <2>4. \A m \in Range(polls[p].items) : polled'[m] > 0 \/ m \in voided'
    BY <1>3, <2>3 DEF Carries
  <2>5. \A m \in Messages : polled[m] > 0 => polled'[m] > 0
    BY <1>3, <2>1
  <2>6. QED
    BY <1>1, <1>3, <2>2, <2>3, <2>4, <2>5 DEF ConsoleInv, NothingForgotten
<1>10. ConfirmedInv' /\ QuietInv'
  BY <1>1, SilenceIsQuiet DEF ConsoleInv, ConfirmedInv
<1>11. QED
  BY <1>4, <1>5, <1>6, <1>8, <1>9, <1>10 DEF ConsoleInv

LEMMA PollStep ==
  ASSUME ConsoleInv, NEW p \in Polls, Poll(p) \/ CallerGone(p)
  PROVE  ConsoleInv'
<1>1. polls \in [Polls -> PollRecord] /\ polls[p] \in PollRecord /\ polls[p].listening \in BOOLEAN
      /\ faults \in 0..MaxFaults
  BY DEF ConsoleInv, ShapeInv, PollRecord
<1>2. polls[p].at # "answered" => polls[p].items = << >>
  BY DEF ConsoleInv, AnswerInv
<1>3. ASSUME polls[p].at # "answered", NEW listening \in BOOLEAN, Collect(p, listening)
      PROVE  ConsoleInv'
  BY <1>3, AnswerStep
<1>4. CASE PollArrives(p)
  <2> DEFINE waiting == [at |-> "waiting", items |-> << >>, listening |-> TRUE]
  <2>1. polls[p].at = "idle"
    BY <1>4 DEF PollArrives
  <2>2. waiting \in PollRecord /\ waiting.items = << >> /\ waiting.at # "answered"
    BY DEF PollRecord, QueueOf
  <2>3. \/ Collect(p, TRUE)
        \/ /\ polls' = [polls EXCEPT ![p] = waiting]
           /\ UNCHANGED <<files, agent, pushing, confirmed, selfKey, heard, forwarded, voided, cut,
                          talk, faults>>
    BY <1>4 DEF PollArrives
  <2> HIDE DEF waiting
  <2>4. QED
    BY <1>1, <1>2, <1>3, <2>1, <2>2, <2>3, EmptyPollStep
<1>5. CASE PollFinds(p)
  BY <1>1, <1>3, <1>5 DEF PollFinds
<1>6. CASE PollGivesUp(p)
  <2>1. polls[p].items = << >> /\ polls' = [polls EXCEPT ![p] = NoPoll]
    BY <1>2, <1>6 DEF PollGivesUp
  <2>2. QED
    BY <1>1, <1>6, <2>1, NoPollTyped, EmptyPollStep DEF PollGivesUp
<1>7. CASE PollReceived(p)
  BY <1>1, <1>7, AnswerEnds DEF PollReceived
<1>8. CASE CallerGone(p)
  <2>1. faults' \in 0..MaxFaults
    BY <1>1, <1>8, FaultsBounded DEF CallerGone
  <2>2. CASE polls[p].at = "answered"
    <3>1. polls' = [polls EXCEPT ![p] = NoPoll]
      BY <1>8, <2>2 DEF CallerGone
    <3>2. UNCHANGED <<files, wire, landed, pushing, confirmed, heard, forwarded, talk, cut>>
          /\ polled' = polled /\ voided' = voided \cup Range(polls[p].items)
      BY <1>8 DEF CallerGone, agent
    <3>3. QED
      BY <2>1, <3>1, <3>2, AnswerEnds
  <2>3. CASE polls[p].at # "answered"
    <3> DEFINE deaf == [polls[p] EXCEPT !.listening = FALSE]
    <3>1. polls' = [polls EXCEPT ![p] = deaf]
      BY <1>8, <2>3 DEF CallerGone
    <3>2. deaf \in PollRecord /\ deaf.items = << >> /\ deaf.at # "answered" /\ polls[p].items = << >>
      BY <1>1, <1>2, <2>3 DEF PollRecord
    <3>3. voided' = voided
          /\ UNCHANGED <<files, agent, pushing, confirmed, heard, forwarded, talk, cut>>
      BY <1>8, <3>2, RangeOfEmpty DEF CallerGone
    <3> HIDE DEF deaf
    <3>4. QED
      BY <2>1, <3>1, <3>2, <3>3, EmptyPollStep
  <2>4. QED
    BY <2>2, <2>3
<1>9. QED
  BY <1>4, <1>5, <1>6, <1>7, <1>8 DEF Poll

(* A restart loses what the file does not hold, and says so.               *)
LEMMA RestartStep ==
  ASSUME ConsoleInv, BridgeRestarts
  PROVE  ConsoleInv'
<1>1. /\ session' = sessionFile /\ queue' = queueFile /\ unsaved' = {} /\ pushing' = {}
      /\ spoiled' = (spoiled \/ "queue" \in unsaved)
      /\ polls' = [p \in Polls |-> NoPoll] /\ cut' = cut \cup Carried
      /\ UNCHANGED <<sessionFile, queueFile, wire, landed, polled, confirmed, heard, forwarded,
                     voided, talk>>
  BY DEF BridgeRestarts, agent
<1>2. faults' \in 0..MaxFaults
  BY FaultsBounded DEF BridgeRestarts, ConsoleInv, ShapeInv
<1>3. /\ polls' \in [Polls -> PollRecord]
      /\ \A p \in Polls : polls'[p].items = << >> /\ polls'[p].at = "idle"
  BY <1>1, NoPollTyped
<1>4. \A p \in Polls : Range(polls'[p].items) = {}
  BY <1>3, RangeOfEmpty
<1>5. ~spoiled' => ~spoiled /\ queue' = queue
  BY <1>1 DEF ConsoleInv, FileInv
<1>6. ShapeInv'
  BY <1>1, <1>2, <1>3 DEF ConsoleInv, ShapeInv
<1>7. QueueInv' /\ FileInv' /\ AnswerInv'
  BY <1>1, <1>3 DEF ConsoleInv, QueueInv, FileInv, AnswerInv
<1>8. PlaceInv'
  BY <1>1, <1>4, <1>5 DEF ConsoleInv, PlaceInv, Carries
<1>9. NothingForgotten'
  BY <1>1, <1>5 DEF ConsoleInv, NothingForgotten
<1>10. ConfirmedInv' /\ QuietInv'
  BY <1>1, <1>5, SilenceIsQuiet DEF ConsoleInv, ConfirmedInv
<1>11. QED
  BY <1>6, <1>7, <1>8, <1>9, <1>10 DEF ConsoleInv

-----------------------------------------------------------------------------
LEMMA ConsoleNext ==
  ASSUME ConsoleInv, [Next]_vars
  PROVE  ConsoleInv'
<1>1. ASSUME NEW m \in Messages, NEW word \in Words, RouteHere(m, word) \/ RouteForward(m, word)
      PROVE  ConsoleInv'
  BY <1>1, RouteHereStep, RouteForwardStep
<1>2. ASSUME NEW m \in Messages, RouteUnidentified(m) \/ Push(m)
      PROVE  ConsoleInv'
  BY <1>2, UnidentifiedStep, QuietStep, PushLandedStep DEF Push
<1>3. ASSUME NEW p \in Polls, Poll(p) \/ CallerGone(p)
      PROVE  ConsoleInv'
  BY <1>3, PollStep
<1>4. CASE UNCHANGED vars \/ \E form \in Forms : HearOwnReply(form)
  BY <1>4, QuietStep, HearOwnReplyStep
<1>5. CASE BridgeRestarts
  BY <1>5, RestartStep
<1>6. QED
  BY <1>1, <1>2, <1>3, <1>4, <1>5 DEF Next

\* Whatever is pushed, polled, lost and restarted, each forwarded item is in one
\* place, and the file says what the queue holds unless a save failed (plugins.js).
THEOREM ConsoleInvariant == Spec => []ConsoleInv
<1>1. QED
  BY ConsoleInitInv, ConsoleNext, PTL DEF Spec

(* The two files, their copies in memory and the open calls keep their     *)
(* types.                                                                  *)
THEOREM ConsoleTypeCorrect == Spec => []TypeOK
<1>1. ConsoleInv => TypeOK
  <2> SUFFICES ASSUME ConsoleInv
               PROVE  TypeOK
    OBVIOUS
  <2>1. Cardinality(pushing) <= 1 /\ pushing \subseteq forwarded
    <3>1. CASE pushing = {}
      BY <3>1, FS_EmptySet
    <3>2. ASSUME NEW m \in forwarded, pushing = {m}
          PROVE  Cardinality(pushing) <= 1 /\ pushing \subseteq forwarded
      BY <3>2, FS_Singleton
    <3>3. QED
      BY <3>1, <3>2 DEF ConsoleInv, QueueInv
  <2>2. \A p \in Polls : polls[p].at \in {"idle", "waiting", "answered"}
    BY DEF ConsoleInv, ShapeInv, PollRecord
  <2>3. faults <= MaxFaults
    BY SelfConsoleAssumption DEF ConsoleInv, ShapeInv
  <2>4. QED
    BY <2>1, <2>2, <2>3 DEF ConsoleInv, ShapeInv, QueueInv, AnswerInv, TypeOK
<1>2. QED
  BY <1>1, ConsoleInvariant, PTL

(* handleSelfMessage and pendingForAgent: what the operator sent to the    *)
(* agent is somewhere, unless a caller or an unwritten file lost it.       *)
THEOREM NothingIsForgotten == Spec => []NothingForgotten
<1>1. ConsoleInv => NothingForgotten
  BY DEF ConsoleInv
<1>2. QED
  BY <1>1, ConsoleInvariant, PTL

(* drain: no message is handed to two polls.                               *)
THEOREM MessagesArePolledOnce == Spec => []PolledOnce
<1>1. ConsoleInv => PolledOnce
  <2> SUFFICES ASSUME ConsoleInv, ~spoiled, NEW m \in Messages
               PROVE  polled[m] + Cardinality({p \in Polls : m \in Range(polls[p].items)}) <= 1
    BY DEF PolledOnce
  <2> DEFINE carriers == {p \in Polls : m \in Range(polls[p].items)}
  <2>1. polled[m] \in Nat /\ polled[m] <= 1
    BY DEF ConsoleInv, ShapeInv, PlaceInv
  <2>2. CASE carriers = {}
    <3>1. Cardinality(carriers) = 0
      BY <2>2, FS_EmptySet
    <3>2. QED
      BY <2>1, <3>1
  <2>3. ASSUME NEW p \in carriers
        PROVE  polled[m] + Cardinality(carriers) <= 1
    <3>1. polled[m] = 0 /\ carriers = {p}
      BY <2>3 DEF ConsoleInv, PlaceInv, Carries
    <3>2. Cardinality(carriers) = 1
      BY <3>1, FS_Singleton
    <3>3. QED
      BY <3>1, <3>2
  <2>4. QED
    BY <2>2, <2>3
<1>2. QED
  BY <1>1, ConsoleInvariant, PTL

(* handleSelfMessage: a push seen to land is in neither queue nor file.    *)
THEOREM LandedIsNotQueued == Spec => []ConfirmedIsNotQueued
<1>1. ConsoleInv => ConfirmedIsNotQueued
  BY DEF ConsoleInv, ConfirmedInv, FileInv, ConfirmedIsNotQueued
<1>2. QED
  BY <1>1, ConsoleInvariant, PTL

(* isOwnReply: the console never answers itself.                           *)
THEOREM ConsoleIsQuiet == Spec => []NeverAnswersItself
<1>1. ConsoleInv => NeverAnswersItself
  BY DEF ConsoleInv, QuietInv
<1>2. QED
  BY <1>1, ConsoleInvariant, PTL
=============================================================================
