------------------------- MODULE ConsoleChannelProofs -------------------------
(***************************************************************************)
(* The console channel's safety properties for every set of requests,      *)
(* every size of the delivery guard and any number of redeliveries.  None  *)
(* is inductive alone.  That a request is sent at most twice rests on      *)
(* LinearInv: the right to be retried once, which a push leaves behind, is *)
(* at every moment in one place only, whichever turn it was bound to.      *)
(***************************************************************************)
EXTENDS ConsoleChannel, SequenceTheorems, TLAPS

(* No session carries a number that was not given out yet.                 *)
AddressInv == session.address <= rotations

(* Only a call that has sent owns a turn, and it owns one.                 *)
OnceInv ==
  /\ \A n \in DOMAIN turns : stage[turns[n].call] \in {"sending", "sent"}
  /\ SentAtMostTwice

(* The places the right to retry r may be in: not given yet, waiting for a *)
(* turn, bound to one, owed by a delivery, or used.                        *)
Unsent(r) == stage[<<r, "push">>] # "sent"
Waits(r) == lastPushed = Token(r, FALSE)
Bound(r, n) == pendingRequests[n] = Token(r, FALSE)
Owed(r, job) == job.retry = r
Retried(r) == stage[<<r, "retry">>] # "new"

LinearInv ==
  \A r \in Requests :
    /\ Waits(r) => ~Unsent(r)
    /\ \A n \in TurnIds : Bound(r, n) =>
         ~Unsent(r) /\ ~Waits(r) /\ \A k \in TurnIds : Bound(r, k) => k = n
    /\ \A job \in jobs : Owed(r, job) =>
         /\ ~Unsent(r) /\ ~Waits(r)
         /\ \A n \in TurnIds : ~Bound(r, n)
         /\ \A other \in jobs : Owed(r, other) => other = job
    /\ Retried(r) =>
         /\ ~Unsent(r) /\ ~Waits(r)
         /\ \A n \in TurnIds : ~Bound(r, n)
         /\ \A job \in jobs : ~Owed(r, job)

(* The guard holds the last GuardCapacity claims.                          *)
GuardInv ==
  /\ Len(seen) = IF Len(claims) < GuardCapacity THEN Len(claims) ELSE GuardCapacity
  /\ \A i \in 1..Len(seen) : seen[i] = claims[Len(claims) - Len(seen) + i]
  /\ ClaimsAreSpaced

(* Something came of a turn once claimed, or its delivery is under way.    *)
Spoken(n) == outcome[n] # "none" \/ \E job \in jobs : job.turn = n

SpokenInv ==
  /\ begun \subseteq TurnIds
  /\ \A i \in DOMAIN seen : Spoken(seen[i])
  /\ \A n \in begun : running[n] > 0 \/ Spoken(n)

ChannelInv == TypeOK /\ AddressInv /\ OnceInv /\ LinearInv /\ GuardInv /\ SpokenInv

-----------------------------------------------------------------------------
(* The calls of a request are two, and its tokens are not None.            *)
LEMMA CallsOf ==
  \A r \in Requests : <<r, "push">> \in Calls /\ <<r, "retry">> \in Calls
BY DEF Calls

LEMMA TokenTyped ==
  ASSUME NEW r \in Requests, NEW retried \in BOOLEAN
  PROVE  Token(r, retried) \in Tokens
BY DEF Token, Tokens

LEMMA TokenIsSome ==
  \A r \in Requests : Token(r, FALSE) # None
<1>1. \A r \in Requests : Token(r, FALSE) \in [req : Requests, retried : BOOLEAN]
  BY DEF Token
<1>2. QED
  BY <1>1, ChannelAssumption

LEMMA ChannelInitInv == Init => ChannelInv
<1> SUFFICES ASSUME Init
             PROVE  ChannelInv
  OBVIOUS
<1>1. session \in [address : Nat, turns : Nat, warmed : BOOLEAN]
  BY DEF Init
<1>2. turns \in Seq([address : Nat, call : Calls])
      /\ seen \in Seq(TurnIds) /\ claims \in Seq(TurnIds)
  BY DEF Init
<1>3. /\ stage \in [Calls -> Stages] /\ running \in [TurnIds -> Nat]
      /\ pendingRequests \in [TurnIds -> Tokens \cup {None}]
      /\ pendingReplies \in [TurnIds -> BOOLEAN] /\ outcome \in [TurnIds -> Outcomes]
  BY DEF Init, Stages, Outcomes
<1>4. redeliveries \in 0..MaxRedeliveries
  BY ChannelAssumption DEF Init
<1>5. TypeOK
  BY <1>1, <1>2, <1>3, <1>4 DEF Init, TypeOK
<1>6. AddressInv /\ OnceInv
  BY DEF Init, AddressInv, OnceInv, SentAtMostTwice
<1>7. LinearInv
  BY CallsOf, TokenIsSome DEF Init, LinearInv, Unsent, Waits, Bound, Owed, Retried
<1>8. GuardInv /\ SpokenInv
  BY ChannelAssumption DEF Init, GuardInv, ClaimsAreSpaced, SpokenInv
<1>9. QED
  BY <1>5, <1>6, <1>7, <1>8 DEF ChannelInv

SessionRecord == [address : Nat, turns : Nat, warmed : BOOLEAN]
TurnRecord == [address : Nat, call : Calls]

(* Choosing a session: the number is new, or the session stays.            *)
LEMMA Fresh ==
  ASSUME session \in SessionRecord, rotations \in Nat, AddressInv, freshSession
  PROVE  /\ session' \in SessionRecord /\ rotations' \in Nat /\ compactionSeen' \in BOOLEAN
         /\ AddressInv'
         /\ session'.address >= session.address
<1>1. session' \in SessionRecord
  BY DEF freshSession, SessionRecord
<1>2. AddressInv' /\ session'.address >= session.address
  BY DEF freshSession, SessionRecord, AddressInv
<1>3. rotations' \in Nat
  BY DEF freshSession
<1>4. compactionSeen' \in BOOLEAN
  BY Zenon DEF freshSession
<1>5. QED
  BY <1>1, <1>2, <1>3, <1>4

LEMMA ChooseSession ==
  ASSUME TypeOK, AddressInv, NEW idle \in BOOLEAN, nextConsoleSession(idle)
  PROVE  /\ session' \in SessionRecord /\ rotations' \in Nat /\ compactionSeen' \in BOOLEAN
         /\ AddressInv'
         /\ session'.address >= session.address
<1>1. session \in SessionRecord /\ rotations \in Nat /\ compactionSeen \in BOOLEAN
  BY DEF TypeOK, SessionRecord
<1>2. CASE MustRotate(idle)
  BY <1>1, <1>2, Fresh DEF nextConsoleSession
<1>3. CASE ~MustRotate(idle)
  <2>1. session' = [session EXCEPT !.turns = session.turns + 1] /\ UNCHANGED <<rotations, compactionSeen>>
    BY <1>3 DEF nextConsoleSession
  <2>2. session' \in SessionRecord /\ session'.address = session.address
    BY <1>1, <2>1 DEF SessionRecord
  <2>3. QED
    BY <1>1, <2>1, <2>2 DEF AddressInv, SessionRecord
<1>4. QED
  BY <1>2, <1>3

LEMMA TurnsTyped ==
  ASSUME turns \in Seq(TurnRecord)
  PROVE  \A n \in DOMAIN turns : turns[n] \in TurnRecord /\ turns[n].call \in Calls
<1>1. \A n \in DOMAIN turns : turns[n] \in TurnRecord
  BY ElementOfSeq, LenProperties
<1>2. \A t \in TurnRecord : t.call \in Calls
  BY DEF TurnRecord
<1>3. QED
  BY <1>1, <1>2

(* A call that had not sent appends its turn.                              *)
LEMMA CallSends ==
  ASSUME turns \in Seq(TurnRecord), OnceInv,
         NEW c \in Calls, stage[c] \notin {"sending", "sent"},
         NEW address \in Nat,
         turns' = Append(turns, Turn(address, c)),
         stage'[c] = "sending", \A d \in Calls \ {c} : stage'[d] = stage[d]
  PROVE  turns' \in Seq(TurnRecord) /\ DOMAIN turns \subseteq DOMAIN turns' /\ OnceInv'
<1>1. Turn(address, c) \in TurnRecord /\ Turn(address, c).call = c
  BY DEF Turn, TurnRecord
<1>2. /\ turns' \in Seq(TurnRecord)
      /\ Len(turns') = Len(turns) + 1 /\ Len(turns) \in Nat
      /\ DOMAIN turns' = 1..(Len(turns) + 1) /\ DOMAIN turns = 1..Len(turns)
      /\ \A n \in DOMAIN turns : turns'[n] = turns[n]
      /\ turns'[Len(turns) + 1] = Turn(address, c)
  BY <1>1, AppendProperties
<1>3. \A n \in DOMAIN turns : turns[n].call # c /\ turns[n].call \in Calls
  <2>1. \A n \in DOMAIN turns : turns[n].call \in Calls
    BY TurnsTyped
  <2>2. \A n \in DOMAIN turns : turns[n].call # c
    BY Zenon DEF OnceInv
  <2>3. QED
    BY <2>1, <2>2
<1>4. \A n \in DOMAIN turns' : stage'[turns'[n].call] \in {"sending", "sent"}
  BY <1>1, <1>2, <1>3 DEF OnceInv
<1>5. \A i, j \in DOMAIN turns' : turns'[i].call = turns'[j].call => i = j
  BY <1>1, <1>2, <1>3 DEF OnceInv, SentAtMostTwice
<1>6. QED
  BY <1>2, <1>4, <1>5 DEF OnceInv, SentAtMostTwice

LEMMA PushStep ==
  ASSUME ChannelInv, NEW r \in Requests, NEW idle \in BOOLEAN, Push(r, idle)
  PROVE  ChannelInv' /\ session'.address >= session.address
<1> DEFINE c == <<r, "push">>
<1>1. c \in Calls /\ stage[c] = "new"
  BY DEF Push, Calls
<1>2. /\ session' \in SessionRecord /\ rotations' \in Nat /\ compactionSeen' \in BOOLEAN
      /\ AddressInv'
      /\ session'.address >= session.address
  BY ChooseSession DEF ChannelInv, Push
<1>3. stage' \in [Calls -> Stages] /\ stage'[c] \in {"sending", "composing"}
      /\ \A d \in Calls \ {c} : stage'[d] = stage[d]
  BY <1>1 DEF Push, ChannelInv, TypeOK, Stages
<1>4. \/ turns' = turns
      \/ /\ turns' = Append(turns, Turn(session'.address, c))
         /\ stage'[c] = "sending"
  BY <1>1 DEF Push, ChannelInv, TypeOK
<1>5. turns' \in Seq(TurnRecord) /\ DOMAIN turns \subseteq DOMAIN turns' /\ OnceInv'
  <2>1. turns \in Seq(TurnRecord) /\ session'.address \in Nat
    BY <1>2 DEF ChannelInv, TypeOK, TurnRecord, SessionRecord
  <2>2. CASE turns' = turns
    <3>1. \A n \in DOMAIN turns : turns[n].call # c /\ turns[n].call \in Calls
        <4>1. \A n \in DOMAIN turns : turns[n].call \in Calls
        BY <2>1, TurnsTyped
      <4>2. \A n \in DOMAIN turns : stage[turns[n].call] \in {"sending", "sent"}
        BY DEF ChannelInv, OnceInv
      <4>3. QED
        BY <4>1, <4>2, <1>1
    <3>2. QED
      BY <2>1, <2>2, <3>1, <1>3 DEF ChannelInv, OnceInv, SentAtMostTwice
  <2>3. CASE turns' = Append(turns, Turn(session'.address, c)) /\ stage'[c] = "sending"
    BY <2>1, <2>3, <1>1, <1>3, CallSends DEF ChannelInv
  <2>4. QED
    BY <1>4, <2>2, <2>3
<1>6. TypeOK'
  BY <1>2, <1>3, <1>5 DEF Push, ChannelInv, TypeOK, TurnRecord, SessionRecord, endVars
<1>7. LinearInv'
  <2>1. UNCHANGED <<lastPushed, pendingRequests, jobs>>
    BY DEF Push, endVars
  <2>2. \A q \in Requests : (Retried(q))' = Retried(q) /\ ((Unsent(q))' = Unsent(q))
    BY <1>1, <1>3, CallsOf DEF Retried, Unsent
  <2>3. QED
    BY <2>1, <2>2 DEF ChannelInv, LinearInv, Waits, Bound, Owed
<1>8. GuardInv' /\ SpokenInv'
  BY DEF Push, endVars, ChannelInv, GuardInv, ClaimsAreSpaced, SpokenInv, Spoken
<1>9. QED
  BY <1>2, <1>5, <1>6, <1>7, <1>8 DEF ChannelInv

LEMMA SendStep ==
  ASSUME ChannelInv, NEW c \in Calls, Send(c)
  PROVE  ChannelInv'
<1>1. turns \in Seq(TurnRecord) /\ session.address \in Nat
  BY DEF ChannelInv, TypeOK, TurnRecord
<1>2. stage' \in [Calls -> Stages] /\ stage'[c] = "sending" /\ stage[c] = "composing"
      /\ \A d \in Calls \ {c} : stage'[d] = stage[d]
  BY DEF Send, ChannelInv, TypeOK, Stages
<1>3. turns' \in Seq(TurnRecord) /\ DOMAIN turns \subseteq DOMAIN turns' /\ OnceInv'
  <2>1. turns' = Append(turns, Turn(session.address, c))
    BY DEF Send
  <2>2. QED
    BY <1>1, <1>2, <2>1, CallSends DEF ChannelInv
<1>4. TypeOK'
  BY <1>2, <1>3 DEF Send, sessionVars, endVars, ChannelInv, TypeOK, TurnRecord
<1>5. LinearInv'
  <2>1. UNCHANGED <<lastPushed, pendingRequests, jobs>>
    BY DEF Send, endVars
  <2>2. \A r \in Requests : (Retried(r))' = Retried(r) /\ ((Unsent(r))' = Unsent(r))
    BY <1>2, CallsOf DEF Retried, Unsent
  <2>3. QED
    BY <2>1, <2>2 DEF ChannelInv, LinearInv, Waits, Bound, Owed
<1>6. AddressInv' /\ GuardInv' /\ SpokenInv'
  BY DEF Send, sessionVars, endVars, ChannelInv, AddressInv, GuardInv, ClaimsAreSpaced, SpokenInv,
     Spoken
<1>7. QED
  BY <1>3, <1>4, <1>5, <1>6 DEF ChannelInv

(* A push that has been sent leaves the right to retry; a retry that has   *)
(* been sent leaves none.                                                  *)
LEMMA SentStep ==
  ASSUME ChannelInv, NEW c \in Calls, Sent(c)
  PROVE  ChannelInv'
<1>1. c[1] \in Requests /\ c[2] \in {"push", "retry"} /\ c = <<c[1], c[2]>>
  BY DEF Calls
<1>2. stage' \in [Calls -> Stages] /\ stage'[c] = "sent" /\ stage[c] = "sending"
      /\ \A d \in Calls \ {c} : stage'[d] = stage[d]
  BY DEF Sent, ChannelInv, TypeOK, Stages
<1>3. session' \in SessionRecord /\ session'.address = session.address
  BY DEF Sent, ChannelInv, TypeOK, SessionRecord
<1>4. lastPushed' \in Tokens
  BY <1>1, TokenTyped DEF Sent
<1>5. TypeOK'
  BY <1>2, <1>3, <1>4 DEF Sent, runtimeVars, endVars, ChannelInv, TypeOK, SessionRecord
<1>6. OnceInv'
  <2>1. turns' = turns /\ \A n \in DOMAIN turns : turns[n].call \in Calls
    BY TurnsTyped DEF Sent, runtimeVars, ChannelInv, TypeOK, TurnRecord
  <2>2. QED
    BY <1>2, <2>1 DEF ChannelInv, OnceInv, SentAtMostTwice
<1>7. LinearInv'
  <2>1. UNCHANGED <<pendingRequests, jobs>>
    BY DEF Sent, endVars
  <2>2. \A r \in Requests : (Retried(r))' = Retried(r)
    BY <1>2, CallsOf DEF Retried
  <2>3. \A r \in Requests : (Unsent(r))' => Unsent(r)
    BY <1>2, CallsOf DEF Unsent
  <2>4. \A r \in Requests : (Waits(r))' => c = <<r, "push">>
    BY <1>1 DEF Waits, Sent, Token
  <2>5. \A r \in Requests : (Waits(r))' => Unsent(r) /\ ~(Unsent(r))'
    BY <1>2, <2>4 DEF Unsent
  <2>6. QED
    BY <2>1, <2>2, <2>3, <2>5 DEF ChannelInv, LinearInv, Bound, Owed
<1>8. AddressInv' /\ GuardInv' /\ SpokenInv'
  BY <1>3 DEF Sent, runtimeVars, endVars, ChannelInv, AddressInv, GuardInv, ClaimsAreSpaced,
     SpokenInv, Spoken
<1>9. QED
  BY <1>5, <1>6, <1>7, <1>8 DEF ChannelInv

-----------------------------------------------------------------------------
(* The start of a turn moves the right that was waiting to the turn, and   *)
(* what the turn had before is lost.                                       *)
LEMMA BindStep ==
  ASSUME ChannelInv, NEW n \in TurnIds, Bind(n)
  PROVE  /\ OnceInv' /\ LinearInv' /\ AddressInv' /\ GuardInv'
         /\ running' \in [TurnIds -> Nat] /\ running'[n] > 0
         /\ \A k \in TurnIds : running[k] > 0 => running'[k] > 0
         /\ lastPushed' \in Tokens \cup {None}
         /\ pendingRequests' \in [TurnIds -> Tokens \cup {None}]
<1>1. lastPushed' = None /\ pendingRequests' \in [TurnIds -> Tokens \cup {None}]
      /\ \A k \in TurnIds : \/ pendingRequests'[k] = pendingRequests[k]
                            \/ k = n /\ pendingRequests'[k] = lastPushed
  BY DEF Bind, ChannelInv, TypeOK
<1>2. /\ running' \in [TurnIds -> Nat] /\ running'[n] > 0
      /\ \A k \in TurnIds : running[k] > 0 => running'[k] > 0
  BY DEF Bind, ChannelInv, TypeOK
<1>3. LinearInv'
  <2>1. UNCHANGED <<stage, jobs>>
    BY DEF Bind
  <2>2. \A r \in Requests : ~(Waits(r))'
    BY <1>1, TokenIsSome DEF Waits
  <2>3. \A r \in Requests, k \in TurnIds :
          (Bound(r, k))' => Bound(r, k) \/ (k = n /\ Waits(r))
    BY <1>1 DEF Bound, Waits
  <2>4. \A r \in Requests : Unsent(r)' = Unsent(r) /\ Retried(r)' = Retried(r)
    BY <2>1 DEF Unsent, Retried
  <2> SUFFICES ASSUME NEW r \in Requests
               PROVE  /\ \A k \in TurnIds : Bound(r, k)' =>
                           ~Unsent(r) /\ \A i \in TurnIds : Bound(r, i)' => i = k
                      /\ \A job \in jobs : Owed(r, job) =>
                           /\ ~Unsent(r)
                           /\ \A k \in TurnIds : ~Bound(r, k)'
                           /\ \A other \in jobs : Owed(r, other) => other = job
                      /\ Retried(r) => /\ ~Unsent(r)
                                       /\ \A k \in TurnIds : ~Bound(r, k)'
                                       /\ \A job \in jobs : ~Owed(r, job)
    BY <2>1, <2>2, <2>4 DEF LinearInv, Owed
  <2>5. QED
    BY <2>3 DEF ChannelInv, LinearInv
<1>4. OnceInv' /\ AddressInv' /\ GuardInv'
  BY DEF Bind, sessionVars, ChannelInv, OnceInv, SentAtMostTwice, AddressInv, GuardInv, ClaimsAreSpaced
<1>5. QED
  BY <1>1, <1>2, <1>3, <1>4

LEMMA StartStep ==
  ASSUME ChannelInv, NEW n \in TurnIds, TurnStarted(n) \/ TurnRedelivered(n)
  PROVE  ChannelInv'
<1>1. Bind(n)
  BY DEF TurnStarted, TurnRedelivered
<1>2. begun' \subseteq DOMAIN turns' /\ begun' \subseteq begun \cup {n}
  BY DEF TurnStarted, TurnRedelivered, Bind, ChannelInv, TypeOK
<1>3. redeliveries' \in 0..MaxRedeliveries
  BY ChannelAssumption, SMTT(30) DEF TurnStarted, TurnRedelivered, ChannelInv, TypeOK
<1>4. TypeOK'
  BY <1>1, <1>2, <1>3, BindStep DEF Bind, sessionVars, ChannelInv, TypeOK
<1>5. SpokenInv'
  BY <1>1, <1>2, BindStep DEF Bind, ChannelInv, SpokenInv, Spoken
<1>6. QED
  BY <1>1, <1>4, <1>5, BindStep DEF ChannelInv

LEMMA CompactionStep ==
  ASSUME ChannelInv, CompactionRequested
  PROVE  ChannelInv'
<1>1. TypeOK'
  BY DEF CompactionRequested, runtimeVars, endVars, ChannelInv, TypeOK
<1>2. LinearInv'
  BY DEF CompactionRequested, endVars, ChannelInv, LinearInv, Unsent, Waits, Bound, Owed, Retried
<1>3. OnceInv' /\ AddressInv' /\ GuardInv' /\ SpokenInv'
  BY DEF CompactionRequested, runtimeVars, endVars, ChannelInv, OnceInv, SentAtMostTwice, AddressInv,
     GuardInv, ClaimsAreSpaced, SpokenInv, Spoken
<1>4. QED
  BY <1>1, <1>2, <1>3 DEF ChannelInv

LEMMA MessageStep ==
  ASSUME ChannelInv, NEW n \in TurnIds, MessageCompleted(n)
  PROVE  ChannelInv'
<1>1. TypeOK'
  BY DEF MessageCompleted, sessionVars, runtimeVars, ChannelInv, TypeOK
<1>2. LinearInv'
  BY DEF MessageCompleted, ChannelInv, LinearInv, Unsent, Waits, Bound, Owed, Retried
<1>3. OnceInv' /\ AddressInv' /\ GuardInv' /\ SpokenInv'
  BY DEF MessageCompleted, sessionVars, runtimeVars, ChannelInv, OnceInv, SentAtMostTwice, AddressInv,
     GuardInv, ClaimsAreSpaced, SpokenInv, Spoken
<1>4. QED
  BY <1>1, <1>2, <1>3 DEF ChannelInv

-----------------------------------------------------------------------------
(* A claim shifts the guard's window by one.                               *)
LEMMA ClaimStep ==
  ASSUME seen \in Seq(TurnIds), claims \in Seq(TurnIds), GuardInv,
         NEW n \in TurnIds, ~Claimed(n), Claim(n)
  PROVE  /\ seen' \in Seq(TurnIds) /\ claims' \in Seq(TurnIds) /\ GuardInv'
         /\ \A i \in DOMAIN seen' : seen'[i] = n \/ \E j \in DOMAIN seen : seen'[i] = seen[j]
<1> DEFINE keys == Append(seen, n)
<1> USE ChannelAssumption
<1>1. /\ claims' \in Seq(TurnIds) /\ Len(claims') = Len(claims) + 1
      /\ Len(claims) \in Nat /\ claims'[Len(claims) + 1] = n
      /\ \A i \in 1..Len(claims) : claims'[i] = claims[i]
      /\ DOMAIN claims' = 1..(Len(claims) + 1)
  BY AppendProperties DEF Claim
<1>2. /\ keys \in Seq(TurnIds) /\ Len(keys) = Len(seen) + 1
      /\ Len(seen) \in Nat /\ keys[Len(seen) + 1] = n
      /\ \A i \in 1..Len(seen) : keys[i] = seen[i]
      /\ DOMAIN seen = 1..Len(seen)
  BY AppendProperties
<1>3. ClaimsAreSpaced'
  <2>1. \A i \in 1..Len(claims) : claims[i] = n => i <= Len(claims) - Len(seen)
    <3> SUFFICES ASSUME NEW i \in 1..Len(claims), claims[i] = n, i > Len(claims) - Len(seen)
                 PROVE  FALSE
      BY <1>1, <1>2
    <3> DEFINE j == i - (Len(claims) - Len(seen))
    <3>1. j \in 1..Len(seen) /\ Len(claims) - Len(seen) + j = i
      BY <1>1, <1>2
    <3>2. seen[j] = n
      BY <3>1 DEF GuardInv
    <3>3. QED
      BY <1>2, <3>1, <3>2 DEF Claimed
  <2>2. \A i \in 1..Len(claims) : claims[i] = n => Len(claims) + 1 - i > GuardCapacity
    BY <1>1, <1>2, <2>1 DEF GuardInv
  <2>3. DOMAIN claims = 1..Len(claims)
    BY LenProperties
  <2>4. QED
    BY <1>1, <2>2, <2>3 DEF GuardInv, ClaimsAreSpaced
<1>4. CASE Len(keys) > GuardCapacity
  <2>1. seen' = Tail(keys)
    BY <1>4 DEF Claim
  <2>2. keys # << >>
    BY <1>2
  <2>3. /\ seen' \in Seq(TurnIds) /\ Len(seen') = Len(seen)
        /\ \A i \in 1..Len(seen) : seen'[i] = keys[i + 1]
        /\ DOMAIN seen' = 1..Len(seen)
    BY <1>2, <2>1, <2>2, HeadTailProperties
  <2>4. Len(seen) = GuardCapacity /\ Len(claims) >= GuardCapacity
    BY <1>1, <1>2, <1>4 DEF GuardInv
  <2>5. \A i \in 1..Len(seen) : seen'[i] = claims'[Len(claims) + 1 - Len(seen) + i]
    <3>1. TAKE i \in 1..Len(seen)
    <3>2. CASE i = Len(seen)
      BY <1>1, <1>2, <2>3, <2>4, <3>2
    <3>3. CASE i < Len(seen)
      <4>1. seen'[i] = seen[i + 1] /\ i + 1 \in 1..Len(seen)
        BY <1>2, <2>3, <3>3
      <4>2. seen[i + 1] = claims[Len(claims) - Len(seen) + (i + 1)]
        BY <4>1 DEF GuardInv
      <4>3. QED
        BY <1>1, <1>2, <2>4, <3>3, <4>1, <4>2, SMTT(30)
    <3>4. QED
      BY <1>2, <3>2, <3>3
  <2>6. \A i \in 1..Len(seen) : seen'[i] = n \/ \E j \in 1..Len(seen) : seen'[i] = seen[j]
    <3>1. \A i \in 1..Len(seen) : i = Len(seen) \/ i + 1 \in 1..Len(seen)
      BY <1>2
    <3>2. QED
      BY <1>2, <2>3, <3>1
  <2>7. GuardInv'
    <3>1. Len(seen') = IF Len(claims') < GuardCapacity THEN Len(claims') ELSE GuardCapacity
      BY <1>1, <2>3, <2>4
    <3>2. \A i \in 1..Len(seen') : seen'[i] = claims'[Len(claims') - Len(seen') + i]
      BY <1>1, <2>3, <2>5
    <3>3. QED
      BY <1>3, <3>1, <3>2 DEF GuardInv
  <2>8. QED
    BY <1>1, <1>2, <2>3, <2>6, <2>7
<1>5. CASE ~(Len(keys) > GuardCapacity)
  <2>1. seen' = keys /\ Len(seen) = Len(claims)
    BY <1>1, <1>2, <1>5 DEF Claim, GuardInv
  <2>2. \A i \in 1..Len(keys) : keys[i] = claims'[i]
    BY <1>1, <1>2, <2>1 DEF GuardInv
  <2>3. GuardInv'
    BY <1>1, <1>2, <1>3, <1>5, <2>1, <2>2 DEF GuardInv
  <2>4. \A i \in DOMAIN seen' : seen'[i] = n \/ \E j \in DOMAIN seen : seen'[i] = seen[j]
    BY <1>2, <2>1
  <2>5. QED
    BY <1>1, <1>2, <2>1, <2>3, <2>4
<1>6. QED
  BY <1>4, <1>5

(* A turn that may be retried holds its request's right.                   *)
LEMMA RetryableBound ==
  ASSUME TypeOK, NEW n \in TurnIds, Retryable(n)
  PROVE  pendingRequests[n].req \in Requests /\ Bound(pendingRequests[n].req, n)
<1>1. pendingRequests[n] \in Tokens /\ ~pendingRequests[n].retried
  BY DEF TypeOK, Retryable
<1>2. \A token \in Tokens : token.req \in Requests
        /\ (~token.retried => token = Token(token.req, FALSE))
  BY DEF Tokens, Token
<1>3. QED
  BY <1>1, <1>2 DEF Bound

(* Something has come of a turn ever after.                                *)
LEMMA CameOfStep ==
  ASSUME outcome \in [TurnIds -> Outcomes], NEW n \in TurnIds, NEW what \in Outcomes \ {"none"},
         CameOf(n, what)
  PROVE  /\ outcome' \in [TurnIds -> Outcomes] /\ outcome'[n] # "none"
         /\ \A k \in TurnIds : outcome[k] # "none" => outcome'[k] # "none"
BY DEF CameOf, Outcomes

(* The first end of a turn takes the right bound to it, and hands it to    *)
(* the delivery or drops it.                                               *)
LEMMA EndStep ==
  ASSUME ChannelInv, NEW n \in TurnIds, EndClaimed(n),
         UNCHANGED <<session, rotations>>, compactionSeen' \in BOOLEAN,
         NEW retry \in {None} \cup {r \in Requests : Bound(r, n)},
         \/ jobs' = jobs \cup {[turn |-> n, retry |-> retry]} /\ outcome' = outcome
         \/ jobs' = jobs /\ (CameOf(n, "heard") \/ CameOf(n, "trusted"))
  PROVE  ChannelInv'
<1> DEFINE job == [turn |-> n, retry |-> retry]
<1>1. seen \in Seq(TurnIds) /\ claims \in Seq(TurnIds)
  BY DEF ChannelInv, TypeOK
<1>2. /\ seen' \in Seq(TurnIds) /\ claims' \in Seq(TurnIds) /\ GuardInv'
      /\ \A i \in DOMAIN seen' : seen'[i] = n \/ \E j \in DOMAIN seen : seen'[i] = seen[j]
  BY <1>1, ClaimStep DEF EndClaimed, ChannelInv
<1>3. UNCHANGED <<lastPushed, stage, turns, begun, redeliveries>>
  BY DEF EndClaimed
<1>4. /\ running' \in [TurnIds -> Nat] /\ pendingReplies' \in [TurnIds -> BOOLEAN]
      /\ \A k \in TurnIds \ {n} : running'[k] = running[k]
  BY DEF EndClaimed, ChannelInv, TypeOK
<1>5. /\ pendingRequests' \in [TurnIds -> Tokens \cup {None}] /\ pendingRequests'[n] = None
      /\ \A k \in TurnIds \ {n} : pendingRequests'[k] = pendingRequests[k]
  BY DEF EndClaimed, ChannelInv, TypeOK
<1>12. /\ outcome' \in [TurnIds -> Outcomes]
       /\ \A k \in TurnIds : outcome[k] # "none" => outcome'[k] # "none"
       /\ job \in jobs' \/ outcome'[n] # "none"
  <2>1. outcome \in [TurnIds -> Outcomes]
    BY DEF ChannelInv, TypeOK
  <2>2. "heard" \in Outcomes \ {"none"} /\ "trusted" \in Outcomes \ {"none"}
    BY DEF Outcomes
  <2>3. CASE jobs' = jobs \cup {job} /\ outcome' = outcome
    BY <2>1, <2>3
  <2>4. CASE CameOf(n, "heard")
    BY <2>1, <2>2, <2>4, CameOfStep
  <2>5. CASE CameOf(n, "trusted")
    BY <2>1, <2>2, <2>5, CameOfStep
  <2>6. QED
    BY <2>3, <2>4, <2>5
<1>6. job \in [turn : TurnIds, retry : Requests \cup {None}]
  OBVIOUS
<1>7. TypeOK'
  BY <1>2, <1>3, <1>4, <1>5, <1>6, <1>12 DEF ChannelInv, TypeOK
<1>8. LinearInv'
  <2>1. \A r \in Requests : ~(Bound(r, n))'
    BY <1>5, TokenIsSome DEF Bound
  <2>2. \A r \in Requests, k \in TurnIds : (Bound(r, k))' => Bound(r, k) /\ k # n
    BY <1>5, <2>1 DEF Bound
  <2>3. \A r \in Requests : /\ Unsent(r)' = Unsent(r) /\ Retried(r)' = Retried(r)
                            /\ Waits(r)' = Waits(r)
    BY <1>3 DEF Unsent, Retried, Waits
  <2>4. \A r \in Requests : \A owed \in jobs' :
          Owed(r, owed) => owed \in jobs \/ (owed = job /\ Bound(r, n))
    BY <1>6, ChannelAssumption DEF Owed
  <2> SUFFICES ASSUME NEW r \in Requests
               PROVE  /\ \A k \in TurnIds : Bound(r, k)' =>
                           ~Unsent(r) /\ ~Waits(r) /\ \A i \in TurnIds : Bound(r, i)' => i = k
                      /\ \A owed \in jobs' : Owed(r, owed) =>
                           /\ ~Unsent(r) /\ ~Waits(r)
                           /\ \A k \in TurnIds : ~Bound(r, k)'
                           /\ \A other \in jobs' : Owed(r, other) => other = owed
                      /\ Retried(r) => /\ \A k \in TurnIds : ~Bound(r, k)'
                                       /\ \A owed \in jobs' : ~Owed(r, owed)
    BY <2>3 DEF ChannelInv, LinearInv, Owed
  <2>5. QED
    BY <2>2, <2>4 DEF ChannelInv, LinearInv
<1>9. SpokenInv'
  <2> DEFINE SpokenNow(k) == outcome'[k] # "none" \/ \E j \in jobs' : j.turn = k
  <2>1. \A k \in TurnIds : Spoken(k) => SpokenNow(k)
    BY <1>12 DEF Spoken
  <2>2. SpokenNow(n)
    <3>1. job.turn = n
      OBVIOUS
    <3>2. QED
      BY <1>12, <3>1
  <2>6. (\A i \in DOMAIN seen : seen[i] \in TurnIds) /\ begun \subseteq TurnIds
    BY <1>1, ElementOfSeq, LenProperties DEF ChannelInv, SpokenInv
  <2>3. \A i \in DOMAIN seen' : SpokenNow(seen'[i])
    BY <1>2, <2>1, <2>2, <2>6 DEF ChannelInv, SpokenInv
  <2>4. \A k \in begun : running'[k] > 0 \/ SpokenNow(k)
    BY <1>4, <2>1, <2>2, <2>6 DEF ChannelInv, SpokenInv
  <2>5. QED
    BY <1>3, <2>3, <2>4 DEF ChannelInv, SpokenInv, Spoken
<1>10. OnceInv' /\ AddressInv'
  BY <1>3 DEF ChannelInv, OnceInv, SentAtMostTwice, AddressInv
<1>11. QED
  BY <1>2, <1>7, <1>8, <1>9, <1>10 DEF ChannelInv

LEMMA EndIgnoredStep ==
  ASSUME ChannelInv, NEW n \in TurnIds, EndIgnored(n)
  PROVE  ChannelInv'
<1>1. running' \in [TurnIds -> Nat] /\ \A k \in TurnIds \ {n} : running'[k] = running[k]
  BY DEF EndIgnored, ChannelInv, TypeOK
<1>2. Spoken(n)
  BY DEF EndIgnored, Claimed, ChannelInv, SpokenInv
<1>3. TypeOK'
  BY <1>1 DEF EndIgnored, sessionVars, endVars, ChannelInv, TypeOK
<1>4. LinearInv'
  BY DEF EndIgnored, endVars, ChannelInv, LinearInv, Unsent, Waits, Bound, Owed, Retried
<1>5. SpokenInv'
  BY <1>1, <1>2 DEF EndIgnored, endVars, ChannelInv, SpokenInv, Spoken
<1>6. OnceInv' /\ AddressInv' /\ GuardInv'
  BY DEF EndIgnored, sessionVars, endVars, ChannelInv, OnceInv, SentAtMostTwice, AddressInv,
     GuardInv, ClaimsAreSpaced
<1>7. QED
  BY <1>3, <1>4, <1>5, <1>6 DEF ChannelInv

LEMMA TurnEndsStep ==
  ASSUME ChannelInv, NEW n \in TurnIds, TurnEnds(n)
  PROVE  ChannelInv' /\ session' = session
<1>1. CASE EndIgnored(n)
  BY <1>1, EndIgnoredStep DEF EndIgnored, sessionVars
<1> DEFINE Rights == {None} \cup {r \in Requests : Bound(r, n)}
<1>2. None \in Rights /\ (Retryable(n) => pendingRequests[n].req \in Rights)
  BY RetryableBound DEF ChannelInv
<1>3. compactionSeen \in BOOLEAN
  BY DEF ChannelInv, TypeOK
<1>4. CASE CompletedWithReply(n)
  BY <1>2, <1>3, <1>4, EndStep DEF CompletedWithReply, Deliver, sessionVars
<1>5. ASSUME NEW how \in Silences, CompletedSilently(n, how)
      PROVE  ChannelInv' /\ session' = session
  <2>1. EndClaimed(n) /\ UNCHANGED <<session, rotations>> /\ compactionSeen' \in BOOLEAN
    BY <1>3, <1>5 DEF CompletedSilently, sessionVars
  <2>2. PICK retry \in Rights :
          \/ jobs' = jobs \cup {[turn |-> n, retry |-> retry]} /\ outcome' = outcome
          \/ jobs' = jobs /\ (CameOf(n, "heard") \/ CameOf(n, "trusted"))
    BY <1>2, <1>5 DEF CompletedSilently, Deliver, Silences
  <2>3. QED
    BY <2>1, <2>2, EndStep
<1>6. ASSUME NEW overflow \in BOOLEAN, Failed(n, overflow)
      PROVE  ChannelInv' /\ session' = session
  <2>1. EndClaimed(n) /\ UNCHANGED <<session, rotations>> /\ compactionSeen' \in BOOLEAN
    BY <1>3, <1>6 DEF Failed
  <2>2. PICK retry \in Rights :
          jobs' = jobs \cup {[turn |-> n, retry |-> retry]} /\ outcome' = outcome
    BY <1>2, <1>6 DEF Failed, Deliver
  <2>3. QED
    BY <2>1, <2>2, EndStep
<1>7. QED
  BY <1>1, <1>4, <1>5, <1>6 DEF TurnEnds

(* A delivery that ends uses the right it owes: the retry had not begun.   *)
LEMMA DeliveredStep ==
  ASSUME ChannelInv, NEW job \in jobs, NEW taken \in BOOLEAN, Delivered(job, taken)
  PROVE  ChannelInv' /\ session'.address >= session.address
<1>1. job.turn \in TurnIds /\ job.retry \in Requests \cup {None} /\ jobs' = jobs \ {job}
  BY DEF Delivered, ChannelInv, TypeOK
<1>2. UNCHANGED <<lastPushed, turns, begun, running, redeliveries, pendingRequests,
                  pendingReplies, seen, claims>>
      /\ outcome' \in [TurnIds -> Outcomes] /\ outcome'[job.turn] # "none"
      /\ \A k \in TurnIds : outcome[k] # "none" => outcome'[k] # "none"
  <2>1. outcome \in [TurnIds -> Outcomes]
    BY DEF ChannelInv, TypeOK
  <2>2. PICK what \in Outcomes \ {"none"} : CameOf(job.turn, what)
    BY DEF Delivered, Outcomes
  <2>3. QED
    BY <1>1, <2>1, <2>2, CameOfStep DEF Delivered, runtimeVars
<1>3. session \in SessionRecord /\ rotations \in Nat /\ AddressInv
  BY DEF ChannelInv, TypeOK, SessionRecord
<1>4. /\ session' \in SessionRecord /\ rotations' \in Nat /\ compactionSeen' \in BOOLEAN
      /\ AddressInv' /\ session'.address >= session.address
  <2>1. CASE job.retry = None
    BY <1>3, <2>1 DEF Delivered, sessionVars, AddressInv, SessionRecord, ChannelInv, TypeOK
  <2>2. CASE job.retry # None
    BY <1>3, <2>2, Fresh DEF Delivered
  <2>3. QED
    BY <2>1, <2>2
<1>5. SpokenInv' /\ GuardInv'
  <2>1. (\A i \in DOMAIN seen : seen[i] \in TurnIds) /\ begun \subseteq TurnIds
    BY ElementOfSeq, LenProperties DEF ChannelInv, SpokenInv, TypeOK
  <2>2. \A k \in TurnIds : Spoken(k) => Spoken(k)'
    BY <1>1, <1>2 DEF Spoken
  <2>3. SpokenInv'
    BY <1>2, <2>1, <2>2 DEF ChannelInv, SpokenInv
  <2>4. GuardInv'
    BY <1>2 DEF ChannelInv, GuardInv, ClaimsAreSpaced
  <2>5. QED
    BY <2>3, <2>4
<1>6. CASE job.retry = None
  <2>1. stage' = stage
    BY <1>6 DEF Delivered
  <2>2. TypeOK'
    BY <1>1, <1>2, <1>4, <2>1 DEF ChannelInv, TypeOK, SessionRecord
  <2>3. LinearInv'
    <3>1. \A r \in Requests : /\ Unsent(r)' = Unsent(r) /\ Waits(r)' = Waits(r)
                              /\ Retried(r)' = Retried(r)
      BY <1>2, <2>1 DEF Unsent, Waits, Retried
    <3>2. \A r \in Requests, n \in TurnIds : Bound(r, n)' = Bound(r, n)
      BY <1>2 DEF Bound
    <3>3. jobs' \subseteq jobs
      BY <1>1
    <3>4. QED
      BY <3>1, <3>2, <3>3 DEF ChannelInv, LinearInv, Owed
  <2>4. OnceInv'
    BY <1>2, <2>1 DEF ChannelInv, OnceInv, SentAtMostTwice
  <2>5. QED
    BY <1>4, <1>5, <2>2, <2>3, <2>4 DEF ChannelInv
<1>7. CASE job.retry # None
  <2> DEFINE c == <<job.retry, "retry">>
  <2>1. job.retry \in Requests /\ c \in Calls
    BY <1>1, <1>7, CallsOf
  <2>2. stage[c] = "new" /\ stage \in [Calls -> Stages]
    BY <2>1 DEF ChannelInv, TypeOK, LinearInv, Owed, Retried
  <2>3. stage' \in [Calls -> Stages] /\ \A d \in Calls \ {c} : stage'[d] = stage[d]
    BY <1>7, <2>1, <2>2 DEF Delivered, Stages
  <2>4. TypeOK'
    BY <1>1, <1>2, <1>4, <2>3 DEF ChannelInv, TypeOK, SessionRecord
  <2>5. OnceInv'
    <3>1. \A n \in DOMAIN turns : turns[n].call \in Calls
      BY TurnsTyped DEF ChannelInv, TypeOK, TurnRecord
    <3>2. \A n \in DOMAIN turns : turns[n].call # c
      BY <2>2 DEF ChannelInv, OnceInv
    <3>3. QED
      BY <1>2, <2>3, <3>1, <3>2 DEF ChannelInv, OnceInv, SentAtMostTwice
  <2>6. LinearInv'
    <3>1. \A r \in Requests : Unsent(r)' = Unsent(r) /\ Waits(r)' = Waits(r)
      BY <1>2, <2>3, CallsOf DEF Unsent, Waits
    <3>2. \A r \in Requests : (Retried(r))' => Retried(r) \/ r = job.retry
      BY <2>3, CallsOf DEF Retried
    <3>3. \A r \in Requests, n \in TurnIds : Bound(r, n)' = Bound(r, n)
      BY <1>2 DEF Bound
    <3>4. /\ ~Unsent(job.retry) /\ ~Waits(job.retry) /\ \A n \in TurnIds : ~Bound(job.retry, n)
          /\ \A other \in jobs : Owed(job.retry, other) => other = job
      BY <2>1 DEF ChannelInv, LinearInv, Owed
    <3>5. QED
      BY <1>1, <3>1, <3>2, <3>3, <3>4 DEF ChannelInv, LinearInv, Owed
  <2>7. QED
    BY <1>4, <1>5, <2>4, <2>5, <2>6 DEF ChannelInv
<1>8. QED
  BY <1>4, <1>6, <1>7

-----------------------------------------------------------------------------
LEMMA ChannelNext ==
  ASSUME ChannelInv, [Next]_vars
  PROVE  ChannelInv' /\ session'.address >= session.address
<1>1. session.address \in Nat
  BY DEF ChannelInv, TypeOK
<1>2. CASE UNCHANGED vars
  <2>1. TypeOK'
    BY <1>2 DEF vars, sessionVars, runtimeVars, endVars, ChannelInv, TypeOK
  <2>2. LinearInv'
    BY <1>2 DEF vars, sessionVars, runtimeVars, endVars, ChannelInv, LinearInv, Unsent, Waits, Bound,
       Owed, Retried
  <2>3. OnceInv' /\ AddressInv' /\ GuardInv' /\ SpokenInv'
    BY <1>2 DEF vars, sessionVars, runtimeVars, endVars, ChannelInv, OnceInv, SentAtMostTwice,
       AddressInv, GuardInv, ClaimsAreSpaced, SpokenInv, Spoken
  <2>4. QED
    BY <1>1, <1>2, <2>1, <2>2, <2>3 DEF vars, sessionVars, ChannelInv
<1>3. ASSUME NEW r \in Requests, NEW idle \in BOOLEAN, Push(r, idle)
      PROVE  ChannelInv' /\ session'.address >= session.address
  BY <1>3, PushStep
<1>4. ASSUME NEW c \in Calls, Send(c) \/ Sent(c)
      PROVE  ChannelInv' /\ session'.address >= session.address
  <2>1. ChannelInv'
    BY <1>4, SendStep, SentStep
  <2>2. session'.address = session.address
    BY <1>4 DEF Send, Sent, sessionVars, ChannelInv, TypeOK
  <2>3. QED
    BY <1>1, <2>1, <2>2
<1>5. ASSUME NEW n \in TurnIds, TurnStarted(n) \/ TurnRedelivered(n) \/ MessageCompleted(n)
      PROVE  ChannelInv' /\ session'.address >= session.address
  <2>1. ChannelInv'
    BY <1>5, StartStep, MessageStep
  <2>2. session' = session
    BY <1>5 DEF TurnStarted, TurnRedelivered, Bind, MessageCompleted, sessionVars
  <2>3. QED
    BY <1>1, <2>1, <2>2
<1>6. ASSUME NEW n \in TurnIds, TurnEnds(n)
      PROVE  ChannelInv' /\ session'.address >= session.address
  BY <1>1, <1>6, TurnEndsStep
<1>7. CASE CompactionRequested
  BY <1>1, <1>7, CompactionStep DEF CompactionRequested
<1>8. ASSUME NEW job \in jobs, NEW taken \in BOOLEAN, Delivered(job, taken)
      PROVE  ChannelInv' /\ session'.address >= session.address
  BY <1>8, DeliveredStep
<1>9. QED
  BY <1>2, <1>3, <1>4, <1>5, <1>6, <1>7, <1>8 DEF Next

(* The invariant holds throughout.                                         *)
THEOREM ChannelInvariant == Spec => []ChannelInv
<1>1. QED
  BY ChannelInitInv, ChannelNext, PTL DEF Spec

(* Every variable of the channel keeps its type.                           *)
THEOREM ChannelTypeCorrect == Spec => []TypeOK
<1>1. ChannelInv => TypeOK
  BY DEF ChannelInv
<1>2. QED
  BY <1>1, ChannelInvariant, PTL

(* delivery-guard.ts: whatever is redelivered, a turn is claimed again     *)
(* only after GuardCapacity others were.                                   *)
THEOREM TurnsAreClaimedOnce == Spec => []ClaimsAreSpaced
<1>1. ChannelInv => ClaimsAreSpaced
  BY DEF ChannelInv, GuardInv
<1>2. QED
  BY <1>1, ChannelInvariant, PTL

(* console.ts, retryInFreshSession: a request is sent once as pushed and   *)
(* once as retried, whichever turns it was bound to.                       *)
THEOREM RequestsAreSentAtMostTwice == Spec => []SentAtMostTwice
<1>1. ChannelInv => SentAtMostTwice
  BY DEF ChannelInv, OnceInv
<1>2. QED
  BY <1>1, ChannelInvariant, PTL

(* silent-turn.ts, deliverToWhatsApp: a turn that started ends in silence  *)
(* only where the bridge refused its words or a delivering tool failed,    *)
(* however turns overlap, are executed again and are retried.              *)
THEOREM SilenceIsExplained == Spec => []SilenceHasACause
<1>1. ChannelInv => SilenceHasACause
  BY DEF ChannelInv, SpokenInv, Spoken, SilenceHasACause, UnderWay
<1>2. QED
  BY <1>1, ChannelInvariant, PTL

(* console.ts, freshSession: no overlap of calls brings an address back.   *)
THEOREM RotationsOnlyAdvance == Spec => RotationIsMonotonic
<1>1. ChannelInv /\ [Next]_vars => [session'.address >= session.address]_vars
  BY ChannelNext
<1>2. QED
  BY <1>1, ChannelInvariant, PTL DEF Spec, RotationIsMonotonic
=============================================================================
