----------------------------- MODULE SendsProofs ----------------------------
(***************************************************************************)
(* What a send promises, for every set of requests, contacts, names, every *)
(* allowlist and any number of changes to the roster. The roster a request *)
(* was resolved against goes with it: NamedAt speaks of that one, which no *)
(* later step changes, and Sound carries it and the answer along the       *)
(* request's way.                                                          *)
(*                                                                         *)
(* A note to the user himself arrives whole, for every set of notes and    *)
(* every length: the chain holds what is queued or in flight (ChainInv),   *)
(* only its head sends, and what a note has sent is one run of the chat.   *)
(***************************************************************************)
EXTENDS Sends, SelfNotes, SequenceTheorems, FiniteSetTheorems, TLAPS

Names == NamesUsed \cup {NoName}
ContactStates == [push : Names, full : Names, provisional : BOOLEAN]
RosterStates == [Contacts -> ContactStates]

Pcs == {"parked", "tool", "posted", "resolved", "accepted", "ended"}

RequestRecord ==
  [kind : Kinds \cup {Typed}, to : NamesUsed, read : RosterStates, key : Contacts \cup {NoRequest},
   told : {"nothing", "sent", "not sent", "error"}, pc : Pcs]

SendTypeInv ==
  /\ roster \in RosterStates
  /\ request \in [Requests -> RequestRecord \cup {NoRequest}]
  /\ delivered \subseteq Requests /\ filed \subseteq Requests /\ closed \subseteq Requests

(* The one contact of this roster that bears the name has this key.        *)
NamedAt(to, read, key) ==
  /\ to \in Allowlist /\ key \in Contacts
  /\ {c \in Contacts : to \in Labels(read[c])} = {key}
  /\ ~read[key].provisional

(* What holds of a request that was made, at the place where it is.        *)
Sound(x, gone, inArchive, isClosed) ==
  /\ x.pc \in {"resolved", "accepted"} \/ gone => NamedAt(x.to, x.read, x.key)
  /\ x.pc = "accepted" => gone
  /\ gone => x.key \in Permitted /\ x.pc \in {"accepted", "ended"}
  /\ x.pc # "ended" => x.told = "nothing"
  /\ x.told = "sent" => gone /\ (x.kind \in {"text", Typed} => inArchive)
  /\ inArchive => gone
  /\ isClosed => inArchive /\ x.told = "sent"

SoundAt(r) ==
  IF request[r] = NoRequest
    THEN r \notin delivered \cup filed \cup closed
    ELSE Sound(request[r], r \in delivered, r \in filed, r \in closed)

SendInv == SendTypeInv /\ \A r \in Requests : SoundAt(r)

-----------------------------------------------------------------------------
(* Resolving.                                                              *)

(* What resolving by name and permitting finds is the contact asked for.   *)
LEMMA FoundIsNamed ==
  ASSUME NEW to \in NamesUsed, NEW read \in RosterStates, NEW down \in BOOLEAN,
         Recipient(to, read, down, Allowlist).found
  PROVE  NamedAt(to, read, Recipient(to, read, down, Allowlist).key)
<1> DEFINE resolved == resolveRecipient(to, read, down)
           candidates == Candidates(to, read)
           chosen == CHOOSE c \in candidates : TRUE
           exact == {c \in Contacts : to \in Labels(read[c])}
<1>1. \A why : ~Refused(why).found
  BY DEF Refused
<1>2. /\ resolved.found /\ Recipient(to, read, down, Allowlist) = resolved
      /\ resolved.name \in Allowlist /\ to = resolved.name
  BY <1>1 DEF Recipient, assertSendable, assertResolvedMatches
<1>3. /\ to # NoName /\ candidates # {} /\ ~(Cardinality(candidates) > 1)
      /\ ~read[chosen].provisional
      /\ resolved = [found |-> TRUE, key |-> chosen, name |-> matchedName(read[chosen])]
  BY <1>1, <1>2 DEF resolveRecipient
<1>4. DOMAIN read = Contacts
  BY DEF RosterStates
<1>5. chosen \in candidates /\ candidates \subseteq Contacts
  BY <1>3, <1>4 DEF Candidates
<1>6. to \in Labels(read[chosen])
  BY <1>2, <1>3 DEF matchedName, Labels
<1>7. candidates = exact
  BY <1>4, <1>5, <1>6 DEF Candidates
<1>8. IsFiniteSet(candidates) /\ Cardinality(candidates) \in Nat /\ Cardinality(candidates) # 0
  BY <1>3, <1>5, SendsAssumption, FS_Subset, FS_CardinalityType, FS_EmptySet
<1>9. Cardinality(candidates) = 1
  BY <1>3, <1>8
<1>10. candidates = {chosen}
  BY <1>5, <1>8, <1>9, FS_Singleton
<1>11. QED
  BY <1>2, <1>3, <1>5, <1>7, <1>10 DEF NamedAt

-----------------------------------------------------------------------------
LEMMA SendInitInv == SendInit => SendInv
<1> SUFFICES ASSUME SendInit
             PROVE  SendInv
  OBVIOUS
<1>1. roster \in RosterStates
  BY DEF SendInit, Rosters, RosterStates, ContactStates, Names
<1>2. SendTypeInv
  BY <1>1 DEF SendInit, SendTypeInv
<1>3. QED
  BY <1>2 DEF SendInit, SendInv, SoundAt

(* The roster may change under every request: each has the one it read.    *)
LEMMA RosterStep ==
  ASSUME SendInv, NEW c \in Contacts,
         ContactIsKnown(c) \/ \E n \in NamesUsed : ContactRenames(c, n)
  PROVE  SendInv'
<1>1. UNCHANGED <<request, delivered, filed, closed>>
  BY DEF ContactIsKnown, ContactRenames, sent
<1>2. roster' \in RosterStates
  <2>1. roster \in RosterStates
    BY DEF SendInv, SendTypeInv
  <2>2. CASE ContactIsKnown(c)
    BY <2>1, <2>2 DEF ContactIsKnown, RosterStates, ContactStates
  <2>3. ASSUME NEW n \in NamesUsed, ContactRenames(c, n)
        PROVE  roster' \in RosterStates
    BY <2>1, <2>3 DEF ContactRenames, RosterStates, ContactStates, Names
  <2>4. QED
    BY <2>2, <2>3
<1>3. QED
  BY <1>1, <1>2 DEF SendInv, SendTypeInv, SoundAt

(* A step of one request is sound when the request is sound after it.      *)
LEMMA OneRequest ==
  ASSUME SendInv, NEW r \in Requests, NEW x \in RequestRecord,
         request' = [request EXCEPT ![r] = x], roster' = roster,
         delivered' \in {delivered, delivered \cup {r}}, filed' \in {filed, filed \cup {r}},
         closed' \in {closed, closed \cup {r}},
         Sound(x, r \in delivered', r \in filed', r \in closed')
  PROVE  SendInv'
<1>1. x # NoRequest
  <2>1. x.pc \in Pcs
    BY DEF RequestRecord
  <2>2. QED
    BY <2>1 DEF NoRequest, Pcs
<1>2. SendTypeInv'
  BY DEF SendInv, SendTypeInv
<1>3. request'[r] = x /\ \A q \in Requests \ {r} : request'[q] = request[q]
  BY DEF SendInv, SendTypeInv
<1>4. ASSUME NEW q \in Requests
      PROVE  SoundAt(q)'
  <2>1. CASE q = r
    BY <1>1, <1>3, <2>1 DEF SoundAt
  <2>2. CASE q # r
    <3>1. /\ request'[q] = request[q] /\ (q \in delivered' <=> q \in delivered)
          /\ (q \in filed' <=> q \in filed) /\ (q \in closed' <=> q \in closed)
      BY <1>3, <2>2
    <3>2. SoundAt(q)
      BY DEF SendInv
    <3>3. QED
      BY <3>1, <3>2 DEF SoundAt, Sound
  <2>3. QED
    BY <2>1, <2>2
<1>5. QED
  BY <1>2, <1>4 DEF SendInv

LEMMA Made ==
  ASSUME SendInv, NEW r \in Requests, NEW pc \in Pcs, At(r, pc)
  PROVE  /\ request[r] \in RequestRecord /\ request[r].pc = pc
         /\ Sound(request[r], r \in delivered, r \in filed, r \in closed)
<1>1. NoRequest.pc = "none" /\ "none" \notin Pcs
  BY DEF NoRequest, Pcs
<1>2. request[r] # NoRequest
  BY <1>1 DEF At
<1>3. request[r] \in RequestRecord
  BY <1>2 DEF SendInv, SendTypeInv
<1>4. SoundAt(r)
  BY DEF SendInv
<1>5. QED
  BY <1>2, <1>3, <1>4 DEF At, SoundAt

(* What moving a request leaves as it was.                                 *)
Kept(x, y) ==
  x.kind = y.kind /\ x.to = y.to /\ x.read = y.read /\ x.key = y.key

LEMMA MovesRecord ==
  ASSUME SendInv, NEW r \in Requests, request[r] \in RequestRecord, NEW pc \in Pcs, MovesTo(r, pc)
  PROVE  \E x \in RequestRecord :
           /\ request' = [request EXCEPT ![r] = x]
           /\ Kept(x, request[r])
           /\ x.told = request[r].told /\ x.pc = pc
<1> DEFINE x == [request[r] EXCEPT !.pc = pc]
<1>1. x \in RequestRecord
  BY DEF RequestRecord
<1>2. /\ Kept(x, request[r])
      /\ x.told = request[r].told /\ x.pc = pc
  BY DEF RequestRecord, Kept
<1>3. request' = [request EXCEPT ![r] = x]
  BY DEF MovesTo
<1>4. QED
  BY <1>1, <1>2, <1>3

LEMMA ToldRecord ==
  ASSUME SendInv, NEW r \in Requests, request[r] \in RequestRecord,
         NEW what \in {"sent", "not sent", "error"}, Told(r, what)
  PROVE  \E x \in RequestRecord :
           /\ request' = [request EXCEPT ![r] = x]
           /\ Kept(x, request[r])
           /\ x.told = what /\ x.pc = "ended"
<1> DEFINE x == [request[r] EXCEPT !.pc = "ended", !.told = what]
<1>1. x \in RequestRecord
  BY DEF RequestRecord, Pcs
<1>2. /\ Kept(x, request[r])
      /\ x.told = what /\ x.pc = "ended"
  BY DEF RequestRecord, Kept
<1>3. request' = [request EXCEPT ![r] = x]
  BY DEF Told
<1>4. QED
  BY <1>1, <1>2, <1>3

-----------------------------------------------------------------------------
LEMMA AsksStep ==
  ASSUME SendInv, NEW r \in Requests, NEW kind \in Kinds \cup {Typed}, NEW to \in NamesUsed,
         NEW pc \in {"parked", "tool", "posted"},
         Asks(r, kind, to, pc)
  PROVE  SendInv'
<1> DEFINE x == [kind |-> kind, to |-> to, read |-> roster, key |-> NoRequest, told |-> "nothing", pc |-> pc]
<1>1. x \in RequestRecord
  BY DEF SendInv, SendTypeInv, RequestRecord, Pcs
<1>2. r \notin delivered \cup filed \cup closed
  <2>1. request[r] \in RequestRecord \cup {NoRequest} /\ request[r].pc = "none" /\ SoundAt(r)
    BY DEF SendInv, SendTypeInv, Asks, At
  <2>2. \A y \in RequestRecord : y.pc # "none"
    BY DEF RequestRecord, Pcs
  <2>3. QED
    BY <2>1, <2>2 DEF SoundAt
<1>3. Sound(x, FALSE, FALSE, FALSE)
  BY Zenon DEF Sound
<1>4. /\ request' = [request EXCEPT ![r] = x] /\ roster' = roster
      /\ UNCHANGED <<delivered, filed, closed>>
  BY DEF Asks, sent
<1> HIDE DEF x
<1>5. Sound(x, r \in delivered', r \in filed', r \in closed')
  BY <1>2, <1>3, <1>4 DEF Sound
<1>6. QED
  BY <1>1, <1>4, <1>5, OneRequest

LEMMA ApprovalStep ==
  ASSUME SendInv, NEW r \in Requests, UserApproves(r)
  PROVE  SendInv'
<1> DEFINE x == [request[r] EXCEPT !.pc = "tool"]
<1>1. /\ request[r] \in RequestRecord /\ request[r].pc = "parked"
      /\ Sound(request[r], r \in delivered, r \in filed, r \in closed)
  BY Made DEF UserApproves, Pcs
<1>2. x \in RequestRecord /\ x.pc = "tool" /\ x.told = request[r].told
  BY <1>1 DEF RequestRecord, Pcs
<1>3. /\ request' = [request EXCEPT ![r] = x] /\ roster' = roster
      /\ UNCHANGED <<delivered, filed, closed>>
  BY DEF UserApproves, MovesTo, sent
<1> HIDE DEF x
<1>4. Sound(x, r \in delivered', r \in filed', r \in closed')
  BY <1>1, <1>2, <1>3 DEF Sound
<1>5. QED
  BY <1>2, <1>3, <1>4, OneRequest

(* A call that is turned down before it was sent.                          *)
LEMMA RefusedStep ==
  ASSUME SendInv, NEW r \in Requests, NEW pc \in Pcs \ {"accepted", "ended"}, At(r, pc),
         Told(r, "not sent"), UNCHANGED <<roster, delivered, filed, closed>>
  PROVE  SendInv'
<1>1. /\ request[r] \in RequestRecord /\ request[r].pc = pc
      /\ Sound(request[r], r \in delivered, r \in filed, r \in closed)
  BY Made
<1>2. PICK x \in RequestRecord :
        /\ request' = [request EXCEPT ![r] = x]
        /\ Kept(x, request[r])
        /\ x.told = "not sent" /\ x.pc = "ended"
  BY <1>1, ToldRecord
<1>3. r \notin delivered /\ r \notin filed /\ r \notin closed
  BY <1>1 DEF Sound
<1>4. Sound(x, r \in delivered', r \in filed', r \in closed')
  BY <1>2, <1>3 DEF Sound
<1>5. QED
  BY <1>2, <1>4, OneRequest

LEMMA PostsStep ==
  ASSUME SendInv, NEW r \in Requests, NEW kind, Posts(r, kind)
  PROVE  SendInv'
<1>1. /\ request[r] \in RequestRecord /\ request[r].pc = "tool"
      /\ Sound(request[r], r \in delivered, r \in filed, r \in closed)
  BY Made DEF Posts, Pcs
<1>2. UNCHANGED <<roster, delivered, filed, closed>>
  BY DEF Posts, sent
<1>3. PICK x \in RequestRecord :
        /\ request' = [request EXCEPT ![r] = x]
        /\ Kept(x, request[r])
        /\ x.told = request[r].told /\ x.pc = "posted"
  BY <1>1, MovesRecord DEF Posts, Pcs
<1>4. Sound(x, r \in delivered', r \in filed', r \in closed')
  BY <1>1, <1>2, <1>3 DEF Sound, Kept
<1>5. QED
  BY <1>2, <1>3, <1>4, OneRequest

LEMMA GivesUpStep ==
  ASSUME SendInv, NEW r \in Requests, NEW kind, GivesUp(r, kind)
  PROVE  SendInv'
<1>1. At(r, "tool") /\ Told(r, "not sent") /\ UNCHANGED <<roster, delivered, filed, closed>>
  BY DEF GivesUp, sent
<1>2. QED
  BY <1>1, RefusedStep DEF Pcs

(* Resolving keeps the roster it read.                                     *)
LEMMA ResolvesStep ==
  ASSUME SendInv, NEW r \in Requests, NEW down \in BOOLEAN, BridgeResolves(r, down)
  PROVE  SendInv'
<1> DEFINE asked == resolveAlias(request[r].to, Aliases)
           found == Recipient(asked, roster, down, Allowlist)
           x == [request[r] EXCEPT !.pc = "resolved", !.to = asked, !.read = roster,
                                   !.key = found.key]
<1>1. /\ request[r] \in RequestRecord /\ request[r].pc = "posted" /\ At(r, "posted")
      /\ Sound(request[r], r \in delivered, r \in filed, r \in closed)
  BY Made DEF BridgeResolves, Pcs
<1>2. UNCHANGED <<roster, delivered, filed, closed>>
  BY DEF BridgeResolves, sent
<1>3. CASE ~(assertSendConfigured(TRUE, Allowlist) /\ found.found)
  <2>1. Told(r, "not sent")
    BY <1>3 DEF BridgeResolves
  <2>2. QED
    BY <1>1, <1>2, <2>1, RefusedStep DEF Pcs
<1>4. CASE assertSendConfigured(TRUE, Allowlist) /\ found.found
  <2>1. request[r].to \in NamesUsed
    BY <1>1 DEF RequestRecord
  <2>2. asked \in NamesUsed /\ roster \in RosterStates
    BY <2>1, SendsAssumption DEF resolveAlias, SendInv, SendTypeInv
  <2> HIDE DEF asked
  <2>3. NamedAt(asked, roster, found.key)
    BY <1>4, <2>2, FoundIsNamed
  <2>4. request' = [request EXCEPT ![r] = x]
    BY <1>4 DEF BridgeResolves, asked
  <2> HIDE DEF found
  <2>5. x \in RequestRecord
    BY <1>1, <2>2, <2>3 DEF RequestRecord, Pcs, NamedAt
  <2>6. /\ x.to = asked /\ x.read = roster /\ x.key = found.key /\ x.pc = "resolved"
        /\ x.kind = request[r].kind
        /\ x.told = request[r].told
    BY <1>1 DEF RequestRecord
  <2> HIDE DEF x
  <2>7. Sound(x, r \in delivered', r \in filed', r \in closed')
    BY <1>1, <1>2, <2>3, <2>6 DEF Sound
  <2>8. QED
    BY <1>2, <2>4, <2>5, <2>7, OneRequest
<1>5. QED
  BY <1>3, <1>4

LEMMA TransportStep ==
  ASSUME SendInv, NEW r \in Requests, TransportSends(r)
  PROVE  SendInv'
<1>1. /\ request[r] \in RequestRecord /\ request[r].pc = "resolved"
      /\ Sound(request[r], r \in delivered, r \in filed, r \in closed)
  BY Made DEF TransportSends, Pcs
<1>2. /\ request[r].key \in Permitted /\ delivered' = delivered \cup {r}
      /\ UNCHANGED <<roster, filed, closed>>
  BY DEF TransportSends
<1>3. PICK x \in RequestRecord :
        /\ request' = [request EXCEPT ![r] = x]
        /\ Kept(x, request[r])
        /\ x.told = request[r].told /\ x.pc = "accepted"
  BY <1>1, MovesRecord DEF TransportSends, Pcs
<1>4. Sound(x, r \in delivered', r \in filed', r \in closed')
  BY <1>1, <1>2, <1>3 DEF Sound, Kept
<1>5. QED
  BY <1>2, <1>3, <1>4, OneRequest

LEMMA TransportFailsStep ==
  ASSUME SendInv, NEW r \in Requests, TransportFails(r)
  PROVE  SendInv'
<1>1. At(r, "resolved") /\ Told(r, "not sent") /\ UNCHANGED <<roster, delivered, filed, closed>>
  BY DEF TransportFails, sent
<1>2. QED
  BY <1>1, RefusedStep DEF Pcs

(* Once a message has gone, the answer says so or leaves it open.          *)
LEMMA AnswersStep ==
  ASSUME SendInv, NEW r \in Requests, BridgeAnswers(r) \/ AnswerIsLost(r)
  PROVE  SendInv'
<1>1. /\ request[r] \in RequestRecord /\ request[r].pc = "accepted"
      /\ Sound(request[r], r \in delivered, r \in filed, r \in closed)
  BY Made DEF BridgeAnswers, AnswerIsLost, Pcs
<1>2. UNCHANGED <<roster, delivered, closed>> /\ filed' \in {filed, filed \cup {r}}
  BY DEF BridgeAnswers, AnswerIsLost
<1>3. PICK what \in {"sent", "not sent", "error"} :
        /\ Told(r, what)
        /\ what = "sent" /\ request[r].kind \in {"text", Typed} => r \in filed'
  BY DEF BridgeAnswers, AnswerIsLost, IsFiled
<1>4. PICK x \in RequestRecord :
        /\ request' = [request EXCEPT ![r] = x]
        /\ Kept(x, request[r])
        /\ x.told = what /\ x.pc = "ended"
  BY <1>1, <1>3, ToldRecord
<1>5. Sound(x, r \in delivered', r \in filed', r \in closed')
  BY <1>1, <1>2, <1>3, <1>4 DEF Sound, Kept
<1>6. QED
  BY <1>2, <1>4, <1>5, OneRequest

LEMMA ClosesStep ==
  ASSUME SendInv, NEW r \in Requests, UiCloses(r)
  PROVE  SendInv'
<1>1. /\ request[r] \in RequestRecord /\ request[r].pc = "ended" /\ request[r].told = "sent"
      /\ request[r].kind = Typed
      /\ Sound(request[r], r \in delivered, r \in filed, r \in closed)
  BY Made DEF UiCloses, Pcs
<1>2. closed' = closed \cup {r} /\ UNCHANGED <<roster, request, delivered, filed>>
  BY DEF UiCloses
<1>3. Sound(request[r], r \in delivered', r \in filed', r \in closed')
  BY <1>1, <1>2 DEF Sound
<1>4. request' = [request EXCEPT ![r] = request[r]]
  BY <1>2 DEF SendInv, SendTypeInv
<1>5. QED
  BY <1>1, <1>2, <1>3, <1>4, OneRequest

-----------------------------------------------------------------------------
LEMMA SendNextInv ==
  ASSUME SendInv, [SendNext]_sendVars
  PROVE  SendInv'
<1>1. CASE UNCHANGED sendVars
  BY <1>1 DEF sendVars, sent, SendInv, SendTypeInv, SoundAt
<1>2. ASSUME NEW c \in Contacts, ContactIsKnown(c) \/ \E n \in NamesUsed : ContactRenames(c, n)
      PROVE  SendInv'
  BY <1>2, RosterStep
<1>3. ASSUME NEW r \in Requests, NEW kind \in Kinds, NEW to \in NamesUsed,
             NEW commits \in BOOLEAN, ModelCalls(r, kind, to, commits)
      PROVE  SendInv'
  BY <1>3, AsksStep DEF ModelCalls
<1>4. ASSUME NEW r \in Requests, NEW to \in NamesUsed, UserSends(r, to)
      PROVE  SendInv'
  BY <1>4, AsksStep DEF UserSends
<1>5. ASSUME NEW r \in Requests, UserApproves(r)
      PROVE  SendInv'
  BY <1>5, ApprovalStep
<1>6. ASSUME NEW r \in Requests, UserDeclines(r) \/ BridgeRejects(r)
      PROVE  SendInv'
  <2>1. /\ At(r, "parked") \/ At(r, "posted")
        /\ Told(r, "not sent") /\ UNCHANGED <<roster, delivered, filed, closed>>
    BY <1>6 DEF UserDeclines, BridgeRejects, sent
  <2>2. QED
    BY <2>1, RefusedStep DEF Pcs
<1>7. ASSUME NEW r \in Requests,
             \/ TextTool(r) \/ VoiceTool(r) \/ ImageTool(r) \/ RenderTool(r) \/ ReactTool(r)
             \/ EditTool(r) \/ RevokeTool(r) \/ PollTool(r) \/ PresenceTool(r)
      PROVE  SendInv'
  <2>1. \E kind \in Kinds : Posts(r, kind) \/ GivesUp(r, kind)
    BY <1>7 DEF TextTool, VoiceTool, ImageTool, RenderTool, ReactTool, EditTool, RevokeTool,
       PollTool, PresenceTool, Kinds, Acts
  <2>2. QED
    BY <2>1, PostsStep, GivesUpStep
<1>8. ASSUME NEW r \in Requests, NEW down \in BOOLEAN, BridgeResolves(r, down)
      PROVE  SendInv'
  BY <1>8, ResolvesStep
<1>9. ASSUME NEW r \in Requests, \/ TransportSends(r) \/ TransportFails(r) \/ BridgeAnswers(r)
                                 \/ AnswerIsLost(r) \/ UiCloses(r)
      PROVE  SendInv'
  BY <1>9, TransportStep, TransportFailsStep, AnswersStep, ClosesStep
<1>10. QED
  BY <1>1, <1>2, <1>3, <1>4, <1>5, <1>6, <1>7, <1>8, <1>9 DEF SendNext

\* Whatever the roster becomes, each request stands by what it was resolved
\* against (send-policy.ts, recipients.js).
THEOREM SendInvariant == SendSpec => []SendInv
<1>1. QED
  BY SendInitInv, SendNextInv, PTL DEF SendSpec

LEMMA DeliveredIsSound ==
  ASSUME SendInv, NEW r \in delivered
  PROVE  /\ r \in Requests /\ request[r] \in RequestRecord
         /\ Sound(request[r], TRUE, r \in filed, r \in closed)
<1>1. r \in Requests /\ request[r] \in RequestRecord \cup {NoRequest} /\ SoundAt(r)
  BY DEF SendInv, SendTypeInv
<1>2. QED
  BY <1>1 DEF SoundAt

(* resolveAllowedRecipient and the transport's guard: what is delivered    *)
(* went to the one allowed contact that bore the name, whatever the roster *)
(* has become.                                                             *)
THEOREM SendsReachTheNamed == SendSpec => []SentToTheNamed
<1>1. SendInv => SentToTheNamed
  BY DeliveredIsSound DEF Sound, NamedAt, SentToTheNamed
<1>2. QED
  BY <1>1, SendInvariant, PTL

(* server.js POST /send and ui-api.ts sendFromUi: what is called sent has  *)
(* gone and is filed, and a row is closed only by what was called so.      *)
THEOREM SendsAreReported == SendSpec => []AnswersAreTrue
<1>1. SendInv => AnswersAreTrue
  <2> SUFFICES ASSUME SendInv, NEW r \in Requests, ~At(r, "none")
               PROVE  /\ request[r].told = "sent" =>
                            r \in delivered /\ (request[r].kind \in {"text", Typed} => r \in filed)
                      /\ r \in filed => r \in delivered
                      /\ r \in closed => r \in filed /\ request[r].told = "sent"
    BY DEF AnswersAreTrue
  <2>1. request[r] # NoRequest /\ SoundAt(r)
    BY DEF At, NoRequest, SendInv
  <2>2. QED
    BY <2>1 DEF SoundAt, Sound
<1>2. QED
  BY <1>1, SendInvariant, PTL

-----------------------------------------------------------------------------
Asked == [pc : {"queued", "sending", "written", "refused", "failed"}, kind : {"note", "picture"},
          length : Nat, sent : Nat]

(* The notes queued or in flight are the chain, and only its head may be   *)
(* in flight.                                                              *)
ChainInv ==
    /\ chain \in Seq(Notes)
    /\ \A i, j \in 1 .. Len(chain) : chain[i] = chain[j] => i = j
    /\ \A i \in 1 .. Len(chain) :
          note[chain[i]].pc = "queued" \/ (i = 1 /\ note[chain[i]].pc = "sending")
    /\ \A n \in Notes : note[n].pc \in {"queued", "sending"} => \E i \in 1 .. Len(chain) : chain[i] = n

LogTypeOK ==
    /\ note \in [Notes -> Asked \cup {Unasked}]
    /\ selfLog \in Seq((Notes \cup {Console}) \X Nat)

(* What a note has sent is in the chat, and nothing else of it.            *)
SentInv ==
    /\ \A i \in OfNotes :
          LET n == selfLog[i][1] IN
          note[n].pc \in {"sending", "written", "failed"} /\ selfLog[i][2] \in 1 .. note[n].sent
    /\ \A n \in Notes : note[n].pc \in {"sending", "written"} =>
          \A part \in 1 .. note[n].sent : \E i \in DOMAIN selfLog : selfLog[i] = <<n, part>>
    /\ \A n \in Notes : /\ note[n].pc = "queued" => note[n].sent = 0
                        /\ note[n].pc = "written" => note[n].sent = note[n].length

(* The note in flight wrote the last of the notes' messages.               *)
LastInv ==
    \A n \in Notes : note[n].pc = "sending" /\ note[n].sent > 0 =>
        \E i \in DOMAIN selfLog : selfLog[i] = <<n, note[n].sent>>
                                  /\ \A k \in OfNotes : k <= i

OrderInv ==
    \A i, j \in OfNotes :
        i < j /\ (\A k \in i + 1 .. j - 1 : k \notin OfNotes) =>
            \/ selfLog[j] = <<selfLog[i][1], selfLog[i][2] + 1>>
            \/ selfLog[j][2] = 1 /\ note[selfLog[i][1]].pc \in {"written", "failed"}

NoteInv == LogTypeOK /\ ChainInv /\ SentInv /\ LastInv /\ OrderInv

-----------------------------------------------------------------------------

LEMMA HeadRuns ==
  ASSUME NoteInv, NEW n \in Notes, Runs(n)
  PROVE  /\ Len(chain) \in Nat \ {0} /\ chain[1] = n
         /\ Tail(chain) \in Seq(Notes) /\ Len(Tail(chain)) = Len(chain) - 1
         /\ \A i \in 1 .. Len(chain) - 1 : Tail(chain)[i] = chain[i + 1]
<1>1. chain \in Seq(Notes) /\ chain # <<>> /\ Head(chain) = n
  BY DEF NoteInv, ChainInv, Runs
<1> QED
  BY <1>1, HeadTailProperties, EmptySeq

\* The note whose turn is over leaves the chain, however it ended.
LEMMA LeavesChain ==
  ASSUME NoteInv, NEW n \in Notes, Runs(n), NEW how \in {"written", "refused", "failed"},
         Ended(n, how), note[n] \in Asked, chain' = Tail(chain)
  PROVE  ChainInv'
<1>1. \A m \in Notes : note'[m].pc = IF m = n THEN how ELSE note[m].pc
  BY DEF Ended, NoteInv, LogTypeOK, Asked
<1>2. /\ chain \in Seq(Notes)
      /\ \A i, j \in 1 .. Len(chain) : chain[i] = chain[j] => i = j
      /\ \A i \in 1 .. Len(chain) :
            note[chain[i]].pc = "queued" \/ (i = 1 /\ note[chain[i]].pc = "sending")
      /\ \A m \in Notes : note[m].pc \in {"queued", "sending"} =>
            \E i \in 1 .. Len(chain) : chain[i] = m
  BY DEF NoteInv, ChainInv
<1>3. /\ Len(chain) \in Nat \ {0} /\ chain[1] = n /\ chain' \in Seq(Notes)
      /\ Len(chain') = Len(chain) - 1
      /\ \A i \in 1 .. Len(chain') : chain'[i] = chain[i + 1]
  BY HeadRuns
<1>4. \A i, j \in 1 .. Len(chain') : chain'[i] = chain'[j] => i = j
  BY <1>2, <1>3
<1>5. \A i \in 1 .. Len(chain') : note'[chain'[i]].pc = "queued"
  <2> TAKE i \in 1 .. Len(chain')
  <2>1. chain'[i] = chain[i + 1] /\ i + 1 \in 1 .. Len(chain) /\ i + 1 # 1
    BY <1>3
  <2>2. chain[i + 1] # n /\ chain[i + 1] \in Notes /\ note[chain[i + 1]].pc = "queued"
    BY <1>2, <1>3, <2>1
  <2> QED
    BY <1>1, <2>1, <2>2
<1>6. ASSUME NEW m \in Notes, note'[m].pc \in {"queued", "sending"}
      PROVE  \E i \in 1 .. Len(chain') : chain'[i] = m
  <2>1. m # n /\ note[m].pc \in {"queued", "sending"}
    BY <1>1, <1>6
  <2>2. PICK i \in 1 .. Len(chain) : chain[i] = m
    BY <1>2, <2>1
  <2>3. i - 1 \in 1 .. Len(chain') /\ chain'[i - 1] = m
    BY <1>3, <2>1, <2>2
  <2> QED
    BY <2>3
<1> QED
  BY <1>3, <1>4, <1>5, <1>6 DEF ChainInv

\* Only the head is in flight.
LEMMA OnlyTheHeadIsSending ==
  ASSUME NoteInv, NEW n \in Notes, Runs(n), NEW m \in Notes, note[m].pc = "sending"
  PROVE  m = n
<1>1. PICK i \in 1 .. Len(chain) : chain[i] = m
  BY DEF NoteInv, ChainInv
<1>2. i = 1
  BY <1>1 DEF NoteInv, ChainInv
<1> QED
  BY <1>1, <1>2, HeadRuns

\* A note that ends without a message more.
LEMMA EndsQuietly ==
  ASSUME NoteInv, NEW n \in Notes, Runs(n), NEW how \in {"written", "refused", "failed"},
         Ended(n, how), note[n] \in Asked, chain' = Tail(chain), selfLog' = selfLog,
         how = "refused" => note[n].pc = "queued",
         how \in {"written", "failed"} => note[n].pc = "sending",
         how = "written" => note[n].sent = note[n].length
  PROVE  NoteInv'
<1>1. ChainInv'
  BY LeavesChain
<1>2. LogTypeOK'
  BY DEF Ended, NoteInv, LogTypeOK, Asked
<1>3. /\ OfNotes' = OfNotes
      /\ \A i \in OfNotes : selfLog[i][1] \in Notes
      /\ \A m \in Notes : /\ note'[m].pc = IF m = n THEN how ELSE note[m].pc
                          /\ note'[m].sent = note[m].sent /\ note'[m].length = note[m].length
  <2>1. ASSUME NEW i \in OfNotes PROVE selfLog[i][1] \in Notes
    BY <2>1 DEF OfNotes, NoteInv, LogTypeOK
  <2> QED
    BY <2>1 DEF OfNotes, Ended, NoteInv, LogTypeOK, Asked, Unasked
<1>4. SentInv'
  BY <1>3 DEF NoteInv, SentInv
<1>5. LastInv'
  BY <1>3 DEF NoteInv, LastInv
<1>6. OrderInv'
  <2>1. \A i \in OfNotes : note[selfLog[i][1]].pc \in {"written", "failed"} =>
                            note'[selfLog[i][1]].pc \in {"written", "failed"}
    BY <1>3
  <2> QED
    BY <1>3, <2>1 DEF NoteInv, OrderInv
<1> QED
  BY <1>1, <1>2, <1>4, <1>5, <1>6 DEF NoteInv

LEMMA NotesStart == NoteInit => NoteInv
<1> SUFFICES ASSUME NoteInit PROVE NoteInv
  OBVIOUS
<1>1. OfNotes = {} /\ chain \in Seq(Notes) /\ Len(chain) = 0
      /\ selfLog \in Seq((Notes \cup {Console}) \X Nat)
  BY EmptySeq DEF NoteInit, OfNotes
<1>2. \A n \in Notes : note[n] = Unasked
  BY DEF NoteInit
<1> QED
  BY <1>1, <1>2 DEF NoteInit, NoteInv, LogTypeOK, ChainInv, SentInv, LastInv, OrderInv, Unasked

LEMMA AskedStep ==
  ASSUME NoteInv, NEW n \in Notes, NEW kind \in {"note", "picture"}, NEW length \in Nat,
         NoteAsked(n, kind, length)
  PROVE  NoteInv'
<1> DEFINE r == [pc |-> "queued", kind |-> kind, length |-> length, sent |-> 0]
<1>1. /\ note[n] = Unasked /\ note' = [note EXCEPT ![n] = r]
      /\ chain' = Append(chain, n) /\ selfLog' = selfLog
  BY DEF NoteAsked
<1>2. r \in Asked /\ r.pc = "queued" /\ r.sent = 0
  BY DEF Asked
<1> HIDE DEF r
<1>3. LogTypeOK'
  BY <1>1, <1>2 DEF NoteInv, LogTypeOK
<1>4. \A m \in Notes : note'[m] = IF m = n THEN r ELSE note[m]
  BY <1>1 DEF NoteInv, LogTypeOK
<1>5. note[n].pc = "none"
  BY <1>1 DEF Unasked
<1>6. ChainInv'
  <2>1. /\ chain \in Seq(Notes) /\ Len(chain) \in Nat
        /\ \A i, j \in 1 .. Len(chain) : chain[i] = chain[j] => i = j
        /\ \A i \in 1 .. Len(chain) :
              note[chain[i]].pc = "queued" \/ (i = 1 /\ note[chain[i]].pc = "sending")
        /\ \A m \in Notes : note[m].pc \in {"queued", "sending"} =>
              \E i \in 1 .. Len(chain) : chain[i] = m
    BY LenProperties DEF NoteInv, ChainInv
  <2>2. /\ chain' \in Seq(Notes) /\ Len(chain') = Len(chain) + 1 /\ chain'[Len(chain) + 1] = n
        /\ \A i \in 1 .. Len(chain) : chain'[i] = chain[i]
    BY <1>1, <2>1, AppendProperties
  <2>3. \A i \in 1 .. Len(chain) : chain[i] \in Notes /\ chain[i] # n
    BY <1>5, <2>1
  <2>4. \A i, j \in 1 .. Len(chain') : chain'[i] = chain'[j] => i = j
    BY <2>1, <2>2, <2>3
  <2>5. ASSUME NEW i \in 1 .. Len(chain')
        PROVE  note'[chain'[i]].pc = "queued" \/ (i = 1 /\ note'[chain'[i]].pc = "sending")
    BY <1>2, <1>4, <2>1, <2>2, <2>3
  <2>6. ASSUME NEW m \in Notes, note'[m].pc \in {"queued", "sending"}
        PROVE  \E i \in 1 .. Len(chain') : chain'[i] = m
    <3>1. CASE m = n
      BY <2>1, <2>2, <3>1
    <3>2. CASE m # n
      <4>1. PICK i \in 1 .. Len(chain) : chain[i] = m
        BY <1>4, <2>1, <2>6, <3>2
      <4> QED
        BY <2>1, <2>2, <4>1
    <3> QED
      BY <3>1, <3>2
  <2> QED
    BY <2>2, <2>4, <2>5, <2>6 DEF ChainInv
<1>7. OfNotes' = OfNotes /\ \A i \in OfNotes : selfLog[i][1] \in Notes \ {n}
  <2>1. \A i \in OfNotes : selfLog[i][1] \in Notes
    BY DEF OfNotes, NoteInv, LogTypeOK
  <2>2. \A i \in OfNotes : note[selfLog[i][1]].pc # "none"
    BY DEF NoteInv, SentInv
  <2> QED
    BY <1>1, <1>5, <2>1, <2>2 DEF OfNotes
<1>8. SentInv'
  BY <1>1, <1>2, <1>4, <1>7 DEF NoteInv, SentInv
<1>9. LastInv'
  BY <1>1, <1>2, <1>4, <1>7 DEF NoteInv, LastInv
<1>10. OrderInv'
  BY <1>1, <1>4, <1>7 DEF NoteInv, OrderInv
<1> QED
  BY <1>3, <1>6, <1>8, <1>9, <1>10 DEF NoteInv

LEMMA StartsStep ==
  ASSUME NoteInv, NEW n \in Notes, NoteStarts(n)
  PROVE  NoteInv'
<1>1. /\ Runs(n) /\ note[n].pc = "queued" /\ note' = [note EXCEPT ![n].pc = "sending"]
      /\ UNCHANGED <<chain, selfLog>>
  BY DEF NoteStarts, Ended
<1>2. note[n] \in Asked
  BY <1>1 DEF NoteInv, LogTypeOK, Unasked
<1>3. LogTypeOK'
  BY <1>1, <1>2 DEF NoteInv, LogTypeOK, Asked
<1>4. /\ OfNotes' = OfNotes
      /\ \A m \in Notes : /\ note'[m].pc = IF m = n THEN "sending" ELSE note[m].pc
                          /\ note'[m].sent = note[m].sent /\ note'[m].length = note[m].length
      /\ \A i \in OfNotes : selfLog[i][1] \in Notes
  BY <1>1, <1>2 DEF OfNotes, NoteInv, LogTypeOK, Asked, Unasked
<1>5. ChainInv'
  <2>1. chain[1] = n /\ chain' = chain /\ chain \in Seq(Notes)
        /\ \A i \in 1 .. Len(chain) : chain[i] \in Notes
    BY <1>1, HeadRuns DEF NoteInv, ChainInv
  <2> QED
    BY <1>1, <1>4, <2>1, HeadRuns DEF NoteInv, ChainInv
<1>6. SentInv'
  BY <1>1, <1>4 DEF NoteInv, SentInv
<1>7. LastInv'
  BY <1>1, <1>4 DEF NoteInv, LastInv, SentInv
<1>8. OrderInv'
  BY <1>1, <1>4 DEF NoteInv, OrderInv
<1> QED
  BY <1>3, <1>5, <1>6, <1>7, <1>8 DEF NoteInv

\* A message more at the end of the chat.
LEMMA OneMore ==
  ASSUME NoteInv, NEW m \in (Notes \cup {Console}) \X Nat, selfLog' = Append(selfLog, m)
  PROVE  /\ selfLog' \in Seq((Notes \cup {Console}) \X Nat) /\ Len(selfLog) \in Nat
         /\ DOMAIN selfLog = 1 .. Len(selfLog) /\ DOMAIN selfLog' = 1 .. Len(selfLog) + 1
         /\ selfLog'[Len(selfLog) + 1] = m
         /\ \A i \in 1 .. Len(selfLog) : selfLog'[i] = selfLog[i]
         /\ OfNotes \subseteq 1 .. Len(selfLog)
         /\ OfNotes' = IF m[1] = Console THEN OfNotes ELSE OfNotes \cup {Len(selfLog) + 1}
<1>1. selfLog \in Seq((Notes \cup {Console}) \X Nat)
  BY DEF NoteInv, LogTypeOK
<1>2. /\ selfLog' \in Seq((Notes \cup {Console}) \X Nat) /\ Len(selfLog) \in Nat
      /\ DOMAIN selfLog = 1 .. Len(selfLog) /\ DOMAIN selfLog' = 1 .. Len(selfLog) + 1
      /\ selfLog'[Len(selfLog) + 1] = m
      /\ \A i \in 1 .. Len(selfLog) : selfLog'[i] = selfLog[i]
  BY <1>1, AppendProperties, LenProperties
<1>3. OfNotes' = IF m[1] = Console THEN OfNotes ELSE OfNotes \cup {Len(selfLog) + 1}
  BY <1>2 DEF OfNotes
<1> QED
  BY <1>2, <1>3 DEF OfNotes

LEMMA NoteAnswersStep ==
  ASSUME NoteInv, ConsoleAnswers
  PROVE  NoteInv'
<1> DEFINE m == <<Console, AnswersSaid + 1>>
<1>1. AnswersSaid \in Nat
  <2> DEFINE at == {i \in DOMAIN selfLog : selfLog[i][1] = Console}
  <2>1. DOMAIN selfLog = 1 .. Len(selfLog) /\ Len(selfLog) \in Nat
    BY LenProperties DEF NoteInv, LogTypeOK
  <2>2. IsFiniteSet(at)
    <3>1. IsFiniteSet(1 .. Len(selfLog)) /\ at \subseteq 1 .. Len(selfLog)
      BY <2>1, FS_Interval
    <3> QED
      BY <3>1, FS_Subset
  <2> QED
    BY <2>2, FS_CardinalityType DEF AnswersSaid
<1>2. m \in (Notes \cup {Console}) \X Nat /\ m[1] = Console
  BY <1>1
<1>3. selfLog' = Append(selfLog, m) /\ UNCHANGED <<note, chain>>
  BY DEF ConsoleAnswers
<1> HIDE DEF m
<1>4. /\ selfLog' \in Seq((Notes \cup {Console}) \X Nat) /\ Len(selfLog) \in Nat
      /\ DOMAIN selfLog = 1 .. Len(selfLog) /\ DOMAIN selfLog' = 1 .. Len(selfLog) + 1
      /\ \A i \in DOMAIN selfLog : selfLog'[i] = selfLog[i] /\ i \in DOMAIN selfLog'
      /\ OfNotes' = OfNotes /\ OfNotes \subseteq DOMAIN selfLog
  BY <1>2, <1>3, OneMore
<1>5. LogTypeOK' /\ ChainInv'
  BY <1>3, <1>4 DEF NoteInv, LogTypeOK, ChainInv
<1>6. SentInv'
  BY <1>3, <1>4, ZenonT(60) DEF NoteInv, SentInv
<1>7. LastInv'
  BY <1>3, <1>4 DEF NoteInv, LastInv
<1>8. OrderInv'
  BY <1>3, <1>4, ZenonT(60) DEF NoteInv, OrderInv
<1> QED
  BY <1>5, <1>6, <1>7, <1>8 DEF NoteInv

LEMMA SendsStep ==
  ASSUME NoteInv, NEW n \in Notes, NoteSends(n)
  PROVE  NoteInv'
<1> DEFINE part == note[n].sent + 1
           m == <<n, part>>
           last == Len(selfLog) + 1
<1>1. /\ Runs(n) /\ note[n].pc = "sending" /\ note' = [note EXCEPT ![n].sent = part]
      /\ chain' = chain /\ selfLog' = Append(selfLog, m)
  BY DEF NoteSends
<1>2. note[n] \in Asked /\ part \in Nat \ {0} /\ n # Console
  BY <1>1, NotesAssumption DEF NoteInv, LogTypeOK, Asked, Unasked
<1>3. \A o \in Notes : /\ note'[o].pc = note[o].pc /\ note'[o].length = note[o].length
                       /\ note'[o].sent = IF o = n THEN part ELSE note[o].sent
  BY <1>1, <1>2 DEF NoteInv, LogTypeOK, Asked, Unasked
<1>4. m \in (Notes \cup {Console}) \X Nat /\ m[1] = n /\ m[2] = part
  BY <1>2
<1>5. /\ selfLog' \in Seq((Notes \cup {Console}) \X Nat) /\ Len(selfLog) \in Nat
      /\ DOMAIN selfLog = 1 .. Len(selfLog) /\ DOMAIN selfLog' = 1 .. last
      /\ selfLog'[last] = m
      /\ \A i \in 1 .. Len(selfLog) : selfLog'[i] = selfLog[i]
      /\ OfNotes \subseteq 1 .. Len(selfLog)
      /\ OfNotes' = OfNotes \cup {last}
  BY <1>1, <1>2, <1>4, OneMore
<1>6. \A i \in OfNotes : selfLog[i][1] \in Notes /\ selfLog'[i] = selfLog[i] /\ i < last
  BY <1>5 DEF OfNotes, NoteInv, LogTypeOK
<1>7. LogTypeOK'
  BY <1>1, <1>2, <1>5 DEF NoteInv, LogTypeOK, Asked
<1>8. ChainInv'
  <2>1. \A i \in 1 .. Len(chain) : chain[i] \in Notes
    BY DEF NoteInv, ChainInv
  <2> QED
    BY <1>1, <1>3, <2>1 DEF NoteInv, ChainInv
<1> HIDE DEF m, last
<1>9. SentInv'
  <2>1. ASSUME NEW i \in OfNotes'
        PROVE  /\ note'[selfLog'[i][1]].pc \in {"sending", "written", "failed"}
               /\ selfLog'[i][2] \in 1 .. note'[selfLog'[i][1]].sent
    <3>1. CASE i = last
      <4>1. selfLog'[i][1] = n /\ selfLog'[i][2] = part
        BY <1>4, <1>5, <3>1
      <4>2. note'[n].pc = "sending" /\ note'[n].sent = part /\ part \in 1 .. part
        BY <1>1, <1>2, <1>3
      <4> QED
        BY <4>1, <4>2
    <3>2. CASE i \in OfNotes
      <4> DEFINE o == selfLog[i][1]
      <4>1. note[o].pc \in {"sending", "written", "failed"} /\ selfLog[i][2] \in 1 .. note[o].sent
        BY <3>2 DEF NoteInv, SentInv
      <4>2. o \in Notes /\ selfLog'[i] = selfLog[i]
        BY <1>6, <3>2
      <4> HIDE DEF o
      <4>3. note[o].sent \in Nat /\ note[n].sent \in Nat
        BY <1>1, <4>1, <4>2 DEF NoteInv, LogTypeOK, Asked, Unasked
      <4>4. /\ note'[o].pc \in {"sending", "written", "failed"}
            /\ note'[o].sent \in {note[o].sent, note[o].sent + 1}
        BY <1>3, <4>1, <4>2
      <4>5. selfLog[i][2] \in 1 .. note'[o].sent
        BY <4>1, <4>3, <4>4
      <4> QED
        BY <4>2, <4>4, <4>5 DEF o
    <3> QED
      BY <1>5, <2>1, <3>1, <3>2
  <2>2. ASSUME NEW o \in Notes, note'[o].pc \in {"sending", "written"},
               NEW at \in 1 .. note'[o].sent
        PROVE  \E i \in DOMAIN selfLog' : selfLog'[i] = <<o, at>>
    <3>1. CASE o = n /\ at = part
      <4>1. last \in DOMAIN selfLog' /\ selfLog'[last] = <<o, at>>
        BY <1>5, <3>1 DEF m, last
      <4> QED
        BY <4>1
    <3>2. CASE ~ (o = n /\ at = part)
      <4>1. at \in 1 .. note[o].sent /\ note[o].pc \in {"sending", "written"}
        <5>1. CASE o = n
          <6>1. note'[o].sent = note[n].sent + 1 /\ note[n].sent \in Nat
            BY <1>2, <1>3, <5>1 DEF Asked
          <6> QED
            BY <1>3, <2>2, <3>2, <5>1, <6>1
        <5>2. CASE o # n
          BY <1>3, <2>2, <5>2
        <5> QED
          BY <5>1, <5>2
      <4>2. PICK i \in DOMAIN selfLog : selfLog[i] = <<o, at>>
        BY <4>1 DEF NoteInv, SentInv
      <4>3. i \in DOMAIN selfLog' /\ selfLog'[i] = <<o, at>>
        BY <1>5, <4>2 DEF last
      <4> QED
        BY <4>3
    <3> QED
      BY <3>1, <3>2
  <2>3. \A o \in Notes : /\ note'[o].pc = "queued" => note'[o].sent = 0
                         /\ note'[o].pc = "written" => note'[o].sent = note'[o].length
    BY <1>1, <1>3 DEF NoteInv, SentInv
  <2> QED
    BY <2>1, <2>2, <2>3 DEF SentInv
<1>10. LastInv'
  <2>1. ASSUME NEW o \in Notes, note'[o].pc = "sending", note'[o].sent > 0 PROVE o = n
    BY <1>1, <1>3, <2>1, OnlyTheHeadIsSending
  <2>2. last \in DOMAIN selfLog' /\ selfLog'[last] = <<n, note'[n].sent>>
    BY <1>3, <1>5 DEF m, last
  <2>3. \A k \in OfNotes' : k <= last
    BY <1>5 DEF last
  <2> QED
    BY <2>1, <2>2, <2>3 DEF LastInv
<1>11. OrderInv'
  <2> SUFFICES ASSUME NEW i \in OfNotes', NEW j \in OfNotes', i < j,
                      \A k \in i + 1 .. j - 1 : k \notin OfNotes'
               PROVE  \/ selfLog'[j] = <<selfLog'[i][1], selfLog'[i][2] + 1>>
                      \/ selfLog'[j][2] = 1 /\ note'[selfLog'[i][1]].pc \in {"written", "failed"}
    BY DEF OrderInv
  <2>1. i \in OfNotes
    BY <1>5 DEF last
  <2>2. CASE j \in OfNotes
    <3>1. \/ selfLog[j] = <<selfLog[i][1], selfLog[i][2] + 1>>
          \/ selfLog[j][2] = 1 /\ note[selfLog[i][1]].pc \in {"written", "failed"}
      BY <1>5, <2>1, <2>2 DEF NoteInv, OrderInv
    <3> QED
      BY <1>3, <1>6, <2>1, <2>2, <3>1
  <2>3. CASE j = last
    <3>1. CASE note[n].sent > 0
      <4>1. PICK at \in DOMAIN selfLog : /\ selfLog[at] = <<n, note[n].sent>>
                                         /\ \A k \in OfNotes : k <= at
        BY <1>1, <3>1 DEF NoteInv, LastInv
      <4>2. at \in OfNotes
        BY <1>2, <4>1 DEF OfNotes
      <4>3. i = at
        <5>1. at \in 1 .. Len(selfLog) /\ i \in 1 .. Len(selfLog) /\ i <= at
          BY <1>5, <2>1, <4>1
        <5>2. ~ (at \in i + 1 .. last - 1)
          BY <1>5, <2>3, <4>2
        <5> QED
          BY <1>5, <5>1, <5>2 DEF last
      <4> QED
        BY <1>5, <1>6, <2>1, <2>3, <4>1, <4>3 DEF m
    <3>2. CASE ~ (note[n].sent > 0)
      <4>1. note[n].sent = 0
        BY <1>2, <3>2 DEF Asked
      <4>2. /\ note[selfLog[i][1]].pc \in {"sending", "written", "failed"}
            /\ selfLog[i][2] \in 1 .. note[selfLog[i][1]].sent
        BY <2>1 DEF NoteInv, SentInv
      <4>3. selfLog[i][1] # n
        BY <4>1, <4>2
      <4>4. note[selfLog[i][1]].pc \in {"written", "failed"}
        BY <1>1, <1>6, <2>1, <4>2, <4>3, OnlyTheHeadIsSending
      <4> QED
        BY <1>3, <1>4, <1>5, <1>6, <2>1, <2>3, <4>1, <4>4
    <3> QED
      BY <3>1, <3>2
  <2> QED
    BY <1>5, <2>2, <2>3
<1> QED
  BY <1>7, <1>8, <1>9, <1>10, <1>11 DEF NoteInv

LEMMA NoteSteps == NoteInv /\ [NoteNext]_noteVars => NoteInv'
<1> SUFFICES ASSUME NoteInv, [NoteNext]_noteVars PROVE NoteInv'
  OBVIOUS
<1>1. CASE UNCHANGED <<note, chain, selfLog>>
  BY <1>1 DEF NoteInv, LogTypeOK, ChainInv, SentInv, LastInv, OrderInv, OfNotes
<1>2. ASSUME NEW n \in Notes, NEW kind \in {"note", "picture"}, NEW length \in 0 .. MAX_MESSAGES + 1,
             NoteAsked(n, kind, length)
      PROVE  NoteInv'
  <2>1. length \in Nat
    BY NotesAssumption
  <2> QED
    BY <1>2, <2>1, AskedStep
<1>3. ASSUME NEW n \in Notes, note[n].pc \in {"queued", "sending"} PROVE note[n] \in Asked
  BY <1>3 DEF NoteInv, LogTypeOK, Unasked
<1>4. ASSUME NEW n \in Notes, NoteRefused(n) PROVE NoteInv'
  BY <1>3, <1>4, EndsQuietly DEF NoteRefused
<1>5. ASSUME NEW n \in Notes, NoteBreaks(n) PROVE NoteInv'
  BY <1>3, <1>5, EndsQuietly DEF NoteBreaks
<1>6. ASSUME NEW n \in Notes, NoteDone(n) PROVE NoteInv'
  BY <1>3, <1>6, EndsQuietly DEF NoteDone
<1>7. ASSUME NEW n \in Notes, NoteStep(n) PROVE NoteInv'
  BY <1>4, <1>5, <1>6, <1>7, StartsStep, SendsStep DEF NoteStep
<1>8. CASE ConsoleAnswers
  BY <1>8, NoteAnswersStep
<1>9. ConnectionChanges => UNCHANGED <<note, chain, selfLog>>
  BY DEF ConnectionChanges
<1>10. UNCHANGED noteVars => UNCHANGED <<note, chain, selfLog>>
  BY DEF noteVars
<1> QED
  BY <1>1, <1>2, <1>7, <1>8, <1>9, <1>10 DEF NoteNext

\* The chain holds the notes that are not over, each once, and only its head
\* is in flight; what it has sent ends what the notes wrote (serial.js).
THEOREM NotesInvariant == NoteSpec => []NoteInv
<1>1. NoteInit => NoteInv
  BY NotesStart
<1>2. NoteInv /\ [NoteNext]_noteVars => NoteInv'
  BY NoteSteps
<1> QED
  BY <1>1, <1>2, PTL DEF NoteSpec

\* A note of several messages arrives as one note, and one reported as written
\* is all there (serial.js, self-note.js).
THEOREM NotesAreWhole == NoteSpec => []NotesArriveWhole
<1>1. NoteInv => NotesArriveWhole
  BY DEF NoteInv, OrderInv, SentInv, NotesArriveWhole
<1> QED
  BY <1>1, NotesInvariant, PTL

=============================================================================
