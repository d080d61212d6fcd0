--------------------------- MODULE ConsoleChannel ---------------------------
(***************************************************************************)
(* The agent's side of the self-chat console: agent/channels/console.ts    *)
(* with lib/delivery-guard.ts and lib/silent-turn.ts.                      *)
(*                                                                         *)
(* A call is one run of the POST /message handler ("push") or of           *)
(* retryInFreshSession ("retry"); both suspend at their awaits and share   *)
(* the module-level `session', `compactionSeen' and `lastPushed'.  The     *)
(* runtime (eve, external) runs a turn for every prompt sent, may run it   *)
(* again (queue delivery is at-least-once), may overlap turns, and tells   *)
(* the channel of it through events.                                       *)
(*                                                                         *)
(* Time is abstracted: whether the session has been idle for SESSION_IDLE_MS *)
(* is a choice, never made while a call is suspended (the awaits time out  *)
(* in seconds, the idle limit is 45 minutes).  Every turn carries its id.  *)
(***************************************************************************)
EXTENDS Integers, Sequences, FiniteSets

CONSTANTS
  Requests,         \* what the owner types, pushed once each by the bridge
  MaxSessionTurns,  \* MAX_SESSION_TURNS
  GuardCapacity,    \* how many finished turns the delivery guard remembers
  EagerStart,       \* whether the runtime may start a turn before send resolves
  MaxRedeliveries,  \* BOUND: re-executions of turns
  None

ASSUME ChannelAssumption ==
  /\ IsFiniteSet(Requests)
  /\ MaxSessionTurns \in Nat \ {0}
  /\ GuardCapacity \in Nat \ {0}
  /\ EagerStart \in BOOLEAN
  /\ MaxRedeliveries \in Nat
  /\ None \notin Requests \cup [req : Requests, retried : BOOLEAN]

Calls == Requests \X {"push", "retry"}
TurnIds == 1..Cardinality(Calls)

VARIABLES
  session,         \* the live session; address 0: none yet
  rotations,
  compactionSeen,
  lastPushed,      \* the request waiting for its turn's id, or None
  stage,           \* where each call is suspended
  turns,           \* the runtime's turns, in the order they were sent
  begun,           \* turns whose turn.started has fired
  running,         \* how many executions of a turn are under way
  redeliveries,
  pendingRequests, \* per turn: the request bound to it, or None
  pendingReplies,  \* per turn: whether there are words to deliver
  seen,            \* the delivery guard's keys, oldest first
  jobs,            \* turn-end handlers suspended in deliverToWhatsApp
  outcome,         \* history: what came of each turn, for the owner's phone
  claims           \* history: every successful claim, in order

sessionVars == <<session, rotations, compactionSeen>>
runtimeVars == <<turns, begun, running, redeliveries>>
endVars == <<pendingRequests, pendingReplies, seen, jobs, outcome, claims>>
vars == <<sessionVars, lastPushed, stage, runtimeVars, endVars>>

Token(r, retried) == [req |-> r, retried |-> retried]
Tokens == [req : Requests, retried : BOOLEAN]

(* A prompt sent into an address by a call.  It holds the text of the      *)
(* request and no more: composePrompt makes no use of the transcript.      *)
Turn(address, c) == [address |-> address, call |-> c]

-----------------------------------------------------------------------------
(* Sessions.                                                               *)

freshSession ==
  /\ rotations' = rotations + 1
  /\ compactionSeen' = FALSE
  /\ session' = [address |-> rotations + 1, turns |-> 1, warmed |-> FALSE]

MustRotate(idle) ==
  \/ session.address = 0
  \/ session.turns >= MaxSessionTurns
  \/ idle
  \/ compactionSeen

nextConsoleSession(idle) ==
  IF MustRotate(idle)
    THEN freshSession
    ELSE /\ session' = [session EXCEPT !.turns = @ + 1]
         /\ UNCHANGED <<rotations, compactionSeen>>

-----------------------------------------------------------------------------
(* The handler of POST /message, and retryInFreshSession.                  *)

(* Up to the first await that takes any time: choose the session; a cold   *)
(* one waits for the chat's transcript, a warm one is sent to at once.     *)
Push(r, idle) ==
  LET c == <<r, "push">>
  IN  /\ stage[c] = "new"
      /\ idle => \A d \in Calls : stage[d] \notin {"composing", "sending"}
      /\ nextConsoleSession(idle)
      /\ stage' = [stage EXCEPT ![c] = IF session'.warmed THEN "sending" ELSE "composing"]
      /\ turns' = IF session'.warmed
                    THEN Append(turns, Turn(session'.address, c))
                    ELSE turns
      /\ UNCHANGED <<lastPushed, begun, running, redeliveries, endVars>>

(* The transcript is there: send, to whatever the session is by now.       *)
Send(c) ==
  /\ stage[c] = "composing"
  /\ turns' = Append(turns, Turn(session.address, c))
  /\ stage' = [stage EXCEPT ![c] = "sending"]
  /\ UNCHANGED <<sessionVars, lastPushed, begun, running, redeliveries, endVars>>

(* send resolves: leave the request for turn.started to find, and mark     *)
(* the session, whatever it is by now, warm.                               *)
SentResumesOld(c) ==
  /\ stage[c] = "sending"
  /\ lastPushed' = Token(c[1], c[2] = "retry")
  /\ \E n \in DOMAIN turns :
       /\ turns[n].call = c
       /\ session' = [session EXCEPT !.warmed = TRUE, !.address = turns[n].address]
  /\ stage' = [stage EXCEPT ![c] = "sent"]
  /\ UNCHANGED <<rotations, compactionSeen, runtimeVars, endVars>>

SentForgetsRetry(c) ==
  /\ stage[c] = "sending"
  /\ lastPushed' = Token(c[1], FALSE)
  /\ session' = [session EXCEPT !.warmed = TRUE]
  /\ stage' = [stage EXCEPT ![c] = "sent"]
  /\ UNCHANGED <<rotations, compactionSeen, runtimeVars, endVars>>

Sent(c) ==
  /\ stage[c] = "sending"
  /\ lastPushed' = Token(c[1], c[2] = "retry")
  /\ session' = [session EXCEPT !.warmed = TRUE]
  /\ stage' = [stage EXCEPT ![c] = "sent"]
  /\ UNCHANGED <<rotations, compactionSeen, runtimeVars, endVars>>

-----------------------------------------------------------------------------
(* Events of the runtime.                                                  *)

(* turn.started, of a first execution or of a repeated one: whatever       *)
(* request is waiting is bound to this turn.                               *)
Bind(n) ==
  /\ pendingRequests' =
       [pendingRequests EXCEPT ![n] = IF lastPushed = None THEN @ ELSE lastPushed]
  /\ lastPushed' = None
  /\ running' = [running EXCEPT ![n] = @ + 1]
  /\ UNCHANGED <<sessionVars, stage, turns, pendingReplies, seen, jobs, outcome, claims>>

TurnStarted(n) ==
  /\ n \in DOMAIN turns \ begun
  /\ EagerStart \/ stage[turns[n].call] = "sent"
  /\ begun' = begun \cup {n}
  /\ Bind(n)
  /\ UNCHANGED redeliveries

(* The runtime gives up on a delivery and executes the turn again, also    *)
(* while the first execution runs on.                                      *)
TurnRedelivered(n) ==
  /\ n \in begun
  /\ redeliveries < MaxRedeliveries
  /\ redeliveries' = redeliveries + 1
  /\ Bind(n)
  /\ UNCHANGED begun

CompactionRequested ==
  /\ \E n \in begun : running[n] > 0
  /\ compactionSeen' = TRUE
  /\ UNCHANGED <<session, rotations, lastPushed, stage, runtimeVars, endVars>>

MessageCompleted(n) ==
  /\ running[n] > 0
  /\ pendingReplies' = [pendingReplies EXCEPT ![n] = TRUE]
  /\ UNCHANGED <<sessionVars, lastPushed, stage, runtimeVars,
                 pendingRequests, seen, jobs, outcome, claims>>

-----------------------------------------------------------------------------
(* The end of a turn.                                                      *)

Claimed(n) == \E i \in DOMAIN seen : seen[i] = n

(* claim: remember the key, forgetting the oldest beyond capacity.         *)
ClaimForgetsNewest(n) ==
  LET keys == Append(seen, n)
  IN  /\ seen' = IF Len(keys) > GuardCapacity THEN SubSeq(keys, 1, GuardCapacity) ELSE keys
      /\ claims' = Append(claims, n)

Claim(n) ==
  LET keys == Append(seen, n)
  IN  /\ seen' = IF Len(keys) > GuardCapacity THEN Tail(keys) ELSE keys
      /\ claims' = Append(claims, n)

(* A later end of a turn already claimed: nothing happens.                 *)
EndIgnored(n) ==
  /\ running[n] > 0
  /\ Claimed(n)
  /\ running' = [running EXCEPT ![n] = @ - 1]
  /\ UNCHANGED <<sessionVars, lastPushed, stage, turns, begun, redeliveries, endVars>>

(* The first end of a turn takes what was pending for it.                  *)
EndClaimed(n) ==
  /\ running[n] > 0
  /\ ~Claimed(n)
  /\ Claim(n)
  /\ running' = [running EXCEPT ![n] = @ - 1]
  /\ pendingReplies' = [pendingReplies EXCEPT ![n] = FALSE]
  /\ pendingRequests' = [pendingRequests EXCEPT ![n] = None]
  /\ UNCHANGED <<lastPushed, stage, turns, begun, redeliveries>>

(* deliverToWhatsApp is awaited, then perhaps the request is retried.      *)
Deliver(n, retry) == jobs' = jobs \cup {[turn |-> n, retry |-> retry]}

Retryable(n) == pendingRequests[n] # None /\ ~pendingRequests[n].retried

(* What the owner's phone has of a turn: nothing yet; words; nothing,      *)
(* because the bridge refused them; nothing, because a tool that was to    *)
(* deliver them failed and its name was trusted.  A turn once heard of is  *)
(* heard of, however a repeated execution of it ends.                      *)
Outcomes == {"none", "heard", "refused", "trusted"}

CameOf(n, what) ==
  outcome' = [outcome EXCEPT ![n] = IF @ = "heard" THEN @ ELSE what]

(* turn.completed with words.                                              *)
CompletedWithReply(n) ==
  /\ EndClaimed(n)
  /\ pendingReplies[n]
  /\ Deliver(n, None)
  /\ UNCHANGED <<sessionVars, outcome>>

(* turn.completed without words, silenceAction.  The name of a delivering  *)
(* tool among the turn's calls ends it, whether that call put something    *)
(* into the chat or failed; a turn that never ran ("dead") is retried      *)
(* once, and the rest is reported.                                         *)
SilentlyIgnored(n, how) ==
  /\ EndClaimed(n)
  /\ ~pendingReplies[n]
  /\ UNCHANGED <<sessionVars, jobs, outcome>>

CompletedSilently(n, how) ==
  /\ EndClaimed(n)
  /\ ~pendingReplies[n]
  /\ CASE how = "tool" -> CameOf(n, "heard") /\ UNCHANGED jobs
       [] how = "failed tool" -> CameOf(n, "trusted") /\ UNCHANGED jobs
       [] how = "dead" ->
            /\ Deliver(n, IF Retryable(n) THEN pendingRequests[n].req ELSE None)
            /\ UNCHANGED outcome
       [] how = "nothing" -> Deliver(n, None) /\ UNCHANGED outcome
  /\ UNCHANGED sessionVars

(* turn.failed: a context overflow is retried once, in a fresh session;    *)
(* any other failure is reported, after what words there were.             *)
Failed(n, overflow) ==
  /\ EndClaimed(n)
  /\ Deliver(n, IF overflow /\ Retryable(n) THEN pendingRequests[n].req ELSE None)
  /\ compactionSeen' = (compactionSeen \/ overflow)
  /\ UNCHANGED <<session, rotations, outcome>>

(* The delivery is over.  The bridge took the words, or refused them or    *)
(* could not be reached, which is logged only; either way                  *)
(* retryInFreshSession then runs up to its first await.                    *)
Delivered(job, taken) ==
  /\ job \in jobs
  /\ jobs' = jobs \ {job}
  /\ CameOf(job.turn, IF taken THEN "heard" ELSE "refused")
  /\ IF job.retry = None
       THEN UNCHANGED <<sessionVars, stage>>
       ELSE /\ freshSession
            /\ stage' = [stage EXCEPT ![<<job.retry, "retry">>] = "composing"]
  /\ UNCHANGED <<lastPushed, runtimeVars, pendingRequests, pendingReplies, seen, claims>>

-----------------------------------------------------------------------------
Init ==
  /\ session = [address |-> 0, turns |-> 0, warmed |-> FALSE]
  /\ rotations = 0
  /\ compactionSeen = FALSE
  /\ lastPushed = None
  /\ stage = [c \in Calls |-> "new"]
  /\ turns = << >>
  /\ begun = {}
  /\ running = [n \in TurnIds |-> 0]
  /\ redeliveries = 0
  /\ pendingRequests = [n \in TurnIds |-> None]
  /\ pendingReplies = [n \in TurnIds |-> FALSE]
  /\ seen = << >>
  /\ jobs = {}
  /\ outcome = [n \in TurnIds |-> "none"]
  /\ claims = << >>

Silences == {"tool", "failed tool", "dead", "nothing"}

TurnEnds(n) ==
  \/ EndIgnored(n)
  \/ CompletedWithReply(n)
  \/ \E how \in Silences : CompletedSilently(n, how)
  \/ \E overflow \in BOOLEAN : Failed(n, overflow)

Next ==
  \/ \E r \in Requests, idle \in BOOLEAN : Push(r, idle)
  \/ \E c \in Calls : Send(c) \/ Sent(c)
  \/ \E n \in TurnIds : TurnStarted(n) \/ TurnRedelivered(n) \/ MessageCompleted(n) \/ TurnEnds(n)
  \/ CompactionRequested
  \/ \E job \in jobs, taken \in BOOLEAN : Delivered(job, taken)

Spec == Init /\ [][Next]_vars

-----------------------------------------------------------------------------
Stages == {"new", "composing", "sending", "sent"}

TypeOK ==
  /\ session \in [address : Nat, turns : Nat, warmed : BOOLEAN]
  /\ rotations \in Nat
  /\ compactionSeen \in BOOLEAN
  /\ lastPushed \in Tokens \cup {None}
  /\ stage \in [Calls -> Stages]
  /\ turns \in Seq([address : Nat, call : Calls])
  /\ begun \subseteq DOMAIN turns
  /\ running \in [TurnIds -> Nat]
  /\ redeliveries \in 0..MaxRedeliveries
  /\ pendingRequests \in [TurnIds -> Tokens \cup {None}]
  /\ pendingReplies \in [TurnIds -> BOOLEAN]
  /\ seen \in Seq(TurnIds)
  /\ jobs \subseteq [turn : TurnIds, retry : Requests \cup {None}]
  /\ outcome \in [TurnIds -> Outcomes]
  /\ claims \in Seq(TurnIds)

(* One answer per turn, however often it is run (delivery-guard.ts): a     *)
(* turn is claimed again only after GuardCapacity other turns were.        *)
ClaimsAreSpaced ==
  \A i, j \in DOMAIN claims : i < j /\ claims[i] = claims[j] => j - i > GuardCapacity

(* "Once only": whatever turns a request gets bound to, it is sent at most *)
(* twice, as pushed and as one retry.                                      *)
SentAtMostTwice ==
  \A i, j \in DOMAIN turns : turns[i].call = turns[j].call => i = j

(* A rotation never resumes what it replaced, however calls overlap.       *)
RotationIsMonotonic ==
  [][session'.address >= session.address]_vars

(* A turn is still running, or its words are on their way to the bridge.   *)
UnderWay(n) == running[n] > 0 \/ \E job \in jobs : job.turn = n

(* Silence has a cause outside the channel: whatever overlaps, is retried  *)
(* or redelivered, a turn that started is under way, was heard of, had its *)
(* words refused by the bridge (which is logged), or ended on the name of  *)
(* a tool that was to deliver them and failed.                             *)
SilenceHasACause == \A n \in begun : UnderWay(n) \/ outcome[n] # "none"

-----------------------------------------------------------------------------
(* A claim of a comment that the code does not keep; see README, findings. *)

(* console.ts:296-298: the pairing of a request with its turn is           *)
(* "unambiguous even under back-to-back messages".                         *)
BoundToItsOwnRequest ==
  \A n \in DOMAIN turns :
    pendingRequests[n] # None => pendingRequests[n].req = turns[n].call[1]

=============================================================================
