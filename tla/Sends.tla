------------------------------- MODULE Sends -------------------------------
(***************************************************************************)
(* A send, from the agent's tool to WhatsApp and back: the approval a      *)
(* person gives (agent/lib/send-policy.ts, agent/tools/whatsapp_send_*.ts),*)
(* the bridge's endpoint, which reads the roster, resolves and permits the *)
(* recipient, calls the transport and files what went out                  *)
(* (whatsapp-bridge/src/server.js, whatsapp.js), and the transport's own   *)
(* guard.  Between the reading of the roster and the send the roster may   *)
(* change, and a reply may be lost after the message has gone.             *)
(***************************************************************************)
EXTENDS Recipients

CONSTANTS Requests,       \* calls of a sending tool
          Contacts,       \* the addresses of the roster
          NamesUsed,      \* bound: the names people have and are asked for by
          Allowlist,      \* WA_SEND_ALLOWLIST, in names
          Aliases,        \* WA_CONTACT_ALIASES: a function from names to names
          Permitted,      \* the addresses the transport's own guard lets through
          MaxRenames      \* bound: changes of the roster

ASSUME SendsAssumption ==
    /\ Allowlist \subseteq NamesUsed /\ NoName \notin NamesUsed
    /\ DOMAIN Aliases \subseteq NamesUsed /\ \A n \in DOMAIN Aliases : Aliases[n] \in NamesUsed
    /\ IsFiniteSet(Contacts) /\ Permitted \subseteq Contacts

VARIABLES roster,     \* roster[c]: what the transport knows of the contact c
          renames,    \* changes made to the roster
          request,    \* request[r]: where the request r is
          delivered,  \* what WhatsApp accepted
          filed,      \* requests whose message is in the archive
          closed      \* rows of the web UI's queue closed by what was sent

sendVars == <<roster, renames, request, delivered, filed, closed>>
sent == <<delivered, filed, closed>>

\* Acts on a message or a conversation that exists.
Acts == {"react", "edit", "revoke", "poll", "presence"}

\* A text, a voice note, a generated picture, a rendered document, and acts.
Kinds == {"text", "voice", "image", "render"} \cup Acts

\* What the user types into the web UI.
Typed == "typed"

(***************************************************************************)
(* sendApproval reads the words of a text or a voice note and asks when    *)
(* they commit the user; imageSendApproval asks for every recipient.  The  *)
(* tools that deliver a render or act on a message state no policy.        *)
(***************************************************************************)
NeedsApproval(kind, commits) ==
    (kind \in {"text", "voice"} /\ commits) \/ kind = "image"

\* Mutant of IsFiled: sends to others are left out of the archive.
IsFiledNever(kind) == FALSE

\* What archiveOutgoing is called for: a text, and nothing else to others.
IsFiled(kind) == kind \in {"text", Typed}

\* A request that has not been made.
NoRequest == [pc |-> "none"]

At(r, pc) == request[r].pc = pc

MovesTo(r, pc) == request' = [request EXCEPT ![r].pc = pc]

-----------------------------------------------------------------------------

Rosters == [Contacts -> {[push |-> NoName, full |-> n, provisional |-> p] :
                           n \in NamesUsed, p \in BOOLEAN}]

SendInit ==
    /\ roster \in Rosters
    /\ renames = 0
    /\ request = [r \in Requests |-> NoRequest]
    /\ delivered = {} /\ filed = {} /\ closed = {}

\* The push name is what the other side's device says it is.
ContactRenames(c, name) ==
    /\ renames < MaxRenames
    /\ renames' = renames + 1
    /\ roster' = [roster EXCEPT ![c].push = name]
    /\ UNCHANGED <<request, sent>>

\* The stable address of a provisional contact arrives.
ContactIsKnown(c) ==
    /\ renames < MaxRenames
    /\ renames' = renames + 1
    /\ roster[c].provisional
    /\ roster' = [roster EXCEPT ![c].provisional = FALSE]
    /\ UNCHANGED <<request, sent>>

Asks(r, kind, to, pc) ==
    /\ At(r, "none")
    /\ request' = [request EXCEPT ![r] =
          [kind |-> kind, to |-> to, read |-> roster, key |-> NoRequest,
           told |-> "nothing", pc |-> pc]]
    /\ UNCHANGED <<roster, renames, sent>>

ModelCalls(r, kind, to, commits) ==
    Asks(r, kind, to, IF NeedsApproval(kind, commits) THEN "parked" ELSE "tool")

\* The user's own words, in the UI: no policy asks them anything.
UserSends(r, to) == Asks(r, Typed, to, "posted")

(***************************************************************************)
(* What the caller hears: "sent"; "not sent", which is what every tool     *)
(* makes of a BridgeError, whatever its cause (sent: false, "NOT sent",    *)
(* "Nothing was sent", "WhatsApp did not accept it"), and of what it or    *)
(* its policy turns down; or "error", an exception that is no BridgeError. *)
(***************************************************************************)
Told(r, what) == request' = [request EXCEPT ![r].pc = "ended", ![r].told = what]

UserApproves(r) ==
    /\ At(r, "parked")
    /\ MovesTo(r, "tool")
    /\ UNCHANGED <<roster, renames, sent>>

UserDeclines(r) ==
    /\ At(r, "parked")
    /\ Told(r, "not sent")
    /\ UNCHANGED <<roster, renames, sent>>

-----------------------------------------------------------------------------
(* The tools: what they prepare, then the bridge's endpoint.               *)

Posts(r, kind) ==
    /\ At(r, "tool") /\ request[r].kind = kind
    /\ MovesTo(r, "posted")
    /\ UNCHANGED <<roster, renames, sent>>

GivesUp(r, kind) ==
    /\ At(r, "tool") /\ request[r].kind = kind
    /\ Told(r, "not sent")
    /\ UNCHANGED <<roster, renames, sent>>

TextTool(r) == Posts(r, "text")

\* Nothing could be spoken.
VoiceTool(r) == Posts(r, "voice") \/ GivesUp(r, "voice")

\* No picture under that id.
ImageTool(r) == Posts(r, "image") \/ GivesUp(r, "image")

\* A failed or a defective render is sent only when that is forced.
RenderTool(r) ==
    \E sound, force, readable \in BOOLEAN :
        IF (sound \/ force) /\ readable THEN Posts(r, "render") ELSE GivesUp(r, "render")

ReactTool(r) == Posts(r, "react")
EditTool(r) == Posts(r, "edit")
RevokeTool(r) == Posts(r, "revoke")

\* A question and two answers, or a vote for one of them.
PollTool(r) == Posts(r, "poll") \/ GivesUp(r, "poll")

PresenceTool(r) == Posts(r, "presence")

-----------------------------------------------------------------------------
(* The bridge and the transport.                                           *)

\* A field is missing or empty, or the indicator is one it does not have.
BridgeRejects(r) ==
    /\ At(r, "posted")
    /\ Told(r, "not sent")
    /\ UNCHANGED <<roster, renames, sent>>

\* resolveAllowedRecipient: the roster is read and the answer kept.
BridgeResolves(r, groupsUnavailable) ==
    /\ At(r, "posted")
    /\ LET asked == resolveAlias(request[r].to, Aliases)
           found == Recipient(asked, roster, groupsUnavailable, Allowlist)
       IN  IF assertSendConfigured(TRUE, Allowlist) /\ found.found
           THEN request' = [request EXCEPT ![r].pc = "resolved", ![r].to = asked,
                                          ![r].read = roster, ![r].key = found.key]
           ELSE Told(r, "not sent")
    /\ UNCHANGED <<roster, renames, sent>>

\* The transport's guard, by address; then WhatsApp accepts the message.
TransportSends(r) ==
    /\ At(r, "resolved")
    /\ request[r].key \in Permitted
    /\ delivered' = delivered \cup {r}
    /\ MovesTo(r, "accepted")
    /\ UNCHANGED <<roster, renames, filed, closed>>

\* Refused by the guard, or not connected, or the upload failed.
TransportFails(r) ==
    /\ At(r, "resolved")
    /\ Told(r, "not sent")
    /\ UNCHANGED <<roster, renames, sent>>

\* archiveOutgoing, before the answer is sent.
BridgeAnswers(r) ==
    /\ At(r, "accepted")
    /\ filed' = IF IsFiled(request[r].kind) THEN filed \cup {r} ELSE filed
    /\ Told(r, "sent")
    /\ UNCHANGED <<roster, renames, delivered, closed>>

\* The transport's reply is lost, the archive refuses the row, the bridge
\* stops or the turn is aborted: the client throws a BridgeError, or, when the
\* answer breaks off after its status line, an error the tool passes on.
AnswerIsLost(r) ==
    /\ At(r, "accepted")
    /\ filed' \in {filed, IF IsFiled(request[r].kind) THEN filed \cup {r} ELSE filed}
    /\ \E what \in {"not sent", "error"} : Told(r, what)
    /\ UNCHANGED <<roster, renames, delivered, closed>>

\* sendFromUi closes the row it answered, after the send and only then; when
\* that fails the answer still says it was sent.
UiCloses(r) ==
    /\ At(r, "ended") /\ request[r].kind = Typed /\ request[r].told = "sent"
    /\ closed' = closed \cup {r}
    /\ UNCHANGED <<roster, renames, request, delivered, filed>>

SendNext ==
    \/ \E c \in Contacts : ContactIsKnown(c) \/ \E n \in NamesUsed : ContactRenames(c, n)
    \/ \E r \in Requests :
          \/ \E kind \in Kinds, to \in NamesUsed, commits \in BOOLEAN :
                ModelCalls(r, kind, to, commits)
          \/ \E to \in NamesUsed : UserSends(r, to)
          \/ UserApproves(r) \/ UserDeclines(r)
          \/ TextTool(r) \/ VoiceTool(r) \/ ImageTool(r) \/ RenderTool(r) \/ ReactTool(r)
          \/ EditTool(r) \/ RevokeTool(r) \/ PollTool(r) \/ PresenceTool(r)
          \/ BridgeRejects(r)
          \/ \E down \in BOOLEAN : BridgeResolves(r, down)
          \/ TransportSends(r) \/ TransportFails(r) \/ BridgeAnswers(r) \/ AnswerIsLost(r)
          \/ UiCloses(r)

SendSpec == SendInit /\ [][SendNext]_sendVars

-----------------------------------------------------------------------------

(***************************************************************************)
(* Two independent questions, and both must pass (recipients.js:4): what   *)
(* is delivered went to the one contact that bore the name asked for when  *)
(* the roster was read, that name is one the operator allowed, and the     *)
(* address is one the transport allows, whatever the roster has become.    *)
(***************************************************************************)
SentToTheNamed ==
    \A r \in delivered :
        LET was == request[r].read
        IN  /\ request[r].to \in Allowlist /\ request[r].key \in Permitted
            /\ {c \in Contacts : request[r].to \in Labels(was[c])} = {request[r].key}
            /\ ~was[request[r].key].provisional

(***************************************************************************)
(* What is called sent has gone, and a text so called is in the archive    *)
(* (whatsapp.js:1181, "a one-sided transcript of every conversation").  A  *)
(* row of the UI's queue is closed only by what was delivered and called   *)
(* so (ui-api.ts:259, "The reverse order loses the obligation").           *)
(***************************************************************************)
AnswersAreTrue ==
    \A r \in Requests : ~At(r, "none") =>
        /\ request[r].told = "sent" =>
              r \in delivered /\ (request[r].kind \in {"text", Typed} => r \in filed)
        /\ r \in filed => r \in delivered
        /\ r \in closed => r \in filed /\ request[r].told = "sent"
=============================================================================
