------------------------------ MODULE Pairing -------------------------------
(***************************************************************************)
(* Linking the device and keeping the socket (internal/session/session.go  *)
(* with the handlers of httpapi/api.go and the startup of main.go): QR and *)
(* phone pairing, the reconnect after a pairing, POST /connect, dropped    *)
(* connections, a logout and restarts.                                     *)
(*                                                                         *)
(* whatsmeow is external and behaves as the comments of session.go say:    *)
(* after a pairing the server closes the socket and nothing reconnects it; *)
(* its QR emitter disconnects the client when its context is done or its   *)
(* codes run out; other drops are reconnected automatically; connecting a  *)
(* connected client is refused.                                            *)
(***************************************************************************)
EXTENDS Naturals

CONSTANT MaxDisruptions   \* BOUND: drops, logouts and restarts

ASSUME PairingAssumption == MaxDisruptions \in Nat

VARIABLES
  paired,      \* Store.ID is set, in the session database
  socket,      \* "down", "pairing", "closing" (paired, not yet closed), "up"
  retrying,    \* whatsmeow is reconnecting after a drop
  emitter,     \* a QR channel is open
  request,     \* GET /pair/qr is being answered
  reconnect,   \* reconnectAfterPairing: "none", "waiting", "connecting"
  told,        \* a failed connect was logged or answered since the socket fell
  disruptions

pairingVars == <<paired, socket, retrying, emitter, request, reconnect, told, disruptions>>

SocketUp ==
  /\ socket' = "up"
  /\ retrying' = FALSE
  /\ told' = FALSE

SocketFails ==
  /\ told' = TRUE
  /\ UNCHANGED <<socket, retrying>>

-----------------------------------------------------------------------------
(* GET /pair/qr takes the QR channel, then connects.  The connect may      *)
(* fail, which ends the request and leaves the channel.                    *)
BeginQRPairing ==
  /\ ~paired
  /\ socket = "down"
  /\ emitter' = TRUE
  /\ \/ socket' = "pairing" /\ request' = TRUE
     \/ UNCHANGED <<socket, request>>
  /\ UNCHANGED <<paired, retrying, reconnect, told, disruptions>>

(* POST /pair/phone connects unless a pairing connection is open already.  *)
PairPhone ==
  /\ ~paired
  /\ socket = "down"
  /\ socket' = "pairing"
  /\ UNCHANGED <<paired, retrying, emitter, request, reconnect, told, disruptions>>

(* The codes of the channel run out before one is scanned.                 *)
CodesRunOut ==
  /\ emitter
  /\ socket = "pairing"
  /\ socket' = "down"
  /\ emitter' = FALSE
  /\ request' = FALSE
  /\ UNCHANGED <<paired, retrying, reconnect, told, disruptions>>

(* The emitter's context outlives the request that opened the channel.     *)
(* First the mutated form: it is the request's own.                        *)
AttachedEmitter == emitter

EndedWithRequest == FALSE

(* The handler returns: success was forwarded, the channel closed, or the  *)
(* client went away.                                                       *)
RequestEnds ==
  /\ request
  /\ request' = FALSE
  /\ IF EndedWithRequest
       THEN socket' = "down" /\ emitter' = FALSE
       ELSE UNCHANGED <<socket, emitter>>
  /\ UNCHANGED <<paired, retrying, reconnect, told, disruptions>>

(* whatsmeow closes the channel once the device is linked.                 *)
ChannelCloses ==
  /\ emitter
  /\ paired
  /\ emitter' = FALSE
  /\ UNCHANGED <<paired, socket, retrying, request, reconnect, told, disruptions>>

-----------------------------------------------------------------------------
(* PairSuccess: the device is saved, and handle starts the reconnect in    *)
(* its own goroutine.  First the mutated form: whatsmeow's automatic       *)
(* reconnect is relied on.                                                 *)
PairSuccessOnly ==
  /\ socket = "pairing"
  /\ paired' = TRUE
  /\ socket' = "closing"
  /\ UNCHANGED <<retrying, emitter, request, reconnect, told, disruptions>>

PairSuccess ==
  /\ socket = "pairing"
  /\ paired' = TRUE
  /\ socket' = "closing"
  /\ reconnect' = "waiting"
  /\ UNCHANGED <<retrying, emitter, request, told, disruptions>>

ServerCloses ==
  /\ socket = "closing"
  /\ socket' = "down"
  /\ UNCHANGED <<paired, retrying, emitter, request, reconnect, told, disruptions>>

(* reconnectAfterPairing sees the socket down, or five seconds have        *)
(* passed, in which it may still be open.                                  *)
ReconnectWaits ==
  /\ reconnect = "waiting"
  /\ reconnect' = "connecting"
  /\ UNCHANGED <<paired, socket, retrying, emitter, request, told, disruptions>>

(* It connects; a refusal, a failure and the thirty-second timeout are     *)
(* logged with what to do about them.  Without a device the connection is  *)
(* a pairing one.                                                          *)
ReconnectConnects ==
  /\ reconnect = "connecting"
  /\ reconnect' = "none"
  /\ \/ socket = "down" /\ paired /\ SocketUp
     \/ socket = "down" /\ ~paired /\ socket' = "pairing" /\ UNCHANGED <<retrying, told>>
     \/ SocketFails
  /\ UNCHANGED <<paired, emitter, request, disruptions>>

(* POST /connect, refused (and nothing changed) unless paired and down.    *)
Connect ==
  /\ paired
  /\ socket = "down"
  /\ SocketUp \/ SocketFails
  /\ UNCHANGED <<paired, emitter, request, reconnect, disruptions>>

-----------------------------------------------------------------------------
Disrupt ==
  /\ disruptions < MaxDisruptions
  /\ disruptions' = disruptions + 1

(* The connection is lost; whatsmeow reconnects by itself.                 *)
Drop ==
  /\ socket = "up"
  /\ Disrupt
  /\ socket' = "down"
  /\ retrying' = TRUE
  /\ UNCHANGED <<paired, emitter, request, reconnect, told>>

AutoReconnect ==
  /\ retrying
  /\ SocketUp
  /\ UNCHANGED <<paired, emitter, request, reconnect, disruptions>>

(* The phone unlinks the device: whatsmeow deletes the session.            *)
LoggedOut ==
  /\ socket = "up"
  /\ Disrupt
  /\ paired' = FALSE
  /\ socket' = "down"
  /\ UNCHANGED <<retrying, emitter, request, reconnect, told>>

(* The process starts: a paired session connects, and serves either way.   *)
PairingRestart ==
  /\ Disrupt
  /\ retrying' = FALSE
  /\ emitter' = FALSE
  /\ request' = FALSE
  /\ reconnect' = "none"
  /\ \/ paired /\ socket' = "up" /\ told' = FALSE
     \/ paired /\ socket' = "down" /\ told' = TRUE
     \/ ~paired /\ socket' = "down" /\ told' = FALSE
  /\ UNCHANGED paired

PairingInit ==
  /\ paired = FALSE
  /\ socket = "down"
  /\ retrying = FALSE
  /\ emitter = FALSE
  /\ request = FALSE
  /\ reconnect = "none"
  /\ told = FALSE
  /\ disruptions = 0

(* Every step but PairSuccess and the restart, which the dispatcher shares. *)
PairingStep ==
  \/ BeginQRPairing \/ PairPhone \/ CodesRunOut \/ RequestEnds \/ ChannelCloses
  \/ ServerCloses \/ ReconnectWaits \/ ReconnectConnects \/ Connect
  \/ Drop \/ AutoReconnect \/ LoggedOut

PairingTypeOK ==
  /\ paired \in BOOLEAN
  /\ socket \in {"down", "pairing", "closing", "up"}
  /\ retrying \in BOOLEAN /\ emitter \in BOOLEAN /\ request \in BOOLEAN
  /\ reconnect \in {"none", "waiting", "connecting"}
  /\ told \in BOOLEAN
  /\ disruptions \in 0..MaxDisruptions
=============================================================================
