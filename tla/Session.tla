------------------------------ MODULE Session -------------------------------
(***************************************************************************)
(* The transport's session: the connection (Pairing) and the dispatcher    *)
(* of what arrives on it (Dispatch).  They meet in three places: messages  *)
(* arrive on a connected socket only, PairSuccess goes to the reconnect    *)
(* and to the dispatcher, which ignores it, and a restart starts both.     *)
(***************************************************************************)
EXTENDS Dispatch, Pairing

CONSTANT MaxOthers    \* BOUND: other events one process is handed

sessionVars == <<dispatchVars, pairingVars>>

Others == counters["ignored"] + counters["undecryptable"]

(* An event arrives on the read loop of a connected socket.                *)
EventArrives ==
  /\ socket = "up"
  /\ \/ \E kind \in Kinds : HandleLive(kind)
     \/ \E records \in Histories : HandleHistorySync(records)
     \/ /\ Others < MaxOthers
        /\ \E c \in {"ignored", "undecryptable"} : HandleOther(c)
  /\ UNCHANGED pairingVars

DeviceLinked == PairSuccess /\ HandleOther("ignored")

Restart == DispatchRestart /\ PairingRestart

SessionInit == DispatchInit /\ PairingInit

SessionNext ==
  \/ EventArrives
  \/ Dispatching /\ UNCHANGED pairingVars
  \/ Snapshot /\ UNCHANGED pairingVars
  \/ PairingStep /\ UNCHANGED dispatchVars
  \/ DeviceLinked
  \/ Restart

(* The dispatcher finishes what it has begun; the server closes a paired   *)
(* connection; the reconnect goroutine ends, by its own timeouts; and      *)
(* whatsmeow reconnects in the end.                                        *)
SessionFairness ==
  /\ WF_sessionVars(Dispatching /\ UNCHANGED pairingVars)
  /\ WF_sessionVars(ServerCloses /\ UNCHANGED dispatchVars)
  /\ WF_sessionVars(ReconnectWaits /\ UNCHANGED dispatchVars)
  /\ WF_sessionVars(ReconnectConnects /\ UNCHANGED dispatchVars)
  /\ WF_sessionVars(AutoReconnect /\ UNCHANGED dispatchVars)

SessionSpec == SessionInit /\ [][SessionNext]_sessionVars /\ SessionFairness

-----------------------------------------------------------------------------
SessionTypeOK == DispatchTypeOK /\ PairingTypeOK

(* "The worst kind of quiet failure: the operator scans the code, sees     *)
(* success, and the transport reports paired, not connected, while         *)
(* receiving nothing at all": a linked device whose socket is down is      *)
(* connected again, or unlinked, or somebody is told that it is not.       *)
PairedReceives ==
  (paired /\ socket \in {"down", "closing"}) ~> (socket = "up" \/ told \/ ~paired)
=============================================================================
