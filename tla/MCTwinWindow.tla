---------------------------- MODULE MCTwinWindow ----------------------------
(***************************************************************************)
(* One modelling pass over a conversation longer than its limit.           *)
(***************************************************************************)
EXTENDS TwinPass

MCFormOf == "Trip" :> "trip"
=============================================================================
