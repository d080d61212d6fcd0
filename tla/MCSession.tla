----------------------------- MODULE MCSession ------------------------------
(* The session on histories that mix good and bad records.                 *)
EXTENDS Session

MCHistories == { <<"indescribable", "unknown">>, <<"media", "text">> }
=============================================================================
