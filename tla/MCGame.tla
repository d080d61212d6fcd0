------------------------------- MODULE MCGame -------------------------------
(***************************************************************************)
(* Two instances of the chat game: two calls of the tool at a time against *)
(* a user who types and a bridge that loses answers; and one call after    *)
(* another, long enough for a game at the solved level to end.             *)
(***************************************************************************)
EXTENDS ChatGame

CONSTANTS c1, c2, c3

\* The calls that overlap are interchangeable.
AnyCall == Permutations({c1, c2})

Together == INSTANCE ChatGame WITH
    Calls <- {c1, c2}, TypedSquares <- {4}, ChatLevels <- {"normal"},
    MaxTyped <- 2, MaxCalled <- 3

Alone == INSTANCE ChatGame WITH
    Calls <- {c3}, TypedSquares <- 0 .. 2, ChatLevels <- {"hard"},
    MaxTyped <- 0, MaxCalled <- 4

MCGameSpec ==
    /\ Together!ChatInit \/ Alone!ChatInit
    /\ [][\/ c3 \notin DOMAIN call /\ Together!ChatNext
          \/ c3 \in DOMAIN call /\ Alone!ChatNext]_gameVars
=============================================================================
