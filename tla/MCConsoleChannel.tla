-------------------------- MODULE MCConsoleChannel --------------------------
(* Small instances of ConsoleChannel for TLC.  Requests are interchangeable. *)
EXTENDS ConsoleChannel, TLC

CONSTANTS r1, r2

TwoRequests == {r1, r2}
RequestSymmetry == Permutations(Requests)
=============================================================================
