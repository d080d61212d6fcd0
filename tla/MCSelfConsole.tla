---- MODULE MCSelfConsole ----
(* Instances of SelfConsole for TLC: the messages are interchangeable, and *)
(* so are the callers of /self/pending.                                    *)
EXTENDS SelfConsole, TLC

MessageSymmetry == Permutations(Messages) \union Permutations(Polls)
====
