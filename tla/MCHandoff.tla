----------------------------- MODULE MCHandoff ------------------------------
(***************************************************************************)
(* Small instances of Handoff for TLC: one message the archive can write,  *)
(* one it cannot, two interval drains and a manual one.                    *)
(***************************************************************************)
EXTENDS Handoff

CONSTANTS m1, bad, t1, t2, u1

MCMessages == {m1, bad}
MCStorable == {m1}
MCTicks == {t1, t2}
MCManuals == {u1}

\* The bounds of a long log, in which one gap follows another: past two
\* entries nothing unwritable arrives and no manual drain is at work.  Neither
\* has fairness, so no step that must happen is cut off.
LongLogIsPlain ==
  Len(log) > 2 => (\A s \in DOMAIN log : log[s] = m1) /\ (\A d \in Manuals : pc[d] = "idle")

MCHandoffSpec ==
  HandoffInit /\ [][HandoffNext /\ LongLogIsPlain']_handoffVars /\ HandoffFairness
=============================================================================
