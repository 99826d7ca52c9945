---------------------------- MODULE MCBudgetCircuit ----------------------------
(* Two jobs that share one state file.  A run costs nothing, exactly the       *)
(* per-run ceiling, or more; one sweep stays inside every fan-out cap, the     *)
(* others pass the width cap, the cap on expensive predicates and, late in a   *)
(* window, the projection; the window is worth three ceilings, so it fills     *)
(* over several runs before it overflows.                                      *)
EXTENDS BudgetCircuit, TLC

CONSTANTS nightly, manual

MCRuns == {nightly, manual}

\* For the half-open claims: a nightly job that never overlaps another one.
MCNightlyOnly == {nightly}
MCTokenCosts == {0, 1, 2}
MCWidths == {<<0, 0>>, <<2, 1>>, <<3, 0>>, <<2, 2>>}
================================================================================
