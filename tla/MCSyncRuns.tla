----------------------------- MODULE MCSyncRuns -----------------------------
(* Small instances of SyncRuns: budgets of one clock tick, a recovery grace  *)
(* of two (3600 s against budgets of 600 to 2400 s in the code).             *)
EXTENDS SyncRuns, TLC

Symmetry == Permutations(Procs)
MCBudget == [s \in Stages |-> 1]
============================================================================
