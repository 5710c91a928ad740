---------------------------- MODULE MCPlanCache -----------------------------
EXTENDS PlanCache, TLC

CONSTANTS g1, g2, g3, q1, q2, q3, q4, bad

Callers == {g1, g2, g3}
Statements == {q1, q2, q3, q4, bad}
Rejected == {bad}

(* Three statements contend for the two places of one shard; one more and the
   rejected one hash to the other. *)
Hash == (q1 :> 0) @@ (q2 :> 0) @@ (q3 :> 0) @@ (q4 :> 1) @@ (bad :> 1)

CallerSymmetry == Permutations(Callers)
=============================================================================
