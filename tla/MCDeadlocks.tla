----------------------------- MODULE MCDeadlocks -----------------------------
(* Instances of Deadlocks for TLC. *)
EXTENDS Deadlocks, TLC

CONSTANTS p1, p2, i1, d1, d2

OneInstance == <<i1>>
Times == 0 .. MaxTime + MaxRuns
MayBeBad == {{}, {d2}}
Alike == Permutations(Invocations)
AwareDriver == [skew : {0}, aware : {TRUE}]
=============================================================================
