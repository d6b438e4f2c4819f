----------------------------- MODULE MCSamples -----------------------------
(* Instances of Samples for TLC. *)
EXTENDS Samples, TLC

CONSTANTS p1, p2, i1, q1, q2, q3, q4, s1, s2, lower, UPPER

OneInstance == <<i1>>
AllTasks == {"sessions", "blocking", "concurrency"}

\* Two sessions of two requests each; names that are alike, differ by case, are missing.
Sessions == (q1 :> s1) @@ (q2 :> s1) @@ (q3 :> s2) @@ (q4 :> s2)
Names == (q1 :> lower) @@ (q2 :> lower) @@ (q3 :> UPPER) @@ (q4 :> Unnamed)
CaseInsensitive == (lower :> lower) @@ (UPPER :> lower) @@ (Unnamed :> Unnamed)

SampleKeys == [at : 0 .. MaxTime + MaxRuns, id : {s1, s2, lower, Unnamed, Overall}]
RequestSets == {s \cup {} : s \in SUBSET Request}

\* What one fetch finds.
UpToTwo == {{q, x} : q, x \in Request} \cup {{}}
Alike == Permutations(Invocations)
=============================================================================
