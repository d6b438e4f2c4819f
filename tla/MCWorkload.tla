----------------------------- MODULE MCWorkload -----------------------------
(* Instances of Workload for TLC. *)
EXTENDS Workload, TLC

CONSTANTS p1, p2, i1, e1, e2, g1, g2

\* The invocations are alike, and so are the two events with their groups.
Swap == (e1 :> e2) @@ (e2 :> e1) @@ (g1 :> g2) @@ (g2 :> g1)
Alike == Permutations(Invocations) \cup {Swap}
OneInstance == <<i1>>
Aware(n) == [skew |-> n, aware |-> TRUE]
Naive == {[skew |-> 0, aware |-> FALSE]}
AnySetup == {Aware(n) : n \in -1 .. 2} \cup Naive
WindowKeys == [window : 0 .. MaxTime + MaxRuns + 1, group : Group]
NoEvents == {}
EventSets == (SUBSET Event) \ {{}}
SameGroup == {[e \in Event |-> g] : g \in Group}
AnyGroups == SameGroup \cup {[e \in Event |-> IF e = e1 THEN g1 ELSE g2]}
=============================================================================
