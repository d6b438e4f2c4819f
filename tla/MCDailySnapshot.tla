-------------------------- MODULE MCDailySnapshot --------------------------
(* Instances of DailySnapshot for TLC. *)
EXTENDS DailySnapshot, TLC

CONSTANTS r1, r2, d1, d2, o1, o2, v1, v2

BothOrDiscovered == {{}, Database}
AllInFirst == [o \in Object |-> d1]

\* There may be one row about o1, two about o2.
OneAndTwo ==
    [o \in Object |-> IF o = o1 THEN {{}} \cup {{v} : v \in Val} ELSE {{}, Val}]

Alike == Permutations(Runs) \cup Permutations(Val)
=============================================================================
