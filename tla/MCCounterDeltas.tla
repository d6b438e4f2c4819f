-------------------------- MODULE MCCounterDeltas --------------------------
(* Instances of CounterDeltas for TLC. *)
EXTENDS CounterDeltas, TLC

CONSTANTS r1, r2

Alike == Permutations(Runs)

\* An IO adds one read and a stall of 1 to MaxStall ms.
IoCounters == {"reads", "stall"}
Ios == {s \in [IoCounters -> 1 .. MaxStall] : s["reads"] = 1}
=============================================================================
