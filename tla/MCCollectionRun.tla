--------------------------- MODULE MCCollectionRun ---------------------------
(* Instances of CollectionRun for TLC. *)
EXTENDS CollectionRun

CONSTANTS p1, p2, i1, i2, k1, k2, v1, v2

R(k, v) == [key |-> k, val |-> v]

OneInstance == <<i1>>
TwoInstances == <<i1, i2>>

\* Two runs over the same keys (a daily snapshot taken twice), in full or in part.
SharedKeyBatches == {{}, {R(k1, v1), R(k2, v1)}, {R(k1, v2), R(k2, v2)}}
TwoRowBatch == {{R(k1, v1), R(k2, v1)}}
SmallBatches == {{}, {R(k1, v1)}}
=============================================================================
