--------------------------- MODULE MCCancellation ---------------------------
(* Small instances of Cancellation for TLC.                                *)
EXTENDS Cancellation, TLC

CONSTANTS r1, r2, q1, q2, o, d

AllReady == [r \in Reactors |-> Jobs]
Symmetry == Permutations(Reactors) \cup Permutations(RequestJobs)
NoneUnserviceable == [r \in Reactors |-> {}]
TwoToObserve == [j \in Jobs |-> IF j = o THEN 2 ELSE 1]
=============================================================================
