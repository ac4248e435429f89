-------------------------- MODULE MCSourceClosure --------------------------
(* One closing job served by two reactors, for TLC.                        *)
EXTENDS SourceClosure, TLC

CONSTANTS r1, r2, j1

AllReady == [r \in {r1, r2} |-> {j1}]
NoneUnserviceable == [r \in {r1, r2} |-> {}]
ThreeAttempts == (j1 :> 3)
=============================================================================
