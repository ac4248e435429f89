---------------------------- MODULE MCJobLedger ----------------------------
(* A small mixed fleet of JobLedger for TLC.                               *)
EXTENDS JobLedger, TLC

CONSTANTS r1, r2, r3, j1, j2, e1

\* r1 and r2 serve j1; r3 knows its type but has no ready handler for it.  The
\* envelope of j2 matches no route.
MixedReady == [r \in {r1, r2, r3} |-> IF r = r3 THEN {} ELSE {j1}]
MixedUnserviceable == [r \in {r1, r2, r3} |-> IF r = r3 THEN {j1} ELSE {}]
TwoAndOne == (j1 :> 2) @@ (j2 :> 1)
=============================================================================
