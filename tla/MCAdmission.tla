---------------------------- MODULE MCAdmission ----------------------------
(* Small instances of Admission for TLC.                                   *)
EXTENDS Admission, TLC

CONSTANTS a1, a2, x, y, z, repository, budget

\* x and y are two requests for one attempt; x asks for more budget.  With z,
\* y fits and x does not.
TwoAttempts == [r \in Sets |-> IF r = z THEN a2 ELSE a1]
TwoOfEach == [p \in Pools |-> 2]
MoreForX == [r \in Sets |-> [p \in Pools |-> IF p = budget /\ r = x THEN 2 ELSE 1]]
Symmetry == Permutations(Workers) \cup Permutations(Sessions) \cup Permutations(Checks)
=============================================================================
