------------------------- MODULE MCTerminalEvidence -------------------------
(* Small instances of TerminalEvidence for TLC.                            *)
EXTENDS TerminalEvidence, TLC

Symmetry == Permutations(Reactors)
=============================================================================
