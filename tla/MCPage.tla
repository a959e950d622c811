------------------------------- MODULE MCPage -------------------------------
(* Values for the constants of Page.                                       *)
EXTENDS Page, TLC

CONSTANTS f1, f2, s1, s2, r1, r2

MCSymmetry == Permutations(Files) \cup Permutations(Settings) \cup Permutations(Removals)
=============================================================================
