---------------------------- MODULE MCIssuancePrep ----------------------------
(* Instance of IssuancePrep for TLC.                                         *)
EXTENDS IssuancePrep, TLC

CONSTANTS p1, p2, s1, s2

TwoProjects == {p1, p2}
TwoSessions == {s1, s2}
Interchangeable == Permutations(TwoSessions) \cup Permutations(TwoProjects)
=============================================================================
