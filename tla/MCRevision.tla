----------------------------- MODULE MCRevision -----------------------------
(* Instances of Revision for TLC.                                          *)
EXTENDS Revision, TLC

CONSTANTS p1, p2, c1, c2, c3

MCPatterns == {p1, p2}
MCCandidates == {c1, c2, c3}
MCSymmetry == Permutations(MCPatterns) \cup Permutations(MCCandidates)
=============================================================================
