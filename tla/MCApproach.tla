----------------------------- MODULE MCApproach -----------------------------
(* The instance of Approach for TLC.                                       *)
EXTENDS Approach, TLC

CONSTANTS a1, a2, a3, p1, p2, c1, c2, c3

MCAtoms == {a1, a2, a3}
MCPatterns == {p1, p2}
MCCandidates == {c1, c2, c3}
MCSymmetry == Permutations(MCPatterns) \cup Permutations(MCCandidates)
=============================================================================
