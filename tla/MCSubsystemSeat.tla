-------------------------- MODULE MCSubsystemSeat --------------------------
(* The instances of SubsystemSeat that are model-checked. *)
EXTENDS SubsystemSeat, TLC

CONSTANTS a1, a2   \* the maintainers

MCSymmetry == Permutations({a1, a2})

\* Series 11 has both leaves, series 12 only the second: the leaves of series
\* 12 are accepted work that a hand-off of series 11 takes along, and back.
MCLeavesOf == 11 :> {1, 2} @@ 12 :> {2}
=============================================================================
