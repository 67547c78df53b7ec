--------------------------- MODULE MCContribution ---------------------------
(* Contribution on small instances, with two judges. *)
EXTENDS Contribution
CONSTANTS na, nb, nc, nd, j1, j2

\* Two producer branches, each with its author.
TwoBranches == 1..2
TwoProducers == 1..2
OneCloneEach == {na, nb}
BranchEach == na :> 1 @@ nb :> 2
Families == na :> "A" @@ nb :> "B" @@ nc :> "C" @@ nd :> "D"
TwoJudges == {j1, j2}
\* Promise, work, verdict and repair on the first branch.
Commits == <<4, 2>>
SeriesCommits == <<2, 1>>
=============================================================================
