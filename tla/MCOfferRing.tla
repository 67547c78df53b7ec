---------------------------- MODULE MCOfferRing -----------------------------
(* Two families with a process each, an offer at whose address one of them   *)
(* has an old announcement, and an offer of a producer-aware series.         *)
EXTENDS OfferRing, TLC
CONSTANTS f, g, p, q, a1, a2

BothFamilies == {f, g}
ProcEach == {p, q}
Identities == p :> f @@ q :> g
OwnReaders == f :> "f" @@ g :> "g"
TwoOffers == <<a1, a2>>
SecondPromised == {a2}
FirstAliased == {<<f, a1>>}
SecondRefused == {<<g, 2>>}   \* until g fetches the series
=============================================================================
