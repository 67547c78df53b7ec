--------------------------- MODULE MCLeafNetwork ---------------------------
(* Two children, the second on top of the first; a later split words the   *)
(* first anew, widens the second and frees it.  A plan may also be one that *)
(* neither refine nor rebaseline accepts.                                   *)
EXTENDS LeafNetwork

Child(scope, deps, text) == [scope |-> scope, deps |-> deps, text |-> text]

MCSplits ==
  {1 :> Child("one", {}, "a") @@ 2 :> Child("two", {1}, "a"),
   1 :> Child("one", {}, "b") @@ 2 :> Child("more", {}, "a")}
=============================================================================
