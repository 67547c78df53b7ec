-------------------------- MODULE MCPrecedentStore --------------------------
(* Two processes build one term; a process may be killed. *)
EXTENDS PrecedentStore, TLC
CONSTANTS v, w, p, q, k1, s1, n1, n2

TwoWorkers == {v, w}
TwoProcesses == {p, q}
OneEach == v :> p @@ w :> q
=============================================================================
