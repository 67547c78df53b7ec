---------------------------- MODULE MCDirection ----------------------------
(* The instance of Direction for TLC.                                      *)
EXTENDS Direction, TLC

CONSTANTS i1, i2, t1, k1, k2, w1

MCIds == {i1, i2}
MCTopics == {t1}
MCChecks == {k1, k2}
MCWorkers == {w1}

(* Up to two objections a round, which take different names: what happens   *)
(* to a name happens between rounds that know nothing of each other.       *)
MCHearings ==
  {{}} \cup {f \in {{o, q} : o, q \in Raised} : \A o, q \in f : o.id = q.id => o = q}
=============================================================================
