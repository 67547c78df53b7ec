------------------------------ MODULE MCIntake ------------------------------
(* Three requests of one slug and one worker. *)
EXTENDS Intake
CONSTANTS r1, r2, r3, w1

ThreeRequests == {r1, r2, r3}
OneWorker == {w1}
=============================================================================
