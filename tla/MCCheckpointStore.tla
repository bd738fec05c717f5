-------------------------- MODULE MCCheckpointStore --------------------------
(* The instance of CheckpointStore that TLC checks: two callers of the same   *)
(* request and one that reuses its task_id with another question.            *)
EXTENDS CheckpointStore

CONSTANTS c1, c2, c3, sameQuestion, otherQuestion

MCIdentity == [c \in {c1, c2, c3} |-> IF c = c3 THEN otherQuestion ELSE sameQuestion]
MCThree == {c1, c2, c3}
=============================================================================
