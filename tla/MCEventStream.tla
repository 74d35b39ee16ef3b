---------------------------- MODULE MCEventStream ----------------------------
(* Values for model-checking EventStream on a small instance. *)
EXTENDS EventStream

CONSTANTS e1, e2

MCEmitters == {e1, e2}

=============================================================================
