-------------------------- MODULE MCMessageQueue ----------------------------
(* MessageQueue on small sets; the bounds are in the configurations.       *)
EXTENDS MessageQueue

CONSTANTS j1, j2, w1, w2, a1, a2

=============================================================================
