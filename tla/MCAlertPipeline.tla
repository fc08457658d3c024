-------------------------- MODULE MCAlertPipeline --------------------------
(* AlertPipeline with two worker replicas and a topic of two messages. *)
EXTENDS AlertPipeline

CONSTANTS k1, k2, w1, w2

MCKeys == {k1, k2}
MCWorkers == {w1, w2}

============================================================================
