-------------------------- MODULE MCGenerationTask --------------------------
(* GenerationTask for TLC: an internal poller, which may read every task. *)
EXTENDS GenerationTask

CONSTANT p1

OnePoller == [g \in {p1} |-> Internal]
=============================================================================
