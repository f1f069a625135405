----------------------------- MODULE MCStreams -----------------------------
(* Two tasks with two transfers per direction.                               *)
EXTENDS Streams

CONSTANTS t1, t2

MCTasks == {t1, t2}
=============================================================================
