------------------------------ MODULE LossyFifo ------------------------------
(***************************************************************************)
(* What one direction of the shared ring promises: a FIFO that may drop    *)
(* frames but never reorders, repeats or invents one.  Frames are numbered *)
(* 1, 2, ... as they are produced.  `heard` is the last frame of the       *)
(* previous batch followed by the frames of the latest batch.              *)
(***************************************************************************)
EXTENDS Integers, Sequences

VARIABLES produced, heard

Init == produced = 0 /\ heard = <<0>>

Produce == produced' > produced /\ UNCHANGED heard

\* Any number of frames, each newer than the one before and already produced.
Hear ==
  /\ heard'[1] = heard[Len(heard)]
  /\ \A i \in 2 .. Len(heard') : heard'[i] > heard'[i - 1] /\ heard'[i] <= produced
  /\ UNCHANGED produced

Next == Produce \/ Hear

Spec == Init /\ [][Next]_<<produced, heard>>
==============================================================================
