------------------------------ MODULE MCSegment ------------------------------
(* The bounds are in the configuration.                                       *)
EXTENDS Segment
==============================================================================
