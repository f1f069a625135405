------------------------------ MODULE MCIsoPool ------------------------------
(* Two transfers per direction; packets, rates and clamps are the real ones.   *)
EXTENDS IsoPool

CONSTANTS i1, i2, o1, o2

MCIn     == {i1, i2}
MCOut    == {o1, o2}
MCTotals == {88, 96}
==============================================================================
