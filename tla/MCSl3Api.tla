------------------------------ MODULE MCSl3Api ------------------------------
(* One client thread; register file of two bytes; the calls that read and     *)
(* write it and the rate.                                                      *)
EXTENDS Sl3Api

CONSTANTS a1, rd

MCApps    == {a1}
MCReader  == rd
MCClients == {"facade", "framework"}
MCReenter == {"reader"}
MCCalls ==
  {[code |-> "SetRate", offset |-> 0, count |-> 1, data |-> <<44100>>],
   [code |-> "SetRate", offset |-> 0, count |-> 1, data |-> <<48000>>],
   [code |-> "GetParam", offset |-> 0, count |-> 1, data |-> <<>>],
   [code |-> "SetControls", offset |-> 2, count |-> 1, data |-> <<9>>],
   [code |-> "SetControls", offset |-> 1, count |-> 1, data |-> <<7>>],
   [code |-> "GetControls", offset |-> 1, count |-> 1, data |-> <<>>],
   [code |-> "GetOverload", offset |-> 0, count |-> 0, data |-> <<>>]}
=============================================================================
