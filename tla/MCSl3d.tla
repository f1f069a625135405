------------------------------- MODULE MCSl3d -------------------------------
(* Rates and sets of faults for TLC.                                          *)
EXTENDS Sl3d

MCRates == {44100, 48000}

\* Everything but the capture pool emptying on a healthy device.
MCFaults == FaultKinds \ {"cap_pool"}
MCUnread == {"hid_reply"}
=============================================================================
