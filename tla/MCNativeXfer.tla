---------------------------- MODULE MCNativeXfer ----------------------------
(* Two transfers: one interrupt, one isochronous.                             *)
EXTENDS NativeXfer

CONSTANTS p1, i1

MCPlain == {p1}
MCIso   == {i1}
=============================================================================
