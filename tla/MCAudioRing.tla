---------------------------- MODULE MCAudioRing ----------------------------
(* Model values for TLC.  Word is small but larger than every cursor, so a    *)
(* difference that underflows still lands far above MaxLat, as with 2^64.     *)
EXTENDS AudioRing

MCUsbTwo == {2}
============================================================================
