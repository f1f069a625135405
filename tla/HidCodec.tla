------------------------------ MODULE HidCodec ------------------------------
(***************************************************************************)
(* The codec of the HID control protocol: how a report is framed, and what *)
(* its payload means.  A report is [code, seq, payload]; the payload is a  *)
(* sequence of bytes, and what lies behind it reads as zero (reports are   *)
(* padded to 64 bytes).                                                    *)
(***************************************************************************)
EXTENDS Integers, Sequences

CONSTANTS
  HidReportLen,    \* HID_REPORT_LEN: 64
  AudioCtrlBytes   \* AUDIO_CTRL_BYTES: 22

ASSUME CodecAssumption == HidReportLen \in Nat /\ AudioCtrlBytes \in Nat

PayloadOff == 5
Rates == {44100, 48000}
ReplyCodes == {"GetStatus", "GetParam", "SetRate", "GetControls", "SetControls", "GetOverload"}

\* Mutant: Phono events are forgotten.
IsEventNoPhono(code) == code \in {"Overload", "Thru"}
IsEvent(code) == code \in {"Overload", "Phono", "Thru"}

BuildReport(code, seq, payload) == [code |-> code, seq |-> seq, payload |-> payload]
Fits(payload) == Len(payload) <= HidReportLen - PayloadOff

\* Byte i of the payload, from 1.
Byte(r, i) == IF i <= Len(r.payload) THEN r.payload[i] ELSE 0

EncodeRate(hz) == <<hz \div 256, hz % 256>>

\* Mutant: little-endian.
DecodeRateLittle(r) == Byte(r, 1) + 256 * Byte(r, 2)
DecodeRate(r) == 256 * Byte(r, 1) + Byte(r, 2)

InRange(offset, count) == offset + count <= AudioCtrlBytes

EncodeSetControls(offset, data) == <<offset, Len(data)>> \o data

DecodeControls(r, offset, count) == [i \in 1 .. count |-> Byte(r, offset + i)]

DecodeOverload(r) == [i \in 1 .. 6 |-> Byte(r, i)]
DecodeStatus(r) == Byte(r, 1)

\* What a call that sent `code` returns from the report it takes for its reply.
Decode(code, offset, count, r) ==
  CASE code = "GetParam"    -> <<DecodeRate(r)>>
    [] code = "GetControls" -> DecodeControls(r, offset, count)
    [] code = "GetOverload" -> DecodeOverload(r)
    [] code = "GetStatus"   -> <<DecodeStatus(r)>>
    [] OTHER                -> <<>>
=============================================================================
