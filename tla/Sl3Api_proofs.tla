----------------------------- MODULE Sl3Api_proofs -----------------------------
(***************************************************************************)
(* HID commands, for any threads, calls in range, register file, reentrancy *)
(* and bounds.  Typed says what the messages, the device and the threads    *)
(* can be, Turns who holds the mutex and for what; on them rest             *)
(*   SeqsInv     a sequence number is in one place and has an owner,        *)
(*   ReadsInv    the requests on the way lead the device to the state asked *)
(*               for and the command under way to the result it expects,    *)
(*   Pacing      the cached rate is the one asked for last,                 *)
(*   EventsOnce  an event is in one place,                                  *)
(*   NoSelfWait  no thread waits for itself.                                *)
(***************************************************************************)
EXTENDS Sl3Api, FiniteSetTheorems, SequenceTheorems, TLAPS

Points == {"idle", "want", "reading", "cmdcb", "join", "incb", "top", "wantdev", "polling",
           "have", "exited"}
EventCodes == {"Overload", "Phono", "Thru"}
Messages   == [code : ReplyCodes \cup EventCodes, seq : Nat, payload : Seq(Nat)]
DevStates  == [rate : Rates, regs : [1 .. AudioCtrlBytes -> 0 .. 255]]

-----------------------------------------------------------------------------
(* Queues.                                                                     *)

LEMMA TailIs ==
  ASSUME NEW S, NEW q \in Seq(S), q # <<>>
  PROVE  /\ Tail(q) \in Seq(S) /\ Head(q) \in S /\ 1 \in DOMAIN q /\ Head(q) = q[1]
         /\ Len(Tail(q)) + 1 = Len(q)
         /\ \A i \in DOMAIN Tail(q) : i \in Nat /\ i + 1 \in DOMAIN q /\ Tail(q)[i] = q[i + 1]
  OBVIOUS

LEMMA AppendIs ==
  ASSUME NEW S, NEW q \in Seq(S), NEW e \in S
  PROVE  /\ Append(q, e) \in Seq(S) /\ Len(Append(q, e)) = Len(q) + 1
         /\ Append(q, e)[Len(q) + 1] = e /\ Len(q) + 1 \in DOMAIN Append(q, e)
         /\ \A i \in DOMAIN q : i \in DOMAIN Append(q, e) /\ Append(q, e)[i] = q[i]
         /\ \A i \in DOMAIN Append(q, e) : i \in DOMAIN q \/ i = Len(q) + 1
  OBVIOUS

-----------------------------------------------------------------------------
(* The codec.                                                                  *)

LEMMA SeqWiden ==
  ASSUME NEW S, NEW T, S \subseteq T, NEW s \in Seq(S)
  PROVE  /\ s \in Seq(T) /\ Len(s) \in Nat
         /\ \A i \in 1 .. Len(s) : s[i] \in S
  <1>1. Len(s) \in Nat /\ s \in [1 .. Len(s) -> S] BY LenProperties
  <1>2. s \in [1 .. Len(s) -> T] BY <1>1
  <1>3. s \in Seq(T) BY <1>1, <1>2, SeqDef
  <1> QED BY <1>1, <1>3

LEMMA BytesAreNats ==
  ASSUME NEW s \in Seq(0 .. 255)
  PROVE  /\ s \in Seq(Nat) /\ Len(s) \in Nat
         /\ \A i \in 1 .. Len(s) : s[i] \in 0 .. 255
  <1>1. 0 .. 255 \subseteq Nat OBVIOUS
  <1> QED BY <1>1, SeqWiden

LEMMA RateRoundTrip ==
  ASSUME NEW hz \in Rates, NEW code, NEW seq
  PROVE  /\ DecodeRate(BuildReport(code, seq, EncodeRate(hz))) = hz
         /\ EncodeRate(hz) \in Seq(Nat)
  <1>1. hz = 44100 \/ hz = 48000 BY DEF Rates
  <1>2. EncodeRate(hz) = <<hz \div 256, hz % 256>> BY DEF EncodeRate
  <1>3. hz \div 256 \in Nat /\ hz % 256 \in Nat /\ 256 * (hz \div 256) + (hz % 256) = hz
    BY <1>1
  <1>4. DecodeRate(BuildReport(code, seq, EncodeRate(hz))) = 256 * (hz \div 256) + (hz % 256)
    BY <1>2 DEF DecodeRate, BuildReport, Byte
  <1> QED BY <1>2, <1>3, <1>4

\* What a legal call sends is a message.
LEMMA PayloadTyped ==
  ASSUME NEW c \in Calls
  PROVE  Payload(c) \in Seq(Nat)
  <1>1. CASE c.code = "SetRate"
    <2>1. c.data[1] \in Rates BY <1>1, ApiAssumption
    <2> QED BY <1>1, <2>1, RateRoundTrip DEF Payload
  <1>2. CASE c.code = "SetControls"
    <2>1. c.data \in Seq(0 .. 255) /\ c.offset \in Nat BY <1>2, ApiAssumption
    <2>2. c.data \in Seq(Nat) /\ Len(c.data) \in Nat BY <2>1, BytesAreNats
    <2>3. <<c.offset, Len(c.data)>> \in Seq(Nat) BY <2>1, <2>2
    <2> QED BY <1>2, <2>2, <2>3 DEF Payload, EncodeSetControls
  <1>3. CASE c.code \notin {"SetRate", "SetControls"} BY <1>3 DEF Payload
  <1> QED BY <1>1, <1>2, <1>3

\* The bytes of a SET_CONTROLS request: offset, length, data.
LEMMA SetControlsBytes ==
  ASSUME NEW c \in Calls, c.code = "SetControls", NEW seq, NEW r,
         r = BuildReport(c.code, seq, Payload(c))
  PROVE  /\ Byte(r, 1) = c.offset /\ Byte(r, 2) = c.count
         /\ \A k \in 1 .. c.count : Byte(r, 2 + k) = c.data[k] /\ c.data[k] \in 0 .. 255
  <1>1. /\ c.data \in Seq(0 .. 255) /\ Len(c.data) = c.count /\ c.offset \in Nat
        /\ c.count \in Nat
    BY ApiAssumption
  <1>2. r.payload = <<c.offset, c.count>> \o c.data
    BY <1>1 DEF Payload, EncodeSetControls, BuildReport
  <1>3. /\ <<c.offset, c.count>> \in Seq(Nat) /\ c.data \in Seq(Nat)
        /\ \A k \in 1 .. c.count : c.data[k] \in 0 .. 255
    BY <1>1, BytesAreNats
  <1>4. /\ Len(r.payload) = 2 + c.count /\ r.payload[1] = c.offset /\ r.payload[2] = c.count
        /\ \A k \in 1 .. c.count : r.payload[2 + k] = c.data[k]
    <2> DEFINE head == <<c.offset, c.count>>
               data == c.data
    <2>1. head \in Seq(Nat) /\ data \in Seq(Nat) /\ Len(head) = 2 /\ Len(data) = c.count
      BY <1>1, <1>3
    <2>2. head[1] = c.offset /\ head[2] = c.count OBVIOUS
    <2> HIDE DEF head, data
    <2>3. r.payload = head \o data BY <1>2 DEF head, data
    <2>4. /\ Len(r.payload) = 2 + c.count
          /\ \A i \in 1 .. 2 + c.count : r.payload[i] = IF i <= 2 THEN head[i] ELSE data[i - 2]
      <3>1. /\ Len(head \o data) = Len(head) + Len(data)
            /\ \A i \in 1 .. Len(head) + Len(data) :
                 (head \o data)[i] = IF i <= Len(head) THEN head[i] ELSE data[i - Len(head)]
        BY <2>1, ConcatProperties
      <3> QED BY <2>1, <2>3, <3>1
    <2>5. r.payload[1] = c.offset /\ r.payload[2] = c.count BY <1>1, <2>2, <2>4
    <2>6. ASSUME NEW k \in 1 .. c.count PROVE r.payload[2 + k] = data[k]
      <3>1. /\ k \in Nat /\ 2 + k \in 1 .. 2 + c.count /\ ~ (2 + k <= 2)
            /\ (2 + k) - 2 = k
        BY <1>1
      <3> QED BY <2>4, <3>1
    <2> QED BY <2>4, <2>5, <2>6 DEF data
  <1>5. \A k \in 1 .. c.count : 2 + k <= Len(r.payload) /\ c.data[k] \in 0 .. 255
    BY <1>1, <1>3, <1>4
  <1> QED BY <1>1, <1>4, <1>5 DEF Byte

\* SET_CONTROLS comes back: the device's state after a request is the one meant.
LEMMA EffectMeant ==
  ASSUME NEW c \in Calls, InRange(c.offset, c.count), NEW d \in DevStates, NEW seq, NEW r,
         r = BuildReport(c.code, seq, Payload(c))
  PROVE  Effect(r, d) = Meant(c, d)
  <1>1. r.code = c.code BY DEF BuildReport
  <1>2. CASE c.code = "SetRate"
    <2>1. DecodeRate(r) = c.data[1]
      <3>1. c.data[1] \in Rates BY <1>2, ApiAssumption
      <3> QED BY <1>2, <3>1, RateRoundTrip DEF Payload
    <2> QED BY <1>1, <1>2, <2>1 DEF Effect, Meant
  <1>3. CASE c.code = "SetControls"
    <2>0. c.offset \in Nat /\ c.count \in Nat BY ApiAssumption
    <2>1. /\ Byte(r, 1) = c.offset /\ Byte(r, 2) = c.count
          /\ \A k \in 1 .. c.count : Byte(r, 2 + k) = c.data[k]
      BY <1>3, SetControlsBytes
    <2>2. DOMAIN d.regs = 1 .. AudioCtrlBytes BY DEF DevStates
    <2>3. ASSUME NEW i \in DOMAIN d.regs, i \in c.offset + 1 .. c.offset + c.count
          PROVE  Byte(r, 2 + (i - c.offset)) = c.data[i - c.offset]
      <3>1. i - c.offset \in 1 .. c.count BY <2>0, <2>3
      <3> QED BY <2>1, <3>1
    <2>4. [i \in DOMAIN d.regs |->
             IF i \in Byte(r, 1) + 1 .. Byte(r, 1) + Byte(r, 2)
             THEN Byte(r, 2 + (i - Byte(r, 1))) ELSE d.regs[i]]
          = [i \in DOMAIN d.regs |->
               IF i \in c.offset + 1 .. c.offset + c.count
               THEN c.data[i - c.offset] ELSE d.regs[i]]
      BY <2>1, <2>3
    <2> QED BY <1>1, <1>3, <2>4 DEF Effect, Meant
  <1>4. CASE c.code \notin {"SetRate", "SetControls"} BY <1>1, <1>4 DEF Effect, Meant
  <1> QED BY <1>2, <1>3, <1>4

LEMMA MeantTyped ==
  ASSUME NEW c \in Calls, InRange(c.offset, c.count), NEW d \in DevStates
  PROVE  Meant(c, d) \in DevStates
  <1>1. CASE c.code = "SetRate"
    <2>1. c.data[1] \in Rates BY <1>1, ApiAssumption
    <2> QED BY <1>1, <2>1 DEF Meant, DevStates
  <1>2. CASE c.code = "SetControls"
    <2>1. c.data \in Seq(0 .. 255) /\ Len(c.data) = c.count /\ c.offset \in Nat /\ c.count \in Nat
      BY <1>2, ApiAssumption
    <2>2. \A k \in 1 .. c.count : c.data[k] \in 0 .. 255 BY <2>1, BytesAreNats
    <2>3. \A i \in c.offset + 1 .. c.offset + c.count : i - c.offset \in 1 .. c.count BY <2>1
    <2>4. [i \in DOMAIN d.regs |->
               IF i \in c.offset + 1 .. c.offset + c.count
               THEN c.data[i - c.offset] ELSE d.regs[i]] \in [1 .. AudioCtrlBytes -> 0 .. 255]
      <3>1. d.regs \in [1 .. AudioCtrlBytes -> 0 .. 255] BY DEF DevStates
      <3>2. \A i \in 1 .. AudioCtrlBytes : d.regs[i] \in 0 .. 255 BY <3>1
      <3>3. \A i \in c.offset + 1 .. c.offset + c.count : c.data[i - c.offset] \in 0 .. 255
        BY <2>2, <2>3
      <3>4. DOMAIN d.regs = 1 .. AudioCtrlBytes BY <3>1
      <3> QED BY <3>2, <3>3, <3>4
    <2> QED BY <1>2, <2>4 DEF Meant, DevStates
  <1>3. CASE c.code \notin {"SetRate", "SetControls"} BY <1>3 DEF Meant
  <1> QED BY <1>1, <1>2, <1>3

LEMMA RegsAreNats ==
  ASSUME NEW d \in DevStates
  PROVE  d.regs \in [1 .. AudioCtrlBytes -> Nat]
  <1>1. d.regs \in [1 .. AudioCtrlBytes -> 0 .. 255] BY DEF DevStates
  <1>2. 0 .. 255 \subseteq Nat OBVIOUS
  <1> QED BY <1>1, <1>2

LEMMA ReplyTyped ==
  ASSUME NEW r \in Messages, NEW d \in DevStates, NEW junk \in Rates
  PROVE  /\ Reply(r, d, junk) \in Messages
         /\ Reply(r, d, junk).code = r.code /\ Reply(r, d, junk).seq = r.seq
  <1> DEFINE shown == IF RateReadBack THEN d.rate ELSE junk
             body == CASE r.code = "GetParam"    -> EncodeRate(shown)
                       [] r.code = "GetControls" -> d.regs
                       [] r.code = "GetStatus"   -> <<1>>
                       [] r.code = "GetOverload" -> NoOverload
                       [] OTHER                  -> <<>>
  <1>1. Reply(r, d, junk) = [code |-> r.code, seq |-> r.seq, payload |-> body]
    BY DEF Reply, BuildReport
  <1>2. EncodeRate(shown) \in Seq(Nat)
    <2>1. shown \in Rates BY DEF DevStates
    <2> QED BY <2>1, RateRoundTrip
  <1>3. d.regs \in Seq(Nat)
    <2>1. d.regs \in [1 .. AudioCtrlBytes -> Nat] BY RegsAreNats
    <2> QED BY <2>1, CodecAssumption, SeqDef
  <1>4. NoOverload \in Seq(Nat) /\ <<1>> \in Seq(Nat) BY DEF NoOverload
  <1>5. body \in Seq(Nat)
    <2>1. CASE r.code = "GetParam" BY <1>2, <2>1
    <2>2. CASE r.code = "GetControls" BY <1>3, <2>2
    <2>3. CASE r.code = "GetStatus" BY <1>4, <2>3
    <2>4. CASE r.code = "GetOverload" BY <1>4, <2>4
    <2>5. CASE r.code \notin {"GetParam", "GetControls", "GetStatus", "GetOverload"}
      <3>1. body = <<>> BY <2>5
      <3> QED BY <3>1, EmptySeq
    <2> QED BY <2>1, <2>2, <2>3, <2>4, <2>5
  <1> HIDE DEF body
  <1> QED BY <1>1, <1>5 DEF Messages

\* What the call that sent r makes of its reply is what it is meant to return.
LEMMA AnswerExpected ==
  ASSUME NEW c \in Calls, InRange(c.offset, c.count), NEW d \in DevStates, NEW r, r.code = c.code,
         NEW junk, Tells(c.code)
  PROVE  Decode(c.code, c.offset, c.count, Reply(r, Meant(c, d), junk)) = Expected(c, d)
  <1> DEFINE a == Reply(r, Meant(c, d), junk)
  <1>0. c.code \in ReplyCodes /\ c.offset \in Nat /\ c.count \in Nat BY ApiAssumption
  <1>1. CASE c.code = "GetParam"
    <2>1. a = BuildReport("GetParam", r.seq, EncodeRate(d.rate)) BY <1>1 DEF Meant, Reply, Tells
    <2>2. d.rate \in Rates BY DEF DevStates
    <2>3. DecodeRate(a) = d.rate BY <2>1, <2>2, RateRoundTrip
    <2> QED BY <1>1, <2>3 DEF Decode, Expected
  <1>2. CASE c.code = "GetControls"
    <2>1. a.payload = d.regs BY <1>2 DEF Meant, Reply, BuildReport
    <2>2. /\ d.regs \in [1 .. AudioCtrlBytes -> Nat] /\ AudioCtrlBytes \in Nat
          /\ c.offset + c.count <= AudioCtrlBytes
      BY CodecAssumption, RegsAreNats DEF InRange
    <2>3. d.regs \in Seq(Nat) /\ DOMAIN d.regs = 1 .. AudioCtrlBytes BY <2>2, SeqDef
    <2>4. Len(d.regs) = AudioCtrlBytes BY <2>2, <2>3
    <2>5. \A i \in 1 .. c.count : Byte(a, c.offset + i) = d.regs[c.offset + i]
      BY <1>0, <2>1, <2>2, <2>4 DEF Byte
    <2> DEFINE m == c.offset + 1
               n == c.offset + c.count
               read == SubSeq(d.regs, m, n)
               got  == [i \in 1 .. c.count |-> d.regs[c.offset + i]]
    <2>6. m \in Int /\ n \in Int /\ n - m + 1 = c.count /\ \A i \in m .. n : d.regs[i] \in Nat
      <3>1. /\ m \in Nat /\ n \in Nat /\ 1 <= m /\ n <= AudioCtrlBytes
            /\ n - m + 1 = c.count
        BY <1>0, <2>2
      <3>2. m .. n \subseteq 1 .. AudioCtrlBytes BY <2>2, <3>1
      <3> QED BY <2>2, <3>1, <3>2
    <2>7. /\ read \in Seq(Nat) /\ Len(read) = IF m <= n THEN n - m + 1 ELSE 0
          /\ \A i \in 1 .. n - m + 1 : read[i] = d.regs[m + i - 1]
      BY <2>6, SubSeqProperties
    <2>8. Len(read) = c.count BY <1>0, <2>6, <2>7
    <2>9. \A i \in 1 .. c.count : read[i] = d.regs[c.offset + i]
      <3>1. \A i \in 1 .. c.count : i \in 1 .. n - m + 1 /\ m + i - 1 = c.offset + i
        BY <1>0, <2>6
      <3> QED BY <2>7, <3>1
    <2>10. got \in Seq(Nat) /\ Len(got) = c.count
      <3>1. \A i \in 1 .. c.count : c.offset + i \in 1 .. AudioCtrlBytes BY <1>0, <2>2
      <3>2. got \in [1 .. c.count -> Nat] BY <2>2, <3>1
      <3>3. got \in Seq(Nat) /\ DOMAIN got = 1 .. c.count BY <1>0, <3>2, SeqDef
      <3> QED BY <1>0, <3>3
    <2>11. \A i \in 1 .. c.count : got[i] = d.regs[c.offset + i] OBVIOUS
    <2> HIDE DEF read, got
    <2>12. read = got BY <1>0, <2>7, <2>8, <2>9, <2>10, <2>11, SeqEqual
    <2>13. Decode(c.code, c.offset, c.count, a) = got
      BY <1>2, <2>5 DEF Decode, DecodeControls, got
    <2> QED BY <1>2, <2>12, <2>13 DEF Expected, read
  <1>3. CASE c.code = "GetStatus"
    <2>1. a.payload = <<1>> BY <1>3 DEF Meant, Reply, BuildReport
    <2>2. Byte(a, 1) = 1 BY <2>1 DEF Byte
    <2> QED BY <1>3, <2>2 DEF Decode, DecodeStatus, Expected
  <1>4. CASE c.code = "GetOverload"
    <2>1. a.payload = <<0, 0, 0, 0, 0, 0>> BY <1>4 DEF Meant, Reply, BuildReport, NoOverload
    <2>2. \A i \in 1 .. 6 : Byte(a, i) = 0 BY <2>1 DEF Byte
    <2>3. [i \in 1 .. 6 |-> Byte(a, i)] = [i \in 1 .. 6 |-> 0] BY <2>2
    <2>4. [i \in 1 .. 6 |-> 0] = <<0, 0, 0, 0, 0, 0>>
      <3>1. \A i \in 1 .. 6 : <<0, 0, 0, 0, 0, 0>>[i] = 0 OBVIOUS
      <3> QED BY <3>1
    <2> QED BY <1>4, <2>3, <2>4 DEF Decode, DecodeOverload, Expected, NoOverload
  <1>5. CASE c.code \in {"SetRate", "SetControls"} BY <1>5 DEF Decode, Expected
  <1> QED BY <1>0, <1>1, <1>2, <1>3, <1>4, <1>5 DEF ReplyCodes

-----------------------------------------------------------------------------
(* What the messages, the device and the threads can be, and who holds the     *)
(* mutex for what.                                                             *)
ClientTyped ==
  /\ client \in Clients /\ handle \in {"none", "open", "closed"}
  /\ running \in BOOLEAN /\ cbOn \in BOOLEAN /\ pc \in [Threads -> Points]
  /\ hidSeq \in Nat /\ cachedRate \in Rates \cup {0}
  /\ 0 \in gaveUp
  /\ cmd # Nothing => cmd.call \in Calls /\ cmd.seq \in 1 .. hidSeq
DeviceTyped ==
  /\ rate \in Rates /\ regs \in [1 .. AudioCtrlBytes -> 0 .. 255] /\ asked \in DevStates
  /\ todo \in Seq(Messages) /\ inq \in Seq(Messages)
EventOf(r, k) == r.seq = 0 /\ \E n \in 0 .. k : r.payload = <<n>>
EventsTyped ==
  /\ events \in Nat /\ held \subseteq 0 .. events
  /\ delivered \subseteq 0 .. events /\ ignored \subseteq 0 .. events
  /\ \A i \in DOMAIN inq : IsEvent(inq[i].code) => EventOf(inq[i], events)
Valid(r) ==
  /\ r.code \in ReplyCodes /\ r.seq \in 1 .. hidSeq
  /\ \A d \in DevStates : Effect(r, d) \in DevStates
RequestsValid == \A i \in DOMAIN todo : Valid(todo[i])

Typed == ClientTyped /\ DeviceTyped /\ EventsTyped /\ RequestsValid

\* The mutex has one holder; a command under way is that of the thread that holds it,
\* an event taken from the queue is in the hands of the reader, one at a time.
Turns ==
  /\ lock = {} \/ \E t \in Threads : lock = {t}
  /\ \A t \in Threads : pc[t] \in {"reading", "cmdcb"} => lock = {t} /\ cmd # Nothing
  /\ \A t \in Threads : pc[t] = "polling" => lock = {t}
  /\ cmd # Nothing => \E t \in Threads : lock = {t} /\ pc[t] \in {"reading", "cmdcb", "want"}
  /\ pc[Reader] = "have" => \E n \in 0 .. events : held = {n}
  /\ pc[Reader] # "have" => held = {}
  /\ ~Framework \/ handle = "none" => pc[Reader] = "exited"

\* The steps that send, answer, take and give up nothing.
QuietStep ==
  \/ SetCallback \/ ReaderTop \/ ReaderPoll \/ ReaderTimeout \/ ReaderDispatch
  \/ \E t \in Threads : Call(t) \/ CallbackReturns(t) \/ Close(t) \/ Join(t)
  \/ UNCHANGED vars
messageVars == <<client, cmd, hidSeq, cachedRate, todo, inq, rate, regs, asked, gaveUp,
                 misled, last, events>>

LEMMA StepCases ==
  ASSUME [Next]_vars
  PROVE  \/ Open \/ Answer \/ SendEvent \/ ReaderTake \/ QuietStep
         \/ \E t \in Threads : Send(t) \/ SendFails(t) \/ Accept(t) \/ CommandEvent(t) \/ GiveUp(t)
  BY DEF Next, QuietStep

LEMMA QuietKeeps ==
  ASSUME QuietStep
  PROVE  UNCHANGED messageVars
  BY DEF QuietStep, messageVars, SetCallback, ReaderTop, ReaderPoll, ReaderTimeout,
     ReaderDispatch, Call, CallbackReturns, Close, Join, vars, libVars, devVars, cmdVars,
     replyVars, evtVars

LEMMA PcIs ==
  ASSUME NEW f \in [Threads -> Points], NEW t \in Threads, NEW p \in Points
  PROVE  /\ [f EXCEPT ![t] = p] \in [Threads -> Points]
         /\ [f EXCEPT ![t] = p][t] = p
         /\ \A u \in Threads : u # t => [f EXCEPT ![t] = p][u] = f[u]
  OBVIOUS

LEMMA EventOfNumber ==
  ASSUME Typed, NEW i \in DOMAIN inq, IsEvent(inq[i].code)
  PROVE  /\ inq[i].payload[1] \in 0 .. events /\ inq[i].payload = <<inq[i].payload[1]>>
         /\ inq[i].seq = 0
  <1>1. PICK n \in 0 .. events : inq[i].payload = <<n>>
    BY DEF Typed, EventsTyped, EventOf
  <1>2. inq[i].payload[1] = n BY <1>1
  <1> QED BY <1>1, <1>2 DEF Typed, EventsTyped, EventOf

LEMMA ApiInit ==
  ASSUME Init
  PROVE  Typed /\ Turns
  <1>1. inq \in Seq(Messages)
    <2>1. Stale \in Messages
      <3>1. <<1>> \in Seq(Nat) OBVIOUS
      <3> QED BY <3>1 DEF Stale, BuildReport, Messages, ReplyCodes
    <2>2. Event(0) \in Messages
      <3>1. <<0>> \in Seq(Nat) OBVIOUS
      <3> QED BY <3>1 DEF Event, BuildReport, Messages, EventCodes
    <2>3. \A a, b \in Messages : <<a, b>> \in Seq(Messages) OBVIOUS
    <2>4. <<Stale, Event(0)>> \in Seq(Messages) /\ <<Event(0), Stale>> \in Seq(Messages)
      BY <2>1, <2>2, <2>3
    <2>5. <<>> \in Seq(Messages) BY EmptySeq
    <2> QED BY <2>4, <2>5 DEF Init
  <1>2. regs \in [1 .. AudioCtrlBytes -> 0 .. 255] /\ rate \in Rates BY DEF Init
  <1>3. DeviceTyped
    <2>1. todo \in Seq(Messages) BY EmptySeq DEF Init
    <2>2. asked \in DevStates BY <1>2 DEF Init, Device, DevStates
    <2> QED BY <1>1, <1>2, <2>1, <2>2 DEF DeviceTyped
  <1>4. pc \in [Threads -> Points] BY DEF Init, Points
  <1>5. ClientTyped BY <1>4 DEF Init, ClientTyped
  <1>6. EventsTyped
    <2>1. \A i \in DOMAIN inq : inq[i] = Stale \/ inq[i] = Event(0) BY DEF Init
    <2>2. ~ IsEvent(Stale.code) BY DEF Stale, BuildReport, IsEvent
    <2>3. events = 0 /\ EventOf(Event(0), 0) BY DEF Init, EventOf, Event, BuildReport
    <2> QED BY <2>1, <2>2, <2>3 DEF Init, EventsTyped
  <1>7. RequestsValid
    <2>1. DOMAIN todo = {} BY DEF Init
    <2> QED BY <2>1 DEF RequestsValid
  <1>8. Turns
    <2>1. \A t \in Threads : pc[t] \in {"exited", "idle"} BY DEF Init
    <2>2. Reader \in Threads BY DEF Threads
    <2>3. pc[Reader] = "exited" BY <2>2 DEF Init
    <2> QED BY <2>1, <2>3 DEF Turns, Init
  <1> QED BY <1>3, <1>5, <1>6, <1>7, <1>8 DEF Typed

\* A step that takes the first report, or none.
LEMMA TakenTyped ==
  ASSUME Typed, inq' = inq \/ (inq # <<>> /\ inq' = Tail(inq)), events' = events
  PROVE  /\ inq' \in Seq(Messages)
         /\ \A i \in DOMAIN inq' : IsEvent(inq'[i].code) => EventOf(inq'[i], events)
  <1>1. /\ inq \in Seq(Messages)
        /\ \A i \in DOMAIN inq : IsEvent(inq[i].code) => EventOf(inq[i], events)
    BY DEF Typed, DeviceTyped, EventsTyped
  <1>2. CASE inq' = inq BY <1>1, <1>2 DEF EventOf
  <1>3. CASE inq # <<>> /\ inq' = Tail(inq)
    <2>1. /\ Tail(inq) \in Seq(Messages)
          /\ \A i \in DOMAIN Tail(inq) : i + 1 \in DOMAIN inq /\ Tail(inq)[i] = inq[i + 1]
      BY <1>1, <1>3, TailIs
    <2> QED BY <1>1, <1>3, <2>1 DEF EventOf
  <1> QED BY <1>2, <1>3

\* Every step keeps the types of the client's variables ...
LEMMA ClientTypedStep ==
  ASSUME Typed, Turns, [Next]_vars
  PROVE  ClientTyped'
  <1>0. /\ ClientTyped /\ Reader \in Threads /\ Nothing = [code |-> "none"]
        /\ \A p \in Points, t \in Threads : [pc EXCEPT ![t] = p] \in [Threads -> Points]
    <2>1. ClientTyped BY DEF Typed
    <2>2. pc \in [Threads -> Points] BY <2>1 DEF ClientTyped
    <2> QED BY <2>1, <2>2, PcIs DEF Threads, Nothing
  <1> USE DEF ClientTyped
  <1>1. CASE Open BY <1>0, <1>1 DEF Open, cmdVars, Points
  <1>2. CASE Answer BY <1>0, <1>2 DEF Answer, libVars, cmdVars
  <1>3. CASE SendEvent BY <1>0, <1>3 DEF SendEvent, libVars, cmdVars
  <1>4. CASE ReaderTake BY <1>0, <1>4 DEF ReaderTake, libVars, cmdVars, Points
  <1>5. CASE QuietStep
    <2>1. UNCHANGED messageVars BY <1>5, QuietKeeps
    <2>2. /\ pc' \in [Threads -> Points] /\ handle' \in {"none", "open", "closed"}
          /\ running' \in BOOLEAN /\ cbOn' \in BOOLEAN
      <3>1. CASE SetCallback BY <1>0, <3>1 DEF SetCallback
      <3>2. CASE ReaderTop \/ ReaderPoll \/ ReaderTimeout
        BY <1>0, <3>2 DEF ReaderTop, ReaderPoll, ReaderTimeout, libVars, Points
      <3>3. CASE ReaderDispatch
        BY <1>0, <3>3 DEF ReaderDispatch, Dispatch, libVars, Points
      <3>4. ASSUME NEW t \in Threads, Call(t) \/ CallbackReturns(t) \/ Close(t) \/ Join(t)
            PROVE  /\ pc' \in [Threads -> Points] /\ handle' \in {"none", "open", "closed"}
                   /\ running' \in BOOLEAN /\ cbOn' \in BOOLEAN
        BY <1>0, <3>4 DEF Call, CallbackReturns, Close, Join, libVars, Points
      <3>5. CASE UNCHANGED vars BY <1>0, <3>5 DEF vars
      <3> QED BY <1>5, <3>1, <3>2, <3>3, <3>4, <3>5 DEF QuietStep
    <2> QED BY <1>0, <2>1, <2>2 DEF messageVars
  <1>6. ASSUME NEW t \in Threads,
               Send(t) \/ SendFails(t) \/ Accept(t) \/ CommandEvent(t) \/ GiveUp(t)
        PROVE  ClientTyped'
    <2>1. CASE Send(t)
      <3>1. PICK c \in Calls : cmd' = [call |-> c, seq |-> hidSeq', expect |-> Expected(c, asked)]
        BY <2>1 DEF Send
      <3>2. hidSeq' = hidSeq + 1 BY <2>1 DEF Send
      <3>3. cmd'.call \in Calls /\ cmd'.seq \in 1 .. hidSeq' BY <1>0, <3>1, <3>2
      <3> QED BY <1>0, <2>1, <3>2, <3>3 DEF Send, libVars, Points
    <2>2. Returned(t) \in Points BY DEF Returned, Points
    <2>3. CASE SendFails(t)
      BY <1>0, <2>2, <2>3 DEF SendFails, Returns, libVars
    <2>4. CASE Accept(t)
      <3>1. cmd.call \in Calls BY <1>0, <2>4 DEF Accept, Turns
      <3>2. Cached(cmd.call) \in Rates \cup {0}
        BY <1>0, <3>1, ApiAssumption DEF Cached
      <3> QED BY <1>0, <2>2, <2>4, <3>2 DEF Accept, Returns, libVars
    <2>5. CASE CommandEvent(t)
      BY <1>0, <2>5 DEF CommandEvent, Dispatch, libVars, replyVars, Points
    <2>6. CASE GiveUp(t) BY <1>0, <2>2, <2>6 DEF GiveUp, Returns, libVars
    <2> QED BY <1>6, <2>1, <2>3, <2>4, <2>5, <2>6
  <1> QED BY <1>1, <1>2, <1>3, <1>4, <1>5, <1>6, StepCases

\* What a call sends is a valid request.
LEMMA RequestTyped ==
  ASSUME NEW c \in Calls, InRange(c.offset, c.count), NEW seq \in Nat \ {0}
  PROVE  LET r == BuildReport(c.code, seq, Payload(c))
         IN  r \in Messages /\ r.code \in ReplyCodes /\ r.seq = seq
             /\ \A d \in DevStates : Effect(r, d) = Meant(c, d) /\ Effect(r, d) \in DevStates
  <1> DEFINE r == BuildReport(c.code, seq, Payload(c))
  <1>1. r = [code |-> c.code, seq |-> seq, payload |-> Payload(c)] BY DEF BuildReport
  <1>2. c.code \in ReplyCodes /\ Payload(c) \in Seq(Nat) BY ApiAssumption, PayloadTyped
  <1>3. r \in Messages /\ r.code \in ReplyCodes /\ r.seq = seq BY <1>1, <1>2 DEF Messages
  <1>4. ASSUME NEW d \in DevStates
        PROVE  Effect(r, d) = Meant(c, d) /\ Effect(r, d) \in DevStates
    BY EffectMeant, MeantTyped
  <1> QED BY <1>3, <1>4

\* An event is a message, and EventOf its number.
LEMMA EventTyped ==
  ASSUME NEW n \in Nat
  PROVE  /\ Event(n) \in Messages /\ Event(n).seq = 0 /\ Event(n).payload = <<n>>
         /\ Event(n).code \in EventCodes /\ IsEvent(Event(n).code)
  <1>1. <<n>> \in Seq(Nat) OBVIOUS
  <1> QED BY <1>1 DEF Event, BuildReport, Messages, EventCodes, IsEvent

\* The device's next state, and its reply.
LEMMA AnswerIs ==
  ASSUME Typed, Answer
  PROVE  /\ todo # <<>> /\ todo' = Tail(todo) /\ Head(todo) = todo[1] /\ 1 \in DOMAIN todo
         /\ Device' = Effect(todo[1], Device) /\ Device' \in DevStates /\ Device \in DevStates
         /\ rate' \in Rates /\ regs' \in [1 .. AudioCtrlBytes -> 0 .. 255]
         /\ \E junk \in Rates :
              LET a == Reply(todo[1], Device', junk)
              IN  /\ inq' = Append(inq, a)
                  /\ a \in Messages /\ a.seq = todo[1].seq /\ a.code = todo[1].code
  <1>1. todo # <<>> /\ todo' = Tail(todo) /\ todo \in Seq(Messages)
    BY DEF Answer, Typed, DeviceTyped
  <1>2. Head(todo) = todo[1] /\ 1 \in DOMAIN todo /\ todo[1] \in Messages BY <1>1, TailIs
  <1>3. Device \in DevStates BY DEF Typed, DeviceTyped, Device, DevStates
  <1>4. Effect(todo[1], Device) \in DevStates
    BY <1>2, <1>3 DEF Typed, RequestsValid, Valid
  <1> DEFINE d == Effect(todo[1], Device)
  <1>5. /\ rate' = d.rate /\ regs' = d.regs
        /\ \E junk \in Rates : inq' = Append(inq, Reply(todo[1], d, junk))
    BY <1>2 DEF Answer
  <1>6. d \in DevStates BY <1>4
  <1> HIDE DEF d
  <1>7. d = [rate |-> d.rate, regs |-> d.regs] BY <1>6 DEF DevStates
  <1>8. Device' = d BY <1>5, <1>7 DEF Device
  <1>9. rate' \in Rates /\ regs' \in [1 .. AudioCtrlBytes -> 0 .. 255]
    BY <1>5, <1>6 DEF DevStates
  <1>10. \A junk \in Rates : LET a == Reply(todo[1], d, junk)
                             IN  a \in Messages /\ a.seq = todo[1].seq /\ a.code = todo[1].code
    BY <1>2, <1>6, ReplyTyped
  <1> QED BY <1>1, <1>2, <1>3, <1>5, <1>6, <1>8, <1>9, <1>10 DEF d

\* A request goes out: what it does to the queue, the history and the sequence number.
LEMMA SendIs ==
  ASSUME Typed, NEW t \in Threads, Send(t)
  PROVE  \E c \in Calls, r \in Messages :
           /\ pc[t] = "want" /\ lock = {} /\ lock' = {t} /\ pc' = [pc EXCEPT ![t] = "reading"]
           /\ InRange(c.offset, c.count) /\ hidSeq' = hidSeq + 1
           /\ todo' = Append(todo, r) /\ todo' \in Seq(Messages)
           /\ r.seq = hidSeq + 1 /\ r.code = c.code /\ r.code \in ReplyCodes
           /\ \A d \in DevStates : Effect(r, d) = Meant(c, d) /\ Effect(r, d) \in DevStates
           /\ asked' = Meant(c, asked) /\ asked' \in DevStates
           /\ cmd' # Nothing /\ cmd'.call = c /\ cmd'.seq = hidSeq + 1
           /\ cmd'.expect = Expected(c, asked) /\ last' = Nothing
           /\ UNCHANGED <<client, handle, running, cbOn, cachedRate, gaveUp, misled, inq,
                          rate, regs, events, held, delivered, ignored>>
  <1>1. PICK c \in Calls :
          /\ pc[t] = "want" /\ lock = {} /\ lock' = {t} /\ pc' = [pc EXCEPT ![t] = "reading"]
          /\ InRange(c.offset, c.count) /\ hidSeq' = hidSeq + 1
          /\ todo' = Append(todo, BuildReport(c.code, hidSeq', Payload(c)))
          /\ cmd' = [call |-> c, seq |-> hidSeq', expect |-> Expected(c, asked)]
          /\ asked' = Meant(c, asked) /\ last' = Nothing
          /\ UNCHANGED <<client, handle, running, cbOn, cachedRate, gaveUp, misled, inq,
                         rate, regs, events, held, delivered, ignored>>
    BY DEF Send, libVars, evtVars
  <1> DEFINE n == hidSeq + 1
             r == BuildReport(c.code, n, Payload(c))
  <1>2. n \in Nat \ {0} BY DEF Typed, ClientTyped
  <1>3. /\ r \in Messages /\ r.code \in ReplyCodes /\ r.seq = n
        /\ \A d \in DevStates : Effect(r, d) = Meant(c, d) /\ Effect(r, d) \in DevStates
    <2> HIDE DEF n
    <2> QED BY <1>1, <1>2, RequestTyped
  <1>4. todo' = Append(todo, r) BY <1>1
  <1>5. r.code = c.code BY DEF BuildReport
  <1> HIDE DEF r
  <1>6. todo' \in Seq(Messages) BY <1>3, <1>4, AppendIs DEF Typed, DeviceTyped
  <1>7. asked' \in DevStates BY <1>1, <1>3 DEF Typed, DeviceTyped
  <1>8. cmd' # Nothing /\ cmd'.call = c /\ cmd'.seq = n /\ cmd'.expect = Expected(c, asked)
    BY <1>1 DEF Nothing
  <1> QED BY <1>1, <1>3, <1>4, <1>5, <1>6, <1>7, <1>8

\* ... of the messages and the device's ...
LEMMA DeviceTypedStep ==
  ASSUME Typed, [Next]_vars
  PROVE  DeviceTyped'
  <1>0. DeviceTyped BY DEF Typed
  <1>1. CASE Answer
    <2>1. /\ todo' = Tail(todo) /\ todo # <<>> /\ rate' \in Rates
          /\ \E a \in Messages : inq' = Append(inq, a)
          /\ regs' \in [1 .. AudioCtrlBytes -> 0 .. 255]
      BY <1>1, AnswerIs
    <2>2. todo' \in Seq(Messages) BY <1>0, <2>1, TailIs DEF DeviceTyped
    <2>3. inq' \in Seq(Messages) BY <1>0, <2>1, AppendIs DEF DeviceTyped
    <2>4. asked' = asked BY <1>1 DEF Answer, cmdVars
    <2> QED BY <1>0, <2>1, <2>2, <2>3, <2>4 DEF DeviceTyped
  <1>2. CASE SendEvent
    <2>1. inq' = Append(inq, Event(events + 1)) /\ UNCHANGED <<todo, rate, regs, asked>>
      BY <1>2 DEF SendEvent, cmdVars
    <2>2. Event(events + 1) \in Messages
      <3>1. events + 1 \in Nat BY DEF Typed, EventsTyped
      <3> QED BY <3>1, EventTyped
    <2>3. inq' \in Seq(Messages) BY <1>0, <2>1, <2>2, AppendIs DEF DeviceTyped
    <2> QED BY <1>0, <2>1, <2>3 DEF DeviceTyped
  <1>3. CASE Open \/ ReaderTake \/ \E t \in Threads : Accept(t) \/ CommandEvent(t)
    <2>1. /\ UNCHANGED <<todo, rate, regs, asked, events>>
          /\ inq' = inq \/ (inq # <<>> /\ inq' = Tail(inq))
      BY <1>3 DEF Open, ReaderTake, Accept, CommandEvent, cmdVars, replyVars, evtVars
    <2>2. inq' \in Seq(Messages) BY <2>1, TakenTyped
    <2> QED BY <1>0, <2>1, <2>2 DEF DeviceTyped
  <1>4. ASSUME NEW t \in Threads, Send(t) PROVE DeviceTyped'
    <2>1. todo' \in Seq(Messages) /\ asked' \in DevStates /\ UNCHANGED <<inq, rate, regs>>
      BY <1>4, SendIs
    <2> QED BY <1>0, <2>1 DEF DeviceTyped
  <1>5. CASE QuietStep \/ \E t \in Threads : SendFails(t) \/ GiveUp(t)
    <2>1. UNCHANGED <<todo, inq, rate, regs, asked>>
      BY <1>5, QuietKeeps DEF SendFails, GiveUp, devVars, messageVars
    <2> QED BY <1>0, <2>1 DEF DeviceTyped
  <1> QED BY <1>1, <1>2, <1>3, <1>4, <1>5, StepCases

LEMMA RequestsValidStep ==
  ASSUME Typed, [Next]_vars
  PROVE  RequestsValid'
  <1>0. /\ todo \in Seq(Messages) /\ hidSeq \in Nat
        /\ \A i \in DOMAIN todo : Valid(todo[i])
    BY DEF Typed, DeviceTyped, ClientTyped, RequestsValid
  <1>1. CASE Answer
    <2>1. todo' = Tail(todo) /\ todo # <<>> BY <1>1, AnswerIs
    <2>2. hidSeq' = hidSeq BY <1>1 DEF Answer, cmdVars
    <2>3. \A i \in DOMAIN Tail(todo) : i + 1 \in DOMAIN todo /\ Tail(todo)[i] = todo[i + 1]
      BY <1>0, <2>1, TailIs
    <2> QED BY <1>0, <2>1, <2>2, <2>3 DEF RequestsValid, Valid
  <1>2. ASSUME NEW t \in Threads, Send(t) PROVE RequestsValid'
    <2>1. PICK r \in Messages :
            /\ todo' = Append(todo, r) /\ hidSeq' = hidSeq + 1 /\ r.seq = hidSeq + 1
            /\ r.code \in ReplyCodes /\ \A d \in DevStates : Effect(r, d) \in DevStates
      BY <1>2, SendIs
    <2>2. /\ \A i \in DOMAIN Append(todo, r) : i \in DOMAIN todo \/ i = Len(todo) + 1
          /\ \A i \in DOMAIN todo : Append(todo, r)[i] = todo[i]
          /\ Append(todo, r)[Len(todo) + 1] = r
      BY <1>0, AppendIs
    <2>3. \A i \in DOMAIN todo : todo[i].seq \in 1 .. hidSeq + 1 BY <1>0 DEF Valid
    <2>4. r.seq \in 1 .. hidSeq + 1 BY <1>0, <2>1
    <2> QED BY <1>0, <2>1, <2>2, <2>3, <2>4 DEF RequestsValid, Valid
  <1>3. CASE Open \/ SendEvent \/ ReaderTake \/ QuietStep
             \/ \E t \in Threads : SendFails(t) \/ Accept(t) \/ CommandEvent(t) \/ GiveUp(t)
    <2>1. todo' = todo /\ (hidSeq' = hidSeq \/ hidSeq' = hidSeq + 1)
      BY <1>3, QuietKeeps DEF Open, SendEvent, ReaderTake, SendFails, Accept, CommandEvent,
         GiveUp, cmdVars, replyVars, devVars, messageVars
    <2>2. \A i \in DOMAIN todo : todo[i].seq \in 1 .. hidSeq' BY <1>0, <2>1 DEF Valid
    <2> QED BY <1>0, <2>1, <2>2 DEF RequestsValid, Valid
  <1> QED BY <1>1, <1>2, <1>3, StepCases

\* ... and of the events.
LEMMA EventsTypedStep ==
  ASSUME Typed, Turns, [Next]_vars
  PROVE  EventsTyped'
  <1>0. /\ inq \in Seq(Messages) /\ events \in Nat /\ held \subseteq 0 .. events
        /\ delivered \subseteq 0 .. events /\ ignored \subseteq 0 .. events
        /\ \A i \in DOMAIN inq : IsEvent(inq[i].code) => EventOf(inq[i], events)
    BY DEF Typed, DeviceTyped, EventsTyped
  <1>1. CASE Answer
    <2>1. PICK r \in Messages :
            inq' = Append(inq, r) /\ r.code = todo[1].code /\ 1 \in DOMAIN todo
      BY <1>1, AnswerIs
    <2>2. UNCHANGED <<held, events, delivered, ignored>> BY <1>1 DEF Answer, evtVars
    <2>3. ~ IsEvent(r.code)
      <3>1. r.code \in ReplyCodes BY <2>1 DEF Typed, RequestsValid, Valid
      <3> QED BY <3>1 DEF ReplyCodes, IsEvent
    <2>4. /\ \A i \in DOMAIN Append(inq, r) : i \in DOMAIN inq \/ i = Len(inq) + 1
          /\ \A i \in DOMAIN inq : Append(inq, r)[i] = inq[i]
          /\ Append(inq, r)[Len(inq) + 1] = r
      BY <1>0, <2>1, AppendIs
    <2>5. \A i \in DOMAIN inq' : IsEvent(inq'[i].code) => EventOf(inq'[i], events)
      BY <1>0, <2>1, <2>3, <2>4
    <2> QED BY <1>0, <2>2, <2>5 DEF EventsTyped, EventOf
  <1>2. CASE SendEvent
    <2> DEFINE e == Event(events + 1)
    <2>1. /\ inq' = Append(inq, e) /\ events' = events + 1
          /\ UNCHANGED <<held, delivered, ignored>>
      BY <1>2 DEF SendEvent
    <2>2. e \in Messages /\ e.seq = 0 /\ e.payload = <<events + 1>>
      <3>1. events + 1 \in Nat BY <1>0
      <3> QED BY <3>1, EventTyped
    <2> HIDE DEF e
    <2>3. /\ \A i \in DOMAIN Append(inq, e) : i \in DOMAIN inq \/ i = Len(inq) + 1
          /\ \A i \in DOMAIN inq : Append(inq, e)[i] = inq[i]
          /\ Append(inq, e)[Len(inq) + 1] = e
      BY <1>0, <2>2, AppendIs
    <2>4. EventOf(e, events + 1) BY <1>0, <2>2 DEF EventOf
    <2>5. \A i \in DOMAIN inq : EventOf(inq[i], events) => EventOf(inq[i], events + 1)
      BY <1>0 DEF EventOf
    <2>6. \A i \in DOMAIN inq' : IsEvent(inq'[i].code) => EventOf(inq'[i], events + 1)
      BY <1>0, <2>1, <2>3, <2>4, <2>5
    <2>7. 0 .. events \subseteq 0 .. events + 1 /\ events + 1 \in Nat BY <1>0
    <2> QED BY <1>0, <2>1, <2>6, <2>7 DEF EventsTyped, EventOf
  <1>3. CASE Open \/ ReaderTake \/ \E t \in Threads : Accept(t) \/ CommandEvent(t)
    <2>1. /\ events' = events
          /\ inq' = inq \/ (inq # <<>> /\ inq' = Tail(inq))
      BY <1>3 DEF Open, ReaderTake, Accept, CommandEvent, evtVars
    <2>2. \A i \in DOMAIN inq' : IsEvent(inq'[i].code) => EventOf(inq'[i], events)
      BY <2>1, TakenTyped
    <2>3. inq # <<>> => 1 \in DOMAIN inq /\ Head(inq) = inq[1] /\ Head(inq) \in Messages
      BY <1>0, TailIs
    <2>4. inq # <<>> /\ IsEvent(Head(inq).code) => Head(inq).payload[1] \in 0 .. events
      BY <2>3, EventOfNumber
    <2>5. inq # <<>> /\ Head(inq).code \notin ReplyCodes => IsEvent(Head(inq).code)
      BY <2>3 DEF Messages, EventCodes, IsEvent
    <2>6. held' \subseteq 0 .. events /\ delivered' \subseteq 0 .. events /\ ignored' \subseteq 0 .. events
      <3>1. CASE Open BY <1>0, <3>1 DEF Open, evtVars
      <3>2. CASE ReaderTake BY <1>0, <2>4, <3>2 DEF ReaderTake
      <3>3. ASSUME NEW t \in Threads, Accept(t) \/ CommandEvent(t)
            PROVE  /\ held' \subseteq 0 .. events /\ delivered' \subseteq 0 .. events
                   /\ ignored' \subseteq 0 .. events
        <4>1. CASE Accept(t) BY <1>0, <2>4, <2>5, <4>1 DEF Accept
        <4>2. CASE CommandEvent(t) BY <1>0, <2>4, <4>2 DEF CommandEvent, Dispatch
        <4> QED BY <3>3, <4>1, <4>2
      <3> QED BY <1>3, <3>1, <3>2, <3>3
    <2> QED BY <1>0, <2>1, <2>2, <2>6 DEF EventsTyped, EventOf
  <1>4. CASE QuietStep \/ \E t \in Threads : Send(t) \/ SendFails(t) \/ GiveUp(t)
    <2>1. UNCHANGED <<inq, events>>
      BY <1>4, QuietKeeps DEF Send, SendFails, GiveUp, devVars, evtVars, messageVars
    <2>2. /\ held' \subseteq 0 .. events /\ delivered' \subseteq 0 .. events
          /\ ignored' \subseteq 0 .. events
      <3>1. CASE ReaderDispatch BY <1>0, <3>1 DEF ReaderDispatch, Dispatch
      <3>2. CASE ~ ReaderDispatch
        <4>1. UNCHANGED <<held, delivered, ignored>>
          BY <1>4, <3>2 DEF QuietStep, SetCallback, ReaderTop, ReaderPoll, ReaderTimeout, Call,
             CallbackReturns, Close, Join, vars, Send, SendFails, GiveUp, evtVars
        <4> QED BY <1>0, <4>1
      <3> QED BY <3>1, <3>2
    <2> QED BY <1>0, <2>1, <2>2 DEF EventsTyped, EventOf
  <1> QED BY <1>1, <1>2, <1>3, <1>4, StepCases

LEMMA TypedStep ==
  ASSUME Typed, Turns, [Next]_vars
  PROVE  Typed'
  BY ClientTypedStep, DeviceTypedStep, EventsTypedStep, RequestsValidStep DEF Typed

LEMMA TurnsStep ==
  ASSUME Typed, Turns, [Next]_vars
  PROVE  Turns'
  <1>0. /\ pc \in [Threads -> Points] /\ Reader \in Threads /\ events \in Nat
        /\ Framework <=> client = "framework"
    BY DEF Typed, ClientTyped, EventsTyped, Threads, Framework
  <1> USE DEF Turns, Framework
  <1>1. CASE Open BY <1>0, <1>1 DEF Open, cmdVars, evtVars
  <1>2. CASE Answer BY <1>0, <1>2 DEF Answer, libVars, cmdVars, evtVars
  <1>3. CASE SendEvent
    <2>1. \A n \in 0 .. events : n \in 0 .. events + 1 BY <1>0
    <2> QED BY <1>0, <1>3, <2>1 DEF SendEvent, libVars, cmdVars
  <1>4. CASE ReaderTake
    <2>1. Head(inq).payload[1] \in 0 .. events \/ ~ IsEvent(Head(inq).code)
      <3>1. inq # <<>> /\ inq \in Seq(Messages) BY <1>4 DEF ReaderTake, Typed, DeviceTyped
      <3>2. 1 \in DOMAIN inq /\ Head(inq) = inq[1] BY <3>1, TailIs
      <3> QED BY <3>2, EventOfNumber
    <2>2. /\ pc[Reader] = "polling" /\ lock' = {} /\ UNCHANGED <<client, handle, cmd, events>>
          /\ \/ pc' = [pc EXCEPT ![Reader] = "have"] /\ \E n \in 0 .. events : held' = {n}
             \/ pc' = [pc EXCEPT ![Reader] = "top"] /\ held' = held
      BY <1>4, <2>1 DEF ReaderTake, Unlocked, libVars, cmdVars
    <2>3. cmd = Nothing BY <1>0, <2>2
    <2> QED BY <1>0, <2>2, <2>3
  <1>5. CASE ReaderTop BY <1>0, <1>5 DEF ReaderTop, libVars, cmdVars, evtVars
  <1>6. CASE ReaderPoll BY <1>0, <1>6 DEF ReaderPoll, libVars, cmdVars, evtVars
  <1>7. CASE ReaderTimeout
    <2>1. /\ pc[Reader] = "polling" /\ lock' = {} /\ UNCHANGED <<client, handle, cmd, events, held>>
          /\ pc' = [pc EXCEPT ![Reader] = "top"]
      BY <1>7 DEF ReaderTimeout, libVars, cmdVars, evtVars
    <2>2. cmd = Nothing BY <1>0, <2>1
    <2> QED BY <1>0, <2>1, <2>2
  <1>8. CASE ReaderDispatch
    <2>1. /\ pc[Reader] = "have" /\ held' = {} /\ UNCHANGED <<client, handle, cmd, events, lock>>
          /\ \E p \in {"incb", "top"} : pc' = [pc EXCEPT ![Reader] = p]
      BY <1>8 DEF ReaderDispatch, Dispatch, libVars, cmdVars
    <2> QED BY <1>0, <2>1
  <1>9. CASE SetCallback \/ UNCHANGED vars
    BY <1>0, <1>9 DEF SetCallback, cmdVars, evtVars, vars
  <1>10. ASSUME NEW t \in Threads, Call(t) \/ CallbackReturns(t) \/ Close(t) \/ Join(t)
         PROVE  Turns'
    <2>1. CASE Call(t)
      <3>1. pc[t] \in {"idle", "incb", "cmdcb"} /\ pc' = [pc EXCEPT ![t] = "want"]
            /\ UNCHANGED <<client, handle, cmd, events, held, lock>>
        BY <2>1 DEF Call, MayCall, libVars, cmdVars, evtVars
      <3> QED BY <1>0, <3>1
    <2>2. CASE CallbackReturns(t)
      <3>1. /\ UNCHANGED <<client, handle, cmd, events, held, lock>>
            /\ \/ pc[t] = "cmdcb" /\ pc' = [pc EXCEPT ![t] = "reading"]
               \/ pc[t] = "incb" /\ pc' = [pc EXCEPT ![t] = "top"]
        BY <1>0, <2>2 DEF CallbackReturns, libVars, cmdVars, evtVars
      <3> QED BY <1>0, <3>1
    <2>3. CASE Close(t) \/ Join(t)
      <3>1. /\ UNCHANGED <<client, cmd, events, held, lock>>
            /\ handle' = "none" => handle = "none"
            /\ pc[t] \in {"idle", "incb", "join"}
            /\ \E p \in {"idle", "join"} : pc' = [pc EXCEPT ![t] = p]
        BY <2>3 DEF Close, Join, cmdVars, evtVars
      <3> QED BY <1>0, <3>1
    <2> QED BY <1>10, <2>1, <2>2, <2>3
  <1>11. ASSUME NEW t \in Threads,
                Send(t) \/ SendFails(t) \/ Accept(t) \/ CommandEvent(t) \/ GiveUp(t)
         PROVE  Turns'
    <2>1. CASE Send(t)
      <3>1. /\ pc[t] = "want" /\ lock = {} /\ lock' = {t} /\ pc' = [pc EXCEPT ![t] = "reading"]
            /\ cmd' # Nothing /\ UNCHANGED <<client, handle, events, held>>
        BY <2>1, SendIs
      <3> QED BY <1>0, <3>1
    <2>2. CASE SendFails(t) \/ Accept(t) \/ GiveUp(t)
      <3>1. /\ (pc[t] = "want" /\ lock = {}) \/ pc[t] = "reading"
            /\ lock' = {} /\ cmd' = Nothing /\ UNCHANGED <<client, handle, events, held>>
            /\ pc' = [pc EXCEPT ![t] = Returned(t)] /\ Returned(t) \in {"idle", "incb"}
        BY <2>2 DEF SendFails, Accept, GiveUp, Returns, Returned, libVars, evtVars
      <3>2. pc[t] = "reading" => lock = {t} BY <1>0
      <3> QED BY <1>0, <3>1, <3>2
    <2>3. CASE CommandEvent(t)
      <3>1. /\ pc[t] = "reading" /\ UNCHANGED <<client, handle, cmd, events, held, lock>>
            /\ \E p \in {"cmdcb", "reading"} : pc' = [pc EXCEPT ![t] = p]
        BY <2>3 DEF CommandEvent, Dispatch, libVars
      <3> QED BY <1>0, <3>1
    <2> QED BY <1>11, <2>1, <2>2, <2>3
  <1> QED BY <1>1, <1>2, <1>3, <1>4, <1>5, <1>6, <1>7, <1>8, <1>9, <1>10, <1>11, StepCases
          DEF QuietStep

-----------------------------------------------------------------------------
(* A sequence number is spoken for before it is used: what is sent, and what   *)
(* threads wait to send, is within the bound.                                  *)
Wanting == {u \in Threads : pc[u] = "want"}
CmdsBounded == hidSeq + Cardinality(Wanting) <= MaxCmds

LEMMA WantingFinite ==
  /\ IsFiniteSet(Wanting) /\ Cardinality(Wanting) \in Nat
  <1>1. IsFiniteSet(Threads) BY ApiAssumption, FS_AddElement DEF Threads
  <1>2. Wanting \in SUBSET Threads BY DEF Wanting
  <1>3. IsFiniteSet(Wanting) BY <1>1, <1>2, FS_Subset
  <1> QED BY <1>3, FS_CardinalityType

LEMMA CmdsBoundedStep ==
  ASSUME Typed, Turns, CmdsBounded, [Next]_vars
  PROVE  CmdsBounded'
  <1>0. /\ hidSeq \in Nat /\ MaxCmds \in Nat /\ pc \in [Threads -> Points]
        /\ Reader \in Threads
    BY ApiAssumption DEF Typed, ClientTyped, Threads
  <1>1. /\ IsFiniteSet(Wanting) /\ Cardinality(Wanting) \in Nat
        /\ hidSeq + Cardinality(Wanting) <= MaxCmds
    BY WantingFinite DEF CmdsBounded
  <1>2. ASSUME NEW t \in Threads, Send(t) \/ SendFails(t) PROVE CmdsBounded'
    <2>1. pc[t] = "want" /\ \E p \in Points \ {"want"} : pc' = [pc EXCEPT ![t] = p]
      <3>1. "reading" \in Points \ {"want"} /\ Returned(t) \in Points \ {"want"}
        BY DEF Points, Returned
      <3> QED BY <1>2, <3>1 DEF Send, SendFails, Returns
    <2>2. Wanting' = Wanting \ {t} /\ t \in Wanting BY <1>0, <2>1 DEF Wanting
    <2>3. Cardinality(Wanting \ {t}) = Cardinality(Wanting) - 1
      BY <1>1, <2>2, FS_RemoveElement
    <2>4. hidSeq' = hidSeq + 1 BY <1>2 DEF Send, SendFails
    <2>5. (hidSeq + 1) + (Cardinality(Wanting) - 1) <= MaxCmds BY <1>0, <1>1
    <2> QED BY <2>2, <2>3, <2>4, <2>5 DEF CmdsBounded
  <1>3. ASSUME NEW t \in Threads, Call(t) PROVE CmdsBounded'
    <2>1. /\ pc' = [pc EXCEPT ![t] = "want"] /\ pc[t] # "want" /\ hidSeq' = hidSeq
          /\ hidSeq + Cardinality(Wanting) < MaxCmds
      BY <1>3 DEF Call, MayCall, cmdVars, Wanting
    <2>2. Wanting' = Wanting \cup {t} /\ t \notin Wanting BY <1>0, <2>1 DEF Wanting
    <2>3. Cardinality(Wanting \cup {t}) = Cardinality(Wanting) + 1 BY <1>1, <2>2, FS_AddElement
    <2>4. hidSeq + (Cardinality(Wanting) + 1) <= MaxCmds BY <1>0, <1>1, <2>1
    <2> QED BY <2>1, <2>2, <2>3, <2>4 DEF CmdsBounded
  <1>4. CASE ~ \E t \in Threads : Send(t) \/ SendFails(t) \/ Call(t)
    <2>1. /\ hidSeq' = hidSeq
          /\ pc' = pc \/ \E t \in Threads, p \in Points \ {"want"} : pc' = [pc EXCEPT ![t] = p]
      <3> USE DEF Points, libVars, cmdVars, replyVars, devVars, Dispatch, vars
      <3>1. \A t \in Threads : Returned(t) \in Points \ {"want"} BY DEF Returned
      <3>2. CASE Open \/ Answer \/ SendEvent \/ ReaderTake
        BY <1>0, <3>2 DEF Open, Answer, SendEvent, ReaderTake
      <3>3. CASE SetCallback \/ ReaderTop \/ ReaderPoll \/ ReaderTimeout \/ ReaderDispatch
        BY <1>0, <3>3 DEF SetCallback, ReaderTop, ReaderPoll, ReaderTimeout, ReaderDispatch
      <3>4. ASSUME NEW t \in Threads, CallbackReturns(t) \/ Close(t) \/ Join(t)
            PROVE  /\ hidSeq' = hidSeq
                   /\ \E p \in Points \ {"want"} : pc' = [pc EXCEPT ![t] = p]
        BY <1>0, <3>4 DEF CallbackReturns, Close, Join
      <3>5. ASSUME NEW t \in Threads, Accept(t) \/ CommandEvent(t) \/ GiveUp(t)
            PROVE  /\ hidSeq' = hidSeq
                   /\ \E p \in Points \ {"want"} : pc' = [pc EXCEPT ![t] = p]
        BY <1>0, <3>1, <3>5 DEF Accept, CommandEvent, GiveUp, Returns
      <3>6. CASE UNCHANGED vars BY <3>6
      <3> QED BY <1>4, <3>2, <3>3, <3>4, <3>5, <3>6, StepCases DEF QuietStep
    <2>2. Wanting' \in SUBSET Wanting BY <1>0, <2>1 DEF Wanting
    <2>3. Cardinality(Wanting') <= Cardinality(Wanting) /\ Cardinality(Wanting') \in Nat
      <3>1. Cardinality(Wanting') <= Cardinality(Wanting) /\ IsFiniteSet(Wanting')
        BY <1>1, <2>2, FS_Subset
      <3> QED BY <3>1, FS_CardinalityType
    <2>4. PICK n \in Nat : n = Cardinality(Wanting') BY <2>3
    <2>5. hidSeq + n <= MaxCmds BY <1>0, <1>1, <2>3, <2>4
    <2> QED BY <2>1, <2>4, <2>5 DEF CmdsBounded
  <1> QED BY <1>2, <1>3, <1>4

(* Every reachable state is typed, for any threads, calls, reentrancy and bounds: *)
(* no more commands are sent than were admitted, one thread holds the mutex, and  *)
(* every event seen was sent.                                                     *)
THEOREM Typing == Spec => []TypeOK
  <1>1. Init => Typed /\ Turns /\ CmdsBounded
    <2> SUFFICES ASSUME Init PROVE CmdsBounded BY ApiInit
    <2>1. Wanting = {} BY DEF Init, Wanting
    <2>2. hidSeq = 0 /\ MaxCmds \in Nat BY ApiAssumption DEF Init
    <2> QED BY <2>1, <2>2, FS_EmptySet DEF CmdsBounded
  <1>2. Typed /\ Turns /\ CmdsBounded /\ [Next]_vars => Typed' /\ Turns' /\ CmdsBounded'
    BY TypedStep, TurnsStep, CmdsBoundedStep
  <1>3. Typed /\ Turns /\ CmdsBounded => TypeOK
    <2> SUFFICES ASSUME Typed, Turns, CmdsBounded PROVE TypeOK OBVIOUS
    <2>1. /\ handle \in {"none", "open", "closed"} /\ running \in BOOLEAN /\ cbOn \in BOOLEAN
          /\ \A t \in Threads : pc[t] \in Points
          /\ cachedRate \in Rates \cup {0} /\ rate \in Rates
          /\ \A i \in DOMAIN regs : regs[i] \in 0 .. 255
          /\ held \subseteq 0 .. events /\ delivered \cup ignored \subseteq 0 .. events
      <3>1. /\ handle \in {"none", "open", "closed"} /\ running \in BOOLEAN /\ cbOn \in BOOLEAN
            /\ pc \in [Threads -> Points] /\ cachedRate \in Rates \cup {0}
        BY DEF Typed, ClientTyped
      <3>2. rate \in Rates /\ regs \in [1 .. AudioCtrlBytes -> 0 .. 255]
        BY DEF Typed, DeviceTyped
      <3>3. held \subseteq 0 .. events /\ delivered \cup ignored \subseteq 0 .. events
        BY DEF Typed, EventsTyped
      <3>4. \A i \in DOMAIN regs : regs[i] \in 0 .. 255 BY <3>2
      <3> QED BY <3>1, <3>2, <3>3, <3>4
    <2>2. lock \subseteq Threads /\ Cardinality(lock) <= 1
      <3>1. CASE lock = {} BY <3>1, FS_EmptySet
      <3>2. CASE lock # {}
        <4>1. PICK t \in Threads : lock = {t} BY <3>2 DEF Turns
        <4> QED BY <4>1, FS_Singleton
      <3> QED BY <3>1, <3>2
    <2>3. hidSeq \in 0 .. MaxCmds
      <3>1. hidSeq \in Nat /\ MaxCmds \in Nat BY ApiAssumption DEF Typed, ClientTyped
      <3>2. Cardinality(Wanting) \in Nat /\ hidSeq + Cardinality(Wanting) <= MaxCmds
        BY WantingFinite DEF CmdsBounded
      <3> QED BY <3>1, <3>2
    <2> QED BY <2>1, <2>2, <2>3 DEF TypeOK, Points
  <1> QED BY <1>1, <1>2, <1>3, PTL DEF Spec

-----------------------------------------------------------------------------
(* Whose a reply is.  A sequence number is on one request or one reply, never  *)
(* on two, and it is that of the command under way or of an earlier one that   *)
(* returned without its own reply.                                             *)
Owners == gaveUp \cup misled \cup (IF cmd = Nothing THEN {} ELSE {cmd.seq})

SeqsOnce ==
  /\ \A i \in DOMAIN inq : inq[i].seq \in 0 .. hidSeq
  /\ \A i, j \in DOMAIN todo : i # j => todo[i].seq # todo[j].seq
  /\ \A i, j \in DOMAIN inq : i # j => inq[i].seq = 0 \/ inq[i].seq # inq[j].seq
  /\ \A i \in DOMAIN inq, j \in DOMAIN todo : inq[i].seq # todo[j].seq
SeqsOwned ==
  /\ \A i \in DOMAIN todo : todo[i].seq \in Owners
  /\ \A i \in DOMAIN inq : inq[i].seq \in Owners

SeqsInv == SeqsOnce /\ SeqsOwned /\ ReplyIsOursOrLate

\* Taking the first report of the queue, or none.
LEMMA SeqsTaken ==
  ASSUME Typed, SeqsInv, inq' = inq \/ (inq # <<>> /\ inq' = Tail(inq)),
         UNCHANGED <<client, cmd, hidSeq, todo, gaveUp, misled, last>>
  PROVE  SeqsInv'
  <1>1. inq \in Seq(Messages) BY DEF Typed, DeviceTyped
  <1>2. CASE inq' = inq
    BY <1>2 DEF SeqsInv, SeqsOnce, SeqsOwned, Owners, ReplyIsOursOrLate, Framework
  <1>3. CASE inq # <<>> /\ inq' = Tail(inq)
    <2>1. \A i \in DOMAIN Tail(inq) : i \in Nat /\ i + 1 \in DOMAIN inq /\ Tail(inq)[i] = inq[i + 1]
      BY <1>1, <1>3, TailIs
    <2>2. \A i, j \in DOMAIN Tail(inq) : i # j => i + 1 # j + 1 BY <2>1
    <2>3. SeqsOnce' BY <1>3, <2>1, <2>2 DEF SeqsInv, SeqsOnce
    <2>4. SeqsOwned' BY <1>3, <2>1 DEF SeqsInv, SeqsOwned, Owners
    <2> QED BY <2>3, <2>4 DEF SeqsInv, ReplyIsOursOrLate, Framework
  <1> QED BY <1>2, <1>3

LEMMA SeqsAnswer ==
  ASSUME Typed, SeqsInv, Answer
  PROVE  SeqsInv'
  <1>1. PICK r \in Messages :
          /\ todo # <<>> /\ todo' = Tail(todo) /\ 1 \in DOMAIN todo
          /\ inq' = Append(inq, r) /\ r.seq = todo[1].seq
    BY AnswerIs
  <1>2. UNCHANGED <<client, cmd, hidSeq, gaveUp, misled, last>>
    BY DEF Answer, libVars, cmdVars
  <1>3. /\ inq \in Seq(Messages) /\ todo \in Seq(Messages) /\ hidSeq \in Nat
        /\ todo[1].seq \in 1 .. hidSeq
    BY <1>1 DEF Typed, DeviceTyped, ClientTyped, RequestsValid, Valid
  <1>4. \A i \in DOMAIN Tail(todo) :
          i \in Nat /\ i + 1 \in DOMAIN todo /\ Tail(todo)[i] = todo[i + 1] /\ i + 1 # 1
    BY <1>1, <1>3, TailIs
  <1>5. \A i \in DOMAIN Append(inq, r) :
          (i \in DOMAIN inq /\ Append(inq, r)[i] = inq[i])
          \/ (i = Len(inq) + 1 /\ Append(inq, r)[i] = r)
    BY <1>1, <1>3, AppendIs
  <1>6. \A i, j \in DOMAIN Tail(todo) : i # j => i + 1 # j + 1 BY <1>4
  <1>7. SeqsOnce'
    <2>1. \A i \in DOMAIN inq' : inq'[i].seq \in 0 .. hidSeq
      BY <1>1, <1>3, <1>5 DEF SeqsInv, SeqsOnce
    <2>2. \A i, j \in DOMAIN todo' : i # j => todo'[i].seq # todo'[j].seq
      BY <1>1, <1>4, <1>6 DEF SeqsInv, SeqsOnce
    <2>3. \A i, j \in DOMAIN inq' : i # j => inq'[i].seq = 0 \/ inq'[i].seq # inq'[j].seq
      BY <1>1, <1>5 DEF SeqsInv, SeqsOnce
    <2>4. \A i \in DOMAIN inq', j \in DOMAIN todo' : inq'[i].seq # todo'[j].seq
      BY <1>1, <1>4, <1>5 DEF SeqsInv, SeqsOnce
    <2> QED BY <1>2, <2>1, <2>2, <2>3, <2>4 DEF SeqsOnce
  <1>8. SeqsOwned'
    <2>1. \A i \in DOMAIN todo' : todo'[i].seq \in Owners BY <1>1, <1>4 DEF SeqsInv, SeqsOwned
    <2>2. \A i \in DOMAIN inq' : inq'[i].seq \in Owners BY <1>1, <1>5 DEF SeqsInv, SeqsOwned
    <2> QED BY <1>2, <2>1, <2>2 DEF SeqsOwned, Owners
  <1> QED BY <1>2, <1>7, <1>8 DEF SeqsInv, ReplyIsOursOrLate, Framework

LEMMA SeqsSendEvent ==
  ASSUME Typed, SeqsInv, SendEvent
  PROVE  SeqsInv'
  <1> DEFINE e == Event(events + 1)
  <1>1. inq' = Append(inq, e) /\ UNCHANGED <<client, cmd, hidSeq, todo, gaveUp, misled, last>>
    BY DEF SendEvent, libVars, cmdVars
  <1>2. e \in Messages /\ e.seq = 0
    <2>1. events + 1 \in Nat BY DEF Typed, EventsTyped
    <2> QED BY <2>1, EventTyped
  <1> HIDE DEF e
  <1>3. /\ inq \in Seq(Messages) /\ hidSeq \in Nat /\ 0 \in Owners
        /\ \A j \in DOMAIN todo : todo[j].seq \in 1 .. hidSeq
    BY DEF Typed, DeviceTyped, ClientTyped, RequestsValid, Valid, Owners
  <1>4. \A i \in DOMAIN Append(inq, e) :
          (i \in DOMAIN inq /\ Append(inq, e)[i] = inq[i])
          \/ (i = Len(inq) + 1 /\ Append(inq, e)[i] = e)
    BY <1>2, <1>3, AppendIs
  <1>5. \A j \in DOMAIN todo : todo[j].seq # 0 BY <1>3
  <1>6. SeqsOnce'
    <2>1. \A i \in DOMAIN inq' : inq'[i].seq \in 0 .. hidSeq
      BY <1>1, <1>2, <1>3, <1>4 DEF SeqsInv, SeqsOnce
    <2>2. \A i, j \in DOMAIN inq' : i # j => inq'[i].seq = 0 \/ inq'[i].seq # inq'[j].seq
      BY <1>1, <1>2, <1>4 DEF SeqsInv, SeqsOnce
    <2>3. \A i \in DOMAIN inq', j \in DOMAIN todo : inq'[i].seq # todo[j].seq
      BY <1>1, <1>2, <1>4, <1>5 DEF SeqsInv, SeqsOnce
    <2> QED BY <1>1, <2>1, <2>2, <2>3 DEF SeqsInv, SeqsOnce
  <1>7. SeqsOwned'
    <2>1. \A i \in DOMAIN inq' : inq'[i].seq \in Owners
      BY <1>1, <1>2, <1>3, <1>4 DEF SeqsInv, SeqsOwned
    <2> QED BY <1>1, <2>1 DEF SeqsInv, SeqsOwned, Owners
  <1> QED BY <1>1, <1>6, <1>7 DEF SeqsInv, ReplyIsOursOrLate, Framework

\* No command is under way while the mutex is free.
LEMMA FreeMeansNone ==
  ASSUME Turns, lock = {}
  PROVE  cmd = Nothing
  BY DEF Turns

LEMMA SeqsSend ==
  ASSUME Typed, Turns, SeqsInv, NEW t \in Threads, Send(t)
  PROVE  SeqsInv'
  <1>1. PICK r \in Messages :
          /\ lock = {} /\ todo' = Append(todo, r) /\ hidSeq' = hidSeq + 1 /\ r.seq = hidSeq + 1
          /\ cmd' # Nothing /\ cmd'.seq = hidSeq + 1 /\ last' = Nothing
          /\ UNCHANGED <<client, gaveUp, misled, inq>>
    BY SendIs
  <1>2. /\ todo \in Seq(Messages) /\ hidSeq \in Nat
        /\ \A j \in DOMAIN todo : todo[j].seq \in 1 .. hidSeq
        /\ \A j \in DOMAIN inq : inq[j].seq \in 0 .. hidSeq
    BY DEF Typed, DeviceTyped, ClientTyped, RequestsValid, Valid, SeqsInv, SeqsOnce
  <1>3. \A i \in DOMAIN Append(todo, r) :
          (i \in DOMAIN todo /\ Append(todo, r)[i] = todo[i])
          \/ (i = Len(todo) + 1 /\ Append(todo, r)[i] = r)
    BY <1>2, AppendIs
  <1>4. /\ \A j \in DOMAIN todo : todo[j].seq # r.seq
        /\ \A j \in DOMAIN inq : inq[j].seq # r.seq /\ inq[j].seq \in 0 .. hidSeq + 1
    BY <1>1, <1>2
  <1>5. SeqsOnce'
    <2>1. \A i, j \in DOMAIN todo' : i # j => todo'[i].seq # todo'[j].seq
      BY <1>1, <1>3, <1>4 DEF SeqsInv, SeqsOnce
    <2>2. \A i \in DOMAIN inq, j \in DOMAIN todo' : inq[i].seq # todo'[j].seq
      BY <1>1, <1>3, <1>4 DEF SeqsInv, SeqsOnce
    <2> QED BY <1>1, <1>4, <2>1, <2>2 DEF SeqsInv, SeqsOnce
  <1>6. SeqsOwned'
    <2>1. cmd = Nothing BY <1>1, FreeMeansNone
    <2>2. Owners \subseteq Owners' /\ r.seq \in Owners' BY <1>1, <2>1 DEF Owners
    <2>3. \A i \in DOMAIN todo' : todo'[i].seq \in Owners'
      BY <1>1, <1>3, <2>2 DEF SeqsInv, SeqsOwned
    <2> QED BY <1>1, <2>2, <2>3 DEF SeqsInv, SeqsOwned
  <1> QED BY <1>1, <1>5, <1>6 DEF SeqsInv, ReplyIsOursOrLate

\* A command that ends without a report: it has given up, or was never sent.
LEMMA SeqsGiveUp ==
  ASSUME Typed, Turns, SeqsInv, NEW t \in Threads, SendFails(t) \/ GiveUp(t)
  PROVE  SeqsInv'
  <1>1. /\ UNCHANGED <<client, todo, inq, misled, last>> /\ cmd' = Nothing
        /\ gaveUp \subseteq gaveUp'
        /\ cmd = Nothing \/ cmd.seq \in gaveUp'
    <2>1. CASE SendFails(t)
      <3>1. cmd = Nothing BY <2>1, FreeMeansNone DEF SendFails
      <3> QED BY <2>1, <3>1 DEF SendFails, Returns, libVars, devVars
    <2>2. CASE GiveUp(t) BY <2>2 DEF GiveUp, Returns, libVars, devVars
    <2> QED BY <2>1, <2>2
  <1>2. hidSeq' = hidSeq \/ hidSeq' = hidSeq + 1 BY DEF SendFails, GiveUp
  <1>3. 0 .. hidSeq \subseteq 0 .. hidSeq'
    <2>1. hidSeq \in Nat BY DEF Typed, ClientTyped
    <2> QED BY <1>2, <2>1
  <1>4. SeqsOnce' BY <1>1, <1>3 DEF SeqsInv, SeqsOnce
  <1>5. Owners \subseteq Owners' BY <1>1 DEF Owners
  <1>6. SeqsOwned' BY <1>1, <1>5 DEF SeqsInv, SeqsOwned
  <1> QED BY <1>1, <1>4, <1>6 DEF SeqsInv, ReplyIsOursOrLate, Framework

\* The first report is taken for the reply.
LEMMA AcceptIs ==
  ASSUME Typed, Turns, NEW t \in Threads, Accept(t)
  PROVE  /\ inq \in Seq(Messages) /\ inq # <<>> /\ inq' = Tail(inq)
         /\ 1 \in DOMAIN inq /\ Head(inq) = inq[1] /\ inq[1] \in Messages
         /\ cmd # Nothing /\ cmd' = Nothing /\ cmd.seq \in 1 .. hidSeq
         /\ last' = [code |-> inq[1].code, seq |-> inq[1].seq,
                     call |-> cmd.call.code, cmd |-> cmd.seq, expect |-> cmd.expect,
                     value |-> Decode(cmd.call.code, cmd.call.offset, cmd.call.count, inq[1])]
         /\ misled' = IF inq[1].seq = cmd.seq THEN misled ELSE misled \cup {cmd.seq}
         /\ client = "framework" => ~ IsEvent(inq[1].code)
         /\ cachedRate' = Cached(cmd.call)
         /\ UNCHANGED <<client, handle, hidSeq, todo, gaveUp, asked, rate, regs, events, held>>
  <1>1. inq # <<>> /\ inq \in Seq(Messages) BY DEF Accept, Typed, DeviceTyped
  <1>2. 1 \in DOMAIN inq /\ Head(inq) = inq[1] /\ inq[1] \in Messages BY <1>1, TailIs
  <1>3. cmd # Nothing /\ cmd.seq \in 1 .. hidSeq BY DEF Accept, Turns, Typed, ClientTyped
  <1> QED BY <1>1, <1>2, <1>3 DEF Accept, Returns, libVars

LEMMA SeqsAccept ==
  ASSUME Typed, Turns, SeqsInv, NEW t \in Threads, Accept(t)
  PROVE  SeqsInv'
  <1>1. /\ inq \in Seq(Messages) /\ inq # <<>> /\ inq' = Tail(inq)
        /\ 1 \in DOMAIN inq /\ inq[1] \in Messages
        /\ cmd # Nothing /\ cmd' = Nothing /\ cmd.seq \in 1 .. hidSeq
        /\ last'.seq = inq[1].seq /\ last'.cmd = cmd.seq /\ last'.code = inq[1].code
        /\ misled' = IF inq[1].seq = cmd.seq THEN misled ELSE misled \cup {cmd.seq}
        /\ client = "framework" => ~ IsEvent(inq[1].code)
        /\ UNCHANGED <<client, hidSeq, todo, gaveUp>>
    BY AcceptIs
  <1>2. \A i \in DOMAIN Tail(inq) :
          i \in Nat /\ i + 1 \in DOMAIN inq /\ Tail(inq)[i] = inq[i + 1] /\ i + 1 # 1
    BY <1>1, TailIs
  <1>3. \A i, j \in DOMAIN Tail(inq) : i # j => i + 1 # j + 1 BY <1>2
  <1>4. SeqsOnce' BY <1>1, <1>2, <1>3 DEF SeqsInv, SeqsOnce
  <1>5. 0 \in gaveUp BY DEF Typed, ClientTyped
  <1>6. SeqsOwned'
    <2>1. Owners = gaveUp \cup misled \cup {cmd.seq} /\ Owners' = gaveUp \cup misled'
      BY <1>1 DEF Owners
    <2>2. CASE inq[1].seq # cmd.seq
      <3>1. Owners' = Owners BY <1>1, <2>1, <2>2
      <3> QED BY <1>1, <1>2, <3>1 DEF SeqsInv, SeqsOwned
    <2>3. CASE inq[1].seq = cmd.seq
      <3>1. Owners' = gaveUp \cup misled BY <1>1, <2>1, <2>3
      <3>2. \A i \in DOMAIN todo : todo[i].seq \in Owners /\ todo[i].seq # cmd.seq
        BY <1>1, <2>3 DEF SeqsInv, SeqsOwned, SeqsOnce
      <3>3. \A i \in DOMAIN Tail(inq) :
              Tail(inq)[i].seq \in Owners /\ (Tail(inq)[i].seq = 0 \/ Tail(inq)[i].seq # cmd.seq)
        BY <1>1, <1>2, <2>3 DEF SeqsInv, SeqsOwned, SeqsOnce
      <3> QED BY <1>1, <1>5, <2>1, <3>1, <3>2, <3>3 DEF SeqsOwned
    <2> QED BY <2>2, <2>3
  <1>7. ReplyIsOursOrLate'
    <2>1. inq[1].seq \in Owners BY <1>1 DEF SeqsInv, SeqsOwned
    <2>2. last'.seq \in {last'.cmd} \cup gaveUp' \cup misled' BY <1>1, <2>1 DEF Owners
    <2>3. client = "framework" => last'.code \in ReplyCodes
      BY <1>1 DEF Messages, EventCodes, IsEvent
    <2> QED BY <1>1, <2>2, <2>3 DEF ReplyIsOursOrLate, Framework
  <1> QED BY <1>4, <1>6, <1>7 DEF SeqsInv

LEMMA SeqsStep ==
  ASSUME Typed, Turns, SeqsInv, [Next]_vars
  PROVE  SeqsInv'
  <1>1. CASE Open \/ ReaderTake \/ \E t \in Threads : CommandEvent(t)
    <2>1. /\ inq' = inq \/ (inq # <<>> /\ inq' = Tail(inq))
          /\ UNCHANGED <<client, cmd, hidSeq, todo, gaveUp, misled, last>>
      BY <1>1 DEF Open, ReaderTake, CommandEvent, libVars, cmdVars, replyVars
    <2> QED BY <2>1, SeqsTaken
  <1>2. CASE QuietStep
    <2>1. UNCHANGED messageVars BY <1>2, QuietKeeps
    <2> QED BY <2>1, SeqsTaken DEF messageVars
  <1> QED BY <1>1, <1>2, SeqsAnswer, SeqsSendEvent, SeqsSend, SeqsGiveUp, SeqsAccept, StepCases

LEMMA SeqsInit == Init => SeqsInv
  <1> SUFFICES ASSUME Init PROVE SeqsInv OBVIOUS
  <1>1. \A i \in DOMAIN inq : inq[i].seq = 0
    <2>1. \A i \in DOMAIN inq : inq[i] = Stale \/ inq[i] = Event(0) BY DEF Init
    <2>2. Stale.seq = 0 /\ Event(0).seq = 0 BY DEF Stale, Event, BuildReport
    <2> QED BY <2>1, <2>2
  <1>2. DOMAIN todo = {} /\ hidSeq = 0 /\ gaveUp = {0} /\ last = Nothing BY DEF Init
  <1> QED BY <1>1, <1>2 DEF SeqsInv, SeqsOnce, SeqsOwned, Owners, ReplyIsOursOrLate

(* A report that a command takes for its reply is its own or the answer to an      *)
(* earlier command that returned without its own, and in the framework it is never *)
(* an event, for any threads, calls, reentrancy and lateness of the device.        *)
THEOREM ReplyIsOursOrLateHolds == Spec => []ReplyIsOursOrLate
  <1>1. Init => Typed /\ Turns BY ApiInit
  <1>2. Typed /\ Turns /\ SeqsInv /\ [Next]_vars => Typed' /\ Turns' /\ SeqsInv'
    BY TypedStep, TurnsStep, SeqsStep
  <1>3. SeqsInv => ReplyIsOursOrLate BY DEF SeqsInv
  <1> QED BY <1>1, <1>2, <1>3, SeqsInit, PTL DEF Spec

-----------------------------------------------------------------------------
(* What a reply says.  The states ds the device goes through while it answers  *)
(* the requests it has yet to process lead from its state to the one the       *)
(* client has asked for, and give the command under way the result it expects. *)
OwnAnswer(c, r) ==
  Tells(c.call.code) => Decode(c.call.code, c.call.offset, c.call.count, r) = c.expect

Replays(ds, q, from, to) ==
  /\ ds \in [1 .. Len(q) + 1 -> DevStates]
  /\ ds[1] = from /\ ds[Len(q) + 1] = to
  /\ \A i \in DOMAIN q : ds[i + 1] = Effect(q[i], ds[i])
Foretold(c, q, ds) ==
  c # Nothing => \A i \in DOMAIN q, junk \in Rates :
                   q[i].seq = c.seq => OwnAnswer(c, Reply(q[i], ds[i + 1], junk))

Chain == \E ds \in [1 .. Len(todo) + 1 -> DevStates] :
           Replays(ds, todo, Device, asked) /\ Foretold(cmd, todo, ds)
OwnAnswers ==
  cmd # Nothing => \A i \in DOMAIN inq : inq[i].seq = cmd.seq => OwnAnswer(cmd, inq[i])

ReadsInv == Chain /\ OwnAnswers /\ ReadsSeeWrites

\* The first request done, the others lead on from the state it leaves.
LEMMA ReplayFirst ==
  ASSUME NEW q \in Seq(Messages), q # <<>>, NEW from, NEW to, NEW c,
         NEW ds, Replays(ds, q, from, to), Foretold(c, q, ds)
  PROVE  /\ ds[2] = Effect(q[1], from)
         /\ c # Nothing /\ q[1].seq = c.seq =>
              \A junk \in Rates : OwnAnswer(c, Reply(q[1], ds[2], junk))
         /\ \E es \in [1 .. Len(Tail(q)) + 1 -> DevStates] :
              Replays(es, Tail(q), ds[2], to) /\ Foretold(c, Tail(q), es)
  <1> DEFINE es == [i \in 1 .. Len(Tail(q)) + 1 |-> ds[i + 1]]
  <1>1. /\ Tail(q) \in Seq(Messages) /\ 1 \in DOMAIN q /\ Len(Tail(q)) + 1 = Len(q)
        /\ \A i \in DOMAIN Tail(q) : i \in Nat /\ i + 1 \in DOMAIN q /\ Tail(q)[i] = q[i + 1]
    BY TailIs
  <1>2. Len(q) \in Nat /\ DOMAIN q = 1 .. Len(q) /\ DOMAIN Tail(q) = 1 .. Len(Tail(q))
        /\ Len(Tail(q)) \in Nat
    BY <1>1, LenProperties
  <1>3. /\ ds \in [1 .. Len(q) + 1 -> DevStates] /\ ds[1] = from /\ ds[Len(q) + 1] = to
        /\ \A i \in DOMAIN q : ds[i + 1] = Effect(q[i], ds[i])
    BY DEF Replays
  <1>4. \A i \in 1 .. Len(Tail(q)) + 1 : es[i] = ds[i + 1] /\ i + 1 \in 1 .. Len(q) + 1
    BY <1>1, <1>2
  <1>5. es \in [1 .. Len(Tail(q)) + 1 -> DevStates] BY <1>3, <1>4
  <1>6. 1 + 1 = 2 OBVIOUS
  <1>7. ds[2] = Effect(q[1], from) BY <1>1, <1>3, <1>6
  <1>8. c # Nothing => \A i \in DOMAIN q, junk \in Rates :
                         q[i].seq = c.seq => OwnAnswer(c, Reply(q[i], ds[i + 1], junk))
    BY DEF Foretold
  <1>9. c # Nothing /\ q[1].seq = c.seq =>
          \A junk \in Rates : OwnAnswer(c, Reply(q[1], ds[2], junk))
    BY <1>1, <1>6, <1>8
  <1>10. \A i \in DOMAIN Tail(q) :
           /\ i \in 1 .. Len(Tail(q)) + 1 /\ i + 1 \in 1 .. Len(Tail(q)) + 1
           /\ es[i] = ds[i + 1] /\ es[i + 1] = ds[(i + 1) + 1]
    BY <1>2, <1>4
  <1>11. es[1] = ds[2] /\ es[Len(Tail(q)) + 1] = ds[Len(q) + 1]
    BY <1>1, <1>2, <1>4, <1>6
  <1> HIDE DEF es
  <1>12. Replays(es, Tail(q), ds[2], to)
    <2>1. \A i \in DOMAIN Tail(q) : es[i + 1] = Effect(Tail(q)[i], es[i])
      BY <1>1, <1>3, <1>10
    <2> QED BY <1>3, <1>5, <1>11, <2>1 DEF Replays
  <1>13. Foretold(c, Tail(q), es)
    <2>1. ASSUME c # Nothing, NEW i \in DOMAIN Tail(q), NEW junk \in Rates, Tail(q)[i].seq = c.seq
          PROVE  OwnAnswer(c, Reply(Tail(q)[i], es[i + 1], junk))
      BY <1>1, <1>8, <1>10, <2>1
    <2> QED BY <2>1 DEF Foretold
  <1> QED BY <1>5, <1>7, <1>9, <1>12, <1>13

\* A request sent leads one state further; it is the one command c answers to.
LEMMA ReplayLast ==
  ASSUME NEW q \in Seq(Messages), NEW r \in Messages, NEW from, NEW to, NEW c, NEW ds,
         Replays(ds, q, from, to), Effect(r, to) \in DevStates,
         \A i \in DOMAIN q : q[i].seq # c.seq,
         \A junk \in Rates : OwnAnswer(c, Reply(r, Effect(r, to), junk))
  PROVE  \E es \in [1 .. Len(Append(q, r)) + 1 -> DevStates] :
           /\ Replays(es, Append(q, r), from, Effect(r, to))
           /\ Foretold(c, Append(q, r), es)
  <1> DEFINE n  == Len(q)
             es == [i \in 1 .. n + 2 |-> IF i = n + 2 THEN Effect(r, to) ELSE ds[i]]
  <1>1. n \in Nat /\ DOMAIN q = 1 .. n BY LenProperties
  <1>2. /\ Append(q, r) \in Seq(Messages) /\ Len(Append(q, r)) = n + 1
        /\ \A i \in DOMAIN Append(q, r) :
             \/ i \in DOMAIN q /\ Append(q, r)[i] = q[i]
             \/ i = n + 1 /\ Append(q, r)[i] = r
    BY AppendIs
  <1>3. /\ ds \in [1 .. n + 1 -> DevStates] /\ ds[1] = from /\ ds[n + 1] = to
        /\ \A i \in DOMAIN q : ds[i + 1] = Effect(q[i], ds[i])
    BY DEF Replays
  <1>4. /\ \A i \in 1 .. n + 1 : i \in 1 .. n + 2 /\ i # n + 2
        /\ n + 2 \in 1 .. n + 2 /\ \A i \in 1 .. n + 2 : i = n + 2 \/ i \in 1 .. n + 1
        /\ 1 \in 1 .. n + 1 /\ n + 1 \in 1 .. n + 1 /\ (n + 1) + 1 = n + 2
        /\ \A i \in 1 .. n : i \in 1 .. n + 1 /\ i + 1 \in 1 .. n + 1
    BY <1>1
  <1>5. es[n + 2] = Effect(r, to) /\ \A i \in 1 .. n + 1 : es[i] = ds[i] BY <1>4
  <1>6. es \in [1 .. n + 2 -> DevStates] BY <1>3, <1>4, <1>5
  <1> HIDE DEF es, n
  <1>7. \A i \in DOMAIN Append(q, r) : es[i + 1] = Effect(Append(q, r)[i], es[i])
    <2>1. \A i \in DOMAIN q : es[i + 1] = Effect(q[i], es[i]) BY <1>1, <1>3, <1>4, <1>5
    <2>2. es[(n + 1) + 1] = Effect(r, es[n + 1]) BY <1>3, <1>4, <1>5
    <2> QED BY <1>2, <2>1, <2>2
  <1>8. Replays(es, Append(q, r), from, Effect(r, to))
    BY <1>2, <1>3, <1>4, <1>5, <1>6, <1>7 DEF Replays
  <1>9. Foretold(c, Append(q, r), es)
    <2>1. ASSUME NEW i \in DOMAIN Append(q, r), NEW junk \in Rates, Append(q, r)[i].seq = c.seq
          PROVE  OwnAnswer(c, Reply(Append(q, r)[i], es[i + 1], junk))
      <3>1. i = n + 1 /\ Append(q, r)[i] = r BY <1>2, <2>1
      <3> QED BY <1>4, <1>5, <3>1
    <2> QED BY <2>1 DEF Foretold
  <1> QED BY <1>2, <1>4, <1>6, <1>8, <1>9

\* No report with the sequence number of the command under way is added to the queue.
LEMMA ReadsTaken ==
  ASSUME Typed, ReadsInv, inq' = inq \/ (inq # <<>> /\ inq' = Tail(inq)),
         UNCHANGED <<cmd, todo, rate, regs, asked, last>>
  PROVE  ReadsInv'
  <1>1. inq \in Seq(Messages) BY DEF Typed, DeviceTyped
  <1>2. Device' = Device BY DEF Device
  <1>3. Chain' BY <1>2 DEF ReadsInv, Chain
  <1>4. OwnAnswers'
    <2>1. CASE inq' = inq BY <2>1 DEF ReadsInv, OwnAnswers
    <2>2. CASE inq # <<>> /\ inq' = Tail(inq)
      <3>1. \A i \in DOMAIN Tail(inq) : i + 1 \in DOMAIN inq /\ Tail(inq)[i] = inq[i + 1]
        BY <1>1, <2>2, TailIs
      <3> QED BY <2>2, <3>1 DEF ReadsInv, OwnAnswers
    <2> QED BY <2>1, <2>2
  <1> QED BY <1>3, <1>4 DEF ReadsInv, ReadsSeeWrites

LEMMA ReadsAnswer ==
  ASSUME Typed, ReadsInv, Answer
  PROVE  ReadsInv'
  <1>1. PICK junk \in Rates, r \in Messages :
          /\ todo # <<>> /\ todo' = Tail(todo) /\ Device' = Effect(todo[1], Device)
          /\ inq' = Append(inq, r) /\ r.seq = todo[1].seq /\ r = Reply(todo[1], Device', junk)
    BY AnswerIs
  <1>2. UNCHANGED <<cmd, asked, last>> BY DEF Answer, cmdVars
  <1>3. inq \in Seq(Messages) /\ todo \in Seq(Messages) BY DEF Typed, DeviceTyped
  <1>4. PICK ds : Replays(ds, todo, Device, asked) /\ Foretold(cmd, todo, ds)
    BY DEF ReadsInv, Chain
  <1>5. /\ ds[2] = Device'
        /\ cmd # Nothing /\ r.seq = cmd.seq => OwnAnswer(cmd, r)
        /\ \E es \in [1 .. Len(Tail(todo)) + 1 -> DevStates] :
             Replays(es, Tail(todo), Device', asked) /\ Foretold(cmd, Tail(todo), es)
    BY <1>1, <1>3, <1>4, ReplayFirst
  <1>6. Chain' BY <1>1, <1>2, <1>5 DEF Chain
  <1>7. \A i \in DOMAIN Append(inq, r) :
          (i \in DOMAIN inq /\ Append(inq, r)[i] = inq[i])
          \/ (i = Len(inq) + 1 /\ Append(inq, r)[i] = r)
    BY <1>1, <1>3, AppendIs
  <1>8. cmd # Nothing => \A i \in DOMAIN Append(inq, r) :
          Append(inq, r)[i].seq = cmd.seq => OwnAnswer(cmd, Append(inq, r)[i])
    BY <1>5, <1>7 DEF ReadsInv, OwnAnswers
  <1>9. OwnAnswers' BY <1>1, <1>2, <1>8 DEF OwnAnswers
  <1> QED BY <1>2, <1>6, <1>9 DEF ReadsInv, ReadsSeeWrites

LEMMA ReadsSendEvent ==
  ASSUME Typed, ReadsInv, SendEvent
  PROVE  ReadsInv'
  <1> DEFINE e == Event(events + 1)
  <1>1. inq' = Append(inq, e) /\ UNCHANGED <<cmd, todo, rate, regs, asked, last>>
    BY DEF SendEvent, cmdVars
  <1>2. e \in Messages /\ e.seq = 0
    <2>1. events + 1 \in Nat BY DEF Typed, EventsTyped
    <2> QED BY <2>1, EventTyped
  <1> HIDE DEF e
  <1>3. inq \in Seq(Messages) /\ (cmd # Nothing => cmd.seq # 0)
    BY DEF Typed, DeviceTyped, ClientTyped
  <1>4. \A i \in DOMAIN Append(inq, e) :
          (i \in DOMAIN inq /\ Append(inq, e)[i] = inq[i])
          \/ (i = Len(inq) + 1 /\ Append(inq, e)[i] = e)
    BY <1>2, <1>3, AppendIs
  <1>5. cmd # Nothing => \A i \in DOMAIN Append(inq, e) :
          Append(inq, e)[i].seq = cmd.seq => OwnAnswer(cmd, Append(inq, e)[i])
    BY <1>2, <1>3, <1>4 DEF ReadsInv, OwnAnswers
  <1>6. Chain' BY <1>1 DEF ReadsInv, Chain, Device
  <1> QED BY <1>1, <1>5, <1>6 DEF ReadsInv, OwnAnswers, ReadsSeeWrites

LEMMA ReadsSend ==
  ASSUME Typed, SeqsOnce, ReadsInv, NEW t \in Threads, Send(t)
  PROVE  ReadsInv'
  <1>1. PICK c \in Calls, r \in Messages :
          /\ InRange(c.offset, c.count)
          /\ todo' = Append(todo, r) /\ r.seq = hidSeq + 1 /\ r.code = c.code
          /\ \A d \in DevStates : Effect(r, d) = Meant(c, d) /\ Effect(r, d) \in DevStates
          /\ asked' = Meant(c, asked)
          /\ cmd' # Nothing /\ cmd'.call = c /\ cmd'.seq = hidSeq + 1
          /\ cmd'.expect = Expected(c, asked) /\ last' = Nothing
          /\ UNCHANGED <<inq, rate, regs>>
    BY SendIs
  <1>2. /\ todo \in Seq(Messages) /\ asked \in DevStates /\ hidSeq \in Nat
        /\ \A j \in DOMAIN todo : todo[j].seq \in 1 .. hidSeq
        /\ \A j \in DOMAIN inq : inq[j].seq \in 0 .. hidSeq
    BY DEF Typed, DeviceTyped, ClientTyped, RequestsValid, Valid, SeqsOnce
  <1>3. PICK c2 : c2 = cmd' OBVIOUS
  <1>4. /\ \A j \in DOMAIN todo : todo[j].seq # c2.seq
        /\ \A j \in DOMAIN inq : inq[j].seq # c2.seq
    BY <1>1, <1>2, <1>3
  <1>5. asked' = Effect(r, asked) /\ Effect(r, asked) \in DevStates BY <1>1, <1>2
  <1>6. \A junk \in Rates : OwnAnswer(c2, Reply(r, Effect(r, asked), junk))
    <2>1. \A junk \in Rates : Tells(c.code) =>
            Decode(c.code, c.offset, c.count, Reply(r, Meant(c, asked), junk)) = Expected(c, asked)
      BY <1>1, <1>2, AnswerExpected
    <2>2. c2.call = c /\ c2.expect = Expected(c, asked) /\ Effect(r, asked) = Meant(c, asked)
      BY <1>1, <1>2, <1>3
    <2> QED BY <2>1, <2>2 DEF OwnAnswer
  <1>7. PICK ds : Replays(ds, todo, Device, asked) /\ Foretold(cmd, todo, ds)
    BY DEF ReadsInv, Chain
  <1>8. \E es \in [1 .. Len(Append(todo, r)) + 1 -> DevStates] :
          /\ Replays(es, Append(todo, r), Device, Effect(r, asked))
          /\ Foretold(c2, Append(todo, r), es)
    BY <1>2, <1>4, <1>5, <1>6, <1>7, ReplayLast
  <1>9. Device' = Device BY <1>1 DEF Device
  <1>10. Chain' BY <1>1, <1>3, <1>5, <1>8, <1>9 DEF Chain
  <1>11. OwnAnswers' BY <1>1, <1>3, <1>4 DEF OwnAnswers
  <1> QED BY <1>1, <1>10, <1>11 DEF ReadsInv, ReadsSeeWrites

\* A command that ends, with a report or without.
LEMMA ReadsEnd ==
  ASSUME Typed, Turns, ReadsInv, NEW t \in Threads, SendFails(t) \/ Accept(t) \/ GiveUp(t)
  PROVE  ReadsInv'
  <1>1. cmd' = Nothing /\ UNCHANGED <<todo, rate, regs, asked>>
    BY DEF SendFails, Accept, GiveUp, Returns, devVars
  <1>2. Chain' BY <1>1 DEF ReadsInv, Chain, Replays, Foretold, Device
  <1>3. OwnAnswers' BY <1>1 DEF OwnAnswers
  <1>4. ReadsSeeWrites'
    <2>1. CASE Accept(t)
      <3>1. /\ cmd # Nothing /\ 1 \in DOMAIN inq
            /\ last'.seq = inq[1].seq /\ last'.cmd = cmd.seq /\ last'.expect = cmd.expect
            /\ last'.call = cmd.call.code
            /\ last'.value = Decode(cmd.call.code, cmd.call.offset, cmd.call.count, inq[1])
        BY <2>1, AcceptIs
      <3> QED BY <3>1 DEF ReadsInv, OwnAnswers, OwnAnswer, ReadsSeeWrites
    <2>2. CASE SendFails(t) \/ GiveUp(t)
      BY <2>2 DEF SendFails, GiveUp, ReadsInv, ReadsSeeWrites
    <2> QED BY <2>1, <2>2
  <1> QED BY <1>2, <1>3, <1>4 DEF ReadsInv

LEMMA ReadsStep ==
  ASSUME Typed, Turns, SeqsInv, ReadsInv, [Next]_vars
  PROVE  ReadsInv'
  <1>1. CASE Open \/ ReaderTake \/ \E t \in Threads : CommandEvent(t)
    <2>1. /\ inq' = inq \/ (inq # <<>> /\ inq' = Tail(inq))
          /\ UNCHANGED <<cmd, todo, rate, regs, asked, last>>
      BY <1>1 DEF Open, ReaderTake, CommandEvent, libVars, cmdVars, replyVars
    <2> QED BY <2>1, ReadsTaken
  <1>2. CASE QuietStep
    <2>1. UNCHANGED messageVars BY <1>2, QuietKeeps
    <2> QED BY <2>1, ReadsTaken DEF messageVars
  <1> QED BY <1>1, <1>2, ReadsAnswer, ReadsSendEvent, ReadsSend, ReadsEnd, StepCases DEF SeqsInv

LEMMA ReadsInit == Init => ReadsInv
  <1> SUFFICES ASSUME Init PROVE ReadsInv OBVIOUS
  <1> DEFINE ds == [i \in 1 .. 1 |-> Device]
  <1>1. todo = <<>> /\ cmd = Nothing /\ last = Nothing /\ asked = Device BY DEF Init
  <1>2. asked \in DevStates
    <2>1. Typed BY ApiInit
    <2> QED BY <2>1 DEF Typed, DeviceTyped
  <1>3. Len(todo) + 1 = 1 /\ DOMAIN todo = {} BY <1>1
  <1>4. ds \in [1 .. 1 -> DevStates] /\ ds[1] = Device BY <1>1, <1>2
  <1> HIDE DEF ds
  <1>5. Replays(ds, todo, Device, asked) /\ Foretold(cmd, todo, ds)
    BY <1>1, <1>3, <1>4 DEF Replays, Foretold
  <1>6. Chain BY <1>3, <1>4, <1>5 DEF Chain
  <1> QED BY <1>1, <1>6 DEF ReadsInv, OwnAnswers, ReadsSeeWrites

(* A call that got its own reply returns what the device held after every request *)
(* sent before it, whatever other commands gave up, got another's reply or were   *)
(* made from callbacks, for any calls in range and any register file; the rate     *)
(* only on a device that reads it back (RateReadBack).                            *)
THEOREM ReadsSeeWritesHolds == Spec => []ReadsSeeWrites
  <1>1. Init => Typed /\ Turns BY ApiInit
  <1>2. Typed /\ Turns /\ SeqsInv /\ ReadsInv /\ [Next]_vars
        => Typed' /\ Turns' /\ SeqsInv' /\ ReadsInv'
    BY TypedStep, TurnsStep, SeqsStep, ReadsStep
  <1>3. ReadsInv => ReadsSeeWrites BY DEF ReadsInv
  <1> QED BY <1>1, <1>2, <1>3, SeqsInit, ReadsInit, PTL DEF Spec

-----------------------------------------------------------------------------
(* The rate the facade paces at.  Until a command has failed, it is the one    *)
(* asked for last, or a SetRate under way is about to make it that.            *)
Setting == cmd # Nothing /\ cmd.call.code = "SetRate"
Pacing ==
  ~Framework /\ gaveUp = {0} =>
    /\ Setting => asked.rate = cmd.call.data[1]
    /\ ~Setting => cachedRate \in {0, asked.rate}

LEMMA PacingStep ==
  ASSUME Typed, Turns, Pacing, [Next]_vars
  PROVE  Pacing'
  <1>1. CASE UNCHANGED <<client, gaveUp, cmd, asked, cachedRate>>
    BY <1>1 DEF Pacing, Setting, Framework
  <1>2. CASE Open \/ Answer \/ SendEvent \/ ReaderTake \/ QuietStep
             \/ \E t \in Threads : CommandEvent(t)
    <2>1. UNCHANGED <<client, gaveUp, cmd, asked, cachedRate>>
      BY <1>2, QuietKeeps DEF Open, Answer, SendEvent, ReaderTake, CommandEvent, libVars,
         cmdVars, replyVars, messageVars
    <2> QED BY <1>1, <2>1
  <1>3. ASSUME NEW t \in Threads, Send(t) PROVE Pacing'
    <2>1. PICK c \in Calls :
            /\ lock = {} /\ asked' = Meant(c, asked) /\ cmd' # Nothing /\ cmd'.call = c
            /\ UNCHANGED <<client, gaveUp, cachedRate>>
      BY <1>3, SendIs
    <2>2. cmd = Nothing BY <2>1, FreeMeansNone
    <2>3. asked \in DevStates BY DEF Typed, DeviceTyped
    <2>4. Meant(c, asked).rate = IF c.code = "SetRate" THEN c.data[1] ELSE asked.rate
      BY <2>3 DEF Meant, DevStates
    <2> QED BY <2>1, <2>2, <2>4 DEF Pacing, Setting, Framework
  <1>4. ASSUME NEW t \in Threads, SendFails(t) \/ GiveUp(t) PROVE Pacing'
    <2>1. \E n \in Nat \ {0} : n \in gaveUp'
      <3>1. CASE SendFails(t)
        <4>1. hidSeq + 1 \in Nat \ {0} /\ hidSeq + 1 \in gaveUp'
          BY <3>1 DEF SendFails, Typed, ClientTyped
        <4> QED BY <4>1
      <3>2. CASE GiveUp(t)
        <4>1. cmd # Nothing /\ cmd.seq \in gaveUp' BY <3>2 DEF GiveUp, Turns
        <4>2. cmd.seq \in Nat \ {0} BY <4>1 DEF Typed, ClientTyped
        <4> QED BY <4>1, <4>2
      <3> QED BY <1>4, <3>1, <3>2
    <2>2. gaveUp' # {0} BY <2>1
    <2> QED BY <2>2 DEF Pacing
  <1>5. ASSUME NEW t \in Threads, Accept(t) PROVE Pacing'
    <2>1. /\ cmd # Nothing /\ cmd' = Nothing /\ cachedRate' = Cached(cmd.call)
          /\ UNCHANGED <<client, gaveUp, asked>>
      BY <1>5, AcceptIs
    <2>2. ~ Framework => client = "facade"
      BY ApiAssumption DEF Framework, Typed, ClientTyped
    <2> QED BY <2>1, <2>2 DEF Pacing, Setting, Cached, Framework
  <1> QED BY <1>2, <1>3, <1>4, <1>5, StepCases

(* When every command has got a reply and the device has answered them all, the    *)
(* facade paces at the rate the device runs at, or none was set yet, also when a   *)
(* reply was taken for another command's.                                          *)
THEOREM PacingFollowsHolds == Spec => []PacingFollows
  <1>1. Init => Typed /\ Turns BY ApiInit
  <1>2. Init => Pacing BY DEF Init, Pacing, Setting
  <1>3. Typed /\ Turns /\ SeqsInv /\ ReadsInv /\ Pacing /\ [Next]_vars
        => Typed' /\ Turns' /\ SeqsInv' /\ ReadsInv' /\ Pacing'
    BY TypedStep, TurnsStep, SeqsStep, ReadsStep, PacingStep
  <1>4. Turns /\ ReadsInv /\ Pacing => PacingFollows
    <2> SUFFICES ASSUME Turns, Chain, Pacing, ~Framework, todo = <<>>, gaveUp = {0},
                        \A t \in Apps : pc[t] = "idle"
                 PROVE  cachedRate \in {0, rate}
      BY DEF PacingFollows, ReadsInv
    <2>1. pc[Reader] = "exited" BY DEF Turns
    <2>2. cmd = Nothing
      <3>1. \A t \in Threads : pc[t] \in {"idle", "exited"} BY <2>1 DEF Threads
      <3> QED BY <3>1 DEF Turns
    <2>3. asked = Device
      <3>1. PICK ds : Replays(ds, todo, Device, asked) BY DEF Chain
      <3>2. Len(todo) + 1 = 1 OBVIOUS
      <3> QED BY <3>1, <3>2 DEF Replays
    <2>4. asked.rate = rate BY <2>3 DEF Device
    <2> QED BY <2>2, <2>4 DEF Pacing, Setting
  <1> QED BY <1>1, <1>2, <1>3, <1>4, SeqsInit, ReadsInit, PTL DEF Spec

-----------------------------------------------------------------------------
(* Where an event is: queued, in the reader's hands, called back, or met with  *)
(* no callback.                                                                *)
Queued(q, n) == \E i \in DOMAIN q : IsEvent(q[i].code) /\ q[i].payload = <<n>>
Distinct(q) ==
  \A i, j \in DOMAIN q : i # j /\ IsEvent(q[i].code) /\ IsEvent(q[j].code) =>
    q[i].payload # q[j].payload
OnePlace(n) ==
  /\ Queued(inq, n) \/ n \in held \/ n \in delivered \/ n \in ignored
  /\ Queued(inq, n) => n \notin held /\ n \notin delivered /\ n \notin ignored
  /\ n \in held => n \notin delivered /\ n \notin ignored
  /\ n \in delivered => n \notin ignored

EventsOnce ==
  /\ handle = "none" => events = 0
  /\ Distinct(inq)
  /\ Framework => \A n \in 1 .. events : OnePlace(n)

LEMMA QueueTaken ==
  ASSUME NEW q \in Seq(Messages), q # <<>>, Distinct(q)
  PROVE  /\ Distinct(Tail(q)) /\ Head(q) = q[1] /\ 1 \in DOMAIN q
         /\ \A n : Queued(Tail(q), n) <=>
              Queued(q, n) /\ ~ (IsEvent(q[1].code) /\ q[1].payload = <<n>>)
  <1>1. /\ 1 \in DOMAIN q /\ Head(q) = q[1]
        /\ \A i \in DOMAIN Tail(q) :
             i \in Nat /\ i + 1 \in DOMAIN q /\ Tail(q)[i] = q[i + 1] /\ i + 1 # 1
        /\ \A i, j \in DOMAIN Tail(q) : i # j => i + 1 # j + 1
    <2>1. /\ 1 \in DOMAIN q /\ Head(q) = q[1]
          /\ \A i \in DOMAIN Tail(q) : i \in Nat /\ i + 1 \in DOMAIN q /\ Tail(q)[i] = q[i + 1]
      BY TailIs
    <2>2. \A i \in Nat : i + 1 # 1 \/ i = 0 OBVIOUS
    <2>3. \A i \in DOMAIN Tail(q) : i # 0
      <3>1. Tail(q) \in Seq(Messages) BY TailIs
      <3> QED BY <3>1, LenProperties
    <2>4. \A i, j \in Nat : i # j => i + 1 # j + 1 OBVIOUS
    <2> QED BY <2>1, <2>2, <2>3, <2>4
  <1>2. \A k \in DOMAIN q : k = 1 \/ \E i \in DOMAIN Tail(q) : k = i + 1
    <2>1. /\ Tail(q) \in Seq(Messages) /\ Len(Tail(q)) + 1 = Len(q) BY TailIs
    <2>2. /\ DOMAIN q = 1 .. Len(q) /\ DOMAIN Tail(q) = 1 .. Len(Tail(q))
          /\ Len(q) \in Nat /\ Len(Tail(q)) \in Nat
      BY <2>1, LenProperties
    <2>3. ASSUME NEW k \in DOMAIN q, k # 1 PROVE \E i \in DOMAIN Tail(q) : k = i + 1
      <3>1. k - 1 \in DOMAIN Tail(q) /\ k = (k - 1) + 1 BY <2>1, <2>2, <2>3
      <3> QED BY <3>1
    <2> QED BY <2>3
  <1>3. Distinct(Tail(q)) BY <1>1 DEF Distinct
  <1>4. ASSUME NEW n, Queued(Tail(q), n)
        PROVE  Queued(q, n) /\ ~ (IsEvent(q[1].code) /\ q[1].payload = <<n>>)
    <2>1. PICK i \in DOMAIN Tail(q) : IsEvent(Tail(q)[i].code) /\ Tail(q)[i].payload = <<n>>
      BY <1>4 DEF Queued
    <2>2. IsEvent(q[i + 1].code) /\ q[i + 1].payload = <<n>> /\ i + 1 \in DOMAIN q /\ i + 1 # 1
      BY <1>1, <2>1
    <2> QED BY <1>1, <2>2 DEF Queued, Distinct
  <1>5. ASSUME NEW n, Queued(q, n), ~ (IsEvent(q[1].code) /\ q[1].payload = <<n>>)
        PROVE  Queued(Tail(q), n)
    <2>1. PICK k \in DOMAIN q : IsEvent(q[k].code) /\ q[k].payload = <<n>> BY <1>5 DEF Queued
    <2>2. PICK i \in DOMAIN Tail(q) : k = i + 1 BY <1>2, <1>5, <2>1
    <2> QED BY <1>1, <2>1, <2>2 DEF Queued
  <1> QED BY <1>1, <1>3, <1>4, <1>5

LEMMA QueueAdded ==
  ASSUME NEW q \in Seq(Messages), NEW r \in Messages, Distinct(q),
         IsEvent(r.code) => \A n : r.payload = <<n>> => ~ Queued(q, n),
         IsEvent(r.code) => \E n : r.payload = <<n>>
  PROVE  /\ Distinct(Append(q, r))
         /\ \A n : Queued(Append(q, r), n) <=>
              Queued(q, n) \/ (IsEvent(r.code) /\ r.payload = <<n>>)
  <1>1. /\ Append(q, r)[Len(q) + 1] = r /\ Len(q) + 1 \in DOMAIN Append(q, r)
        /\ \A i \in DOMAIN q : i \in DOMAIN Append(q, r) /\ Append(q, r)[i] = q[i]
        /\ \A i \in DOMAIN Append(q, r) : i \in DOMAIN q \/ i = Len(q) + 1
    BY AppendIs
  <1>2. \A n : Queued(Append(q, r), n) <=>
          Queued(q, n) \/ (IsEvent(r.code) /\ r.payload = <<n>>)
    BY <1>1 DEF Queued
  <1>3. IsEvent(r.code) => \A i \in DOMAIN q : IsEvent(q[i].code) => q[i].payload # r.payload
    BY DEF Queued
  <1>4. Distinct(Append(q, r)) BY <1>1, <1>3 DEF Distinct
  <1> QED BY <1>2, <1>4

\* Events are sent to an open device: each is new.
LEMMA EventsSendEvent ==
  ASSUME Typed, EventsOnce, SendEvent
  PROVE  EventsOnce'
  <1> DEFINE e == Event(events + 1)
  <1>1. /\ inq' = Append(inq, e) /\ handle' = handle /\ handle = "open" /\ client' = client
        /\ UNCHANGED <<held, delivered, ignored>>
    BY DEF SendEvent, libVars
  <1>2. PICK k \in Nat : k = events + 1 /\ events' = k BY DEF SendEvent, Typed, EventsTyped
  <1>3. e \in Messages /\ e.payload = <<k>> /\ IsEvent(e.code) BY <1>2, EventTyped
  <1> HIDE DEF e
  <1>4. /\ inq \in Seq(Messages) /\ events \in Nat /\ held \subseteq 0 .. events
        /\ delivered \subseteq 0 .. events /\ ignored \subseteq 0 .. events
    BY DEF Typed, DeviceTyped, EventsTyped
  <1>5. k \notin 0 .. events /\ \A n \in 1 .. k : n \in 1 .. events \/ n = k BY <1>2, <1>4
  <1>6. ~ Queued(inq, k)
    <2>1. \A i \in DOMAIN inq : IsEvent(inq[i].code) => \E n \in 0 .. events : inq[i].payload = <<n>>
      BY DEF Typed, EventsTyped, EventOf
    <2>2. \A n \in 0 .. events : <<n>> # <<k>> BY <1>5
    <2> QED BY <2>1, <2>2 DEF Queued
  <1>7. \A n : e.payload = <<n>> <=> n = k BY <1>3
  <1>8. /\ Distinct(Append(inq, e))
        /\ \A n : Queued(Append(inq, e), n) <=> Queued(inq, n) \/ n = k
    <2>1. \A n : e.payload = <<n>> => ~ Queued(inq, n) BY <1>6, <1>7
    <2> QED BY <1>3, <1>4, <1>7, <2>1, QueueAdded DEF EventsOnce
  <1>9. Framework => \A n \in 1 .. k : OnePlace(n)'
    <2>1. Framework => \A n \in 1 .. events : OnePlace(n) BY DEF EventsOnce
    <2>2. k \notin held /\ k \notin delivered /\ k \notin ignored BY <1>4, <1>5
    <2>3. \A n \in 1 .. events : n # k BY <1>5
    <2> QED BY <1>1, <1>5, <1>8, <2>1, <2>2, <2>3 DEF OnePlace
  <1> QED BY <1>1, <1>2, <1>8, <1>9 DEF EventsOnce, Framework

LEMMA EventsAnswer ==
  ASSUME Typed, EventsOnce, Answer
  PROVE  EventsOnce'
  <1>1. PICK r \in Messages :
          inq' = Append(inq, r) /\ r.code = todo[1].code /\ 1 \in DOMAIN todo
    BY AnswerIs
  <1>2. ~ IsEvent(r.code)
    <2>1. r.code \in ReplyCodes BY <1>1 DEF Typed, RequestsValid, Valid
    <2> QED BY <2>1 DEF ReplyCodes, IsEvent
  <1>3. inq \in Seq(Messages) BY DEF Typed, DeviceTyped
  <1>4. Distinct(inq') /\ \A n : Queued(inq', n) <=> Queued(inq, n)
    BY <1>1, <1>2, <1>3, QueueAdded DEF EventsOnce
  <1>5. UNCHANGED <<client, handle, held, events, delivered, ignored>>
    BY DEF Answer, libVars, evtVars
  <1> QED BY <1>4, <1>5 DEF EventsOnce, OnePlace, Framework

\* A report taken from the queue: an event is moved to one other place.
LEMMA EventsTake ==
  ASSUME Typed, Turns, EventsOnce,
         Open \/ ReaderTake \/ \E t \in Threads : Accept(t) \/ CommandEvent(t)
  PROVE  EventsOnce'
  <1>0. inq \in Seq(Messages) /\ Distinct(inq) BY DEF Typed, DeviceTyped, EventsOnce
  <1>1. CASE inq # <<>> /\ inq' = Tail(inq)
    <2> DEFINE h == inq[1]
    <2>1. /\ Distinct(inq') /\ Head(inq) = h /\ 1 \in DOMAIN inq
          /\ \A n : Queued(inq', n) <=> Queued(inq, n) /\ ~ (IsEvent(h.code) /\ h.payload = <<n>>)
      BY <1>0, <1>1, QueueTaken
    <2>2. IsEvent(h.code) => \A n : h.payload = <<n>> <=> n = h.payload[1]
      <3>1. IsEvent(h.code) => h.payload = <<h.payload[1]>> BY <2>1, EventOfNumber
      <3> QED BY <3>1
    <2>3. IsEvent(h.code) => Queued(inq, h.payload[1]) BY <2>1, <2>2 DEF Queued
    <2>4. h.code \in ReplyCodes <=> ~ IsEvent(h.code)
      <3>1. h \in Messages BY <1>0, <1>1, TailIs
      <3> QED BY <3>1 DEF Messages, EventCodes, IsEvent, ReplyCodes
    <2> DEFINE m == h.payload[1]
    <2>5. \A n : Queued(inq', n) <=> Queued(inq, n) /\ ~ (IsEvent(h.code) /\ n = m)
      BY <2>1, <2>2
    <2> HIDE DEF m, h
    <2>6. CASE Open
      <3>1. events' = 0 /\ handle' = "open" BY <2>6 DEF Open, evtVars, EventsOnce
      <3>2. 1 .. 0 = {} OBVIOUS
      <3> QED BY <2>1, <3>1, <3>2 DEF EventsOnce
    <2>7. CASE ReaderTake
      <3>1. held = {} BY <2>7 DEF ReaderTake, Turns
      <3>2. /\ held' = IF IsEvent(h.code) THEN {m} ELSE {}
            /\ UNCHANGED <<client, handle, events, delivered, ignored>>
        BY <2>1, <2>7, <3>1 DEF ReaderTake, libVars, m
      <3> QED BY <2>1, <2>3, <2>5, <3>1, <3>2 DEF EventsOnce, OnePlace, Framework, m
    <2>8. ASSUME NEW t \in Threads, Accept(t) PROVE EventsOnce'
      <3>1. /\ UNCHANGED <<client, handle, events, held, delivered>>
            /\ Framework => ~ IsEvent(h.code)
            /\ h.code \in ReplyCodes => ignored' = ignored
        BY <2>1, <2>8 DEF Accept, libVars, Framework
      <3> QED BY <2>1, <2>4, <2>5, <3>1 DEF EventsOnce, OnePlace, Framework
    <2>9. ASSUME NEW t \in Threads, CommandEvent(t) PROVE EventsOnce'
      <3>1. /\ UNCHANGED <<client, handle, events, held>> /\ IsEvent(h.code)
            /\ \/ delivered' = delivered \cup {m} /\ ignored' = ignored
               \/ delivered' = delivered /\ ignored' = ignored \cup {m}
        BY <2>1, <2>9 DEF CommandEvent, Dispatch, libVars, m
      <3> QED BY <2>1, <2>3, <2>5, <3>1 DEF EventsOnce, OnePlace, Framework, m
    <2> QED BY <2>6, <2>7, <2>8, <2>9
  <1>2. CASE Open /\ inq' = inq
    <2>1. events' = 0 /\ handle' = "open" BY <1>2 DEF Open, evtVars, EventsOnce
    <2>2. 1 .. 0 = {} OBVIOUS
    <2> QED BY <1>0, <1>2, <2>1, <2>2 DEF EventsOnce
  <1>3. (inq # <<>> /\ inq' = Tail(inq)) \/ (Open /\ inq' = inq)
    BY DEF Open, ReaderTake, Accept, CommandEvent
  <1> QED BY <1>1, <1>2, <1>3

LEMMA EventsStep ==
  ASSUME Typed, Turns, EventsOnce, [Next]_vars
  PROVE  EventsOnce'
  <1>1. CASE ReaderDispatch
    <2>1. PICK n \in held : /\ delivered' = IF cbOn THEN delivered \cup {n} ELSE delivered
                            /\ ignored' = IF cbOn THEN ignored ELSE ignored \cup {n}
      BY <1>1 DEF ReaderDispatch, Dispatch
    <2>2. held = {n} BY <1>1, <2>1 DEF ReaderDispatch, Turns
    <2>3. held' = {} /\ UNCHANGED <<client, handle, inq, events>>
      BY <1>1 DEF ReaderDispatch, libVars, devVars
    <2> QED BY <2>1, <2>2, <2>3 DEF EventsOnce, OnePlace, Framework
  <1>2. CASE (QuietStep /\ ~ ReaderDispatch)
             \/ \E t \in Threads : Send(t) \/ SendFails(t) \/ GiveUp(t)
    <2>1. UNCHANGED <<client, inq, events>>
      BY <1>2, QuietKeeps DEF Send, SendFails, GiveUp, libVars, devVars, evtVars, messageVars
    <2>2. /\ UNCHANGED <<held, delivered, ignored>> /\ (handle' = "none" => handle = "none")
      BY <1>2 DEF QuietStep, SetCallback, ReaderTop, ReaderPoll, ReaderTimeout, Call,
         CallbackReturns, Close, Join, vars, Send, SendFails, GiveUp, libVars, evtVars
    <2> QED BY <2>1, <2>2 DEF EventsOnce, OnePlace, Framework
  <1> QED BY <1>1, <1>2, EventsSendEvent, EventsAnswer, EventsTake, StepCases

(* No event sent to a framework client is lost or dispatched twice: each is in the *)
(* queue, in the reader's hands, called back or met with no callback registered,   *)
(* one of these only, whoever reads the reports and wherever callbacks call the    *)
(* library.                                                                        *)
THEOREM EventsAccountedHolds == Spec => []EventsAccounted
  <1>1. Init => Typed /\ Turns BY ApiInit
  <1>2. Init => EventsOnce
    <2> SUFFICES ASSUME Init PROVE EventsOnce OBVIOUS
    <2>1. events = 0 /\ 1 .. 0 = {} BY DEF Init
    <2>2. Distinct(inq)
      <3>1. ~ IsEvent(Stale.code) BY DEF Stale, BuildReport, IsEvent
      <3>2. \A i, j \in DOMAIN inq : i # j => inq[i] = Stale \/ inq[j] = Stale BY DEF Init
      <3> QED BY <3>1, <3>2 DEF Distinct
    <2> QED BY <2>1, <2>2 DEF EventsOnce
  <1>3. Typed /\ Turns /\ EventsOnce /\ [Next]_vars => Typed' /\ Turns' /\ EventsOnce'
    BY TypedStep, TurnsStep, EventsStep
  <1>4. EventsOnce => EventsAccounted
    <2> SUFFICES ASSUME Framework, NEW n \in 1 .. events, OnePlace(n)
                 PROVE  Cardinality({w \in {"queued", "held", "called", "dropped"} :
                          \/ w = "queued"  /\ \E i \in DOMAIN inq :
                                                IsEvent(inq[i].code) /\ inq[i].payload = <<n>>
                          \/ w = "held"    /\ n \in held
                          \/ w = "called"  /\ n \in delivered
                          \/ w = "dropped" /\ n \in ignored}) = 1
      BY DEF EventsOnce, EventsAccounted
    <2> DEFINE places == {w \in {"queued", "held", "called", "dropped"} :
                           \/ w = "queued"  /\ \E i \in DOMAIN inq :
                                                 IsEvent(inq[i].code) /\ inq[i].payload = <<n>>
                           \/ w = "held"    /\ n \in held
                           \/ w = "called"  /\ n \in delivered
                           \/ w = "dropped" /\ n \in ignored}
    <2>1. \A w : w \in places <=>
            \/ (w = "queued" /\ Queued(inq, n)) \/ (w = "held" /\ n \in held)
            \/ (w = "called" /\ n \in delivered) \/ (w = "dropped" /\ n \in ignored)
      BY DEF Queued
    <2> HIDE DEF places
    <2>2. \E w : places = {w}
      <3>1. CASE Queued(inq, n)
        <4>1. places = {"queued"} BY <2>1, <3>1 DEF OnePlace
        <4> QED BY <4>1
      <3>2. CASE n \in held
        <4>1. places = {"held"} BY <2>1, <3>2 DEF OnePlace
        <4> QED BY <4>1
      <3>3. CASE n \in delivered
        <4>1. places = {"called"} BY <2>1, <3>3 DEF OnePlace
        <4> QED BY <4>1
      <3>4. CASE n \in ignored
        <4>1. places = {"dropped"} BY <2>1, <3>4 DEF OnePlace
        <4> QED BY <4>1
      <3> QED BY <3>1, <3>2, <3>3, <3>4 DEF OnePlace
    <2>3. Cardinality(places) = 1 BY <2>2, FS_Singleton
    <2> QED BY <2>3 DEF places
  <1> QED BY <1>1, <1>2, <1>3, <1>4, PTL DEF Spec

-----------------------------------------------------------------------------
(* Who waits for whom.  With no call made from a callback of a command and no  *)
(* closing from one of the reader, the thread that holds the mutex is never    *)
(* one that waits for it or for the reader, and the reader never joins itself. *)
NoSelfWait ==
  /\ \A t \in Threads : lock = {t} => pc[t] \in {"reading", "cmdcb", "polling"}
  /\ pc[Reader] \notin {"idle", "join"}

LEMMA NoSelfWaitStep ==
  ASSUME "command" \notin Reenter, "close" \notin Reenter,
         Typed, Turns, NoSelfWait, [Next]_vars
  PROVE  NoSelfWait'
  <1>0. pc \in [Threads -> Points] /\ Reader \in Threads BY DEF Typed, ClientTyped, Threads
  <1> USE DEF NoSelfWait
  <1>1. CASE Open
    <2>1. /\ lock' = lock /\ pc[Reader] = "exited"
          /\ pc' = pc \/ pc' = [pc EXCEPT ![Reader] = "top"]
      BY <1>1 DEF Open, Turns
    <2> QED BY <1>0, <2>1
  <1>2. CASE Answer \/ SendEvent \/ SetCallback \/ UNCHANGED vars
    BY <1>2 DEF Answer, SendEvent, SetCallback, vars
  <1>3. CASE ReaderTake \/ ReaderTimeout
    <2>1. lock' = {} /\ \E p \in {"have", "top"} : pc' = [pc EXCEPT ![Reader] = p]
      BY <1>3 DEF ReaderTake, Unlocked, ReaderTimeout
    <2> QED BY <1>0, <2>1
  <1>4. CASE ReaderPoll BY <1>0, <1>4 DEF ReaderPoll
  <1>5. CASE ReaderTop \/ ReaderDispatch
    <2>1. /\ lock' = lock /\ pc[Reader] \in {"top", "have"}
          /\ \E p \in {"wantdev", "exited", "incb", "top"} : pc' = [pc EXCEPT ![Reader] = p]
      BY <1>5 DEF ReaderTop, ReaderDispatch, Dispatch
    <2> QED BY <1>0, <2>1
  <1>6. ASSUME NEW t \in Threads, Call(t) \/ Close(t) \/ Join(t) PROVE NoSelfWait'
    <2>1. /\ lock' = lock /\ pc[t] \in {"idle", "incb", "join"}
          /\ \E p \in {"want", "join", "idle"} : pc' = [pc EXCEPT ![t] = p]
          /\ t = Reader => pc' = [pc EXCEPT ![t] = "want"]
      BY <1>6 DEF Call, MayCall, Close, Join
    <2> QED BY <1>0, <2>1
  <1>7. ASSUME NEW t \in Threads, CallbackReturns(t) \/ CommandEvent(t) PROVE NoSelfWait'
    <2>1. /\ lock' = lock
          /\ \/ pc[t] \in {"cmdcb", "reading"}
                /\ \E p \in {"cmdcb", "reading"} : pc' = [pc EXCEPT ![t] = p]
             \/ pc[t] = "incb" /\ pc' = [pc EXCEPT ![t] = "top"]
      BY <1>0, <1>7 DEF CallbackReturns, CommandEvent, Dispatch
    <2> QED BY <1>0, <2>1
  <1>8. ASSUME NEW t \in Threads, Send(t) PROVE NoSelfWait'
    <2>1. lock' = {t} /\ pc' = [pc EXCEPT ![t] = "reading"] BY <1>8 DEF Send
    <2> QED BY <1>0, <2>1
  <1>9. ASSUME NEW t \in Threads, SendFails(t) \/ Accept(t) \/ GiveUp(t) PROVE NoSelfWait'
    <2>1. lock' = {} /\ pc' = [pc EXCEPT ![t] = Returned(t)]
      BY <1>9 DEF SendFails, Accept, GiveUp, Returns
    <2> QED BY <1>0, <2>1 DEF Returned
  <1> QED BY <1>1, <1>2, <1>3, <1>4, <1>5, <1>6, <1>7, <1>8, <1>9, StepCases DEF QuietStep

(* When client code keeps to what the run of CallsReturn assumes of it, no thread  *)
(* waits for itself, for any threads: whoever holds the mutex is reading a report  *)
(* or in a callback that makes no call, and sl3_close joins another thread.        *)
THEOREM NoSelfWaitHolds ==
  ASSUME "command" \notin Reenter, "close" \notin Reenter
  PROVE  Spec => []NoSelfWait
  <1>1. Init => Typed /\ Turns BY ApiInit
  <1>2. Init => NoSelfWait
    <2> SUFFICES ASSUME Init PROVE NoSelfWait OBVIOUS
    <2>1. lock = {} /\ Reader \in Threads BY DEF Init, Threads
    <2>2. pc[Reader] = "exited" BY <2>1 DEF Init
    <2> QED BY <2>1, <2>2 DEF NoSelfWait
  <1>3. Typed /\ Turns /\ NoSelfWait /\ [Next]_vars => Typed' /\ Turns' /\ NoSelfWait'
    BY TypedStep, TurnsStep, NoSelfWaitStep
  <1> QED BY <1>1, <1>2, <1>3, PTL DEF Spec
=============================================================================
