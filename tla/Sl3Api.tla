------------------------------- MODULE Sl3Api -------------------------------
(***************************************************************************)
(* HID commands, as the two clients of the control interface issue them.   *)
(*                                                                         *)
(* "facade": Device::hid_cmd, one caller, takes the next report for its    *)
(* reply.  "framework": Sl3Api.framework, where commands of several        *)
(* threads and a reader thread share the device behind a mutex, and event  *)
(* reports are dispatched to callbacks by whoever reads them.  The device  *)
(* answers requests in order, at any pace, and sends events at any time.   *)
(***************************************************************************)
EXTENDS HidCodec, FiniteSets

CONSTANTS
  Apps, Reader,  \* the client's threads; the framework's reader thread
  Clients,       \* subset of {"facade", "framework"}
  Calls,         \* calls the client makes: [code, offset, count, data]
  RateReadBack,  \* whether the device answers GET_PARAM with its rate: NOTE.md:32 and the
                 \* code say so, docs/protocol.md:91 says "no rate read-back"
  MaxReads,      \* reports a framework command reads: 8
  Reenter,       \* where callbacks call the library: subset of {"reader", "command", "close"}
  MaxCmds,       \* bound: commands, fewer than hid_seq's 2^32
  MaxEvents, MaxLate  \* bounds: events, read timeouts

Threads == Apps \cup {Reader}

ASSUME ApiAssumption ==
  /\ Reader \notin Apps /\ Clients \subseteq {"facade", "framework"}
  /\ IsFiniteSet(Apps)
  /\ \A c \in Calls :
       /\ c.code \in ReplyCodes /\ c.offset \in Nat /\ c.count \in Nat
       /\ c.code = "SetRate" => c.data[1] \in Rates
       /\ c.code = "SetControls" => c.data \in Seq(0 .. 255) /\ Len(c.data) = c.count
  /\ RateReadBack \in BOOLEAN
  /\ MaxReads \in Nat \ {0}
  /\ MaxCmds \in Nat /\ MaxEvents \in Nat /\ MaxLate \in Nat

VARIABLES
  client, handle,    \* which client; handle: none, open, closed
  pc,                \* each thread's control point
  cmd, reads,        \* the command under way, and the reports it may still read
  held,              \* the event the reader has taken and not dispatched yet
  lock,              \* Shared.dev: the thread that holds it
  running, cbOn,     \* Shared.running; a callback is registered
  hidSeq, cachedRate,
  todo, inq,         \* device: requests to process, reports to be read
  rate, regs,        \* device: sample rate, audio-controls registers
  asked,             \* history: the device's state after every request sent so far
  gaveUp, misled,    \* history: commands that returned without a reply, with another's
  last,              \* history: the latest reply a command accepted
  events, delivered, ignored  \* history: events sent, called back, not called back
vars == <<client, handle, pc, cmd, reads, held, lock, running, cbOn, hidSeq, cachedRate,
          todo, inq, rate, regs, asked, gaveUp, misled, last, events, delivered, ignored>>

libVars == <<client, handle, running, cbOn>>
devVars == <<todo, inq, rate, regs>>
cmdVars == <<cmd, reads, hidSeq, cachedRate, asked, gaveUp, misled, last>>
replyVars == <<cachedRate, asked, gaveUp, misled, last>>
evtVars == <<held, events, delivered, ignored>>

Nothing == [code |-> "none"]
Stale == BuildReport("GetStatus", 0, <<1>>)
Event(n) == BuildReport(IF n % 2 = 0 THEN "Thru" ELSE "Phono", 0, <<n>>)

Device == [rate |-> rate, regs |-> regs]

Init ==
  /\ client \in Clients /\ handle = "none"
  /\ pc = [t \in Threads |-> IF t = Reader THEN "exited" ELSE "idle"]
  /\ cmd = Nothing /\ reads = 0
  /\ held = {} /\ lock = {}
  /\ running = TRUE /\ cbOn = FALSE
  /\ hidSeq = 0 /\ cachedRate = 0
  /\ todo = <<>> /\ inq \in {<<>>, <<Stale, Event(0)>>, <<Event(0), Stale>>}
  /\ rate \in Rates /\ regs = [i \in 1 .. AudioCtrlBytes |-> 0]
  /\ asked = Device /\ gaveUp = {0} /\ misled = {} /\ last = Nothing
  /\ events = 0 /\ delivered = {} /\ ignored = {}

\* open_role drains one report a crashed session may have left; the framework then
\* starts its reader.
Open ==
  /\ handle = "none"
  /\ handle' = "open"
  /\ inq' = IF inq = <<>> THEN inq ELSE Tail(inq)
  /\ pc' = IF client = "framework" THEN [pc EXCEPT ![Reader] = "top"] ELSE pc
  /\ UNCHANGED <<client, running, cbOn, lock, cmdVars, todo, rate, regs, evtVars>>

-----------------------------------------------------------------------------
(* The device.                                                              *)

\* The overload meters of a device without a signal.
NoOverload == <<0, 0, 0, 0, 0, 0>>

\* What request r does to the device's state d = [rate, regs].
Effect(r, d) ==
  CASE r.code = "SetRate" -> [d EXCEPT !.rate = DecodeRate(r)]
    [] r.code = "SetControls" ->
         [d EXCEPT !.regs = [i \in DOMAIN d.regs |->
            IF i \in Byte(r, 1) + 1 .. Byte(r, 1) + Byte(r, 2)
            THEN Byte(r, 2 + i - Byte(r, 1)) ELSE d.regs[i]]]
    [] OTHER -> d

\* What it answers; without a read-back, the bytes of the rate say nothing.
Reply(r, d, junk) ==
  BuildReport(r.code, r.seq,
    CASE r.code = "GetParam"    -> EncodeRate(IF RateReadBack THEN d.rate ELSE junk)
      [] r.code = "GetControls" -> d.regs
      [] r.code = "GetStatus"   -> <<1>>
      [] r.code = "GetOverload" -> NoOverload
      [] OTHER                  -> <<>>)

Answer ==
  /\ todo # <<>>
  /\ LET d == Effect(Head(todo), Device)
     IN  /\ rate' = d.rate /\ regs' = d.regs
         /\ \E junk \in Rates : inq' = Append(inq, Reply(Head(todo), d, junk))
  /\ todo' = Tail(todo)
  /\ UNCHANGED <<libVars, pc, lock, cmdVars, evtVars>>

SendEvent ==
  /\ handle = "open" /\ events < MaxEvents
  /\ events' = events + 1
  /\ inq' = Append(inq, Event(events + 1))
  /\ UNCHANGED <<libVars, pc, lock, cmdVars, todo, rate, regs, held, delivered, ignored>>

-----------------------------------------------------------------------------
(* A command.                                                               *)

\* The control points from which client code calls the library: its own threads, and
\* callbacks, from which the thread that dispatched one continues after the call.
MayCall(t) ==
  \/ pc[t] = "idle"
  \/ pc[t] = "incb" /\ "reader" \in Reenter
  \/ pc[t] = "cmdcb" /\ "command" \in Reenter

Call(t) ==
  /\ MayCall(t) /\ handle = "open" /\ running
  /\ hidSeq + Cardinality({u \in Threads : pc[u] = "want"}) < MaxCmds
  /\ pc' = [pc EXCEPT ![t] = "want"]
  /\ UNCHANGED <<libVars, lock, cmdVars, devVars, evtVars>>

\* Where a call returns to: client code, or the callback it was made from.
Returned(t) == IF t = Reader THEN "incb" ELSE "idle"

\* Mutant: SET_CONTROLS sends the data without its length.
PayloadBare(c) ==
  IF c.code = "SetRate" THEN EncodeRate(c.data[1])
  ELSE IF c.code = "SetControls" THEN <<c.offset>> \o c.data ELSE <<>>
Payload(c) ==
  IF c.code = "SetRate" THEN EncodeRate(c.data[1])
  ELSE IF c.code = "SetControls" THEN EncodeSetControls(c.offset, c.data) ELSE <<>>

\* What call c means for the device's state d, and what it returns then.
Meant(c, d) ==
  CASE c.code = "SetRate" -> [d EXCEPT !.rate = c.data[1]]
    [] c.code = "SetControls" ->
         [d EXCEPT !.regs = [i \in DOMAIN d.regs |->
            IF i \in c.offset + 1 .. c.offset + c.count THEN c.data[i - c.offset] ELSE d.regs[i]]]
    [] OTHER -> d

Expected(c, d) ==
  CASE c.code = "GetParam"    -> <<d.rate>>
    [] c.code = "GetControls" -> SubSeq(d.regs, c.offset + 1, c.offset + c.count)
    [] c.code = "GetStatus"   -> <<1>>
    [] c.code = "GetOverload" -> NoOverload
    [] OTHER                  -> <<>>

\* A call is refused before it sends anything when it is out of range.
\* hid_send, with the mutex taken: the sequence number counts up, the request goes out.
Send(t) ==
  \E c \in Calls :
    /\ pc[t] = "want" /\ lock = {}
    /\ InRange(c.offset, c.count) /\ Fits(Payload(c))
    /\ lock' = {t} /\ hidSeq' = hidSeq + 1
    /\ todo' = Append(todo, BuildReport(c.code, hidSeq', Payload(c)))
    /\ cmd' = [call |-> c, seq |-> hidSeq', expect |-> Expected(c, asked)]
    /\ asked' = Meant(c, asked)
    /\ reads' = IF client = "facade" THEN 1 ELSE MaxReads
    /\ last' = Nothing
    /\ pc' = [pc EXCEPT ![t] = "reading"]
    /\ UNCHANGED <<libVars, cachedRate, gaveUp, misled, inq, rate, regs, evtVars>>

Returns(t) ==
  /\ pc' = [pc EXCEPT ![t] = Returned(t)] /\ lock' = {}
  /\ cmd' = Nothing /\ reads' = 0

\* The OUT transfer fails: an undrained reply stalls it, or the device is busy.
SendFails(t) ==
  /\ pc[t] = "want" /\ lock = {}
  /\ todo # <<>> \/ \E i \in DOMAIN inq : ~IsEvent(inq[i].code)
  /\ hidSeq' = hidSeq + 1 /\ gaveUp' = gaveUp \cup {hidSeq'}
  /\ Returns(t)
  /\ UNCHANGED <<libVars, asked, cachedRate, misled, last, devVars, evtVars>>

\* The facade's set_sample_rate keeps the rate, for pacing.
Cached(c) == IF c.code = "SetRate" /\ client = "facade" THEN c.data[1] ELSE cachedRate

\* The next report is taken for the reply, whatever its seq.
Accept(t) ==
  /\ pc[t] = "reading" /\ reads > 0 /\ inq # <<>>
  /\ client = "framework" => ~IsEvent(Head(inq).code)
  /\ inq' = Tail(inq)
  /\ last' = [code |-> Head(inq).code, seq |-> Head(inq).seq,
              call |-> cmd.call.code, cmd |-> cmd.seq, expect |-> cmd.expect,
              value |-> Decode(cmd.call.code, cmd.call.offset, cmd.call.count, Head(inq))]
  /\ misled' = IF Head(inq).seq = cmd.seq THEN misled ELSE misled \cup {cmd.seq}
  /\ ignored' = IF Head(inq).code \in ReplyCodes THEN ignored
                ELSE ignored \cup {Head(inq).payload[1]}
  /\ cachedRate' = Cached(cmd.call)
  /\ Returns(t)
  /\ UNCHANGED <<libVars, asked, hidSeq, gaveUp, todo, rate, regs, held, events, delivered>>

\* Mutant: the event is skipped.
DispatchSkipped(t, n, incb, after) ==
  pc' = [pc EXCEPT ![t] = after] /\ UNCHANGED <<delivered, ignored>>
\* Thread t calls the callback registered for event n, or goes on if there is none.
Dispatch(t, n, incb, after) ==
  /\ pc' = [pc EXCEPT ![t] = IF cbOn THEN incb ELSE after]
  /\ delivered' = IF cbOn THEN delivered \cup {n} ELSE delivered
  /\ ignored' = IF cbOn THEN ignored ELSE ignored \cup {n}

\* A framework command meets an event: it dispatches it with the mutex held.
CommandEvent(t) ==
  /\ pc[t] = "reading" /\ client = "framework" /\ reads > 0
  /\ inq # <<>> /\ IsEvent(Head(inq).code)
  /\ inq' = Tail(inq)
  /\ reads' = reads - 1
  /\ Dispatch(t, Head(inq).payload[1], "cmdcb", "reading")
  /\ UNCHANGED <<libVars, lock, cmd, hidSeq, replyVars, todo, rate, regs, held, events>>

\* A read times out, or the last report a framework command may read was an event.
GiveUp(t) ==
  /\ pc[t] = "reading"
  /\ reads = 0 \/ (inq = <<>> /\ Cardinality(gaveUp) <= MaxLate)
  /\ gaveUp' = gaveUp \cup {cmd.seq}
  /\ Returns(t)
  /\ UNCHANGED <<libVars, asked, hidSeq, cachedRate, misled, last, devVars, evtVars>>

CallbackReturns(t) ==
  /\ pc[t] \in {"cmdcb", "incb"}
  /\ pc' = [pc EXCEPT ![t] = IF @ = "cmdcb" THEN "reading" ELSE "top"]
  /\ UNCHANGED <<libVars, lock, cmdVars, devVars, evtVars>>

-----------------------------------------------------------------------------
(* The framework's reader thread.                                           *)

ReaderTop ==
  /\ pc[Reader] = "top"
  /\ pc' = [pc EXCEPT ![Reader] = IF running THEN "wantdev" ELSE "exited"]
  /\ UNCHANGED <<libVars, lock, cmdVars, devVars, evtVars>>

ReaderPoll ==
  /\ pc[Reader] = "wantdev" /\ lock = {}
  /\ lock' = {Reader}
  /\ pc' = [pc EXCEPT ![Reader] = "polling"]
  /\ UNCHANGED <<libVars, cmdVars, devVars, evtVars>>

\* Mutant: the guard lives on while the report is dispatched.
UnlockedLate == lock
\* The mutex is released with the read; a report that is no event is dropped.
Unlocked == {}

ReaderTake ==
  /\ pc[Reader] = "polling" /\ inq # <<>>
  /\ inq' = Tail(inq) /\ lock' = Unlocked
  /\ IF IsEvent(Head(inq).code)
     THEN /\ pc' = [pc EXCEPT ![Reader] = "have"]
          /\ held' = {Head(inq).payload[1]}
     ELSE /\ pc' = [pc EXCEPT ![Reader] = "top"]
          /\ UNCHANGED held
  /\ UNCHANGED <<libVars, cmdVars, todo, rate, regs, events, delivered, ignored>>

ReaderTimeout ==
  /\ pc[Reader] = "polling" /\ inq = <<>>
  /\ lock' = {} /\ pc' = [pc EXCEPT ![Reader] = "top"]
  /\ UNCHANGED <<libVars, cmdVars, devVars, evtVars>>

ReaderDispatch ==
  /\ pc[Reader] = "have"
  /\ held' = {}
  /\ \E n \in held : Dispatch(Reader, n, "incb", "top")
  /\ UNCHANGED <<libVars, lock, cmdVars, devVars, events>>

-----------------------------------------------------------------------------
(* Callbacks and closing.                                                   *)

SetCallback ==
  /\ client = "framework" /\ handle = "open" /\ running
  /\ cbOn' = ~cbOn
  /\ UNCHANGED <<client, handle, running, pc, lock, cmdVars, devVars, evtVars>>

\* The client closes once no call of its own is under way.
Close(t) ==
  /\ pc[t] = "idle" \/ (pc[t] = "incb" /\ "close" \in Reenter)
  /\ handle = "open" /\ running /\ \A u \in Apps \ {t} : pc[u] = "idle"
  /\ pc[Reader] \notin {"want", "reading", "cmdcb"}
  /\ running' = FALSE
  /\ pc' = [pc EXCEPT ![t] = "join"]
  /\ UNCHANGED <<client, handle, cbOn, lock, cmdVars, devVars, evtVars>>

Join(t) ==
  /\ pc[t] = "join" /\ pc[Reader] = "exited"
  /\ handle' = "closed" /\ pc' = [pc EXCEPT ![t] = "idle"]
  /\ UNCHANGED <<client, running, cbOn, lock, cmdVars, devVars, evtVars>>

ThreadStep(t) == Accept(t) \/ CommandEvent(t) \/ GiveUp(t) \/ CallbackReturns(t) \/ Join(t)
ReaderStep == ReaderTop \/ ReaderTake \/ ReaderTimeout \/ ReaderDispatch

Next ==
  \/ Open \/ Answer \/ SendEvent \/ SetCallback
  \/ \E t \in Threads :
       \/ Call(t) \/ Send(t) \/ SendFails(t) \/ Accept(t) \/ CommandEvent(t) \/ GiveUp(t)
       \/ CallbackReturns(t) \/ Close(t) \/ Join(t)
  \/ ReaderTop \/ ReaderPoll \/ ReaderTake \/ ReaderTimeout \/ ReaderDispatch

Spec == Init /\ [][Next]_vars

\* The device answers, threads and callbacks go on, and the mutex is not kept from a
\* thread for ever: the reader sleeps 3 ms without it after every idle poll.
FairSpec ==
  /\ Spec
  /\ WF_vars(Answer) /\ WF_vars(ReaderStep) /\ SF_vars(ReaderPoll)
  /\ \A t \in Threads : SF_vars(Send(t)) /\ WF_vars(ThreadStep(t))

-----------------------------------------------------------------------------
(* Properties.                                                              *)

Framework == client = "framework"

TypeOK ==
  /\ handle \in {"none", "open", "closed"} /\ running \in BOOLEAN /\ cbOn \in BOOLEAN
  /\ \A t \in Threads : pc[t] \in {"idle", "want", "reading", "cmdcb", "join", "incb", "top",
                                   "wantdev", "polling", "have", "exited"}
  /\ lock \subseteq Threads /\ Cardinality(lock) <= 1
  /\ hidSeq \in 0 .. MaxCmds /\ cachedRate \in Rates \cup {0} /\ rate \in Rates
  /\ \A i \in DOMAIN regs : regs[i] \in 0 .. 255
  /\ held \subseteq 0 .. events /\ delivered \cup ignored \subseteq 0 .. events

\* A report that a command takes for its reply is its own, or the answer to an earlier
\* command that returned without its own; in the framework it is never an event
\* ("dispatching interleaved events until our reply arrives", lib.rs:61-62).
ReplyIsOursOrLate ==
  last # Nothing =>
    /\ last.seq \in {last.cmd} \cup gaveUp \cup misled
    /\ Framework => last.code \in ReplyCodes

\* The calls whose reply is known to tell the device's state.
Tells(code) == code = "GetParam" => RateReadBack

\* A call that got its own reply returns what the device held after all requests sent
\* before it: register ranges come back as they were written, and so does the rate, on a
\* device that reads it back (sl3_get_parameter, lib.rs:148; docs/protocol.md:91 denies it).
ReadsSeeWrites ==
  last # Nothing /\ last.seq = last.cmd /\ Tells(last.call) => last.value = last.expect

\* After commands that all got a reply, the facade paces at the rate the device runs at.
PacingFollows ==
  ~Framework /\ todo = <<>> /\ gaveUp = {0} /\ (\A t \in Apps : pc[t] = "idle") =>
    cachedRate \in {0, rate}

\* No event is lost or dispatched by two threads: each is in the queue, in the reader's
\* hands, called back, or was met with no callback registered, one of these only.
EventsAccounted ==
  Framework => \A n \in 1 .. events :
    Cardinality({w \in {"queued", "held", "called", "dropped"} :
      \/ w = "queued"  /\ \E i \in DOMAIN inq : IsEvent(inq[i].code) /\ inq[i].payload = <<n>>
      \/ w = "held"    /\ n \in held
      \/ w = "called"  /\ n \in delivered
      \/ w = "dropped" /\ n \in ignored}) = 1

\* Every call returns, also one made from a callback of the reader thread; and so does
\* sl3_close, called while no call is under way (Close), at whatever point of its own loop
\* the reader is.
CallsReturn ==
  /\ \A t \in Threads : pc[t] \in {"want", "reading"} ~> pc[t] \in {"idle", "incb"}
  /\ ~running ~> handle = "closed"
=============================================================================
