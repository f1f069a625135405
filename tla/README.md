# Verification of the SL 3 userspace driver

TLA+ modules for the parts of this repository whose correctness depends on the
order of events: the `sl3d` daemon, the CoreAudio plugin, the shared-memory
segment between them, the isochronous USB engine, the native USB transport, HID
commands and the Sl3Api framework, and the browser's stream tasks. TLC checks the modules on
small instances; TLAPS proves the theorems in the `*_proofs` modules for every
value of the constants. `PROJECT.json` lists the runs, the mutants that show each
property can fail, the source lines behind each definition, the findings, and the
hazards the properties are aimed at.

## 1. The system

```
  apps <-> coreaudiod [plugin: control thread, IO thread]
                 |  shared segment: control words, capture ring, playback ring
              sl3d  [one thread: main loop + libusb callbacks]
                 |  libusb: iso IN (if 2), iso OUT (if 1), HID (if 3, briefly)
              SL 3 device
                 |  libusb: HID (if 3)
              control clients [Sl3Api framework, sl3-ctl]      browser [WebUSB]
```

| component | state | operations | correct when |
|---|---|---|---|
| daemon loop, `driver/sl3d/src/main.rs` | `STOP`, the open device, `idle_ticks`, `idle_frames`, `stream_stop`, `primed` | open, suspend and poll, probe, ring reset, `run`, `on_cap`, `fill`, reopen | it streams exactly while a client does IO, at the rate in the segment; it notices a detach; cursors never cross |
| segment, `sl3_shm.h`, `shm.rs` | magic, version, rate, presence, four cursors, two rings, clock anchor, `io_running` | create or reuse, initialise | each ring is a FIFO whatever process restarts |
| plugin IO, `SL3PlugIn.cpp` | `gIORunning`, `gSampleRate`, `gShm`, `gAnchorHostTime` | `StartIO`, `StopIO`, `DoIOOperation`, `GetZeroTimeStamp`, configuration change, `ensure_shm` | the flag follows the clients; input arrives in order and once; the clock is monotonic |
| plugin properties, `SL3Properties.inc` | two stream flags | get and set properties | a new rate goes through the configuration change |
| iso engine, `native_audio.rs` | pool of 2 x 8 transfers, `inflight`, `running`, `fb`, `phase` | `open`, `set_device_config`, `is_present`, `run`, `cap_cb`, `play_cb`, `build_out` | nothing freed in flight; `run` returns; OUT is paced by the device |
| HID codec, `proto.rs` | none | build reports, decode replies | decoding inverts encoding; ranges stay inside 22 registers |
| device facade, `device.rs` | `hid_seq`, `cached_rate` | one command, one reply | the reply taken is the reply to the command |
| Sl3Api, `api/src/lib.rs` | device mutex, callbacks, reader thread | open, close, commands, dispatch | no event is lost or taken for a reply; no deadlock |
| native transport, `transport/native.rs` | transfers, wakers, event pump | submit, complete, poll, drop | every future resolves; nothing is freed under libusb |
| stream pipelines, `stream.rs` | futures in flight, `fb`, `err_streak`, `stop` | `capture`, `playback`, `duplex` | a stop drains; a dead endpoint ends the stream |
| browser binding, `wasm.rs`, `web/` | one stop flag per device | start and stop streams | `stop` stops every stream |

They interact in four ways. The daemon and the plugin share the segment and
nothing else: no lock, no message. The engine calls `on_cap` and `fill` on the
daemon's own thread. The plugin's control thread holds `gMutex` over `StartIO`,
`StopIO` and a rate change; its IO thread takes no lock. Control clients and the
daemon meet only at the claim of interface 3.

What is hard here: the daemon resets cursors that the plugin's two threads store
at the same time; a cursor difference that wraps reads as an enormous backlog;
either process can be killed between two stores and comes back on the same
segment; the daemon decides to stop only inside a capture callback; transfers are
cancelled while others complete.

## 2. Modules

| module | models |
|---|---|
| `LossyFifo` | what a ring promises: frames may be dropped, never reordered, repeated or invented |
| `AudioRing` | both rings, the four cursors, and the three threads that move them |
| `Sl3d` | the daemon's main loop, the plugin calls that steer it, the device, control clients |
| `Segment` | the life of the shared-memory object: name, size, header, who has it mapped |
| `IsoPool` | `AudioDevice::run` and its callbacks |
| `NativeXfer` | one future per libusb transfer, the event pump, the closing of the transport |
| `HidCodec` | the report codec, as operators |
| `Sl3Api` | HID commands as the facade and the framework issue them; extends `HidCodec` |
| `Streams` | the browser's stream tasks over one device |
| `*_proofs` | proofs about the module each is named after |
| `MC*` | values for TLC |

The modules meet at the state they share. `AudioRing` and `Sl3d` split the
segment's contents (rings and cursors; control words), and `Segment` has the
object that carries both. `Sl3d` sees of `IsoPool` only whether a direction still
has transfers and that `run` returns once told to, which is what `IsoPool` shows.

**AudioRing.** One variable per cursor and ring (`cap_write`, `play_read`, ...),
named as in the segment. `dpc`, `ctl` and `rt` are the control points of the
daemon, of `StartIO`/`StopIO`, and of `DoIOOperation`. A load or store of a cursor
that another thread writes is a step: `StartLoadPlay` and `StartStorePlay` are the
two halves of `gShm->play_write.store(gShm->play_read.load())`. Loads of a
thread's own cursor are joined with the step that uses them, and `fill`'s two
loads are one step, since `play_read` is the daemon's own. A frame is a number:
its position plus one for capture, the order the app wrote it for playback. `got`
and `out` are history variables with the last batch delivered to the app and to
the device. `StreamEnd` lets `run` return between any two callbacks; why it
returns is `Sl3d`'s matter. `DaemonRestart` and `PluginRestart` lose a process's
own state and keep the segment. `FillPanic` is the checked subtraction at
`main.rs:157`: the installer builds without `-c opt`, so overflow checks are on,
and a panic in a libusb callback aborts the process.

**Sl3d.** `dpc` walks `main`: `open` (outer loop), `head` (inner loop), `rate`,
`reset`, the start of `run` (`config` to `start`), `stream`, `ended`, `closed`, `down`
(no process). `set_device_config` is walked report by report: `SendRate`, `Drain`,
`SendOutputs`, `Drain`, with the points `rate_sent`, `outputs` and `outputs_sent`
between. Either send can fail on its own (`ConfigFails`: the claim is refused, the
report stalls or times out), and `run` goes on with what the device has by then; a
read that fails is ignored. `undrained` is the reply a device keeps until it is read,
and while it is there the device takes no report (`NOTE.md:27`). Control clients claim
the interface and drain it, set rate and outputs, also under a stream, and release it
(`HidClaim`, `HidSets`, `HidRelease`), perhaps with their last reply unread.
`handle` is `stale` once the device it was opened on is unplugged, whether or not
another one is plugged in, which is what `is_present` tells. `capLive` and `playLive`
say whether each direction still has transfers in flight, which is all the loop sees
of `IsoPool`. `idle_frames` counts callbacks and `idle_ticks` polls. The plugin's
rate, client count and mapping are `gSampleRate`, `gIORunning` and `mapped`. Two
history variables: `killed`, the last daemon was killed and no other has tried to open
yet; `cfgOk`, `set_device_config` returned Ok and no control client has set anything
since. The constant `Faults` says what may go wrong in a run: `detach`, a refused
startup submission, a pool that empties on a healthy device (`cap_pool`, `play_pool`),
a killed daemon or coreaudiod, a control client on interface 3, a report not taken
(`hid_write`), a reply not read (`hid_reply`), a signal, and a client that starts IO
before the segment exists (`late_daemon`).

**IsoPool.** `pool`, `queued` and `freed` are the sets of transfers that were
submitted, that libusb owns, and that were freed; `inflight` is the code's own
counter, kept apart from `queued` so that the two can be compared. `CapData`,
`CapEmpty`, `Play` and `Retire` are the outcomes of `cap_cb` and `play_cb`;
`Resubmit` succeeds, or the transfer leaves the pool. A feedback entry is the
number of its IN transfer and its frame total; the code mirrors 16 packet counts
one by one, here their sum. Nominal pacing is computed packet by packet as in the
code.

**Segment.** `objs` holds every object ever created; `name` is the one
`/sl3_audio` names. The daemon walks `shm::map(true)` and `init_header` call by
call: `Probe`, `Unlink`, `OpenOrCreate`, `Truncate`, `InitHeader`, `Stamp`, and can
be killed after each. `Init` chooses what an earlier daemon left: nothing, an object
without a size or a header, this version's segment, another version's. `ensure_shm`
is `EnsureOpen` (compare inodes) and `EnsureMap`; `why` remembers which of its
callers continues. Of the contents only `io_running` and the pair (`cap_write`,
`clock_host`) are kept; a callback advances `cap_write` by one, and `clock_host` is
the `cap_write` it was sampled at, so that `stamp`, the pair `GetZeroTimeStamp` used,
tells how far apart its halves were. `connected` remembers that the last `StartIO`
raised the flag in the live segment.

**NativeXfer.** `fut`, `usb` and `incb` are the three parties to a transfer: the task
that awaits it, libusb, and the callback on the pump thread. `object`, `buffer` and
`refs` are the memory they share. `Transfer::drop` is two steps, as its lock and
its cancel allow: `DropLook` reads `completed` under the lock, then `Reclaim` or `Leak`.
The callback is `CallBack` and `Record`. A woken task polls once more.

**HidCodec, Sl3Api.** `Sl3Api` has two clients. In "facade" one thread takes the next
report for its reply; in "framework" the commands of several threads and the reader
thread share the device behind `lock`, and events are dispatched by whoever reads
them. The device answers requests in order at any pace and sends events at any time;
every report goes through the codec both ways. `asked` is what the device's state
should be after all requests sent so far, computed from the calls and not from the
bytes, and `cmd.expect` what the call should return then: comparing the two is the
reference against which the codec is checked (`NoOverload` is what the overload meters
of a device without a signal read). `gaveUp` and `misled` remember the
commands that left without a reply or took another's. `InRange` and `Fits` are the
checks a call makes before it sends anything. Whether the device reads its rate back is
the constant `RateReadBack`, because the repository says both (see Known divergences);
without it the answer to a rate request is any rate, and `Tells` leaves it out of what
`ReadsSeeWrites` compares.

**Streams.** Each start call is a task that runs `capture`, `playback`, `playback_fd`
or `duplex` (`kind`); `nin` and `nout` count its transfers in flight. One completion
is one action: with frames (`InData`), without (`InEmpty`), or an error, for each
direction. `Break` leaves the loop with transfers in flight, which the return drops
(`CloseAlt`). `stopFlag` is the flag that all streams of one `Sl3Device` share, and
`alt` the interfaces at alternate setting 1.

## 3. Runs

All bounds are constants in the `.cfg` files.

| run | checks | shows |
|---|---|---|
| `AudioRing_race` | `TypeOK`, `CapReadBehindWrite`, `CaptureIsFifo` | three threads store `cap_read`, in any order and with restarts of both processes: it never passes `cap_write`, and the app gets captured frames in order and once |
| `AudioRing_drained` | `PlayReadBehindWrite`, `PlaybackIsFifo` | with IO restarted only once the playback ring is empty, the same for playback, including the overflow branch of `fill` |
| `AudioRing_heal` | `PlaybackHeals` | without crashes, a playback underflow is repaired by the overflow branch, a panic, or the next reset |
| `AudioRing_underflow` | `PlayReadBehindWrite` | violated: finding 1 |
| `Sl3d` | `TypeOK`, `PresentMeansOpen`, `OkMeansSetUp`, `StreamFollowsRate`, `IdleSuspends`, `DetachNoticed`, `ActiveClientsStream`, `SetupHeals` | after any three faults the daemon converges; a configuration that returned Ok has set the device up though it ignores replies; one that failed is made up for by a later `run`, unless a reply stays unread |
| `Sl3d_unread` | `EveryRunSetsUp` | violated: finding 3 |
| `Segment` | `TypeOK`, `IoReaches`, `LagBounded`, `DaemonComesUp`, `Reconnects` | whatever segment was left and wherever the processes are killed, the daemon comes up, a connected plugin stays connected, a disconnected one is back at its next `StartIO`, and the clock pair is torn by a bounded amount only |
| `IsoPool` | `TypeOK`, `NoFreeInFlight`, `PacedExactly`, `MirrorIsFifo`, `RunReturns` | through refused submissions, failed resubmissions and the drain nothing in flight is freed and `run` returns; OUT mirrors IN in order, and otherwise keeps the nominal rate with no rounding loss |
| `NativeXfer` | `TypeOK`, `NoUseAfterFree`, `ReclaimedOrLeaked`, `AwaitReturns`, `CloseReturns` | however drop, completion, callback and closing interleave, memory is safe, no wake-up is lost and closing ends |
| `Sl3Api` | `TypeOK`, `ReplyIsOursOrLate`, `ReadsSeeWrites`, `EventsAccounted`, `CallsReturn` | with events, timeouts and late replies, a reply taken is the command's own or a late one, an own reply tells what was written, no event is lost, and every call returns, `sl3_close` too once no other call is under way |
| `Streams` | `TypeOK`, `PipelineFull`, `CleanEndDrains`, `AltMatchesUse`, `StopEndsStreams`, `DeadDeviceEnds` | pipelines stay full through errors, drain before the interface is closed, and end on a stop and on a dead device |
| `Streams_revive` | `StopEndsStreams` | violated: finding 2 |

`CaptureIsFifo`, `PlaybackIsFifo` and `MirrorIsFifo` are refinements: the module
implements `LossyFifo` with a cursor or counter as `produced` and a history
variable as `heard`.

### Findings

1. `AudioRing_underflow`. `main.rs:98` says that the ring reset keeps both cursors
   monotonic, "so avail can never underflow". The reset copies `play_write` to
   `play_read`, `StartIO` copies `play_read` to `play_write`, each in two steps, and
   the two copies can cross. TLC's trace: IO starts on an empty ring, both cursors 0,
   and the app writes one IO cycle (`play_write` = 1). The daemon wakes for it and loads
   `play_write` for its reset (`main.rs:101`). IO stops and starts again; this
   `StartIO` loads `play_read`, still 0 (`SL3PlugIn.cpp:174`). The daemon stores
   `play_read` = 1 (`main.rs:102`), then `StartIO` stores `play_write` = 0: the reader
   is ahead of the writer. The difference wraps, so `fill` takes the overflow branch,
   where `wr - CUSHION` (`main.rs:157`) underflows, and the checked build panics, while
   `play_write` is below `CUSHION`. `AudioRing_heal` shows that the cursors recover.
2. `Streams_revive`. `wasm.rs:398` says that `stop` makes any running task stop
   after its next transfer. A start in between lowers the shared flag again, and the
   stream that was told to stop runs on. `Streams` checks the same property for a
   page that waits for the end of one stream before it starts another (`Settled`).
3. `Sl3d_unread`. `native_audio.rs:272` says that `run` locks the device clock to the
   requested rate before the endpoints go live. `set_device_config` ignores the result
   of the read that drains each reply (`native_audio.rs:231`), and its next call sends
   before it reads, while a device with an unread reply stalls that send
   (`native_audio.rs:228`, `NOTE.md:27`). TLC's trace: the reply to the output routing
   is not read within its 250 ms; that stream runs as it should. After the next rate
   change SET_RATE stalls, `run` logs it and streams all the same, and so does every
   later one: the daemon streams at 44100 on a device that stays at 48000. Only a
   control client, which drains on opening (`native.rs:347`), or unplugging ends it:
   `LeftReplyStaysHolds` proves that no step of the daemon does.

### Known divergences

Met while modelling, and kept as bounds of what the passing runs claim.

- `main.rs:145`: idle, a rate change and shutdown are looked at in `on_cap` only. If
  the capture transfers leave the pool and playback lives on, none is seen. `MCFaults`
  leaves `cap_pool` out; with it `IdleSuspends` and `StreamFollowsRate` fail in `Sl3d`.
- `README.md:48` says that daemon and control clients claim disjoint interfaces, but
  `set_device_config` claims interface 3 at every start (`native_audio.rs:223`). With a
  control client on it the claim is refused and the stream starts unconfigured. The
  model has this, and `OkMeansSetUp` and `SetupHeals` say what holds in spite of it.
- `docs/protocol.md:91` says of the device "no rate read-back (we cache it)".
  `NOTE.md:32` lists the command that reads it, `device.rs:79` and `lib.rs:148` send it
  and decode its reply. The source cannot decide it: `RateReadBack` is FALSE in the run
  `Sl3Api`, where a rate reply says nothing, and `ReadsSeeWritesHolds` covers both.
- `lib.rs:69` and `lib.rs:117`: with "command" or "close" added to `MCReenter`,
  `CallsReturn` fails in `Sl3Api`: a callback called inside a command that calls the
  library again waits for the mutex its own thread holds, and `sl3_close` called from
  a callback of the reader thread joins itself.
- `main.rs:86-89`: the daemon loads the rate, checks it and stores it back. A rate the
  plugin sets in between is lost, and `StreamFollowsRate` then holds for the rate that
  won, not for the plugin's.
- `SL3PlugIn.cpp:234`: IO that started before the segment existed maps it in a later
  IO cycle, and nobody raises `io_running` until the next `StartIO`. That is why
  `ActiveClientsStream` and `IoReaches` are about the flag and not about the clients.
- `device.rs:64`: the facade takes any report for its reply. `ReplyIsOursOrLate` says
  what it may be instead of the command's own, `ReadsSeeWrites` is about commands that
  got their own, and `PacingFollows`, which is proved and in no run, about sessions in
  which every command got a reply.

### Bounds

- Rings of 4 frames, `CUSHION` 2, `MAXLAT` 2, USB callbacks of 2 frames, IO cycles
  of 1. The code asks for `CUSHION` <= `MAXLAT` < ring and nothing else; the sizes
  are chosen so that every partial case happens: fewer frames buffered than a
  callback wants, an overflow, a ring that wraps (up to 6 captured or 7 played
  frames go round it). The theorems of section 4 hold for every size.
- `Word` stands for 2^64. It is 64, far above every cursor, so that a wrapped
  difference is still larger than `MAXLAT`, which is all the code asks of it.
- `ReaderKeepsUp`: in `AudioRing_race` on_cap does not overwrite the frame
  ReadInput is about to copy. At the real size that is 0.68 s without a read.
  `ReadInput` has no check for it: `CaptureIsFifo` holds only under this
  assumption, `CapReadBehindWrite` without it (it is proved for both values).
- `DrainedRestart`: see `AudioRing_drained`; without it finding 1 applies.
- `FillNotLapped`: the app does not write a whole ring less `MAXLAT` during one
  call of `fill` (0.55 s against a copy of at most 7 frames).
- Two idle polls between probes (50 in the code), two idle callbacks before a
  suspend (one second in the code), two clients, three faults in `Sl3d`: a second
  fault can hit the recovery from the first, and a third that of the second.
  `Sl3d_unread` needs one fault and one client.
- `IsoPool`: two transfers per direction, a feedback queue of 2: full, empty, and
  refused at each position of the startup all occur. Packet count, clamp and 44.1 kHz
  are the real ones. The number of IN transfers with data is bounded by 4.
- `Segment`: four objects, two kills of either process, three callbacks. Four are the
  leftover, its replacement and one more for each kill, so the bound never stops the
  daemon; two kills are enough for one to hit the recovery from the other.
- `NativeXfer`: one interrupt and one isochronous transfer, each used once. Transfers
  share the pump and the closing only.
- `Sl3Api`: one client thread and the reader, two commands, one event, one timeout,
  two reports read per command (eight in the code), a register file of two bytes (22
  in the code), and every kind of call except `GetStatus`. The queue can start with a
  stale reply and an event in either order.
  Two commands are enough for one to take the other's reply.
- `Streams`: two tasks of any kinds, two transfers per direction, a streak of one
  error (the code's limits are larger numbers of the same kinds), a feedback queue of
  two.
- Memory is sequentially consistent. The code's stores that publish frames are
  releases and the loads that consume them acquires; cursor stores in the ring
  reset are relaxed, which on a single location only delays them, as taking the
  step later does.

### Fairness

`Sl3d`: the daemon's thread runs (`WF(Daemon)`); libusb delivers capture
completions of a live stream (`WF(OnCap)`) and errors on a stale handle
(`WF(handle # "live" /\ PoolDies)`); the event loop looks at the stop flag
(`WF(RunEnds)`); coreaudiod finishes the call it is in (`WF(RaiseIO)`) and runs
its IO thread while IO is started (`WF(IoCycleMaps)`). Nothing is assumed of
users, clients, control clients, plugging or signals. `OnCap` needs its own
clause because `Daemon` alone could be satisfied by it or by `RunEnds` forever.
`AudioRing`: the daemon's thread does its work (`DaemonWork`; nothing makes `run`
return by itself), and `fill` keeps being called while the
stream runs, whichever other callbacks come between (strong fairness, since every
capture callback disables it for a moment); without crashes, because a daemon
killed before every `fill` repairs nothing. `IsoPool`: the thread runs, and libusb
reports every cancelled transfer, which its documentation promises and the drain
loop relies on.
`Segment`: launchd restarts the daemon (`KeepAlive`), which gets through
`shm::map`; neither process stops in the middle of a callback or of `ensure_shm`.
Nothing makes a client start IO: `Reconnects` has it as a premise. `NativeXfer`: the
executor polls a woken task, libusb finishes every transfer (each has a timeout), the
pump and the closer run. `Sl3Api`: the device answers, threads and callbacks go on,
and the mutex is handed round (strong fairness), since the reader sleeps without it
after every idle poll. `Streams`: the executor runs every task; while the device is
there each direction brings data again and again, and on a dead one transfers fail.

## 4. Proofs

`AudioRing_proofs` assumes `RingAssumption` (positive sizes, `CUSHION <= MAXLAT`,
a callback and an IO cycle no longer than the ring, and bounds on the cursors
below `Word`) and proves, for all such constants:

- `Typing`: `Spec => []TypeOK`. The interesting case is the clamp of `fill`, whose
  result is a natural number only because `FillPanic` takes the other case.
- `CaptureNeverUnderflows`: `Spec => []CapReadBehindWrite`. The property is not
  inductive: a thread may be about to store a `cap_read` it computed earlier.
  `CaptureInv` adds that whatever is pending is behind `cap_write` too: the value
  `StartIO` loaded, the `r` and `w` of `ReadInput`, and the end `ReadInput` will
  store. `cap_write` is stored by the daemon alone and never decreases, so a
  pending value stays valid however long its thread sleeps; that is the argument
  for snapping the consumer up rather than zeroing the producer.
- `ResetOnlyDropsHolds`: `Spec => ResetOnlyDrops`, from the same invariant: no
  step of the daemon moves `cap_read` back.

- `PlaybackNeverUnderflows`: if `DrainedRestart`, `Spec => []PlayReadBehindWrite`.
  `PlayInv` says that while `StartIO` runs both cursors are equal, so what it
  stores is what is there; that a `play_read` the daemon is about to store lies
  between the current one and `play_write`; and that `play_write` stays below the
  number of frames written, so no difference reaches `Word`. Without
  `DrainedRestart` the first part fails, and that is finding 1.
- `CaptureIsFifoHolds`: if `ReaderKeepsUp`, the refinement `Spec => CaptureIsFifo`.
  `CapFifoInv` says that the slot of every position from `ReadLow` (where a read under
  way started, or the next one will) to `cap_write` holds that position's frame, that
  the slots `on_cap` has filled and not published do too, and that the last frame
  delivered is not above `ReadLow`. Two positions less than a ring apart have different
  slots, so a slot being written is none of those; this is where `ReaderKeepsUp` is
  needed. A reset only moves `ReadLow` up.
- `PlaybackIsFifoHolds`: if `DrainedRestart` and `MaxLat + IoFrames <= RingFrames`, the
  refinement `Spec => PlaybackIsFifo`. `PlayFifoInv` says that the slots from where
  `fill` reads, or will read, to `play_write` hold frames in rising order, above the last
  one played and no higher than the last one written. The app may lap `fill` between
  two calls: slots that it has overwritten, or is about to, are left out (`Kept`), since
  `fill` drops a backlog above `MAXLAT` before it reads and is not lapped while it copies
  (`FillNotLapped`, see Bounds). The second hypothesis makes what remains fit in the ring
  beside an IO buffer: with the code's sizes, IO buffers of up to 26624 frames.

`IsoPool_proofs` assumes `PoolAssumption` (finite, disjoint sets of transfers) and
proves `PoolAccounted` (`InflightCounts`), `NothingFreedInFlight`
(`NoFreeInFlight`) and `QuietAfterStopHolds` (`QuietAfterStop`) from one
invariant, `PoolInv`: nothing is freed while `run` submits, a refused transfer was
never in the pool, and the pool is freed when `inflight`, hence `queued`, is empty.
`MirrorIsFifoHolds` proves the refinement `Spec => MirrorIsFifo` from `FeedbackInv`:
what waits in the queue is numbered in rising order, above all that was mirrored and
no higher than what was captured; dropping the newest keeps that, and the head is
therefore always a legal thing to hear.

`Typing` and `PacedExactlyHolds` (`PacedExactly`) rest on `NominalExact`, that the
packet-by-packet division with a carried remainder, `Nominal`, sends
`(p + Pkts * Rate) div PacketRate` frames from phase `p` and leaves the remainder. It is
an induction over the packets of one transfer. The library's induction theorems take an
operator, which the provers cannot instantiate; `IntervalInduction` states it for a set
`S` of numbers instead and is proved from the well-foundedness of `<` on `Nat`, so `k` is
shown to be in the set of the numbers for which the formula holds.

`Sl3d_proofs` assumes `Sl3dAssumption` and proves, for any faults and any number of
them:

- `Typing`, and `PresenceRetracted` (`PresentMeansOpen`): nobody lowers the word for a
  dead daemon, so `killed` is part of the property; `DetachNoticed` shows that the next
  daemon does.
- `OkMeansSetUpHolds` (`OkMeansSetUp`). The property speaks of the stream only, and
  `SetupInv` follows the configuration to it: while the daemon holds the claim on a live
  device no control client does, so the rate sent stays set until the outputs are, and
  after Ok both stay until a control client sets something (which lowers `cfgOk`), the
  device is unplugged (the handle is stale then) or the next stream begins. That an
  unread reply does not matter to the command it answers, only to the next one, is
  part of it.
- `LeftReplyStaysHolds` (`LeftReplyStays`): a reply that nobody is about to read stays
  until a control client claims the interface or the device is unplugged. It is why the
  premise about replies in `SetupHeals` is needed, and why finding 3 does not heal.

`NativeXfer_proofs` assumes only that the sets of transfers are finite and disjoint,
and proves `Typing`, `NothingUsedAfterFree` and `ReclaimedOrLeakedHolds`. The
invariant relates the future's control point to what libusb and the callback hold:
until the callback has recorded, the transfer, its buffer and one reference are
theirs, so a drop that reads `completed` as false leaks exactly these.

`Segment_proofs` proves `Typing`; `RunningIsNamed`; `ConnectionHolds` (`IoReaches`);
and `LagBoundedHolds` (`LagBounded`), for any number of objects, kills and callbacks.
`NameInv` says that what the daemon holds is what the name leads to, whole once it
was sized, bare while it is stamped, and that it only unlinks what is wrong. `IoInv`
adds that a connected plugin is on a whole, stamped segment, which by `NameInv` no
daemon unlinks or clears. `LagInv` bounds each object's anchor by the kills so far and
the callback in progress, and says that only a stamped segment carries frames, so that
clearing one never takes the count under a `GetZeroTimeStamp` in progress.

`Streams_proofs` proves `Typing`, `PipelineStaysFull`, `CleanEndDrainsHolds` and
`AltMatchesUseHolds` for any number of tasks, any pool depth and any streak. The first
two are inductive together. For the third, `PageInv` says that no two live tasks use
one interface, and `AltInv` that what a task has open is open, and that unless a
`set_alt` failed or the device is gone nothing else is.

`Sl3Api_proofs` assumes `ApiAssumption` (finitely many threads; calls whose code,
offset, count and data are what the functions of `lib.rs` take) and `CodecAssumption`
(the sizes are numbers), and no bound on the register file, the calls or the queues.
`Typed` types the messages and the device, `Turns` says that the mutex has one holder, that
a command under way is that holder's, and that an event taken by the reader is its only
one. On these rest

- `Typing` (`TypeOK`): with `CmdsBounded`, that what was sent and what threads wait to
  send stays within the bound;
- `ReplyIsOursOrLateHolds` (`ReplyIsOursOrLate`): `SeqsInv` says that a sequence number
  other than 0 is on one request or one report and not on two, and that every number on
  the way is owned: by the command under way, or by one that gave up or took another's
  reply. The owner has to be remembered: without it, an answer could come for a command
  that had its own already;
- `ReadsSeeWritesHolds` (`ReadsSeeWrites`): `ReadsInv` says that there is a sequence of
  device states, one for each request still to be processed, that leads from the
  device's state to `asked`, and that in it (and in the queue of reports) the answer to
  the command under way decodes to what the call expects. It holds for both values of
  `RateReadBack`: without read-back an answer to a rate request is any rate, and is not
  compared. The lemmas under it are the
  codec's: `EffectMeant`, that a request does to the device what the call means, and
  `AnswerExpected`, that the reply decodes to what the call is to return, for every call
  in range;
- `PacingFollowsHolds` (`PacingFollows`): unless a command failed, the cached rate is the
  one asked for last or a `SetRate` under way is about to make it that; with nothing
  left to process, `ReadsInv` makes that the device's;
- `EventsAccountedHolds` (`EventsAccounted`): `EventsOnce`, in which no two events in the
  queue are the same one and each is in one place;
- `NoSelfWaitHolds` (`NoSelfWait`), for client code as `CallsReturn` assumes it
  (no call from a callback of a command, no close from one of the reader): the holder of
  the mutex is reading or in a callback, never waiting for the mutex or for the
  reader, and the reader never joins itself. It is the safety half of `CallsReturn`: what
  is left to fairness is that the holder moves.

Every safety property that a run checks is proved. Model-checked only are the
liveness properties, which the prover cannot handle under fairness: `PlaybackHeals`,
`StreamFollowsRate`, `IdleSuspends`, `DetachNoticed`, `ActiveClientsStream`,
`SetupHeals`, `DaemonComesUp`, `Reconnects`, `RunReturns`, `AwaitReturns`, `CloseReturns`,
`CallsReturn`, `StopEndsStreams` and `DeadDeviceEnds`. The hypotheses `ReaderKeepsUp` and
`DrainedRestart` are constants of the models: each theorem that has one is about the runs in which it is so,
and what happens otherwise is under findings and known divergences.

## 5. Not modelled

- Sample conversion, deinterleaving, logging, thread priority, descriptors, the COM
  plumbing and its reference count, and the property table except for the rate: no
  state, or state nothing else reads.
- The host-locked fallback of `GetZeroTimeStamp` and real time: the pair it reads is
  modelled, the clock it computes from it is not.
- The WebUSB transport: each call is one browser promise, without state of its own.
- In `Streams`, the nominal pacing (checked in `IsoPool`, same formula) and the rate
  cell it reads.
- In `Sl3d`, `open` is taken to fail only when no device is attached, enumeration in
  `is_present` to succeed, and a report whose send failed or timed out not to have
  been taken by the device.
- In `Sl3Api`, the four callbacks are one, and looking a callback up and calling it is
  one step.
- Command-line tools, installation scripts and the page's user interface: clients of
  the interfaces above.

## 6. What is left

1. A clock module: reported sample time monotonic across the change between the
   fallback and the device clock (`SL3PlugIn.cpp:206`).
2. The rate cell of the browser binding (`wasm.rs:177`).
3. The safety halves of the liveness properties, as `NoSelfWait` is one: for example
   that a daemon that must stop streaming has a transfer in flight to notice it on.
