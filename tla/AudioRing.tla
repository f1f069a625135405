------------------------------ MODULE AudioRing ------------------------------
(***************************************************************************)
(* The data path between the sl3d daemon and the CoreAudio plugin: two     *)
(* float rings in one shared segment, four absolute frame cursors, and the *)
(* three threads that move them.                                           *)
(*                                                                         *)
(*   daemon   one thread: ring reset, then libusb callbacks (on_cap, fill) *)
(*   ctl      coreaudiod's control thread: StartIO / StopIO under gMutex   *)
(*   rt       coreaudiod's IO thread: ReadInput / WriteMix                 *)
(*                                                                         *)
(* Every atomic load or store of a cursor ANOTHER thread writes is a step  *)
(* of its own; a load of a cursor only the loading thread writes is taken  *)
(* with the step that uses it.  Frames are numbered: a captured frame by   *)
(* its position plus one, a played frame by the order the app wrote it.    *)
(* The rest of the daemon's loop (opening, probing, rates) is Sl3d.tla.    *)
(***************************************************************************)
EXTENDS Integers, Sequences

CONSTANTS
  RingFrames,     \* SL3_RING_FRAMES, slots per ring
  Cushion,        \* CUSHION, frames buffered before playback starts
  MaxLat,         \* MAXLAT, backlog beyond which old frames are dropped
  Word,           \* 2^64: cursor differences are taken modulo Word
  UsbFrames,      \* frame counts one USB callback can carry
  IoFrames,       \* inIOBufferFrameSize, frames of one IO cycle
  MaxClients,     \* bound: clients with IO started at one time
  MaxCap,         \* bound: frames captured
  MaxPlay,        \* bound: frames written by the app
  ReaderKeepsUp,  \* TRUE: the app reads input before the ring laps it
  DrainedRestart  \* TRUE: IO restarts only once the playback ring is empty

ASSUME RingAssumption ==
  /\ RingFrames \in Nat \ {0} /\ Word \in Nat
  /\ Cushion \in Nat \ {0} /\ MaxLat \in Nat /\ Cushion <= MaxLat
  /\ MaxClients \in Nat \ {0}
  /\ UsbFrames \subseteq 1 .. RingFrames
  /\ IoFrames \in 1 .. RingFrames
  /\ MaxCap \in Nat /\ MaxCap < Word
  /\ MaxPlay \in Nat /\ MaxLat + MaxPlay < Word
  /\ ReaderKeepsUp \in BOOLEAN /\ DrainedRestart \in BOOLEAN

VARIABLES
  cap, cap_write, cap_read,      \* capture ring: slots and cursors
  play, play_write, play_read,   \* playback ring: slots and cursors
  io_running,                    \* shm flag raised by StartIO
  dpc, primed,                   \* daemon: control point, fill's state
  rd, avail, frames,             \* daemon: locals of the running callback
  gIORunning, ctl, loaded,       \* plugin: client count, StartIO in progress
  rt, r, w,                      \* plugin: DoIOOperation in progress
  written,                       \* frames the app has written so far
  got, out                       \* history: <<last frame>> \o latest batch

shmVars    == <<cap, cap_write, cap_read, play, play_write, play_read, io_running>>
callVars   == <<rd, avail, frames>>
daemonVars == <<dpc, primed, callVars>>
ctlVars    == <<gIORunning, ctl, loaded>>
rtVars     == <<rt, r, w>>
histVars   == <<written, got, out>>
vars       == <<shmVars, daemonVars, ctlVars, rtVars, histVars>>

Slots == 0 .. RingFrames - 1
DaemonPoints == {"top", "rst_cap", "rst_load", "rst_store", "stream", "cap_pub",
                 "fill_clamp", "fill_copy", "fill_store"}
CtlPoints == {"idle", "cap_load", "cap_store", "play_load", "play_store"}
RtPoints  == {"idle", "rd_w", "rd_copy", "wr_pub"}

Least(a, b) == IF a < b THEN a ELSE b

\* Mutant: a saturating difference instead of a wrapping one.
AvailSaturating(wr, from) == IF wr >= from THEN wr - from ELSE 0

\* wrapping_sub, and the plain u64 subtraction of the C++ side.
Avail(wr, from) == (wr - from) % Word

\* The last frame of the previous batch, then the n frames found in the slots
\* of positions from, from + 1, ...
Batch(hist, slots, from, n) ==
  [i \in 1 .. n + 1 |-> IF i = 1 THEN hist[Len(hist)]
                        ELSE slots[(from + i - 2) % RingFrames]]

\* slots after n frames numbered first, first + 1, ... are copied in at from.
Filled(slots, from, n, first) ==
  [s \in Slots |->
     LET k == (s - from) % RingFrames IN IF k < n THEN first + k ELSE slots[s]]

TypeOK ==
  /\ cap \in [Slots -> Nat] /\ play \in [Slots -> Nat]
  /\ cap_write \in Nat /\ cap_read \in Nat
  /\ play_write \in Nat /\ play_read \in Nat
  /\ io_running \in {0, 1}
  /\ dpc \in DaemonPoints /\ primed \in BOOLEAN
  /\ rd \in Nat /\ avail \in Nat /\ frames \in Nat
  /\ gIORunning \in 0 .. MaxClients /\ ctl \in CtlPoints /\ loaded \in Nat
  /\ rt \in RtPoints /\ r \in Nat /\ w \in Nat
  /\ written \in Nat
  /\ got \in Seq(Nat) \ {<<>>} /\ out \in Seq(Nat) \ {<<>>}

\* A fresh segment (init_header zeroes it), the daemon at its loop, no client.
Init ==
  /\ cap = [s \in Slots |-> 0] /\ cap_write = 0 /\ cap_read = 0
  /\ play = [s \in Slots |-> 0] /\ play_write = 0 /\ play_read = 0
  /\ io_running = 0
  /\ dpc = "top" /\ primed = FALSE
  /\ rd = 0 /\ avail = 0 /\ frames = 0
  /\ gIORunning = 0 /\ ctl = "idle" /\ loaded = 0
  /\ rt = "idle" /\ r = 0 /\ w = 0
  /\ written = 0 /\ got = <<0>> /\ out = <<0>>

-----------------------------------------------------------------------------
(* The daemon thread.                                                      *)

CallLocalsReset == rd' = 0 /\ avail' = 0 /\ frames' = 0

\* A client is doing IO: leave the suspended loop and start a stream.
Resume ==
  /\ dpc = "top" /\ io_running = 1
  /\ dpc' = "rst_cap"
  /\ UNCHANGED <<shmVars, primed, callVars, ctlVars, rtVars, histVars>>

\* Mutant: the reset zeroes the capture cursors, as the daemon once did.
ResetCapZeroes ==
  /\ dpc = "rst_cap"
  /\ cap_write' = 0 /\ cap_read' = 0
  /\ dpc' = "rst_load"
  /\ UNCHANGED <<cap, play, play_write, play_read, io_running,
                 primed, callVars, ctlVars, rtVars, histVars>>

\* Snap cap_read up to cap_write (which only this thread moves).
ResetCap ==
  /\ dpc = "rst_cap"
  /\ cap_read' = cap_write
  /\ dpc' = "rst_load"
  /\ UNCHANGED <<cap, cap_write, play, play_write, play_read, io_running,
                 primed, callVars, ctlVars, rtVars, histVars>>

\* Load the plugin's play_write ...
ResetLoadPlay ==
  /\ dpc = "rst_load"
  /\ rd' = play_write
  /\ dpc' = "rst_store"
  /\ UNCHANGED <<shmVars, primed, avail, frames, ctlVars, rtVars, histVars>>

\* ... and snap play_read up to it; then run() starts with fresh locals.
ResetStorePlay ==
  /\ dpc = "rst_store"
  /\ play_read' = rd
  /\ dpc' = "stream"
  /\ primed' = FALSE /\ CallLocalsReset
  /\ UNCHANGED <<cap, cap_write, cap_read, play, play_write, io_running,
                 ctlVars, rtVars, histVars>>

\* The oldest position the plugin may still take as its next frame to read.
ReadLow ==
  CASE rt \in {"rd_w", "rd_copy"} -> Least(r, cap_read)
    [] ctl = "cap_store"          -> Least(loaded, cap_read)
    [] OTHER                      -> cap_read

\* on_cap: copy the transfer's frames behind cap_write.
CapCopy ==
  \E n \in UsbFrames :
    /\ dpc = "stream"
    /\ cap_write + n <= MaxCap
    /\ ReaderKeepsUp => cap_write + n - ReadLow <= RingFrames
    /\ cap' = Filled(cap, cap_write, n, cap_write + 1)
    /\ frames' = n
    /\ dpc' = "cap_pub"
    /\ UNCHANGED <<cap_write, cap_read, play, play_write, play_read, io_running,
                   primed, rd, avail, ctlVars, rtVars, histVars>>

\* on_cap: publish cap_write.  (When on_cap asks run() to stop is in Sl3d.)
CapPublish ==
  /\ dpc = "cap_pub"
  /\ cap_write' = cap_write + frames
  /\ dpc' = "stream"
  /\ CallLocalsReset
  /\ UNCHANGED <<cap, cap_read, play, play_write, play_read, io_running,
                 primed, ctlVars, rtVars, histVars>>

\* fill: load the cursors and serve from play_read.  While less than a cushion is
\* buffered and the stream is not primed, fill returns silence and changes nothing.
FillStart ==
  \E n \in UsbFrames :
    /\ dpc = "stream"
    /\ Avail(play_write, play_read) <= MaxLat
    /\ primed \/ Avail(play_write, play_read) >= Cushion
    /\ rd' = play_read /\ avail' = Avail(play_write, play_read) /\ frames' = n
    /\ primed' = TRUE
    /\ dpc' = "fill_copy"
    /\ UNCHANGED <<shmVars, ctlVars, rtVars, histVars>>

\* Mutant: the clamp subtracts CUSHION without caring how small play_write is.
FillOverflowUnchecked ==
  \E n \in UsbFrames :
    /\ dpc = "stream"
    /\ Avail(play_write, play_read) > MaxLat
    /\ rd' = play_write - Cushion /\ avail' = Cushion /\ frames' = n
    /\ primed' = TRUE
    /\ dpc' = "fill_clamp"
    /\ UNCHANGED <<shmVars, ctlVars, rtVars, histVars>>

\* Mutant: the backlog is served from play_read, old frames and all.
FillOverflowKeepsBacklog ==
  \E n \in UsbFrames :
    /\ dpc = "stream"
    /\ Avail(play_write, play_read) > MaxLat /\ play_write >= Cushion
    /\ rd' = play_read /\ avail' = Avail(play_write, play_read) /\ frames' = n
    /\ primed' = TRUE
    /\ dpc' = "fill_clamp"
    /\ UNCHANGED <<shmVars, ctlVars, rtVars, histVars>>

\* fill: the backlog reads as more than MAXLAT, so keep only the newest cushion.
FillOverflow ==
  \E n \in UsbFrames :
    /\ dpc = "stream"
    /\ Avail(play_write, play_read) > MaxLat /\ play_write >= Cushion
    /\ rd' = play_write - Cushion /\ avail' = Cushion /\ frames' = n
    /\ primed' = TRUE
    /\ dpc' = "fill_clamp"
    /\ UNCHANGED <<shmVars, ctlVars, rtVars, histVars>>

\* fill: the same with play_write < CUSHION, where the checked u64 subtraction of
\* the installed build panics; the process aborts and launchd restarts it.
FillPanic ==
  /\ dpc = "stream"
  /\ Avail(play_write, play_read) > MaxLat /\ play_write < Cushion
  /\ dpc' = "top"
  /\ primed' = FALSE
  /\ UNCHANGED <<shmVars, callVars, ctlVars, rtVars, histVars>>

\* fill: store the clamped play_read.
FillClamp ==
  /\ dpc = "fill_clamp"
  /\ play_read' = rd
  /\ dpc' = "fill_copy"
  /\ UNCHANGED <<cap, cap_write, cap_read, play, play_write, io_running,
                 primed, callVars, ctlVars, rtVars, histVars>>

\* fill: copy what is available to the OUT transfer, silence after it.
FillCopy ==
  /\ dpc = "fill_copy"
  /\ out' = Batch(out, play, rd, Least(avail, frames))
  /\ dpc' = "fill_store"
  /\ UNCHANGED <<shmVars, primed, callVars, ctlVars, rtVars, written, got>>

\* Mutant: consume a whole callback's frames even when fewer were available.
FillStoreAll ==
  /\ dpc = "fill_store"
  /\ play_read' = rd + frames
  /\ primed' = (avail >= frames)
  /\ dpc' = "stream"
  /\ CallLocalsReset
  /\ UNCHANGED <<cap, cap_write, cap_read, play, play_write, io_running,
                 ctlVars, rtVars, histVars>>

\* fill: consume; an underrun asks for a new cushion.
FillStore ==
  /\ dpc = "fill_store"
  /\ play_read' = rd + Least(avail, frames)
  /\ primed' = (avail >= frames)
  /\ dpc' = "stream"
  /\ CallLocalsReset
  /\ UNCHANGED <<cap, cap_write, cap_read, play, play_write, io_running,
                 ctlVars, rtVars, histVars>>

\* run() returns between two callbacks: the stop flag was seen, the pool emptied or
\* an error ended it.  The loop is entered again, after a reopen in the last cases.
StreamEnd ==
  /\ dpc = "stream"
  /\ dpc' = "top"
  /\ primed' = FALSE
  /\ UNCHANGED <<shmVars, callVars, ctlVars, rtVars, histVars>>

\* The daemon is killed at any point and restarted on the same segment.
DaemonRestart ==
  /\ dpc # "top"
  /\ dpc' = "top"
  /\ primed' = FALSE /\ CallLocalsReset
  /\ UNCHANGED <<shmVars, ctlVars, rtVars, histVars>>

\* What the thread does of its own accord; nothing makes run() return.
DaemonWork ==
  \/ Resume \/ ResetCap \/ ResetLoadPlay \/ ResetStorePlay
  \/ CapCopy \/ CapPublish
  \/ FillStart \/ FillOverflow \/ FillPanic
  \/ FillClamp \/ FillCopy \/ FillStore

Daemon == DaemonWork \/ StreamEnd

-----------------------------------------------------------------------------
(* coreaudiod's control thread: gMutex is held from StartIO to the step     *)
(* that returns, so one ctl suffices.                                       *)

\* StartIO of the first client: raise io_running before snapping the cursors.
StartIO ==
  /\ ctl = "idle" /\ rt = "idle" /\ gIORunning = 0
  /\ DrainedRestart => play_read = play_write
  /\ gIORunning' = 1
  /\ io_running' = 1
  /\ ctl' = "cap_load"
  /\ UNCHANGED <<cap, cap_write, cap_read, play, play_write, play_read,
                 daemonVars, loaded, rtVars, histVars>>

\* StartIO of a further client only counts it.
StartIOMore ==
  /\ ctl = "idle" /\ gIORunning \in 1 .. MaxClients - 1
  /\ gIORunning' = gIORunning + 1
  /\ UNCHANGED <<shmVars, daemonVars, ctl, loaded, rtVars, histVars>>

StartLoadCap ==
  /\ ctl = "cap_load"
  /\ loaded' = cap_write /\ ctl' = "cap_store"
  /\ UNCHANGED <<shmVars, daemonVars, gIORunning, rtVars, histVars>>

StartStoreCap ==
  /\ ctl = "cap_store"
  /\ cap_read' = loaded
  /\ loaded' = 0 /\ ctl' = "play_load"
  /\ UNCHANGED <<cap, cap_write, play, play_write, play_read, io_running,
                 daemonVars, gIORunning, rtVars, histVars>>

StartLoadPlay ==
  /\ ctl = "play_load"
  /\ loaded' = play_read /\ ctl' = "play_store"
  /\ UNCHANGED <<shmVars, daemonVars, gIORunning, rtVars, histVars>>

StartStorePlay ==
  /\ ctl = "play_store"
  /\ play_write' = loaded
  /\ loaded' = 0 /\ ctl' = "idle"
  /\ UNCHANGED <<cap, cap_write, cap_read, play, play_read, io_running,
                 daemonVars, gIORunning, rtVars, histVars>>

\* StopIO: the last client lowers io_running; the HAL has stopped its IO thread.
StopIO ==
  /\ ctl = "idle" /\ gIORunning > 0
  /\ gIORunning = 1 => rt = "idle"
  /\ gIORunning' = gIORunning - 1
  /\ io_running' = IF gIORunning = 1 THEN 0 ELSE io_running
  /\ UNCHANGED <<cap, cap_write, cap_read, play, play_write, play_read,
                 daemonVars, ctl, loaded, rtVars, histVars>>

-----------------------------------------------------------------------------
(* coreaudiod's IO thread: DoIOOperation, while a client has IO started.    *)

IoActive == gIORunning > 0 /\ ctl = "idle" /\ rt = "idle"

\* ReadInput: load cap_read, then cap_write, then copy and store.
ReadLoadR ==
  /\ IoActive
  /\ r' = cap_read /\ rt' = "rd_w"
  /\ UNCHANGED <<shmVars, daemonVars, ctlVars, w, histVars>>

ReadLoadW ==
  /\ rt = "rd_w"
  /\ w' = cap_write /\ rt' = "rd_copy"
  /\ UNCHANGED <<shmVars, daemonVars, ctlVars, r, histVars>>

\* Mutant: the consumed count is one short.
ReadDeliverShort ==
  /\ rt = "rd_copy"
  /\ LET consumed == Least(Avail(w, r), IoFrames)
     IN  /\ got' = Batch(got, cap, r, consumed)
         /\ cap_read' = r + (IF consumed = 0 THEN 0 ELSE consumed - 1)
  /\ rt' = "idle" /\ r' = 0 /\ w' = 0
  /\ UNCHANGED <<cap, cap_write, play, play_write, play_read, io_running,
                 daemonVars, ctlVars, written, out>>

ReadDeliver ==
  /\ rt = "rd_copy"
  /\ LET consumed == Least(Avail(w, r), IoFrames)
     IN  /\ got' = Batch(got, cap, r, consumed)
         /\ cap_read' = r + consumed
  /\ rt' = "idle" /\ r' = 0 /\ w' = 0
  /\ UNCHANGED <<cap, cap_write, play, play_write, play_read, io_running,
                 daemonVars, ctlVars, written, out>>

\* Assumed of the clock: the app does not write the RingFrames - MaxLat frames
\* (0.55 s of audio) that would reach the frames one call of fill is copying.
FillNotLapped(n) == dpc \in {"fill_clamp", "fill_copy"} => play_write + n - rd <= RingFrames

\* WriteMix: copy the app's frames behind play_write, then publish them.
WriteCopy ==
  /\ IoActive
  /\ FillNotLapped(IoFrames)
  /\ written + IoFrames <= MaxPlay
  /\ play' = Filled(play, play_write, IoFrames, written + 1)
  /\ written' = written + IoFrames
  /\ rt' = "wr_pub"
  /\ UNCHANGED <<cap, cap_write, cap_read, play_write, play_read, io_running,
                 daemonVars, ctlVars, r, w, got, out>>

WritePublish ==
  /\ rt = "wr_pub"
  /\ play_write' = play_write + IoFrames
  /\ rt' = "idle"
  /\ UNCHANGED <<cap, cap_write, cap_read, play, play_read, io_running,
                 daemonVars, ctlVars, r, w, histVars>>

\* coreaudiod is killed and restarted: its process state is gone, shm is not.
PluginRestart ==
  /\ gIORunning > 0
  /\ gIORunning' = 0 /\ ctl' = "idle" /\ loaded' = 0
  /\ rt' = "idle" /\ r' = 0 /\ w' = 0
  /\ UNCHANGED <<shmVars, daemonVars, histVars>>

Plugin ==
  \/ StartIO \/ StartIOMore \/ StartLoadCap \/ StartStoreCap
  \/ StartLoadPlay \/ StartStorePlay \/ StopIO
  \/ ReadLoadR \/ ReadLoadW \/ ReadDeliver \/ WriteCopy \/ WritePublish

Next == Daemon \/ Plugin \/ DaemonRestart \/ PluginRestart

Spec == Init /\ [][Next]_vars

\* Without crashes: the daemon's thread keeps running, and while it streams the
\* device keeps completing OUT transfers, so fill keeps being called.
FairSpec ==
  /\ Init /\ [][Daemon \/ Plugin]_vars
  /\ WF_vars(DaemonWork)
  /\ SF_vars(FillOverflow \/ FillPanic)

-----------------------------------------------------------------------------
(* Properties.                                                              *)

\* The capture cursors never cross, whichever of the three threads that store
\* cap_read comes last, so ReadInput's w - r cannot wrap to 2^64 and silence
\* capture for good (main.rs:90-98).
CapReadBehindWrite == cap_read <= cap_write

\* The ring reset only drops: while ReadInput or StartIO run beside it, the
\* daemon's store of cap_read never hands the plugin frames again.
ResetOnlyDrops == [][dpc # dpc' => cap_read' >= cap_read]_<<dpc, cap_read>>

\* Captured frames reach the app in capture order, at most once and only after
\* on_cap published them, across resets, IO restarts and crashes, as long as the
\* ring does not lap the reader (ReadInput: "FIFO", SL3PlugIn.cpp:238).
Capture == INSTANCE LossyFifo WITH produced <- cap_write, heard <- got
CaptureIsFifo == Capture!Spec

\* play_read never overtakes play_write ("avail can never underflow").
PlayReadBehindWrite == play_read <= play_write

\* The device plays the app's frames in the order written, at most once and only
\* after WriteMix published them.
Playback == INSTANCE LossyFifo WITH
              produced <- IF rt = "wr_pub" THEN written - IoFrames ELSE written,
              heard    <- out
PlaybackIsFifo == Playback!Spec

\* If play_read did overtake play_write, fill's overflow branch or the next reset
\* puts it back (unless the daemon suspends first).
PlaybackHeals ==
  (play_read > play_write)
    ~> (play_read <= play_write \/ (dpc = "top" /\ io_running = 0))
==============================================================================
