-------------------------------- MODULE Sl3d --------------------------------
(***************************************************************************)
(* The control plane: the sl3d daemon's main loop (open, suspend, stream,  *)
(* probe, reopen), the plugin operations that steer it through the shared  *)
(* segment, the device being plugged and unplugged, and the control        *)
(* clients that hold the HID interface.  The rings themselves are in       *)
(* AudioRing.tla; here a capture callback stands for one callback's worth  *)
(* of frames, and idle_frames and idle_ticks count callbacks and polls.    *)
(***************************************************************************)
EXTENDS Integers

CONSTANTS
  Rates,        \* 44100 and 48000
  Arg,          \* the daemon's command-line rate, also the plugin's first rate
  PowerOnRate,  \* the rate the device powers up at
  ProbeEvery,   \* PROBE_EVERY, idle polls between liveness probes
  IdleStop,     \* idle_stop, idle callbacks before the stream is suspended
  MaxClients,   \* bound: clients with IO started at one time
  Faults,       \* which of FaultKinds may happen
  MaxFaults     \* bound: how many of them happen

FaultKinds == {"detach", "submit", "cap_pool", "play_pool", "daemon_crash",
               "plugin_crash", "hid_client", "hid_write", "hid_reply", "signal",
               "late_daemon"}

ASSUME Sl3dAssumption ==
  /\ Arg \in Rates /\ PowerOnRate \in Rates /\ 0 \notin Rates
  /\ ProbeEvery \in Nat \ {0} /\ IdleStop \in Nat \ {0}
  /\ MaxClients \in Nat \ {0}
  /\ Faults \subseteq FaultKinds /\ MaxFaults \in Nat

VARIABLES
  segment,                        \* the shm segment exists and is initialised
  sample_rate, device_present, clock_host, io_running, \* its control words
  dpc, STOP, handle, r,           \* daemon: control point, signal, device, rate
  idle_ticks, idle_frames, stream_stop, stream_err,    \* daemon: loop locals
  capLive, playLive,              \* daemon: transfers of each pool in flight
  attached, hwRate, hwOut,        \* device: on the bus, clock, output routing
  undrained,                      \* device: a reply waits at EP_HID_IN
  hidHeld,                        \* a control client has IF_HID claimed
  gSampleRate, gIORunning, mapped, ctl, \* plugin
  killed,  \* history: the last daemon was killed, and no other has tried to open yet
  cfgOk,   \* history: set_device_config returned Ok, and no control client came since
  nfaults                         \* faults so far (bounded by MaxFaults)

shmVars    == <<segment, sample_rate, device_present, clock_host, io_running>>
loopVars   == <<STOP, handle, r, idle_ticks, idle_frames, stream_stop, stream_err>>
poolVars   == <<capLive, playLive>>
daemonVars == <<dpc, loopVars, poolVars>>
usbVars    == <<attached, hwRate, hwOut, undrained, hidHeld>>
pluginVars == <<gSampleRate, gIORunning, mapped, ctl>>
noteVars   == <<killed, cfgOk>>
vars       == <<shmVars, daemonVars, usbVars, pluginVars, noteVars, nfaults>>

DaemonPoints == {"down", "open", "head", "rate", "reset", "config", "rate_sent",
                 "outputs", "outputs_sent", "start", "stream", "ended", "closed"}

TypeOK ==
  /\ segment \in BOOLEAN /\ sample_rate \in Rates \cup {0}
  /\ device_present \in {0, 1} /\ clock_host \in {0, 1} /\ io_running \in {0, 1}
  /\ dpc \in DaemonPoints /\ STOP \in BOOLEAN
  /\ handle \in {"none", "live", "stale"} /\ r \in Rates
  /\ idle_ticks \in 0 .. ProbeEvery - 1 /\ idle_frames \in 0 .. IdleStop
  /\ stream_stop \in BOOLEAN /\ stream_err \in BOOLEAN
  /\ capLive \in BOOLEAN /\ playLive \in BOOLEAN
  /\ attached \in BOOLEAN /\ hwRate \in Rates /\ hwOut \in BOOLEAN
  /\ undrained \in BOOLEAN /\ hidHeld \in BOOLEAN
  /\ killed \in BOOLEAN /\ cfgOk \in BOOLEAN
  /\ gSampleRate \in Rates /\ gIORunning \in 0 .. MaxClients
  /\ mapped \in BOOLEAN /\ ctl \in {"idle", "raise"}
  /\ nfaults \in 0 .. MaxFaults

\* Before anything ran: no segment, no daemon, coreaudiod without clients.
Init ==
  /\ segment = FALSE /\ sample_rate = 0 /\ device_present = 0
  /\ clock_host = 0 /\ io_running = 0
  /\ dpc = "down" /\ STOP = FALSE /\ handle = "none" /\ r = Arg
  /\ idle_ticks = 0 /\ idle_frames = 0 /\ stream_stop = FALSE /\ stream_err = FALSE
  /\ capLive = FALSE /\ playLive = FALSE
  /\ attached \in BOOLEAN /\ hwRate = PowerOnRate /\ hwOut = FALSE
  /\ undrained = FALSE /\ hidHeld = FALSE
  /\ killed = FALSE /\ cfgOk = FALSE
  /\ gSampleRate = Arg /\ gIORunning = 0 /\ mapped = FALSE /\ ctl = "idle"
  /\ nfaults = 0

Fault(kind) == kind \in Faults /\ nfaults < MaxFaults /\ nfaults' = nfaults + 1

-----------------------------------------------------------------------------
(* The daemon's thread.                                                     *)

\* launchd starts the process: map and initialise the segment, publish the
\* command-line rate.
Start ==
  /\ dpc = "down"
  /\ segment' = TRUE /\ sample_rate' = Arg
  /\ STOP' = FALSE /\ handle' = "none" /\ r' = Arg
  /\ dpc' = "open"
  /\ UNCHANGED <<noteVars, device_present, clock_host, io_running, idle_ticks, idle_frames,
                 stream_stop, stream_err, poolVars, usbVars, pluginVars, nfaults>>

\* Outer loop: a signal ends the process.
Exit ==
  /\ dpc = "open" /\ STOP
  /\ dpc' = "down"
  /\ UNCHANGED <<noteVars, shmVars, loopVars, poolVars, usbVars, pluginVars, nfaults>>

\* AudioDevice::open fails while no device is attached: say so, wait, retry.
OpenFails ==
  /\ dpc = "open" /\ ~STOP /\ ~attached
  /\ device_present' = 0 /\ killed' = FALSE
  /\ UNCHANGED <<segment, sample_rate, clock_host, io_running, daemonVars,
                 usbVars, pluginVars, cfgOk, nfaults>>

Open ==
  /\ dpc = "open" /\ ~STOP /\ attached
  /\ handle' = "live" /\ stream_err' = FALSE /\ idle_ticks' = 0
  /\ dpc' = "head" /\ killed' = FALSE
  /\ UNCHANGED <<shmVars, STOP, r, idle_frames, stream_stop, poolVars, usbVars,
                 pluginVars, cfgOk, nfaults>>

\* Inner loop: a signal leaves it.
HeadStop ==
  /\ dpc = "head" /\ STOP
  /\ dpc' = "closed"
  /\ UNCHANGED <<noteVars, shmVars, loopVars, poolVars, usbVars, pluginVars, nfaults>>

IdleProbeDue == idle_ticks + 1 >= ProbeEvery

\* Mutant: the tick counter is not reset by a probe.
NextTickUnreset == idle_ticks + 1
NextTick == IF IdleProbeDue THEN 0 ELSE idle_ticks + 1

\* Mutant: idle polls never probe.
StillThereUnprobed == TRUE
StillThere == IdleProbeDue => handle = "live"

PublishIdle == device_present' = 1 /\ clock_host' = 0

\* Suspended: publish presence and clear the clock anchor, unless a due probe
\* finds the handle's device gone.
IdlePoll ==
  /\ dpc = "head" /\ ~STOP /\ io_running = 0
  /\ StillThere
  /\ idle_ticks' = NextTick
  /\ PublishIdle
  /\ UNCHANGED <<noteVars, segment, sample_rate, io_running, dpc, STOP, handle, r, idle_frames,
                 stream_stop, stream_err, poolVars, usbVars, pluginVars, nfaults>>

IdleGone ==
  /\ dpc = "head" /\ ~STOP /\ io_running = 0
  /\ ~StillThere
  /\ idle_ticks' = 0
  /\ device_present' = 0
  /\ dpc' = "closed"
  /\ UNCHANGED <<noteVars, segment, sample_rate, clock_host, io_running, STOP, handle, r,
                 idle_frames, stream_stop, stream_err, poolVars, usbVars,
                 pluginVars, nfaults>>

\* Active: a client does IO.
Wake ==
  /\ dpc = "head" /\ ~STOP /\ io_running = 1
  /\ idle_ticks' = 0
  /\ dpc' = "rate"
  /\ UNCHANGED <<noteVars, shmVars, STOP, handle, r, idle_frames, stream_stop, stream_err,
                 poolVars, usbVars, pluginVars, nfaults>>

\* Load the rate to stream at ...
LoadRate ==
  /\ dpc = "rate"
  /\ r' = IF sample_rate \in Rates THEN sample_rate ELSE Arg
  /\ dpc' = "reset"
  /\ UNCHANGED <<noteVars, shmVars, STOP, handle, idle_ticks, idle_frames, stream_stop,
                 stream_err, poolVars, usbVars, pluginVars, nfaults>>

\* Mutant: a device that was configured is not configured again.
ResetStreamOnce ==
  /\ dpc = "reset"
  /\ sample_rate' = r /\ device_present' = 1
  /\ stream_stop' = FALSE /\ idle_frames' = 0
  /\ dpc' = IF cfgOk THEN "start" ELSE "config"
  /\ UNCHANGED <<segment, clock_host, io_running, STOP, handle, r, idle_ticks,
                 stream_err, poolVars, usbVars, pluginVars, noteVars, nfaults>>

\* ... and store it back, publish presence, set up the stream's locals (the ring
\* reset in between is AudioRing's).
ResetStream ==
  /\ dpc = "reset"
  /\ sample_rate' = r /\ device_present' = 1
  /\ stream_stop' = FALSE /\ idle_frames' = 0
  /\ dpc' = "config" /\ cfgOk' = FALSE
  /\ UNCHANGED <<segment, clock_host, io_running, STOP, handle, r, idle_ticks,
                 stream_err, poolVars, usbVars, pluginVars, killed, nfaults>>

\* A failure that a stale handle explains, or else a fault.
Excused(kind) == IF handle = "live" THEN Fault(kind) ELSE UNCHANGED nfaults

\* The control points at which the daemon has IF_HID claimed.
Claimed == {"rate_sent", "outputs", "outputs_sent"}

\* The device takes the next OUT report only once its last reply was read
\* ("Every OUT must be followed by draining its one IN reply, or the next OUT stalls").
TakesReport == handle = "live" /\ ~hidHeld /\ ~undrained

\* Mutant: the rate the daemon was started with.
SendRateArg ==
  /\ dpc = "config" /\ TakesReport
  /\ hwRate' = Arg /\ undrained' = TRUE
  /\ dpc' = "rate_sent"
  /\ UNCHANGED <<noteVars, shmVars, loopVars, poolVars, attached, hwOut, hidHeld,
                 pluginVars, nfaults>>

\* set_device_config claims IF_HID and sends the rate ...
SendRate ==
  /\ dpc = "config" /\ TakesReport
  /\ hwRate' = r /\ undrained' = TRUE
  /\ dpc' = "rate_sent"
  /\ UNCHANGED <<noteVars, shmVars, loopVars, poolVars, attached, hwOut, hidHeld,
                 pluginVars, nfaults>>

\* ... then output routing, ...
SendOutputs ==
  /\ dpc = "outputs" /\ TakesReport
  /\ hwOut' = TRUE /\ undrained' = TRUE
  /\ dpc' = "outputs_sent" /\ cfgOk' = TRUE
  /\ UNCHANGED <<shmVars, loopVars, poolVars, attached, hwRate, hidHeld,
                 pluginVars, killed, nfaults>>

\* ... reading one reply after each.  A read that fails, or returns an event, is
\* ignored, and the reply stays.
Drain ==
  /\ dpc \in {"rate_sent", "outputs_sent"}
  /\ \/ handle = "live" /\ undrained' = FALSE /\ UNCHANGED nfaults
     \/ UNCHANGED undrained /\ Excused("hid_reply")
  /\ dpc' = IF dpc = "rate_sent" THEN "outputs" ELSE "start"
  /\ UNCHANGED <<noteVars, shmVars, loopVars, poolVars, attached, hwRate, hwOut, hidHeld,
                 pluginVars>>

\* The claim is refused, or an OUT report fails or times out: the rest is skipped,
\* the claim released, the error logged, and run() goes on.
ConfigFails ==
  /\ dpc \in {"config", "outputs"}
  /\ IF TakesReport THEN Fault("hid_write") ELSE UNCHANGED nfaults
  /\ dpc' = "start"
  /\ UNCHANGED <<noteVars, shmVars, loopVars, poolVars, usbVars, pluginVars>>

\* run() after the configuration: alt setting 1, submit both pools.
RunStart ==
  /\ dpc = "start" /\ handle = "live"
  /\ capLive' = TRUE /\ playLive' = TRUE
  /\ dpc' = "stream"
  /\ UNCHANGED <<noteVars, shmVars, loopVars, usbVars, pluginVars, nfaults>>

\* Mutant: the stream is retried on the handle that failed.
RunFailsRetried ==
  /\ dpc = "start"
  /\ Excused("submit")
  /\ stream_err' = TRUE
  /\ dpc' = "head"
  /\ UNCHANGED <<noteVars, shmVars, STOP, handle, r, idle_ticks, idle_frames, stream_stop,
                 poolVars, usbVars, pluginVars>>

\* run() fails: no device behind the handle, or a startup submission is refused.
RunFails ==
  /\ dpc = "start"
  /\ Excused("submit")
  /\ stream_err' = TRUE
  /\ dpc' = "closed"
  /\ UNCHANGED <<noteVars, shmVars, STOP, handle, r, idle_ticks, idle_frames, stream_stop,
                 poolVars, usbVars, pluginVars>>

RateMoved == sample_rate \in Rates /\ sample_rate # r

\* Mutants: one of the reasons to stop is forgotten.
StopAskedNoIdle   == STOP \/ RateMoved
StopAskedNoRate   == STOP \/ idle_frames' >= IdleStop
StopAsked         == STOP \/ idle_frames' >= IdleStop \/ RateMoved

\* on_cap: publish the clock anchor, count idle callbacks, decide to stop.
OnCap ==
  /\ dpc = "stream" /\ capLive /\ handle = "live"
  /\ clock_host' = 1
  /\ idle_frames' = IF io_running = 1 THEN 0
                    ELSE IF idle_frames < IdleStop THEN idle_frames + 1 ELSE IdleStop
  /\ stream_stop' = (stream_stop \/ StopAsked)
  /\ UNCHANGED <<noteVars, segment, sample_rate, device_present, io_running, dpc, STOP, handle,
                 r, idle_ticks, stream_err, poolVars, usbVars, pluginVars, nfaults>>

\* All resubmissions of one direction fail, or complete in error: its transfers
\* leave the pool.  A stale handle empties both.
PoolDies ==
  /\ dpc = "stream"
  /\ \/ capLive /\ capLive' = FALSE /\ UNCHANGED playLive /\ Excused("cap_pool")
     \/ playLive /\ playLive' = FALSE /\ UNCHANGED capLive /\ Excused("play_pool")
  /\ UNCHANGED <<noteVars, shmVars, dpc, loopVars, usbVars, pluginVars>>

\* run()'s event loop ends: the stop flag is set or nothing is in flight.  It
\* cancels and drains the pools and returns Ok.
RunEnds ==
  /\ dpc = "stream"
  /\ stream_stop \/ (~capLive /\ ~playLive)
  /\ capLive' = FALSE /\ playLive' = FALSE
  /\ dpc' = "ended"
  /\ UNCHANGED <<noteVars, shmVars, loopVars, usbVars, pluginVars, nfaults>>

\* After Ok: back to the inner loop, unless the device is gone.
AfterRun ==
  /\ dpc = "ended" /\ handle = "live"
  /\ dpc' = "head"
  /\ UNCHANGED <<noteVars, shmVars, loopVars, poolVars, usbVars, pluginVars, nfaults>>

AfterRunGone ==
  /\ dpc = "ended" /\ handle # "live"
  /\ device_present' = 0
  /\ dpc' = "closed"
  /\ UNCHANGED <<noteVars, segment, sample_rate, clock_host, io_running, loopVars, poolVars,
                 usbVars, pluginVars, nfaults>>

\* Mutant: the device is dropped and still published.
ClosedQuietly ==
  /\ dpc = "closed"
  /\ handle' = "none"
  /\ dpc' = "open"
  /\ UNCHANGED <<noteVars, shmVars, STOP, r, idle_ticks, idle_frames, stream_stop, stream_err,
                 poolVars, usbVars, pluginVars, nfaults>>

\* The device is dropped (and a stream error backs off 500 ms).
Closed ==
  /\ dpc = "closed"
  /\ device_present' = 0 /\ handle' = "none"
  /\ dpc' = "open"
  /\ UNCHANGED <<noteVars, segment, sample_rate, clock_host, io_running, STOP, r, idle_ticks,
                 idle_frames, stream_stop, stream_err, poolVars, usbVars,
                 pluginVars, nfaults>>

Daemon ==
  \/ Start \/ Exit \/ OpenFails \/ Open \/ HeadStop \/ IdlePoll \/ IdleGone \/ Wake
  \/ LoadRate \/ ResetStream \/ SendRate \/ SendOutputs \/ Drain \/ ConfigFails
  \/ RunStart \/ RunFails \/ OnCap \/ RunEnds
  \/ AfterRun \/ AfterRunGone \/ Closed

\* SIGINT or SIGTERM.
Signal ==
  /\ dpc # "down" /\ ~STOP /\ Fault("signal")
  /\ STOP' = TRUE
  /\ UNCHANGED <<noteVars, shmVars, dpc, handle, r, idle_ticks, idle_frames, stream_stop,
                 stream_err, poolVars, usbVars, pluginVars>>

\* The process is killed; the segment and the device keep their state, an unread
\* reply included.
DaemonCrash ==
  /\ dpc # "down" /\ Fault("daemon_crash")
  /\ dpc' = "down" /\ handle' = "none" /\ capLive' = FALSE /\ playLive' = FALSE
  /\ killed' = TRUE
  /\ UNCHANGED <<cfgOk, shmVars, STOP, r, idle_ticks, idle_frames, stream_stop, stream_err,
                 usbVars, pluginVars>>

-----------------------------------------------------------------------------
(* The plugin, under gMutex (held while ctl is not idle).                   *)

Live(m) == m \/ segment   \* gShm after ensure_shm

\* StartIO of the first client: map, publish the rate ...
StartIO ==
  /\ ctl = "idle" /\ gIORunning = 0
  /\ segment \/ "late_daemon" \in Faults
  /\ gIORunning' = 1
  /\ mapped' = Live(mapped)
  /\ sample_rate' = IF Live(mapped) THEN gSampleRate ELSE sample_rate
  /\ ctl' = IF Live(mapped) THEN "raise" ELSE "idle"
  /\ UNCHANGED <<noteVars, segment, device_present, clock_host, io_running, daemonVars, usbVars,
                 gSampleRate, nfaults>>

\* ... then raise io_running.
RaiseIO ==
  /\ ctl = "raise"
  /\ io_running' = 1
  /\ ctl' = "idle"
  /\ UNCHANGED <<noteVars, segment, sample_rate, device_present, clock_host, daemonVars, usbVars,
                 gSampleRate, gIORunning, mapped, nfaults>>

StartIOMore ==
  /\ ctl = "idle" /\ gIORunning \in 1 .. MaxClients - 1
  /\ gIORunning' = gIORunning + 1
  /\ UNCHANGED <<noteVars, shmVars, daemonVars, usbVars, gSampleRate, mapped, ctl, nfaults>>

\* StopIO: the last client lowers io_running.
StopIO ==
  /\ ctl = "idle" /\ gIORunning > 0
  /\ gIORunning' = gIORunning - 1
  /\ io_running' = IF gIORunning = 1 /\ mapped THEN 0 ELSE io_running
  /\ UNCHANGED <<noteVars, segment, sample_rate, device_present, clock_host, daemonVars, usbVars,
                 gSampleRate, mapped, ctl, nfaults>>

\* DoIOOperation maps the segment if it still has none.
IoCycleMaps ==
  /\ ctl = "idle" /\ gIORunning > 0 /\ ~mapped /\ segment
  /\ mapped' = TRUE
  /\ UNCHANGED <<noteVars, shmVars, daemonVars, usbVars, gSampleRate, gIORunning, ctl, nfaults>>

\* SetPropertyData asks for a new rate and the host performs the change.
ChangeRate ==
  \E x \in Rates \ {gSampleRate} :
    /\ ctl = "idle"
    /\ gSampleRate' = x
    /\ mapped' = Live(mapped)
    /\ sample_rate' = IF Live(mapped) THEN x ELSE sample_rate
    /\ UNCHANGED <<noteVars, segment, device_present, clock_host, io_running, daemonVars, usbVars,
                   gIORunning, ctl, nfaults>>

\* coreaudiod is killed and restarted: globals start over, Initialize maps.
PluginCrash ==
  /\ Fault("plugin_crash")
  /\ gSampleRate' = Arg /\ gIORunning' = 0 /\ mapped' = segment /\ ctl' = "idle"
  /\ UNCHANGED <<noteVars, shmVars, daemonVars, usbVars>>

Plugin == StartIO \/ RaiseIO \/ StartIOMore \/ StopIO \/ IoCycleMaps \/ ChangeRate

-----------------------------------------------------------------------------
(* The device and the control clients.                                      *)

\* Unplugging makes an open handle stale for good, and a claim void; the device
\* loses its setup.
Detach ==
  /\ attached /\ Fault("detach")
  /\ attached' = FALSE /\ hwRate' = PowerOnRate /\ hwOut' = FALSE
  /\ undrained' = FALSE /\ hidHeld' = FALSE
  /\ handle' = IF handle = "none" THEN "none" ELSE "stale"
  /\ UNCHANGED <<noteVars, shmVars, dpc, STOP, r, idle_ticks, idle_frames, stream_stop,
                 stream_err, poolVars, pluginVars>>

Attach ==
  /\ ~attached
  /\ attached' = TRUE
  /\ UNCHANGED <<noteVars, shmVars, daemonVars, hwRate, hwOut, undrained, hidHeld,
                 pluginVars, nfaults>>

\* A control client opens: claim IF_HID and read what a session before may have left.
HidClaim ==
  /\ attached /\ ~hidHeld /\ Fault("hid_client")
  /\ handle = "live" => dpc \notin Claimed
  /\ hidHeld' = TRUE /\ undrained' = FALSE
  /\ UNCHANGED <<noteVars, shmVars, daemonVars, attached, hwRate, hwOut, pluginVars>>

\* Its commands set the rate and output routing, also under a stream.
HidSets ==
  \E x \in Rates, on \in BOOLEAN :
    /\ hidHeld
    /\ hwRate' = x /\ hwOut' = on
    /\ cfgOk' = FALSE
    /\ UNCHANGED <<shmVars, daemonVars, attached, undrained, hidHeld, pluginVars,
                   killed, nfaults>>

\* It closes, or is killed or times out before it has read its last reply.
HidRelease ==
  /\ hidHeld
  /\ hidHeld' = FALSE
  /\ \/ UNCHANGED <<undrained, nfaults>>
     \/ undrained' = TRUE /\ Fault("hid_reply")
  /\ UNCHANGED <<noteVars, shmVars, daemonVars, attached, hwRate, hwOut, pluginVars>>

Environment ==
  \/ Signal \/ DaemonCrash \/ PluginCrash
  \/ Detach \/ Attach \/ HidClaim \/ HidSets \/ HidRelease

Next == Daemon \/ PoolDies \/ Plugin \/ Environment

Spec == Init /\ [][Next]_vars

\* The daemon's thread keeps running and libusb keeps delivering: capture
\* callbacks of a live stream, and the failure of a stale one.  The plugin
\* finishes the call it is in, and its IO thread runs while IO is started.
\* Nothing is assumed of clients, of the user or of control clients.
FairSpec ==
  /\ Spec
  /\ WF_vars(Daemon) /\ WF_vars(OnCap) /\ WF_vars(RunEnds)
  /\ WF_vars(handle # "live" /\ PoolDies)
  /\ WF_vars(RaiseIO) /\ WF_vars(IoCycleMaps)

-----------------------------------------------------------------------------
(* Properties.                                                              *)

Streaming == dpc = "stream" /\ handle = "live" /\ capLive

\* device_present does not outlive the handle it speaks of (main.rs:60-63): while it
\* is 1 the daemon is between Open and Closed, or it was killed there and the next
\* one has not tried to open yet.
PresentMeansOpen == device_present = 1 => handle # "none" \/ killed

SetUp == hwRate = r /\ hwOut

\* What set_device_config returns can be relied on, though it ignores every reply:
\* when it was Ok, and until a control client sets something else, a stream on a live
\* device runs at its rate with output routing on.  When it was not, run() streams all
\* the same (native_audio.rs:275).
OkMeansSetUp == dpc = "stream" /\ handle = "live" /\ cfgOk => SetUp

\* A reply nobody is about to read.
ReplyLeft == undrained /\ dpc \notin {"rate_sent", "outputs_sent"}

\* Only a control client, or unplugging, removes such a reply: the daemon sends before
\* it reads, and gives up when it cannot send (native_audio.rs:225-237).
LeftReplyStays == [][ReplyLeft => undrained' \/ hidHeld' \/ ~attached']_vars

Streamed == dpc = "stream" /\ handle = "live"

\* A stream that a refused or failed configuration let start at the wrong rate or with
\* outputs off is put right by a later run(): if streams are started again and again,
\* and in the end no control client holds IF_HID and no reply is left over, only
\* streams that are set up remain.
SetupHeals ==
  []<>(dpc = "config") /\ <>[](~hidHeld /\ ~ReplyLeft) => <>[](Streamed => SetUp)

\* The same without the premise about replies: each run() locks "the device clock to the
\* requested rate BEFORE the iso endpoints go live" (native_audio.rs:272).
EveryRunSetsUp ==
  []<>(dpc = "config") /\ <>[]~hidHeld => <>[](Streamed => SetUp)

\* With IO running, a device attached and a settled rate, the daemon ends up
\* streaming at that rate, through detach, failures and rate changes before.
StreamFollowsRate ==
  \A x \in Rates :
    <>[](io_running = 1 /\ attached /\ sample_rate = x) => <>[](Streaming /\ r = x)

\* While io_running stays up on an attached device the daemon streams again and
\* again, however often the rate moves.
ActiveClientsStream == <>[](io_running = 1 /\ attached) => []<>Streaming

\* Without IO the stream is suspended for good ("~1 s with no client IO"), and with a
\* device there its clock anchor is cleared and stays so.
IdleSuspends ==
  <>[](io_running = 0) => <>[](dpc # "stream" /\ (attached => clock_host = 0))

\* A detach is published, also when it happens while idle.
DetachNoticed == <>[]~attached => <>[](device_present = 0)

==============================================================================
