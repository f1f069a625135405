---------------------------- MODULE Sl3d_proofs ----------------------------
(***************************************************************************)
(* Proofs about Sl3d, for any set of rates, any probe interval and idle     *)
(* limit, any number of clients and of faults.                              *)
(***************************************************************************)
EXTENDS Sl3d, TLAPS

(* The main loop holds a device exactly between Open and Closed, and a handle  *)
(* that is live is a handle on the attached device.                            *)
LoopInv == /\ (handle = "none") <=> (dpc \in {"down", "open"})
           /\ handle = "live" => attached

(* Whoever lets go of the device retracts its presence, unless it is killed first.    *)
PresenceInv == LoopInv /\ PresentMeansOpen

(* What the steps of set_device_config have achieved on a live device.  While it holds  *)
(* the claim nobody else sets the rate; afterwards only a control client or the handle  *)
(* going stale can undo the setup, and r is not loaded again before the next reset.     *)
SetupInv ==
  /\ handle = "live" => attached
  /\ handle = "live" /\ dpc \in Claimed => ~hidHeld
  /\ handle = "live" /\ dpc \in {"rate_sent", "outputs"} => hwRate = r
  /\ handle = "live" /\ cfgOk /\ dpc \in {"outputs_sent", "start", "stream"} => SetUp
  /\ dpc \in {"config", "rate_sent", "outputs"} => ~cfgOk

-----------------------------------------------------------------------------
(* TypeOK in two halves, because no one backend proves both: the flags and the *)
(* words that hold rates, counters and control points.                         *)
Flags ==
  /\ segment \in BOOLEAN /\ STOP \in BOOLEAN
  /\ stream_stop \in BOOLEAN /\ stream_err \in BOOLEAN
  /\ capLive \in BOOLEAN /\ playLive \in BOOLEAN
  /\ attached \in BOOLEAN /\ hwOut \in BOOLEAN /\ undrained \in BOOLEAN
  /\ hidHeld \in BOOLEAN /\ killed \in BOOLEAN /\ cfgOk \in BOOLEAN
  /\ mapped \in BOOLEAN

Values ==
  /\ sample_rate \in Rates \cup {0}
  /\ device_present \in {0, 1} /\ clock_host \in {0, 1} /\ io_running \in {0, 1}
  /\ dpc \in DaemonPoints
  /\ handle \in {"none", "live", "stale"} /\ r \in Rates
  /\ idle_ticks \in 0 .. ProbeEvery - 1 /\ idle_frames \in 0 .. IdleStop
  /\ hwRate \in Rates
  /\ gSampleRate \in Rates /\ gIORunning \in 0 .. MaxClients
  /\ ctl \in {"idle", "raise"} /\ nfaults \in 0 .. MaxFaults

LEMMA TypeSplit == TypeOK <=> Flags /\ Values
BY Zenon DEF TypeOK, Flags, Values

(* Every variable keeps its type: the tick and idle counters stay within their *)
(* limits and the rate in the segment is one the device has.                   *)
THEOREM Typing == Spec => []TypeOK
<1> USE Sl3dAssumption DEF TypeOK, FaultKinds, DaemonPoints
<1>1. Init => TypeOK
  <2> SUFFICES ASSUME Init PROVE TypeOK OBVIOUS
  <2>1. Flags BY Zenon DEF Init, Flags
  <2>2. Values BY DEF Init, Values
  <2> QED BY <2>1, <2>2, TypeSplit
<1>2. TypeOK /\ [Next]_vars => TypeOK'
  <2> SUFFICES ASSUME TypeOK, [Next]_vars PROVE TypeOK' OBVIOUS
  <2> USE DEF shmVars, loopVars, poolVars, daemonVars, usbVars, pluginVars, noteVars
  <2>1. CASE Start
    <3>1. Flags' BY <2>1, ZenonT(40) DEF Start, Flags
    <3>2. Values' BY <2>1 DEF Start, Values
    <3> QED BY <3>1, <3>2, Zenon DEF Flags, Values
  <2>2. CASE Exit BY <2>2 DEF Exit
  <2>3. CASE OpenFails
    <3>1. Flags' BY <2>3, ZenonT(40) DEF OpenFails, Flags
    <3>2. Values' BY <2>3 DEF OpenFails, Values
    <3> QED BY <3>1, <3>2, Zenon DEF Flags, Values
  <2>4. CASE Open
    <3>1. Flags' BY <2>4, ZenonT(40) DEF Open, Flags
    <3>2. Values' BY <2>4 DEF Open, Values
    <3> QED BY <3>1, <3>2, Zenon DEF Flags, Values
  <2>5. CASE HeadStop BY <2>5 DEF HeadStop
  <2>6. CASE IdlePoll BY <2>6 DEF IdlePoll, NextTick, IdleProbeDue, PublishIdle, StillThere
  <2>7. CASE IdleGone BY <2>7 DEF IdleGone, StillThere
  <2>8. CASE Wake BY <2>8 DEF Wake
  <2>9. CASE LoadRate BY <2>9 DEF LoadRate
  <2>10. CASE ResetStream
    <3>1. Flags' BY <2>10, ZenonT(40) DEF ResetStream, Flags
    <3>2. Values' BY <2>10 DEF ResetStream, Values
    <3> QED BY <3>1, <3>2, Zenon DEF Flags, Values
  <2>11. CASE RunStart
    <3>1. Flags' BY <2>11, ZenonT(40) DEF RunStart, Flags
    <3>2. Values' BY <2>11 DEF RunStart, Values
    <3> QED BY <3>1, <3>2, Zenon DEF Flags, Values
  <2>12. CASE RunFails
    <3>1. Flags' BY <2>12, ZenonT(40) DEF RunFails, Flags
    <3>2. Values' BY <2>12 DEF RunFails, Excused, Fault, Values
    <3> QED BY <3>1, <3>2, Zenon DEF Flags, Values
  <2>13. CASE OnCap BY <2>13 DEF OnCap, StopAsked, RateMoved
  <2>14. CASE RunEnds
    <3>1. Flags' BY <2>14, ZenonT(40) DEF RunEnds, Flags
    <3>2. Values' BY <2>14 DEF RunEnds, Values
    <3> QED BY <3>1, <3>2, Zenon DEF Flags, Values
  <2>15. CASE AfterRun BY <2>15 DEF AfterRun
  <2>16. CASE AfterRunGone BY <2>16 DEF AfterRunGone
  <2>17. CASE Closed BY <2>17 DEF Closed
  <2>18. CASE PoolDies
    <3>1. Flags'
      <4>1. /\ capLive' = FALSE \/ capLive' = capLive
            /\ playLive' = FALSE \/ playLive' = playLive
            /\ UNCHANGED <<segment, STOP, stream_stop, stream_err, attached, hwOut>>
            /\ UNCHANGED <<undrained, hidHeld, killed, cfgOk, mapped>>
        BY <2>18 DEF PoolDies
      <4> QED BY <4>1, TypeSplit, ZenonT(40) DEF Flags
    <3>2. Values' BY <2>18 DEF PoolDies, Excused, Fault, Values
    <3> QED BY <3>1, <3>2, Zenon DEF Flags, Values
  <2>19. CASE StartIO BY <2>19 DEF StartIO, Live
  <2>20. CASE RaiseIO BY <2>20 DEF RaiseIO
  <2>21. CASE StartIOMore BY <2>21 DEF StartIOMore
  <2>22. CASE StopIO BY <2>22 DEF StopIO
  <2>23. CASE IoCycleMaps BY <2>23 DEF IoCycleMaps
  <2>24. CASE ChangeRate BY <2>24 DEF ChangeRate, Live
  <2>25. CASE Signal BY <2>25 DEF Signal, Fault
  <2>26. CASE DaemonCrash
    <3>1. Flags' BY <2>26, ZenonT(40) DEF DaemonCrash, Fault, Flags
    <3>2. Values' BY <2>26 DEF DaemonCrash, Fault, Values
    <3> QED BY <3>1, <3>2, Zenon DEF Flags, Values
  <2>27. CASE PluginCrash BY <2>27 DEF PluginCrash, Fault
  <2>28. CASE Detach
    <3>1. Flags' BY <2>28, ZenonT(40) DEF Detach, Fault, Flags
    <3>2. Values' BY <2>28 DEF Detach, Fault, Values
    <3> QED BY <3>1, <3>2, Zenon DEF Flags, Values
  <2>29. CASE Attach BY <2>29 DEF Attach
  <2>30. CASE HidClaim
    <3>1. Flags' BY <2>30, ZenonT(40) DEF HidClaim, Flags
    <3>2. Values' BY <2>30 DEF HidClaim, Fault, Values
    <3> QED BY <3>1, <3>2, Zenon DEF Flags, Values
  <2>31. CASE HidRelease
    <3>1. Flags'
      <4>1. /\ hidHeld' = FALSE
            /\ undrained' = TRUE \/ undrained' = undrained
            /\ UNCHANGED <<segment, STOP, stream_stop, stream_err, attached, hwOut>>
            /\ UNCHANGED <<capLive, playLive, killed, cfgOk, mapped>>
        BY <2>31 DEF HidRelease
      <4> QED BY <4>1, TypeSplit, ZenonT(40) DEF Flags
    <3>2. Values' BY <2>31 DEF HidRelease, Fault, Values
    <3> QED BY <3>1, <3>2, Zenon DEF Flags, Values
  <2>32. CASE SendRate
    <3>1. Flags' BY <2>32, ZenonT(40) DEF SendRate, Flags
    <3>2. Values' BY <2>32 DEF SendRate, Values
    <3> QED BY <3>1, <3>2, Zenon DEF Flags, Values
  <2>33. CASE SendOutputs
    <3>1. Flags' BY <2>33, ZenonT(40) DEF SendOutputs, Flags
    <3>2. Values' BY <2>33 DEF SendOutputs, Values
    <3> QED BY <3>1, <3>2, Zenon DEF Flags, Values
  <2>34. CASE Drain
    <3>1. Flags'
      <4>1. /\ undrained' = FALSE \/ undrained' = undrained
            /\ UNCHANGED <<segment, STOP, stream_stop, stream_err, capLive, playLive>>
            /\ UNCHANGED <<attached, hwOut, hidHeld, killed, cfgOk, mapped>>
        BY <2>34 DEF Drain
      <4> QED BY <4>1, TypeSplit, ZenonT(40) DEF Flags
    <3>2. Values' BY <2>34 DEF Drain, Excused, Fault, Values
    <3> QED BY <3>1, <3>2, Zenon DEF Flags, Values
  <2>35. CASE ConfigFails
    <3>1. Flags'
      <4>1. /\ UNCHANGED <<segment, STOP, stream_stop, stream_err, capLive, playLive>>
            /\ UNCHANGED <<attached, hwOut, undrained, hidHeld, killed, cfgOk, mapped>>
        BY <2>35 DEF ConfigFails
      <4> QED BY <4>1, TypeSplit, ZenonT(40) DEF Flags
    <3>2. Values' BY <2>35 DEF ConfigFails, Fault, Values
    <3> QED BY <3>1, <3>2, Zenon DEF Flags, Values
  <2>36. CASE HidSets
    <3>1. Flags'
      <4>1. /\ hwOut' \in BOOLEAN /\ cfgOk' = FALSE
            /\ UNCHANGED <<segment, STOP, stream_stop, stream_err, capLive, playLive, attached,
                           undrained, hidHeld, killed, mapped>>
        BY <2>36 DEF HidSets
      <4> QED BY <4>1, TypeSplit, ZenonT(40) DEF Flags
    <3>2. Values' BY <2>36 DEF HidSets, Values
    <3> QED BY <3>1, <3>2, Zenon DEF Flags, Values
  <2>37. CASE UNCHANGED vars BY <2>37 DEF vars
  <2> QED BY <2>1, <2>2, <2>3, <2>4, <2>5, <2>6, <2>7, <2>8, <2>9, <2>10,
           <2>11, <2>12, <2>13, <2>14, <2>15, <2>16, <2>17, <2>18, <2>19,
           <2>20, <2>21, <2>22, <2>23, <2>24, <2>25, <2>26, <2>27, <2>28,
           <2>29, <2>30, <2>31, <2>32, <2>33, <2>34, <2>35, <2>36, <2>37
           DEF Next, Daemon, Plugin, Environment
<1> QED BY <1>1, <1>2, PTL DEF Spec

-----------------------------------------------------------------------------
LEMMA PresenceInit == Init => PresenceInv
BY DEF Init, PresenceInv, LoopInv, PresentMeansOpen

LEMMA PresenceStep == PresenceInv /\ [Next]_vars => PresenceInv'
<1> SUFFICES ASSUME PresenceInv, [Next]_vars PROVE PresenceInv' OBVIOUS
<1> USE DEF PresenceInv, LoopInv, PresentMeansOpen, shmVars, loopVars, poolVars,
            daemonVars, usbVars, pluginVars, noteVars
<1>1. CASE Start BY <1>1 DEF Start
<1>2. CASE Exit BY <1>2 DEF Exit
<1>3. CASE OpenFails BY <1>3 DEF OpenFails
<1>4. CASE Open BY <1>4 DEF Open
<1>5. CASE HeadStop BY <1>5 DEF HeadStop
<1>6. CASE IdlePoll BY <1>6 DEF IdlePoll, NextTick, IdleProbeDue, PublishIdle, StillThere
<1>7. CASE IdleGone BY <1>7 DEF IdleGone, StillThere
<1>8. CASE Wake BY <1>8 DEF Wake
<1>9. CASE LoadRate BY <1>9 DEF LoadRate
<1>10. CASE ResetStream BY <1>10 DEF ResetStream
<1>11. CASE RunStart BY <1>11 DEF RunStart
<1>12. CASE RunFails BY <1>12 DEF RunFails, Excused, Fault
<1>13. CASE OnCap BY <1>13 DEF OnCap, StopAsked, RateMoved
<1>14. CASE RunEnds BY <1>14 DEF RunEnds
<1>15. CASE AfterRun BY <1>15 DEF AfterRun
<1>16. CASE AfterRunGone BY <1>16 DEF AfterRunGone
<1>17. CASE Closed BY <1>17 DEF Closed
<1>18. CASE PoolDies BY <1>18 DEF PoolDies, Excused, Fault
<1>19. CASE StartIO BY <1>19 DEF StartIO, Live
<1>20. CASE RaiseIO BY <1>20 DEF RaiseIO
<1>21. CASE StartIOMore BY <1>21 DEF StartIOMore
<1>22. CASE StopIO BY <1>22 DEF StopIO
<1>23. CASE IoCycleMaps BY <1>23 DEF IoCycleMaps
<1>24. CASE ChangeRate BY <1>24 DEF ChangeRate, Live
<1>25. CASE Signal BY <1>25 DEF Signal, Fault
<1>26. CASE DaemonCrash BY <1>26 DEF DaemonCrash, Fault
<1>27. CASE PluginCrash BY <1>27 DEF PluginCrash, Fault
<1>28. CASE Detach BY <1>28 DEF Detach, Fault
<1>29. CASE Attach BY <1>29 DEF Attach
<1>30. CASE HidClaim BY <1>30 DEF HidClaim, Fault
<1>31. CASE HidRelease BY <1>31 DEF HidRelease, Fault
<1>32. CASE SendRate BY <1>32 DEF SendRate, TakesReport
<1>33. CASE SendOutputs BY <1>33 DEF SendOutputs, TakesReport
<1>34. CASE Drain BY <1>34 DEF Drain, Excused, Fault
<1>35. CASE ConfigFails BY <1>35 DEF ConfigFails, Fault
<1>36. CASE HidSets BY <1>36 DEF HidSets
<1>37. CASE UNCHANGED vars BY <1>37 DEF vars
<1> QED BY <1>1, <1>2, <1>3, <1>4, <1>5, <1>6, <1>7, <1>8, <1>9, <1>10,
         <1>11, <1>12, <1>13, <1>14, <1>15, <1>16, <1>17, <1>18, <1>19,
         <1>20, <1>21, <1>22, <1>23, <1>24, <1>25, <1>26, <1>27, <1>28,
         <1>29, <1>30, <1>31, <1>32, <1>33, <1>34, <1>35, <1>36, <1>37
         DEF Next, Daemon, Plugin, Environment

(* device_present is 1 only while the daemon holds a device or lies killed: every  *)
(* way out of the inner loop retracts it (main.rs:60-63, 199).                     *)
THEOREM PresenceRetracted == Spec => []PresentMeansOpen
<1>1. PresenceInv => PresentMeansOpen BY DEF PresenceInv
<1> QED BY <1>1, PresenceInit, PresenceStep, PTL DEF Spec

-----------------------------------------------------------------------------
LEMMA SetupInit == Init => SetupInv
BY DEF Init, SetupInv, Claimed, SetUp

LEMMA SetupStep == SetupInv /\ [Next]_vars => SetupInv'
<1> SUFFICES ASSUME SetupInv, [Next]_vars PROVE SetupInv' OBVIOUS
<1> USE DEF SetupInv, shmVars, loopVars, poolVars, daemonVars,
            usbVars, pluginVars, noteVars, Claimed, SetUp
<1>1. CASE Start BY <1>1 DEF Start
<1>2. CASE Exit BY <1>2 DEF Exit
<1>3. CASE OpenFails BY <1>3 DEF OpenFails
<1>4. CASE Open BY <1>4 DEF Open
<1>5. CASE HeadStop BY <1>5 DEF HeadStop
<1>6. CASE IdlePoll BY <1>6 DEF IdlePoll, NextTick, IdleProbeDue, PublishIdle, StillThere
<1>7. CASE IdleGone BY <1>7 DEF IdleGone, StillThere
<1>8. CASE Wake BY <1>8 DEF Wake
<1>9. CASE LoadRate BY <1>9 DEF LoadRate
<1>10. CASE ResetStream BY <1>10 DEF ResetStream
<1>11. CASE RunStart BY <1>11 DEF RunStart
<1>12. CASE RunFails BY <1>12 DEF RunFails, Excused, Fault
<1>13. CASE OnCap BY <1>13 DEF OnCap, StopAsked, RateMoved
<1>14. CASE RunEnds BY <1>14 DEF RunEnds
<1>15. CASE AfterRun BY <1>15 DEF AfterRun
<1>16. CASE AfterRunGone BY <1>16 DEF AfterRunGone
<1>17. CASE Closed BY <1>17 DEF Closed
<1>18. CASE PoolDies BY <1>18 DEF PoolDies, Excused, Fault
<1>19. CASE StartIO BY <1>19 DEF StartIO, Live
<1>20. CASE RaiseIO BY <1>20 DEF RaiseIO
<1>21. CASE StartIOMore BY <1>21 DEF StartIOMore
<1>22. CASE StopIO BY <1>22 DEF StopIO
<1>23. CASE IoCycleMaps BY <1>23 DEF IoCycleMaps
<1>24. CASE ChangeRate BY <1>24 DEF ChangeRate, Live
<1>25. CASE Signal BY <1>25 DEF Signal, Fault
<1>26. CASE DaemonCrash BY <1>26 DEF DaemonCrash, Fault
<1>27. CASE PluginCrash BY <1>27 DEF PluginCrash, Fault
<1>28. CASE Detach BY <1>28 DEF Detach, Fault
<1>29. CASE Attach BY <1>29 DEF Attach
<1>30. CASE HidClaim BY <1>30 DEF HidClaim, Fault
<1>31. CASE HidRelease BY <1>31 DEF HidRelease, Fault
<1>32. CASE SendRate BY <1>32 DEF SendRate, TakesReport
<1>33. CASE SendOutputs BY <1>33 DEF SendOutputs, TakesReport
<1>34. CASE Drain BY <1>34 DEF Drain, Excused, Fault
<1>35. CASE ConfigFails BY <1>35 DEF ConfigFails, Fault
<1>36. CASE HidSets BY <1>36 DEF HidSets
<1>37. CASE UNCHANGED vars BY <1>37 DEF vars
<1> QED BY <1>1, <1>2, <1>3, <1>4, <1>5, <1>6, <1>7, <1>8, <1>9, <1>10,
         <1>11, <1>12, <1>13, <1>14, <1>15, <1>16, <1>17, <1>18, <1>19,
         <1>20, <1>21, <1>22, <1>23, <1>24, <1>25, <1>26, <1>27, <1>28,
         <1>29, <1>30, <1>31, <1>32, <1>33, <1>34, <1>35, <1>36, <1>37
         DEF Next, Daemon, Plugin, Environment

(* Whatever is unplugged, killed, refused, claimed or left unread: a set_device_config  *)
(* that returned Ok has set the device up, and it stays so for the stream, on a live     *)
(* device, until a control client sets something else (native_audio.rs:222-240).          *)
THEOREM OkMeansSetUpHolds == Spec => []OkMeansSetUp
<1>1. SetupInv => OkMeansSetUp BY DEF SetupInv, OkMeansSetUp
<1> QED BY <1>1, SetupInit, SetupStep, PTL DEF Spec

-----------------------------------------------------------------------------
LEMMA LeftReplyStep ==
  [Next]_vars => [ReplyLeft => undrained' \/ hidHeld' \/ ~attached']_vars
<1> SUFFICES ASSUME Next, ReplyLeft, ~undrained', attached' PROVE hidHeld'
  OBVIOUS
<1> USE DEF ReplyLeft, shmVars, loopVars, poolVars, daemonVars, usbVars, pluginVars
<1>1. CASE Daemon
  <2> SUFFICES UNCHANGED undrained OBVIOUS
  <2>1. CASE Start \/ Exit \/ OpenFails \/ Open \/ HeadStop \/ IdlePoll \/ IdleGone \/ Wake
    BY <2>1 DEF Start, Exit, OpenFails, Open, HeadStop, IdlePoll, IdleGone, Wake
  <2>2. CASE LoadRate \/ ResetStream \/ ConfigFails \/ RunStart \/ RunFails
    BY <2>2 DEF LoadRate, ResetStream, ConfigFails, RunStart, RunFails
  <2>3. CASE SendRate \/ SendOutputs BY <2>3 DEF SendRate, SendOutputs, TakesReport
  <2>4. CASE Drain BY <2>4 DEF Drain
  <2>5. CASE OnCap \/ RunEnds \/ AfterRun \/ AfterRunGone \/ Closed
    BY <2>5 DEF OnCap, RunEnds, AfterRun, AfterRunGone, Closed
  <2> QED BY <1>1, <2>1, <2>2, <2>3, <2>4, <2>5 DEF Daemon
<1>2. CASE PoolDies BY <1>2 DEF PoolDies
<1>3. CASE Plugin
  BY <1>3 DEF Plugin, StartIO, RaiseIO, StartIOMore, StopIO, IoCycleMaps, ChangeRate
<1>4. CASE Signal \/ DaemonCrash \/ PluginCrash \/ Attach
  BY <1>4 DEF Signal, DaemonCrash, PluginCrash, Attach
<1>5. CASE Detach BY <1>5 DEF Detach
<1>6. CASE HidClaim \/ HidSets \/ HidRelease BY <1>6 DEF HidClaim, HidSets, HidRelease
<1> QED BY <1>1, <1>2, <1>3, <1>4, <1>5, <1>6 DEF Next, Environment

(* The daemon never reads a reply that was left over, by it or by a control client:    *)
(* what removes it is a control client or unplugging.  Until then no run() can send    *)
(* a report (native_audio.rs:228-231).                                                 *)
THEOREM LeftReplyStaysHolds == Spec => LeftReplyStays
BY LeftReplyStep, PTL DEF Spec, LeftReplyStays
=============================================================================
