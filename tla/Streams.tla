------------------------------ MODULE Streams ------------------------------
(***************************************************************************)
(* The browser's streams: tasks that capture, play, or do both (duplex, or *)
(* playback with implicit feedback) over a pool of isochronous transfers   *)
(* per direction.  All tasks of one Sl3Device run on one thread, between   *)
(* awaits, and share its stop flag and its two streaming interfaces.       *)
(*                                                                         *)
(* A transfer counts as in flight from its push to its completion: the     *)
(* futures submit when they are first polled, which is not a step here.    *)
(***************************************************************************)
EXTENDS Integers, FiniteSets

CONSTANTS
  Tasks,      \* start calls, one task each
  Num,        \* NUM_TRANSFERS
  MaxErr,     \* MAX_ERR_STREAK
  FbMax,      \* FB_MAX
  Settled     \* the page starts a stream only after those it told to stop have ended

ASSUME StreamAssumption ==
  /\ IsFiniteSet(Tasks) /\ Num \in Nat \ {0} /\ MaxErr \in Nat /\ FbMax \in Nat
  /\ Settled \in BOOLEAN

Kinds == {"capture", "playback", "fd", "duplex"}
UsesIn(k)  == k # "playback"
UsesOut(k) == k # "capture"

VARIABLES
  pc,         \* each task's control point
  kind,       \* which of the four it is
  nin, nout,  \* its transfers in flight
  stop,       \* its local stop: nothing is resubmitted any more
  streak,     \* err_streak
  fb,         \* feedback entries queued
  ok,         \* its result so far
  stopFlag,   \* Sl3Device.stop
  alt,        \* interfaces at alternate setting 1: "in", "out"
  attached,   \* the device answers
  refused,    \* history: a set_alt has failed
  told        \* history: tasks told to stop

taskVars == <<pc, kind, nin, nout, stop, streak, fb, ok>>
pageVars == <<stopFlag, told>>
devVars  == <<alt, attached, refused>>
vars     == <<taskVars, pageVars, devVars>>

TypeOK ==
  /\ pc \in [Tasks -> {"none", "openIn", "openOut", "begin", "run",
                       "closeOut", "closeIn", "done"}]
  /\ kind \in [Tasks -> Kinds]
  /\ nin \in [Tasks -> 0 .. Num] /\ nout \in [Tasks -> 0 .. Num]
  /\ stop \in [Tasks -> BOOLEAN] /\ ok \in [Tasks -> BOOLEAN]
  /\ streak \in [Tasks -> 0 .. MaxErr] /\ fb \in [Tasks -> 0 .. FbMax]
  /\ stopFlag \in BOOLEAN /\ attached \in BOOLEAN /\ refused \in BOOLEAN
  /\ alt \subseteq {"in", "out"} /\ told \subseteq Tasks

Init ==
  /\ pc = [t \in Tasks |-> "none"] /\ kind = [t \in Tasks |-> "capture"]
  /\ nin = [t \in Tasks |-> 0] /\ nout = [t \in Tasks |-> 0]
  /\ stop = [t \in Tasks |-> FALSE] /\ streak = [t \in Tasks |-> 0]
  /\ fb = [t \in Tasks |-> 0] /\ ok = [t \in Tasks |-> TRUE]
  /\ stopFlag = FALSE /\ told = {} /\ alt = {} /\ attached = TRUE /\ refused = FALSE

Live(t) == pc[t] \notin {"none", "done"}
Ifaces(k) == (IF UsesIn(k) THEN {"in"} ELSE {}) \cup (IF UsesOut(k) THEN {"out"} ELSE {})

-----------------------------------------------------------------------------
(* The page.                                                                *)

\* The page runs no two streams on one interface; every start lowers the stop flag.
Start(t, k) ==
  /\ pc[t] = "none"
  /\ \A u \in Tasks : Live(u) => Ifaces(kind[u]) \cap Ifaces(k) = {}
  /\ Settled => \A u \in told : pc[u] = "done"
  /\ stopFlag' = FALSE
  /\ pc' = [pc EXCEPT ![t] = IF UsesIn(k) THEN "openIn" ELSE "openOut"]
  /\ kind' = [kind EXCEPT ![t] = k]
  /\ UNCHANGED <<nin, nout, stop, streak, fb, ok, told, devVars>>

\* The F32 variants differ in the sample format only.
StartCapture(t)     == Start(t, "capture")
StartCaptureF32(t)  == Start(t, "capture")
StartPlayback(t)    == Start(t, "playback")
StartPlaybackFd(t)  == Start(t, "fd")
StartPlaybackF32(t) == Start(t, "fd")
StartDuplex(t)      == Start(t, "duplex")
StartDuplexF32(t)   == Start(t, "duplex")

Stop ==
  /\ ~stopFlag
  /\ stopFlag' = TRUE
  /\ told' = told \cup {t \in Tasks : Live(t)}
  /\ UNCHANGED <<taskVars, devVars>>

Detach ==
  /\ attached' = FALSE /\ attached
  /\ UNCHANGED <<taskVars, pageVars, alt, refused>>

-----------------------------------------------------------------------------
(* A task: opening.                                                         *)

\* IN is opened before OUT and closed after it.
Iface(t) == IF pc[t] \in {"openIn", "closeIn"} THEN "in" ELSE "out"

OpenAlt(t) ==
  /\ pc[t] \in {"openIn", "openOut"} /\ attached
  /\ alt' = alt \cup {Iface(t)}
  /\ pc' = [pc EXCEPT ![t] = IF @ = "openIn" /\ UsesOut(kind[t]) THEN "openOut" ELSE "begin"]
  /\ UNCHANGED <<kind, nin, nout, stop, streak, fb, ok, pageVars, attached, refused>>

\* A refused set_alt(1) ends the task where it is.
OpenRefused(t) ==
  /\ pc[t] \in {"openIn", "openOut"}
  /\ refused' = TRUE
  /\ pc' = [pc EXCEPT ![t] = "done"] /\ ok' = [ok EXCEPT ![t] = FALSE]
  /\ UNCHANGED <<kind, nin, nout, stop, streak, fb, pageVars, alt, attached>>

\* All IN transfers, then OUT transfers until fill says stop.
Begin(t) ==
  /\ pc[t] = "begin"
  /\ pc' = [pc EXCEPT ![t] = "run"]
  /\ nin' = [nin EXCEPT ![t] = IF UsesIn(kind[t]) THEN Num ELSE 0]
  /\ \E n \in IF ~UsesOut(kind[t]) \/ stopFlag THEN {0} ELSE 0 .. Num :
       /\ nout' = [nout EXCEPT ![t] = n]
       /\ stop' = [stop EXCEPT ![t] = UsesOut(kind[t]) /\ n < Num]
  /\ UNCHANGED <<kind, streak, fb, ok, pageVars, devVars>>

-----------------------------------------------------------------------------
(* A task: completions.                                                     *)

Completes(t) ==
  /\ pc[t] = "run"
  /\ UNCHANGED <<kind, pageVars, devVars>>

\* Mutant: a stop request is noticed by capture callbacks only.
FillAsksNever(t, ask) == ask
\* The callbacks return the shared flag or their own wish; fd's on_cap wants nothing.
CapAsks(t, ask)  == kind[t] # "fd" /\ (stopFlag \/ ask)
FillAsks(t, ask) == stopFlag \/ ask

\* Mutant: feedback is queued without a limit.
PushFbUnbounded(t) == fb' = [fb EXCEPT ![t] = @ + 1]
PushFb(t) == fb' = [fb EXCEPT ![t] = IF @ < FbMax /\ UsesOut(kind[t]) THEN @ + 1 ELSE @]

\* Captured frames are delivered, counted as feedback, and the transfer goes round
\* again unless the task is stopping.
InData(t) ==
  \E ask \in BOOLEAN :
    /\ Completes(t) /\ nin[t] > 0 /\ attached
    /\ streak' = [streak EXCEPT ![t] = 0]
    /\ stop' = [stop EXCEPT ![t] = @ \/ CapAsks(t, ask)]
    /\ PushFb(t)
    /\ nin' = [nin EXCEPT ![t] = IF stop'[t] THEN @ - 1 ELSE @]
    /\ UNCHANGED <<pc, nout, ok>>

\* Without a good frame on_frames is not called, so the flag is not looked at.
InEmpty(t) ==
  /\ Completes(t) /\ nin[t] > 0 /\ attached
  /\ streak' = [streak EXCEPT ![t] = 0]
  /\ nin' = [nin EXCEPT ![t] = IF stop[t] THEN @ - 1 ELSE @]
  /\ UNCHANGED <<pc, nout, stop, fb, ok>>

\* build_out, build_out_fb: take one feedback entry, fill until it says stop.
Rebuild(t) ==
  IF stop[t]
  THEN nout' = [nout EXCEPT ![t] = @ - 1] /\ UNCHANGED <<stop, fb>>
  ELSE \E ask \in BOOLEAN :
         /\ stop' = [stop EXCEPT ![t] = FillAsks(t, ask)]
         /\ nout' = [nout EXCEPT ![t] = IF stop'[t] THEN @ - 1 ELSE @]
         /\ fb' = [fb EXCEPT ![t] = IF @ > 0 THEN @ - 1 ELSE 0]

OutOk(t) ==
  /\ Completes(t) /\ nout[t] > 0 /\ attached
  /\ streak' = [streak EXCEPT ![t] = 0]
  /\ Rebuild(t)
  /\ UNCHANGED <<pc, nin, ok>>

\* Mutant: an error ends the streak too.
AfterErrorReset(t) == 0
AfterError(t) == streak[t] + 1
\* Nominal playback ends on its first error, the others after a streak.
GivesUp(t) == kind[t] = "playback" \/ AfterError(t) > MaxErr

FirstToClose(t) == IF UsesOut(kind[t]) THEN "closeOut" ELSE "closeIn"

\* break: the loop is left with transfers in flight.
Break(t) ==
  /\ GivesUp(t)
  /\ pc' = [pc EXCEPT ![t] = FirstToClose(t)] /\ ok' = [ok EXCEPT ![t] = FALSE]
  /\ UNCHANGED <<stop, fb>>

\* Mutant: a transfer that failed is never resubmitted.
RetryDropped(t) == nin' = [nin EXCEPT ![t] = @ - 1] /\ UNCHANGED <<pc, ok, stop, fb>>
Retry(t) ==
  /\ nin' = [nin EXCEPT ![t] = IF stop[t] THEN @ - 1 ELSE @]
  /\ UNCHANGED <<pc, ok, stop, fb>>

InErr(t) ==
  /\ Completes(t) /\ nin[t] > 0
  /\ streak' = [streak EXCEPT ![t] = IF GivesUp(t) THEN @ ELSE AfterError(t)]
  /\ \/ Break(t) /\ nin' = [nin EXCEPT ![t] = @ - 1]
     \/ ~GivesUp(t) /\ Retry(t)
  /\ UNCHANGED nout

OutErr(t) ==
  /\ Completes(t) /\ nout[t] > 0
  /\ streak' = [streak EXCEPT ![t] = IF GivesUp(t) THEN @ ELSE AfterError(t)]
  /\ \/ Break(t) /\ nout' = [nout EXCEPT ![t] = @ - 1]
     \/ ~GivesUp(t) /\ Rebuild(t) /\ UNCHANGED <<pc, ok>>
  /\ UNCHANGED nin

-----------------------------------------------------------------------------
(* A task: the end.                                                         *)

\* Mutant: a stop leaves the loop at once.
DrainedOnStop(t) == stop[t] \/ nin[t] + nout[t] = 0
Drained(t) == nin[t] + nout[t] = 0

LoopEnds(t) ==
  /\ pc[t] = "run" /\ Drained(t)
  /\ pc' = [pc EXCEPT ![t] = FirstToClose(t)]
  /\ UNCHANGED <<kind, nin, nout, stop, streak, fb, ok, pageVars, devVars>>

\* Mutant: duplex leaves its IN interface open.
AfterCloseOutOnly(t) == "done"
AfterClose(t) == IF pc[t] = "closeOut" /\ UsesIn(kind[t]) THEN "closeIn" ELSE "done"

\* The result of set_alt(0) is ignored.  The return drops what is still in flight.
CloseAlt(t) ==
  /\ pc[t] \in {"closeOut", "closeIn"}
  /\ \/ attached /\ alt' = alt \ {Iface(t)} /\ UNCHANGED refused
     \/ refused' = TRUE /\ UNCHANGED alt
  /\ pc' = [pc EXCEPT ![t] = AfterClose(t)]
  /\ nin'  = [nin  EXCEPT ![t] = IF AfterClose(t) = "done" THEN 0 ELSE @]
  /\ nout' = [nout EXCEPT ![t] = IF AfterClose(t) = "done" THEN 0 ELSE @]
  /\ UNCHANGED <<kind, stop, streak, fb, ok, pageVars, attached>>

TaskStep(t) ==
  \/ OpenAlt(t) \/ OpenRefused(t) \/ Begin(t)
  \/ InData(t) \/ InEmpty(t) \/ InErr(t) \/ OutOk(t) \/ OutErr(t)
  \/ LoopEnds(t) \/ CloseAlt(t)

Next ==
  \/ \E t \in Tasks :
       \/ StartCapture(t) \/ StartCaptureF32(t) \/ StartPlayback(t)
       \/ StartPlaybackFd(t) \/ StartPlaybackF32(t) \/ StartDuplex(t) \/ StartDuplexF32(t)
       \/ TaskStep(t)
  \/ Stop \/ Detach

Spec == Init /\ [][Next]_vars

\* A transfer always completes, and while the device is there some transfer of each
\* direction completes well again and again; the executor runs every task.
FairSpec ==
  /\ Spec
  /\ \A t \in Tasks :
       /\ WF_vars(InData(t)) /\ WF_vars(OutOk(t))
       /\ WF_vars(~attached /\ (InErr(t) \/ OutErr(t) \/ OpenRefused(t)))
       /\ WF_vars(OpenAlt(t) \/ Begin(t) \/ LoopEnds(t) \/ CloseAlt(t))

-----------------------------------------------------------------------------
(* Properties.                                                              *)

\* The pipeline neither shrinks nor grows while a task streams: whatever errors and
\* empty transfers there were, all its transfers are in flight ("keep a deep queue so
\* the OUT endpoint never starves between resubmissions", stream.rs:20-21).
PipelineFull ==
  \A t \in Tasks :
    pc[t] = "run" /\ ~stop[t] =>
      /\ nin[t] = IF UsesIn(kind[t]) THEN Num ELSE 0
      /\ nout[t] = IF UsesOut(kind[t]) THEN Num ELSE 0

\* A task that ends without an error has drained both its pools ("the loop drains the
\* remaining in-flight transfers", stream.rs:104-105): it closes no interface under one.
CleanEndDrains ==
  \A t \in Tasks : pc[t] \in {"closeOut", "closeIn", "done"} /\ ok[t] => nin[t] + nout[t] = 0

\* Streams on different interfaces never disturb each other: a running one finds its
\* interfaces open, and when all have ended nothing is left open unless a set_alt was
\* refused or the device is gone.
AltMatchesUse ==
  /\ \A t \in Tasks : pc[t] = "run" => Ifaces(kind[t]) \subseteq alt
  /\ (\A t \in Tasks : ~Live(t)) /\ ~refused /\ attached => alt = {}

\* stop() ends every stream it told to stop (wasm.rs:398).
StopEndsStreams == \A t \in Tasks : t \in told ~> pc[t] = "done"

\* On a dead device every stream gives up.
DeadDeviceEnds == \A t \in Tasks : ~attached /\ Live(t) ~> pc[t] = "done"
=============================================================================
