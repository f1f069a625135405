-------------------------------- MODULE Segment --------------------------------
(***************************************************************************)
(* The shared segment as an object with a name.  The daemon finds, replaces *)
(* or creates it and stamps its header; the plugin finds, maps and re-maps  *)
(* it; either process may be killed between any two system calls.  Of the   *)
(* contents only io_running and the pair (cap_write, clock_host) matter     *)
(* here: one capture callback advances cap_write by 1, and clock_host is    *)
(* the cap_write it was sampled at.                                         *)
(***************************************************************************)
EXTENDS Integers, Sequences

CONSTANTS
  MaxObj,    \* bound: shm objects that ever exist
  MaxKills,  \* bound: how often either process is killed
  MaxCap     \* bound: capture callbacks

ASSUME SegmentAssumption == MaxObj \in Nat \ {0} /\ MaxKills \in Nat /\ MaxCap \in Nat

VARIABLES
  objs, next,      \* every shm object; the number the next one gets
  name,            \* the object /sl3_audio names, 0 for none
  dpc, dobj,       \* daemon: control point, the object it has open or mapped
  gShm, gIORunning,\* plugin: the object it has mapped, clients doing IO
  ctl, why, found, \* plugin: control point, caller of ensure_shm, what it opened
  zf, stamp,       \* GetZeroTimeStamp: the frame count loaded, the last pair used
  connected,       \* history: the last StartIO raised io_running in the live segment
  kills, dkills    \* history: kills, and those of the daemon
objVars  == <<objs, next, name>>
daemVars == <<dpc, dobj>>
plugVars == <<gShm, gIORunning, ctl, why, found, zf, stamp, connected>>
killVars == <<kills, dkills>>
vars     == <<objVars, daemVars, plugVars, killVars>>

Objects == 1 .. MaxObj

\* A fresh object; header is "none" unless the magic number is in place, and tells
\* the version then.
Blank == [size |-> "zero", header |-> "none", io |-> 0, cap_write |-> 0, clock_host |-> 0]
BlankFull == [Blank EXCEPT !.size = "full"]

\* What an earlier daemon can have left: nothing; an object it was killed over before
\* sizing or stamping it; this version's segment; another version's, of the same or of
\* another size.
Leftovers ==
  {Blank, BlankFull, [BlankFull EXCEPT !.header = "new"], [BlankFull EXCEPT !.header = "old"],
   [Blank EXCEPT !.size = "old", !.header = "old"]}

Init ==
  /\ \/ name = 0 /\ next = 1 /\ objs = [o \in Objects |-> Blank]
     \/ /\ name = 1 /\ next = 2
        /\ \E left \in Leftovers : objs = [o \in Objects |-> IF o = 1 THEN left ELSE Blank]
  /\ dpc = "down" /\ dobj = 0
  /\ gShm = 0 /\ gIORunning = 0 /\ ctl = "look" /\ why = "init" /\ found = 0
  /\ zf = -1 /\ stamp = <<>>
  /\ connected = FALSE /\ kills = 0 /\ dkills = 0

Running == dpc \in {"run", "anchor"}

-----------------------------------------------------------------------------
(* The daemon: shm::map(true), init_header.                                 *)

\* Mutants: the existing segment always or never counts as wrong.
WrongAlways(o) == TRUE
WrongNever(o) == FALSE
Wrong(o) == o.size # "full"

Probe ==
  /\ dpc = "down"
  /\ dpc' = IF name # 0 /\ Wrong(objs[name]) THEN "unlink" ELSE "create"
  /\ UNCHANGED <<objVars, dobj, plugVars, killVars>>

Unlink ==
  /\ dpc = "unlink"
  /\ name' = 0 /\ dpc' = "create"
  /\ UNCHANGED <<objs, next, dobj, plugVars, killVars>>

\* shm_open with O_CREAT.
OpenOrCreate ==
  /\ dpc = "create" /\ (name = 0 => next <= MaxObj)
  /\ name' = IF name = 0 THEN next ELSE name
  /\ next' = IF name = 0 THEN next + 1 ELSE next
  /\ dobj' = name' /\ dpc' = "size"
  /\ UNCHANGED <<objs, plugVars, killVars>>

\* An object can be sized once: on one of another size ftruncate fails, map returns
\* null and the process exits.
Truncate ==
  /\ dpc = "size"
  /\ objs' = [objs EXCEPT ![dobj].size = IF @ = "zero" THEN "full" ELSE @]
  /\ dpc' = IF objs'[dobj].size = "full" THEN "header" ELSE "down"
  /\ UNCHANGED <<next, name, dobj, plugVars, killVars>>

StaleHeader(o) == o.header # "new"

\* init_header: clear the segment ...
InitHeader ==
  /\ dpc = "header"
  /\ IF StaleHeader(objs[dobj])
     THEN objs' = [objs EXCEPT ![dobj] = BlankFull] /\ dpc' = "stamp"
     ELSE dpc' = "run" /\ UNCHANGED objs
  /\ UNCHANGED <<next, name, dobj, plugVars, killVars>>

\* ... then stamp it.
Stamp ==
  /\ dpc = "stamp"
  /\ objs' = [objs EXCEPT ![dobj].header = "new"]
  /\ dpc' = "run"
  /\ UNCHANGED <<next, name, dobj, plugVars, killVars>>

\* on_cap: publish the frames, then the anchor.
OnCap ==
  /\ dpc = "run" /\ objs[dobj].cap_write < MaxCap
  /\ objs' = [objs EXCEPT ![dobj].cap_write = @ + 1]
  /\ dpc' = "anchor"
  /\ UNCHANGED <<next, name, dobj, plugVars, killVars>>

\* Mutants: the anchor is set once; it is taken ahead of the frames.
AnchorOnce(o) == IF o.clock_host = 0 THEN o.cap_write ELSE o.clock_host
AnchorAhead(o) == o.cap_write + 1
Anchor(o) == o.cap_write

OnCapAnchor ==
  /\ dpc = "anchor"
  /\ objs' = [objs EXCEPT ![dobj].clock_host = Anchor(objs[dobj])]
  /\ dpc' = "run"
  /\ UNCHANGED <<next, name, dobj, plugVars, killVars>>

\* Suspended: the anchor is cleared.
Idle ==
  /\ dpc = "run" /\ objs[dobj].io = 0
  /\ objs' = [objs EXCEPT ![dobj].clock_host = 0]
  /\ UNCHANGED <<next, name, daemVars, plugVars, killVars>>

KillDaemon ==
  /\ dpc # "down" /\ kills < MaxKills
  /\ dpc' = "down" /\ dobj' = 0
  /\ kills' = kills + 1 /\ dkills' = dkills + 1
  /\ UNCHANGED <<objVars, plugVars>>

Bring == Probe \/ Unlink \/ OpenOrCreate \/ Truncate \/ InitHeader \/ Stamp
Daemon == Bring \/ OnCap \/ OnCapAnchor \/ Idle

-----------------------------------------------------------------------------
(* The plugin.                                                              *)

Calm == ctl = "idle" /\ zf = -1

StartIO ==
  /\ Calm /\ gIORunning = 0
  /\ gIORunning' = 1
  /\ ctl' = "look" /\ why' = "start"
  /\ UNCHANGED <<objVars, daemVars, gShm, found, zf, stamp, connected, killVars>>

PerformConfigChange ==
  /\ Calm
  /\ ctl' = "look" /\ why' = "config"
  /\ UNCHANGED <<objVars, daemVars, gShm, gIORunning, found, zf, stamp, connected, killVars>>

\* DoIOOperation maps only when nothing is mapped.
IoCycleMaps ==
  /\ Calm /\ gIORunning > 0 /\ gShm = 0
  /\ ctl' = "look" /\ why' = "cycle"
  /\ UNCHANGED <<objVars, daemVars, gShm, gIORunning, found, zf, stamp, connected, killVars>>

\* Where the caller of ensure_shm goes on.
AfterEnsure == IF why = "start" THEN "raise" ELSE "idle"

\* Mutant: a mapped segment is never looked at again.
MustMapOnce == name # 0 /\ gShm = 0
MustMap == name # 0 /\ name # gShm

\* ensure_shm: open the name and compare inodes ...
EnsureOpen ==
  /\ ctl = "look"
  /\ found' = IF MustMap THEN name ELSE 0
  /\ ctl' = IF MustMap THEN "map" ELSE AfterEnsure
  /\ UNCHANGED <<objVars, daemVars, gShm, gIORunning, why, zf, stamp, connected, killVars>>

\* An object without a size cannot be mapped; one without the magic number is refused.
Acceptable(o) == o.size # "zero" /\ o.header # "none"

\* ... then map it in place of the old one.
EnsureMap ==
  /\ ctl = "map"
  /\ gShm' = IF Acceptable(objs[found]) THEN found ELSE gShm
  /\ found' = 0 /\ ctl' = AfterEnsure
  /\ UNCHANGED <<objVars, daemVars, gIORunning, why, zf, stamp, connected, killVars>>

SetIO(v) == IF gShm = 0 THEN objs ELSE [objs EXCEPT ![gShm].io = v]

RaiseIO ==
  /\ ctl = "raise"
  /\ objs' = SetIO(1)
  /\ connected' = (gShm # 0 /\ gShm = name /\ objs[gShm].size = "full"
                            /\ objs[gShm].header = "new")
  /\ ctl' = "idle"
  /\ UNCHANGED <<next, name, daemVars, gShm, gIORunning, why, found, zf, stamp, killVars>>

StopIO ==
  /\ Calm /\ gIORunning = 1
  /\ gIORunning' = 0 /\ objs' = SetIO(0) /\ connected' = FALSE
  /\ UNCHANGED <<next, name, daemVars, gShm, ctl, why, found, zf, stamp, killVars>>

\* GetZeroTimeStamp: the frame count, then the host time.
ZeroLoadFrames ==
  /\ Calm /\ gIORunning > 0 /\ gShm # 0
  /\ zf' = objs[gShm].cap_write
  /\ UNCHANGED <<objVars, daemVars, gShm, gIORunning, ctl, why, found, stamp, connected, killVars>>

\* With a zero in the pair, host-locked timing is reported instead.
ZeroLoadHost ==
  /\ zf # -1
  /\ LET H == objs[gShm].clock_host
     IN  stamp' = IF zf > 0 /\ H > 0 THEN <<zf, H>> ELSE <<>>
  /\ zf' = -1
  /\ UNCHANGED <<objVars, daemVars, gShm, gIORunning, ctl, why, found, connected, killVars>>

KillPlugin ==
  /\ kills < MaxKills
  /\ gShm' = 0 /\ gIORunning' = 0 /\ ctl' = "look" /\ why' = "init" /\ found' = 0
  /\ zf' = -1 /\ stamp' = <<>> /\ connected' = FALSE
  /\ kills' = kills + 1
  /\ UNCHANGED <<objVars, daemVars, dkills>>

Ensure == EnsureOpen \/ EnsureMap \/ RaiseIO
Plugin ==
  StartIO \/ PerformConfigChange \/ IoCycleMaps \/ Ensure \/ StopIO
    \/ ZeroLoadFrames \/ ZeroLoadHost

Next == Daemon \/ Plugin \/ KillDaemon \/ KillPlugin

Spec == Init /\ [][Next]_vars

\* launchd restarts the daemon and neither process stops in the middle of a call.
FairSpec == Spec /\ WF_vars(Bring) /\ WF_vars(OnCapAnchor) /\ WF_vars(Ensure) /\ WF_vars(ZeroLoadHost)

-----------------------------------------------------------------------------
(* Properties.                                                              *)

ShmObject ==
  [size : {"zero", "old", "full"}, header : {"none", "old", "new"}, io : {0, 1},
   cap_write : 0 .. MaxCap, clock_host : 0 .. MaxCap]

TypeOK ==
  /\ objs \in [Objects -> ShmObject]
  /\ name \in 0 .. MaxObj /\ next \in 1 .. MaxObj + 1 /\ gShm \in 0 .. MaxObj
  /\ dpc \in {"down", "unlink", "create", "size", "header", "stamp", "run", "anchor"}
  /\ (dpc \in {"size", "header", "stamp", "run", "anchor"} => dobj \in Objects)
  /\ ctl \in {"idle", "look", "map", "raise"} /\ gIORunning \in {0, 1}
  /\ why \in {"init", "start", "config", "cycle"} /\ found \in 0 .. MaxObj
  /\ zf \in -1 .. MaxCap /\ (zf # -1 => ctl = "idle" /\ gShm \in Objects)
  /\ stamp \in {<<>>} \cup (1 .. MaxCap) \X (1 .. MaxCap)
  /\ connected \in BOOLEAN /\ kills \in 0 .. MaxKills /\ dkills \in 0 .. kills

\* Once StartIO reached the live segment, io_running stays up there until StopIO,
\* through every kill and restart of the daemon: restarts do not "orphan a plugin
\* already mapped to a valid segment" (shm.rs:71-74).
IoReaches ==
  connected /\ gIORunning > 0 => gShm = name /\ objs[gShm].io = 1

\* The host time used is at most one callback older than the frame count it is paired
\* with, and one more for every time the daemon was killed between the two stores.
LagBounded == stamp # <<>> => stamp[1] - stamp[2] <= 1 + dkills

\* Whatever segment was left, and wherever it was killed, the daemon comes up.
DaemonComesUp == dpc = "down" ~> Running

\* A plugin left on a replaced segment is back on the live one once IO is started.
Reconnects == <>[]Running /\ []<>(ctl = "raise") => <>[](gShm = dobj)
==============================================================================
