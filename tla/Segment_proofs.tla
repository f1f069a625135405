---------------------------- MODULE Segment_proofs ----------------------------
(* Proofs about the named segment.                                            *)
EXTENDS Segment, TLAPS

\* Holding: the daemon has an object open.
Holding == dpc \in {"size", "header", "stamp", "run", "anchor"}

\* What the daemon holds is what the name leads to; it is whole once sized, bare while
\* it is being stamped and stamped when running; it only unlinks what is wrong.
NameInv ==
  /\ (Holding => dobj = name)
  /\ (dpc \in {"header", "stamp", "run", "anchor"} => objs[dobj].size = "full")
  /\ (dpc = "stamp" => objs[dobj].header = "none")
  /\ (Running => objs[dobj].header = "new")
  /\ (dpc = "unlink" => name \in Objects /\ objs[name].size # "full")

\* A connected plugin is on a segment no daemon will replace or clear.
IoInv ==
  /\ (connected => /\ gShm = name /\ name \in Objects /\ objs[name].size = "full"
                   /\ objs[name].header = "new" /\ objs[name].io = 1)
  /\ (ctl = "map" => ~connected)

Pending(o) == IF dpc = "anchor" /\ dobj = o THEN 1 ELSE 0

\* The anchor is behind the frames by one callback in progress and one for every kill;
\* only a stamped segment carries frames, so clearing loses none, and the frame count
\* GetZeroTimeStamp holds is not ahead of the segment it came from.
LagInv ==
  /\ \A o \in Objects :
       /\ (objs[o].header # "new" => objs[o].cap_write = 0 /\ objs[o].clock_host = 0)
       /\ (objs[o].clock_host > 0 =>
             objs[o].cap_write - objs[o].clock_host <= dkills + Pending(o))
  /\ (zf # -1 => zf <= objs[gShm].cap_write)

Inv == TypeOK /\ NameInv /\ IoInv

-----------------------------------------------------------------------------


LEMMA LeftTypes ==
  ASSUME NEW left \in Leftovers
  PROVE  /\ left \in ShmObject /\ Blank \in ShmObject /\ BlankFull \in ShmObject
         /\ left.cap_write = 0 /\ left.clock_host = 0
         /\ Blank.cap_write = 0 /\ Blank.clock_host = 0
<1>1. 0 \in 0 .. MaxCap
  BY SegmentAssumption
<1>2. /\ Blank \in ShmObject /\ Blank.cap_write = 0 /\ Blank.clock_host = 0
      /\ BlankFull \in ShmObject /\ BlankFull.cap_write = 0 /\ BlankFull.clock_host = 0
  BY <1>1 DEF Blank, BlankFull, ShmObject
<1>3. left \in {Blank, BlankFull} \/ left = [BlankFull EXCEPT !.header = "new"]
      \/ left = [BlankFull EXCEPT !.header = "old"]
      \/ left = [Blank EXCEPT !.size = "old", !.header = "old"]
  BY DEF Leftovers
<1>4. CASE left = [BlankFull EXCEPT !.header = "new"]
  BY <1>1, <1>2, <1>4 DEF ShmObject
<1>5. CASE left = [BlankFull EXCEPT !.header = "old"]
  BY <1>1, <1>2, <1>5 DEF ShmObject
<1>6. CASE left = [Blank EXCEPT !.size = "old", !.header = "old"]
  BY <1>1, <1>2, <1>6 DEF ShmObject
<1> QED  BY <1>2, <1>3, <1>4, <1>5, <1>6

LEMMA InitInv == Init => Inv /\ LagInv /\ LagBounded
<1> USE SegmentAssumption
<1> SUFFICES ASSUME Init PROVE Inv /\ LagInv /\ LagBounded
  OBVIOUS
<1>1. /\ objs \in [Objects -> ShmObject]
      /\ \A o \in Objects : objs[o].cap_write = 0 /\ objs[o].clock_host = 0
  <2>1. Blank \in ShmObject /\ Blank.cap_write = 0 /\ Blank.clock_host = 0
    BY LeftTypes DEF Leftovers
  <2>2. CASE objs = [o \in Objects |-> Blank]
    BY <2>1, <2>2
  <2>3. CASE \E left \in Leftovers : objs = [o \in Objects |-> IF o = 1 THEN left ELSE Blank]
    BY <2>3, LeftTypes
  <2> QED  BY <2>2, <2>3 DEF Init
<1>2. TypeOK
  <2>1. name \in 0 .. MaxObj /\ next \in 1 .. MaxObj + 1
    BY DEF Init
  <2>2. 0 \in 0 .. MaxObj /\ -1 \in -1 .. MaxCap /\ 0 \in 0 .. MaxKills /\ 0 \in 0 .. 0
    OBVIOUS
  <2>3. /\ stamp \in {<<>>} \cup (1 .. MaxCap) \X (1 .. MaxCap)
        /\ connected \in BOOLEAN /\ kills \in 0 .. MaxKills /\ dkills \in 0 .. kills
    BY <2>2 DEF Init
  <2>4. zf \in -1 .. MaxCap /\ zf = -1 /\ gShm \in 0 .. MaxObj /\ found \in 0 .. MaxObj
    BY <2>2 DEF Init
  <2> QED  BY <1>1, <2>1, <2>3, <2>4 DEF Init, TypeOK
<1>3. NameInv /\ IoInv
  BY DEF Init, NameInv, IoInv, Holding, Running
<1>4. LagInv /\ LagBounded
  BY <1>1 DEF Init, LagInv, LagBounded, Pending
<1> QED  BY <1>2, <1>3, <1>4 DEF Inv

LEMMA NextType == TypeOK /\ [Next]_vars => TypeOK'
<1> USE SegmentAssumption DEF TypeOK, Objects, objVars, daemVars, plugVars, killVars
<1> SUFFICES ASSUME TypeOK, [Next]_vars PROVE TypeOK'
  OBVIOUS
<1>a. ASSUME NEW d \in Objects, NEW new \in ShmObject, objs' = [objs EXCEPT ![d] = new]
      PROVE  objs' \in [Objects -> ShmObject]
  BY <1>a
<1>b. ASSUME NEW o \in ShmObject, NEW v
      PROVE  /\ (v \in {"zero", "old", "full"} => [o EXCEPT !.size = v] \in ShmObject)
             /\ (v \in {"none", "old", "new"} => [o EXCEPT !.header = v] \in ShmObject)
             /\ (v \in {0, 1} => [o EXCEPT !.io = v] \in ShmObject)
             /\ (v \in 0 .. MaxCap => [o EXCEPT !.cap_write = v] \in ShmObject)
             /\ (v \in 0 .. MaxCap => [o EXCEPT !.clock_host = v] \in ShmObject)
  BY <1>b DEF ShmObject
<1>c. ASSUME NEW v \in {0, 1}, objs' = SetIO(v)
      PROVE  objs' \in [Objects -> ShmObject]
  <2>1. CASE gShm = 0
    BY <1>c, <2>1 DEF SetIO
  <2>2. CASE gShm # 0
    <3>1. objs' = [objs EXCEPT ![gShm] = [objs[gShm] EXCEPT !.io = v]]
      BY <1>c, <2>2 DEF SetIO
    <3> QED  BY <1>a, <1>b, <2>2, <3>1
  <2> QED  BY <2>1, <2>2
<1>0. Blank \in ShmObject /\ BlankFull \in ShmObject
  BY LeftTypes DEF Leftovers
<1>1. CASE Probe  BY <1>1 DEF Probe
<1>2. CASE Unlink  BY <1>2 DEF Unlink
<1>3. CASE OpenOrCreate  BY <1>3 DEF OpenOrCreate
<1>4. CASE Truncate
  <2>1. PICK v \in {"zero", "old", "full"} :
          objs' = [objs EXCEPT ![dobj] = [objs[dobj] EXCEPT !.size = v]]
    BY <1>4 DEF Truncate, ShmObject
  <2>2. objs' \in [Objects -> ShmObject]
    BY <1>4, <1>a, <1>b, <2>1 DEF Truncate
  <2> QED  BY <1>4, <2>2 DEF Truncate
<1>5. CASE InitHeader  BY <1>0, <1>5 DEF InitHeader
<1>6. CASE Stamp
  <2>1. objs' = [objs EXCEPT ![dobj] = [objs[dobj] EXCEPT !.header = "new"]]
    BY <1>6 DEF Stamp
  <2>2. objs' \in [Objects -> ShmObject]
    BY <1>6, <1>a, <1>b, <2>1 DEF Stamp
  <2> QED  BY <1>6, <2>2 DEF Stamp
<1>7. CASE OnCap
  <2>1. objs' = [objs EXCEPT ![dobj] = [objs[dobj] EXCEPT !.cap_write = objs[dobj].cap_write + 1]]
    BY <1>7 DEF OnCap
  <2>2. objs' \in [Objects -> ShmObject]
    <3>1. objs[dobj] \in ShmObject /\ objs[dobj].cap_write + 1 \in 0 .. MaxCap /\ dobj \in Objects
      <4>1. dobj \in Objects /\ objs \in [Objects -> ShmObject] /\ objs[dobj].cap_write < MaxCap
        BY <1>7 DEF OnCap
      <4>2. objs[dobj] \in ShmObject BY ONLY <4>1
      <4> QED  BY ONLY <4>1, <4>2, SegmentAssumption DEF ShmObject
    <3> QED  BY ONLY <1>a, <1>b, <2>1, <3>1
  <2> QED  BY <1>7, <2>2 DEF OnCap
<1>8. CASE OnCapAnchor
  <2>1. objs' = [objs EXCEPT ![dobj] = [objs[dobj] EXCEPT !.clock_host = objs[dobj].cap_write]]
    BY <1>8 DEF OnCapAnchor, Anchor
  <2>2. objs' \in [Objects -> ShmObject]
    <3>1. objs[dobj] \in ShmObject /\ objs[dobj].cap_write \in 0 .. MaxCap /\ dobj \in Objects
      <4>1. dobj \in Objects /\ objs \in [Objects -> ShmObject]
        BY <1>8 DEF OnCapAnchor
      <4>2. objs[dobj] \in ShmObject BY ONLY <4>1
      <4> QED  BY ONLY <4>1, <4>2, SegmentAssumption DEF ShmObject
    <3> QED  BY ONLY <1>a, <1>b, <2>1, <3>1
  <2> QED  BY <1>8, <2>2 DEF OnCapAnchor
<1>9. CASE Idle
  <2>1. objs' = [objs EXCEPT ![dobj] = [objs[dobj] EXCEPT !.clock_host = 0]]
    BY <1>9 DEF Idle
  <2>2. objs' \in [Objects -> ShmObject]
    <3>1. objs[dobj] \in ShmObject /\ 0 \in 0 .. MaxCap /\ dobj \in Objects
      <4>1. dobj \in Objects /\ objs \in [Objects -> ShmObject]
        BY <1>9 DEF Idle
      <4>2. objs[dobj] \in ShmObject BY ONLY <4>1
      <4> QED  BY ONLY <4>1, <4>2, SegmentAssumption DEF ShmObject
    <3> QED  BY ONLY <1>a, <1>b, <2>1, <3>1
  <2> QED  BY <1>9, <2>2 DEF Idle
<1>10. CASE KillDaemon  BY <1>10 DEF KillDaemon
<1>11. CASE StartIO  BY <1>11 DEF StartIO, Calm
<1>12. CASE PerformConfigChange  BY <1>12 DEF PerformConfigChange, Calm
<1>13. CASE IoCycleMaps  BY <1>13 DEF IoCycleMaps, Calm
<1>14. CASE EnsureOpen  BY <1>14 DEF EnsureOpen, AfterEnsure, MustMap
<1>15. CASE EnsureMap  BY <1>15 DEF EnsureMap, AfterEnsure
<1>16. CASE RaiseIO
  <2>1. objs' \in [Objects -> ShmObject]
    BY <1>16, <1>c DEF RaiseIO
  <2>2. connected' \in BOOLEAN
    BY <1>16 DEF RaiseIO
  <2> QED  BY <1>16, <2>1, <2>2 DEF RaiseIO
<1>17. CASE StopIO
  <2>1. objs' \in [Objects -> ShmObject]
    BY <1>17, <1>c DEF StopIO
  <2> QED  BY <1>17, <2>1 DEF StopIO, Calm
<1>18. CASE ZeroLoadFrames  BY <1>18 DEF ZeroLoadFrames, Calm, ShmObject
<1>19. CASE ZeroLoadHost  BY <1>19 DEF ZeroLoadHost, ShmObject
<1>20. CASE KillPlugin
  <2>1. kills' \in 0 .. MaxKills /\ dkills' \in 0 .. kills'
    BY <1>20 DEF KillPlugin
  <2>2. stamp' \in {<<>>} \cup (1 .. MaxCap) \X (1 .. MaxCap)
    BY <1>20 DEF KillPlugin
  <2>3. connected' \in BOOLEAN
    BY <1>20 DEF KillPlugin
  <2>4. zf' \in -1 .. MaxCap /\ zf' = -1
    BY <1>20 DEF KillPlugin
  <2>5. gShm' \in 0 .. MaxObj /\ found' \in 0 .. MaxObj
    BY <1>20 DEF KillPlugin
  <2> QED  BY <1>20, <2>1, <2>2, <2>3, <2>4, <2>5 DEF KillPlugin
<1>21. CASE UNCHANGED vars  BY <1>21 DEF vars
<1> QED
  BY <1>1, <1>2, <1>3, <1>4, <1>5, <1>6, <1>7, <1>8, <1>9, <1>10, <1>11, <1>12, <1>13,
     <1>14, <1>15, <1>16, <1>17, <1>18, <1>19, <1>20, <1>21
     DEF Next, Daemon, Bring, Plugin, Ensure

\* SetIO changes the flag of the mapped segment and nothing else.
LEMMA SetIOKeeps ==
  ASSUME TypeOK, NEW v \in {0, 1}, objs' = SetIO(v)
  PROVE  \A o \in Objects :
           /\ objs'[o].size = objs[o].size /\ objs'[o].header = objs[o].header
           /\ objs'[o].cap_write = objs[o].cap_write
           /\ objs'[o].clock_host = objs[o].clock_host
           /\ objs'[o].io = IF o = gShm THEN v ELSE objs[o].io
<1>1. CASE gShm = 0
  BY <1>1 DEF SetIO, Objects
<1>2. CASE gShm # 0
  BY <1>2 DEF SetIO, TypeOK, ShmObject, Objects
<1> QED  BY <1>1, <1>2

LEMMA NextName == TypeOK /\ NameInv /\ [Next]_vars => NameInv'
<1> USE DEF NameInv, Holding, Running, objVars, daemVars, plugVars, killVars
<1> SUFFICES ASSUME TypeOK, NameInv, [Next]_vars PROVE NameInv'
  OBVIOUS
<1> USE DEF TypeOK
<1>1. CASE Probe  BY <1>1 DEF Probe, Wrong, Objects
<1>2. CASE Unlink  BY <1>2 DEF Unlink
<1>3. CASE OpenOrCreate  BY <1>3 DEF OpenOrCreate
<1>4. CASE Truncate  BY <1>4 DEF Truncate, ShmObject
<1>5. CASE InitHeader
  BY <1>5 DEF InitHeader, StaleHeader, Blank, BlankFull, ShmObject
<1>6. CASE Stamp  BY <1>6 DEF Stamp, ShmObject
<1>7. CASE OnCap  BY <1>7 DEF OnCap, ShmObject
<1>8. CASE OnCapAnchor  BY <1>8 DEF OnCapAnchor, ShmObject
<1>9. CASE Idle  BY <1>9 DEF Idle, ShmObject
<1>10. CASE KillDaemon  BY <1>10 DEF KillDaemon
<1>11. CASE RaiseIO \/ StopIO
  <2>1. objs' = SetIO(0) \/ objs' = SetIO(1)
    BY <1>11 DEF RaiseIO, StopIO
  <2>2. UNCHANGED <<name, dpc, dobj>>
    BY <1>11 DEF RaiseIO, StopIO
  <2>3. \A o \in Objects : objs'[o].size = objs[o].size /\ objs'[o].header = objs[o].header
    BY <2>1, SetIOKeeps
  <2> QED  BY <2>2, <2>3
<1>12. CASE UNCHANGED <<objs, name, dpc, dobj>>  BY <1>12
<1> QED
  BY <1>1, <1>2, <1>3, <1>4, <1>5, <1>6, <1>7, <1>8, <1>9, <1>10, <1>11, <1>12
     DEF Next, Daemon, Bring, Plugin, Ensure, vars, StartIO, PerformConfigChange,
         IoCycleMaps, EnsureOpen, EnsureMap, ZeroLoadFrames, ZeroLoadHost, KillPlugin

LEMMA NextIo == TypeOK /\ NameInv /\ IoInv /\ [Next]_vars => IoInv'
<1> USE DEF NameInv, IoInv, Holding, Running, objVars, daemVars, plugVars, killVars, TypeOK
<1> SUFFICES ASSUME TypeOK, NameInv, IoInv, [Next]_vars PROVE IoInv'
  OBVIOUS
<1>1. CASE Unlink  BY <1>1 DEF Unlink
<1>2. CASE OpenOrCreate  BY <1>2 DEF OpenOrCreate, Objects
<1>3. CASE Truncate  BY <1>3 DEF Truncate, ShmObject
<1>4. CASE InitHeader  BY <1>4 DEF InitHeader, StaleHeader, ShmObject
<1>5. CASE Stamp  BY <1>5 DEF Stamp, ShmObject
<1>6. CASE OnCap  BY <1>6 DEF OnCap, ShmObject
<1>7. CASE OnCapAnchor  BY <1>7 DEF OnCapAnchor, ShmObject
<1>8. CASE Idle  BY <1>8 DEF Idle, ShmObject
<1>9. CASE RaiseIO
  <2>1. objs' = SetIO(1) /\ UNCHANGED <<name, gShm>> /\ ctl' = "idle"
        /\ connected' = (gShm # 0 /\ gShm = name /\ objs[gShm].size = "full"
                                  /\ objs[gShm].header = "new")
    BY <1>9 DEF RaiseIO
  <2> QED  BY <2>1, SetIOKeeps DEF Objects
<1>10. CASE StopIO
  <2>1. ~connected'  BY <1>10 DEF StopIO
  <2> QED  BY <2>1
<1>11. CASE EnsureOpen  BY <1>11 DEF EnsureOpen, MustMap, AfterEnsure
<1>12. CASE EnsureMap  BY <1>12 DEF EnsureMap, AfterEnsure
<1>13. CASE KillPlugin  BY <1>13 DEF KillPlugin
<1>14. CASE StartIO \/ PerformConfigChange \/ IoCycleMaps
  BY <1>14 DEF StartIO, PerformConfigChange, IoCycleMaps
<1>15. CASE UNCHANGED <<objs, name, gShm, ctl, connected>>  BY <1>15
<1> QED
  BY <1>1, <1>2, <1>3, <1>4, <1>5, <1>6, <1>7, <1>8, <1>9, <1>10, <1>11, <1>12, <1>13,
     <1>14, <1>15
     DEF Next, Daemon, Bring, Plugin, Ensure, vars, Probe, KillDaemon, ZeroLoadFrames,
         ZeroLoadHost

\* Every reachable state of the segment and its two users is typed (init_header, ensure_shm).
THEOREM Typing == Spec => []TypeOK
<1>1. Init => TypeOK  BY InitInv DEF Inv
<1> QED  BY <1>1, NextType, PTL DEF Spec

LEMMA Invariant == Spec => []Inv
<1>1. Init => Inv  BY InitInv
<1>2. Inv /\ [Next]_vars => Inv'
  BY NextType, NextName, NextIo DEF Inv
<1> QED  BY <1>1, <1>2, PTL DEF Spec

\* Once StartIO reached the live segment, io_running stays up there until StopIO, through
\* every kill and restart of the daemon (StartIO, shm::map).
THEOREM ConnectionHolds == Spec => []IoReaches
<1>1. Inv => IoReaches  BY DEF Inv, IoInv, IoReaches
<1> QED  BY <1>1, Invariant, PTL

\* A running daemon works on the segment the name leads to, whole and stamped, so that
\* a plugin that looks can find it (shm::map, init_header).
THEOREM RunningIsNamed ==
  Spec => [](Running => dobj = name /\ objs[dobj].size = "full" /\ objs[dobj].header = "new")
<1>1. Inv => (Running => dobj = name /\ objs[dobj].size = "full" /\ objs[dobj].header = "new")
  BY DEF Inv, NameInv, Holding, Running
<1> QED  BY <1>1, Invariant, PTL

-----------------------------------------------------------------------------
(* The age of the anchor.                                                     *)

LEMMA NextLag == TypeOK /\ NameInv /\ LagInv /\ [Next]_vars => LagInv'
<1> USE DEF NameInv, LagInv, Holding, Running, Pending, objVars, daemVars, plugVars, killVars
<1> SUFFICES ASSUME TypeOK, NameInv, LagInv, [Next]_vars
             PROVE  LagInv'
  OBVIOUS
<1> USE DEF TypeOK
<1>a. \A o \in Objects : objs[o].cap_write \in Nat /\ objs[o].clock_host \in Nat
  <2>1. \A o \in Objects : objs[o] \in ShmObject
    OBVIOUS
  <2> QED  BY ONLY <2>1, SegmentAssumption DEF ShmObject
<1>1. CASE Probe  BY <1>1 DEF Probe, ShmObject
<1>2. CASE Unlink  BY <1>2 DEF Unlink, ShmObject
<1>3. CASE OpenOrCreate  BY <1>3 DEF OpenOrCreate, ShmObject
<1>4. CASE Truncate  BY <1>4 DEF Truncate, ShmObject
<1>5. CASE InitHeader
  <2>1. UNCHANGED <<dobj, dkills, gShm, zf>> /\ dpc = "header" /\ dobj \in Objects
        /\ dpc' # "anchor"
    BY <1>5 DEF InitHeader
  <2>2. CASE objs' = [objs EXCEPT ![dobj] = BlankFull] /\ objs[dobj].header # "new"
    <3>1. \A o \in Objects :
            /\ objs'[o] = IF o = dobj THEN BlankFull ELSE objs[o]
            /\ objs[o].cap_write \in Int
      BY <2>2 DEF ShmObject
    <3>2. BlankFull.cap_write = 0 /\ BlankFull.clock_host = 0 /\ objs[dobj].cap_write = 0
      BY <2>1, <2>2 DEF Blank, BlankFull
    <3> QED  BY <2>1, <3>1, <3>2
  <2>3. CASE UNCHANGED objs
    BY <2>1, <2>3
  <2> QED  BY <1>5, <2>2, <2>3 DEF InitHeader, StaleHeader
<1>6. CASE Stamp  BY <1>6 DEF Stamp, ShmObject
<1>7. CASE OnCap
  <2>1. /\ dpc = "run" /\ dpc' = "anchor" /\ dobj \in Objects /\ objs[dobj].header = "new"
        /\ UNCHANGED <<dobj, dkills, gShm, zf>>
        /\ dkills \in Nat /\ zf \in Int
    BY <1>7 DEF OnCap
  <2>2. PICK n \in Nat : n = objs[dobj].cap_write + 1
    BY <1>a, <2>1
  <2>3. objs' = [objs EXCEPT ![dobj] = [objs[dobj] EXCEPT !.cap_write = n]]
    BY <1>7, <2>2 DEF OnCap
  <2>4. objs[dobj] \in ShmObject
    BY <2>1
  <2>5. /\ objs'[dobj].header = "new" /\ objs'[dobj].cap_write = n
        /\ objs'[dobj].clock_host = objs[dobj].clock_host
        /\ \A o \in Objects : o # dobj => objs'[o] = objs[o]
    BY <2>1, <2>3, <2>4 DEF ShmObject
  <2>6. objs[dobj].clock_host > 0 => n - objs[dobj].clock_host <= dkills + 1
    <3>1. Pending(dobj) = 0
      BY ONLY <2>1 DEF Pending
    <3>2. objs[dobj].clock_host > 0 =>
            objs[dobj].cap_write - objs[dobj].clock_host <= dkills + Pending(dobj)
      BY ONLY LagInv, <2>1 DEF LagInv
    <3>3. objs[dobj].cap_write \in Nat /\ objs[dobj].clock_host \in Nat
      BY <1>a, <2>1
    <3> QED  BY ONLY <2>1, <2>2, <3>1, <3>2, <3>3
  <2>7. zf # -1 => zf <= objs'[gShm].cap_write
    <3>1. SUFFICES ASSUME zf # -1  PROVE zf <= objs'[gShm].cap_write
      OBVIOUS
    <3>2. gShm \in Objects /\ zf <= objs[gShm].cap_write
      BY LagInv, TypeOK, <3>1 DEF LagInv, TypeOK
    <3>3. CASE gShm = dobj
      <4>1. objs'[gShm].cap_write = objs[gShm].cap_write + 1
        BY ONLY <2>2, <2>5, <3>3
      <4>2. objs[gShm].cap_write \in Nat
        BY <1>a, <3>2
      <4> QED  BY ONLY <2>1, <3>2, <4>1, <4>2
    <3>4. CASE gShm # dobj  BY ONLY <2>5, <3>2, <3>4
    <3> QED  BY ONLY <3>3, <3>4
  <2> QED  BY ONLY LagInv, <2>1, <2>5, <2>6, <2>7 DEF LagInv, Pending
<1>8. CASE OnCapAnchor  BY <1>8 DEF OnCapAnchor, Anchor, ShmObject
<1>9. CASE Idle  BY <1>9 DEF Idle, ShmObject
<1>10. CASE KillDaemon  BY <1>10 DEF KillDaemon, ShmObject
<1>11. CASE RaiseIO \/ StopIO
  <2>1. objs' = SetIO(0) \/ objs' = SetIO(1)
    BY <1>11 DEF RaiseIO, StopIO
  <2>2. UNCHANGED <<dpc, dobj, dkills, gShm, zf>>
    BY <1>11 DEF RaiseIO, StopIO
  <2>3. \A o \in Objects :
          /\ objs'[o].header = objs[o].header
          /\ objs'[o].cap_write = objs[o].cap_write
          /\ objs'[o].clock_host = objs[o].clock_host
    BY <2>1, SetIOKeeps
  <2> QED  BY ONLY LagInv, TypeOK, <2>2, <2>3 DEF LagInv, Pending, TypeOK
<1>12. CASE ZeroLoadFrames  BY <1>12 DEF ZeroLoadFrames, ShmObject, Objects
<1>13. CASE ZeroLoadHost \/ KillPlugin
  <2>1. UNCHANGED <<objs, dpc, dobj, dkills>> /\ zf' = -1
    BY <1>13 DEF ZeroLoadHost, KillPlugin
  <2> QED  BY ONLY LagInv, <2>1 DEF LagInv, Pending
<1>14. CASE EnsureMap  BY <1>14 DEF EnsureMap, ShmObject, Objects
<1>15. CASE UNCHANGED <<objs, gShm, zf, dpc, dobj, dkills>>
  BY <1>15 DEF ShmObject, Objects
<1> QED
  BY <1>1, <1>2, <1>3, <1>4, <1>5, <1>6, <1>7, <1>8, <1>9, <1>10, <1>11, <1>12, <1>13,
     <1>14, <1>15
     DEF Next, Daemon, Bring, Plugin, Ensure, vars, StartIO, PerformConfigChange,
         IoCycleMaps, EnsureOpen

LEMMA NextBounded ==
  TypeOK /\ LagInv /\ LagBounded /\ [Next]_vars => LagBounded'
<1> SUFFICES ASSUME TypeOK, LagInv, LagBounded, [Next]_vars PROVE LagBounded'
  OBVIOUS
<1>1. CASE ZeroLoadHost
  <2>1. zf # -1 /\ gShm \in Objects /\ dkills \in Nat /\ dkills' = dkills
    BY <1>1 DEF ZeroLoadHost, TypeOK, killVars
  <2>2. PICK H \in Int : /\ H = objs[gShm].clock_host
                         /\ stamp' = IF zf > 0 /\ H > 0 THEN <<zf, H>> ELSE <<>>
    BY <1>1, <2>1 DEF ZeroLoadHost, TypeOK, ShmObject
  <2>3. H > 0 => zf - H <= 1 + dkills
    BY <2>1, <2>2 DEF LagInv, Pending, TypeOK, ShmObject
  <2>4. CASE zf > 0 /\ H > 0
    BY <2>1, <2>2, <2>3, <2>4 DEF LagBounded
  <2>5. CASE ~(zf > 0 /\ H > 0)
    BY <2>2, <2>5 DEF LagBounded
  <2> QED  BY <2>4, <2>5
<1>2. CASE KillPlugin  BY <1>2 DEF KillPlugin, LagBounded
<1>3. CASE UNCHANGED stamp /\ dkills' >= dkills
  <2>1. CASE stamp = <<>>  BY <1>3, <2>1 DEF LagBounded
  <2>2. CASE stamp # <<>>
    <3>1. dkills \in Int /\ dkills' \in Int
      BY NextType DEF TypeOK
    <3>2. PICK a \in 1 .. MaxCap, b \in 1 .. MaxCap : stamp = <<a, b>>
      BY <2>2 DEF TypeOK
    <3>3. stamp' = <<a, b>> /\ a \in Int /\ b \in Int
      BY <1>3, <3>2
    <3>4. a - b <= 1 + dkills
      BY <2>2, <3>2 DEF LagBounded
    <3>5. a - b <= 1 + dkills'
      <4>1. \A x, y, z \in Int : z <= 1 + x /\ y >= x => z <= 1 + y
        OBVIOUS
      <4>2. a - b \in Int
        BY <3>3
      <4> QED  BY <1>3, <3>1, <3>4, <4>1, <4>2
    <3> QED  BY <3>3, <3>5 DEF LagBounded
  <2> QED  BY <2>1, <2>2
<1>4. CASE KillDaemon
  <2>1. UNCHANGED stamp /\ dkills' >= dkills
    BY <1>4 DEF KillDaemon, plugVars, TypeOK
  <2> QED  BY <1>3, <2>1
<1>5. CASE UNCHANGED <<stamp, dkills>>
  BY <1>3, <1>5 DEF TypeOK
<1> QED
  BY <1>1, <1>2, <1>4, <1>5
     DEF Next, Daemon, Bring, Plugin, Ensure, vars, objVars, daemVars, plugVars, killVars,
         Probe, Unlink, OpenOrCreate, Truncate, InitHeader, Stamp, OnCap, OnCapAnchor, Idle,
         StartIO, PerformConfigChange, IoCycleMaps, EnsureOpen, EnsureMap, RaiseIO, StopIO,
         ZeroLoadFrames

\* The host time used is at most one callback older than the frames it is paired with,
\* and one more for every kill of the daemon (GetZeroTimeStamp, on_cap).
THEOREM LagBoundedHolds == Spec => []LagBounded
<1>1. Init => Inv /\ LagInv /\ LagBounded  BY InitInv
<1>2. (Inv /\ LagInv /\ LagBounded) /\ [Next]_vars => (Inv /\ LagInv /\ LagBounded)'
  BY NextType, NextName, NextIo, NextLag, NextBounded DEF Inv
<1> QED  BY <1>1, <1>2, PTL DEF Spec

=============================================================================
