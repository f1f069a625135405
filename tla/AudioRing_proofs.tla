--------------------------- MODULE AudioRing_proofs ---------------------------
(***************************************************************************)
(* Typing of the rings; the cursors never cross although three threads     *)
(* store them; and each direction implements the lossy FIFO, for every     *)
(* ring size, buffer size, number of clients and length of run.            *)
(***************************************************************************)
EXTENDS AudioRing, SequenceTheorems, TLAPS

(* A remainder by a positive number lies between zero and the divisor.      *)
LEMMA RemainderRange ==
  ASSUME NEW x \in Int, NEW n \in Nat \ {0}
  PROVE  x % n \in 0 .. n - 1
  OBVIOUS

(* A difference that does not underflow is not changed by the word size.    *)
LEMMA RemainderSmall ==
  ASSUME NEW n \in Nat \ {0}, NEW x \in 0 .. n - 1
  PROVE  x % n = x
  OBVIOUS

(* The smaller of two numbers is one of them and no larger than either.     *)
LEMMA LeastFacts ==
  ASSUME NEW a \in Nat, NEW b \in Nat
  PROVE  Least(a, b) \in Nat /\ Least(a, b) <= a /\ Least(a, b) <= b
  BY DEF Least

LEMMA AvailNat ==
  ASSUME NEW a \in Nat, NEW b \in Nat
  PROVE  Avail(a, b) \in Nat
  <1>1. Word \in Nat \ {0} BY RingAssumption
  <1>2. a - b \in Int OBVIOUS
  <1> QED BY <1>1, <1>2, RemainderRange DEF Avail

LEMMA FilledType ==
  ASSUME NEW slots \in [Slots -> Nat], NEW from \in Nat, NEW n \in Nat, NEW first \in Nat
  PROVE  Filled(slots, from, n, first) \in [Slots -> Nat]
  <1> SUFFICES ASSUME NEW s \in Slots
               PROVE  (LET k == (s - from) % RingFrames
                       IN  IF k < n THEN first + k ELSE slots[s]) \in Nat
    BY DEF Filled
  <1>1. s - from \in Int /\ RingFrames \in Nat \ {0} BY RingAssumption DEF Slots
  <1>2. (s - from) % RingFrames \in Nat BY <1>1, RemainderRange
  <1> QED BY <1>2

LEMMA BatchType ==
  ASSUME NEW hist \in Seq(Nat) \ {<<>>}, NEW slots \in [Slots -> Nat],
         NEW from \in Nat, NEW n \in Nat
  PROVE  Batch(hist, slots, from, n) \in Seq(Nat) \ {<<>>}
  <1> DEFINE B == Batch(hist, slots, from, n)
  <1>1. hist[Len(hist)] \in Nat
    <2>1. Len(hist) \in 1 .. Len(hist) OBVIOUS
    <2> QED BY <2>1
  <1>2. ASSUME NEW i \in 2 .. n + 1
        PROVE  slots[(from + i - 2) % RingFrames] \in Nat
    <2>1. from + i - 2 \in Int /\ RingFrames \in Nat \ {0} BY RingAssumption
    <2>2. (from + i - 2) % RingFrames \in Slots BY <2>1, RemainderRange DEF Slots
    <2> QED BY <2>2
  <1>3. B \in [1 .. n + 1 -> Nat]
    <2>1. ASSUME NEW i \in 1 .. n + 1
          PROVE  (IF i = 1 THEN hist[Len(hist)]
                  ELSE slots[(from + i - 2) % RingFrames]) \in Nat
      <3>1. CASE i = 1 BY <3>1, <1>1
      <3>2. CASE i # 1
        <4>1. i \in 2 .. n + 1 BY <3>2
        <4> QED BY <4>1, <3>2, <1>2
      <3> QED BY <3>1, <3>2
    <2> QED BY <2>1 DEF Batch
  <1>4. n + 1 \in Nat OBVIOUS
  <1>5. B \in Seq(Nat) BY <1>3, <1>4, SeqDef
  <1>6. DOMAIN B = 1 .. n + 1 BY <1>3
  <1>7. B # <<>> BY <1>5, <1>6
  <1> QED BY <1>5, <1>7

-----------------------------------------------------------------------------
(* Every variable keeps its type: no cursor goes negative, no slot is left     *)
(* unset, and the histories stay sequences of frame numbers.                   *)
THEOREM Typing == Spec => []TypeOK
<1> USE RingAssumption
<1>1. Init => TypeOK
  <2> SUFFICES ASSUME Init PROVE TypeOK OBVIOUS
  <2>1. got \in Seq(Nat) \ {<<>>} /\ out \in Seq(Nat) \ {<<>>}
    <3>1. Len(<<0>>) = 1 /\ <<0>> \in Seq(Nat) OBVIOUS
    <3>2. Len(<<>>) = 0 OBVIOUS
    <3> QED BY <3>1, <3>2 DEF Init
  <2>2. cap \in [Slots -> Nat] /\ play \in [Slots -> Nat] BY DEF Init
  <2>3. primed \in BOOLEAN BY Zenon DEF Init
  <2>4. gIORunning \in 0 .. MaxClients BY DEF Init
  <2>5. cap_write = 0 /\ cap_read = 0 /\ play_write = 0 /\ play_read = 0 /\ rd = 0
        /\ avail = 0 /\ frames = 0 /\ loaded = 0 /\ r = 0 /\ w = 0 /\ written = 0
    BY DEF Init
  <2>6. io_running = 0 /\ dpc = "top" /\ ctl = "idle" /\ rt = "idle" BY DEF Init
  <2> QED BY <2>1, <2>2, <2>3, <2>4, <2>5, <2>6 DEF TypeOK, DaemonPoints, CtlPoints, RtPoints
<1>2. TypeOK /\ [Next]_vars => TypeOK'
  <2> SUFFICES ASSUME TypeOK, [Next]_vars PROVE TypeOK' OBVIOUS
  <2> USE DEF TypeOK, DaemonPoints, CtlPoints, RtPoints, shmVars, callVars, daemonVars,
              ctlVars, rtVars, histVars, CallLocalsReset
  <2>1. CASE Resume BY <2>1 DEF Resume
  <2>2. CASE ResetCap BY <2>2 DEF ResetCap
  <2>3. CASE ResetLoadPlay BY <2>3 DEF ResetLoadPlay
  <2>4. CASE ResetStorePlay BY <2>4 DEF ResetStorePlay
  <2>5. CASE CapCopy
    <3>1. PICK n \in UsbFrames :
            /\ cap' = Filled(cap, cap_write, n, cap_write + 1)
            /\ frames' = n
      BY <2>5 DEF CapCopy
    <3>2. n \in Nat /\ cap_write + 1 \in Nat OBVIOUS
    <3>3. cap' \in [Slots -> Nat] BY <3>1, <3>2, FilledType
    <3>4. frames' \in Nat BY <3>1, <3>2
    <3> QED BY <2>5, <3>3, <3>4 DEF CapCopy
  <2>6. CASE CapPublish BY <2>6 DEF CapPublish
  <2>7. CASE FillStart
    <3>1. Avail(play_write, play_read) \in Nat BY AvailNat
    <3> QED BY <2>7, <3>1 DEF FillStart
  <2>8. CASE FillOverflow BY <2>8 DEF FillOverflow
  <2>9. CASE FillPanic BY <2>9 DEF FillPanic
  <2>10. CASE FillClamp BY <2>10 DEF FillClamp
  <2>11. CASE FillCopy
    <3>1. Least(avail, frames) \in Nat BY LeastFacts
    <3>2. out' \in Seq(Nat) \ {<<>>} BY <2>11, <3>1, BatchType DEF FillCopy
    <3> QED BY <2>11, <3>2 DEF FillCopy
  <2>12. CASE FillStore
    <3>1. Least(avail, frames) \in Nat BY LeastFacts
    <3> QED BY <2>12, <3>1 DEF FillStore
  <2>13. CASE StreamEnd BY <2>13 DEF StreamEnd
  <2>14. CASE DaemonRestart BY <2>14 DEF DaemonRestart
  <2>15. CASE StartIO BY <2>15 DEF StartIO
  <2>16. CASE StartIOMore BY <2>16 DEF StartIOMore
  <2>17. CASE StartLoadCap BY <2>17 DEF StartLoadCap
  <2>18. CASE StartStoreCap BY <2>18 DEF StartStoreCap
  <2>19. CASE StartLoadPlay BY <2>19 DEF StartLoadPlay
  <2>20. CASE StartStorePlay BY <2>20 DEF StartStorePlay
  <2>21. CASE StopIO BY <2>21 DEF StopIO
  <2>22. CASE ReadLoadR BY <2>22 DEF ReadLoadR
  <2>23. CASE ReadLoadW BY <2>23 DEF ReadLoadW
  <2>24. CASE ReadDeliver
    <3> DEFINE consumed == Least(Avail(w, r), IoFrames)
    <3>1. consumed \in Nat
      <4>1. Avail(w, r) \in Nat BY AvailNat
      <4>2. IoFrames \in Nat OBVIOUS
      <4> QED BY <4>1, <4>2, LeastFacts
    <3>2. got' = Batch(got, cap, r, consumed) /\ cap_read' = r + consumed
      BY <2>24 DEF ReadDeliver
    <3>3. got' \in Seq(Nat) \ {<<>>} BY <3>1, <3>2, BatchType
    <3>4. cap_read' \in Nat BY <3>1, <3>2
    <3> QED BY <2>24, <3>3, <3>4 DEF ReadDeliver
  <2>25. CASE WriteCopy
    <3>1. IoFrames \in Nat /\ written + 1 \in Nat OBVIOUS
    <3>2. play' \in [Slots -> Nat] BY <2>25, <3>1, FilledType DEF WriteCopy
    <3> QED BY <2>25, <3>2 DEF WriteCopy
  <2>26. CASE WritePublish BY <2>26 DEF WritePublish
  <2>27. CASE PluginRestart BY <2>27 DEF PluginRestart
  <2>28. CASE UNCHANGED vars BY <2>28 DEF vars
  <2> QED BY <2>1, <2>2, <2>3, <2>4, <2>5, <2>6, <2>7, <2>8, <2>9, <2>10, <2>11,
             <2>12, <2>13, <2>14, <2>15, <2>16, <2>17, <2>18, <2>19, <2>20, <2>21,
             <2>22, <2>23, <2>24, <2>25, <2>26, <2>27, <2>28 DEF Next, Daemon, DaemonWork, Plugin
<1> QED BY <1>1, <1>2, PTL DEF Spec

-----------------------------------------------------------------------------
(* The inductive invariant behind CapReadBehindWrite: whatever a thread has    *)
(* loaded and may still store into cap_read was a position at or below         *)
(* cap_write when it was loaded, and cap_write only grows.                     *)
StartIOSafe   == ctl = "cap_store" => loaded <= cap_write
ReadInputSafe == /\ rt \in {"rd_w", "rd_copy"} => r <= cap_write
                 /\ rt = "rd_copy" => r <= w /\ w <= cap_write
CapBounded    == /\ cap_write <= MaxCap
                 /\ dpc = "cap_pub" => cap_write + frames <= MaxCap

CaptureInv == CapReadBehindWrite /\ StartIOSafe /\ ReadInputSafe /\ CapBounded

LEMMA CaptureInit == Init => CaptureInv
  <1> SUFFICES ASSUME Init PROVE CaptureInv OBVIOUS
  <1>1. cap_write = 0 /\ cap_read = 0 /\ ctl = "idle" /\ rt = "idle" /\ dpc = "top"
    BY DEF Init
  <1> QED BY <1>1, RingAssumption
       DEF CaptureInv, CapReadBehindWrite, StartIOSafe, ReadInputSafe, CapBounded

(* ReadInput's store: at most w - r frames are consumed, so it stays below w.  *)
LEMMA DeliverStaysBehind ==
  ASSUME TypeOK, CaptureInv, ReadDeliver
  PROVE  cap_read' <= cap_write
  <1>1. r \in Nat /\ w \in Nat /\ r <= w /\ w <= cap_write /\ cap_write <= MaxCap
        /\ cap_write \in Nat
    BY DEF TypeOK, CaptureInv, ReadInputSafe, CapBounded, ReadDeliver
  <1>2. w - r \in 0 .. Word - 1 /\ Word \in Nat \ {0}
    BY <1>1, RingAssumption
  <1>3. Avail(w, r) = w - r
    BY <1>2, RemainderSmall DEF Avail
  <1>4. IoFrames \in Nat /\ w - r \in Nat
    BY <1>2, RingAssumption
  <1>5. Least(Avail(w, r), IoFrames) \in Nat /\ Least(Avail(w, r), IoFrames) <= w - r
    BY <1>3, <1>4, LeastFacts
  <1>6. cap_read' = r + Least(Avail(w, r), IoFrames)
    BY DEF ReadDeliver
  <1> QED BY <1>1, <1>5, <1>6

LEMMA CaptureStep == TypeOK /\ CaptureInv /\ [Next]_vars => CaptureInv'
  <1> SUFFICES ASSUME TypeOK, CaptureInv, [Next]_vars PROVE CaptureInv' OBVIOUS
  <1> USE RingAssumption
  <1>0. /\ cap_write \in Nat /\ cap_read \in Nat /\ loaded \in Nat /\ r \in Nat
        /\ w \in Nat /\ frames \in Nat
    BY DEF TypeOK
  <1> USE DEF CaptureInv, CapReadBehindWrite, StartIOSafe, ReadInputSafe, CapBounded,
              shmVars, callVars, daemonVars, ctlVars, rtVars, histVars
  (* The daemon. *)
  <1>1. CASE Resume BY <1>0, <1>1 DEF Resume
  <1>2. CASE ResetCap BY <1>0, <1>2 DEF ResetCap
  <1>3. CASE ResetLoadPlay BY <1>0, <1>3 DEF ResetLoadPlay
  <1>4. CASE ResetStorePlay BY <1>0, <1>4 DEF ResetStorePlay
  <1>5. CASE CapCopy
    <2>1. PICK n \in UsbFrames : cap_write + n <= MaxCap /\ frames' = n
      BY <1>5 DEF CapCopy
    <2> QED BY <1>0, <1>5, <2>1 DEF CapCopy
  <1>6. CASE CapPublish BY <1>0, <1>6 DEF CapPublish, CallLocalsReset
  <1>7. CASE FillStart BY <1>0, <1>7 DEF FillStart
  <1>8. CASE FillOverflow BY <1>0, <1>8 DEF FillOverflow
  <1>9. CASE FillPanic BY <1>0, <1>9 DEF FillPanic
  <1>10. CASE FillClamp BY <1>0, <1>10 DEF FillClamp
  <1>11. CASE FillCopy BY <1>0, <1>11 DEF FillCopy
  <1>12. CASE FillStore BY <1>0, <1>12 DEF FillStore, CallLocalsReset
  <1>13. CASE StreamEnd BY <1>0, <1>13 DEF StreamEnd
  <1>14. CASE DaemonRestart BY <1>0, <1>14 DEF DaemonRestart
  (* coreaudiod. *)
  <1>15. CASE StartIO BY <1>0, <1>15 DEF StartIO
  <1>16. CASE StartIOMore BY <1>0, <1>16 DEF StartIOMore
  <1>17. CASE StartLoadCap BY <1>0, <1>17 DEF StartLoadCap
  <1>18. CASE StartStoreCap BY <1>0, <1>18 DEF StartStoreCap
  <1>19. CASE StartLoadPlay BY <1>0, <1>19 DEF StartLoadPlay
  <1>20. CASE StartStorePlay BY <1>0, <1>20 DEF StartStorePlay
  <1>21. CASE StopIO BY <1>0, <1>21 DEF StopIO
  <1>22. CASE ReadLoadR BY <1>0, <1>22 DEF ReadLoadR
  <1>23. CASE ReadLoadW BY <1>0, <1>23 DEF ReadLoadW
  <1>24. CASE ReadDeliver
    <2>1. cap_read' <= cap_write BY <1>24, DeliverStaysBehind
    <2> QED BY <1>0, <1>24, <2>1 DEF ReadDeliver
  <1>25. CASE WriteCopy BY <1>0, <1>25 DEF WriteCopy
  <1>26. CASE WritePublish BY <1>0, <1>26 DEF WritePublish
  <1>27. CASE PluginRestart BY <1>0, <1>27 DEF PluginRestart
  <1>28. CASE UNCHANGED vars BY <1>0, <1>28 DEF vars
  <1> QED BY <1>1, <1>2, <1>3, <1>4, <1>5, <1>6, <1>7, <1>8, <1>9, <1>10, <1>11, <1>12,
             <1>13, <1>14, <1>15, <1>16, <1>17, <1>18, <1>19, <1>20, <1>21, <1>22,
             <1>23, <1>24, <1>25, <1>26, <1>27, <1>28 DEF Next, Daemon, DaemonWork, Plugin

(* ReadInput's unsigned w - r never underflows: cap_read stays at or below     *)
(* cap_write in every interleaving of the reset, StartIO, ReadInput, crashes.  *)
THEOREM CaptureNeverUnderflows == Spec => []CapReadBehindWrite
  <1>1. CaptureInv => CapReadBehindWrite BY DEF CaptureInv
  <1> QED BY <1>1, Typing, CaptureInit, CaptureStep, PTL DEF Spec

(* The daemon's own stores of cap_read only drop frames: no step of the daemon *)
(* hands back to the plugin a position it had already passed.                  *)
THEOREM ResetOnlyDropsHolds == Spec => ResetOnlyDrops
  <1>1. TypeOK /\ CaptureInv /\ [Next]_vars
          => [dpc # dpc' => cap_read' >= cap_read]_<<dpc, cap_read>>
    <2> SUFFICES ASSUME TypeOK, CaptureInv, [Next]_vars, dpc # dpc'
                 PROVE  cap_read' >= cap_read
      OBVIOUS
    <2>1. cap_read \in Nat /\ cap_write \in Nat /\ cap_read <= cap_write
      BY DEF TypeOK, CaptureInv, CapReadBehindWrite
    <2>2. CASE ResetCap BY <2>1, <2>2 DEF ResetCap
    <2>3. CASE cap_read' = cap_read BY <2>1, <2>3
    <2>4. ResetCap \/ cap_read' = cap_read
      BY DEF Next, Daemon, DaemonWork, Plugin, Resume, ResetLoadPlay, ResetStorePlay, CapCopy,
             CapPublish, FillStart, FillOverflow, FillPanic, FillClamp, FillCopy,
             FillStore, StreamEnd, DaemonRestart, StartIO, StartIOMore, StartLoadCap,
             StartStoreCap, StartLoadPlay, StartStorePlay, StopIO, ReadLoadR,
             ReadLoadW, ReadDeliver, WriteCopy, WritePublish, PluginRestart,
             vars, shmVars, daemonVars
    <2> QED BY <2>2, <2>3, <2>4
  <1> QED BY <1>1, Typing, CaptureInit, CaptureStep, PTL DEF Spec, ResetOnlyDrops

-----------------------------------------------------------------------------
(* The playback ring, when IO restarts only once it is empty.  Two stores      *)
(* could cross the cursors: the daemon's of a play_read it worked out earlier, *)
(* and StartIO's of the play_read it loaded.  The first is bounded by a        *)
(* play_write that only StartIO moves back; the second finds both cursors      *)
(* equal, and they stay so until StartIO is done, since no app writes and the  *)
(* daemon finds nothing to consume.                                            *)
RestartQuiet == /\ ctl # "idle" => rt = "idle" /\ play_read = play_write
                /\ ctl = "play_store" => loaded = play_read
ResetSafe    == dpc = "rst_store" => play_read <= rd /\ rd <= play_write
FillSafe     == /\ dpc = "fill_clamp" => play_read <= rd /\ avail > 0
                /\ dpc \in {"fill_copy", "fill_store"} => rd = play_read
                /\ dpc \in {"fill_clamp", "fill_copy", "fill_store"}
                      => rd + avail <= play_write
PlayBounded  == /\ play_write <= written /\ written <= MaxPlay
                /\ rt = "wr_pub" => play_write + IoFrames <= written

PlayInv == PlayReadBehindWrite /\ RestartQuiet /\ ResetSafe /\ FillSafe /\ PlayBounded

LEMMA PlayInit == Init => PlayInv
  <1> SUFFICES ASSUME Init PROVE PlayInv OBVIOUS
  <1>1. play_write = 0 /\ play_read = 0 /\ written = 0 /\ ctl = "idle" /\ rt = "idle"
        /\ dpc = "top"
    BY DEF Init
  <1> QED BY <1>1, RingAssumption
       DEF PlayInv, PlayReadBehindWrite, RestartQuiet, ResetSafe, FillSafe, PlayBounded

(* The backlog fill computes is the true one.                                  *)
LEMMA BacklogExact ==
  ASSUME TypeOK, PlayInv
  PROVE  Avail(play_write, play_read) = play_write - play_read
  <1>1. play_write \in Nat /\ play_read \in Nat /\ written \in Nat BY DEF TypeOK
  <1>2. play_write - play_read \in 0 .. Word - 1 /\ Word \in Nat \ {0}
    BY <1>1, RingAssumption DEF PlayInv, PlayReadBehindWrite, PlayBounded
  <1> QED BY <1>2, RemainderSmall DEF Avail

LEMMA PlayStep == DrainedRestart /\ TypeOK /\ PlayInv /\ [Next]_vars => PlayInv'
  <1> SUFFICES ASSUME DrainedRestart, TypeOK, PlayInv, [Next]_vars PROVE PlayInv' OBVIOUS
  <1> USE RingAssumption
  <1>0. /\ play_write \in Nat /\ play_read \in Nat /\ loaded \in Nat /\ rd \in Nat
        /\ avail \in Nat /\ frames \in Nat /\ written \in Nat
    BY DEF TypeOK
  <1>a. Avail(play_write, play_read) = play_write - play_read BY BacklogExact
  <1> USE DEF PlayInv, PlayReadBehindWrite, RestartQuiet, ResetSafe, FillSafe, PlayBounded,
              shmVars, callVars, daemonVars, ctlVars, rtVars, histVars
  (* The daemon. *)
  <1>1. CASE Resume BY <1>0, <1>1 DEF Resume
  <1>2. CASE ResetCap BY <1>0, <1>2 DEF ResetCap
  <1>3. CASE ResetLoadPlay BY <1>0, <1>3 DEF ResetLoadPlay
  <1>4. CASE ResetStorePlay BY <1>0, <1>4 DEF ResetStorePlay, CallLocalsReset
  <1>5. CASE CapCopy BY <1>0, <1>5 DEF CapCopy
  <1>6. CASE CapPublish BY <1>0, <1>6 DEF CapPublish, CallLocalsReset
  <1>7. CASE FillStart
    <2>1. dpc' = "fill_copy" /\ rd' = play_read /\ avail' = Avail(play_write, play_read)
      BY <1>7 DEF FillStart
    <2> QED BY <1>0, <1>a, <1>7, <2>1 DEF FillStart
  <1>8. CASE FillOverflow
    <2>1. /\ dpc' = "fill_clamp" /\ rd' = play_write - Cushion /\ avail' = Cushion
          /\ play_write - play_read > MaxLat
      BY <1>a, <1>8 DEF FillOverflow
    <2> QED BY <1>0, <1>8, <2>1 DEF FillOverflow
  <1>9. CASE FillPanic BY <1>0, <1>9 DEF FillPanic
  <1>10. CASE FillClamp BY <1>0, <1>10 DEF FillClamp
  <1>11. CASE FillCopy BY <1>0, <1>11 DEF FillCopy
  <1>12. CASE FillStore
    <2>1. Least(avail, frames) \in Nat /\ Least(avail, frames) <= avail BY <1>0, LeastFacts
    <2> QED BY <1>0, <1>12, <2>1 DEF FillStore, CallLocalsReset
  <1>13. CASE StreamEnd BY <1>0, <1>13 DEF StreamEnd
  <1>14. CASE DaemonRestart BY <1>0, <1>14 DEF DaemonRestart, CallLocalsReset
  (* coreaudiod. *)
  <1>15. CASE StartIO BY <1>0, <1>15 DEF StartIO
  <1>16. CASE StartIOMore BY <1>0, <1>16 DEF StartIOMore
  <1>17. CASE StartLoadCap BY <1>0, <1>17 DEF StartLoadCap
  <1>18. CASE StartStoreCap BY <1>0, <1>18 DEF StartStoreCap
  <1>19. CASE StartLoadPlay BY <1>0, <1>19 DEF StartLoadPlay
  <1>20. CASE StartStorePlay BY <1>0, <1>20 DEF StartStorePlay
  <1>21. CASE StopIO BY <1>0, <1>21 DEF StopIO
  <1>22. CASE ReadLoadR BY <1>0, <1>22 DEF ReadLoadR, IoActive
  <1>23. CASE ReadLoadW BY <1>0, <1>23 DEF ReadLoadW
  <1>24. CASE ReadDeliver BY <1>0, <1>24 DEF ReadDeliver
  <1>25. CASE WriteCopy BY <1>0, <1>25 DEF WriteCopy, IoActive
  <1>26. CASE WritePublish BY <1>0, <1>26 DEF WritePublish
  <1>27. CASE PluginRestart BY <1>0, <1>27 DEF PluginRestart
  <1>28. CASE UNCHANGED vars BY <1>0, <1>28 DEF vars
  <1> QED BY <1>1, <1>2, <1>3, <1>4, <1>5, <1>6, <1>7, <1>8, <1>9, <1>10, <1>11,
             <1>12, <1>13, <1>14, <1>15, <1>16, <1>17, <1>18, <1>19, <1>20,
             <1>21, <1>22, <1>23, <1>24, <1>25, <1>26, <1>27, <1>28 DEF Next,
             Daemon, DaemonWork, Plugin

(* With IO restarted only on an empty playback ring, fill's backlog never      *)
(* underflows ("avail can never underflow", main.rs:98), whichever process is  *)
(* killed and restarted in between.                                            *)
THEOREM PlaybackNeverUnderflows ==
  ASSUME DrainedRestart
  PROVE  Spec => []PlayReadBehindWrite
  <1>1. PlayInv => PlayReadBehindWrite BY DEF PlayInv
  <1> QED BY <1>1, Typing, PlayInit, PlayStep, PTL DEF Spec

-----------------------------------------------------------------------------
(* Slots.  Positions less than a ring apart are in different slots, so what is *)
(* copied in at one end leaves the positions at the other end alone.           *)

\* A remainder is known from any way of writing the number.
LEMMA RemainderOf ==
  ASSUME NEW n \in Nat \ {0}, NEW k \in Int, NEW d \in 0 .. n - 1, NEW x \in Int, x = n * k + d
  PROVE  x % n = d
  <1>1. x = n * (x \div n) + (x % n) /\ x % n \in 0 .. n - 1 /\ x \div n \in Int OBVIOUS
  <1> DEFINE e == k - (x \div n)
  <1>2. e \in Int /\ n * e = (x % n) - d BY <1>1
  <1>3. -n < n * e /\ n * e < n BY <1>1, <1>2
  <1>4. ~ (e >= 1)
    <2>1. e >= 1 => n * e >= n BY <1>2
    <2> QED BY <1>3, <2>1
  <1>5. ~ (e <= -1)
    <2>1. e <= -1 => n * e <= -n BY <1>2
    <2> QED BY <1>3, <2>1
  <1> QED BY <1>1, <1>2, <1>4, <1>5

\* The distance between two slots is that of the positions, modulo the ring.
LEMMA SlotDistance ==
  ASSUME NEW n \in Nat \ {0}, NEW a \in Int, NEW b \in Int, NEW d \in 0 .. n - 1,
         a = b + d \/ a + n = b + d
  PROVE  ((a % n) - b) % n = d
  <1> DEFINE q == a \div n
             x == (a % n) - b
  <1>1. q \in Int /\ x \in Int /\ x + n * q = a - b OBVIOUS
  <1>2. \E k \in Int : x = n * k + d
    <2>1. CASE a = b + d
      <3>1. n * (-q) = - (n * q) BY <1>1
      <3>2. x = n * (-q) + d BY <1>1, <2>1, <3>1
      <3>3. -q \in Int BY <1>1
      <3> QED BY <3>2, <3>3
    <2>2. CASE a + n = b + d
      <3>1. n * (-q - 1) = - (n * q) - n BY <1>1
      <3>2. x = n * (-q - 1) + d BY <1>1, <2>2, <3>1
      <3>3. -q - 1 \in Int BY <1>1
      <3> QED BY <3>2, <3>3
    <2> QED BY <2>1, <2>2
  <1> HIDE DEF x
  <1>3. PICK k \in Int : x = n * k + d BY <1>2
  <1>4. x \in Int BY <1>1
  <1>5. x % n = d BY <1>3, <1>4, RemainderOf
  <1> QED BY <1>5 DEF x

LEMMA SlotOf ==
  ASSUME NEW p \in Nat
  PROVE  p % RingFrames \in Slots
  BY RingAssumption, RemainderRange DEF Slots

\* The slot of a position, as a name for it.
PositionOf(slots, p) == slots[p % RingFrames]

\* n frames copied in at `from` are at the next n positions, in order ...
LEMMA FilledNew ==
  ASSUME NEW slots, NEW from \in Nat, NEW n \in 0 .. RingFrames, NEW first \in Nat,
         NEW p \in from .. from + n - 1
  PROVE  PositionOf(Filled(slots, from, n, first), p) = first + (p - from)
  <1> DEFINE d == p - from
  <1>1. RingFrames \in Nat \ {0} /\ d \in 0 .. RingFrames - 1 /\ p \in Int /\ from \in Int
    BY RingAssumption
  <1>2. p = from + d \/ p + RingFrames = from + d OBVIOUS
  <1> HIDE DEF d
  <1>3. ((p % RingFrames) - from) % RingFrames = d BY <1>1, <1>2, SlotDistance
  <1>4. p \in Nat /\ d < n /\ d = p - from BY DEF d
  <1>5. p % RingFrames \in Slots BY <1>4, SlotOf
  <1> QED BY <1>3, <1>4, <1>5 DEF PositionOf, Filled

\* ... and the RingFrames - n positions before `from` are untouched.
LEMMA FilledOld ==
  ASSUME NEW slots, NEW from \in Nat, NEW n \in 0 .. RingFrames, NEW first \in Nat,
         NEW p \in Nat, p < from, from + n - p <= RingFrames
  PROVE  PositionOf(Filled(slots, from, n, first), p) = PositionOf(slots, p)
  <1> DEFINE d == RingFrames - (from - p)
  <1>1. /\ RingFrames \in Nat \ {0} /\ d \in 0 .. RingFrames - 1
        /\ p \in Int /\ from \in Int /\ n <= d
    BY RingAssumption
  <1>0. p = from + d \/ p + RingFrames = from + d BY RingAssumption
  <1> HIDE DEF d
  <1>2. ((p % RingFrames) - from) % RingFrames = d BY <1>0, <1>1, SlotDistance
  <1>3. p % RingFrames \in Slots BY SlotOf
  <1>4. ~ (d < n) BY <1>1
  <1> QED BY <1>2, <1>3, <1>4 DEF PositionOf, Filled

\* What a batch of n frames from position `from` is.
LEMMA BatchIs ==
  ASSUME NEW B \in Seq(Nat), NEW n \in Nat, NEW hist, NEW slots, NEW from,
         B = Batch(hist, slots, from, n)
  PROVE  /\ Len(B) = n + 1 /\ B[1] = hist[Len(hist)]
         /\ \A i \in 2 .. n + 1 : B[i] = PositionOf(slots, from + i - 2)
  <1>1. n + 1 \in Nat /\ 1 \in 1 .. n + 1 /\ \A i \in 2 .. n + 1 : i \in 1 .. n + 1 /\ i # 1
    OBVIOUS
  <1>2. DOMAIN B = 1 .. n + 1 BY DEF Batch
  <1>3. Len(B) = n + 1 BY <1>1, <1>2
  <1>4. B[1] = hist[Len(hist)] BY <1>1 DEF Batch
  <1>5. \A i \in 2 .. n + 1 : B[i] = PositionOf(slots, from + i - 2)
    BY <1>1 DEF Batch, PositionOf
  <1> QED BY <1>3, <1>4, <1>5

-----------------------------------------------------------------------------
(* The capture direction as a FIFO.  What the plugin may still read are the    *)
(* positions from ReadLow up to cap_write.  Their slots hold what on_cap put   *)
(* there as long as the ring does not lap ReadLow; ReadLow never goes back;    *)
(* and what was delivered lies below it.  A frame is its position plus one.    *)
LastGot == got[Len(got)]

OneAtATime == ctl # "idle" => rt = "idle"
CapSlots   == \A p \in ReadLow .. cap_write - 1 : PositionOf(cap, p) = p + 1
CapPending ==
  dpc = "cap_pub" =>
    /\ frames >= 1
    /\ \A p \in cap_write .. cap_write + frames - 1 : PositionOf(cap, p) = p + 1

CapFifoInv == OneAtATime /\ CapSlots /\ CapPending /\ LastGot <= ReadLow

\* Where a read in progress starts, or where the next one will.
LEMMA ReadLowIs ==
  ASSUME TypeOK, OneAtATime
  PROVE  /\ ReadLow \in Nat /\ ReadLow <= cap_read
         /\ rt \in {"rd_w", "rd_copy"} => ReadLow <= r
  <1>1. r \in Nat /\ cap_read \in Nat /\ loaded \in Nat BY DEF TypeOK
  <1>2. CASE rt \in {"rd_w", "rd_copy"}
    <2>1. ReadLow = Least(r, cap_read) BY <1>2 DEF ReadLow, OneAtATime
    <2> QED BY <1>1, <1>2, <2>1 DEF Least
  <1>3. CASE rt \notin {"rd_w", "rd_copy"} /\ ctl = "cap_store"
    <2>1. ReadLow = Least(loaded, cap_read) BY <1>3 DEF ReadLow
    <2> QED BY <1>1, <1>3, <2>1 DEF Least
  <1>4. CASE rt \notin {"rd_w", "rd_copy"} /\ ctl # "cap_store"
    <2>1. ReadLow = cap_read BY <1>4 DEF ReadLow
    <2> QED BY <1>1, <1>4, <2>1
  <1> QED BY <1>2, <1>3, <1>4

LEMMA ReadLowNat == (TypeOK /\ OneAtATime => ReadLow \in Nat)'
  <1>1. TypeOK /\ OneAtATime => ReadLow \in Nat BY ReadLowIs
  <1> QED BY <1>1, PTL

\* No step gives the plugin a position it had passed; a read begun keeps its start.
LEMMA ReadLowRises ==
  ASSUME TypeOK, TypeOK', CaptureInv, OneAtATime, [Next]_vars
  PROVE  OneAtATime' /\ ReadLow' >= ReadLow
  <1>0. /\ cap_write \in Nat /\ cap_read \in Nat /\ loaded \in Nat /\ r \in Nat
        /\ cap_read <= cap_write
    BY DEF TypeOK, CaptureInv, CapReadBehindWrite
  <1> USE DEF ReadLow, Least, OneAtATime, shmVars, callVars, daemonVars, ctlVars, rtVars, histVars
  <1>1. CASE UNCHANGED <<rt, r, ctl, loaded, cap_read>> BY <1>0, <1>1
  <1>2. CASE ResetCap BY <1>0, <1>2 DEF ResetCap
  <1>3. CASE StartIO BY <1>0, <1>3 DEF StartIO
  <1>4. CASE StartLoadCap BY <1>0, <1>4 DEF StartLoadCap
  <1>5. CASE StartStoreCap BY <1>0, <1>5 DEF StartStoreCap
  <1>6. CASE StartLoadPlay BY <1>0, <1>6 DEF StartLoadPlay
  <1>7. CASE StartStorePlay BY <1>0, <1>7 DEF StartStorePlay
  <1>8. CASE ReadLoadR BY <1>0, <1>8 DEF ReadLoadR, IoActive
  <1>9. CASE ReadLoadW BY <1>0, <1>9 DEF ReadLoadW
  <1>10. CASE ReadDeliver
    <2> DEFINE consumed == Least(Avail(w, r), IoFrames)
    <2>1. consumed \in Nat
      <3>1. w \in Nat /\ r \in Nat /\ IoFrames \in Nat BY RingAssumption DEF TypeOK
      <3>2. Avail(w, r) \in Nat BY <3>1, AvailNat
      <3> QED BY <3>1, <3>2, LeastFacts
    <2>2. cap_read' = r + consumed /\ rt = "rd_copy" /\ rt' = "idle" /\ UNCHANGED <<ctl, loaded>>
      BY <1>10 DEF ReadDeliver
    <2> HIDE DEF consumed
    <2> QED BY <1>0, <2>1, <2>2
  <1>11. CASE WriteCopy BY <1>0, <1>11 DEF WriteCopy, IoActive
  <1>12. CASE WritePublish BY <1>0, <1>12 DEF WritePublish
  <1>13. CASE PluginRestart BY <1>0, <1>13 DEF PluginRestart
  <1> QED
    BY <1>1, <1>2, <1>3, <1>4, <1>5, <1>6, <1>7, <1>8, <1>9, <1>10, <1>11, <1>12, <1>13
    DEF Next, Daemon, DaemonWork, Plugin, Resume, ResetLoadPlay, ResetStorePlay, CapCopy,
        CapPublish, FillStart, FillOverflow, FillPanic, FillClamp, FillCopy, FillStore, StreamEnd,
        DaemonRestart, StartIOMore, StopIO, vars

\* Nothing is copied in, published or delivered.
LEMMA CapFifoKept ==
  ASSUME TypeOK, TypeOK', CaptureInv, CapFifoInv, [Next]_vars, UNCHANGED <<cap, cap_write, got>>,
         dpc' = "cap_pub" => dpc = "cap_pub" /\ frames' = frames
  PROVE  CapFifoInv'
  <1>1. OneAtATime' /\ ReadLow' >= ReadLow BY ReadLowRises DEF CapFifoInv
  <1>2. ReadLow \in Nat /\ ReadLow' \in Nat BY <1>1, ReadLowIs, ReadLowNat DEF CapFifoInv
  <1>3. cap_write \in Nat BY DEF TypeOK
  <1>4. CapSlots' BY <1>1, <1>2, <1>3 DEF CapFifoInv, CapSlots
  <1>5. CapPending' BY DEF CapFifoInv, CapPending
  <1>6. LastGot' = LastGot /\ LastGot \in Nat
    <2>1. got \in Seq(Nat) \ {<<>>} BY DEF TypeOK
    <2>2. Len(got) \in 1 .. Len(got) BY <2>1
    <2> QED BY <2>1, <2>2 DEF LastGot
  <1> QED BY <1>1, <1>2, <1>4, <1>5, <1>6 DEF CapFifoInv

\* on_cap copies a transfer's frames behind cap_write, clear of what may be read.
LEMMA CapFifoCopy ==
  ASSUME ReaderKeepsUp, TypeOK, TypeOK', CaptureInv, CapFifoInv, [Next]_vars, CapCopy
  PROVE  CapFifoInv'
  <1>1. PICK n \in UsbFrames :
          /\ cap_write + n - ReadLow <= RingFrames
          /\ cap' = Filled(cap, cap_write, n, cap_write + 1) /\ frames' = n
    BY DEF CapCopy
  <1>2. n \in 1 .. RingFrames /\ cap_write \in Nat /\ RingFrames \in Nat
    BY RingAssumption DEF TypeOK
  <1>3. OneAtATime' /\ ReadLow \in Nat BY ReadLowRises, ReadLowIs DEF CapFifoInv
  <1>4. UNCHANGED <<cap_write, cap_read, got, rt, r, ctl, loaded>>
    BY DEF CapCopy, ctlVars, rtVars, histVars
  <1>5. ReadLow' = ReadLow BY <1>4 DEF ReadLow
  <1>6. CapSlots'
    <2> SUFFICES ASSUME NEW p \in ReadLow .. cap_write - 1 PROVE PositionOf(cap', p) = p + 1
      BY <1>4, <1>5 DEF CapSlots
    <2>1. /\ p \in Nat /\ p < cap_write /\ cap_write + n - p <= RingFrames
          /\ n \in 0 .. RingFrames /\ cap_write + 1 \in Nat
      BY <1>1, <1>2, <1>3
    <2>2. PositionOf(cap', p) = PositionOf(cap, p) BY <1>1, <1>2, <2>1, FilledOld
    <2> QED BY <2>2 DEF CapFifoInv, CapSlots
  <1>7. CapPending'
    <2> SUFFICES ASSUME NEW p \in cap_write .. cap_write + n - 1 PROVE PositionOf(cap', p) = p + 1
      BY <1>1, <1>2, <1>4 DEF CapPending
    <2>1. n \in 0 .. RingFrames /\ cap_write + 1 \in Nat BY <1>2
    <2>2. PositionOf(cap', p) = cap_write + 1 + (p - cap_write) BY <1>1, <1>2, <2>1, FilledNew
    <2> QED BY <1>2, <2>2
  <1>8. LastGot' = LastGot BY <1>4 DEF LastGot
  <1> QED BY <1>3, <1>5, <1>6, <1>7, <1>8 DEF CapFifoInv

\* Publishing makes the copied frames readable: they are produced.
LEMMA CapFifoPublish ==
  ASSUME TypeOK, TypeOK', CaptureInv, CapFifoInv, [Next]_vars, CapPublish
  PROVE  CapFifoInv' /\ Capture!Produce
  <1>1. /\ cap_write' = cap_write + frames /\ dpc = "cap_pub" /\ dpc' = "stream"
        /\ UNCHANGED <<cap, cap_read, got, rt, r, ctl, loaded>>
    BY DEF CapPublish, ctlVars, rtVars, histVars
  <1>2. cap_write \in Nat /\ frames \in Nat /\ frames >= 1
    BY <1>1 DEF TypeOK, CapFifoInv, CapPending
  <1>3. OneAtATime' /\ ReadLow \in Nat BY ReadLowRises, ReadLowIs DEF CapFifoInv
  <1>4. ReadLow' = ReadLow BY <1>1 DEF ReadLow
  <1>5. CapSlots' BY <1>1, <1>2, <1>3, <1>4 DEF CapFifoInv, CapSlots, CapPending
  <1>6. CapPending' BY <1>1 DEF CapPending
  <1>7. LastGot' = LastGot BY <1>1 DEF LastGot
  <1>8. Capture!Produce BY <1>1, <1>2 DEF Capture!Produce
  <1> QED BY <1>3, <1>4, <1>5, <1>6, <1>7, <1>8 DEF CapFifoInv

\* ReadInput delivers positions r, r + 1, ..., all published and none delivered before.
LEMMA CapFifoDeliver ==
  ASSUME TypeOK, TypeOK', CaptureInv, CapFifoInv, [Next]_vars, ReadDeliver
  PROVE  CapFifoInv' /\ Capture!Hear
  <1> DEFINE n == Least(Avail(w, r), IoFrames)
  <1>1. /\ rt = "rd_copy" /\ rt' = "idle" /\ got' = Batch(got, cap, r, n) /\ cap_read' = r + n
        /\ UNCHANGED <<cap, cap_write, ctl, loaded, dpc, frames>>
    BY DEF ReadDeliver, ctlVars, daemonVars, callVars
  <1>2. n \in Nat
    <2>1. w \in Nat /\ r \in Nat /\ IoFrames \in Nat BY RingAssumption DEF TypeOK
    <2>2. Avail(w, r) \in Nat BY <2>1, AvailNat
    <2> QED BY <2>1, <2>2, LeastFacts
  <1>3. cap_read' <= cap_write BY DeliverStaysBehind
  <1> HIDE DEF n
  <1>4. /\ r \in Nat /\ cap_write \in Nat /\ r + n <= cap_write
        /\ cap \in [Slots -> Nat] /\ got \in Seq(Nat) \ {<<>>}
    BY <1>1, <1>2, <1>3 DEF TypeOK
  <1>5. /\ Len(got') = n + 1 /\ got'[1] = LastGot
        /\ \A i \in 2 .. n + 1 : got'[i] = PositionOf(cap, r + i - 2)
    <2>1. got' \in Seq(Nat) /\ n \in Nat BY <1>2 DEF TypeOK
    <2>2. PICK B \in Seq(Nat) : B = Batch(got, cap, r, n) /\ got' = B BY <1>1, <2>1
    <2>3. /\ Len(B) = n + 1 /\ B[1] = got[Len(got)]
          /\ \A i \in 2 .. n + 1 : B[i] = PositionOf(cap, r + i - 2)
      BY ONLY <2>1, <2>2, BatchIs
    <2> QED BY <2>2, <2>3 DEF LastGot
  <1>6. ReadLow \in Nat /\ ReadLow <= r BY <1>1, ReadLowIs DEF CapFifoInv
  <1>7. LastGot \in Nat /\ LastGot <= r
    <2>1. Len(got) \in 1 .. Len(got) BY <1>4
    <2>2. LastGot \in Nat BY <1>4, <2>1 DEF LastGot
    <2> QED BY <1>4, <1>6, <2>2 DEF CapFifoInv
  <1>8. \A i \in 2 .. n + 1 : got'[i] = r + i - 1
    <2> TAKE i \in 2 .. n + 1
    <2>1. r + i - 2 \in ReadLow .. cap_write - 1 BY <1>2, <1>4, <1>6
    <2>2. PositionOf(cap, r + i - 2) = (r + i - 2) + 1 BY <2>1 DEF CapFifoInv, CapSlots
    <2> QED BY <1>2, <1>4, <1>5, <2>2
  <1>9. Capture!Hear
    <2>1. got'[1] = got[Len(got)] BY <1>5 DEF LastGot
    <2>2. ASSUME NEW i \in 2 .. Len(got') PROVE got'[i] > got'[i - 1] /\ got'[i] <= cap_write
      <3>1. i \in 2 .. n + 1 /\ (i = 2 \/ i - 1 \in 2 .. n + 1) BY <1>2, <1>5
      <3>2. got'[i] = r + i - 1 BY <1>8, <3>1
      <3>3. CASE i = 2 BY <1>2, <1>4, <1>5, <1>7, <3>1, <3>2, <3>3
      <3>4. CASE i - 1 \in 2 .. n + 1
        <4>1. got'[i - 1] = r + (i - 1) - 1 BY <1>8, <3>4
        <4> QED BY <1>2, <1>4, <3>1, <3>2, <4>1
      <3> QED BY <3>1, <3>3, <3>4
    <2> QED BY <1>1, <2>1, <2>2 DEF Capture!Hear
  <1>10. OneAtATime' /\ ReadLow' >= ReadLow BY ReadLowRises DEF CapFifoInv
  <1>11. ReadLow' = r + n
    <2>1. ctl = "idle" BY <1>1 DEF CapFifoInv, OneAtATime
    <2> QED BY <1>1, <2>1 DEF ReadLow
  <1>12. CapSlots' BY <1>1, <1>2, <1>4, <1>6, <1>11 DEF CapFifoInv, CapSlots
  <1>13. CapPending' BY <1>1 DEF CapFifoInv, CapPending
  <1>14. LastGot' <= ReadLow'
    <2>1. CASE n = 0 BY <1>4, <1>5, <1>7, <1>11, <2>1 DEF LastGot
    <2>2. CASE n >= 1
      <3>1. got'[n + 1] = r + n BY <1>2, <1>4, <1>8, <2>2
      <3>2. LastGot' = r + n BY <1>5, <3>1 DEF LastGot
      <3> QED BY <1>2, <1>4, <1>11, <3>2
    <2> QED BY <1>2, <2>1, <2>2
  <1> QED BY <1>9, <1>10, <1>12, <1>13, <1>14 DEF CapFifoInv

LEMMA CapFifoStep ==
  ASSUME ReaderKeepsUp, TypeOK, TypeOK', CaptureInv, CapFifoInv, [Next]_vars
  PROVE  CapFifoInv' /\ [Capture!Next]_<<cap_write, got>>
  <1>1. CASE CapCopy
    <2>1. UNCHANGED <<cap_write, got>> BY <1>1 DEF CapCopy, histVars
    <2> QED BY <1>1, <2>1, CapFifoCopy
  <1>2. CASE CapPublish BY <1>2, CapFifoPublish DEF Capture!Next
  <1>3. CASE ReadDeliver BY <1>3, CapFifoDeliver DEF Capture!Next
  <1>4. CASE ~ (CapCopy \/ CapPublish \/ ReadDeliver)
    <2>1. /\ UNCHANGED <<cap, cap_write, got>>
          /\ dpc' = "cap_pub" => dpc = "cap_pub" /\ frames' = frames
      BY <1>4 DEF Next, Daemon, DaemonWork, Plugin, Resume, ResetCap, ResetLoadPlay,
         ResetStorePlay, FillStart, FillOverflow, FillPanic, FillClamp, FillCopy, FillStore,
         StreamEnd, DaemonRestart, StartIO, StartIOMore, StartLoadCap, StartStoreCap,
         StartLoadPlay, StartStorePlay, StopIO, ReadLoadR, ReadLoadW, WriteCopy, WritePublish,
         PluginRestart, vars, shmVars, callVars, daemonVars, histVars
    <2> QED BY <2>1, CapFifoKept
  <1> QED BY <1>1, <1>2, <1>3, <1>4

LEMMA CapFifoInit == Init => CapFifoInv /\ Capture!Init
  <1> SUFFICES ASSUME Init PROVE CapFifoInv /\ Capture!Init OBVIOUS
  <1>1. /\ cap_write = 0 /\ cap_read = 0 /\ ctl = "idle" /\ rt = "idle" /\ dpc = "top"
        /\ got = <<0>>
    BY DEF Init
  <1>2. ReadLow = 0 BY <1>1 DEF ReadLow
  <1>3. LastGot = 0 BY <1>1 DEF LastGot
  <1> QED
    BY <1>1, <1>2, <1>3 DEF CapFifoInv, OneAtATime, CapSlots, CapPending, Capture!Init

(* Captured frames reach the app in capture order, at most once and only after  *)
(* on_cap published them, through resets, IO restarts and crashes of either     *)
(* process, for every ring and buffer size, as long as the app reads input      *)
(* before the ring laps it.                                                     *)
THEOREM CaptureIsFifoHolds ==
  ASSUME ReaderKeepsUp
  PROVE  Spec => CaptureIsFifo
  <1>1. TypeOK /\ TypeOK' /\ CaptureInv /\ CapFifoInv /\ [Next]_vars
          => CapFifoInv' /\ [Capture!Next]_<<cap_write, got>>
    BY CapFifoStep
  <1> QED
    BY <1>1, Typing, CaptureInit, CaptureStep, CapFifoInit, PTL
    DEF Spec, CaptureIsFifo, Capture!Spec

-----------------------------------------------------------------------------
(* The playback direction as a FIFO, when IO restarts only on an empty ring.   *)
(* PlayLow is the first position fill may still take; a restarted daemon takes *)
(* none below the play_write it will find.  The app does laps here: what it    *)
(* has lapped, or is about to, fill never reads, because it drops a backlog    *)
(* over MaxLat first and is not lapped while it copies.  What remains readable *)
(* (Kept) holds frames in rising order, all newer than the last one played.    *)
Produced == IF rt = "wr_pub" THEN written - IoFrames ELSE written
LastOut  == out[Len(out)]

Filling == dpc \in {"fill_clamp", "fill_copy"}
PlayLow ==
  CASE dpc \in {"top", "rst_cap", "rst_load"}            -> play_write
    [] dpc \in {"rst_store", "fill_clamp", "fill_copy"} -> rd
    [] dpc = "fill_store"                              -> rd + Least(avail, frames)
    [] OTHER                                          -> play_read
Kept(p) == Filling \/ play_write + IoFrames <= p + RingFrames

PlaySlots ==
  \A p \in PlayLow .. play_write - 1 : Kept(p) =>
    /\ LastOut < PositionOf(play, p) /\ PositionOf(play, p) <= Produced
    /\ \A q \in PlayLow .. p - 1 : Kept(q) => PositionOf(play, q) < PositionOf(play, p)
PlayPending ==
  rt = "wr_pub" =>
    /\ \A p \in play_write .. play_write + IoFrames - 1 :
         PositionOf(play, p) = Produced + 1 + (p - play_write)
    /\ Filling => play_write + IoFrames <= rd + RingFrames

PlayFifoInv == PlaySlots /\ PlayPending /\ LastOut <= Produced

\* fill never starts above play_write.
LEMMA PlayLowIs ==
  ASSUME TypeOK, PlayInv
  PROVE  PlayLow \in Nat /\ PlayLow <= play_write
  <1>1. /\ play_write \in Nat /\ play_read \in Nat /\ rd \in Nat /\ avail \in Nat
        /\ frames \in Nat /\ play_read <= play_write
    BY DEF TypeOK, PlayInv, PlayReadBehindWrite
  <1>2. Least(avail, frames) \in Nat /\ Least(avail, frames) <= avail BY <1>1, LeastFacts
  <1>3. CASE dpc \in {"top", "rst_cap", "rst_load"} BY <1>1, <1>3 DEF PlayLow
  <1>4. CASE dpc \in {"rst_store", "fill_clamp", "fill_copy"}
    <2>1. PlayLow = rd BY <1>4 DEF PlayLow
    <2> QED BY <1>1, <1>4, <2>1 DEF PlayInv, ResetSafe, FillSafe
  <1>5. CASE dpc = "fill_store"
    <2>1. PlayLow = rd + Least(avail, frames) BY <1>5 DEF PlayLow
    <2> QED BY <1>1, <1>2, <1>5, <2>1 DEF PlayInv, FillSafe
  <1>6. CASE dpc \in {"stream", "cap_pub"}
    <2>1. PlayLow = play_read BY <1>6 DEF PlayLow
    <2> QED BY <1>1, <2>1
  <1> QED BY <1>3, <1>4, <1>5, <1>6 DEF TypeOK, DaemonPoints

LEMMA PlayLowIsNext == (TypeOK /\ PlayInv => PlayLow \in Nat /\ PlayLow <= play_write)'
  <1>1. TypeOK /\ PlayInv => PlayLow \in Nat /\ PlayLow <= play_write BY PlayLowIs
  <1> QED BY <1>1, PTL

LEMMA ProducedNat ==
  ASSUME TypeOK, PlayInv
  PROVE  Produced \in Nat /\ LastOut \in Nat
  <1>1. out \in Seq(Nat) \ {<<>>} BY DEF TypeOK
  <1>2. Len(out) \in 1 .. Len(out) BY <1>1
  <1>3. LastOut \in Nat BY <1>1, <1>2 DEF LastOut
  <1>4. Produced \in Nat BY RingAssumption DEF Produced, TypeOK, PlayInv, PlayBounded
  <1> QED BY <1>3, <1>4

\* A step that copies nothing, and after which fill may take no more than before.
LEMMA PlayFifoKept ==
  ASSUME TypeOK, TypeOK', PlayInv, PlayInv', PlayFifoInv,
         UNCHANGED <<play, play_write, out>>, Produced' >= Produced, Produced' \in Nat,
         rt' = "wr_pub" => rt = "wr_pub" /\ Produced' = Produced,
         PlayLow' >= PlayLow, Filling' => Filling /\ rd' = rd
  PROVE  PlayFifoInv'
  <1>1. /\ PlayLow \in Nat /\ PlayLow' \in Nat /\ play_write \in Nat
        /\ Produced \in Nat /\ LastOut \in Nat /\ IoFrames \in Nat /\ RingFrames \in Nat
    <2>1. play_write \in Nat BY DEF TypeOK
    <2> QED BY <2>1, PlayLowIs, PlayLowIsNext, ProducedNat, RingAssumption
  <1>2. LastOut' = LastOut BY DEF LastOut
  <1>3. PlaySlots'
    <2> SUFFICES ASSUME NEW p \in PlayLow' .. play_write - 1, Kept(p)'
                 PROVE  /\ LastOut < PositionOf(play, p) /\ PositionOf(play, p) <= Produced'
                        /\ \A q \in PlayLow' .. p - 1 :
                             Kept(q)' => PositionOf(play, q) < PositionOf(play, p)
      BY <1>2 DEF PlaySlots, PositionOf
    <2>1. p \in PlayLow .. play_write - 1 /\ Kept(p) BY <1>1 DEF Kept
    <2>2. /\ LastOut < PositionOf(play, p) /\ PositionOf(play, p) <= Produced
          /\ \A q \in PlayLow .. p - 1 : Kept(q) => PositionOf(play, q) < PositionOf(play, p)
      BY <2>1 DEF PlayFifoInv, PlaySlots
    <2>3. \A q \in PlayLow' .. p - 1 : q \in PlayLow .. p - 1 /\ (Kept(q)' => Kept(q))
      BY <1>1 DEF Kept
    <2>4. PositionOf(play, p) \in Nat
      <3>1. p \in Nat BY <1>1
      <3> QED BY <3>1, SlotOf DEF PositionOf, TypeOK
    <2> QED BY <1>1, <2>2, <2>3, <2>4
  <1>4. PlayPending' BY DEF PlayFifoInv, PlayPending, PositionOf
  <1> QED BY <1>1, <1>2, <1>3, <1>4 DEF PlayFifoInv

\* fill's backlog is read before it copies, and is within MaxLat after the clamp: what
\* it is about to copy is all kept, and stays so while it copies.
LEMMA PlayFifoFill ==
  ASSUME MaxLat + IoFrames <= RingFrames, TypeOK, TypeOK', PlayInv, PlayInv', PlayFifoInv,
         FillStart \/ FillOverflow
  PROVE  PlayFifoInv'
  <1>0. /\ play_write \in Nat /\ play_read \in Nat /\ IoFrames \in Nat
        /\ RingFrames \in Nat /\ MaxLat \in Nat /\ Cushion \in Nat /\ Cushion <= MaxLat
    BY RingAssumption DEF TypeOK
  <1>1. /\ dpc = "stream" /\ Filling' /\ UNCHANGED <<play, play_write, rt, written, out>>
    BY DEF FillStart, FillOverflow, Filling, shmVars, rtVars, histVars
  <1>2. PICK from \in Nat : rd' = from /\ from >= play_read /\ play_write <= from + MaxLat
    <2>1. Avail(play_write, play_read) = play_write - play_read BY BacklogExact
    <2>2. CASE FillStart
      <3>1. rd' = play_read /\ play_write - play_read <= MaxLat BY <2>1, <2>2 DEF FillStart
      <3> QED BY <1>0, <3>1
    <2>3. CASE FillOverflow
      <3>1. /\ rd' = play_write - Cushion /\ play_write >= Cushion
            /\ play_write - play_read > MaxLat
        BY <2>1, <2>3 DEF FillOverflow
      <3>2. /\ play_write - Cushion \in Nat /\ play_write - Cushion >= play_read
            /\ play_write <= (play_write - Cushion) + MaxLat
        BY <1>0, <3>1
      <3> QED BY <3>1, <3>2
    <2> QED BY <2>2, <2>3
  <1>3. PlayLow = play_read /\ PlayLow' = from BY <1>1, <1>2 DEF PlayLow, Filling
  <1>4. Produced' = Produced /\ LastOut' = LastOut BY <1>1 DEF Produced, LastOut
  <1>5. \A p \in from .. play_write - 1 : p \in play_read .. play_write - 1 /\ Kept(p)
    BY <1>0, <1>2 DEF Kept
  <1>6. PlaySlots'
    <2> SUFFICES ASSUME NEW p \in from .. play_write - 1
                 PROVE  /\ LastOut < PositionOf(play, p) /\ PositionOf(play, p) <= Produced
                        /\ \A q \in from .. p - 1 : PositionOf(play, q) < PositionOf(play, p)
      BY <1>1, <1>3, <1>4 DEF PlaySlots, PositionOf
    <2>1. p \in play_read .. play_write - 1 /\ Kept(p) BY <1>5
    <2>2. \A q \in from .. p - 1 : q \in play_read .. p - 1 /\ Kept(q)
      BY <1>0, <1>2, <1>5
    <2> QED BY <1>3, <2>1, <2>2 DEF PlayFifoInv, PlaySlots
  <1>7. PlayPending'
    <2>1. play_write + IoFrames <= from + RingFrames BY <1>0, <1>2
    <2> QED BY <1>1, <1>2, <1>4, <2>1 DEF PlayFifoInv, PlayPending, PositionOf
  <1> QED BY <1>4, <1>6, <1>7 DEF PlayFifoInv

\* fill copies positions rd, rd + 1, ...: newer than what was played, in rising order.
LEMMA PlayFifoCopy ==
  ASSUME TypeOK, TypeOK', PlayInv, PlayInv', PlayFifoInv, FillCopy
  PROVE  PlayFifoInv' /\ Playback!Hear
  <1> DEFINE n == Least(avail, frames)
  <1>1. /\ dpc = "fill_copy" /\ dpc' = "fill_store" /\ out' = Batch(out, play, rd, n)
        /\ UNCHANGED <<play, play_write, rt, written, rd, avail, frames>>
    BY DEF FillCopy, shmVars, callVars, rtVars
  <1>2. /\ rd \in Nat /\ play_write \in Nat /\ n \in Nat /\ n <= avail
        /\ play \in [Slots -> Nat] /\ out \in Seq(Nat) \ {<<>>} /\ avail \in Nat
    BY LeastFacts DEF TypeOK
  <1>3. rd + n <= play_write BY <1>1, <1>2 DEF PlayInv, FillSafe
  <1>4. PlayLow = rd /\ PlayLow' = rd + n BY <1>1 DEF PlayLow
  <1> HIDE DEF n
  <1>5. /\ Len(out') = n + 1 /\ out'[1] = LastOut
        /\ \A i \in 2 .. n + 1 : out'[i] = PositionOf(play, rd + i - 2)
    <2>1. out' \in Seq(Nat) /\ n \in Nat BY <1>2 DEF TypeOK
    <2>2. PICK B \in Seq(Nat) : B = Batch(out, play, rd, n) /\ out' = B BY <1>1, <2>1
    <2>3. /\ Len(B) = n + 1 /\ B[1] = out[Len(out)]
          /\ \A i \in 2 .. n + 1 : B[i] = PositionOf(play, rd + i - 2)
      BY ONLY <2>1, <2>2, BatchIs
    <2> QED BY <2>2, <2>3 DEF LastOut
  <1>6. Filling BY <1>1 DEF Filling
  <1>7. \A p \in rd .. play_write - 1 :
          /\ LastOut < PositionOf(play, p) /\ PositionOf(play, p) <= Produced
          /\ \A q \in rd .. p - 1 : PositionOf(play, q) < PositionOf(play, p)
    BY <1>4, <1>6 DEF PlayFifoInv, PlaySlots, Kept
  <1>8. Produced' = Produced /\ Produced \in Nat /\ LastOut \in Nat
    BY <1>1, ProducedNat DEF Produced
  <1>9. Playback!Hear
    <2>1. ASSUME NEW i \in 2 .. Len(out')
          PROVE  out'[i] > out'[i - 1] /\ out'[i] <= Produced
      <3> DEFINE p == rd + i - 2
      <3>1. i \in 2 .. n + 1 /\ p \in rd .. play_write - 1 BY <1>2, <1>3, <1>5
      <3>2. out'[i] = PositionOf(play, p) BY <1>5, <3>1
      <3>3. LastOut < PositionOf(play, p) /\ PositionOf(play, p) <= Produced BY <1>7, <3>1
      <3>4. CASE i = 2 BY <1>5, <3>2, <3>3, <3>4
      <3>5. CASE i # 2
        <4>1. i - 1 \in 2 .. n + 1 /\ p - 1 \in rd .. p - 1 /\ rd + (i - 1) - 2 = p - 1
          BY <1>2, <3>1, <3>5
        <4>2. out'[i - 1] = PositionOf(play, p - 1) BY <1>5, <4>1
        <4>3. PositionOf(play, p - 1) < PositionOf(play, p) BY <1>7, <3>1, <4>1
        <4> QED BY <3>2, <3>3, <4>2, <4>3
      <3> QED BY <3>4, <3>5
    <2>2. out'[1] = out[Len(out)] BY <1>5 DEF LastOut
    <2> QED BY <1>8, <2>1, <2>2 DEF Playback!Hear, Produced
  <1>10. LastOut' = IF n = 0 THEN LastOut ELSE PositionOf(play, rd + n - 1)
    <2>1. CASE n = 0 BY <1>5, <2>1 DEF LastOut
    <2>2. CASE n # 0
      <3>1. n + 1 \in 2 .. n + 1 /\ rd + (n + 1) - 2 = rd + n - 1 BY <1>2, <2>2
      <3> QED BY <1>5, <2>2, <3>1 DEF LastOut
    <2> QED BY <2>1, <2>2
  <1>11. LastOut' <= Produced
    <2>1. n # 0 => rd + n - 1 \in rd .. play_write - 1 BY <1>2, <1>3
    <2> QED BY <1>7, <1>10, <2>1 DEF PlayFifoInv
  <1>12. PlaySlots'
    <2> SUFFICES ASSUME NEW p \in rd + n .. play_write - 1
                 PROVE  /\ LastOut' < PositionOf(play, p) /\ PositionOf(play, p) <= Produced
                        /\ \A q \in rd + n .. p - 1 : PositionOf(play, q) < PositionOf(play, p)
      BY <1>1, <1>4, <1>8 DEF PlaySlots, PositionOf
    <2>1. p \in rd .. play_write - 1 /\ \A q \in rd + n .. p - 1 : q \in rd .. p - 1
      BY <1>2
    <2>2. n # 0 => rd + n - 1 \in rd .. p - 1 BY <1>2
    <2> QED BY <1>7, <1>10, <2>1, <2>2
  <1>13. PlayPending'
    <2>1. ~ Filling' BY <1>1 DEF Filling
    <2> QED BY <1>1, <1>8, <2>1 DEF PlayFifoInv, PlayPending, PositionOf
  <1> QED BY <1>8, <1>9, <1>11, <1>12, <1>13 DEF PlayFifoInv

\* WriteMix copies the app's frames behind play_write, clear of what fill may read.
LEMMA PlayFifoWrite ==
  ASSUME TypeOK, TypeOK', PlayInv, PlayInv', PlayFifoInv, WriteCopy
  PROVE  PlayFifoInv' /\ UNCHANGED <<Produced, out>>
  <1>1. /\ rt = "idle" /\ rt' = "wr_pub" /\ written' = written + IoFrames
        /\ play' = Filled(play, play_write, IoFrames, written + 1)
        /\ UNCHANGED <<play_write, play_read, dpc, rd, avail, frames, out>>
    BY DEF WriteCopy, IoActive, daemonVars, callVars
  <1>2. /\ play_write \in Nat /\ rd \in Nat /\ written \in Nat /\ written + 1 \in Nat
        /\ RingFrames \in Nat /\ IoFrames \in 0 .. RingFrames /\ IoFrames \in Nat
    BY RingAssumption DEF TypeOK
  <1>3. PlayLow' = PlayLow /\ (Filling <=> Filling') /\ LastOut' = LastOut
    BY <1>1 DEF PlayLow, Filling, LastOut
  <1>4. Produced = written /\ Produced' = written
    BY <1>1, <1>2 DEF Produced
  <1>5. Filling => play_write + IoFrames <= rd + RingFrames /\ PlayLow = rd
    <2>1. Filling => (play_write + IoFrames) - rd <= RingFrames
      BY <1>2 DEF WriteCopy, FillNotLapped, Filling
    <2> QED BY <1>2, <2>1 DEF Filling, PlayLow
  <1>6. PlayLow \in Nat BY PlayLowIs
  <1>7. ASSUME NEW p \in PlayLow .. play_write - 1, Kept(p)
        PROVE  PositionOf(play', p) = PositionOf(play, p)
    <2>1. play_write + IoFrames <= p + RingFrames BY <1>2, <1>5, <1>6, <1>7 DEF Kept
    <2>2. p \in Nat /\ p < play_write /\ play_write + IoFrames - p <= RingFrames
      BY <1>2, <1>6, <2>1
    <2> QED BY <1>1, <1>2, <2>2, FilledOld
  <1>8. PlaySlots'
    <2> SUFFICES ASSUME NEW p \in PlayLow .. play_write - 1, Kept(p)
                 PROVE  /\ LastOut < PositionOf(play', p) /\ PositionOf(play', p) <= Produced
                        /\ \A q \in PlayLow .. p - 1 :
                             Kept(q) => PositionOf(play', q) < PositionOf(play', p)
      BY <1>1, <1>3, <1>4 DEF PlaySlots, PositionOf, Kept
    <2>1. \A q \in PlayLow .. p - 1 : q \in PlayLow .. play_write - 1 BY <1>2, <1>6
    <2> QED BY <1>7, <2>1 DEF PlayFifoInv, PlaySlots
  <1>9. PlayPending'
    <2>1. ASSUME NEW p \in play_write .. play_write + IoFrames - 1
          PROVE  PositionOf(play', p) = written + 1 + (p - play_write)
      BY <1>1, <1>2, FilledNew
    <2> QED BY <1>1, <1>3, <1>4, <1>5, <2>1 DEF PlayPending, PositionOf
  <1> QED BY <1>1, <1>3, <1>4, <1>8, <1>9 DEF PlayFifoInv

\* Publishing makes them readable: newer than all fill could read before.
LEMMA PlayFifoPublish ==
  ASSUME TypeOK, TypeOK', PlayInv, PlayInv', PlayFifoInv, WritePublish
  PROVE  PlayFifoInv' /\ Playback!Produce
  <1>1. /\ rt = "wr_pub" /\ rt' = "idle" /\ play_write' = play_write + IoFrames
        /\ UNCHANGED <<play, play_read, dpc, rd, avail, frames, written, out>>
    BY DEF WritePublish, daemonVars, callVars, histVars
  <1>2. /\ play_write \in Nat /\ written \in Nat /\ RingFrames \in Nat
        /\ IoFrames \in Nat /\ IoFrames >= 1
    BY RingAssumption DEF TypeOK
  <1>3. (Filling <=> Filling') /\ LastOut' = LastOut BY <1>1 DEF Filling, LastOut
  <1>4. /\ Produced' = Produced + IoFrames /\ Produced \in Nat /\ LastOut \in Nat
        /\ LastOut <= Produced
    <2>1. Produced' = written /\ Produced = written - IoFrames BY <1>1 DEF Produced
    <2> QED BY <1>2, <2>1, ProducedNat DEF PlayFifoInv
  <1>5. PICK low \in Nat : PlayLow' = low /\ (low = PlayLow \/ low = play_write + IoFrames)
    <2>1. PlayLow' = PlayLow \/ PlayLow' = play_write + IoFrames BY <1>1 DEF PlayLow
    <2> QED BY <2>1, PlayLowIs, PlayLowIsNext
  <1>6. PlayLow \in Nat BY PlayLowIs
  <1>7. \A p \in play_write .. play_write + IoFrames - 1 :
          PositionOf(play, p) = Produced + 1 + (p - play_write)
    BY <1>1 DEF PlayFifoInv, PlayPending
  <1> DEFINE KeptNext(p) == Filling \/ (play_write + IoFrames) + IoFrames <= p + RingFrames
  <1>8. ASSUME NEW p \in low .. play_write - 1, KeptNext(p)
        PROVE  p \in PlayLow .. play_write - 1 /\ Kept(p)
    BY <1>2, <1>5, <1>6, <1>8 DEF Kept
  <1>9. PlaySlots'
    <2> SUFFICES ASSUME NEW p \in low .. (play_write + IoFrames) - 1, KeptNext(p)
                 PROVE  /\ LastOut < PositionOf(play, p)
                        /\ PositionOf(play, p) <= Produced + IoFrames
                        /\ \A q \in low .. p - 1 :
                             KeptNext(q) => PositionOf(play, q) < PositionOf(play, p)
      BY <1>1, <1>3, <1>4, <1>5 DEF PlaySlots, PositionOf, Kept
    <2> HIDE DEF KeptNext
    <2>1. CASE p < play_write
      <3>1. p \in low .. play_write - 1 BY <1>2, <1>5, <2>1
      <3>2. p \in PlayLow .. play_write - 1 /\ Kept(p) BY <1>8, <3>1
      <3>3. /\ LastOut < PositionOf(play, p) /\ PositionOf(play, p) <= Produced
            /\ \A q \in PlayLow .. p - 1 : Kept(q) => PositionOf(play, q) < PositionOf(play, p)
        BY <3>2 DEF PlayFifoInv, PlaySlots
      <3>4. ASSUME NEW q \in low .. p - 1, KeptNext(q)
            PROVE  q \in PlayLow .. p - 1 /\ Kept(q)
        <4>1. q \in low .. play_write - 1 /\ q <= p - 1 BY <1>2, <1>5, <2>1
        <4>2. q \in PlayLow .. play_write - 1 /\ Kept(q) BY <1>8, <3>4, <4>1
        <4> QED BY <1>6, <4>1, <4>2
      <3>5. p % RingFrames \in Slots BY <1>5, SlotOf
      <3>6. PositionOf(play, p) \in Nat BY <3>5 DEF PositionOf, TypeOK
      <3>7. PositionOf(play, p) <= Produced + IoFrames BY <1>2, <1>4, <3>3, <3>6
      <3> QED BY <3>3, <3>4, <3>7
    <2>2. CASE p >= play_write
      <3>1. PositionOf(play, p) = Produced + 1 + (p - play_write)
        <4>1. p \in play_write .. play_write + IoFrames - 1 BY <1>2, <1>5, <2>2
        <4> QED BY <1>7, <4>1
      <3>2. ASSUME NEW q \in low .. p - 1, KeptNext(q)
            PROVE  PositionOf(play, q) < PositionOf(play, p)
        <4>1. CASE q < play_write
          <5>1. q \in low .. play_write - 1 BY <1>2, <1>5, <4>1
          <5>2. q \in PlayLow .. play_write - 1 /\ Kept(q) BY <1>8, <3>2, <5>1
          <5>3. PositionOf(play, q) <= Produced BY <5>2 DEF PlayFifoInv, PlaySlots
          <5>4. q % RingFrames \in Slots BY <1>5, SlotOf
          <5>5. PositionOf(play, q) \in Nat BY <5>4 DEF PositionOf, TypeOK
          <5> QED BY <1>2, <1>4, <1>5, <2>2, <3>1, <5>3, <5>5
        <4>2. CASE q >= play_write
          <5>1. q \in play_write .. play_write + IoFrames - 1 BY <1>2, <1>5, <4>2
          <5>2. PositionOf(play, q) = Produced + 1 + (q - play_write) BY <1>7, <5>1
          <5> QED BY <1>2, <1>4, <1>5, <3>1, <5>2
        <4> QED BY <1>2, <1>5, <4>1, <4>2
      <3> QED BY <1>2, <1>4, <1>5, <2>2, <3>1, <3>2
    <2> QED BY <1>2, <1>5, <2>1, <2>2
  <1>10. PlayPending' BY <1>1 DEF PlayPending
  <1>11. LastOut' <= Produced'
    <2>1. LastOut <= Produced + IoFrames BY <1>2, <1>4
    <2> QED BY <1>3, <1>4, <2>1
  <1>12. Playback!Produce
    <2>1. Produced + IoFrames > Produced BY <1>2, <1>4
    <2>2. Produced' > Produced BY <1>4, <2>1
    <2> QED BY <1>1, <2>2 DEF Playback!Produce, Produced
  <1> QED BY <1>9, <1>10, <1>11, <1>12 DEF PlayFifoInv

\* Every other step copies nothing and lets fill take no more than before.
LEMMA PlayFifoQuiet ==
  ASSUME TypeOK, TypeOK', PlayInv, PlayInv', PlayFifoInv, [Next]_vars,
         ~ (FillStart \/ FillOverflow \/ FillCopy \/ WriteCopy \/ WritePublish)
  PROVE  PlayFifoInv' /\ [Playback!Produce]_<<Produced, out>>
  <1>1. /\ UNCHANGED <<play, play_write, out, written>>
        /\ Filling' => Filling /\ rd' = rd
        /\ rt' = "wr_pub" => rt = "wr_pub"
    <2> USE DEF shmVars, callVars, daemonVars, rtVars, histVars, vars, Filling
    <2>1. CASE StartStorePlay BY <2>1 DEF StartStorePlay, PlayInv, RestartQuiet
    <2>2. CASE ~ StartStorePlay
      BY <2>2 DEF Next, Daemon, DaemonWork, Plugin, Resume, ResetCap, ResetLoadPlay,
         ResetStorePlay, CapCopy, CapPublish, FillPanic, FillClamp, FillStore, StreamEnd,
         DaemonRestart, StartIO, StartIOMore, StartLoadCap, StartStoreCap, StartLoadPlay,
         StopIO, ReadLoadR, ReadLoadW, ReadDeliver, PluginRestart, CallLocalsReset
    <2> QED BY <2>1, <2>2
  <1>2. /\ play_write \in Nat /\ play_read \in Nat /\ rd \in Nat /\ play_read <= play_write
        /\ Least(avail, frames) \in Nat
    BY LeastFacts DEF TypeOK, PlayInv, PlayReadBehindWrite
  <1>3. PlayLow' >= PlayLow
    <2> USE DEF shmVars, callVars, daemonVars, rtVars, histVars, vars
    <2>0. PlayLow \in Nat /\ PlayLow <= play_write BY PlayLowIs
    <2>1. CASE dpc' \in {"top", "rst_cap", "rst_load"}
      BY <1>1, <1>2, <2>0, <2>1 DEF PlayLow
    <2>2. CASE dpc' \notin {"top", "rst_cap", "rst_load"}
          /\ UNCHANGED <<dpc, play_read, rd, avail, frames>>
      BY <1>1, <1>2, <2>0, <2>2 DEF PlayLow
    <2>3. CASE ResetLoadPlay BY <1>2, <2>0, <2>3 DEF ResetLoadPlay, PlayLow
    <2>4. CASE ResetStorePlay BY <1>2, <2>0, <2>4 DEF ResetStorePlay, PlayLow
    <2>5. CASE CapCopy BY <1>2, <2>0, <2>5 DEF CapCopy, PlayLow
    <2>6. CASE CapPublish BY <1>2, <2>0, <2>6 DEF CapPublish, PlayLow
    <2>7. CASE FillClamp BY <1>2, <2>0, <2>7 DEF FillClamp, PlayLow
    <2>8. CASE FillStore BY <1>2, <2>0, <2>8 DEF FillStore, PlayLow
    <2> QED
      BY <2>1, <2>2, <2>3, <2>4, <2>5, <2>6, <2>7, <2>8
      DEF Next, Daemon, DaemonWork, Plugin, Resume, ResetCap, FillPanic, StreamEnd,
          DaemonRestart, StartIO, StartIOMore, StartLoadCap, StartStoreCap, StartLoadPlay,
          StartStorePlay, StopIO, ReadLoadR, ReadLoadW, ReadDeliver, PluginRestart
  <1>4. /\ Produced' \in Nat /\ Produced' >= Produced
        /\ rt' = "wr_pub" => Produced' = Produced
        /\ Produced' # Produced => Produced' > Produced
    <2>1. Produced' = written \/ Produced' = Produced BY <1>1 DEF Produced
    <2>0. Produced \in Nat BY ProducedNat
    <2>2. written \in Nat /\ IoFrames \in Nat \ {0} /\ Produced \in Nat
      BY <2>0, RingAssumption DEF TypeOK
    <2>3. Produced = written \/ Produced = written - IoFrames BY DEF Produced
    <2>4. rt' = "wr_pub" => Produced' = Produced BY <1>1 DEF Produced
    <2> QED BY <2>1, <2>2, <2>3, <2>4
  <1>5. PlayFifoInv' BY <1>1, <1>3, <1>4, PlayFifoKept
  <1> QED BY <1>1, <1>4, <1>5 DEF Playback!Produce, Produced

LEMMA PlayFifoStep ==
  ASSUME MaxLat + IoFrames <= RingFrames, TypeOK, TypeOK', PlayInv, PlayInv', PlayFifoInv,
         [Next]_vars
  PROVE  PlayFifoInv' /\ [Playback!Next]_<<Produced, out>>
  <1>1. CASE FillStart \/ FillOverflow
    <2>1. UNCHANGED <<Produced, out>>
      BY <1>1 DEF FillStart, FillOverflow, rtVars, histVars, Produced
    <2> QED BY <1>1, <2>1, PlayFifoFill
  <1>2. CASE FillCopy BY <1>2, PlayFifoCopy DEF Playback!Next
  <1>3. CASE WriteCopy BY <1>3, PlayFifoWrite
  <1>4. CASE WritePublish BY <1>4, PlayFifoPublish DEF Playback!Next
  <1>5. CASE ~ (FillStart \/ FillOverflow \/ FillCopy \/ WriteCopy \/ WritePublish)
    BY <1>5, PlayFifoQuiet DEF Playback!Next
  <1> QED BY <1>1, <1>2, <1>3, <1>4, <1>5

LEMMA PlayFifoInit == Init => PlayFifoInv /\ Playback!Init
  <1> SUFFICES ASSUME Init PROVE PlayFifoInv /\ Playback!Init OBVIOUS
  <1>1. /\ play_write = 0 /\ written = 0 /\ rt = "idle" /\ dpc = "top" /\ out = <<0>>
    BY DEF Init
  <1>2. PlayLow = 0 BY <1>1 DEF PlayLow
  <1>3. LastOut = 0 /\ Produced = 0 BY <1>1 DEF LastOut, Produced
  <1> QED
    BY <1>1, <1>2, <1>3 DEF PlayFifoInv, PlaySlots, PlayPending, Playback!Init, Produced

(* The device plays the app's frames in the order written, at most once and only *)
(* after WriteMix published them, through resets, overflows and crashes of either *)
(* process, for every ring and buffer size, when IO restarts on an empty ring and *)
(* one IO buffer fits in the ring beside a full backlog (an IO buffer may then    *)
(* hold up to 32768 - 6144 frames).                                               *)
THEOREM PlaybackIsFifoHolds ==
  ASSUME DrainedRestart, MaxLat + IoFrames <= RingFrames
  PROVE  Spec => PlaybackIsFifo
  <1>1. TypeOK /\ TypeOK' /\ PlayInv /\ PlayInv' /\ PlayFifoInv /\ [Next]_vars
          => PlayFifoInv' /\ [Playback!Next]_<<Produced, out>>
    BY PlayFifoStep
  <1>2. DrainedRestart OBVIOUS
  <1> QED
    BY <1>1, <1>2, Typing, PlayInit, PlayStep, PlayFifoInit, PTL
    DEF Spec, PlaybackIsFifo, Playback!Spec, Produced
====
