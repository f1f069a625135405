------------------------------- MODULE IsoPool -------------------------------
(***************************************************************************)
(* AudioDevice::run: a pool of isochronous transfers per direction that    *)
(* are resubmitted inside their completion callbacks, the implicit-feedback *)
(* queue that hands the frame counts of IN transfers to OUT transfers, and *)
(* the nominal pacing used while that queue is empty.                      *)
(*                                                                         *)
(* run() and its callbacks share one thread: a callback runs only inside   *)
(* the event loop or the drain loop, and is one step.  A feedback entry is *)
(* the number of its IN transfer and its frame total; the per-packet       *)
(* counts, which OUT copies one by one, are abstracted to that total.      *)
(***************************************************************************)
EXTENDS Integers, Sequences, FiniteSets

CONSTANTS
  In, Out,     \* the transfers of each direction, NUM of them
  FbMax,       \* FB_MAX, feedback entries kept
  Pkts,        \* PKTS, packets per transfer
  MaxNf,       \* MAXNF, frames per packet
  Rate,        \* nominal rate, frames per second
  PacketRate,  \* packets per second: 8000
  Totals,      \* frame totals an IN transfer can complete with
  MaxIn        \* bound: IN transfers that complete with data

ASSUME PoolAssumption ==
  /\ IsFiniteSet(In) /\ IsFiniteSet(Out) /\ In \cap Out = {}
  /\ FbMax \in Nat /\ Pkts \in Nat \ {0} /\ MaxNf \in Nat \ {0}
  /\ Rate \in Nat /\ PacketRate \in Nat \ {0}
  /\ PacketRate <= Rate /\ Rate + PacketRate <= (MaxNf + 1) * PacketRate
  /\ Totals \subseteq 1 .. Pkts * MaxNf /\ MaxIn \in Nat

VARIABLES
  pc,                 \* run()'s control point
  running, stop, err, \* St.running, the caller's stop flag, a startup error
  pool,               \* transfers allocated and submitted at least once
  queued,             \* of those, the ones libusb owns
  inflight,           \* St.inflight
  freed,              \* transfers given to libusb_free_transfer
  fb, phase,          \* St.fb and St.phase
  length,             \* frames in each OUT transfer
  owed,               \* history: Rate * packets - PacketRate * frames, nominal
  captured, mirrored  \* history: IN transfers with data; <<last id>> \o latest

poolVars == <<pool, queued, inflight, freed>>
dataVars == <<fb, phase, length, owed, captured, mirrored>>
vars     == <<pc, running, stop, err, poolVars, dataVars>>

Xfers == In \cup Out
Entries == [id : Nat, total : Totals]

TypeOK ==
  /\ pc \in {"submit", "loop", "cancel", "drain", "done"}
  /\ running \in BOOLEAN /\ stop \in BOOLEAN /\ err \in BOOLEAN
  /\ pool \subseteq Xfers /\ queued \subseteq pool /\ freed \subseteq Xfers
  /\ inflight \in Nat
  /\ fb \in Seq(Entries) /\ Len(fb) <= FbMax
  /\ phase \in 0 .. PacketRate - 1
  /\ length \in [Out -> Nat] /\ owed \in Int
  /\ captured \in Nat /\ mirrored \in Seq(Nat) \ {<<>>}

Init ==
  /\ pc = "submit" /\ running = TRUE /\ stop = FALSE /\ err = FALSE
  /\ pool = {} /\ queued = {} /\ inflight = 0 /\ freed = {}
  /\ fb = <<>> /\ phase = 0 /\ length = [x \in Out |-> 0] /\ owed = 0
  /\ captured = 0 /\ mirrored = <<0>>

-----------------------------------------------------------------------------
(* build_out                                                                *)

\* Mutants: the phase is not carried over, or not reduced.
PhaseAfterDropped(p)   == 0
PhaseAfterUnreduced(p) == p + Rate
PhaseAfter(p) == (p + Rate) % PacketRate
Clamp(n) == IF n < 1 THEN 1 ELSE IF n > MaxNf THEN MaxNf ELSE n
PacketFrames(p) == Clamp((p + Rate) \div PacketRate)

\* The phase and the frames of a nominal transfer that starts at phase p.
Nominal(p) ==
  LET at[k \in 0 .. Pkts] == IF k = 0 THEN p ELSE PhaseAfter(at[k - 1])
      sent[k \in 0 .. Pkts] ==
        IF k = 0 THEN 0 ELSE sent[k - 1] + PacketFrames(at[k - 1])
  IN  [phase |-> at[Pkts], frames |-> sent[Pkts]]

\* Mutant: the newest feedback is mirrored first.
BuildMirroredNewest(x) ==
  /\ fb # <<>>
  /\ length' = [length EXCEPT ![x] = fb[Len(fb)].total]
  /\ mirrored' = <<mirrored[Len(mirrored)], fb[Len(fb)].id>>
  /\ fb' = SubSeq(fb, 1, Len(fb) - 1)
  /\ UNCHANGED <<phase, owed, captured>>

\* Mirror the oldest feedback ...
BuildMirrored(x) ==
  /\ fb # <<>>
  /\ length' = [length EXCEPT ![x] = Head(fb).total]
  /\ mirrored' = <<mirrored[Len(mirrored)], Head(fb).id>>
  /\ fb' = Tail(fb)
  /\ UNCHANGED <<phase, owed, captured>>

\* ... or, without any, pace at the nominal rate.
BuildNominal(x) ==
  /\ fb = <<>>
  /\ length' = [length EXCEPT ![x] = Nominal(phase).frames]
  /\ phase' = Nominal(phase).phase
  /\ owed' = owed + Rate * Pkts - PacketRate * Nominal(phase).frames
  /\ UNCHANGED <<fb, captured, mirrored>>

BuildOut(x) == BuildMirrored(x) \/ BuildNominal(x)

-----------------------------------------------------------------------------
(* run(): startup.                                                          *)

\* IN transfers are submitted first.
NextToSubmit == IF In \subseteq pool THEN Out \ pool ELSE In \ pool

Submit ==
  \E x \in NextToSubmit :
    /\ pc = "submit"
    /\ pool' = pool \cup {x} /\ queued' = queued \cup {x}
    /\ inflight' = inflight + 1
    /\ IF x \in Out THEN BuildOut(x) ELSE UNCHANGED dataVars
    /\ UNCHANGED <<pc, running, stop, err, freed>>

\* A refused submission frees that transfer and ends the startup.
SubmitRefused ==
  \E x \in NextToSubmit :
    /\ pc = "submit"
    /\ freed' = freed \cup {x} /\ err' = TRUE
    /\ IF x \in Out THEN BuildOut(x) ELSE UNCHANGED dataVars
    /\ pc' = "cancel" /\ running' = FALSE
    /\ UNCHANGED <<stop, pool, queued, inflight>>

EnterLoop ==
  /\ pc = "submit" /\ pool = Xfers
  /\ pc' = "loop"
  /\ UNCHANGED <<running, stop, err, poolVars, dataVars>>

-----------------------------------------------------------------------------
(* The completion callbacks.                                                *)

InEvents == pc \in {"loop", "drain"}

Streaming == InEvents /\ running

\* libusb owns x no longer and it is not resubmitted.
LeavePool(x) ==
  queued' = queued \ {x} /\ inflight' = inflight - 1

\* Resubmit: taken (nothing changes) or refused eight times.
Resubmit(x) ==
  UNCHANGED <<queued, inflight>> \/ LeavePool(x)

\* The queue is capped: a full one drops the newest counts.
PushFeedback(n) ==
  fb' = IF Len(fb) < FbMax THEN Append(fb, [id |-> captured', total |-> n]) ELSE fb

\* cap_cb with frames: on_cap (which may set the stop flag), queue the feedback.
CapData ==
  \E x \in queued \cap In, n \in Totals, ask \in BOOLEAN :
    /\ Streaming /\ captured < MaxIn
    /\ captured' = captured + 1
    /\ PushFeedback(n)
    /\ stop' = (stop \/ ask)
    /\ Resubmit(x)
    /\ UNCHANGED <<pc, running, err, pool, freed, phase, length, owed, mirrored>>

\* cap_cb without a frame: no on_cap, no feedback.
CapEmpty ==
  \E x \in queued \cap In :
    /\ Streaming
    /\ Resubmit(x)
    /\ UNCHANGED <<pc, running, stop, err, pool, freed, dataVars>>

\* play_cb: build the next transfer, resubmit it.
Play ==
  \E x \in queued \cap Out :
    /\ Streaming
    /\ BuildOut(x)
    /\ Resubmit(x)
    /\ UNCHANGED <<pc, running, stop, err, pool, freed>>

\* Either callback once run() is over: the transfer just leaves the pool.
Retire ==
  \E x \in queued :
    /\ InEvents /\ ~running
    /\ LeavePool(x)
    /\ UNCHANGED <<pc, running, stop, err, pool, freed, dataVars>>

-----------------------------------------------------------------------------
(* run(): the end.                                                          *)

\* Mutant: the loop waits for the pool to empty only.
LoopOverDrained == inflight = 0
LoopOver == stop \/ inflight = 0

LeaveLoop ==
  /\ pc = "loop" /\ LoopOver
  /\ running' = FALSE
  /\ pc' = "cancel"
  /\ UNCHANGED <<stop, err, poolVars, dataVars>>

\* Cancel every transfer; from here on libusb completes them.
CancelAll ==
  /\ pc = "cancel"
  /\ pc' = "drain"
  /\ UNCHANGED <<running, stop, err, poolVars, dataVars>>

\* Mutant: the pool is freed without waiting for the drain.
DrainedEarly == TRUE
Drained == inflight = 0

Free ==
  /\ pc = "drain" /\ Drained
  /\ freed' = freed \cup pool
  /\ pc' = "done"
  /\ UNCHANGED <<running, stop, err, pool, queued, inflight, dataVars>>

Next ==
  \/ Submit \/ SubmitRefused \/ EnterLoop
  \/ CapData \/ CapEmpty \/ Play \/ Retire
  \/ LeaveLoop \/ CancelAll \/ Free

Spec == Init /\ [][Next]_vars

\* The thread keeps running, and libusb reports every cancelled transfer.
FairSpec ==
  /\ Spec
  /\ WF_vars(Submit \/ SubmitRefused \/ EnterLoop \/ LeaveLoop \/ CancelAll \/ Free)
  /\ WF_vars(Retire)

-----------------------------------------------------------------------------
(* Properties.                                                              *)

\* inflight counts exactly the transfers libusb owns, so the drain loop neither
\* returns early nor hangs.
InflightCounts == inflight = Cardinality(queued)

\* No transfer is freed, and St is not dropped, while libusb may still call back
\* on it.
NoFreeInFlight == freed \cap queued = {} /\ (pc = "done" => queued = {})

\* Nominal pacing loses nothing to rounding: what is owed is the phase, less than
\* one packet period, however long the feedback stays away.
PacedExactly == owed = phase

\* OUT mirrors IN transfers in order and each at most once.
Feedback == INSTANCE LossyFifo WITH produced <- captured, heard <- mirrored
MirrorIsFifo == Feedback!Spec

\* Once run() is over, no callback touches the rings (on_cap, fill) any more.
QuietAfterStop == [][~running => UNCHANGED <<captured, length>>]_vars

\* A stop request or a startup error ends run() with everything freed.
RunReturns == (stop \/ err) ~> (pc = "done" /\ pool \subseteq freed)
==============================================================================
