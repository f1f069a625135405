--------------------------- MODULE IsoPool_proofs ---------------------------
(***************************************************************************)
(* Proofs about IsoPool: the pool of transfers is accounted for exactly,   *)
(* nothing libusb owns is ever freed, the feedback queue is a lossy FIFO,  *)
(* and nominal pacing is exact, for any number of transfers and rate and   *)
(* whatever submissions and resubmissions fail.                            *)
(***************************************************************************)
EXTENDS IsoPool, FiniteSetTheorems, WellFoundedInduction, TLAPS

(* The inductive invariant.  inflight and the sets of transfers move together *)
(* only in the right phases of run(): while it submits nothing has been freed, *)
(* a refused transfer never entered the pool, and the pool itself is freed in  *)
(* the last step, which the drain loop guards by inflight = 0.                 *)
PoolInv ==
  /\ pc \in {"submit", "loop", "cancel", "drain", "done"}
  /\ running \in BOOLEAN
  /\ pool \subseteq Xfers /\ queued \subseteq pool
  /\ inflight = Cardinality(queued)
  /\ pc = "submit" => running /\ freed = {}
  /\ pc # "done" => freed \cap pool = {}
  /\ pc = "done" => queued = {}

\* Adding or removing one transfer changes the count by one.
LEMMA QueuedCount ==
  ASSUME NEW Q, Q \subseteq Xfers, NEW x \in Xfers
  PROVE  /\ IsFiniteSet(Q) /\ Cardinality(Q) \in Nat
         /\ Cardinality(Q) = 0 <=> Q = {}
         /\ x \notin Q => Cardinality(Q \cup {x}) = Cardinality(Q) + 1
         /\ x \in Q => Cardinality(Q \ {x}) = Cardinality(Q) - 1
<1>1. IsFiniteSet(Xfers) BY PoolAssumption, FS_Union DEF Xfers
<1>2. IsFiniteSet(Q) BY <1>1, FS_Subset
<1>3. Cardinality(Q) \in Nat BY <1>2, FS_CardinalityType
<1>4. Cardinality(Q) = 0 <=> Q = {} BY <1>2, FS_EmptySet
<1>5. x \notin Q => Cardinality(Q \cup {x}) = Cardinality(Q) + 1 BY <1>2, FS_AddElement
<1>6. x \in Q => Cardinality(Q \ {x}) = Cardinality(Q) - 1 BY <1>2, FS_RemoveElement
<1> QED BY <1>2, <1>3, <1>4, <1>5, <1>6

\* A transfer that leaves the pool is counted out.
LEMMA LeaveKeepsCount ==
  ASSUME PoolInv, NEW x \in queued, LeavePool(x)
  PROVE  queued' \subseteq queued /\ inflight' = Cardinality(queued')
<1>1. queued \subseteq Xfers /\ x \in Xfers BY DEF PoolInv
<1>2. Cardinality(queued \ {x}) = Cardinality(queued) - 1 BY <1>1, QueuedCount
<1> QED BY <1>2 DEF LeavePool, PoolInv

\* A resubmission leaves the count right whether libusb takes it or not.
LEMMA ResubmitKeepsCount ==
  ASSUME PoolInv, NEW x \in queued, Resubmit(x)
  PROVE  queued' \subseteq queued /\ inflight' = Cardinality(queued')
<1>1. CASE UNCHANGED <<queued, inflight>> BY <1>1 DEF PoolInv
<1>2. CASE LeavePool(x) BY <1>2, LeaveKeepsCount
<1> QED BY <1>1, <1>2 DEF Resubmit

LEMMA PoolInit == Init => PoolInv
<1>1. Cardinality({}) = 0 BY FS_EmptySet
<1> QED BY <1>1 DEF Init, PoolInv

LEMMA PoolStep == PoolInv /\ [Next]_vars => PoolInv'
<1> SUFFICES ASSUME PoolInv, [Next]_vars PROVE PoolInv' OBVIOUS
<1>1. CASE Submit
  <2>1. PICK x \in NextToSubmit :
          /\ pc = "submit"
          /\ pool' = pool \cup {x} /\ queued' = queued \cup {x}
          /\ inflight' = inflight + 1
          /\ UNCHANGED <<pc, running, freed>>
    BY <1>1 DEF Submit
  <2>2. x \in Xfers /\ x \notin pool BY DEF NextToSubmit, Xfers
  <2>3. queued \subseteq Xfers /\ x \notin queued BY <2>2 DEF PoolInv
  <2>4. inflight' = Cardinality(queued') BY <2>1, <2>2, <2>3, QueuedCount DEF PoolInv
  <2> QED BY <2>1, <2>2, <2>4 DEF PoolInv
<1>2. CASE SubmitRefused
  <2>1. PICK x \in NextToSubmit :
          /\ pc = "submit"
          /\ freed' = freed \cup {x}
          /\ pc' = "cancel" /\ running' = FALSE
          /\ UNCHANGED <<pool, queued, inflight>>
    BY <1>2 DEF SubmitRefused
  <2>2. x \notin pool BY DEF NextToSubmit
  <2> QED BY <2>1, <2>2 DEF PoolInv
<1>3. CASE EnterLoop BY <1>3 DEF EnterLoop, PoolInv, poolVars
<1>4. CASE CapData
  <2>1. PICK x \in queued \cap In :
          Resubmit(x) /\ Streaming /\ UNCHANGED <<pc, running, pool, freed>>
    BY <1>4 DEF CapData
  <2>2. queued' \subseteq queued /\ inflight' = Cardinality(queued')
    BY <2>1, ResubmitKeepsCount
  <2> QED BY <2>1, <2>2 DEF PoolInv
<1>5. CASE CapEmpty
  <2>1. PICK x \in queued \cap In :
          Resubmit(x) /\ Streaming /\ UNCHANGED <<pc, running, pool, freed>>
    BY <1>5 DEF CapEmpty
  <2>2. queued' \subseteq queued /\ inflight' = Cardinality(queued')
    BY <2>1, ResubmitKeepsCount
  <2> QED BY <2>1, <2>2 DEF PoolInv
<1>6. CASE Play
  <2>1. PICK x \in queued \cap Out :
          Resubmit(x) /\ Streaming /\ UNCHANGED <<pc, running, pool, freed>>
    BY <1>6 DEF Play
  <2>2. queued' \subseteq queued /\ inflight' = Cardinality(queued')
    BY <2>1, ResubmitKeepsCount
  <2> QED BY <2>1, <2>2 DEF PoolInv
<1>7. CASE Retire
  <2>1. PICK x \in queued : LeavePool(x) /\ UNCHANGED <<pc, running, pool, freed>>
    BY <1>7 DEF Retire
  <2>2. queued' \subseteq queued /\ inflight' = Cardinality(queued')
    BY <2>1, LeaveKeepsCount
  <2> QED BY <2>1, <2>2 DEF PoolInv
<1>8. CASE LeaveLoop BY <1>8 DEF LeaveLoop, PoolInv, poolVars
<1>9. CASE CancelAll BY <1>9 DEF CancelAll, PoolInv, poolVars
<1>10. CASE Free
  <2>1. queued = {}
    <3>1. queued \subseteq Xfers BY DEF PoolInv
    <3>2. IsFiniteSet(queued) BY <3>1, PoolAssumption, FS_Union, FS_Subset DEF Xfers
    <3>3. Cardinality(queued) = 0 BY <1>10 DEF Free, Drained, PoolInv
    <3> QED BY <3>2, <3>3, FS_EmptySet
  <2> QED BY <1>10, <2>1 DEF Free, PoolInv
<1>11. CASE UNCHANGED vars BY <1>11 DEF vars, poolVars, PoolInv
<1> QED BY <1>1, <1>2, <1>3, <1>4, <1>5, <1>6, <1>7, <1>8, <1>9, <1>10, <1>11 DEF Next

-----------------------------------------------------------------------------
(* run() counts exactly the transfers libusb owns, so its drain loop neither    *)
(* ends early nor waits for a transfer that is not coming.                      *)
THEOREM PoolAccounted == Spec => []InflightCounts
<1>1. PoolInv => InflightCounts BY DEF PoolInv, InflightCounts
<1> QED BY <1>1, PoolInit, PoolStep, PTL DEF Spec

(* No transfer is freed, and the callbacks' state is not dropped, while libusb  *)
(* may still call back, for any pool and any failures of startup or resubmission. *)
THEOREM NothingFreedInFlight == Spec => []NoFreeInFlight
<1>1. PoolInv => NoFreeInFlight BY DEF PoolInv, NoFreeInFlight
<1> QED BY <1>1, PoolInit, PoolStep, PTL DEF Spec

(* Once run() has decided to end, no callback captures or builds a transfer:    *)
(* the daemon's closures, which live on the caller's stack, are quiet.          *)
THEOREM QuietAfterStopHolds == Spec => QuietAfterStop
<1>1. ASSUME PoolInv, [Next]_vars
      PROVE  [~running => UNCHANGED <<captured, length>>]_vars
  <2> SUFFICES ASSUME Next, ~running PROVE UNCHANGED <<captured, length>>
    BY <1>1
  <2>1. pc # "submit" BY <1>1 DEF PoolInv
  <2>2. ~Submit /\ ~SubmitRefused BY <2>1 DEF Submit, SubmitRefused
  <2>3. ~CapData /\ ~CapEmpty /\ ~Play BY DEF CapData, CapEmpty, Play, Streaming
  <2>4. EnterLoop \/ Retire \/ LeaveLoop \/ CancelAll \/ Free BY <2>2, <2>3 DEF Next
  <2> QED BY <2>4 DEF EnterLoop, Retire, LeaveLoop, CancelAll, Free, dataVars
<1> QED BY <1>1, PoolInit, PoolStep, PTL DEF Spec, QuietAfterStop

-----------------------------------------------------------------------------
(* The feedback queue.                                                        *)

LastMirrored == mirrored[Len(mirrored)]

\* What waits in the queue is numbered in rising order, above all that was mirrored and
\* no higher than the transfers captured; so the head is always new.
FeedbackInv ==
  /\ captured \in Nat
  /\ fb \in Seq(Entries)
  /\ mirrored \in {<<0>>} \cup (Nat \X Nat)
  /\ LastMirrored \in 0 .. captured
  /\ \A i \in 1 .. Len(fb) : fb[i].id > LastMirrored /\ fb[i].id <= captured
  /\ \A i, j \in 1 .. Len(fb) : i < j => fb[i].id < fb[j].id

LEMMA EntryIds ==
  ASSUME NEW s \in Seq(Entries)
  PROVE  Len(s) \in Nat /\ \A i \in 1 .. Len(s) : s[i].id \in Nat
<1>1. Len(s) \in Nat /\ \A i \in 1 .. Len(s) : s[i] \in Entries
  OBVIOUS
<1>2. \A e \in Entries : e.id \in Nat
  BY DEF Entries
<1> QED  BY <1>1, <1>2

LEMMA PushKeepsOrder ==
  ASSUME FeedbackInv, NEW n \in Totals, captured' = captured + 1, PushFeedback(n),
         mirrored' = mirrored
  PROVE  FeedbackInv'
<1>1. LastMirrored' = LastMirrored /\ captured' \in Nat
  BY DEF LastMirrored, FeedbackInv
<1>2. CASE Len(fb) < FbMax
  <2> DEFINE e == [id |-> captured', total |-> n]
  <2>1. fb' = Append(fb, e) /\ e \in Entries /\ e.id = captured + 1
    BY <1>1, <1>2 DEF PushFeedback, Entries
  <2> HIDE DEF e
  <2>2. /\ fb' \in Seq(Entries) /\ Len(fb') = Len(fb) + 1
        /\ fb'[Len(fb) + 1] = e /\ \A i \in 1 .. Len(fb) : fb'[i] = fb[i]
    BY <2>1 DEF FeedbackInv
  <2>3. Len(fb) \in Nat /\ \A i \in 1 .. Len(fb) : fb[i].id \in Nat
    BY EntryIds DEF FeedbackInv
  <2>4. \A i \in 1 .. Len(fb') : i \in 1 .. Len(fb) \/ i = Len(fb) + 1
    BY <2>2, <2>3
  <2>5. \A i \in 1 .. Len(fb') : fb'[i].id > LastMirrored' /\ fb'[i].id <= captured'
    <3>1. \A i \in 1 .. Len(fb) : fb[i].id > LastMirrored /\ fb[i].id <= captured
      BY DEF FeedbackInv
    <3>2. captured \in Nat /\ LastMirrored \in Nat /\ LastMirrored <= captured
      BY DEF FeedbackInv
    <3> QED  BY <1>1, <2>1, <2>2, <2>3, <2>4, <3>1, <3>2
  <2>6. ASSUME NEW i \in 1 .. Len(fb'), NEW j \in 1 .. Len(fb'), i < j
        PROVE  fb'[i].id < fb'[j].id
    <3>1. i \in 1 .. Len(fb)
      BY <2>2, <2>3, <2>6
    <3>2. CASE j \in 1 .. Len(fb)
      BY <2>2, <2>6, <3>1, <3>2 DEF FeedbackInv
    <3>3. CASE j = Len(fb) + 1
      BY <2>1, <2>2, <2>3, <3>1, <3>3 DEF FeedbackInv
    <3> QED  BY <2>4, <3>2, <3>3
  <2> QED  BY <1>1, <2>2, <2>5, <2>6 DEF FeedbackInv
<1>3. CASE ~(Len(fb) < FbMax)
  <2>1. fb' = fb
    BY <1>3 DEF PushFeedback
  <2>2. \A i \in 1 .. Len(fb) : fb[i].id \in Nat
    BY EntryIds DEF FeedbackInv
  <2> QED  BY <1>1, <2>1, <2>2 DEF FeedbackInv
<1> QED  BY <1>2, <1>3

LEMMA BuildHears ==
  ASSUME FeedbackInv, NEW x \in Out, BuildOut(x)
  PROVE  FeedbackInv' /\ [Feedback!Next]_<<captured, mirrored>>
<1>1. CASE BuildMirrored(x)
  <2>1. /\ fb # <<>> /\ fb' = Tail(fb) /\ captured' = captured
        /\ mirrored' = <<LastMirrored, fb[1].id>>
    BY <1>1 DEF BuildMirrored, FeedbackInv, LastMirrored
  <2>2. /\ Len(fb) \in Nat /\ Len(fb) >= 1 /\ fb[1].id \in Nat
        /\ fb' \in Seq(Entries) /\ fb' = Tail(fb)
        /\ Len(fb') = Len(fb) - 1 /\ \A i \in 1 .. Len(fb') : fb'[i] = fb[i + 1]
    <3>1. fb \in Seq(Entries)
      BY DEF FeedbackInv
    <3>2. Len(fb) \in Nat /\ Len(fb) >= 1 /\ fb[1].id \in Nat
      BY <2>1, <3>1, EntryIds
    <3> QED  BY <2>1, <3>1, <3>2
  <2>3. LastMirrored' = fb[1].id /\ LastMirrored \in Nat
    BY <2>1 DEF LastMirrored, FeedbackInv
  <2>4. mirrored' \in Nat \X Nat
    BY <2>1, <2>2, <2>3
  <2>5. \A i \in 1 .. Len(fb') : i + 1 \in 1 .. Len(fb) /\ 1 < i + 1
    BY <2>2
  <2>6. FeedbackInv'
    BY <2>1, <2>2, <2>3, <2>4, <2>5 DEF FeedbackInv
  <2>7. Feedback!Hear
    <3>1. fb[1].id > LastMirrored /\ fb[1].id <= captured
      BY <2>2 DEF FeedbackInv
    <3>2. Len(mirrored') = 2 /\ mirrored'[1] = LastMirrored /\ mirrored'[2] = fb[1].id
      BY <2>1
    <3> QED  BY <2>1, <3>1, <3>2 DEF Feedback!Hear, LastMirrored
  <2> QED  BY <2>6, <2>7 DEF Feedback!Next
<1>2. CASE BuildNominal(x)
  BY <1>2 DEF BuildNominal, FeedbackInv, LastMirrored
<1> QED  BY <1>1, <1>2 DEF BuildOut

LEMMA FeedbackStep ==
  FeedbackInv /\ [Next]_vars => FeedbackInv' /\ [Feedback!Next]_<<captured, mirrored>>
<1> SUFFICES ASSUME FeedbackInv, [Next]_vars
             PROVE  FeedbackInv' /\ [Feedback!Next]_<<captured, mirrored>>
  OBVIOUS
<1>1. ASSUME NEW x \in Out, BuildOut(x)
      PROVE  FeedbackInv' /\ [Feedback!Next]_<<captured, mirrored>>
  BY <1>1, BuildHears
<1>2. CASE UNCHANGED <<fb, captured, mirrored>>
  BY <1>2 DEF FeedbackInv, LastMirrored
<1>3. CASE CapData
  <2>1. PICK n \in Totals : captured' = captured + 1 /\ PushFeedback(n) /\ mirrored' = mirrored
    BY <1>3 DEF CapData
  <2>2. FeedbackInv'
    BY <2>1, PushKeepsOrder
  <2>3. Feedback!Produce
    BY <2>1 DEF Feedback!Produce, FeedbackInv
  <2> QED  BY <2>2, <2>3 DEF Feedback!Next
<1>4. CASE Submit \/ SubmitRefused
  <2>1. (\E x \in Out : BuildOut(x)) \/ UNCHANGED dataVars
    BY <1>4 DEF Submit, SubmitRefused
  <2> QED  BY <1>1, <1>2, <2>1 DEF dataVars
<1>5. CASE Play
  BY <1>1, <1>5 DEF Play
<1> QED
  BY <1>2, <1>3, <1>4, <1>5 DEF Next, EnterLoop, CapEmpty, Retire, LeaveLoop, CancelAll, Free,
     dataVars, vars

\* OUT mirrors IN transfers in order and each at most once, whatever is dropped from a
\* full queue (cap_cb, build_out).
THEOREM MirrorIsFifoHolds == Spec => MirrorIsFifo
<1>1. Init => FeedbackInv /\ Feedback!Init
  BY DEF Init, FeedbackInv, LastMirrored, Feedback!Init
<1>2. FeedbackInv /\ [Next]_vars => FeedbackInv' /\ [Feedback!Next]_<<captured, mirrored>>
  BY FeedbackStep
<1> QED  BY <1>1, <1>2, PTL DEF Spec, MirrorIsFifo, Feedback!Spec

-----------------------------------------------------------------------------
(* Nominal pacing.  A nominal transfer is a recursion over its packets, which *)
(* the next lemmas close: after k packets from phase p, (p + k * Rate) \div    *)
(* PacketRate frames were sent and the remainder is the phase.                *)

\* Induction over an interval, as a fact about sets.
LEMMA IntervalInduction ==
  ASSUME NEW n \in Nat, NEW S, 0 \in S, \A k \in 0 .. n - 1 : k \in S => k + 1 \in S
  PROVE  \A k \in 0 .. n : k \in S
<1> DEFINE R == {ss \in Nat \X Nat : ss[1] < ss[2]}
           T == (0 .. n) \ S
<1>1. IsWellFoundedOn(R, Nat)
  BY NatLessThanWellFounded DEF OpToRel
<1>2. CASE T # {}
  <2>1. T \subseteq Nat
    OBVIOUS
  <2>2. PICK x \in T : \A y \in T : ~ (<<y, x>> \in R)
    <3> HIDE DEF R, T
    <3> QED  BY <1>1, <1>2, <2>1, WFMin
  <2>3. x \in 1 .. n /\ x - 1 \in 0 .. n - 1
    BY <2>2
  <2>4. x - 1 \in T
    BY <2>2, <2>3
  <2>5. <<x - 1, x>> \in R
    BY <2>3
  <2> QED  BY <2>2, <2>4, <2>5
<1> QED  BY <1>2

\* Quotient and remainder of a natural number, and that they are the only ones.
LEMMA DivMod ==
  ASSUME NEW x \in Nat, NEW n \in Nat \ {0}
  PROVE  /\ x \div n \in Nat /\ (x % n) \in 0 .. n - 1
         /\ x = n * (x \div n) + (x % n)
OBVIOUS

LEMMA DivModUnique ==
  ASSUME NEW n \in Nat \ {0}, NEW x \in Nat, NEW q \in Int, NEW r \in 0 .. n - 1,
         x = n * q + r
  PROVE  x \div n = q /\ (x % n) = r
<1> DEFINE d == q - (x \div n)
<1>1. x \div n \in Nat /\ (x % n) \in 0 .. n - 1 /\ x = n * (x \div n) + (x % n)
  BY DivMod
<1>2. d \in Int /\ n * d = (x % n) - r
  BY <1>1
<1>3. -n < n * d /\ n * d < n
  BY <1>1, <1>2
<1>4. ~ (d >= 1)
  <2>1. d >= 1 => n * d >= n
    BY <1>2
  <2> QED  BY <1>3, <2>1
<1>5. ~ (d <= -1)
  <2>1. d <= -1 => n * d <= -n
    BY <1>2
  <2> QED  BY <1>3, <2>1
<1> QED  BY <1>1, <1>2, <1>4, <1>5

\* One packet from a phase in range: the clamp never bites, and nothing is lost.
LEMMA PacketExact ==
  ASSUME NEW p \in 0 .. PacketRate - 1
  PROVE  /\ PacketFrames(p) = (p + Rate) \div PacketRate
         /\ PacketFrames(p) \in Nat /\ PhaseAfter(p) \in 0 .. PacketRate - 1
         /\ p + Rate = PacketRate * PacketFrames(p) + PhaseAfter(p)
<1> DEFINE q == (p + Rate) \div PacketRate
<1>1. Rate \in Nat /\ PacketRate \in Nat \ {0} /\ MaxNf \in Nat /\ p + Rate \in Nat
  BY PoolAssumption
<1>2. q \in Nat /\ PhaseAfter(p) \in 0 .. PacketRate - 1
      /\ p + Rate = PacketRate * q + PhaseAfter(p)
  BY <1>1, DivMod DEF PhaseAfter
<1>3. PacketRate <= PacketRate * q + PhaseAfter(p)
  BY <1>1, <1>2, PoolAssumption
<1>4. PacketRate * q < (MaxNf + 1) * PacketRate
  BY <1>1, <1>2, PoolAssumption
<1> HIDE DEF q
<1>5. q >= 1
  <2>1. q = 0 => PacketRate * q = 0
    BY <1>1
  <2> QED  BY <1>1, <1>2, <1>3, <2>1
<1>6. q <= MaxNf
  <2>1. q >= MaxNf + 1 => PacketRate * q >= PacketRate * (MaxNf + 1)
    BY <1>1, <1>2
  <2> QED  BY <1>1, <1>2, <1>4, <2>1
<1>7. PacketFrames(p) = q
  <2>1. Clamp(q) = q
    BY <1>1, <1>2, <1>5, <1>6 DEF Clamp
  <2> QED  BY <2>1 DEF PacketFrames, q
<1> QED  BY <1>2, <1>7 DEF q

\* k packets are (p + k * Rate) \div PacketRate frames, whatever k.
LEMMA PacketsExact ==
  ASSUME NEW p \in 0 .. PacketRate - 1, NEW k \in Nat
  PROVE  LET n == (p + k * Rate) \div PacketRate
             r == (p + k * Rate) % PacketRate
         IN  /\ n \in Nat /\ r \in 0 .. PacketRate - 1
             /\ p + k * Rate = PacketRate * n + r
             /\ (p + (k + 1) * Rate) \div PacketRate = n + PacketFrames(r)
             /\ (p + (k + 1) * Rate) % PacketRate = PhaseAfter(r)
<1> DEFINE n == (p + k * Rate) \div PacketRate
           r == (p + k * Rate) % PacketRate
           x == p + (k + 1) * Rate
<1>1. /\ Rate \in Nat /\ PacketRate \in Nat \ {0}
      /\ k * Rate \in Nat /\ p + k * Rate \in Nat
      /\ x \in Nat /\ x = (p + k * Rate) + Rate
  BY PoolAssumption
<1>2. n \in Nat /\ r \in 0 .. PacketRate - 1 /\ p + k * Rate = PacketRate * n + r
  BY <1>1, DivMod
<1> HIDE DEF n, r, x
<1>3. /\ PacketFrames(r) \in Nat /\ PhaseAfter(r) \in 0 .. PacketRate - 1
      /\ r + Rate = PacketRate * PacketFrames(r) + PhaseAfter(r)
  BY <1>2, PacketExact
<1>4. x = PacketRate * (n + PacketFrames(r)) + PhaseAfter(r)
  <2>1. \A a, b \in Nat : PacketRate * (a + b) = PacketRate * a + PacketRate * b
    BY <1>1
  <2>2. PacketRate * (n + PacketFrames(r)) = PacketRate * n + PacketRate * PacketFrames(r)
    BY <1>2, <1>3, <2>1
  <2>3. PacketRate * n \in Nat /\ PacketRate * PacketFrames(r) \in Nat
    BY <1>1, <1>2, <1>3
  <2> QED  BY <1>1, <1>2, <1>3, <2>2, <2>3
<1>5. x \div PacketRate = n + PacketFrames(r) /\ (x % PacketRate) = PhaseAfter(r)
  <2> DEFINE q == n + PacketFrames(r)
             s == PhaseAfter(r)
  <2>1. q \in Int /\ s \in 0 .. PacketRate - 1 /\ x = PacketRate * q + s
    BY <1>2, <1>3, <1>4
  <2> HIDE DEF q, s
  <2>2. x \div PacketRate = q /\ (x % PacketRate) = s
    BY <1>1, <2>1, DivModUnique
  <2> QED  BY <2>2 DEF q, s
<1> QED  BY <1>2, <1>5 DEF n, r, x

\* A nominal transfer carries the integer part of Pkts packet periods and leaves the
\* remainder as the phase of the next one (build_out's accumulator).
THEOREM NominalExact ==
  ASSUME NEW p \in 0 .. PacketRate - 1
  PROVE  /\ Nominal(p).frames = (p + Pkts * Rate) \div PacketRate
         /\ Nominal(p).phase = (p + Pkts * Rate) % PacketRate
<1> DEFINE at[k \in 0 .. Pkts] == IF k = 0 THEN p ELSE PhaseAfter(at[k - 1])
           sent[k \in 0 .. Pkts] ==
             IF k = 0 THEN 0 ELSE sent[k - 1] + PacketFrames(at[k - 1])
           P(k) == (p + k * Rate) % PacketRate
           F(k) == (p + k * Rate) \div PacketRate
<1>1. Nominal(p) = [phase |-> at[Pkts], frames |-> sent[Pkts]]
  BY DEF Nominal
<1>2. Pkts \in Nat /\ PacketRate \in Nat \ {0} /\ Rate \in Nat
  BY PoolAssumption
<1>3. P(0) = p /\ F(0) = 0
  <2>1. p + 0 * Rate = p /\ p = PacketRate * 0 + p /\ p \in Nat
    BY <1>2
  <2> QED  BY <1>2, <2>1, DivModUnique
<1>4. ASSUME NEW k \in Nat
      PROVE  P(k + 1) = PhaseAfter(P(k)) /\ F(k + 1) = F(k) + PacketFrames(P(k))
  BY PacketsExact
<1> HIDE DEF P, F
<1>5. \A k \in 1 .. Pkts : P(k) = PhaseAfter(P(k - 1)) /\ F(k) = F(k - 1) + PacketFrames(P(k - 1))
  <2> TAKE k \in 1 .. Pkts
  <2>1. k - 1 \in Nat /\ k = (k - 1) + 1
    BY <1>2
  <2> QED  BY <1>4, <2>1
<1>6. at = [k \in 0 .. Pkts |-> IF k = 0 THEN p ELSE PhaseAfter(at[k - 1])]
  <2> DEFINE f == [k \in 0 .. Pkts |-> P(k)]
  <2>1. f = [k \in 0 .. Pkts |-> IF k = 0 THEN p ELSE PhaseAfter(f[k - 1])]
    BY <1>2, <1>3, <1>5
  <2> HIDE DEF f
  <2> QED  BY <2>1
<1> HIDE DEF at
<1>7. \A k \in 0 .. Pkts : at[k] = P(k)
  <2> DEFINE S == {k \in 0 .. Pkts : at[k] = P(k)}
  <2>1. 0 \in S
    BY <1>2, <1>3, <1>6
  <2>2. \A k \in 0 .. Pkts - 1 : k \in S => k + 1 \in S
    BY <1>2, <1>5, <1>6
  <2> HIDE DEF S
  <2>3. \A k \in 0 .. Pkts : k \in S
    BY <1>2, <2>1, <2>2, IntervalInduction
  <2> QED  BY <2>3 DEF S
<1>8. sent = [k \in 0 .. Pkts |-> IF k = 0 THEN 0 ELSE sent[k - 1] + PacketFrames(at[k - 1])]
  <2> DEFINE f == [k \in 0 .. Pkts |-> F(k)]
  <2>1. f = [k \in 0 .. Pkts |-> IF k = 0 THEN 0 ELSE f[k - 1] + PacketFrames(at[k - 1])]
    BY <1>2, <1>3, <1>5, <1>7
  <2> HIDE DEF f
  <2> QED  BY <2>1
<1> HIDE DEF sent
<1>9. \A k \in 0 .. Pkts : sent[k] = F(k)
  <2> DEFINE S == {k \in 0 .. Pkts : sent[k] = F(k)}
  <2>1. 0 \in S
    BY <1>2, <1>3, <1>8
  <2>2. \A k \in 0 .. Pkts - 1 : k \in S => k + 1 \in S
    BY <1>2, <1>5, <1>7, <1>8
  <2> HIDE DEF S
  <2>3. \A k \in 0 .. Pkts : k \in S
    BY <1>2, <2>1, <2>2, IntervalInduction
  <2> QED  BY <2>3 DEF S
<1>10. at[Pkts] = P(Pkts) /\ sent[Pkts] = F(Pkts)
  BY <1>2, <1>7, <1>9
<1> QED  BY <1>1, <1>10 DEF P, F

\* What a nominal transfer adds to the account: rates times time in, frames out.
LEMMA NominalOwes ==
  ASSUME NEW p \in 0 .. PacketRate - 1
  PROVE  /\ Nominal(p).phase \in 0 .. PacketRate - 1 /\ Nominal(p).frames \in Nat
         /\ p + Rate * Pkts - PacketRate * Nominal(p).frames = Nominal(p).phase
<1> DEFINE x == p + Pkts * Rate
<1>1. x \in Nat /\ PacketRate \in Nat \ {0} /\ x = p + Rate * Pkts
  BY PoolAssumption
<1>2. Nominal(p).frames = x \div PacketRate /\ Nominal(p).phase = (x % PacketRate)
  BY NominalExact
<1> HIDE DEF x
<1>3. /\ x \div PacketRate \in Nat /\ (x % PacketRate) \in 0 .. PacketRate - 1
      /\ x = PacketRate * (x \div PacketRate) + (x % PacketRate)
  BY <1>1, DivMod
<1>4. x = PacketRate * Nominal(p).frames + Nominal(p).phase
      /\ Nominal(p).frames \in Nat /\ Nominal(p).phase \in 0 .. PacketRate - 1
  BY <1>2, <1>3
<1>5. PacketRate * Nominal(p).frames \in Nat /\ Rate * Pkts \in Nat
  BY <1>4, PoolAssumption
<1> DEFINE y == PacketRate * Nominal(p).frames
           z == Rate * Pkts
           r == Nominal(p).phase
<1>6. y \in Nat /\ z \in Nat /\ r \in Nat /\ p + z = y + r
  BY <1>1, <1>4, <1>5
<1>7. p + z - y = r
  <2> HIDE DEF y, z, r
  <2> QED  BY <1>6
<1> QED  BY <1>4, <1>7

\* The inductive invariant: the account and the types of the data it rests on.
DataInv ==
  /\ stop \in BOOLEAN /\ err \in BOOLEAN
  /\ freed \subseteq Xfers
  /\ Len(fb) <= FbMax
  /\ phase \in 0 .. PacketRate - 1 /\ owed \in Int /\ PacedExactly
  /\ length \in [Out -> Nat]

LEMMA BuildKeepsData ==
  ASSUME FeedbackInv, DataInv, NEW x \in Out, BuildOut(x)
  PROVE  /\ Len(fb') <= FbMax /\ length' \in [Out -> Nat]
         /\ phase' \in 0 .. PacketRate - 1 /\ owed' \in Int /\ PacedExactly'
<1>1. CASE BuildMirrored(x)
  <2>1. fb \in Seq(Entries) /\ fb # <<>> /\ fb' = Tail(fb)
        /\ length' = [length EXCEPT ![x] = Head(fb).total] /\ UNCHANGED <<phase, owed>>
    BY <1>1 DEF BuildMirrored, FeedbackInv
  <2>2. Len(fb) \in Nat /\ Len(fb') = Len(fb) - 1 /\ Head(fb) \in Entries
    BY <2>1
  <2>3. Head(fb).total \in Nat
    <3>1. \A n \in Totals : n \in Nat
      BY PoolAssumption
    <3> QED  BY <2>2, <3>1 DEF Entries
  <2>4. FbMax \in Nat
    BY PoolAssumption
  <2> QED  BY <2>1, <2>2, <2>3, <2>4 DEF DataInv, PacedExactly
<1>2. CASE BuildNominal(x)
  <2>1. /\ length' = [length EXCEPT ![x] = Nominal(phase).frames]
        /\ phase' = Nominal(phase).phase /\ fb' = fb
        /\ owed' = owed + Rate * Pkts - PacketRate * Nominal(phase).frames
    BY <1>2 DEF BuildNominal
  <2>2. phase \in 0 .. PacketRate - 1 /\ owed = phase
    BY DEF DataInv, PacedExactly
  <2>3. /\ Nominal(phase).phase \in 0 .. PacketRate - 1 /\ Nominal(phase).frames \in Nat
        /\ phase + Rate * Pkts - PacketRate * Nominal(phase).frames = Nominal(phase).phase
    BY <2>2, NominalOwes
  <2>4. owed' = phase' /\ owed' \in Int
    BY <2>1, <2>2, <2>3, PoolAssumption
  <2> QED  BY <2>1, <2>3, <2>4 DEF DataInv, PacedExactly
<1> QED  BY <1>1, <1>2 DEF BuildOut

LEMMA DataStep == PoolInv /\ FeedbackInv /\ DataInv /\ [Next]_vars => DataInv'
<1> SUFFICES ASSUME PoolInv, FeedbackInv, DataInv, [Next]_vars PROVE DataInv'
  OBVIOUS
<1>1. ASSUME NEW x \in Out, BuildOut(x), UNCHANGED <<stop, err>>, freed' \subseteq Xfers
      PROVE  DataInv'
  BY <1>1, BuildKeepsData DEF DataInv
<1>2. ASSUME UNCHANGED dataVars, stop' \in BOOLEAN, err' \in BOOLEAN, freed' \subseteq Xfers
      PROVE  DataInv'
  BY <1>2 DEF DataInv, PacedExactly, dataVars
<1>3. stop \in BOOLEAN /\ err \in BOOLEAN /\ freed \subseteq Xfers /\ pool \subseteq Xfers
  BY DEF DataInv, PoolInv
<1>4. CASE Submit
  BY <1>1, <1>2, <1>3, <1>4 DEF Submit
<1>5. CASE SubmitRefused
  <2>1. PICK x \in NextToSubmit :
          /\ freed' = freed \cup {x} /\ err' = TRUE /\ stop' = stop
          /\ IF x \in Out THEN BuildOut(x) ELSE UNCHANGED dataVars
    BY <1>5 DEF SubmitRefused
  <2>2. freed' \subseteq Xfers
    BY <1>3, <2>1 DEF NextToSubmit, Xfers
  <2>3. CASE x \in Out
    BY <1>3, <2>1, <2>2, <2>3, BuildKeepsData DEF DataInv
  <2>4. CASE x \notin Out
    BY <1>2, <1>3, <2>1, <2>2, <2>4
  <2> QED  BY <2>3, <2>4
<1>6. CASE CapData
  <2>1. PICK n \in Totals, ask \in BOOLEAN :
          /\ PushFeedback(n) /\ stop' = (stop \/ ask)
          /\ UNCHANGED <<err, freed, phase, length, owed>>
    BY <1>6 DEF CapData
  <2>2. Len(fb') <= FbMax
    <3>1. fb \in Seq(Entries) /\ FbMax \in Nat /\ Len(fb) <= FbMax
      BY PoolAssumption DEF FeedbackInv, DataInv
    <3> QED  BY <2>1, <3>1 DEF PushFeedback
  <2> QED  BY <1>3, <2>1, <2>2 DEF DataInv, PacedExactly
<1>7. CASE Play
  BY <1>1, <1>3, <1>7 DEF Play
<1>8. CASE Free
  BY <1>2, <1>3, <1>8 DEF Free
<1> QED
  BY <1>2, <1>3, <1>4, <1>5, <1>6, <1>7, <1>8 DEF Next, EnterLoop, CapEmpty, Retire, LeaveLoop,
     CancelAll, dataVars, poolVars, vars

LEMMA DataInit == Init => DataInv
<1> SUFFICES ASSUME Init PROVE DataInv
  OBVIOUS
<1>1. 0 \in 0 .. PacketRate - 1 /\ FbMax \in Nat
  BY PoolAssumption
<1>2. Len(fb) = 0 /\ length \in [Out -> Nat]
  BY DEF Init
<1>3. stop \in BOOLEAN /\ err \in BOOLEAN /\ freed \subseteq Xfers
  BY DEF Init
<1>4. phase = 0 /\ owed = 0
  BY DEF Init
<1> QED  BY <1>1, <1>2, <1>3, <1>4 DEF DataInv, PacedExactly

LEMMA IsoInductive ==
  Spec => [](PoolInv /\ FeedbackInv /\ DataInv)
<1>1. Init => FeedbackInv
  BY DEF Init, FeedbackInv, LastMirrored
<1> QED  BY <1>1, PoolInit, PoolStep, FeedbackStep, DataInit, DataStep, PTL DEF Spec

\* Every variable keeps its type: in particular the queue never outgrows FB_MAX and the
\* phase stays a remainder.
THEOREM Typing == Spec => []TypeOK
<1>1. PoolInv /\ FeedbackInv /\ DataInv => TypeOK
  <2> SUFFICES ASSUME PoolInv, FeedbackInv, DataInv PROVE TypeOK
    OBVIOUS
  <2>1. inflight \in Nat
    <3>1. queued \subseteq Xfers /\ inflight = Cardinality(queued)
      BY DEF PoolInv
    <3>2. IsFiniteSet(queued)
      BY <3>1, PoolAssumption, FS_Union, FS_Subset DEF Xfers
    <3> QED  BY <3>1, <3>2, FS_CardinalityType
  <2>2. mirrored \in Seq(Nat) \ {<<>>}
    <3>1. CASE mirrored = <<0>>
      BY <3>1
    <3>2. CASE mirrored \in Nat \X Nat
      <4>1. PICK a \in Nat, b \in Nat : mirrored = <<a, b>>
        BY <3>2
      <4> QED  BY <4>1
    <3> QED  BY <3>1, <3>2 DEF FeedbackInv
  <2> QED  BY <2>1, <2>2 DEF TypeOK, PoolInv, FeedbackInv, DataInv
<1> QED  BY <1>1, IsoInductive, PTL

\* Nominal pacing loses nothing to rounding, for any rate, packet rate and packets per
\* transfer, however long the feedback stays away (build_out).
THEOREM PacedExactlyHolds == Spec => []PacedExactly
<1>1. DataInv => PacedExactly
  BY DEF DataInv
<1> QED  BY <1>1, IsoInductive, PTL
====
