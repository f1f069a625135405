-------------------------- MODULE NativeXfer_proofs --------------------------
(***************************************************************************)
(* For any set of transfers: types, NoUseAfterFree and ReclaimedOrLeaked.  *)
(* The inductive invariant says, per transfer, who still holds what: the   *)
(* future holds everything until it is dropped, libusb holds only what was *)
(* submitted and has not completed, and a drop that read completed read    *)
(* the truth.                                                              *)
(***************************************************************************)
EXTENDS NativeXfer, TLAPS

Held(x) ==
  /\ fut[x] = "none" => refs[x] = 0 /\ ~submitted[x] /\ ~completed[x] /\ answer[x] = "none"
  /\ fut[x] \in {"new", "parked", "woken"} => submitted[x] /\ answer[x] = "none"
  /\ fut[x] \in {"new", "parked", "woken", "dropping"} =>
       object[x] = "live" /\ buffer[x] = "live" /\ refs[x] = 2
  /\ fut[x] = "gone" =>
       \/ /\ object[x] = "freed" /\ buffer[x] = "freed" /\ refs[x] = 0
          /\ ~submitted[x] \/ completed[x]
       \/ object[x] = "live" /\ buffer[x] = "live" /\ refs[x] = 1 /\ answer[x] = "none"

Owned(x) ==
  /\ usb[x] # "out" => submitted[x] /\ ~completed[x]
  /\ x \in incb => usb[x] = "done"

Looked(x) ==
  /\ sawDone[x] # "unread" => fut[x] \in {"dropping", "gone"}
  /\ sawDone[x] = "yes" => completed[x]
  /\ fut[x] = "dropping" /\ answer[x] # "none" /\ submitted[x] =>
       completed[x] /\ sawDone[x] # "no"

XferInv(x) == Held(x) /\ Owned(x) /\ Looked(x)

IInv == TypeOK /\ \A x \in Xfers : XferInv(x)

\* The initial states satisfy it.
LEMMA InitIInv == Init => IInv
BY DEF Init, IInv, TypeOK, XferInv, Held, Owned, Looked

\* Types are preserved by every step.
LEMMA NextTypeOK ==
  ASSUME IInv, [Next]_vars
  PROVE  TypeOK'
<1>0. TypeOK /\ \A x \in Xfers : fut[x] = "dropping" => refs[x] = 2
  BY DEF IInv, XferInv, Held
<1> USE <1>0 DEF TypeOK
<1>1. ASSUME NEW x \in Xfers, Submit(x) PROVE TypeOK'
  BY <1>1 DEF Submit, Allocate, memVars, stVars, netVars
<1>2. ASSUME NEW x \in Xfers, SubmitRefused(x) PROVE TypeOK'
  BY <1>2 DEF SubmitRefused, Allocate, Statuses, memVars, stVars, netVars
<1>3. ASSUME NEW x \in Xfers, Poll(x) PROVE TypeOK'
  <2>1. CASE completed[x]
    <3>1. Answer(x) \in Statuses \cup {"none"}
      BY DEF Answer, Statuses
    <3> QED
      BY <1>3, <2>1, <3>1 DEF Poll, memVars, stVars, netVars
  <2>2. CASE ~completed[x]
    <3>1. /\ fut' = [fut EXCEPT ![x] = "parked"] /\ waker' = [waker EXCEPT ![x] = TRUE]
          /\ UNCHANGED <<usb, incb, submitted, completed, sawDone, result, answer, object,
                         buffer, refs, running, pump, handle>>
      BY <1>3, <2>2 DEF Poll, memVars, stVars, netVars
    <3>2. fut' \in [Xfers -> {"none", "new", "parked", "woken", "dropping", "gone"}]
          /\ waker' \in [Xfers -> BOOLEAN]
      BY <3>1
    <3> QED
      BY <3>1, <3>2
  <2> QED
    BY <2>1, <2>2
<1>4. ASSUME NEW x \in Xfers, Abandon(x) PROVE TypeOK'
  BY <1>4 DEF Abandon, memVars, stVars, netVars
<1>5. ASSUME NEW x \in Xfers, DropLook(x) PROVE TypeOK'
  BY <1>5 DEF DropLook, memVars, stVars, netVars
<1>6. ASSUME NEW x \in Xfers, Reclaim(x) PROVE TypeOK'
  BY <1>6 DEF Reclaim, memVars, stVars, netVars
<1>7. ASSUME NEW x \in Xfers, Leak(x) PROVE TypeOK'
  BY <1>7 DEF Leak, memVars, stVars, netVars
<1>8. ASSUME NEW x \in Xfers, Finish(x) PROVE TypeOK'
  BY <1>8 DEF Finish, memVars, stVars, netVars
<1>9. ASSUME NEW x \in Xfers, CallBack(x) PROVE TypeOK'
  BY <1>9 DEF CallBack, memVars, stVars, netVars
<1>10. ASSUME NEW x \in Xfers, Record(x) PROVE TypeOK'
  BY <1>10 DEF Record, Statuses, memVars, stVars, netVars
<1>11. CASE Stop
  BY <1>11 DEF Stop, memVars, stVars, netVars
<1>12. CASE PumpOut
  BY <1>12 DEF PumpOut, memVars, stVars, netVars
<1>13. CASE CloseHandle
  BY <1>13 DEF CloseHandle, Joined, memVars, stVars, netVars
<1>14. CASE UNCHANGED vars
  BY <1>14 DEF vars, memVars, stVars, netVars
<1> QED
  BY <1>1, <1>2, <1>3, <1>4, <1>5, <1>6, <1>7, <1>8, <1>9, <1>10, <1>11, <1>12, <1>13, <1>14 DEF Next

\* A step of one transfer keeps the invariant of every transfer.
LEMMA NextXferInv ==
  ASSUME IInv, [Next]_vars, NEW y \in Xfers
  PROVE  XferInv(y)'
<1> USE DEF IInv, XferInv, Held, Owned, Looked
<1>0. TypeOK /\ XferInv(y)
  OBVIOUS
<1>1. ASSUME NEW x \in Xfers, Submit(x) PROVE XferInv(y)'
  BY <1>0, <1>1 DEF TypeOK, Submit, Allocate, memVars, stVars, netVars
<1>2. ASSUME NEW x \in Xfers, SubmitRefused(x) PROVE XferInv(y)'
  BY <1>0, <1>2 DEF TypeOK, SubmitRefused, Allocate, memVars, stVars, netVars
<1>3. ASSUME NEW x \in Xfers, Poll(x) PROVE XferInv(y)'
  BY <1>0, <1>3 DEF TypeOK, Poll, Answer, Statuses, memVars, stVars, netVars
<1>4. ASSUME NEW x \in Xfers, Abandon(x) PROVE XferInv(y)'
  BY <1>0, <1>4 DEF TypeOK, Abandon, memVars, stVars, netVars
<1>5. ASSUME NEW x \in Xfers, DropLook(x) PROVE XferInv(y)'
  BY <1>0, <1>5 DEF TypeOK, DropLook, memVars, stVars, netVars
<1>6. ASSUME NEW x \in Xfers, Reclaim(x) PROVE XferInv(y)'
  BY <1>0, <1>6 DEF TypeOK, Reclaim, Reclaimable, memVars, stVars, netVars
<1>7. ASSUME NEW x \in Xfers, Leak(x) PROVE XferInv(y)'
  BY <1>0, <1>7 DEF TypeOK, Leak, Reclaimable, memVars, stVars, netVars
<1>8. ASSUME NEW x \in Xfers, Finish(x) PROVE XferInv(y)'
  BY <1>0, <1>8 DEF TypeOK, Finish, memVars, stVars, netVars
<1>9. ASSUME NEW x \in Xfers, CallBack(x) PROVE XferInv(y)'
  BY <1>0, <1>9 DEF TypeOK, CallBack, memVars, stVars, netVars
<1>10. ASSUME NEW x \in Xfers, Record(x) PROVE XferInv(y)'
  BY <1>0, <1>10 DEF TypeOK, Record, Statuses, memVars, stVars, netVars
<1>11. CASE Stop
  BY <1>0, <1>11 DEF TypeOK, Stop, memVars, stVars, netVars
<1>12. CASE PumpOut
  BY <1>0, <1>12 DEF TypeOK, PumpOut, memVars, stVars, netVars
<1>13. CASE CloseHandle
  BY <1>0, <1>13 DEF TypeOK, CloseHandle, Joined, memVars, stVars, netVars
<1>14. CASE UNCHANGED vars
  BY <1>0, <1>14 DEF vars, memVars, stVars, netVars
<1> QED
  BY <1>1, <1>2, <1>3, <1>4, <1>5, <1>6, <1>7, <1>8, <1>9, <1>10, <1>11, <1>12, <1>13, <1>14 DEF Next

\* Every step keeps it ...
LEMMA Inductive == IInv /\ [Next]_vars => IInv'
BY NextTypeOK, NextXferInv DEF IInv

\* ... so every reachable state satisfies it.
LEMMA Invariant == Spec => []IInv
BY InitIInv, Inductive, PTL DEF Spec

\* Every reachable state is typed: in particular no reference is dropped twice.
THEOREM Typing == Spec => []TypeOK
<1>1. IInv => TypeOK
  BY DEF IInv
<1> QED
  BY Invariant, <1>1, PTL

\* Whatever libusb owns still exists, however the drop of a future and the
\* completion of its transfer interleave (native.rs:58-76, 98-135).
THEOREM NothingUsedAfterFree == Spec => []NoUseAfterFree
<1>1. IInv => NoUseAfterFree
  <2>1. SUFFICES ASSUME IInv, NEW x \in Xfers, usb[x] # "out"
                 PROVE  object[x] = "live" /\ buffer[x] = "live" /\ refs[x] > 0
    BY DEF NoUseAfterFree
  <2>2. submitted[x] /\ ~completed[x]
    BY <2>1 DEF IInv, XferInv, Owned
  <2>3. fut[x] # "none"
    BY <2>1, <2>2 DEF IInv, XferInv, Held
  <2> QED
    BY <2>1, <2>2, <2>3 DEF IInv, TypeOK, XferInv, Held
<1> QED
  BY Invariant, <1>1, PTL

\* Once a future is gone its transfer is reclaimed whole or, if it never answered,
\* leaked whole.
THEOREM ReclaimedOrLeakedHolds == Spec => []ReclaimedOrLeaked
<1>1. IInv => ReclaimedOrLeaked
  BY DEF IInv, XferInv, Held, ReclaimedOrLeaked
<1> QED
  BY Invariant, <1>1, PTL
=============================================================================
