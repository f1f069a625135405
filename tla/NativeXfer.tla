----------------------------- MODULE NativeXfer -----------------------------
(***************************************************************************)
(* The native transport: asynchronous libusb transfers as futures.         *)
(*                                                                         *)
(* Three parties share a transfer: the task that awaits it (and may drop   *)
(* it early), libusb, which owns the transfer object and its buffer from   *)
(* submission to the end of the callback, and the event-pump thread, which *)
(* runs the callback.  The state of a transfer that both threads use       *)
(* (XferState) is behind a mutex: each critical section is one step.       *)
(***************************************************************************)
EXTENDS Integers, FiniteSets

CONSTANTS
  Plain, Iso   \* the interrupt transfers and the isochronous ones, used once each

Xfers == Plain \cup Iso

ASSUME XferAssumption == IsFiniteSet(Xfers) /\ Plain \cap Iso = {}

VARIABLES
  fut,        \* the caller's future: none, new, parked, woken, dropping, gone
  submitted,  \* Transfer.submitted
  usb,        \* libusb's side: out, flying, done (to be called back)
  incb,       \* the transfer whose callback the pump has begun
  completed, result, waker,   \* XferState
  object, buffer,             \* libusb_transfer and Transfer.buf: none, live, freed
  refs,       \* references to the XferState: Transfer.state and user_data
  sawDone,    \* drop: completed, as read under the lock
  answer,     \* what the caller was returned: none, ok, error
  running, pump, handle       \* NativeTransport; pump: run, out; handle: open, closed

memVars  == <<object, buffer, refs>>
stVars   == <<completed, result, waker>>
netVars  == <<running, pump, handle>>
vars     == <<fut, submitted, usb, incb, stVars, memVars, sawDone, answer, netVars>>

Statuses == {"ok", "error"}   \* LIBUSB_TRANSFER_COMPLETED; timed out, cancelled, ...

TypeOK ==
  /\ fut \in [Xfers -> {"none", "new", "parked", "woken", "dropping", "gone"}]
  /\ usb \in [Xfers -> {"out", "flying", "done"}]
  /\ incb \subseteq Xfers
  /\ submitted \in [Xfers -> BOOLEAN] /\ completed \in [Xfers -> BOOLEAN]
  /\ waker \in [Xfers -> BOOLEAN] /\ sawDone \in [Xfers -> {"unread", "no", "yes"}]
  /\ result \in [Xfers -> Statuses \cup {"none"}]
  /\ answer \in [Xfers -> Statuses \cup {"none"}]
  /\ object \in [Xfers -> {"none", "live", "freed"}]
  /\ buffer \in [Xfers -> {"none", "live", "freed"}]
  /\ refs \in [Xfers -> 0 .. 2]
  /\ running \in BOOLEAN /\ pump \in {"run", "out"} /\ handle \in {"open", "closed"}

Init ==
  /\ fut = [x \in Xfers |-> "none"] /\ submitted = [x \in Xfers |-> FALSE]
  /\ usb = [x \in Xfers |-> "out"] /\ incb = {}
  /\ completed = [x \in Xfers |-> FALSE] /\ result = [x \in Xfers |-> "none"]
  /\ waker = [x \in Xfers |-> FALSE]
  /\ object = [x \in Xfers |-> "none"] /\ buffer = [x \in Xfers |-> "none"]
  /\ refs = [x \in Xfers |-> 0] /\ sawDone = [x \in Xfers |-> "unread"]
  /\ answer = [x \in Xfers |-> "none"]
  /\ running = TRUE /\ pump = "run" /\ handle = "open"

-----------------------------------------------------------------------------
(* The caller's task.                                                       *)

Allocate(x) ==
  /\ fut[x] = "none" /\ running
  /\ object' = [object EXCEPT ![x] = "live"] /\ buffer' = [buffer EXCEPT ![x] = "live"]
  /\ refs' = [refs EXCEPT ![x] = 2]
  /\ UNCHANGED <<incb, stVars, sawDone, netVars>>

Submit(x) ==
  /\ Allocate(x)
  /\ submitted' = [submitted EXCEPT ![x] = TRUE]
  /\ usb' = [usb EXCEPT ![x] = "flying"]
  /\ fut' = [fut EXCEPT ![x] = "new"]
  /\ UNCHANGED answer

\* libusb refuses the transfer: it is dropped unsubmitted.
SubmitRefused(x) ==
  /\ Allocate(x)
  /\ fut' = [fut EXCEPT ![x] = "dropping"]
  /\ answer' = [answer EXCEPT ![x] = "error"]
  /\ UNCHANGED <<submitted, usb>>

\* Mutant: the waker is stored without a look at completed.
PollParks(x) ==
  /\ fut[x] \in {"new", "woken"}
  /\ fut' = [fut EXCEPT ![x] = "parked"] /\ waker' = [waker EXCEPT ![x] = TRUE]
  /\ UNCHANGED <<submitted, usb, incb, completed, result, memVars, sawDone, answer, netVars>>

\* An interrupt transfer's caller gets its status; an isochronous one's Ok always.
Answer(x) == IF x \in Iso THEN "ok" ELSE result[x]

\* XferFuture::poll, under the lock: take the result, or leave a waker.
Poll(x) ==
  /\ fut[x] \in {"new", "woken"}
  /\ IF completed[x]
     THEN /\ answer' = [answer EXCEPT ![x] = Answer(x)]
          /\ result' = [result EXCEPT ![x] = "none"]
          /\ fut' = [fut EXCEPT ![x] = "dropping"]
          /\ UNCHANGED waker
     ELSE /\ fut' = [fut EXCEPT ![x] = "parked"]
          /\ waker' = [waker EXCEPT ![x] = TRUE]
          /\ UNCHANGED <<answer, result>>
  /\ UNCHANGED <<submitted, usb, incb, completed, memVars, sawDone, netVars>>

\* The task drops the future before its transfer has answered: a stream that ends
\* on an error leaves its other transfers in flight.
Abandon(x) ==
  /\ fut[x] \in {"new", "parked", "woken"}
  /\ fut' = [fut EXCEPT ![x] = "dropping"]
  /\ UNCHANGED <<submitted, usb, incb, stVars, memVars, sawDone, answer, netVars>>

\* Transfer::drop takes the lock, reads completed ...
DropLook(x) ==
  /\ fut[x] = "dropping" /\ sawDone[x] = "unread"
  /\ sawDone' = [sawDone EXCEPT ![x] = IF completed[x] THEN "yes" ELSE "no"]
  /\ UNCHANGED <<fut, submitted, usb, incb, stVars, memVars, answer, netVars>>

\* Mutants: an abandoned transfer is reclaimed as well; a completed one is not.
ReclaimableAlways(x) == TRUE
ReclaimableUnsubmitted(x) == ~submitted[x]
Reclaimable(x) == ~submitted[x] \/ sawDone[x] = "yes"

\* Mutant: the state's own reference is dropped explicitly, and again with the struct.
ReclaimTwice(x) ==
  /\ fut[x] = "dropping" /\ sawDone[x] # "unread" /\ Reclaimable(x)
  /\ object' = [object EXCEPT ![x] = "freed"] /\ buffer' = [buffer EXCEPT ![x] = "freed"]
  /\ refs' = [refs EXCEPT ![x] = @ - 3]
  /\ fut' = [fut EXCEPT ![x] = "gone"]
  /\ UNCHANGED <<submitted, usb, incb, stVars, sawDone, answer, netVars>>

\* ... and then, without it, reclaims everything,
Reclaim(x) ==
  /\ fut[x] = "dropping" /\ sawDone[x] # "unread" /\ Reclaimable(x)
  /\ object' = [object EXCEPT ![x] = "freed"] /\ buffer' = [buffer EXCEPT ![x] = "freed"]
  /\ refs' = [refs EXCEPT ![x] = @ - 2]
  /\ fut' = [fut EXCEPT ![x] = "gone"]
  /\ UNCHANGED <<submitted, usb, incb, stVars, sawDone, answer, netVars>>

\* or cancels the transfer and leaks it, its buffer and the callback's reference.
Leak(x) ==
  /\ fut[x] = "dropping" /\ sawDone[x] # "unread" /\ ~Reclaimable(x)
  /\ refs' = [refs EXCEPT ![x] = @ - 1]
  /\ fut' = [fut EXCEPT ![x] = "gone"]
  /\ UNCHANGED <<submitted, usb, incb, stVars, object, buffer, sawDone, answer, netVars>>

-----------------------------------------------------------------------------
(* libusb and the event pump.                                               *)

\* Data, a timeout or a cancellation: the transfer waits to be called back.
Finish(x) ==
  /\ usb[x] = "flying" /\ handle = "open"
  /\ usb' = [usb EXCEPT ![x] = "done"]
  /\ UNCHANGED <<fut, submitted, incb, stVars, memVars, sawDone, answer, netVars>>

\* xfer_cb: copy the bytes out of the buffer ...
CallBack(x) ==
  /\ pump = "run" /\ incb = {} /\ usb[x] = "done"
  /\ incb' = {x}
  /\ UNCHANGED <<fut, submitted, usb, stVars, memVars, sawDone, answer, netVars>>

\* ... record the result under the lock and wake the task; libusb is done with x.
Record(x) ==
  \E s \in Statuses :
    /\ incb = {x}
    /\ result' = [result EXCEPT ![x] = s]
    /\ completed' = [completed EXCEPT ![x] = TRUE]
    /\ waker' = [waker EXCEPT ![x] = FALSE]
    /\ fut' = [fut EXCEPT ![x] = IF waker[x] /\ @ = "parked" THEN "woken" ELSE @]
    /\ incb' = {} /\ usb' = [usb EXCEPT ![x] = "out"]
    /\ UNCHANGED <<submitted, memVars, sawDone, answer, netVars>>

\* NativeTransport::drop: futures borrow the transport, so none is left.
Stop ==
  /\ running /\ \A x \in Xfers : fut[x] \in {"none", "gone"}
  /\ running' = FALSE
  /\ UNCHANGED <<fut, submitted, usb, incb, stVars, memVars, sawDone, answer, pump, handle>>

\* The pump looks at running between two rounds of events.
PumpOut ==
  /\ pump = "run" /\ ~running /\ incb = {}
  /\ pump' = "out"
  /\ UNCHANGED <<fut, submitted, usb, incb, stVars, memVars, sawDone, answer, running, handle>>

\* Mutant: the pump ends only after every leaked transfer was called back.
JoinedDrained == pump = "out" /\ \A x \in Xfers : usb[x] = "out"
Joined == pump = "out"

\* The join returns and the handle is closed; nothing is called back any more.
CloseHandle ==
  /\ ~running /\ Joined /\ handle = "open"
  /\ handle' = "closed"
  /\ UNCHANGED <<fut, submitted, usb, incb, stVars, memVars, sawDone, answer, running, pump>>

Task(x) == Poll(x) \/ DropLook(x) \/ Reclaim(x) \/ Leak(x)
Pump(x) == CallBack(x) \/ Record(x)

Next ==
  \/ \E x \in Xfers :
       \/ Submit(x) \/ SubmitRefused(x) \/ Poll(x) \/ Abandon(x)
       \/ DropLook(x) \/ Reclaim(x) \/ Leak(x)
       \/ Finish(x) \/ CallBack(x) \/ Record(x)
  \/ Stop \/ PumpOut \/ CloseHandle

Spec == Init /\ [][Next]_vars

\* The executor polls a woken task and finishes a drop; every transfer has a timeout
\* (1 s, or the caller's), so libusb finishes it; the pump and the closer run.
FairSpec ==
  /\ Spec
  /\ \A x \in Xfers : WF_vars(Task(x)) /\ WF_vars(Finish(x)) /\ WF_vars(Pump(x))
  /\ WF_vars(PumpOut) /\ WF_vars(CloseHandle)

-----------------------------------------------------------------------------
(* Properties.                                                              *)

\* Whatever libusb owns, and whatever the callback reads, still exists: the transfer
\* object, its buffer and the callback's reference to the state ("A leak is
\* memory-safe; use-after-free would not be", native.rs:69-70).
NoUseAfterFree ==
  \A x \in Xfers :
    usb[x] # "out" => object[x] = "live" /\ buffer[x] = "live" /\ refs[x] > 0

\* Nothing is freed twice, and what is leaked is leaked whole: once the future is
\* gone, everything was reclaimed, or the transfer was still in flight when it was
\* dropped and only the task's own reference was released.
ReclaimedOrLeaked ==
  \A x \in Xfers :
    fut[x] = "gone" =>
      \/ object[x] = "freed" /\ buffer[x] = "freed" /\ refs[x] = 0
      \/ object[x] = "live" /\ buffer[x] = "live" /\ refs[x] = 1 /\ answer[x] = "none"

\* A parked task is woken: no completion is lost between poll and callback.
AwaitReturns == \A x \in Xfers : fut[x] \in {"new", "parked"} ~> fut[x] = "gone"

\* Dropping the transport ends, however many leaked transfers are still in flight.
CloseReturns == ~running ~> handle = "closed"
=============================================================================
