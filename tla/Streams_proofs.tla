---------------------------- MODULE Streams_proofs ----------------------------
(* Proofs about the stream tasks, for any number of tasks and transfers.      *)
EXTENDS Streams, TLAPS

\* The interfaces a task has open at its control point.
HasIn(t)  == UsesIn(kind[t]) /\ pc[t] \in {"openOut", "begin", "run", "closeOut", "closeIn"}
HasOut(t) == UsesOut(kind[t]) /\ pc[t] \in {"begin", "run", "closeOut"}

\* A task uses the interface it opens or closes; no two live tasks use the same one.
PageInv ==
  /\ \A t \in Tasks : /\ (pc[t] \in {"openIn", "closeIn"} => UsesIn(kind[t]))
                      /\ (pc[t] \in {"openOut", "closeOut"} => UsesOut(kind[t]))
  /\ \A t, u \in Tasks : t # u /\ Live(t) /\ Live(u) => Ifaces(kind[t]) \cap Ifaces(kind[u]) = {}

\* What a task has open is at alternate setting 1, and unless a set_alt failed or the
\* device is gone nothing else is.
AltInv ==
  /\ \A t \in Tasks : (HasIn(t) => "in" \in alt) /\ (HasOut(t) => "out" \in alt)
  /\ ~refused /\ attached => /\ ("in" \in alt => \E t \in Tasks : HasIn(t))
                             /\ ("out" \in alt => \E t \in Tasks : HasOut(t))

-----------------------------------------------------------------------------

\* Every step is one of the page or one of a task.
LEMMA Cases ==
  ASSUME [Next]_vars
  PROVE  \/ \E t \in Tasks, k \in Kinds : Start(t, k)
         \/ \E t \in Tasks : TaskStep(t)
         \/ Stop \/ Detach \/ UNCHANGED vars
BY DEF Next, Kinds, StartCapture, StartCaptureF32, StartPlayback, StartPlaybackFd,
       StartPlaybackF32, StartDuplex, StartDuplexF32

LEMMA StartType ==
  ASSUME TypeOK, NEW t \in Tasks, NEW k \in Kinds, Start(t, k)
  PROVE  TypeOK'
BY StreamAssumption DEF TypeOK, Start, devVars

LEMMA StepType ==
  ASSUME TypeOK, NEW t \in Tasks, TaskStep(t)
  PROVE  TypeOK'
<1> USE StreamAssumption DEF TypeOK, pageVars, devVars
<1>1. CASE OpenAlt(t)  BY <1>1 DEF OpenAlt, Iface
<1>2. CASE OpenRefused(t)  BY <1>2 DEF OpenRefused
<1>3. CASE Begin(t)  BY <1>3 DEF Begin
<1>4. CASE InData(t)  BY <1>4 DEF InData, Completes, CapAsks, PushFb
<1>5. CASE InEmpty(t)  BY <1>5 DEF InEmpty, Completes
<1>6. CASE InErr(t)
  <2>1. streak' \in [Tasks -> 0 .. MaxErr]
    BY <1>6 DEF InErr, GivesUp, AfterError
  <2>2. CASE Break(t) /\ nin' = [nin EXCEPT ![t] = @ - 1]
    BY <1>6, <2>1, <2>2 DEF InErr, Completes, Break, FirstToClose
  <2>3. CASE Retry(t)
    BY <1>6, <2>1, <2>3 DEF InErr, Completes, Retry
  <2> QED  BY <1>6, <2>2, <2>3 DEF InErr
<1>7. CASE OutOk(t)  BY <1>7 DEF OutOk, Completes, Rebuild, FillAsks
<1>8. CASE OutErr(t)
  <2>1. streak' \in [Tasks -> 0 .. MaxErr]
    BY <1>8 DEF OutErr, GivesUp, AfterError
  <2>2. CASE Break(t) /\ nout' = [nout EXCEPT ![t] = @ - 1]
    BY <1>8, <2>1, <2>2 DEF OutErr, Completes, Break, FirstToClose
  <2>3. CASE Rebuild(t) /\ UNCHANGED <<pc, ok>>
    BY <1>8, <2>1, <2>3 DEF OutErr, Completes, Rebuild, FillAsks
  <2> QED  BY <1>8, <2>2, <2>3 DEF OutErr
<1>9. CASE LoopEnds(t)  BY <1>9 DEF LoopEnds, FirstToClose
<1>10. CASE CloseAlt(t)
  <2>1. alt' \subseteq {"in", "out"} /\ refused' \in BOOLEAN
    BY <1>10 DEF CloseAlt
  <2>2. nin' \in [Tasks -> 0 .. Num] /\ nout' \in [Tasks -> 0 .. Num]
    BY <1>10 DEF CloseAlt
  <2>3. pc' \in [Tasks -> {"none", "openIn", "openOut", "begin", "run",
                          "closeOut", "closeIn", "done"}]
    BY <1>10 DEF CloseAlt, AfterClose
  <2> QED  BY <1>10, <2>1, <2>2, <2>3 DEF CloseAlt
<1> QED
  BY <1>1, <1>2, <1>3, <1>4, <1>5, <1>6, <1>7, <1>8, <1>9, <1>10 DEF TaskStep

\* Every reachable state of the streams is typed (stream.rs).
THEOREM Typing == Spec => []TypeOK
<1>1. Init => TypeOK
  <2> SUFFICES ASSUME Init PROVE TypeOK
    OBVIOUS
  <2>1. 0 \in 0 .. Num /\ 0 \in 0 .. MaxErr /\ 0 \in 0 .. FbMax
    BY StreamAssumption
  <2>2. /\ nin \in [Tasks -> 0 .. Num] /\ nout \in [Tasks -> 0 .. Num]
        /\ streak \in [Tasks -> 0 .. MaxErr] /\ fb \in [Tasks -> 0 .. FbMax]
    BY <2>1 DEF Init
  <2>3. stop \in [Tasks -> BOOLEAN] /\ ok \in [Tasks -> BOOLEAN] /\ kind \in [Tasks -> Kinds]
    BY DEF Init, Kinds
  <2>4. pc \in [Tasks -> {"none", "openIn", "openOut", "begin", "run",
                         "closeOut", "closeIn", "done"}]
    BY DEF Init
  <2> QED  BY <2>2, <2>3, <2>4 DEF Init, TypeOK
<1>2. TypeOK /\ [Next]_vars => TypeOK'
  <2> SUFFICES ASSUME TypeOK, [Next]_vars PROVE TypeOK'
    OBVIOUS
  <2>1. CASE Stop  BY <2>1 DEF Stop, TypeOK, taskVars, devVars
  <2>2. CASE Detach  BY <2>2 DEF Detach, TypeOK, taskVars, pageVars
  <2>3. CASE UNCHANGED vars  BY <2>3 DEF TypeOK, vars, taskVars, pageVars, devVars
  <2> QED  BY <2>1, <2>2, <2>3, Cases, StartType, StepType
<1> QED  BY <1>1, <1>2, PTL DEF Spec

-----------------------------------------------------------------------------
(* The pools.                                                                 *)

Pools == PipelineFull /\ CleanEndDrains

LEMMA StepPools ==
  ASSUME TypeOK, Pools, NEW t \in Tasks, TaskStep(t)
  PROVE  Pools'
<1> USE StreamAssumption DEF TypeOK, Pools, PipelineFull, CleanEndDrains
<1>1. CASE OpenAlt(t)  BY <1>1 DEF OpenAlt
<1>2. CASE OpenRefused(t)  BY <1>2 DEF OpenRefused
<1>3. CASE Begin(t)
  <2>1. PICK n \in IF ~UsesOut(kind[t]) \/ stopFlag THEN {0} ELSE 0 .. Num :
          /\ nout' = [nout EXCEPT ![t] = n]
          /\ stop' = [stop EXCEPT ![t] = UsesOut(kind[t]) /\ n < Num]
    BY <1>3 DEF Begin
  <2>2. /\ pc' = [pc EXCEPT ![t] = "run"] /\ kind' = kind /\ ok' = ok
        /\ nin' = [nin EXCEPT ![t] = IF UsesIn(kind[t]) THEN Num ELSE 0]
    BY <1>3 DEF Begin
  <2>3. n \in 0 .. Num /\ (~UsesOut(kind[t]) => n = 0)
        /\ (UsesOut(kind[t]) /\ ~(n < Num) => n = Num)
    BY <2>1
  <2>4. ~stop'[t] => nout'[t] = IF UsesOut(kind[t]) THEN Num ELSE 0
    BY <2>1, <2>3
  <2>5. /\ pc'[t] = "run" /\ nin'[t] = IF UsesIn(kind[t]) THEN Num ELSE 0
        /\ \A u \in Tasks : u # t => /\ pc'[u] = pc[u] /\ stop'[u] = stop[u]
                                    /\ nin'[u] = nin[u] /\ nout'[u] = nout[u]
    BY <2>1, <2>2
  <2>6. PipelineFull'
    BY <2>2, <2>4, <2>5 DEF UsesIn, UsesOut
  <2>7. CleanEndDrains'
    BY <2>2, <2>5
  <2> QED  BY <2>6, <2>7
<1>4. CASE InData(t)  BY <1>4 DEF InData, Completes
<1>5. CASE InEmpty(t)  BY <1>5 DEF InEmpty, Completes
<1>6. CASE InErr(t)
  <2>1. CASE Break(t)
    BY <1>6, <2>1 DEF InErr, Completes, Break, FirstToClose
  <2>2. CASE Retry(t)
    BY <1>6, <2>2 DEF InErr, Completes, Retry
  <2> QED  BY <1>6, <2>1, <2>2 DEF InErr
<1>7. CASE OutOk(t)  BY <1>7 DEF OutOk, Completes, Rebuild
<1>8. CASE OutErr(t)
  <2>1. CASE Break(t)
    BY <1>8, <2>1 DEF OutErr, Completes, Break, FirstToClose
  <2>2. CASE Rebuild(t) /\ UNCHANGED <<pc, ok>>
    BY <1>8, <2>2 DEF OutErr, Completes, Rebuild
  <2> QED  BY <1>8, <2>1, <2>2 DEF OutErr
<1>9. CASE LoopEnds(t)  BY <1>9 DEF LoopEnds, FirstToClose, Drained
<1>10. CASE CloseAlt(t)  BY <1>10 DEF CloseAlt, AfterClose
<1> QED
  BY <1>1, <1>2, <1>3, <1>4, <1>5, <1>6, <1>7, <1>8, <1>9, <1>10 DEF TaskStep

LEMMA PoolsInvariant == Spec => []Pools
<1>1. Init => Pools
  BY DEF Init, Pools, PipelineFull, CleanEndDrains
<1>2. TypeOK /\ Pools /\ [Next]_vars => Pools'
  <2> SUFFICES ASSUME TypeOK, Pools, [Next]_vars PROVE Pools'
    OBVIOUS
  <2>1. ASSUME NEW t \in Tasks, NEW k \in Kinds, Start(t, k) PROVE Pools'
    BY <2>1 DEF Start, TypeOK, Pools, PipelineFull, CleanEndDrains
  <2>2. CASE UNCHANGED taskVars
    BY <2>2 DEF Pools, PipelineFull, CleanEndDrains, taskVars
  <2> QED  BY <2>1, <2>2, Cases, StepPools DEF Stop, Detach, vars
<1> QED  BY <1>1, <1>2, Typing, PTL DEF Spec

\* While a task streams, all its transfers are in flight, whatever failed before
\* (capture, playback, duplex).
THEOREM PipelineStaysFull == Spec => []PipelineFull
<1> QED  BY PoolsInvariant, PTL DEF Pools

\* A task that ends without an error has drained both its pools.
THEOREM CleanEndDrainsHolds == Spec => []CleanEndDrains
<1> QED  BY PoolsInvariant, PTL DEF Pools

-----------------------------------------------------------------------------
(* The interfaces.                                                            *)

LEMMA StartPage ==
  ASSUME TypeOK, PageInv, NEW t \in Tasks, NEW k \in Kinds, Start(t, k)
  PROVE  PageInv'
<1>1. /\ kind' = [kind EXCEPT ![t] = k]
      /\ pc' = [pc EXCEPT ![t] = IF UsesIn(k) THEN "openIn" ELSE "openOut"]
      /\ \A u \in Tasks : Live(u) => Ifaces(kind[u]) \cap Ifaces(k) = {}
  BY DEF Start
<1>2. UsesIn(k) \/ UsesOut(k)
  BY DEF UsesIn, UsesOut
<1>3. /\ kind'[t] = k /\ pc'[t] = IF UsesIn(k) THEN "openIn" ELSE "openOut"
      /\ \A u \in Tasks : u # t => pc'[u] = pc[u] /\ kind'[u] = kind[u]
  BY <1>1 DEF TypeOK
<1>4. \A u \in Tasks : /\ (pc'[u] \in {"openIn", "closeIn"} => UsesIn(kind'[u]))
                      /\ (pc'[u] \in {"openOut", "closeOut"} => UsesOut(kind'[u]))
  BY <1>2, <1>3 DEF PageInv
<1>5. ASSUME NEW u \in Tasks, NEW v \in Tasks, u # v, Live(u)', Live(v)'
      PROVE  Ifaces(kind'[u]) \cap Ifaces(kind'[v]) = {}
  <2>1. CASE u = t  BY <1>1, <1>3, <1>5, <2>1 DEF Live
  <2>2. CASE v = t  BY <1>1, <1>3, <1>5, <2>2 DEF Live
  <2>3. CASE u # t /\ v # t  BY <1>3, <1>5, <2>3 DEF PageInv, Live
  <2> QED  BY <2>1, <2>2, <2>3
<1> QED  BY <1>4, <1>5 DEF PageInv, UsesIn, UsesOut, Ifaces

LEMMA StepPage ==
  ASSUME TypeOK, PageInv, NEW t \in Tasks, TaskStep(t)
  PROVE  PageInv'
<1>1. kind' = kind /\ Live(t) /\ \A u \in Tasks : u # t => pc'[u] = pc[u]
  BY DEF TaskStep, TypeOK, Live, OpenAlt, OpenRefused, Begin, InData, InEmpty, InErr, OutOk,
         OutErr, LoopEnds, CloseAlt, Completes, Break, Retry, Rebuild
<1>2. /\ (pc'[t] \in {"openIn", "closeIn"} => UsesIn(kind[t]))
      /\ (pc'[t] \in {"openOut", "closeOut"} => UsesOut(kind[t]))
  BY DEF TaskStep, TypeOK, PageInv, OpenAlt, OpenRefused, Begin, InData, InEmpty, InErr, OutOk,
         OutErr, LoopEnds, CloseAlt, Completes, Break, Retry, Rebuild, FirstToClose,
         AfterClose, UsesIn, UsesOut
<1> QED  BY <1>1, <1>2 DEF PageInv, Live, UsesIn, UsesOut, Ifaces

LEMMA StepAlt ==
  ASSUME TypeOK, PageInv, AltInv, NEW t \in Tasks, TaskStep(t)
  PROVE  AltInv'
<1> USE DEF AltInv, HasIn, HasOut
<1>1. kind' = kind /\ attached' = attached /\ \A u \in Tasks : u # t => pc'[u] = pc[u]
  BY DEF TaskStep, TypeOK, OpenAlt, OpenRefused, Begin, InData, InEmpty, InErr, OutOk, devVars,
         OutErr, LoopEnds, CloseAlt, Completes, Break, Retry, Rebuild
<1>2. \A u \in Tasks : u # t =>
        (HasIn(u) \/ HasOut(u) => Ifaces(kind[u]) \cap Ifaces(kind[t]) = {})
  <2>1. Live(t)
    BY DEF Live, TaskStep, OpenAlt, OpenRefused, Begin, InData, InEmpty, InErr, OutOk,
           OutErr, LoopEnds, CloseAlt, Completes
  <2> QED  BY <2>1 DEF PageInv, Live
<1>3. CASE OpenAlt(t)
  <2>1. pc'[t] = IF pc[t] = "openIn" /\ UsesOut(kind[t]) THEN "openOut" ELSE "begin"
    BY <1>3 DEF OpenAlt, TypeOK
  <2>2. pc[t] \in {"openIn", "openOut"} /\ alt' = alt \cup {Iface(t)} /\ refused' = refused
    BY <1>3 DEF OpenAlt
  <2>3. /\ (pc[t] = "openIn" => UsesIn(kind[t]) /\ Iface(t) = "in")
        /\ (pc[t] = "openOut" => UsesOut(kind[t]) /\ Iface(t) = "out")
    BY <2>2 DEF PageInv, Iface
  <2> QED  BY <1>1, <2>1, <2>2, <2>3 DEF UsesIn, UsesOut
<1>4. CASE OpenRefused(t)
  BY <1>1, <1>4 DEF OpenRefused, TypeOK, UsesIn, UsesOut
<1>5. CASE UNCHANGED <<alt, refused>> /\ pc[t] \in {"begin", "run"}
             /\ pc'[t] \in {"run", FirstToClose(t)}
  BY <1>1, <1>5 DEF FirstToClose, UsesIn, UsesOut
<1>6. CASE CloseAlt(t)
  <2>1. pc[t] \in {"closeOut", "closeIn"} /\ pc'[t] = AfterClose(t)
    BY <1>6 DEF CloseAlt, TypeOK
  <2>2. /\ (pc[t] = "closeIn" => UsesIn(kind[t]) /\ Iface(t) = "in")
        /\ (pc[t] = "closeOut" => UsesOut(kind[t]) /\ Iface(t) = "out")
    BY <2>1 DEF PageInv, Iface
  <2>3. CASE alt' = alt \ {Iface(t)} /\ refused' = refused
    BY <1>1, <1>2, <2>1, <2>2, <2>3 DEF AfterClose, Ifaces, UsesIn, UsesOut
  <2>4. CASE refused' /\ alt' = alt
    BY <1>1, <2>1, <2>2, <2>4 DEF AfterClose, UsesIn, UsesOut
  <2> QED  BY <1>6, <2>3, <2>4 DEF CloseAlt
<1>7. Begin(t) \/ InData(t) \/ InEmpty(t) \/ InErr(t) \/ OutOk(t) \/ OutErr(t) \/ LoopEnds(t)
        => UNCHANGED <<alt, refused>> /\ pc[t] \in {"begin", "run"}
             /\ pc'[t] \in {"run", FirstToClose(t)}
  BY DEF TypeOK, Begin, InData, InEmpty, InErr, OutOk, OutErr, LoopEnds, Completes, Break,
         Retry, Rebuild, devVars
<1> QED  BY <1>3, <1>4, <1>5, <1>6, <1>7 DEF TaskStep

\* Streams on different interfaces never disturb each other: a running one finds its
\* interfaces open, and when all have ended none is left open unless a set_alt was
\* refused or the device is gone (wasm.rs start_*, stream.rs set_alt calls).
THEOREM AltMatchesUseHolds == Spec => []AltMatchesUse
<1>1. Init => PageInv /\ AltInv
  BY DEF Init, PageInv, AltInv, HasIn, HasOut, Live
<1>2. TypeOK /\ PageInv /\ AltInv /\ [Next]_vars => PageInv' /\ AltInv'
  <2> SUFFICES ASSUME TypeOK, PageInv, AltInv, [Next]_vars PROVE PageInv' /\ AltInv'
    OBVIOUS
  <2>1. ASSUME NEW t \in Tasks, NEW k \in Kinds, Start(t, k) PROVE PageInv' /\ AltInv'
    <3>1. PageInv'  BY <2>1, StartPage
    <3>2. /\ pc[t] = "none" /\ pc'[t] \in {"openIn", "openOut"} /\ UNCHANGED <<alt, attached, refused>>
          /\ (pc'[t] = "openOut" => ~UsesIn(kind'[t]))
          /\ \A u \in Tasks : u # t => pc'[u] = pc[u] /\ kind'[u] = kind[u]
      BY <2>1 DEF Start, TypeOK, devVars
    <3>3. AltInv'
      BY <3>2 DEF AltInv, HasIn, HasOut, UsesIn, UsesOut
    <3> QED  BY <3>1, <3>3
  <2>2. CASE Stop
    BY <2>2 DEF Stop, PageInv, AltInv, HasIn, HasOut, Live, taskVars, devVars, UsesIn, UsesOut, Ifaces
  <2>3. CASE Detach
    BY <2>3 DEF Detach, PageInv, AltInv, HasIn, HasOut, Live, taskVars, UsesIn, UsesOut, Ifaces
  <2>4. CASE UNCHANGED vars
    BY <2>4 DEF vars, PageInv, AltInv, HasIn, HasOut, Live, taskVars, devVars, UsesIn, UsesOut, Ifaces
  <2> QED  BY <2>1, <2>2, <2>3, <2>4, Cases, StepPage, StepAlt
<1>3. TypeOK /\ AltInv => AltMatchesUse
  BY DEF TypeOK, AltInv, AltMatchesUse, HasIn, HasOut, Live, Ifaces, UsesIn, UsesOut
<1> QED  BY <1>1, <1>2, <1>3, Typing, PTL DEF Spec

=============================================================================
