---------------------- MODULE CoordinateProducer_proofs ----------------------
(***************************************************************************)
(* Safety of the producer for any length of execution and any width of the *)
(* counter.                                                                *)
(***************************************************************************)
EXTENDS CoordinateProducer, TLAPS

\* The shared state lags the generator by the coordinate that the handler holds.
InStep ==
  IF producer_pc = "update"
  THEN latest_.fix + 1 = ticks /\ Successor(latest_.sequence) = sequence_
  ELSE latest_.fix = ticks /\ latest_.sequence = sequence_

\* There is one wait at a time: none is pending while the thread is out of the loop
\* with a wait still to arm.
OneWait == producer_pc \in {"start", "schedule", "arm", "generate", "update"} => timer_ = "idle"

\* Before the first stop() the flag says that the thread has begun, and nobody but
\* the deadline ends a wait.
Undisturbed ==
  producer_stop = "idle" =>
    /\ running_ <=> producer_pc # "start"
    /\ ~io_stopped
    /\ timer_ # "aborted"

StoppedForGood == producer_stop = "returned" => io_stopped

IInv == TypeOK /\ InStep /\ OneWait /\ Undisturbed /\ StoppedForGood /\ ChainUnbroken
-----------------------------------------------------------------------------
(* The invariant holds at first ...                                        *)
LEMMA InitIInv == Init => IInv
<1> SUFFICES ASSUME Init
             PROVE  IInv
  OBVIOUS
<1> USE DEF Init, SharedStateInit, ProducerInit
<1>1. NoCoordinate \in CoordinateData /\ 0 \in Sequence
  BY SharedStateAssumption DEF NoCoordinate, CoordinateData, Sequence
<1>2. TypeOK
  BY <1>1 DEF TypeOK
<1>3. InStep /\ OneWait /\ Undisturbed /\ StoppedForGood /\ ChainUnbroken
  BY DEF InStep, OneWait, Undisturbed, StoppedForGood, ChainUnbroken, NoCoordinate
<1> QED
  BY <1>2, <1>3 DEF IInv

(* ... and every step preserves it.                                        *)
LEMMA NextIInv == IInv /\ [Next]_vars => IInv'
<1> SUFFICES ASSUME IInv, [Next]_vars
             PROVE  IInv'
  OBVIOUS
<1> USE SharedStateAssumption
        DEF IInv, Goto, TypeOK, InStep, OneWait, Undisturbed, StoppedForGood, ChainUnbroken
<1>1. CASE Start
  BY <1>1 DEF Start
<1>2. CASE ScheduleNext
  BY <1>2 DEF ScheduleNext
<1>3. CASE Arm
  BY <1>3 DEF Arm
<1>4. CASE HandlerAborted
  BY <1>4 DEF HandlerAborted
<1>5. CASE Dispatch
  BY <1>5 DEF Dispatch
<1>13. CASE Generate
  BY <1>13 DEF Generate, get_next_coordinate, Sequence, Successor
<1>6. CASE HandlerUpdate
  BY <1>6 DEF HandlerUpdate, Number, AfterUpdate, update, CoordinateData
<1>7. CASE RunReturns
  BY <1>7 DEF RunReturns
<1>8. CASE TimerExpires
  BY <1>8 DEF TimerExpires
<1>9. CASE StopStore
  BY <1>9 DEF StopStore
<1>10. CASE StopCancel
  BY <1>10 DEF StopCancel
<1>11. CASE StopIo
  BY <1>11 DEF StopIo
<1>12. CASE UNCHANGED vars
  BY <1>12 DEF vars, producerVars
<1> QED
  BY <1>1, <1>2, <1>3, <1>4, <1>5, <1>6, <1>7, <1>8, <1>9, <1>10, <1>11, <1>12,
   <1>13
     DEF Next, ProducerThread, Stop

(* The strengthened invariant holds throughout every execution.            *)
THEOREM Invariance == Spec => []IInv
BY InitIInv, NextIInv, PTL DEF Spec

(* Every variable keeps its type; the counter keeps its width.             *)
THEOREM TypeCorrect == Spec => []TypeOK
BY Invariance, PTL DEF IInv

(* Until stop() is called the producer thread never runs out of work: every*)
(* return to the io_context leaves a wait behind.                          *)
THEOREM ChainHolds == Spec => []ChainUnbroken
BY Invariance, PTL DEF IInv

(* The consumers' assumption on the producer: one coordinate and one number*)
(* at a time.                                                              *)
THEOREM ConsumersFed == Spec => FeedsConsumers
<1>1. IInv /\ [Next]_vars =>
        [latest_' # latest_ => update(latest_.fix + 1, Successor(latest_.sequence))]_vars
  <2> SUFFICES ASSUME IInv, Next, latest_' # latest_
               PROVE  update(latest_.fix + 1, Successor(latest_.sequence))
    BY DEF vars, producerVars
  <2>1. HandlerUpdate
    BY DEF Next, ProducerThread, Stop, Start, ScheduleNext, Arm, HandlerAborted, Dispatch,
           Generate, RunReturns, TimerExpires, StopStore, StopCancel, StopIo
  <2> QED
    BY <2>1 DEF HandlerUpdate, Number, Goto, update, IInv, InStep
<1> QED
  BY <1>1, Invariance, PTL DEF Spec, FeedsConsumers

(* Nothing new is generated once stop() has returned: only the coordinate  *)
(* of a handler that was dispatched before can still follow.               *)
THEOREM StoppedTicksNoMore == Spec => NoTickAfterStop
<1>1. IInv /\ [Next]_vars => [producer_stop = "returned" => Begun' = Begun]_vars
  <2> SUFFICES ASSUME IInv, Next, producer_stop = "returned"
               PROVE  Begun' = Begun
    BY DEF vars, producerVars
  <2>1. io_stopped /\ ticks \in Nat
    BY DEF IInv, StoppedForGood, TypeOK
  <2>2. CASE Generate
    BY <2>1, <2>2 DEF Begun, Generate, Goto, get_next_coordinate
  <2>3. CASE ~Generate
    <3>1. ticks' = ticks /\ (producer_pc' = "generate" <=> producer_pc = "generate")
      BY <2>1, <2>3 DEF Next, ProducerThread, Stop, Goto, Start, ScheduleNext, Arm,
             HandlerAborted, Dispatch, HandlerUpdate, AfterUpdate, RunReturns,
             TimerExpires, StopStore, StopCancel, StopIo
    <3> QED
      BY <3>1 DEF Begun
  <2> QED
    BY <2>2, <2>3
<1> QED
  BY <1>1, Invariance, PTL DEF Spec, NoTickAfterStop
=============================================================================
