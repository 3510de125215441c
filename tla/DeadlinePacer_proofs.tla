------------------------ MODULE DeadlinePacer_proofs ------------------------
(***************************************************************************)
(* The bound on catching up and the exactness of the producer, for every   *)
(* period and every delay.                                                 *)
(***************************************************************************)
EXTENDS DeadlinePacer, TLAPS

\* How late the thread is.
Late(l) == now - next_deadline <= l

\* After b waits in a row that did not sleep, the thread is late by at most l - (b - 1)
\* periods, where l is the delay that the check lets pass.
Shrinking(l, b) ==
  /\ burst = b => Late(l)
  /\ burst = b + 1 => Late(l - Period)
  /\ burst = b + 2 => Late(l - 2 * Period)
  /\ burst = b + 3 => Late(l - 3 * Period)
  /\ burst <= b + 3

WebsocketLate ==
  kind = "websocket" =>
    /\ pc = "wait" => Shrinking(2 * Period, 0)
    /\ pc \in {"work", "advance"} => burst = 0 \/ (Shrinking(2 * Period, 1) /\ burst <= 3)

PublisherLate ==
  kind = "publisher" =>
    /\ pc = "work" => (burst = 0 /\ Late(2 * Period)) \/ Shrinking(2 * Period, 1)
    /\ pc = "wait" => burst = 0 \/ Shrinking(2 * Period, 1)
    /\ pc = "advance" => burst <= 1 \/ (Shrinking(2 * Period, 2) /\ burst <= 4)

\* The deadlines of the producer form an exact grid, and none lies in the future by
\* more than a period.
ProducerGrid ==
  kind = "producer" =>
    /\ next_deadline = Period * cycles + Period
    /\ pc = "wait" => next_deadline <= now + Period
    /\ pc # "wait" => next_deadline <= now

\* Each cycle has its deadline, at least a period after the one before, and it has
\* passed when the cycle ends.
Paced ==
  /\ Period * cycles + Period <= next_deadline
  /\ Period * cycles <= now
  /\ pc = "advance" \/ (pc = "work" /\ kind # "publisher") => next_deadline <= now

IInv == TypeOK /\ WebsocketLate /\ PublisherLate /\ ProducerGrid
-----------------------------------------------------------------------------
(* The invariant holds at first ...                                        *)
LEMMA InitIInv == Init => IInv
BY PacerAssumption
   DEF Init, IsPublisher, IInv, TypeOK, WebsocketLate, PublisherLate, ProducerGrid, Shrinking,
       Late

(* ... and every step preserves it.                                        *)
LEMMA NextIInv == IInv /\ [Next]_vars => IInv'
<1> SUFFICES ASSUME IInv, [Next]_vars
             PROVE  IInv'
  OBVIOUS
<1> USE PacerAssumption DEF IInv, TypeOK, IsPublisher
<1>1. CASE Work
  <2>1. PICK d \in 0 .. MaxStall : now' = now + d /\ burst' = IF d = 0 THEN burst ELSE 0
    BY <1>1 DEF Work, Stalls
  <2>2. TypeOK'
    BY <1>1, <2>1 DEF Work
  <2>3. WebsocketLate'
    BY <1>1, <2>1 DEF Work, WebsocketLate, Shrinking, Late
  <2>4. PublisherLate'
    BY <1>1, <2>1 DEF Work, PublisherLate, Shrinking, Late
  <2>5. ProducerGrid'
    BY <1>1, <2>1 DEF Work, ProducerGrid
  <2> QED
    BY <2>2, <2>3, <2>4, <2>5
<1>2. CASE Sleep
  <2>1. PICK d \in 0 .. MaxStall : now' = next_deadline + d
    BY <1>2 DEF Sleep
  <2>2. TypeOK'
    BY <1>2, <2>1 DEF Sleep, AfterWait
  <2>3. WebsocketLate' /\ PublisherLate'
    BY <1>2, <2>1 DEF Sleep, AfterWait, WebsocketLate, PublisherLate
  <2>4. ProducerGrid'
    BY <1>2, <2>1 DEF Sleep, AfterWait, ProducerGrid
  <2> QED
    BY <2>2, <2>3, <2>4
<1>3. CASE WaitReturns
  <2>1. TypeOK'
    BY <1>3 DEF WaitReturns, AfterWait
  <2>2. WebsocketLate'
    BY <1>3 DEF WaitReturns, AfterWait, WebsocketLate, Shrinking, Late
  <2>3. PublisherLate'
    BY <1>3 DEF WaitReturns, AfterWait, PublisherLate, Shrinking, Late
  <2>4. ProducerGrid'
    BY <1>3 DEF WaitReturns, AfterWait, ProducerGrid
  <2> QED
    BY <2>1, <2>2, <2>3, <2>4
<1>4. CASE Advance
  <2>1. next_deadline' \in {next_deadline + Period, now + Period}
    BY <1>4 DEF Advance, After
  <2>2. TypeOK'
    BY <1>4, <2>1 DEF Advance
  <2>3. WebsocketLate'
    BY <1>4 DEF Advance, After, TooOld, WebsocketLate, Shrinking, Late
  <2>4. PublisherLate'
    BY <1>4 DEF Advance, After, TooOld, PublisherLate, Shrinking, Late
  <2>5. ProducerGrid'
    <3> SUFFICES ASSUME kind = "producer"
                 PROVE  ProducerGrid'
      BY <1>4 DEF Advance, ProducerGrid
    <3>1. Period * cycles' = Period * cycles + Period
      BY <1>4 DEF Advance
    <3> QED
      BY <1>4, <3>1 DEF Advance, After, ProducerGrid
  <2> QED
    BY <2>2, <2>3, <2>4, <2>5
<1>5. CASE UNCHANGED vars
  BY <1>5 DEF vars, WebsocketLate, PublisherLate, ProducerGrid, Shrinking, Late
<1> QED
  BY <1>1, <1>2, <1>3, <1>4, <1>5 DEF Next

(* The strengthened invariant holds throughout every execution.            *)
THEOREM Invariance == Spec => []IInv
BY InitIInv, NextIInv, PTL DEF Spec

(* Every variable keeps its type: no clock value, no deadline and no count *)
(* of cycles is ever negative.                                             *)
THEOREM TypeCorrect == Spec => []TypeOK
BY Invariance, PTL DEF IInv

(* However long a delay, a consumer makes up for it with three cycles that *)
(* do not sleep, the publisher with four.                                  *)
THEOREM CatchUp == Spec => []CatchUpBounded
<1>1. IInv => CatchUpBounded
  BY PacerAssumption DEF IInv, TypeOK, WebsocketLate, PublisherLate, Shrinking, CatchUpBounded,
                         IsPublisher
<1> QED
  BY <1>1, Invariance, PTL

(* No tick of the producer is lost, whatever the delays.                   *)
THEOREM TicksKept == Spec => []NoTickLost
<1>1. IInv => NoTickLost
  <2> SUFFICES ASSUME IInv, kind = "producer", pc = "wait", now < next_deadline
               PROVE  cycles = now \div Period
    BY DEF NoTickLost
  <2> DEFINE r == now - Period * cycles
  <2>1. /\ Period \in Nat \ {0} /\ now \in Nat /\ cycles \in Nat
        /\ r \in 0 .. Period - 1
        /\ now = Period * cycles + r
    BY PacerAssumption DEF IInv, TypeOK, ProducerGrid
  <2> HIDE DEF r
  <2> QED
    BY <2>1
<1> QED
  BY <1>1, Invariance, PTL

(* Cycles that do not sleep make up for late ones and no more: over its    *)
(* whole life no thread runs more often than once per period.              *)
THEOREM NeverAhead == Spec => []NeverFaster
<1>1. Init => Paced
  BY PacerAssumption DEF Init, IsPublisher, Paced
<1>2. IInv /\ Paced /\ [Next]_vars => Paced'
  <2> SUFFICES ASSUME IInv, Paced, [Next]_vars
               PROVE  Paced'
    OBVIOUS
  <2> DEFINE p == Period * cycles
  <2>1. /\ Period \in Nat \ {0} /\ now \in Nat /\ next_deadline \in Nat /\ cycles \in Nat
        /\ p \in Nat
    BY PacerAssumption DEF IInv, TypeOK
  <2>2. ASSUME cycles' = cycles
        PROVE  Period * cycles' = p
    BY <2>2
  <2>3. ASSUME cycles' = cycles + 1
        PROVE  Period * cycles' = p + Period
    BY <2>1, <2>3
  <2>4. /\ p + Period <= next_deadline /\ p <= now
        /\ pc = "advance" \/ (pc = "work" /\ kind # "publisher") => next_deadline <= now
    BY DEF Paced
  <2> HIDE DEF p
  <2>5. CASE Work
    <3>1. PICK d \in 0 .. MaxStall : now' = now + d
      BY <2>5 DEF Work, Stalls
    <3> QED
      BY <2>1, <2>2, <2>4, <2>5, <3>1, PacerAssumption DEF Work, IsPublisher, Paced
  <2>6. CASE Sleep
    <3>1. PICK d \in 0 .. MaxStall : now' = next_deadline + d
      BY <2>6 DEF Sleep
    <3> QED
      BY <2>1, <2>2, <2>4, <2>6, <3>1, PacerAssumption DEF Sleep, AfterWait, IsPublisher, Paced
  <2>7. CASE WaitReturns
    BY <2>1, <2>2, <2>4, <2>7 DEF WaitReturns, AfterWait, IsPublisher, Paced
  <2>8. CASE Advance
    <3>1. next_deadline <= now
      BY <2>4, <2>8 DEF Advance
    <3>2. next_deadline' \in {next_deadline + Period, now + Period}
      BY <2>8 DEF Advance, After
    <3>3. pc' # "advance" /\ (pc' = "work" => kind' = "publisher") /\ now' = now
      BY <2>8 DEF Advance, IsPublisher
    <3>4. Period * cycles' = p + Period
      BY <2>3, <2>8 DEF Advance
    <3> QED
      BY <2>1, <2>4, <3>1, <3>2, <3>3, <3>4 DEF Paced
  <2>9. CASE UNCHANGED vars
    BY <2>2, <2>4, <2>9 DEF vars, Paced
  <2> QED
    BY <2>5, <2>6, <2>7, <2>8, <2>9 DEF Next
<1>3. IInv /\ Paced => NeverFaster
  <2> SUFFICES ASSUME IInv, Paced
               PROVE  cycles <= now \div Period
    BY DEF NeverFaster
  <2> DEFINE q == now \div Period
             r == now % Period
  <2>1. /\ Period \in Nat \ {0} /\ now \in Nat /\ cycles \in Nat
        /\ q \in Nat /\ r \in 0 .. Period - 1 /\ now = Period * q + r
    BY PacerAssumption DEF IInv, TypeOK
  <2>2. Period * cycles <= now
    BY DEF Paced
  <2> HIDE DEF q, r
  <2>3. ASSUME q + 1 <= cycles
        PROVE  FALSE
    <3>1. Period * (q + 1) <= Period * cycles
      BY <2>1, <2>3
    <3>2. Period * (q + 1) = Period * q + Period
      BY <2>1
    <3> QED
      BY <2>1, <2>2, <3>1, <3>2
  <2> QED
    BY <2>1, <2>3 DEF q
<1> QED
  BY <1>1, <1>2, <1>3, Invariance, PTL DEF Spec

(* For every period and every delay the threads keep their rate.           *)
THEOREM Rate == Spec => []RateKept
BY NeverAhead, TicksKept, PTL DEF RateKept
=============================================================================
