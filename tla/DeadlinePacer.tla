--------------------------- MODULE DeadlinePacer ---------------------------
(***************************************************************************)
(* How the three periodic threads keep time.  Each sleeps until an absolute*)
(* deadline and then moves the deadline on by one period, so a late wake-up*)
(* or a long piece of work is made up for by cycles that do not sleep:     *)
(*   "producer"   CoordinateProducer::schedule_next: wait, work, advance;  *)
(*   "websocket"  the timer of WebSocketServer::run: wait, work, advance,  *)
(*                and a deadline that is too old is given up;              *)
(*   "publisher"  MessengerPublisherApp::run: work, wait, advance, with the*)
(*                same rule, checked before the work and not after it.     *)
(* Time is counted in ticks of a steady clock; computing takes none, except*)
(* for the work (which in the publisher waits for a subscriber) and for the*)
(* latency of a wake-up.                                                   *)
(***************************************************************************)
EXTENDS Integers

CONSTANTS
  Period,     \* the period of the thread
  MaxStall,   \* bound: the longest work or wake-up latency
  MaxNow      \* bound: the length of a modelled execution

ASSUME PacerAssumption ==
  /\ Period \in Nat \ {0}
  /\ MaxStall \in Nat
  /\ MaxNow \in Nat

VARIABLES
  kind,           \* which of the threads; it never changes
  now,            \* steady_clock::now(), from the start of the thread
  next_deadline,
  pc,             \* "work", "wait" or "advance"
  cycles,         \* deadlines that have passed
  burst           \* waits in a row that did not sleep, with no stall among them

vars == <<kind, now, next_deadline, pc, cycles, burst>>

\* Every variable keeps its type: no deadline and no clock value is negative.
TypeOK ==
  /\ kind \in {"producer", "websocket", "publisher"}
  /\ now \in Nat
  /\ next_deadline \in Nat
  /\ pc \in {"work", "wait", "advance"}
  /\ cycles \in Nat
  /\ burst \in Nat

IsPublisher == kind = "publisher"

Init ==
  /\ kind \in {"producer", "websocket", "publisher"}
  /\ now = 0
  /\ next_deadline = Period
  /\ pc = IF IsPublisher THEN "work" ELSE "wait"
  /\ cycles = 0
  /\ burst = 0

Stalls == {d \in 0 .. MaxStall : now + d <= MaxNow}

Work ==
  /\ pc = "work"
  /\ \E d \in Stalls : now' = now + d /\ burst' = IF d = 0 THEN burst ELSE 0
  /\ pc' = IF IsPublisher THEN "wait" ELSE "advance"
  /\ UNCHANGED <<kind, next_deadline, cycles>>

AfterWait == IF IsPublisher THEN "advance" ELSE "work"

\* The deadline is ahead: the thread sleeps and wakes at it or somewhat later.
Sleep ==
  /\ pc = "wait" /\ now < next_deadline
  /\ \E d \in 0 .. MaxStall :
       /\ next_deadline + d <= MaxNow
       /\ now' = next_deadline + d
  /\ burst' = 0
  /\ pc' = AfterWait
  /\ UNCHANGED <<kind, next_deadline, cycles>>

\* The deadline has passed: the wait returns at once.
WaitReturns ==
  /\ pc = "wait" /\ now >= next_deadline
  /\ burst' = burst + 1
  /\ pc' = AfterWait
  /\ UNCHANGED <<kind, now, next_deadline, cycles>>

TooOld(deadline) == deadline < now - Period * 2

\* Mutants: no deadline is given up; the producer gives up deadlines too.
AfterKeep(deadline) == deadline
AfterReset(deadline) == IF TooOld(deadline) THEN now + Period ELSE deadline

After(deadline) ==
  IF kind # "producer" /\ TooOld(deadline) THEN now + Period ELSE deadline

Advance ==
  /\ pc = "advance"
  /\ next_deadline' = After(next_deadline + Period)
  /\ cycles' = cycles + 1
  /\ pc' = IF IsPublisher THEN "work" ELSE "wait"
  /\ UNCHANGED <<kind, now, burst>>

Next == Work \/ Sleep \/ WaitReturns \/ Advance

Spec == Init /\ [][Next]_vars
-----------------------------------------------------------------------------
(* A consumer makes up for a delay of any length with at most three cycles *)
(* that do not sleep; four in the publisher, which gives up a deadline only*)
(* after it has waited for it.                                             *)
CatchUpBounded == kind # "producer" => burst <= IF IsPublisher THEN 4 ELSE 3

(* The producer never gives up: whenever it goes to sleep, it has generated*)
(* one coordinate for every period that has passed since it started.       *)
NoTickLost ==
  kind = "producer" /\ pc = "wait" /\ now < next_deadline => cycles = now \div Period

(* No thread is faster than its period, however it catches up: since its   *)
(* start no more cycles have ended than periods have passed.               *)
NeverFaster == cycles <= now \div Period

(* The rate of the threads over their whole life: none runs more often than*)
(* once per period, and the producer whenever it sleeps not less often.    *)
RateKept == NeverFaster /\ NoTickLost
=============================================================================
