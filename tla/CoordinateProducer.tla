------------------------- MODULE CoordinateProducer -------------------------
(***************************************************************************)
(* The 50 Hz producer (src/src/CoordinateProducer.hpp and                  *)
(* CoordinateGenerator.hpp): one thread runs an asio io_context whose only *)
(* work is a timer that re-arms itself from its own handler; stop() is     *)
(* called by the signal handler, on another thread, at any moment from the *)
(* creation of the producer thread on.                                     *)
(*                                                                         *)
(* asio is external.  The model keeps of it: a wait that expired is queued *)
(* as a handler and can no longer be cancelled; a cancelled wait queues    *)
(* the handler with operation_aborted; run() returns when the context was  *)
(* stopped (also if before the call) or has no work left; no handler is    *)
(* dispatched once the context is stopped, but one that was dispatched     *)
(* before runs to its end, however late.  timer_ is used by both threads     *)
(* without a lock, a data race: cancel() takes effect before or after the  *)
(* arming, and its unlocked look at the pending wait may miss it.          *)
(***************************************************************************)
EXTENDS SharedCoordinateState

VARIABLES
  running_,       \* std::atomic<bool> running_
  sequence_,      \* std::atomic<uint32_t> sequence_
  ticks,          \* calls of CoordinateGenerator::get_next_coordinate (its t_)
  timer_,         \* state of the timer's wait
  io_stopped,     \* io_context_ was stopped
  producer_pc,    \* where the producer thread is
  producer_stop   \* where the caller of stop() is

producerVars == <<running_, sequence_, ticks, timer_, io_stopped, producer_pc,
                  producer_stop>>
vars == <<latest_, producerVars>>

\* Every variable of run(), of the handler and of stop() keeps its type; the
\* counter keeps the width of uint32_t.
TypeOK ==
  /\ latest_ \in CoordinateData
  /\ running_ \in BOOLEAN
  /\ sequence_ \in Sequence
  /\ ticks \in Nat
  /\ timer_ \in {"idle", "armed", "expired", "aborted"}
  /\ io_stopped \in BOOLEAN
  /\ producer_pc \in {"start", "schedule", "arm", "run", "generate", "update", "done"}
  /\ producer_stop \in {"idle", "cancel", "stop_io", "returned"}

ProducerInit ==
  /\ running_ = FALSE
  /\ sequence_ = 0
  /\ ticks = 0
  /\ timer_ = "idle"
  /\ io_stopped = FALSE
  /\ producer_pc = "start"
  /\ producer_stop = "idle"

Init == SharedStateInit /\ ProducerInit
-----------------------------------------------------------------------------
(* The producer thread: run(), start(), schedule_next() and the handler.   *)

Goto(from, to) == producer_pc = from /\ producer_pc' = to

\* Mutant: start() only tests the flag and never sets it.
StartFlagNotSet ==
  /\ Goto("start", IF running_ THEN "run" ELSE "schedule")
  /\ UNCHANGED <<latest_, running_, sequence_, ticks, timer_, io_stopped,
                 producer_stop>>

\* start(): an exchange that finds the flag set returns without a timer.
Start ==
  /\ Goto("start", IF running_ THEN "run" ELSE "schedule")
  /\ running_' = TRUE
  /\ UNCHANGED <<latest_, sequence_, ticks, timer_, io_stopped, producer_stop>>

\* schedule_next(): the test of running_ ...
ScheduleNext ==
  /\ Goto("schedule", IF running_ THEN "arm" ELSE "run")
  /\ UNCHANGED <<latest_, running_, sequence_, ticks, timer_, io_stopped,
                 producer_stop>>

\* ... and then expires_at() and async_wait(), after which control is back in
\* io_context_.run().
Arm ==
  /\ Goto("arm", "run")
  /\ timer_' = "armed"
  /\ UNCHANGED <<latest_, running_, sequence_, ticks, io_stopped, producer_stop>>

\* The handler with an error code: it returns without scheduling.
HandlerAborted ==
  /\ producer_pc = "run" /\ ~io_stopped /\ timer_ = "aborted"
  /\ timer_' = "idle"
  /\ UNCHANGED <<latest_, running_, sequence_, ticks, io_stopped, producer_pc,
                 producer_stop>>

\* asio dispatches the handler of a wait that ended on time: no error code.
Dispatch ==
  /\ Goto("run", "generate")
  /\ ~io_stopped /\ timer_ = "expired"
  /\ timer_' = "idle"
  /\ UNCHANGED <<latest_, running_, sequence_, ticks, io_stopped, producer_stop>>

\* A coordinate is a function of the calls before it: t_ of the generator counts them.
get_next_coordinate == ticks' = ticks + 1

\* The handler, which looks at no flag, generates the next coordinate and numbers it.
Generate ==
  /\ Goto("generate", "update")
  /\ get_next_coordinate
  /\ sequence_' = Successor(sequence_)
  /\ UNCHANGED <<latest_, running_, timer_, io_stopped, producer_stop>>

\* Mutants: the handler stores the number that fetch_add returned, not its successor;
\* it ends without scheduling the next tick.
NumberFetched == IF sequence_ = 0 THEN SeqMod - 1 ELSE sequence_ - 1
AfterUpdateRun == "run"

Number == sequence_
AfterUpdate == "schedule"

\* The rest of the handler: state_->update(), then schedule_next().
HandlerUpdate ==
  /\ Goto("update", AfterUpdate)
  /\ update(ticks, Number)
  /\ UNCHANGED <<running_, sequence_, ticks, timer_, io_stopped, producer_stop>>

RunReturns ==
  /\ Goto("run", "done")
  /\ io_stopped \/ timer_ = "idle"
  /\ UNCHANGED <<latest_, running_, sequence_, ticks, timer_, io_stopped,
                 producer_stop>>

ProducerThread ==
  \/ Start \/ ScheduleNext \/ Arm
  \/ HandlerAborted \/ Dispatch \/ Generate \/ HandlerUpdate \/ RunReturns

\* The deadline passes; MaxTicks bounds the execution.
TimerExpires ==
  /\ timer_ = "armed" /\ ticks < MaxTicks
  /\ timer_' = "expired"
  /\ UNCHANGED <<latest_, running_, sequence_, ticks, io_stopped, producer_pc,
                 producer_stop>>
-----------------------------------------------------------------------------
(* stop(), called by the signal handler, possibly again and again.         *)

StopStore ==
  /\ producer_stop \in {"idle", "returned"}
  /\ running_' = FALSE
  /\ producer_stop' = "cancel"
  /\ UNCHANGED <<latest_, sequence_, ticks, timer_, io_stopped, producer_pc>>

StopCancel ==
  /\ producer_stop = "cancel"
  /\ timer_' \in IF timer_ = "armed" THEN {"armed", "aborted"} ELSE {timer_}
  /\ producer_stop' = "stop_io"
  /\ UNCHANGED <<latest_, running_, sequence_, ticks, io_stopped, producer_pc>>

\* Mutant: stop() relies on the flag and on cancel(), without io_context_.stop().
StopIoForgotten ==
  /\ producer_stop = "stop_io"
  /\ producer_stop' = "returned"
  /\ UNCHANGED <<latest_, running_, sequence_, ticks, timer_, io_stopped, producer_pc>>

StopIo ==
  /\ producer_stop = "stop_io"
  /\ io_stopped' = TRUE
  /\ producer_stop' = "returned"
  /\ UNCHANGED <<latest_, running_, sequence_, ticks, timer_, producer_pc>>

Stop == StopStore \/ StopCancel \/ StopIo
-----------------------------------------------------------------------------
Next == ProducerThread \/ TimerExpires \/ Stop

\* The scheduler runs the thread, time passes, and a stop() that began ends;
\* nobody has to call stop().
Fairness ==
  /\ WF_vars(ProducerThread)
  /\ WF_vars(TimerExpires)
  /\ WF_vars(StopCancel \/ StopIo)

Spec == Init /\ [][Next]_vars

FairSpec == Spec /\ Fairness
-----------------------------------------------------------------------------
(* What both consumers rely on: the shared state moves on by one coordinate*)
(* at a time, and its number by one through every wrap of the counter.     *)
FeedsConsumers ==
  [][latest_' # latest_ => update(latest_.fix + 1, Successor(latest_.sequence))]_vars

(* The timer chain never breaks by itself: until stop() is called, a thread*)
(* that is back in the io_context has a wait pending, so run() cannot run  *)
(* out of work and end the thread, which nothing would restart.            *)
ChainUnbroken ==
  producer_stop = "idle" =>
    /\ producer_pc # "done"
    /\ producer_pc = "run" => timer_ \in {"armed", "expired"}

\* The coordinates generated and the one a dispatched handler is about to generate.
Begun == ticks + (IF producer_pc = "generate" THEN 1 ELSE 0)

(* Once stop() has returned nothing new begins: at most one coordinate is  *)
(* still generated, by a handler that asio had already dispatched.         *)
NoTickAfterStop == [][producer_stop = "returned" => Begun' = Begun]_vars

(* stop() ends the thread wherever it finds it: before start(), between the*)
(* test of running_ and the arming, waiting, or inside the handler.        *)
StopEndsThread == producer_stop = "returned" ~> producer_pc = "done"

(* Without a stop the producer keeps ticking.                              *)
KeepsTicking ==
  \A n \in 1 .. MaxTicks : <>(latest_.fix >= n \/ producer_stop # "idle")
=============================================================================
