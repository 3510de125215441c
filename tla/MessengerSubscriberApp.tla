----------------------- MODULE MessengerSubscriberApp -----------------------
(***************************************************************************)
(* The DDS subscriber (src/src/MessengerSubscriberApp.cxx) in the process  *)
(* that main builds for "subscriber".  Its threads: the one that runs run()*)
(* and sleeps on terminate_cv_ until stop(); the receiving thread of Fast  *)
(* DDS, which calls on_data_available; the thread on which the signal      *)
(* handler runs; and main, which joins the first.                          *)
(*                                                                         *)
(* Fast DDS is external: samples arrive in the reader's cache one by one,  *)
(* and the reader's data-available status is a flag, so samples that arrive*)
(* during a callback may share the next one, or find it over.              *)
(* main constructs no WebSocket server for the subscriber: ws_server_, and *)
(* the pointer that its signal handler follows, are null.                  *)
(***************************************************************************)
EXTENDS Integers, Sequences, FiniteSets

CONSTANTS
  CountMod,     \* number of values of samples_received_ (2^16 in the code)
  Kinds,        \* the kinds of samples that are written
  MaxSamples    \* bound: samples that arrive in a modelled execution

ASSUME SubscriberAssumption ==
  /\ CountMod \in Nat /\ CountMod > 1
  /\ MaxSamples \in Nat

\* What a sample is to the callback: coordinates; a text with fewer than three fields;
\* one with three fields that are not numbers, which only a foreign publisher writes;
\* or no data at all (a change of the instance's state).
ASSUME KindsAssumption == Kinds \subseteq {"coords", "unparsed", "garbled", "invalid"}

VARIABLES
  stop_,              \* std::atomic<bool> stop_
  samples_received_,  \* uint16_t, callback only
  arrived,            \* the kinds of the samples that reached the reader, in order
  taken,              \* how many of them take_next_sample() has returned
  data_available,     \* the status that makes Fast DDS call on_data_available
  callback,           \* where the receiving thread is
  run_pc,             \* where the thread of run() is
  handler,            \* where the signal handler is
  main                \* where main is

dataVars == <<samples_received_, arrived, taken, data_available, callback>>
otherVars == <<stop_, run_pc, handler, main>>
vars == <<dataVars, otherVars>>

\* Every variable keeps its type; samples_received_ keeps the width of uint16_t.
TypeOK ==
  /\ stop_ \in BOOLEAN
  /\ samples_received_ \in 0 .. CountMod - 1
  /\ arrived \in Seq(Kinds)
  /\ taken \in 0 .. Len(arrived)
  /\ data_available \in BOOLEAN
  /\ callback \in {"idle", "test", "take", "count"}
  /\ run_pc \in {"lock", "predicate", "block", "wait", "done"}
  /\ handler \in {"none", "idle", "notify", "ws_stop", "done"}
  /\ main \in {"make_app", "start_thread", "install", "join", "exited", "failed", "crashed"}

Init ==
  /\ stop_ = FALSE
  /\ samples_received_ = 0
  /\ arrived = << >>
  /\ taken = 0
  /\ data_available = FALSE
  /\ callback = "idle"
  /\ run_pc = "lock"
  /\ handler = "none"
  /\ main = "make_app"

Alive == main \notin {"exited", "failed", "crashed"}
Started == Alive /\ main \notin {"make_app", "start_thread"}
-----------------------------------------------------------------------------
(* on_data_available.                                                      *)

SampleArrives(kind) ==
  /\ Len(arrived) < MaxSamples
  /\ arrived' = Append(arrived, kind)
  /\ data_available' = TRUE
  /\ UNCHANGED <<samples_received_, taken, callback, otherVars>>

CallbackBegins ==
  /\ callback = "idle" /\ data_available
  /\ data_available' = FALSE
  /\ callback' = "test"
  /\ UNCHANGED <<samples_received_, arrived, taken, otherVars>>

is_stopped == stop_

\* The condition of the loop: first is_stopped() ...
TestStop ==
  /\ callback = "test"
  /\ callback' = IF is_stopped THEN "idle" ELSE "take"
  /\ UNCHANGED <<samples_received_, arrived, taken, data_available, otherVars>>

\* ... and then take_next_sample().
TakeNextSample ==
  /\ callback = "take"
  /\ IF taken < Len(arrived)
     THEN taken' = taken + 1 /\ callback' = "count"
     ELSE callback' = "idle" /\ UNCHANGED taken
  /\ UNCHANGED <<samples_received_, arrived, data_available, otherVars>>

\* Mutants: what comes without data counts, too; the callback takes one sample; the
\* counter does not wrap.
CountsAlways(kind) == TRUE
ReturnAfterSample == "idle"
IncrementWide(n) == n + 1

Counts(kind) == kind # "invalid"
AfterSample == "test"
Increment(n) == IF n + 1 = CountMod THEN 0 ELSE n + 1

\* Mutant: the fields are converted without a test that they are there.
ThrowsUntested(kind) == kind \in {"garbled", "unparsed"}

Throws(kind) == kind = "garbled"

\* The body: valid data are counted and parsed; ws_server_ is null, so nothing is
\* forwarded.  Nobody catches what std::stod() and std::stoll() throw, neither the
\* callback nor the thread that calls it: the process ends.
CountSample ==
  /\ callback = "count"
  /\ samples_received_' =
       IF Counts(arrived[taken]) THEN Increment(samples_received_) ELSE samples_received_
  /\ callback' = AfterSample
  /\ main' = IF Throws(arrived[taken]) THEN "crashed" ELSE main
  /\ UNCHANGED <<arrived, taken, data_available, stop_, run_pc, handler>>

Callback == Alive /\ (CallbackBegins \/ TestStop \/ TakeNextSample \/ CountSample)
-----------------------------------------------------------------------------
(* run(): wait on terminate_cv_.  The notifications come without the mutex,*)
(* which nobody else ever takes, so it needs no variable.                  *)

Goto(from, to) == run_pc = from /\ run_pc' = to

Lock == Goto("lock", "predicate") /\ UNCHANGED <<stop_, dataVars, handler, main>>

Predicate ==
  /\ Goto("predicate", IF is_stopped THEN "done" ELSE "block")
  /\ UNCHANGED <<stop_, dataVars, handler, main>>

Block == Goto("block", "wait") /\ UNCHANGED <<stop_, dataVars, handler, main>>

RunThread == Started /\ (Lock \/ Predicate \/ Block)

\* Mutant: the wait has no predicate, and whatever wakes the thread ends run().
AwakeEnds == "done"

Awake == "lock"

SpuriousWakeup == Goto("wait", Awake) /\ UNCHANGED <<stop_, dataVars, handler, main>>
-----------------------------------------------------------------------------
(* main, and the signal handler it installs after it started the thread.   *)

\* make_app() constructs the subscriber, and then main the thread; what either of them
\* throws, main catches.
StartUp ==
  /\ \/ main = "make_app" /\ main' \in {"start_thread", "failed"}
     \/ main = "start_thread" /\ main' \in {"install", "failed"}
  /\ UNCHANGED <<stop_, dataVars, run_pc, handler>>

InstallHandler ==
  /\ main = "install"
  /\ main' = "join"
  /\ handler' = "idle"
  /\ UNCHANGED <<stop_, dataVars, run_pc>>

\* join() returns; "Shutdown complete.", and the process ends.
MainReturns ==
  /\ main = "join" /\ run_pc = "done"
  /\ main' = "exited"
  /\ UNCHANGED <<stop_, dataVars, run_pc, handler>>

Main == StartUp \/ InstallHandler \/ MainReturns

\* A signal: app->stop() begins with the store ...
StopStore ==
  /\ handler \in {"idle", "done"}
  /\ stop_' = TRUE
  /\ handler' = "notify"
  /\ UNCHANGED <<dataVars, run_pc, main>>

\* Mutant: stop() does not notify.
WokenNever == run_pc

Woken == IF run_pc = "wait" THEN Awake ELSE run_pc

\* ... and notifies, without terminate_cv_mtx_.
StopNotify ==
  /\ handler = "notify"
  /\ run_pc' = Woken
  /\ handler' = "ws_stop"
  /\ UNCHANGED <<stop_, dataVars, main>>

\* ws_server->stop() through a null pointer: undefined.  It crashes, or a build reads
\* m_running as unset and returns.
StopNullServer ==
  /\ handler = "ws_stop"
  /\ handler' = "done"
  /\ main' \in {main, "crashed"}
  /\ UNCHANGED <<stop_, dataVars, run_pc>>

HandlerContinues == Alive /\ (StopNotify \/ StopNullServer)
-----------------------------------------------------------------------------
Next ==
  \/ Alive /\ ((\E kind \in Kinds : SampleArrives(kind)) \/ SpuriousWakeup \/ StopStore)
  \/ Callback \/ RunThread \/ Main \/ HandlerContinues

Spec == Init /\ [][Next]_vars

\* The threads run; nothing has to arrive and no signal has to come.
Fairness ==
  /\ WF_vars(Callback)
  /\ WF_vars(RunThread)
  /\ WF_vars(Main)
  /\ WF_vars(HandlerContinues)

FairSpec == Spec /\ Fairness
-----------------------------------------------------------------------------
(* The counter counts, modulo its width, the valid samples that were taken *)
(* and looked at, parsed or not: none twice, none skipped.                 *)
CountsValid ==
  LET seen == 1 .. IF callback = "count" THEN taken - 1 ELSE taken
  IN  samples_received_ = Cardinality({i \in seen : arrived[i] # "invalid"}) % CountMod

(* Every sample that arrives is taken, although callbacks are shared by    *)
(* samples that arrive together and race with new arrivals.                *)
EverySampleTaken ==
  \A n \in 1 .. MaxSamples : Len(arrived) >= n ~> taken >= n \/ stop_ \/ ~Alive

(* No sample is forgotten: as long as one is left in the reader and nobody *)
(* has called stop(), a callback is at work that will look again, or the   *)
(* status is set and another one comes.                                    *)
NoneForgotten ==
  taken < Len(arrived) => data_available \/ callback # "idle" \/ stop_

(* Every sample is accounted for: the valid ones that were looked at by the*)
(* counter, the ones that still wait by a callback that will come for them.*)
Accounted == CountsValid /\ NoneForgotten

(* A stop() that meets the thread between the predicate and the sleep is   *)
(* lost; the process still ends if the signal is sent again and again.     *)
SignalsEndRun == []<>(handler = "notify") => <>(run_pc = "done" \/ ~Alive)

(* The process ends only when told to, whatever wakes the thread of run(): *)
(* main returns only after stop(), and what ends it otherwise is a signal  *)
(* or a text of three fields that are not numbers - no other sample.       *)
EndsWhenTold ==
  /\ main = "exited" => stop_
  /\ main = "crashed" => stop_ \/ \E i \in 1 .. taken : arrived[i] = "garbled"

(* What main prints when the signal comes and when it is over: "shutting   *)
(* down...", and then "Shutdown complete.", never a crash.                 *)
NeverCrashes == main # "crashed"
=============================================================================
