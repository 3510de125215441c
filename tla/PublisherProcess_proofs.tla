----------------------- MODULE PublisherProcess_proofs -----------------------
(***************************************************************************)
(* The components of the publisher process keep in it what was proved of   *)
(* each by itself: the process steps as each of them may (ProducerSteps,   *)
(* PublisherSteps), so the theorems of their proof modules hold of it.     *)
(***************************************************************************)
EXTENDS PublisherProcess, SequenceTheorems, TLAPS

\* The components once more, with the theorems about them.
ProducerProofs == INSTANCE CoordinateProducer_proofs
PublisherProofs == INSTANCE MessengerPublisherApp_proofs

\* No deadline passes once MaxTicks coordinates are generated, nor with a dispatched
\* handler that will generate the last.
Bounded ==
  /\ ticks <= MaxTicks
  /\ timer_ = "expired" \/ producer_pc = "generate" => ticks < MaxTicks

ProcessTypeOK ==
  /\ \/ Over \/ Joining
     \/ main \in {"make_app", "start_producer", "start_dds", "start_ws", "install"}
  /\ started \in SUBSET Threads
  /\ ws_done \in BOOLEAN
  /\ handler \in {"idle", "producer", "dds", "ws"}
  /\ host \in {"none", "main", "producer", "dds", "discovery", "ws"}

\* What main has joined, or never started, is not running.
Joined ==
  /\ main \in {"make_app", "start_producer", "failed"} => started = {}
  /\ main \in {"join_dds", "join_ws", "exited"} => "producer" \notin Live
  /\ main \in {"join_ws", "exited"} => "dds" \notin Live
  /\ main = "exited" => "ws" \notin Live

IInv == ProducerProofs!IInv /\ Bounded /\ ProcessTypeOK /\ Joined
-----------------------------------------------------------------------------
(* The two names of each component mean the same.                          *)

(* The producer of the process is the one of its theorems.                 *)
LEMMA SameProducer ==
  /\ Producer!Init <=> ProducerProofs!Init
  /\ Producer!Next <=> ProducerProofs!Next
  /\ Producer!TypeOK <=> ProducerProofs!TypeOK
BY DEF Producer!Init, Producer!SharedStateInit, Producer!NoCoordinate, Producer!ProducerInit,
       Producer!Next, Producer!ProducerThread, Producer!Start, Producer!ScheduleNext,
       Producer!Arm, Producer!HandlerAborted, Producer!Dispatch, Producer!Generate, Producer!get_next_coordinate,
       Producer!Successor, Producer!HandlerUpdate, Producer!AfterUpdate, Producer!Number,
       Producer!update, Producer!RunReturns, Producer!TimerExpires, Producer!Stop,
       Producer!StopStore, Producer!StopCancel, Producer!StopIo, Producer!Goto,
       Producer!TypeOK, Producer!CoordinateData, Producer!Sequence,
       ProducerProofs!Init, ProducerProofs!SharedStateInit, ProducerProofs!NoCoordinate,
       ProducerProofs!ProducerInit, ProducerProofs!Next, ProducerProofs!ProducerThread,
       ProducerProofs!Start, ProducerProofs!ScheduleNext, ProducerProofs!Arm,
       ProducerProofs!HandlerAborted, ProducerProofs!Dispatch, ProducerProofs!Generate,
       ProducerProofs!get_next_coordinate, ProducerProofs!Successor,
       ProducerProofs!HandlerUpdate, ProducerProofs!AfterUpdate, ProducerProofs!Number,
       ProducerProofs!update, ProducerProofs!RunReturns, ProducerProofs!TimerExpires,
       ProducerProofs!Stop, ProducerProofs!StopStore, ProducerProofs!StopCancel,
       ProducerProofs!StopIo, ProducerProofs!Goto, ProducerProofs!TypeOK,
       ProducerProofs!CoordinateData, ProducerProofs!Sequence

(* The publisher of the process is the one of its theorems.                *)
LEMMA SamePublisher ==
  /\ Publisher!Init <=> PublisherProofs!Init
  /\ Publisher!Next <=> PublisherProofs!Next
  /\ Publisher!TypeOK <=> PublisherProofs!TypeOK
BY DEF Publisher!Init, Publisher!SharedStateInit, Publisher!NoCoordinate, Publisher!AppInit,
       Publisher!Next, Publisher!DdsThread, Publisher!Goto, Publisher!Lock, Publisher!Unlock,
       Publisher!Waiting, Publisher!Awake, Publisher!notify_one, Publisher!othersVars,
       Publisher!ddsLocals, Publisher!appVars, Publisher!TestStop, Publisher!TestData,
       Publisher!has_data, Publisher!MatchedLock, Publisher!is_stopped, Publisher!MayProceed,
       Publisher!MatchedPredicate, Publisher!MatchedBlock, Publisher!TestStopMatched,
       Publisher!IsNew, Publisher!get_latest, Publisher!ReadLatest, Publisher!MessageOf,
       Publisher!ToSigned, Publisher!Successor, Publisher!WriteAccepted,
       Publisher!RefusedKeeps, Publisher!WriteRefused, Publisher!PeriodLock,
       Publisher!PeriodPredicate, Publisher!PeriodBlock, Publisher!PeriodTimeout,
       Publisher!SpuriousWakeup, Publisher!ReaderAppears, Publisher!ReaderDisappears,
       Publisher!LocksMutex, Publisher!CurrentCount, Publisher!Notifies,
       Publisher!ListenerRecords, Publisher!ListenerNotifies, Publisher!Listener,
       Publisher!StopStore, Publisher!StopNotify, Publisher!Stop, Publisher!CoordinateUpdate,
       Publisher!update, Publisher!TypeOK, Publisher!CoordinateData, Publisher!Sequence,
       Publisher!Message,
       PublisherProofs!Init, PublisherProofs!SharedStateInit, PublisherProofs!NoCoordinate,
       PublisherProofs!AppInit, PublisherProofs!Next, PublisherProofs!DdsThread,
       PublisherProofs!Goto, PublisherProofs!Lock, PublisherProofs!Unlock,
       PublisherProofs!Waiting, PublisherProofs!Awake, PublisherProofs!notify_one,
       PublisherProofs!othersVars, PublisherProofs!ddsLocals, PublisherProofs!appVars,
       PublisherProofs!TestStop, PublisherProofs!TestData, PublisherProofs!has_data,
       PublisherProofs!MatchedLock, PublisherProofs!is_stopped, PublisherProofs!MayProceed,
       PublisherProofs!MatchedPredicate, PublisherProofs!MatchedBlock,
       PublisherProofs!TestStopMatched, PublisherProofs!IsNew, PublisherProofs!get_latest,
       PublisherProofs!ReadLatest, PublisherProofs!MessageOf, PublisherProofs!ToSigned,
       PublisherProofs!Successor, PublisherProofs!WriteAccepted,
       PublisherProofs!RefusedKeeps, PublisherProofs!WriteRefused,
       PublisherProofs!PeriodLock, PublisherProofs!PeriodPredicate,
       PublisherProofs!PeriodBlock, PublisherProofs!PeriodTimeout,
       PublisherProofs!SpuriousWakeup, PublisherProofs!ReaderAppears,
       PublisherProofs!ReaderDisappears, PublisherProofs!LocksMutex,
       PublisherProofs!CurrentCount, PublisherProofs!Notifies,
       PublisherProofs!ListenerRecords, PublisherProofs!ListenerNotifies,
       PublisherProofs!Listener, PublisherProofs!StopStore, PublisherProofs!StopNotify,
       PublisherProofs!Stop, PublisherProofs!CoordinateUpdate, PublisherProofs!update,
       PublisherProofs!TypeOK, PublisherProofs!CoordinateData, PublisherProofs!Sequence,
       PublisherProofs!Message

(* What the theorems of the components assume.                             *)
LEMMA Assumptions ==
  /\ ProducerProofs!SharedStateAssumption
  /\ PublisherProofs!SharedStateAssumption
  /\ PublisherProofs!ReadersAssumption
BY ProcessAssumption
   DEF ProducerProofs!SharedStateAssumption, PublisherProofs!SharedStateAssumption,
       PublisherProofs!ReadersAssumption
-----------------------------------------------------------------------------
(* Each step of the process is one of the producer, or none of its business*)

(* No thread but the producer's writes latest_.                            *)
LEMMA LatestKept ==
  ASSUME \/ Publisher!DdsThread \/ Publisher!SpuriousWakeup \/ Publisher!Listener
         \/ Publisher!ReaderAppears \/ Publisher!ReaderDisappears \/ Publisher!Stop
  PROVE  UNCHANGED latest_
BY DEF Publisher!DdsThread, Publisher!othersVars, Publisher!TestStop, Publisher!TestData,
       Publisher!MatchedLock, Publisher!MatchedPredicate, Publisher!MatchedBlock,
       Publisher!TestStopMatched, Publisher!ReadLatest, Publisher!WriteAccepted,
       Publisher!WriteRefused, Publisher!PeriodLock, Publisher!PeriodPredicate,
       Publisher!PeriodBlock, Publisher!PeriodTimeout, Publisher!SpuriousWakeup,
       Publisher!Listener, Publisher!ListenerRecords, Publisher!ListenerNotifies,
       Publisher!ReaderAppears, Publisher!ReaderDisappears, Publisher!Stop,
       Publisher!StopStore, Publisher!StopNotify

(* Where the process is is the business of main and the handler only.      *)
LEMMA MainKept ==
  ASSUME MainStep \/ Signal \/ StopServer \/ ServerReturns
  PROVE  UNCHANGED <<latest_, producerVars, appVars>>
BY DEF MainStep, make_app, StartThreads, StartThread, InstallHandler, JoinThreads, Goto, Signal,
       StopServer, Handles, ServerReturns

(* Only main and the stop() of the server move main on, and the latter only*)
(* to the end of the process.                                              *)
LEMMA MainMoves ==
  ASSUME [Next]_vars, ~MainStep
  PROVE  main' \in {main, "terminated"} /\ UNCHANGED started
BY DEF Next, vars, processVars, ProducerStep, TimerExpires, ServerReturns, DdsStep,
       SpuriousWakeup, ListenerStep, DiscoveryStep, Signal, Handler, Handles, StopProducer,
       StopPublisher, StopServer

(* To the producer the process is an environment that it expects.          *)
LEMMA ProducerSteps == [Next]_vars => [Producer!Next]_<<latest_, producerVars>>
<1> SUFFICES ASSUME Next
             PROVE  Producer!Next \/ UNCHANGED <<latest_, producerVars>>
  BY DEF vars
<1>1. CASE ProducerStep \/ TimerExpires \/ StopProducer
  BY <1>1 DEF ProducerStep, TimerExpires, StopProducer, Producer!Next
<1>2. CASE DdsStep \/ SpuriousWakeup \/ ListenerStep \/ DiscoveryStep \/ StopPublisher
  BY <1>2, LatestKept DEF DdsStep, SpuriousWakeup, ListenerStep, DiscoveryStep, StopPublisher
<1>3. CASE MainStep \/ Signal \/ StopServer \/ ServerReturns
  BY <1>3, MainKept
<1> QED
  BY <1>1, <1>2, <1>3 DEF Next, Handler

(* To the publisher, too: the producer updates the shared state as it      *)
(* expects.                                                                *)
LEMMA PublisherSteps ==
  IInv /\ [Next]_vars => [Publisher!Next]_<<latest_, appVars>>
<1> SUFFICES ASSUME IInv, Next
             PROVE  Publisher!Next \/ UNCHANGED <<latest_, appVars>>
  BY DEF vars
<1>1. CASE ProducerStep
  <2>1. CASE Producer!HandlerUpdate
    <3>1. /\ latest_.fix + 1 = ticks /\ ticks \in Nat /\ ticks <= MaxTicks
          /\ latest_.fix \in Nat
          /\ Publisher!Successor(latest_.sequence) = sequence_
      BY <2>1 DEF Producer!HandlerUpdate, Producer!Goto, IInv, Bounded, ProducerProofs!IInv,
                  ProducerProofs!InStep, ProducerProofs!Successor, ProducerProofs!TypeOK,
                  ProducerProofs!CoordinateData, Publisher!Successor
    <3>2. latest_' = [fix |-> ticks, sequence |-> sequence_]
      BY <2>1 DEF Producer!HandlerUpdate, Producer!Number, Producer!update
    <3>3. Publisher!CoordinateUpdate
      BY <1>1, <3>1, <3>2, ProcessAssumption
         DEF ProducerStep, appVars, Publisher!CoordinateUpdate, Publisher!update,
             Publisher!appVars, Publisher!ddsLocals
    <3> QED
      BY <3>3 DEF Publisher!Next
  <2>2. CASE ~Producer!HandlerUpdate
    <3>1. UNCHANGED latest_
      BY <1>1, <2>2 DEF ProducerStep, Producer!ProducerThread, Producer!Start,
         Producer!ScheduleNext, Producer!Arm, Producer!HandlerAborted, Producer!Dispatch,
         Producer!Generate,
         Producer!RunReturns
    <3> QED
      BY <1>1, <3>1 DEF ProducerStep
  <2> QED
    BY <2>1, <2>2
<1>2. CASE TimerExpires \/ StopProducer
  BY <1>2 DEF TimerExpires, StopProducer, Producer!TimerExpires, Producer!Stop,
              Producer!StopStore, Producer!StopCancel, Producer!StopIo
<1>3. CASE DdsStep \/ SpuriousWakeup \/ ListenerStep \/ DiscoveryStep \/ StopPublisher
  BY <1>3 DEF DdsStep, SpuriousWakeup, ListenerStep, DiscoveryStep, StopPublisher,
              Publisher!Next
<1>4. CASE MainStep \/ Signal \/ StopServer \/ ServerReturns
  BY <1>4, MainKept
<1> QED
  BY <1>1, <1>2, <1>3, <1>4 DEF Next, Handler
-----------------------------------------------------------------------------
(* The invariant holds at first ...                                        *)
LEMMA InitIInv == Init => IInv
<1> SUFFICES ASSUME Init
             PROVE  IInv
  OBVIOUS
<1>1. ProducerProofs!IInv
  BY SameProducer, Assumptions, ProducerProofs!InitIInv DEF Init
<1>2. Bounded
  BY ProcessAssumption DEF Init, Producer!Init, Producer!ProducerInit, Bounded
<1>3. ProcessTypeOK /\ Joined
  BY DEF Init, ProcessTypeOK, Joined, Joining, Over
<1> QED
  BY <1>1, <1>2, <1>3 DEF IInv

(* A thread that has ended has ended for good.                             *)
LEMMA LiveShrinks ==
  ASSUME [Next]_vars, NEW thread \in Threads, thread \notin Live,
         thread \in started' => thread \in started
  PROVE  thread \notin Live'
<1>1. producer_pc = "done" => producer_pc' = "done"
  BY ProducerSteps
     DEF Producer!Next, Producer!ProducerThread, Producer!Start, Producer!ScheduleNext,
         Producer!Arm, Producer!HandlerAborted, Producer!Dispatch, Producer!Generate, Producer!HandlerUpdate,
         Producer!RunReturns, Producer!TimerExpires, Producer!Stop, Producer!StopStore,
         Producer!StopCancel, Producer!StopIo, Producer!Goto, producerVars
<1>2. dds_pc = "done" => dds_pc' = "done"
  <2>1. CASE DdsStep
    BY <2>1 DEF DdsStep, Publisher!DdsThread, Publisher!Goto, Publisher!TestStop,
       Publisher!TestData, Publisher!MatchedLock, Publisher!MatchedPredicate,
       Publisher!MatchedBlock, Publisher!TestStopMatched, Publisher!ReadLatest,
       Publisher!WriteAccepted, Publisher!WriteRefused, Publisher!PeriodLock,
       Publisher!PeriodPredicate, Publisher!PeriodBlock, Publisher!PeriodTimeout
  <2>2. CASE SpuriousWakeup \/ ListenerStep \/ DiscoveryStep \/ StopPublisher
    BY <2>2 DEF SpuriousWakeup, ListenerStep, DiscoveryStep, StopPublisher,
       Publisher!SpuriousWakeup, Publisher!notify_one, Publisher!Awake, Publisher!Listener,
       Publisher!ListenerRecords, Publisher!ListenerNotifies, Publisher!ReaderAppears,
       Publisher!ReaderDisappears, Publisher!Stop, Publisher!StopStore, Publisher!StopNotify
  <2>3. CASE ProducerStep \/ TimerExpires \/ StopProducer
    BY <2>3 DEF ProducerStep, TimerExpires, StopProducer, appVars
  <2>4. CASE MainStep \/ Signal \/ StopServer \/ ServerReturns
    BY <2>4, MainKept DEF appVars
  <2>5. CASE UNCHANGED vars
    BY <2>5 DEF vars, appVars
  <2> QED
    BY <2>1, <2>2, <2>3, <2>4, <2>5 DEF Next, Handler
<1>3. ws_done => ws_done'
  BY DEF Next, vars, processVars, ProducerStep, TimerExpires, ServerReturns, DdsStep,
         SpuriousWakeup, ListenerStep, DiscoveryStep, MainStep, make_app, StartThreads,
         StartThread, InstallHandler, JoinThreads, Goto, Signal, Handler, Handles,
         StopProducer, StopPublisher, StopServer
<1> QED
  BY <1>1, <1>2, <1>3 DEF Live, Threads

(* ... and every step preserves it.                                        *)
LEMMA NextIInv == IInv /\ [Next]_vars => IInv'
<1> SUFFICES ASSUME IInv, [Next]_vars
             PROVE  IInv'
  OBVIOUS
<1>1. ProducerProofs!IInv'
  <2>1. [ProducerProofs!Next]_(ProducerProofs!vars)
    BY ProducerSteps, SameProducer
       DEF producerVars, ProducerProofs!vars, ProducerProofs!producerVars
  <2> QED
    BY <2>1, Assumptions, ProducerProofs!NextIInv DEF IInv
<1>2. Bounded'
  <2>1. ticks \in Nat /\ (producer_pc = "generate" => timer_ = "idle")
    BY DEF IInv, ProducerProofs!IInv, ProducerProofs!TypeOK, ProducerProofs!OneWait
  <2> QED
    BY <2>1, ProducerSteps, ProcessAssumption
       DEF IInv, Bounded, Producer!Goto, Producer!AfterUpdate, Producer!Next,
         Producer!ProducerThread, Producer!Start,
         Producer!ScheduleNext, Producer!Arm, Producer!HandlerAborted, Producer!Dispatch,
         Producer!Generate,
         Producer!get_next_coordinate, Producer!HandlerUpdate, Producer!RunReturns,
         Producer!TimerExpires, Producer!Stop, Producer!StopStore, Producer!StopCancel,
         Producer!StopIo, producerVars
<1>3. CASE main' \in {main, "terminated"} /\ UNCHANGED started
  <2>1. ProcessTypeOK'
    <3>1. UNCHANGED <<ws_done, handler, host>> \/ Signal \/ Handler \/ ServerReturns
      BY DEF Next, vars, processVars, ProducerStep, TimerExpires, DdsStep,
         SpuriousWakeup, ListenerStep, DiscoveryStep, MainStep, make_app, StartThreads,
         StartThread, InstallHandler, JoinThreads, Goto
    <3>2. /\ ws_done' \in BOOLEAN
          /\ handler' \in {"idle", "producer", "dds", "ws"}
          /\ host' \in {host, "none", "main", "discovery"} \cup Threads
      BY <1>3, <3>1 DEF IInv, ProcessTypeOK, Over, Joining, Live, Signal, Handler, Handles,
         StopProducer, StopPublisher, StopServer, ServerReturns
    <3> QED
      BY <1>3, <3>2 DEF IInv, ProcessTypeOK, Over, Joining, Threads
  <2>2. \A thread \in Threads : thread \notin Live => thread \notin Live'
    BY <1>3, LiveShrinks
  <2>3. Joined'
    BY <1>3, <2>2 DEF IInv, Joined, Threads
  <2> QED
    BY <1>1, <1>2, <2>1, <2>3 DEF IInv
<1>4. CASE MainStep
  <2>1. \A thread \in Threads :
          thread \notin Live /\ (thread \in started' => thread \in started)
            => thread \notin Live'
    BY LiveShrinks
  <2>2. CASE make_app \/ InstallHandler
    BY <1>1, <1>2, <2>2 DEF make_app, InstallHandler, Goto, IInv, ProcessTypeOK, Over, Joining,
                            Joined
  <2>3. CASE StartThreads
    BY <1>1, <1>2, <2>3 DEF StartThreads, StartThread, Goto, IInv, ProcessTypeOK, Over,
                            Joining, Joined, Threads
  <2>4. CASE JoinThreads
    BY <1>1, <1>2, <2>1, <2>4 DEF JoinThreads, Goto, IInv, ProcessTypeOK, Over, Joining,
                                  Joined, Threads
  <2> QED
    BY <1>4, <2>2, <2>3, <2>4 DEF MainStep
<1> QED
  BY <1>3, <1>4, MainMoves

(* The strengthened invariant holds throughout every execution.            *)
THEOREM Invariance == Spec => []IInv
BY InitIInv, NextIInv, PTL DEF Spec
-----------------------------------------------------------------------------
(* What the process inherits from its components, and what it adds.        *)

(* The publisher of the process is a publisher.                            *)
LEMMA PublisherBehaves == Spec => PublisherProofs!Spec
<1>1. Init => PublisherProofs!Init
  BY SamePublisher DEF Init
<1>2. IInv /\ [Next]_vars => [PublisherProofs!Next]_(PublisherProofs!vars)
  BY PublisherSteps, SamePublisher
     DEF appVars, PublisherProofs!vars, PublisherProofs!appVars, PublisherProofs!ddsLocals
<1> QED
  BY <1>1, <1>2, Invariance, PTL DEF Spec, PublisherProofs!Spec

(* The producer keeps its promise to the consumers, and the handler calls  *)
(* each stop() as it has to be called: the environment that the two modules*)
(* assume is the one that the process provides.                            *)
THEOREM Fit == Spec => ComponentsFit
<1>1. IInv /\ [Next]_vars =>
        /\ [Producer!Next]_<<latest_, producerVars>>
        /\ [Publisher!Next]_<<latest_, appVars>>
  BY ProducerSteps, PublisherSteps
<1> QED
  BY <1>1, Invariance, PTL DEF Spec, ComponentsFit

(* Every variable of the process keeps its type.                           *)
THEOREM TypeCorrect == Spec => []TypeOK
<1>1. Spec => []PublisherProofs!TypeOK
  BY PublisherBehaves, Assumptions, PublisherProofs!TypeCorrect
<1>2. IInv /\ PublisherProofs!TypeOK => TypeOK
  BY SameProducer, SamePublisher DEF IInv, ProducerProofs!IInv, ProcessTypeOK, TypeOK
<1> QED
  BY <1>1, <1>2, Invariance, PTL

(* main never returns under a thread that still runs, however start-up and *)
(* shutdown go.                                                            *)
THEOREM MainReturnsLast == Spec => []ReturnsLast
<1>1. IInv => ReturnsLast
  BY DEF IInv, Joined, ReturnsLast, Live, Threads, ProcessTypeOK
<1> QED
  BY <1>1, Invariance, PTL

(* In the process, too: no sample is torn, whatever the producer and the   *)
(* signals do.                                                             *)
THEOREM ProcessSamplesWhole == Spec => []Publisher!SamplesNotTorn
<1>1. Spec => []PublisherProofs!SamplesNotTorn
  BY PublisherBehaves, Assumptions, PublisherProofs!WholeSamples
<1>2. PublisherProofs!SamplesNotTorn => Publisher!SamplesNotTorn
  BY DEF PublisherProofs!SamplesNotTorn, Publisher!SamplesNotTorn
<1> QED
  BY <1>1, <1>2, PTL
-----------------------------------------------------------------------------
(* What each component promises by itself, the process keeps.              *)

(* The producer of the process is a producer.                              *)
LEMMA ProducerBehaves == Spec => ProducerProofs!Spec
<1>1. Init => ProducerProofs!Init
  BY SameProducer DEF Init
<1>2. [Next]_vars => [ProducerProofs!Next]_(ProducerProofs!vars)
  BY ProducerSteps, SameProducer
     DEF producerVars, ProducerProofs!vars, ProducerProofs!producerVars
<1> QED
  BY <1>1, <1>2, PTL DEF Spec, ProducerProofs!Spec

(* Whichever thread a signal interrupts, no match is lost on the publisher.*)
THEOREM ProcessMatchNotLost == Spec => []Publisher!NoLostMatch
<1>1. Spec => []PublisherProofs!NoLostMatch
  BY PublisherBehaves, Assumptions, PublisherProofs!MatchNotLost
<1>2. PublisherProofs!NoLostMatch => Publisher!NoLostMatch
  BY DEF PublisherProofs!NoLostMatch, Publisher!NoLostMatch
<1> QED
  BY <1>1, <1>2, PTL

(* The process writes a sample only while a subscriber is matched.         *)
THEOREM ProcessMatchedWhenWritten == Spec => Publisher!WrittenWhileMatched
<1>1. Spec => PublisherProofs!WrittenWhileMatched
  BY PublisherBehaves, Assumptions, PublisherProofs!MatchedWhenWritten
<1> QED
  BY <1>1 DEF PublisherProofs!WrittenWhileMatched, PublisherProofs!vars,
     PublisherProofs!appVars, PublisherProofs!ddsLocals, Publisher!WrittenWhileMatched,
     Publisher!vars, Publisher!appVars, Publisher!ddsLocals

(* Once the handler has told the publisher to stop, at most the sample that*)
(* was in flight is still written, whatever the producer still generates.  *)
THEOREM ProcessSendsLast == Spec => Publisher!LastSample
<1>1. Spec => PublisherProofs!LastSample
  BY PublisherBehaves, Assumptions, PublisherProofs!StoppedSendsLast
<1> QED
  BY <1>1 DEF PublisherProofs!LastSample, PublisherProofs!InFlight, Publisher!LastSample,
     Publisher!InFlight

(* As long as no signal comes, the producer of the process has work.       *)
THEOREM ProcessChainHolds == Spec => []Producer!ChainUnbroken
<1>1. IInv => Producer!ChainUnbroken
  BY DEF IInv, ProducerProofs!IInv, ProducerProofs!ChainUnbroken, Producer!ChainUnbroken
<1> QED
  BY <1>1, Invariance, PTL

(* When stop() of the producer has returned to the handler, no tick begins.*)
THEOREM ProcessStopsTicking == Spec => Producer!NoTickAfterStop
<1>1. Spec => ProducerProofs!NoTickAfterStop
  BY ProducerBehaves, Assumptions, ProducerProofs!StoppedTicksNoMore
<1> QED
  BY <1>1 DEF ProducerProofs!NoTickAfterStop, ProducerProofs!Begun, ProducerProofs!vars,
     ProducerProofs!producerVars, Producer!NoTickAfterStop, Producer!Begun, Producer!vars,
     Producer!producerVars
-----------------------------------------------------------------------------
(* The order of start-up and shutdown.                                     *)

\* Threads start one after the other; the publisher is told to stop when the producer
\* has stopped, and its thread ends when it is told to.
Ordered ==
  /\ main \in {"make_app", "start_producer"} => started = {}
  /\ main = "start_dds" => started = {"producer"}
  /\ main = "start_ws" => started = {"producer", "dds"}
  /\ Joining \/ main \in {"install", "exited"} => started = Threads
  /\ handler \in {"dds", "ws"} => io_stopped
  /\ stop_ => io_stopped
  /\ dds_pc = "done" => stop_

(* Nothing takes a stop back, and only the publisher's stop() sets stop_.  *)
LEMMA StopsStay ==
  ASSUME [Next]_vars
  PROVE  /\ io_stopped => io_stopped'
         /\ stop_ => stop_'
         /\ stop_' # stop_ => handler = "dds"
<1>1. CASE ProducerStep \/ TimerExpires \/ StopProducer
  BY <1>1 DEF ProducerStep, TimerExpires, StopProducer, appVars, Producer!ProducerThread,
     Producer!Start, Producer!ScheduleNext, Producer!Arm, Producer!HandlerAborted,
     Producer!Dispatch, Producer!Generate, Producer!HandlerUpdate, Producer!RunReturns, Producer!TimerExpires,
     Producer!Stop, Producer!StopStore, Producer!StopCancel, Producer!StopIo
<1>2. CASE DdsStep \/ SpuriousWakeup \/ ListenerStep \/ DiscoveryStep
  BY <1>2 DEF DdsStep, SpuriousWakeup, ListenerStep, DiscoveryStep, producerVars,
     Publisher!DdsThread, Publisher!othersVars, Publisher!TestStop, Publisher!TestData,
     Publisher!MatchedLock, Publisher!MatchedPredicate, Publisher!MatchedBlock,
     Publisher!TestStopMatched, Publisher!ReadLatest, Publisher!WriteAccepted,
     Publisher!WriteRefused, Publisher!PeriodLock, Publisher!PeriodPredicate,
     Publisher!PeriodBlock, Publisher!PeriodTimeout, Publisher!SpuriousWakeup,
     Publisher!Listener, Publisher!ListenerRecords, Publisher!ListenerNotifies,
     Publisher!ReaderAppears, Publisher!ReaderDisappears
<1>3. CASE StopPublisher
  BY <1>3 DEF StopPublisher, Handles, producerVars, Publisher!Stop, Publisher!StopStore,
     Publisher!StopNotify
<1>4. CASE MainStep \/ Signal \/ StopServer \/ ServerReturns
  BY <1>4, MainKept DEF producerVars, appVars
<1>5. CASE UNCHANGED vars
  BY <1>5 DEF vars, producerVars, appVars
<1> QED
  BY <1>1, <1>2, <1>3, <1>4, <1>5 DEF Next, Handler

(* The publisher's thread ends only after it was told to.                  *)
LEMMA EndsWhenTold ==
  ASSUME [Next]_vars, dds_pc = "done" => stop_
  PROVE  dds_pc' = "done" => stop_'
<1>1. CASE DdsStep
  BY <1>1, StopsStay DEF DdsStep, Publisher!DdsThread, Publisher!Goto, Publisher!is_stopped, Publisher!TestStop,
     Publisher!TestData, Publisher!MatchedLock, Publisher!MatchedPredicate,
     Publisher!MatchedBlock, Publisher!TestStopMatched, Publisher!ReadLatest,
     Publisher!WriteAccepted, Publisher!WriteRefused, Publisher!PeriodLock,
     Publisher!PeriodPredicate, Publisher!PeriodBlock, Publisher!PeriodTimeout
<1>2. CASE SpuriousWakeup \/ ListenerStep \/ DiscoveryStep \/ StopPublisher
  BY <1>2, StopsStay DEF SpuriousWakeup, ListenerStep, DiscoveryStep, StopPublisher,
     Publisher!SpuriousWakeup, Publisher!notify_one, Publisher!Awake, Publisher!Listener,
     Publisher!ListenerRecords, Publisher!ListenerNotifies, Publisher!ReaderAppears,
     Publisher!ReaderDisappears, Publisher!Stop, Publisher!StopStore, Publisher!StopNotify
<1>3. CASE ProducerStep \/ TimerExpires \/ StopProducer
  BY <1>3 DEF ProducerStep, TimerExpires, StopProducer, appVars
<1>4. CASE MainStep \/ Signal \/ StopServer \/ ServerReturns
  BY <1>4, MainKept DEF appVars
<1>5. CASE UNCHANGED vars
  BY <1>5 DEF vars, appVars
<1> QED
  BY <1>1, <1>2, <1>3, <1>4, <1>5 DEF Next, Handler

(* The handler passes from the producer to the publisher only when the     *)
(* io_context is stopped.                                                  *)
LEMMA HandlerPasses ==
  ASSUME [Next]_vars, IInv', handler \in {"dds", "ws"} => io_stopped
  PROVE  handler' \in {"dds", "ws"} => io_stopped'
<1>1. CASE StopProducer
  <2>1. handler = "producer" /\ (handler' # handler => producer_stop' = "returned")
    BY <1>1 DEF StopProducer, Handles
  <2>2. producer_stop' = "returned" => io_stopped'
    BY DEF IInv, ProducerProofs!IInv, ProducerProofs!StoppedForGood
  <2> QED
    BY <2>1, <2>2
<1>2. CASE StopPublisher \/ StopServer
  BY <1>2, StopsStay DEF StopPublisher, StopServer, Handles
<1>3. CASE Signal
  BY <1>3 DEF Signal
<1>4. CASE ~StopProducer /\ ~StopPublisher /\ ~StopServer /\ ~Signal
  <2>1. UNCHANGED handler
    BY <1>4 DEF Next, vars, processVars, ProducerStep, TimerExpires, ServerReturns, DdsStep,
       SpuriousWakeup, ListenerStep, DiscoveryStep, MainStep, make_app, StartThreads,
       StartThread, InstallHandler, JoinThreads, Goto, Handler
  <2> QED
    BY <2>1, StopsStay
<1> QED
  BY <1>1, <1>2, <1>3, <1>4

(* The order holds at first, and every step keeps it.                      *)
LEMMA Ordering == Spec => []Ordered
<1>1. Init => Ordered
  BY DEF Init, Ordered, Joining, Producer!Init, Producer!ProducerInit, Publisher!Init,
         Publisher!AppInit
<1>2. IInv' /\ Ordered /\ [Next]_vars => Ordered'
  <2> SUFFICES ASSUME IInv', Ordered, [Next]_vars
               PROVE  Ordered'
    OBVIOUS
  <2>1. /\ main' \in {"make_app", "start_producer"} => started' = {}
        /\ main' = "start_dds" => started' = {"producer"}
        /\ main' = "start_ws" => started' = {"producer", "dds"}
        /\ Joining' \/ main' \in {"install", "exited"} => started' = Threads
    <3>1. CASE MainStep
      BY <3>1 DEF MainStep, make_app, StartThreads, StartThread, InstallHandler, JoinThreads,
                  Goto, Ordered, Joining, Threads
    <3>2. CASE ~MainStep
      <4>1. main' \in {main, "terminated"} /\ UNCHANGED started
        BY <3>2, MainMoves
      <4> QED
        BY <4>1 DEF Ordered, Joining
    <3> QED
      BY <3>1, <3>2
  <2>2. handler' \in {"dds", "ws"} => io_stopped'
    BY HandlerPasses DEF Ordered
  <2>3. stop_' => io_stopped'
    BY StopsStay DEF Ordered
  <2>4. dds_pc' = "done" => stop_'
    BY EndsWhenTold DEF Ordered
  <2> QED
    BY <2>1, <2>2, <2>3, <2>4 DEF Ordered
<1> QED
  BY <1>1, <1>2, Invariance, PTL DEF Spec

(* Once the publisher is told to stop at most the tick that is under way   *)
(* brings another coordinate, on whichever thread the handler runs and     *)
(* whatever it interrupts.                                                 *)
THEOREM SourceFirst == Spec => SourceStopsFirst
<1>1. IInv /\ Ordered /\ [Next]_vars => [stop_ => Producer!Begun' = Producer!Begun]_vars
  <2> SUFFICES ASSUME IInv, Ordered, [Next]_vars, stop_
               PROVE  Producer!Begun' = Producer!Begun
    OBVIOUS
  <2>1. io_stopped /\ ticks \in Nat
    BY DEF Ordered, IInv, ProducerProofs!IInv, ProducerProofs!TypeOK
  <2>2. CASE Producer!Generate
    BY <2>1, <2>2 DEF Producer!Begun, Producer!Generate, Producer!Goto,
       Producer!get_next_coordinate
  <2>3. CASE ~Producer!Generate
    BY <2>1, <2>3, ProducerSteps DEF Producer!Begun, producerVars, Producer!Next, Producer!ProducerThread,
       Producer!Start, Producer!ScheduleNext, Producer!Arm, Producer!HandlerAborted,
       Producer!Dispatch, Producer!HandlerUpdate, Producer!AfterUpdate, Producer!Goto,
       Producer!RunReturns, Producer!TimerExpires, Producer!Stop, Producer!StopStore,
       Producer!StopCancel, Producer!StopIo
  <2> QED
    BY <2>2, <2>3
<1> QED
  BY <1>1, Ordering, Invariance, PTL DEF Spec, SourceStopsFirst

(* main comes to its end only when the producer and the publisher were told*)
(* to stop.                                                                *)
THEOREM ExitNeedsStop == Spec => []ExitsWhenTold
<1>1. IInv /\ Ordered => ExitsWhenTold
  BY DEF IInv, Joined, Ordered, ExitsWhenTold, Live, Threads
<1> QED
  BY <1>1, Invariance, Ordering, PTL
-----------------------------------------------------------------------------
(* From the generator to the DDS writer.                                   *)

(* The process implements SampledStream: what the publisher reads was      *)
(* generated before, whichever steps of the producer come in between.      *)
THEOREM EndToEndRefinement == Spec => ForwardsGenerated
<1>1. Init => EndToEnd!Init
  BY EmptySeq DEF Init, Producer!Init, Producer!ProducerInit, Publisher!Init,
     Publisher!AppInit, Publisher!Published, EndToEnd!Init
<1>2. IInv /\ PublisherProofs!IInv /\ [Next]_vars
        => [EndToEnd!Next]_<<ticks, Publisher!Published>>
  <2> SUFFICES ASSUME IInv, PublisherProofs!IInv, [Next]_vars
               PROVE  \/ EndToEnd!Next
                      \/ UNCHANGED <<ticks, Publisher!Published>>
    OBVIOUS
  <2>1. CASE UNCHANGED appVars
    <3>1. UNCHANGED Publisher!Published
      BY <2>1 DEF appVars, Publisher!Published
    <3>2. ticks' = ticks \/ ticks' = ticks + 1
      BY ProducerSteps DEF producerVars, Producer!Next, Producer!ProducerThread,
         Producer!Start, Producer!ScheduleNext, Producer!Arm, Producer!HandlerAborted,
         Producer!Dispatch, Producer!Generate, Producer!get_next_coordinate, Producer!HandlerUpdate,
         Producer!RunReturns, Producer!TimerExpires, Producer!Stop, Producer!StopStore,
         Producer!StopCancel, Producer!StopIo
    <3> QED
      BY <3>1, <3>2 DEF EndToEnd!Next, EndToEnd!Produce
  <2>2. CASE UNCHANGED producerVars
    <3>1. UNCHANGED ticks
      BY <2>2 DEF producerVars
    <3>2. [PublisherProofs!Next]_(PublisherProofs!vars)
      BY PublisherSteps, SamePublisher
         DEF appVars, PublisherProofs!vars, PublisherProofs!appVars,
             PublisherProofs!ddsLocals
    <3>3. /\ PublisherProofs!Published = Publisher!Published
          /\ PublisherProofs!Published' = Publisher!Published'
      BY DEF PublisherProofs!Published, Publisher!Published
    <3>4. PublisherProofs!LastFix(PublisherProofs!Published) = EndToEnd!Newest
      BY <3>3 DEF PublisherProofs!LastFix, EndToEnd!Newest
    <3>5. \/ UNCHANGED PublisherProofs!Published
          \/ /\ PublisherProofs!LastFix(PublisherProofs!Published) \in Nat
             /\ \E fix \in PublisherProofs!LastFix(PublisherProofs!Published) + 1
                               .. latest_.fix :
                  PublisherProofs!Published' = Append(PublisherProofs!Published, fix)
      BY <3>2, Assumptions, PublisherProofs!StepForwards
    <3>6. CASE UNCHANGED PublisherProofs!Published
      BY <3>1, <3>3, <3>6
    <3>7. CASE ~UNCHANGED PublisherProofs!Published
      <4>1. /\ EndToEnd!Newest \in Nat
            /\ \E fix \in EndToEnd!Newest + 1 .. latest_.fix :
                 Publisher!Published' = Append(Publisher!Published, fix)
        BY <3>3, <3>4, <3>5, <3>7
      <4>2. PICK fix \in EndToEnd!Newest + 1 .. latest_.fix :
              Publisher!Published' = Append(Publisher!Published, fix)
        BY <4>1
      <4>3. latest_.fix \in Nat /\ ticks \in Nat /\ latest_.fix <= ticks
        BY DEF IInv, ProducerProofs!IInv, ProducerProofs!TypeOK,
               ProducerProofs!CoordinateData, ProducerProofs!InStep
      <4>4. fix \in EndToEnd!Newest + 1 .. ticks
        BY <4>1, <4>3
      <4> QED
        BY <3>1, <4>2, <4>4 DEF EndToEnd!Next, EndToEnd!Emit
    <3> QED
      BY <3>6, <3>7
  <2>3. UNCHANGED appVars \/ UNCHANGED producerVars
    BY MainKept DEF Next, vars, Handler, ProducerStep, TimerExpires, StopProducer, DdsStep,
       SpuriousWakeup, ListenerStep, DiscoveryStep, StopPublisher
  <2> QED
    BY <2>1, <2>2, <2>3
<1>3. Spec => []PublisherProofs!IInv
  BY PublisherBehaves, Assumptions, PublisherProofs!Invariance
<1> QED
  BY <1>1, <1>2, <1>3, Invariance, PTL DEF Spec, ForwardsGenerated, EndToEnd!Spec

(* Whatever thread a signal interrupts, shutdown keeps its order.          *)
THEOREM Shutdown == Spec => []ShutdownInOrder
BY MainReturnsLast, ExitNeedsStop, PTL DEF ShutdownInOrder
=============================================================================
