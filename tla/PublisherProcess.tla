-------------------------- MODULE PublisherProcess --------------------------
(***************************************************************************)
(* The publisher process (src/src/Messengermain.cxx): main constructs the  *)
(* components, of which the DDS publisher can fail, starts the threads one *)
(* by one, any of which may fail, installs the signal handler, which stops *)
(* the components in turn, and joins the threads in the same order.        *)
(*                                                                         *)
(* A signal is handled on any thread of the process, and that thread does  *)
(* nothing else until the handler returns.  The model handles one signal at*)
(* a time, but any number of them.  The WebSocket server, the last in every*)
(* order and only a reader of the shared state, is modelled in its own     *)
(* module; here are left of it the thread that can be interrupted, the call*)
(* of its stop(), which may end the process, and the moment, left open, at *)
(* which its thread ends.                                                  *)
(***************************************************************************)
EXTENDS Integers, Sequences

CONSTANTS SeqMod, MaxTicks, MaxReaders

\* What the instances below assume of them.
ASSUME ProcessAssumption ==
  /\ SeqMod \in Nat /\ SeqMod > 1
  /\ MaxTicks \in Nat
  /\ MaxReaders \in Nat

VARIABLES
  latest_,
  \* CoordinateProducer
  running_, sequence_, ticks, timer_, io_stopped, producer_pc, producer_stop,
  \* MessengerPublisherApp
  stop_, matched_, mutex_, last_published_sequence_, samples_sent_, coord_data,
  history, readers, listener, dds_pc, app_stop,
  \* main and the signal handler
  main,       \* where main is, or how it ended
  started,    \* the threads that main has started
  ws_done,    \* the thread of the WebSocket server has returned from run()
  handler,    \* whose stop() the handler is in
  host        \* the thread that runs the handler

Producer == INSTANCE CoordinateProducer
Publisher == INSTANCE MessengerPublisherApp

producerVars == <<running_, sequence_, ticks, timer_, io_stopped, producer_pc,
                  producer_stop>>
appVars == <<stop_, matched_, mutex_, last_published_sequence_, samples_sent_,
             coord_data, history, readers, listener, dds_pc, app_stop>>
processVars == <<main, started, ws_done, handler, host>>
vars == <<latest_, producerVars, appVars, processVars>>

Threads == {"producer", "dds", "ws"}

\* A return, after "Shutdown complete." or the catch; or std::terminate.
Over == main \in {"exited", "failed", "terminated"}

Joining == main \in {"join_producer", "join_dds", "join_ws"}

\* The types of both components, and where main and the handler of signals are.
TypeOK ==
  /\ Producer!TypeOK
  /\ Publisher!TypeOK
  /\ \/ Over \/ Joining
     \/ main \in {"make_app", "start_producer", "start_dds", "start_ws", "install"}
  /\ started \in SUBSET Threads
  /\ ws_done \in BOOLEAN
  /\ handler \in {"idle", "producer", "dds", "ws"}
  /\ host \in {"none", "main", "producer", "dds", "discovery", "ws"}

Init ==
  /\ Producer!Init
  /\ Publisher!Init
  /\ main = "make_app"
  /\ started = {}
  /\ ws_done = FALSE
  /\ handler = "idle"
  /\ host = "none"

Handling == host # "none"

\* A thread that runs the handler does nothing else, and main's end is the end of all.
Free(thread) == ~Over /\ host # thread

\* Fast DDS calls the listener from the creation of the writer on, before the
\* constructor returns.
Discovering == Free("discovery")

Live ==
  started \ ((IF producer_pc = "done" THEN {"producer"} ELSE {})
               \cup (IF dds_pc = "done" THEN {"dds"} ELSE {})
               \cup (IF ws_done THEN {"ws"} ELSE {}))
-----------------------------------------------------------------------------
ProducerStep ==
  /\ Free("producer") /\ "producer" \in started
  /\ Producer!ProducerThread
  /\ UNCHANGED <<appVars, processVars>>

DdsStep ==
  /\ Free("dds") /\ "dds" \in started
  /\ Publisher!DdsThread
  /\ UNCHANGED <<producerVars, processVars>>

ListenerStep ==
  /\ Discovering
  /\ Publisher!Listener
  /\ UNCHANGED <<producerVars, processVars>>

DiscoveryStep ==
  /\ Discovering
  /\ Publisher!ReaderAppears \/ Publisher!ReaderDisappears
  /\ UNCHANGED <<producerVars, processVars>>

\* Time passes, and waits return for no reason.
TimerExpires ==
  /\ ~Over
  /\ Producer!TimerExpires
  /\ UNCHANGED <<appVars, processVars>>

SpuriousWakeup ==
  /\ Free("dds")
  /\ Publisher!SpuriousWakeup
  /\ UNCHANGED <<producerVars, processVars>>

\* The thread of the WebSocket server: its run() returns at some time, or never.
ServerReturns ==
  /\ Free("ws") /\ "ws" \in Live
  /\ ws_done' = TRUE
  /\ UNCHANGED <<latest_, producerVars, appVars, main, started, handler, host>>
-----------------------------------------------------------------------------
(* main.                                                                   *)

Goto(from, to) ==
  /\ Free("main")
  /\ main = from /\ main' = to
  /\ UNCHANGED <<latest_, producerVars, appVars, ws_done, handler, host>>

\* make_app constructs the publisher; the participant, the publisher, the topic or the
\* writer may fail, which throws before shared_state_ is set.
make_app ==
  /\ \E to \in {"start_producer", "failed"} : Goto("make_app", to)
  /\ UNCHANGED started

\* The constructor of one std::thread.  Its exception is a runtime_error, which main
\* catches, but on the way it destroys the threads before it, and a joinable one calls
\* std::terminate.
StartThread(thread, from, to) ==
  \/ Goto(from, to) /\ started' = started \cup {thread}
  \/ Goto(from, IF started = {} THEN "failed" ELSE "terminated") /\ UNCHANGED started

StartThreads ==
  \/ StartThread("producer", "start_producer", "start_dds")
  \/ StartThread("dds", "start_dds", "start_ws")
  \/ StartThread("ws", "start_ws", "install")

\* The std::function is assigned before signal() is called for the first time; a
\* signal before that has its default effect and ends the process.
InstallHandler == Goto("install", "join_producer") /\ UNCHANGED started

\* Mutant: the publisher's thread is not joined.
JoinThreadsButOne ==
  /\ \/ "producer" \notin Live /\ Goto("join_producer", "join_ws")
     \/ "ws" \notin Live /\ Goto("join_ws", "exited")
  /\ UNCHANGED started

JoinThreads ==
  /\ \/ "producer" \notin Live /\ Goto("join_producer", "join_dds")
     \/ "dds" \notin Live /\ Goto("join_dds", "join_ws")
     \/ "ws" \notin Live /\ Goto("join_ws", "exited")
  /\ UNCHANGED started

MainStep == make_app \/ StartThreads \/ InstallHandler \/ JoinThreads
-----------------------------------------------------------------------------
(* The signal handler.                                                     *)

\* The threads that a signal can interrupt.
Signal ==
  /\ Joining
  /\ handler = "idle"
  /\ handler' = "producer"
  /\ host' \in {"main", "discovery"} \cup Live
  /\ UNCHANGED <<latest_, producerVars, appVars, main, started, ws_done>>

Handles(component) ==
  /\ ~Over /\ handler = component
  /\ UNCHANGED <<started, ws_done>>

\* Mutant: the handler forgets the producer.
StopProducerForgotten ==
  /\ Handles("producer")
  /\ handler' = "dds"
  /\ UNCHANGED <<latest_, producerVars, appVars, main, host>>

StopProducer ==
  /\ Handles("producer")
  /\ Producer!Stop
  /\ handler' = IF producer_stop' = "returned" THEN "dds" ELSE handler
  /\ UNCHANGED <<appVars, main, host>>

\* Mutant: the handler forgets the publisher.
StopPublisherForgotten ==
  /\ Handles("dds")
  /\ handler' = "ws"
  /\ UNCHANGED <<latest_, producerVars, appVars, main, host>>

StopPublisher ==
  /\ Handles("dds")
  /\ Publisher!Stop
  /\ handler' = IF app_stop' = "returned" THEN "ws" ELSE handler
  /\ UNCHANGED <<producerVars, main, host>>

\* ws_server->stop(), and the handler returns.  As long as the server's thread lives, the
\* loop of stop() over m_connections may race with it, and that may end the process
\* (RaceOutcome of WebSocketServer).
StopServer ==
  /\ Handles("ws")
  /\ main' \in {main} \cup (IF "ws" \in Live THEN {"terminated"} ELSE {})
  /\ handler' = "idle"
  /\ host' = "none"
  /\ UNCHANGED <<latest_, producerVars, appVars>>

Handler == StopProducer \/ StopPublisher \/ StopServer
-----------------------------------------------------------------------------
Next ==
  \/ ProducerStep \/ TimerExpires \/ ServerReturns
  \/ DdsStep \/ SpuriousWakeup \/ ListenerStep \/ DiscoveryStep
  \/ MainStep \/ Signal \/ Handler

Spec == Init /\ [][Next]_vars

\* The two threads and the handler run.  Signals may come so often that a thread is
\* free only now and then: its fairness is strong.
Fairness ==
  /\ SF_vars(ProducerStep)
  /\ SF_vars(DdsStep)
  /\ WF_vars(Handler)

FairSpec == Spec /\ Fairness
-----------------------------------------------------------------------------
EndToEnd ==
  INSTANCE SampledStream WITH produced <- ticks, emitted <- Publisher!Published

(* The process is an environment such as each of the two modules assumes:  *)
(* the producer changes the shared state only as its consumers expect, and *)
(* a stop() begins only when the one before has returned.                  *)
ComponentsFit ==
  /\ [][Producer!Next]_<<latest_, producerVars>>
  /\ [][Publisher!Next]_<<latest_, appVars>>

(* However start-up and shutdown go, main does not return, and so destroy  *)
(* what they use, under a thread that still runs.                          *)
ReturnsLast == main \in {"exited", "failed"} => Live = {}

(* From the generator to the DDS writer, through the shared state: what the*)
(* process publishes is a sub-stream of the coordinates that it generated, *)
(* in order and none twice.                                                *)
ForwardsGenerated == EndToEnd!Spec

(* The source is stopped first: once the publisher has been told to stop,  *)
(* no further tick begins.  A handler that asio had dispatched before may  *)
(* still generate its coordinate, even when both stop() have returned, and *)
(* the publisher need not see it any more; that one is the only one.       *)
SourceStopsFirst == [][stop_ => Producer!Begun' = Producer!Begun]_vars

(* The process does not end by itself: main prints "Shutdown complete."    *)
(* only after the handler has stopped the producer and the publisher.      *)
ExitsWhenTold == main = "exited" => io_stopped /\ stop_

(* Shutdown keeps its order: main returns after its threads, and comes to  *)
(* its regular end only after both components were told to stop.           *)
ShutdownInOrder == ReturnsLast /\ ExitsWhenTold

(* A signal ends the producer thread, whichever thread it interrupts - the *)
(* producer itself between any two of its steps, too - and at any time, the*)
(* producer's start included.                                              *)
SignalEndsProducer == Handling ~> producer_pc = "done" \/ Over

(* Whoever keeps sending signals ends the publisher's thread: what one call*)
(* of stop() may lose another repairs, although main still waits.          *)
SignalsEndPublisher == []<>Handling => <>(dds_pc = "done")
=============================================================================
