-------------------------- MODULE WebSocketServer --------------------------
(***************************************************************************)
(* The WebSocket server of the publisher (src/src/WebSocketServer.cpp).    *)
(* One thread calls run(): it starts to listen, arms a timer and runs the  *)
(* asio loop, which calls on_open, on_close and the timer's handler one at *)
(* a time.  stop() is called by the signal handler on another thread at any*)
(* moment, walks over m_connections without a lock, and gives up at the    *)
(* first exception.                                                        *)
(*                                                                         *)
(* websocketpp and asio are external.  The model keeps of them: a session  *)
(* is opened, closed and terminated by the loop only, but close() makes it *)
(* "closing" at once; send() and close() throw unless the session is open; *)
(* a terminated session stays in m_connections until its on_close is       *)
(* called; stop_listening() throws unless listening; run() returns when the*)
(* loop is stopped or has no work.  on_message only echoes to its sender   *)
(* and is left out, as are the counters of the log lines.                  *)
(***************************************************************************)
EXTENDS SharedCoordinateState, Sequences

CONSTANT Clients        \* bound: clients connected at the same time

VARIABLES
  m_running,                 \* std::atomic<bool> m_running
  m_connections,             \* the set of handles; no lock protects it
  last_broadcast_sequence_,  \* uint32_t, server thread only
  coord_data,                \* local of the timer's handler
  to_send,                   \* what the loop of broadcast() has still to visit
  session,                   \* websocketpp's state of each client's connection
  sent,                      \* coordinates sent to each client, by ordinal
  listening,                 \* the acceptor is open
  ws_timer,                  \* state of the timer's wait
  ws_io_stopped,             \* the asio loop was stopped
  ws_pc,                     \* where the server thread is
  ws_stop,                   \* where the caller of stop() is
  to_close                   \* what the loop of stop() has still to visit

tickVars == <<last_broadcast_sequence_, coord_data, to_send, sent>>
loopVars == <<listening, ws_timer, ws_io_stopped>>
stopVars == <<ws_stop, to_close>>
serverVars == <<latest_, m_running, m_connections, session>>
wsVars == <<m_running, m_connections, tickVars, session, loopVars, ws_pc, stopVars>>
vars == <<latest_, wsVars>>

\* Every variable keeps its type; broadcast() and stop() have only members of
\* m_connections left to visit.
TypeOK ==
  /\ latest_ \in CoordinateData
  /\ m_running \in BOOLEAN
  /\ m_connections \in SUBSET Clients
  /\ last_broadcast_sequence_ \in Sequence
  /\ coord_data \in CoordinateData
  /\ to_send \in SUBSET m_connections
  /\ session \in [Clients -> {"none", "connecting", "open", "closing", "closed"}]
  /\ sent \in [Clients -> Seq(Nat)]
  /\ listening \in BOOLEAN
  /\ ws_timer \in {"idle", "armed", "expired"}
  /\ ws_io_stopped \in BOOLEAN
  /\ ws_pc \in {"start", "listen", "accept", "arm", "run", "has_data", "read",
                "broadcast", "done", "crashed"}
  /\ ws_stop \in {"idle", "store", "begin", "close", "unlisten", "stop_io",
                  "returned", "crashed"}
  /\ to_close \in SUBSET m_connections

WsInit ==
  /\ m_running = FALSE
  /\ m_connections = {}
  /\ last_broadcast_sequence_ = 0
  /\ coord_data = NoCoordinate
  /\ to_send = {}
  /\ session = [c \in Clients |-> "none"]
  /\ sent = [c \in Clients |-> << >>]
  /\ listening = FALSE
  /\ ws_timer = "idle"
  /\ ws_io_stopped = FALSE
  /\ ws_pc = "start"
  /\ ws_stop = "idle"
  /\ to_close = {}

Init == SharedStateInit /\ WsInit

Goto(from, to) == ws_pc = from /\ ws_pc' = to
-----------------------------------------------------------------------------
(* run(): the steps before the loop.                                       *)

SetRunning ==
  /\ Goto("start", "listen")
  /\ m_running' = TRUE
  /\ UNCHANGED <<latest_, m_connections, tickVars, session, loopVars, stopVars>>

\* init_asio(), the handlers and listen(), which throws if the port is taken: the
\* exception is logged and run() returns.
Listen ==
  \/ /\ Goto("listen", "accept")
     /\ listening' = TRUE
     /\ UNCHANGED <<serverVars, tickVars, ws_timer, ws_io_stopped, stopVars>>
  \/ /\ Goto("listen", "done")
     /\ UNCHANGED <<serverVars, tickVars, loopVars, stopVars>>

\* start_accept() throws if stop() has closed the acceptor meanwhile.
StartAccept ==
  /\ Goto("accept", IF listening THEN "arm" ELSE "done")
  /\ UNCHANGED <<serverVars, tickVars, loopVars, stopVars>>

\* schedule(): called by run() once and at the end of every tick.
Schedule ==
  /\ Goto("arm", "run")
  /\ ws_timer' = "armed"
  /\ UNCHANGED <<serverVars, tickVars, listening, ws_io_stopped, stopVars>>
-----------------------------------------------------------------------------
(* The asio loop starts one handler after the other.                       *)

Crashed == ws_pc = "crashed"

\* Mutant: a second thread runs the loop and calls handlers, too.
InLoopTwice == ~ws_io_stopped

InLoop == ws_pc = "run" /\ ~ws_io_stopped

TimerExpires ==
  /\ ws_timer = "armed"
  /\ ws_timer' = "expired"
  /\ UNCHANGED <<serverVars, tickVars, listening, ws_io_stopped, ws_pc, stopVars>>

\* Mutant: the handler does not look at m_running.
TickUntested ==
  /\ InLoop
  /\ ws_timer = "expired"
  /\ ws_timer' = "idle"
  /\ ws_pc' = "has_data"
  /\ UNCHANGED <<serverVars, tickVars, listening, ws_io_stopped, stopVars>>

\* The handler of the timer: it ends the chain if stop() was called.
Tick ==
  /\ InLoop
  /\ ws_timer = "expired"
  /\ ws_timer' = "idle"
  /\ ws_pc' = IF m_running THEN "has_data" ELSE "run"
  /\ UNCHANGED <<serverVars, tickVars, listening, ws_io_stopped, stopVars>>

\* Mutant: a tick that has nothing to send returns without scheduling the next one.
TestDataReturns ==
  /\ Goto("has_data", IF has_data /\ m_connections # {} THEN "read" ELSE "run")
  /\ UNCHANGED <<serverVars, tickVars, loopVars, stopVars>>

TestData ==
  /\ Goto("has_data", IF has_data /\ m_connections # {} THEN "read" ELSE "arm")
  /\ UNCHANGED <<serverVars, tickVars, loopVars, stopVars>>

\* Mutant: a coordinate that was already broadcast counts as new.
IsNewAlways(data) == TRUE

IsNew(data) == data.sequence > last_broadcast_sequence_

ReadLatest ==
  /\ coord_data' = get_latest
  /\ \/ /\ IsNew(get_latest)
        /\ Goto("read", "broadcast")
        /\ to_send' = m_connections
     \/ /\ ~IsNew(get_latest)
        /\ Goto("read", "arm")
        /\ UNCHANGED to_send
  /\ UNCHANGED <<serverVars, last_broadcast_sequence_, sent, loopVars, stopVars>>

\* Mutant: the exception of one send() ends the broadcast.
RemainingAborts(c) == IF session[c] = "open" THEN to_send \ {c} ELSE {}

Remaining(c) == to_send \ {c}

\* One turn of the loop of broadcast(): send() throws if stop() or the client has
\* begun to close the session; the exception is caught for this client alone.
BroadcastTo(c) ==
  /\ ws_pc = "broadcast"
  /\ c \in to_send
  /\ to_send' = Remaining(c)
  /\ sent' = IF session[c] = "open"
             THEN [sent EXCEPT ![c] = Append(@, coord_data.fix)]
             ELSE sent
  /\ UNCHANGED <<serverVars, last_broadcast_sequence_, coord_data, loopVars, ws_pc,
                 stopVars>>

BroadcastDone ==
  /\ Goto("broadcast", "arm")
  /\ to_send = {}
  /\ last_broadcast_sequence_' = coord_data.sequence
  /\ UNCHANGED <<serverVars, coord_data, to_send, sent, loopVars, stopVars>>

\* run() returns; the handlers that are left never run.
RunReturns ==
  /\ Goto("run", "done")
  /\ \/ ws_io_stopped
     \/ ~listening /\ ws_timer = "idle" /\ \A c \in Clients : session[c] = "none"
  /\ UNCHANGED <<serverVars, tickVars, loopVars, stopVars>>

ServerThread ==
  \/ SetRunning \/ Listen \/ StartAccept \/ Schedule
  \/ Tick \/ TestData \/ ReadLatest \/ (\E c \in Clients : BroadcastTo(c)) \/ BroadcastDone
  \/ RunReturns
-----------------------------------------------------------------------------
(* Sessions: what clients do, as the loop learns of it.                    *)

\* An insertion or an erasure under the loop of stop() is a data race on the tree:
\* that loop goes on with any of the elements, or a freed node ends the process.
RaceOutcome(members) ==
  \/ /\ ws_stop # "close"
     /\ UNCHANGED <<to_close, ws_stop, ws_pc>>
  \/ /\ ws_stop = "close"
     /\ to_close' \in SUBSET members
     /\ UNCHANGED <<ws_stop, ws_pc>>
  \/ /\ ws_stop = "close"
     /\ ws_stop' = "crashed" /\ ws_pc' = "crashed"
     /\ to_close' = {}

SessionStep(c, from, to) ==
  /\ InLoop
  /\ session[c] \in from
  /\ session' = [session EXCEPT ![c] = to]
  /\ UNCHANGED <<latest_, m_running, tickVars, loopVars>>

Unhandled == UNCHANGED <<m_connections, ws_pc, stopVars>>

Accept(c) == listening /\ SessionStep(c, {"none"}, "connecting") /\ Unhandled

HandshakeFails(c) == SessionStep(c, {"connecting"}, "none") /\ Unhandled

on_open(c) ==
  /\ SessionStep(c, {"connecting"}, "open")
  /\ m_connections' = m_connections \cup {c}
  /\ RaceOutcome(m_connections')

\* The client's close frame arrives.
ClientCloses(c) == SessionStep(c, {"open"}, "closing") /\ Unhandled

\* The closing handshake ends or times out, or the TCP connection breaks.
Terminate(c) == SessionStep(c, {"open", "closing"}, "closed") /\ Unhandled

EraseConnection(c) == m_connections \ {c}

on_close(c) ==
  /\ SessionStep(c, {"closed"}, "none")
  /\ m_connections' = EraseConnection(c)
  /\ RaceOutcome(m_connections')

Sessions ==
  \E c \in Clients :
    \/ Accept(c) \/ HandshakeFails(c) \/ on_open(c)
    \/ ClientCloses(c) \/ Terminate(c) \/ on_close(c)
-----------------------------------------------------------------------------
(* stop().                                                                 *)

\* Mutant: stop() goes on whatever m_running says.
StopTestDropped ==
  /\ ws_stop \in {"idle", "returned"}
  /\ ws_stop' = "store"
  /\ UNCHANGED <<serverVars, tickVars, loopVars, ws_pc, to_close>>

\* A call that finds m_running unset returns at once: before run() has begun, and
\* after an earlier call, whatever that one achieved.
StopTest ==
  /\ ws_stop \in {"idle", "returned"}
  /\ ws_stop' = IF m_running THEN "store" ELSE "returned"
  /\ UNCHANGED <<serverVars, tickVars, loopVars, ws_pc, to_close>>

StopStore ==
  /\ ws_stop = "store"
  /\ m_running' = FALSE
  /\ ws_stop' = "begin"
  /\ UNCHANGED <<latest_, m_connections, tickVars, session, loopVars, ws_pc, to_close>>

StopBegin ==
  /\ ws_stop = "begin"
  /\ to_close' = m_connections
  /\ ws_stop' = IF m_connections = {} THEN "unlisten" ELSE "close"
  /\ UNCHANGED <<serverVars, tickVars, loopVars, ws_pc>>

\* One turn of the loop: close() throws if the session is not open any more, and
\* the exception ends the whole call.
StopClose(c) ==
  /\ ws_stop = "close"
  /\ c \in to_close
  /\ \/ /\ session[c] = "open"
        /\ session' = [session EXCEPT ![c] = "closing"]
        /\ to_close' = to_close \ {c}
        /\ UNCHANGED ws_stop
     \/ /\ session[c] # "open"
        /\ ws_stop' = "returned"
        /\ to_close' = {}
        /\ UNCHANGED session
  /\ UNCHANGED <<latest_, m_running, m_connections, tickVars, loopVars, ws_pc>>

StopClosed ==
  /\ ws_stop = "close"
  /\ to_close = {}
  /\ ws_stop' = "unlisten"
  /\ UNCHANGED <<serverVars, tickVars, loopVars, ws_pc, to_close>>

\* stop_listening() throws if listen() has not been called yet.
StopListening ==
  /\ ws_stop = "unlisten"
  /\ listening' = FALSE
  /\ ws_stop' = IF listening THEN "stop_io" ELSE "returned"
  /\ UNCHANGED <<serverVars, tickVars, ws_timer, ws_io_stopped, ws_pc, to_close>>

\* Mutant: stop() closes the acceptor and leaves the loop running.
StopIoForgotten ==
  /\ ws_stop = "stop_io"
  /\ ws_stop' = "returned"
  /\ UNCHANGED <<serverVars, tickVars, loopVars, ws_pc, to_close>>

StopIo ==
  /\ ws_stop = "stop_io"
  /\ ws_io_stopped' = TRUE
  /\ ws_stop' = "returned"
  /\ UNCHANGED <<serverVars, tickVars, listening, ws_timer, ws_pc, to_close>>

StopContinues ==
  \/ StopStore \/ StopBegin \/ (\E c \in Clients : StopClose(c)) \/ StopClosed
  \/ StopListening \/ StopIo
-----------------------------------------------------------------------------
\* The producer stores the next coordinate; MaxTicks bounds the execution.
CoordinateUpdate ==
  /\ latest_.fix < MaxTicks
  /\ update(latest_.fix + 1, Successor(latest_.sequence))
  /\ UNCHANGED wsVars

Next ==
  \/ ServerThread \/ TimerExpires \/ Sessions
  \/ StopTest \/ StopContinues
  \/ CoordinateUpdate

Spec == Init /\ [][Next]_vars

\* The server thread runs, its timer expires, no handler in its queue is passed over
\* for ever, and a stop() that has begun goes on.
Fairness ==
  /\ WF_vars(ServerThread)
  /\ WF_vars(TimerExpires)
  /\ SF_vars(Tick)
  /\ WF_vars(StopContinues)
  /\ WF_vars(CoordinateUpdate)

FairSpec == Spec /\ Fairness
-----------------------------------------------------------------------------
Stream(c) == INSTANCE SampledStream WITH produced <- latest_.fix, emitted <- sent[c]

(* Every client is sent a sub-stream of the coordinates, each at most once *)
(* and in order, also across its reconnections.                            *)
ClientsSeeSubStreams ==
  /\ \A c \in Clients : Stream(c)!Init
  /\ [][\A c \in Clients : Stream(c)!Next \/ UNCHANGED <<latest_.fix, sent[c]>>]_vars

(* A client that is connected while a coordinate is newer than the last    *)
(* broadcast is sent it or a newer one: the broadcast goes on after a send *)
(* that fails, and no coordinate is spent while nobody is connected.       *)
(* Ordinals are compared with the recorded number: as long as the numbers  *)
(* have not wrapped; afterwards the server is silent for long.             *)
EveryClientFollows ==
  \A c \in Clients, n \in 1 .. MaxTicks :
    session[c] = "open" /\ latest_.fix = n /\ last_broadcast_sequence_ < n
      ~> Stream(c)!Newest >= n \/ session[c] # "open" \/ ~m_running \/ Crashed

(* m_connections is what broadcast() and stop() have to visit: every       *)
(* session from its opening to its on_close.                               *)
ConnectionsTracked ==
  m_connections = {c \in Clients : session[c] \in {"open", "closing", "closed"}}

(* As long as m_running is set, a thread that waits in its loop has a tick *)
(* ahead of it: no path through the handler, no exception of a send() and  *)
(* no client breaks the chain of the timer.                                *)
TicksGoOn == m_running /\ ws_pc = "run" => ws_timer # "idle"

(* The loop of stop() over m_connections, with its race, is confined to the*)
(* shutdown: m_running is unset before it begins and never set again.      *)
RaceOnlyInShutdown == m_running => ws_stop # "close" /\ ~Crashed

(* Until somebody calls stop() the server goes on: its timer is armed      *)
(* whenever it waits, and nothing else walks over m_connections.           *)
UndisturbedUntilStop == TicksGoOn /\ RaceOnlyInShutdown

(* What clients still see of a server that was told to stop: each gets at  *)
(* most one coordinate more, of the tick that stop() met, also when stop() *)
(* itself fails and the loop and the producer go on for ever.              *)
LastBroadcast ==
  \A c \in Clients, n \in 0 .. MaxTicks :
    [](ws_pc # "start" /\ ~m_running /\ Len(sent[c]) = n
         => [](Len(sent[c]) <= n + 1))

(* A stop() that gets past its loop while the server listens ends it,      *)
(* whatever the clients and the timer do meanwhile; no second call is      *)
(* needed, and none would help.                                            *)
StopEndsOnceClosed == ws_stop = "unlisten" /\ listening ~> ws_pc = "done"

(* What the comment in stop() says: close all connections.                 *)
ClosesAll ==
  \A c \in Clients :
    ws_stop = "begin" /\ c \in m_connections ~> session[c] # "open" \/ Crashed

(* What main says of the running system: press Ctrl+C to stop.             *)
StopEndsServer == ws_stop # "idle" ~> ws_pc = "done" \/ Crashed
=============================================================================
