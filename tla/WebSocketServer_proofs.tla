----------------------- MODULE WebSocketServer_proofs -----------------------
(***************************************************************************)
(* Safety of the WebSocket server for any set of clients, any length of    *)
(* execution and any width of the sequence counter.                        *)
(***************************************************************************)
EXTENDS WebSocketServer, SequenceTheorems, TLAPS

NewestOf(s) == IF s = << >> THEN 0 ELSE s[Len(s)]

\* Both loops over m_connections are over when their thread is elsewhere.
LoopsOver ==
  /\ ws_pc # "broadcast" => to_send = {}
  /\ ws_stop # "close" => to_close = {}

\* Between broadcasts the last broadcast number is that of the newest coordinate, if a
\* client was sent that one.
Between ==
  ws_pc # "broadcast" =>
    \A c \in Clients :
      /\ NewestOf(sent[c]) <= latest_.fix
      /\ NewestOf(sent[c]) = latest_.fix => last_broadcast_sequence_ = latest_.sequence

\* During one, the coordinate is news for every client that is still to be visited.
During ==
  ws_pc = "broadcast" =>
    /\ coord_data.fix <= latest_.fix
    /\ coord_data.fix = latest_.fix => coord_data.sequence = latest_.sequence
    /\ \A c \in Clients :
         /\ NewestOf(sent[c]) <= coord_data.fix
         /\ c \in to_send => NewestOf(sent[c]) < coord_data.fix

IInv == TypeOK /\ ConnectionsTracked /\ LoopsOver /\ Between /\ During
-----------------------------------------------------------------------------
(* Lemmas about the operators of the model.                                *)

(* The counter stays within its width.                                     *)
LEMMA SuccessorType ==
  ASSUME NEW s \in Sequence
  PROVE  Successor(s) \in Sequence
BY SharedStateAssumption DEF Sequence, Successor

(* The newest of the coordinates sent is the one that was appended last.   *)
LEMMA NewestAppended ==
  ASSUME NEW s \in Seq(Nat), NEW n \in Nat
  PROVE  /\ Append(s, n) \in Seq(Nat)
         /\ NewestOf(Append(s, n)) = n
<1>1. /\ Append(s, n) \in Seq(Nat)
      /\ Len(Append(s, n)) = Len(s) + 1
      /\ Append(s, n)[Len(s) + 1] = n
  BY AppendProperties
<1>2. Append(s, n) # << >>
  BY <1>1, EmptySeq
<1> QED
  BY <1>1, <1>2 DEF NewestOf

(* NewestOf is the ordinal of a coordinate (0: none yet).                  *)
LEMMA NewestType ==
  ASSUME NEW s \in Seq(Nat)
  PROVE  NewestOf(s) \in Nat
<1>1. CASE s = << >>
  BY <1>1 DEF NewestOf
<1>2. CASE s # << >>
  <2>1. Len(s) \in 1 .. Len(s)
    BY <1>2, EmptySeq
  <2> QED
    BY <1>2, <2>1, ElementOfSeq DEF NewestOf
<1> QED
  BY <1>1, <1>2
-----------------------------------------------------------------------------
(* The invariant holds at first ...                                        *)
LEMMA InitIInv == Init => IInv
<1> SUFFICES ASSUME Init
             PROVE  IInv
  OBVIOUS
<1> USE DEF Init, SharedStateInit, WsInit
<1>1. TypeOK
  <2>1. NoCoordinate \in CoordinateData /\ 0 \in Sequence
    BY SharedStateAssumption DEF NoCoordinate, CoordinateData, Sequence
  <2>2. sent \in [Clients -> Seq(Nat)]
    BY EmptySeq
  <2>3. m_running \in BOOLEAN /\ listening \in BOOLEAN /\ ws_io_stopped \in BOOLEAN
    OBVIOUS
  <2>4. session \in [Clients -> {"none", "connecting", "open", "closing", "closed"}]
    OBVIOUS
  <2> QED
    BY <2>1, <2>2, <2>3, <2>4, Zenon DEF TypeOK
<1>2. ConnectionsTracked /\ LoopsOver
  BY DEF ConnectionsTracked, LoopsOver
<1>3. Between /\ During
  BY DEF Between, During, NewestOf, NoCoordinate
<1> QED
  BY <1>1, <1>2, <1>3 DEF IInv

(* ... and every step preserves it.                                        *)
LEMMA NextIInv == IInv /\ [Next]_vars => IInv'
<1> SUFFICES ASSUME IInv, [Next]_vars
             PROVE  IInv'
  OBVIOUS
<1> USE DEF IInv, Goto, tickVars, loopVars, stopVars, serverVars
<1>. DEFINE Streams == Between /\ During
<1>1. ASSUME UNCHANGED <<latest_, coord_data, last_broadcast_sequence_, sent, to_send>>,
             ws_pc = "broadcast" <=> ws_pc' = "broadcast"
      PROVE  Streams'
  BY <1>1 DEF Between, During
<1>2. ASSUME UNCHANGED <<session, m_connections>>
      PROVE  ConnectionsTracked'
  BY <1>2 DEF ConnectionsTracked
<1>3. CASE SetRunning \/ Listen \/ StartAccept \/ Schedule
  <2>1. CASE SetRunning
    BY <1>1, <1>2, <2>1 DEF SetRunning, TypeOK, LoopsOver
  <2>2. CASE Listen
    BY <1>1, <1>2, <2>2 DEF Listen, TypeOK, LoopsOver
  <2>3. CASE StartAccept \/ Schedule
    BY <1>1, <1>2, <2>3 DEF StartAccept, Schedule, TypeOK, LoopsOver
  <2> QED
    BY <1>3, <2>1, <2>2, <2>3
<1>4. CASE Tick \/ TestData \/ RunReturns \/ TimerExpires
  BY <1>1, <1>2, <1>4 DEF Tick, InLoop, TestData, RunReturns, TimerExpires, TypeOK, LoopsOver
<1>5. CASE ReadLatest
  <2>1. TypeOK' /\ ConnectionsTracked' /\ LoopsOver'
    BY <1>2, <1>5 DEF ReadLatest, get_latest, TypeOK, LoopsOver
  <2>2. latest_.fix \in Nat /\ \A c \in Clients : NewestOf(sent[c]) \in Nat
    BY NewestType DEF TypeOK, CoordinateData
  <2>3. latest_.sequence \in Nat /\ last_broadcast_sequence_ \in Nat
    BY SharedStateAssumption DEF TypeOK, CoordinateData, Sequence
  <2>4. Between'
    BY <1>5 DEF ReadLatest, Between
  <2>5. During'
    BY <1>5, <2>2, <2>3 DEF ReadLatest, IsNew, get_latest, Between, During
  <2> QED
    BY <2>1, <2>4, <2>5
<1>6. ASSUME NEW b \in Clients, BroadcastTo(b)
      PROVE  IInv'
  <2>1. CASE session[b] = "open"
    <3> DEFINE s == Append(sent[b], coord_data.fix)
    <3>1. s \in Seq(Nat) /\ NewestOf(s) = coord_data.fix
      BY NewestAppended DEF TypeOK, CoordinateData
    <3>2. sent' = [sent EXCEPT ![b] = s]
      BY <1>6, <2>1 DEF BroadcastTo
    <3> HIDE DEF s
    <3>3. TypeOK' /\ ConnectionsTracked' /\ LoopsOver'
      BY <1>2, <1>6, <3>1, <3>2 DEF BroadcastTo, Remaining, TypeOK, LoopsOver
    <3>4. \A c \in Clients : sent'[c] = IF c = b THEN s ELSE sent[c]
      BY <3>2 DEF TypeOK
    <3>5. coord_data.fix \in Nat
      BY DEF TypeOK, CoordinateData
    <3>6. Between' /\ During'
      BY <1>6, <3>1, <3>4, <3>5 DEF BroadcastTo, Remaining, Between, During
    <3> QED
      BY <3>3, <3>6
  <2>2. CASE session[b] # "open"
    BY <1>2, <1>6, <2>2 DEF BroadcastTo, Remaining, TypeOK, LoopsOver, Between, During
  <2> QED
    BY <2>1, <2>2
<1>7. CASE BroadcastDone
  <2>1. TypeOK' /\ ConnectionsTracked' /\ LoopsOver'
    BY <1>2, <1>7 DEF BroadcastDone, TypeOK, LoopsOver, CoordinateData
  <2>2. latest_.fix \in Nat /\ coord_data.fix \in Nat
        /\ \A c \in Clients : NewestOf(sent[c]) \in Nat
    BY NewestType DEF TypeOK, CoordinateData
  <2>3. Between' /\ During'
    BY <1>7, <2>2 DEF BroadcastDone, Between, During
  <2> QED
    BY <2>1, <2>3
<1>8. ASSUME NEW c \in Clients, NEW from, NEW to \in {"none", "connecting", "open", "closing", "closed"},
             SessionStep(c, from, to), Unhandled,
             session[c] \in {"open", "closing", "closed"} <=> to \in {"open", "closing", "closed"}
      PROVE  IInv'
  BY <1>1, <1>8 DEF SessionStep, Unhandled, TypeOK, ConnectionsTracked, LoopsOver
<1>9. ASSUME NEW c \in Clients,
             Accept(c) \/ HandshakeFails(c) \/ ClientCloses(c) \/ Terminate(c)
      PROVE  IInv'
  BY <1>8, <1>9 DEF Accept, HandshakeFails, ClientCloses, Terminate, SessionStep
<1>10. ASSUME NEW members \in SUBSET Clients, RaceOutcome(members), InLoop,
              m_connections' = members,
              session' \in [Clients -> {"none", "connecting", "open", "closing", "closed"}],
              UNCHANGED <<latest_, m_running, tickVars, loopVars>>
       PROVE  TypeOK' /\ LoopsOver' /\ Streams'
  <2>1. to_send = {} /\ ws_pc = "run" /\ ws_pc' \in {"run", "crashed"}
    BY <1>10 DEF InLoop, LoopsOver, RaceOutcome
  <2>2. Streams'
    BY <1>1, <1>10, <2>1
  <2>3. /\ to_close' \in SUBSET m_connections'
        /\ ws_stop' # "close" => to_close' = {}
        /\ ws_stop' \in {ws_stop, "crashed"}
    BY <1>10 DEF RaceOutcome, LoopsOver
  <2> QED
    BY <1>10, <2>1, <2>2, <2>3 DEF TypeOK, LoopsOver
<1>11. ASSUME NEW c \in Clients, on_open(c)
       PROVE  IInv'
  <2>1. ConnectionsTracked'
    BY <1>11 DEF on_open, SessionStep, TypeOK, ConnectionsTracked
  <2> QED
    BY <1>10, <1>11, <2>1 DEF on_open, SessionStep, TypeOK
<1>12. ASSUME NEW c \in Clients, on_close(c)
       PROVE  IInv'
  <2>1. ConnectionsTracked'
    BY <1>12 DEF on_close, EraseConnection, SessionStep, TypeOK, ConnectionsTracked
  <2> QED
    BY <1>10, <1>12, <2>1 DEF on_close, EraseConnection, SessionStep, TypeOK
<1>13. CASE StopTest \/ StopStore \/ StopBegin \/ StopClosed
  <2>1. CASE StopTest
    BY <1>1, <1>2, <2>1 DEF StopTest, TypeOK, LoopsOver
  <2>2. CASE StopStore
    BY <1>1, <1>2, <2>2 DEF StopStore, TypeOK, LoopsOver
  <2>3. CASE StopBegin
    BY <1>1, <1>2, <2>3 DEF StopBegin, TypeOK, LoopsOver
  <2>4. CASE StopClosed
    BY <1>1, <1>2, <2>4 DEF StopClosed, TypeOK, LoopsOver
  <2> QED
    BY <1>13, <2>1, <2>2, <2>3, <2>4
<1>14. ASSUME NEW c \in Clients, StopClose(c)
       PROVE  IInv'
  <2>1. CASE session[c] = "open"
    BY <1>1, <1>14, <2>1 DEF StopClose, TypeOK, ConnectionsTracked, LoopsOver
  <2>2. CASE session[c] # "open"
    BY <1>1, <1>2, <1>14, <2>2 DEF StopClose, TypeOK, LoopsOver
  <2> QED
    BY <2>1, <2>2
<1>15. CASE StopListening \/ StopIo
  BY <1>1, <1>2, <1>15 DEF StopListening, StopIo, TypeOK, LoopsOver
<1>16. CASE CoordinateUpdate
  <2>1. /\ latest_.fix \in Nat /\ latest_'.fix = latest_.fix + 1
        /\ latest_' \in CoordinateData
        /\ UNCHANGED wsVars
    BY <1>16, SuccessorType DEF CoordinateUpdate, update, TypeOK, CoordinateData
  <2>2. TypeOK' /\ ConnectionsTracked' /\ LoopsOver'
    BY <1>2, <2>1 DEF wsVars, TypeOK, LoopsOver
  <2>3. coord_data.fix \in Nat /\ \A c \in Clients : NewestOf(sent[c]) \in Nat
    BY NewestType DEF TypeOK, CoordinateData
  <2>4. Between' /\ During'
    BY <2>1, <2>3 DEF wsVars, Between, During
  <2> QED
    BY <2>2, <2>4
<1>17. CASE UNCHANGED vars
  BY <1>1, <1>2, <1>17 DEF vars, wsVars, TypeOK, LoopsOver
<1> QED
  BY <1>3, <1>4, <1>5, <1>6, <1>7, <1>9, <1>11, <1>12, <1>13, <1>14, <1>15, <1>16, <1>17
     DEF Next, ServerThread, Sessions, StopContinues

(* The strengthened invariant holds throughout every execution.            *)
THEOREM Invariance == Spec => []IInv
BY InitIInv, NextIInv, PTL DEF Spec
-----------------------------------------------------------------------------
(* Every variable keeps its type, and both loops visit connections only.   *)
THEOREM TypeCorrect == Spec => []TypeOK
BY Invariance, PTL DEF IInv

(* The set that broadcast() and stop() walk over is the set of the sessions*)
(* that were opened and whose on_close is still to come.                   *)
THEOREM ConnectionsKnown == Spec => []ConnectionsTracked
BY Invariance, PTL DEF IInv

(* However clients come and go, and through every wrap of the counter: each*)
(* is sent a sub-stream of the coordinates, none of them twice.            *)
THEOREM SubStreams == Spec => ClientsSeeSubStreams
<1>1. Init => \A c \in Clients : Stream(c)!Init
  BY DEF Init, SharedStateInit, WsInit, NoCoordinate, Stream!Init
<1>2. IInv /\ [Next]_vars =>
        [\A c \in Clients : Stream(c)!Next \/ UNCHANGED <<latest_.fix, sent[c]>>]_vars
  <2> SUFFICES ASSUME IInv, Next, NEW c \in Clients
               PROVE  Stream(c)!Next \/ UNCHANGED <<latest_.fix, sent[c]>>
    OBVIOUS
  <2>1. CASE CoordinateUpdate
    BY <2>1 DEF CoordinateUpdate, update, wsVars, tickVars, Stream!Next, Stream!Produce
  <2>2. ASSUME NEW b \in Clients, BroadcastTo(b)
        PROVE  Stream(c)!Next \/ UNCHANGED <<latest_.fix, sent[c]>>
    <3>1. CASE b = c /\ session[c] = "open"
      <4>1. /\ sent'[c] = Append(sent[c], coord_data.fix)
            /\ UNCHANGED latest_
        BY <2>2, <3>1 DEF BroadcastTo, serverVars, IInv, TypeOK
      <4>2. coord_data.fix \in NewestOf(sent[c]) + 1 .. latest_.fix
        <5>1. NewestOf(sent[c]) \in Nat /\ coord_data.fix \in Nat /\ latest_.fix \in Nat
          BY NewestType DEF IInv, TypeOK, CoordinateData
        <5> QED
          BY <2>2, <3>1, <5>1 DEF BroadcastTo, IInv, During
      <4> QED
        BY <4>1, <4>2 DEF Stream!Next, Stream!Emit, Stream!Newest, NewestOf
    <3>2. CASE ~(b = c /\ session[c] = "open")
      BY <2>2, <3>2 DEF BroadcastTo, serverVars, IInv, TypeOK
    <3> QED
      BY <3>1, <3>2
  <2>3. CASE ~CoordinateUpdate /\ ~(\E b \in Clients : BroadcastTo(b))
    <3>1. UNCHANGED <<latest_, sent>>
      BY <2>3 DEF Next, ServerThread, SetRunning, Listen, StartAccept, Schedule, Tick, TestData,
           ReadLatest, BroadcastDone, RunReturns, TimerExpires, Sessions, Accept, HandshakeFails,
           on_open, ClientCloses, Terminate, on_close, SessionStep, StopTest, StopContinues,
           StopStore, StopBegin, StopClose, StopClosed, StopListening, StopIo, tickVars,
           serverVars
    <3> QED
      BY <3>1
  <2> QED
    BY <2>1, <2>2, <2>3
<1> QED
  BY <1>1, <1>2, Invariance, PTL DEF Spec, ClientsSeeSubStreams

(* What each client receives, taken by itself, is a behaviour of the       *)
(* abstract specification.                                                 *)
THEOREM ClientRefinement ==
  ASSUME NEW b \in Clients
  PROVE  Spec => Stream(b)!Spec
<1>1. (\A c \in Clients : Stream(c)!Init) => Stream(b)!Init
  OBVIOUS
<1>2. [\A c \in Clients : Stream(c)!Next \/ UNCHANGED <<latest_.fix, sent[c]>>]_vars
        => [Stream(b)!Next]_<<latest_.fix, sent[b]>>
  BY DEF vars, wsVars, tickVars
<1>3. Spec => /\ \A c \in Clients : Stream(c)!Init
              /\ [][\A c \in Clients : Stream(c)!Next
                                      \/ UNCHANGED <<latest_.fix, sent[c]>>]_vars
  BY SubStreams DEF ClientsSeeSubStreams
<1>4. Spec => Stream(b)!Init /\ [][Stream(b)!Next]_<<latest_.fix, sent[b]>>
  BY <1>1, <1>2, <1>3, PTL
<1> QED
  BY <1>4 DEF Stream!Spec
-----------------------------------------------------------------------------
(* The shutdown.                                                           *)

\* m_running is unset for good before stop() touches anything else; before it is set,
\* stop() has no effect.
Phases ==
  /\ ws_pc = "start" => ~m_running /\ ws_stop \in {"idle", "returned"}
  /\ ws_stop \in {"begin", "close", "unlisten", "stop_io"} \/ Crashed => ~m_running

(* Every step keeps the order of the shutdown, and the timer's chain.      *)
LEMMA PhasesStep ==
  Phases /\ TicksGoOn /\ [Next]_vars => Phases' /\ TicksGoOn'
<1> SUFFICES ASSUME Phases, TicksGoOn, [Next]_vars
             PROVE  Phases' /\ TicksGoOn'
  OBVIOUS
<1> USE DEF Phases, TicksGoOn, Crashed, Goto, serverVars, loopVars, stopVars
<1>1. CASE ServerThread
  BY <1>1 DEF ServerThread, SetRunning, Listen, StartAccept, Schedule, Tick, InLoop, TestData,
              ReadLatest, BroadcastTo, BroadcastDone, RunReturns
<1>2. CASE Sessions
  <2>1. PICK c \in Clients :
          \/ Accept(c) \/ HandshakeFails(c) \/ on_open(c)
          \/ ClientCloses(c) \/ Terminate(c) \/ on_close(c)
    BY <1>2 DEF Sessions
  <2>2. UNCHANGED <<m_running, ws_timer>> /\ InLoop
    BY <2>1 DEF Accept, HandshakeFails, on_open, ClientCloses, Terminate, on_close, SessionStep
  <2>3. UNCHANGED <<ws_pc, ws_stop>> \/ (ws_stop = "close" /\ ws_stop' = "crashed"
                                           /\ ws_pc' = "crashed")
    BY <2>1 DEF Accept, HandshakeFails, on_open, ClientCloses, Terminate, on_close, Unhandled,
                RaceOutcome
  <2> QED
    BY <2>2, <2>3
<1>3. CASE StopTest \/ StopContinues
  BY <1>3 DEF StopTest, StopContinues, StopStore, StopBegin, StopClose, StopClosed,
              StopListening, StopIo
<1>4. CASE TimerExpires \/ CoordinateUpdate \/ UNCHANGED vars
  BY <1>4 DEF TimerExpires, CoordinateUpdate, vars, wsVars
<1> QED
  BY <1>1, <1>2, <1>3, <1>4 DEF Next

(* The order of the shutdown and the chain of the timer, in every state.   *)
LEMMA PhasesInvariance == Spec => [](Phases /\ TicksGoOn)
<1>1. Init => Phases /\ TicksGoOn
  BY DEF Init, WsInit, Phases, TicksGoOn, Crashed
<1> QED
  BY <1>1, PhasesStep, PTL DEF Spec

(* The broadcasts go on until stop() is called, whatever clients do and    *)
(* whichever sends fail.                                                   *)
THEOREM ChainHolds == Spec => []TicksGoOn
BY PhasesInvariance, PTL

(* No second thread walks over m_connections, and no race on it can crash  *)
(* the process, before stop() has unset m_running.                         *)
THEOREM RaceConfined == Spec => []RaceOnlyInShutdown
<1>1. Phases => RaceOnlyInShutdown
  BY DEF Phases, RaceOnlyInShutdown
<1> QED
  BY <1>1, PhasesInvariance, PTL

\* Client c may still be sent a coordinate by the tick that runs.
Owed(c) == ws_pc \in {"has_data", "read"} \/ c \in to_send

\* What client c was sent, and what the tick that runs may still send to it.
SentAtMost(c) == Len(sent[c]) + (IF Owed(c) THEN 1 ELSE 0)

\* The server has begun, and was told to stop.
Told == ws_pc # "start" /\ ~m_running

(* Only run() itself sets m_running, and only when it begins.              *)
LEMMA ToldKept == [Next]_vars /\ Told => Told'
<1> SUFFICES ASSUME [Next]_vars, Told
             PROVE  Told'
  OBVIOUS
<1> USE DEF Told, Goto, serverVars
<1>1. CASE ServerThread
  BY <1>1 DEF ServerThread, SetRunning, Listen, StartAccept, Schedule, Tick, InLoop, TestData,
              ReadLatest, BroadcastTo, BroadcastDone, RunReturns
<1>2. CASE Sessions
  BY <1>2 DEF Sessions, Accept, HandshakeFails, on_open, ClientCloses, Terminate, on_close,
              SessionStep, Unhandled, RaceOutcome, InLoop
<1>3. CASE StopTest \/ StopContinues
  BY <1>3 DEF StopTest, StopContinues, StopStore, StopBegin, StopClose, StopClosed,
              StopListening, StopIo
<1>4. CASE TimerExpires \/ CoordinateUpdate \/ UNCHANGED vars
  BY <1>4 DEF TimerExpires, CoordinateUpdate, vars, wsVars
<1> QED
  BY <1>1, <1>2, <1>3, <1>4 DEF Next

(* Then no step adds to what a client was and may still be sent: a tick    *)
(* that begins ends at once, and the one that runs visits a client once.   *)
LEMMA SentKept ==
  ASSUME IInv, [Next]_vars, Told, NEW c \in Clients
  PROVE  SentAtMost(c)' <= SentAtMost(c)
<1>1. Len(sent[c]) \in Nat
  BY LenProperties DEF IInv, TypeOK
<1>2. ASSUME UNCHANGED sent, Owed(c)' => Owed(c)
      PROVE  SentAtMost(c)' <= SentAtMost(c)
  BY <1>1, <1>2 DEF SentAtMost
<1>3. ASSUME NEW b \in Clients, BroadcastTo(b)
      PROVE  SentAtMost(c)' <= SentAtMost(c)
  <2>1. Owed(c)' => Owed(c)
    BY <1>3 DEF BroadcastTo, Remaining, Owed
  <2>2. CASE b = c /\ session[b] = "open"
    <3>1. sent'[c] = Append(sent[c], coord_data.fix)
      BY <1>3, <2>2 DEF BroadcastTo, IInv, TypeOK
    <3>2. Len(sent'[c]) = Len(sent[c]) + 1
      BY <3>1, AppendProperties DEF IInv, TypeOK, CoordinateData
    <3>3. Owed(c) /\ ~Owed(c)'
      BY <1>3, <2>2 DEF BroadcastTo, Remaining, Owed
    <3> QED
      BY <1>1, <3>2, <3>3 DEF SentAtMost
  <2>3. CASE ~(b = c /\ session[b] = "open")
    <3>1. sent'[c] = sent[c]
      BY <1>3, <2>3 DEF BroadcastTo, IInv, TypeOK
    <3> QED
      BY <1>1, <2>1, <3>1 DEF SentAtMost
  <2> QED
    BY <2>2, <2>3
<1>4. CASE SetRunning \/ Listen \/ StartAccept \/ Schedule \/ Tick \/ TestData \/ RunReturns
           \/ TimerExpires
  <2>1. UNCHANGED <<sent, to_send>>
    BY <1>4 DEF SetRunning, Listen, StartAccept, Schedule, Tick, TestData, RunReturns,
                TimerExpires, tickVars
  <2>2. ws_pc' \in {"has_data", "read"} => ws_pc \in {"has_data", "read"}
    BY <1>4 DEF Told, Goto, SetRunning, Listen, StartAccept, Schedule, Tick, TestData,
                RunReturns, TimerExpires
  <2> QED
    BY <1>2, <2>1, <2>2 DEF Owed
<1>5. CASE ReadLatest \/ BroadcastDone
  BY <1>2, <1>5 DEF ReadLatest, BroadcastDone, Goto, Owed
<1>6. CASE Sessions
  <2>1. PICK b \in Clients :
          \/ Accept(b) \/ HandshakeFails(b) \/ on_open(b)
          \/ ClientCloses(b) \/ Terminate(b) \/ on_close(b)
    BY <1>6 DEF Sessions
  <2>2. UNCHANGED <<sent, to_send>>
    BY <2>1 DEF Accept, HandshakeFails, on_open, ClientCloses, Terminate, on_close, SessionStep,
                tickVars
  <2>3. ws_pc' \in {ws_pc, "crashed"}
    BY <2>1 DEF Accept, HandshakeFails, on_open, ClientCloses, Terminate, on_close, Unhandled,
                RaceOutcome
  <2> QED
    BY <1>2, <2>2, <2>3 DEF Owed
<1>7. CASE StopTest \/ StopContinues \/ CoordinateUpdate \/ UNCHANGED vars
  <2>1. UNCHANGED <<sent, to_send, ws_pc>>
    BY <1>7 DEF StopTest, StopContinues, StopStore, StopBegin, StopClose, StopClosed,
                StopListening, StopIo, CoordinateUpdate, vars, wsVars, tickVars
  <2> QED
    BY <1>2, <2>1 DEF Owed
<1> QED
  BY <1>3, <1>4, <1>5, <1>6, <1>7 DEF Next, ServerThread

(* Even a server that stop() has failed to end falls silent: each client is*)
(* sent at most one coordinate more.                                       *)
THEOREM StoppedSendsLast == Spec => LastBroadcast
<1>1. ASSUME NEW c \in Clients, NEW n \in 0 .. MaxTicks
      PROVE  Spec => [](ws_pc # "start" /\ ~m_running /\ Len(sent[c]) = n
                          => [](Len(sent[c]) <= n + 1))
  <2> DEFINE Begins == ws_pc # "start" /\ ~m_running /\ Len(sent[c]) = n
             Kept == Told /\ SentAtMost(c) <= n + 1
             Within == Len(sent[c]) <= n + 1
  <2> USE SharedStateAssumption
  <2>1. IInv => /\ Len(sent[c]) \in Nat
                /\ SentAtMost(c) \in Len(sent[c]) .. Len(sent[c]) + 1
    BY LenProperties DEF IInv, TypeOK, SentAtMost, Owed
  <2>2. IInv /\ Begins => Kept
    BY <2>1 DEF Told
  <2>3. IInv /\ [Next]_vars /\ Kept => Kept'
    <3> SUFFICES ASSUME IInv, [Next]_vars, Kept
                 PROVE  Told' /\ SentAtMost(c)' <= n + 1
      BY DEF Kept
    <3>1. Told' /\ SentAtMost(c)' <= SentAtMost(c)
      BY ToldKept, SentKept
    <3>2. SentAtMost(c)' \in Nat
      <4>1. Len(sent[c])' \in Nat
        BY NextIInv, LenProperties DEF IInv, TypeOK
      <4>2. SentAtMost(c)' \in {Len(sent[c])', Len(sent[c])' + 1}
        <5>1. CASE Owed(c)'
          BY <5>1 DEF SentAtMost
        <5>2. CASE ~Owed(c)'
          BY <4>1, <5>2 DEF SentAtMost
        <5> QED
          BY <5>1, <5>2
      <4> QED
        BY <4>1, <4>2
    <3> QED
      BY <2>1, <3>1, <3>2
  <2>4. IInv /\ Kept => Within
    BY <2>1
  <2> HIDE DEF Begins, Kept, Within
  <2>5. Spec => [](Begins => []Within)
    BY <2>2, <2>3, <2>4, Invariance, PTL DEF Spec
  <2> QED
    BY <2>5 DEF Begins, Within
<1> QED
  BY <1>1 DEF LastBroadcast

(* Until stop() is called neither a client nor a failing send ends the     *)
(* broadcasts, and m_connections is safe.                                  *)
THEOREM GoesOn == Spec => []UndisturbedUntilStop
BY ChainHolds, RaceConfined, PTL DEF UndisturbedUntilStop
=============================================================================
