# TLA+ models of the figure-8 coordinate system

The program (`src/src/`, C++) generates GPS coordinates on a figure-8 path, publishes them over
DDS (eProsima Fast DDS) and broadcasts them to WebSocket clients; the same executable, started as
`subscriber`, receives them. This directory holds TLA+ models of its threads, the TLC
configurations that check them on small instances, and TLAPS proofs of what can be proved for
every instance.

Contents: [the system](#the-system) · [modules](#modules) · [runs](#runs-and-bounds) ·
[fairness](#fairness) · [proofs](#proofs) · [what was found](#what-was-found) ·
[what is left out](#what-is-not-modelled) · [plan](#plan)

## The system

`main` (`Messengermain.cxx`) builds one of two processes.

```
publisher:   CoordinateProducer --update--> SharedCoordinateState --get_latest--> MessengerPublisherApp --write--> DDS
               (asio thread, 50 Hz)            (one slot)       \                  (DDS thread, 20 Hz)
                                                                 --get_latest--> WebSocketServer --send--> clients
                                                                                   (asio thread, 10 Hz)
subscriber:  DDS --on_data_available--> MessengerSubscriberApp --broadcast--> (a WebSocketServer that main never builds)
```

| component | state | operations | interacts by |
|---|---|---|---|
| `SharedCoordinateState` | `latest_`, a pointer to an immutable coordinate with a `uint32_t` number | `update`, `get_latest`, `has_data` | shared by three threads; its mutex covers each pointer copy |
| `CoordinateProducer`, `CoordinateGenerator` | `running_`, `sequence_`, `timer_`, `next_deadline_`, the io_context, the generator's `t_` | `run`, `start`, `schedule_next`, the timer's handler, `stop` | calls `update`; `stop` comes from the signal handler |
| `MessengerPublisherApp` | `matched_`, `stop_`, `mutex_`, `cv_`, `last_published_sequence_`, `samples_sent_`, the DDS entities | `run`, `publish_from_shared_state`, `on_publication_matched`, `stop` | reads the shared state; listener calls from a Fast DDS thread; `stop` from the signal handler |
| `WebSocketServer` | `m_running`, `m_connections`, `last_broadcast_sequence_`, the websocketpp endpoint and its loop | `run` and its timer, `on_open`, `on_close`, `on_message`, `broadcast`, `stop` | reads the shared state; clients; `stop` from the signal handler, on another thread than the loop |
| `MessengerSubscriberApp` | `samples_received_`, `stop_`, `terminate_cv_` | `on_data_available`, `on_subscription_matched`, `run`, `stop` | callbacks from Fast DDS threads; `broadcast` on a server pointer that is null |
| `main` | the threads, `stop_handler` | start, handle a signal, join | the handler runs on whichever thread the signal interrupts and calls the three `stop()` in turn |
| the DDS channel (external, QoS from the two constructors) | the writer's history, per reader what has arrived, is acknowledged and taken | write, arrive, acknowledge, `take_next_sample`, match and unmatch | between publisher and subscriber processes that come and go |
| `Messenger*`, generated from the IDL | none; a payload and a key are functions of a message | `serialize`, `deserialize`, `calculate_serialized_size`, `compute_key`, `register_Message_type_identifier` | called by Fast DDS on both sides |
| `MessengerApplication` | none | `make_app` | chooses the class; its constructor may throw |
| `client.html` | none | a test page for another server | - |

What is hard about it:

* **`stop()` takes no lock anywhere.** It runs between any two steps of the thread it stops: between
  a predicate and the sleep that follows it, before the thread has begun, between `m_running = true`
  and `listen()`, in the middle of the arming of a timer, and while callbacks change the set it walks.
* **One condition variable, two waits.** The publisher waits on `cv_` for a subscriber and for its
  deadline; one `notify_one` serves both, and subscribers come and go in between.
* **Check and use.** `has_data()` and `get_latest()` are two critical sections with a wait of any
  length between them.
* **Failure of one step of several.** A write that is refused, a `send()` or `close()` that throws for
  one client out of many.
* **Widths.** The `uint32_t` number wraps and becomes a signed `long` in the message; the subscriber
  counts in 16 bits.
* **A bounded history between two processes.** The writer keeps all until its history is full; readers
  join late, lag behind, lose samples on the way and leave; one object takes all samples of a callback.
* **Start-up that fails half way.** A constructor or a thread may throw between two others, and `main`
  destroys on its way out what threads may still use; the registration of the type gives up at the first
  member whose type is not complete.
* **Dispatched is not stopped.** A handler that asio has already begun looks at no flag, whatever `stop()` does meanwhile.
* **Deadlines.** Absolute deadlines, with a catch-up rule that differs between the three threads.

What makes each component correct: the producer's timer chain never breaks, and it advances the
shared state by one coordinate and one number at a time; each consumer forwards a sub-stream of the
coordinates, in order, none twice, none torn, and keeps up while somebody listens; the sessions in
`m_connections` are the ones that live; what a subscriber accepts is what was written, whole, in order
and without a gap; a stopped thread begins nothing new and ends, and a thread that nobody stops goes on; a delay of any
length is made up for in a bounded number of cycles. `PROJECT.json` lists the hazards one by one with
the lines where they bite and the properties that cover them.

## Modules

| module | models | kind |
|---|---|---|
| `SharedCoordinateState` | the buffer; extended by its producer and by both consumers | operators and the variable `latest_` |
| `SampledStream` | the promise of a consumer: a sub-stream of what is produced | abstract specification |
| `CoordinateProducer` | the 50 Hz thread, its timer and `stop()` | component |
| `MessengerPublisherApp` | the DDS thread, the listener, `stop()` | component, implements `SampledStream` |
| `WebSocketServer` | the server thread, its sessions, `stop()` | component, one `SampledStream` per client |
| `MessengerSubscriberApp` | the listener, `run()`, `main` and handler of the subscriber process | component |
| `DeadlinePacer` | `next_deadline` in the three threads | algorithm |
| `PublisherProcess` | `main` from `make_app` to its return, the signal handler on any thread, producer and publisher together | composition |
| `MessageCdr` | the generated type support, down to octets, padding and encodings | pure operators |
| `DdsChannel` | the publisher's writer and the subscribers' readers, with `MessageCdr` between them | composition over an external protocol |
| `..._proofs` of `CoordinateProducer`, `MessengerPublisherApp`, `WebSocketServer`, `MessengerSubscriberApp`, `DeadlinePacer`, `PublisherProcess`, `MessageCdr`, `DdsChannel` | | proofs |

How state and actions correspond to the code:

* A C++ member is the variable of the same name (`running_`, `matched_`, `m_connections`, ...). Where a
  thread is, is a variable `..._pc`; where a caller of `stop()` is, `producer_stop`, `app_stop`,
  `ws_stop` or `handler`.
* **A step is what other threads cannot see the middle of**: one critical section, one access to an
  atomic, one call into a library. So the test of `running_` and the arming of the timer are two
  steps, and the predicate of `cv_.wait` and the enqueueing of the thread are two steps although
  `mutex_` is held over both, because `stop()` does not take `mutex_`. The handler of the producer's timer is three
  steps: asio dispatches it (`Dispatch`, the last look at `io_stopped`), it generates and numbers the coordinate
  (`Generate`), and it stores it (`HandlerUpdate`); both `stop()` calls may run in between.
* A coordinate is its **ordinal** (`fix`): longitude, latitude, time stamp and text are functions of
  it that no property tells apart. Its number keeps the wrap-around of `uint32_t` (modulo `SeqMod`),
  and `count` in the message the conversion to a signed type.
* **External code** is modelled from its use. Condition variables: `notify_one` wakes the waiter
  that is there now and leaves no trace, waits may return spuriously. asio: a stopped context starts
  no handler, `run()` returns when stopped or out of work, `cancel()` reaches only a wait that is
  pending; called on another thread without a lock it may miss it. websocketpp: `send` and `close`
  throw unless the session is open, `stop_listening` throws unless listening, a terminated session
  stays in `m_connections` until its `on_close`. Fast DDS: readers are reported one at a time; a
  write may be refused; a callback may serve several samples, and what a listener throws ends the process. In `DdsChannel`, a reliable keep-all
  writer gives up a sample only when its history is full and every matched reader has
  acknowledged it, any retained sample may arrive at any time (loss, repetition and reordering are
  the choice of what arrives next), and a reader hands over in order, out of a history that is as bounded as the writer's: who is told to end (`Stop`) takes
  nothing more while its reader stays matched, until that history is full. Fast CDR: little endian, every member
  aligned to four, a delimiter in front for XCDR2, an exception at the end of the buffer.
* **Undefined behaviour** is a choice: the race on `m_connections` lets the loop of `stop()` continue
  with any of the elements or ends the process (in `PublisherProcess`, `StopServer` therefore may end it as long as the
  server's thread lives); the call through the null `ws_server` ends the
  process or returns.
* `stop()` may be called again and again in every module, as the signal handler allows.

`PublisherProcess` instantiates the producer's and the publisher's modules, unchanged, on one
`latest_`. `main` constructs the publisher (which may throw), starts the threads one by one (each of
which may throw, and then ends the process in `std::terminate` if another is running), installs the handler, and joins. A signal picks the thread it interrupts; that thread takes no step until the handler has
returned. In the modules themselves the producer is one action `CoordinateUpdate`, and `ComponentsFit`
shows that the real producer does only that.

In `MessageCdr` a string is a sequence of octets without NUL and an octet has `Byte` values; numbers
are written and read octet by octet, negative ones in two's complement, and the reader goes through the
members by position as `Switch` says. In `DdsChannel` the message of a coordinate has its ordinal,
wrapped to the width of a long, as `count`, and a text whose length varies with it, so that the members behind it
are aligned differently. `Take` deserialises the real payload into `sample_`, which still holds the message before.
`register_Message_type_identifier` is a function from what the registry of the process holds under the three names (nothing,
another type, the type with or without a complete identifier) to what it holds afterwards, with every early return of the code.

In `MessengerSubscriberApp` a sample is of one of four kinds: `coords`, a text that is parsed; `unparsed`, one without three
fields; `garbled`, one with three fields that are not numbers, for which `std::stod` or `std::stoll` throws; `invalid`, one without data.

## Runs and bounds

| run | question | bounds |
|---|---|---|
| `producer` | Does the timer chain hold, does the shared state advance one by one, does `stop()` at any moment end the thread, and nothing begin after it but what a dispatched handler still generates? | 6 ticks, counter modulo 4 (it wraps) |
| `publisher` | Does it implement `SampledStream`? Is a match never lost, is a sample whole and only written to somebody, does the latest coordinate get out, does a `stop()` whose notification arrives work, and what still goes out after it? | 3 ticks, 2 subscribers, counter modulo 4 (it does not wrap, and the last number is negative as a signed one) |
| `publisher_stop_is_lost` | Does `stop()` always end `run()`? **No.** | 3 ticks, 2 subscribers, counter modulo 8 |
| `publisher_sequence_wraps` | Is a different number always published? **No.** | 4 ticks, counter modulo 3 |
| `pacer` | How many cycles without sleep follow a delay, does any thread work ahead of the clock, and does the producer lose a tick? | period 3, delays to 13, 40 time units |
| `websocket` | What is each client sent, through failing sends and sessions that end? Does the timer go on, and the race on `m_connections` stay away, until `stop()` is called? What does a stopped server still send, and when does `stop()` work? | 2 clients, 2 ticks |
| `websocket_stop_before_listen` | Does `stop()` end a running server? **No**, even with no client. | no client |
| `websocket_stop_meets_closing` | Does `stop()` close every connection? **No.** | 2 clients, 1 tick |
| `subscriber` | From the start-up of its process on, is every sample taken and counted, is none left without a callback that will come for it, does repeating the signal end `run()`, and does nothing else end the process but a text that makes the listener throw? | 3 samples of four kinds, counter modulo 3 |
| `subscriber_signal` | Does the process survive its signal handler? **No.** | 1 sample |
| `publisher_process` | Is the process the environment that both components assume? Is what is published a sub-stream of what was generated? Is the source silent, but for a handler already dispatched, once the publisher is told to stop? Do signals, on whichever thread they are handled, end both threads? Does `main`, through every failure of its start-up, return last, and only when told? | 1 tick, 1 subscriber |
| `dds_channel` | Is what a subscriber accepts what was written? Does the history keep what is waited for, has everything that it gives up arrived, does it reach late joiners, and yield when full, with slow, dead and stopped subscribers? Do keys and type object agree with the payloads, and does a registration that gives up announce nothing? | 3 coordinates, 2 subscribers, a history of 2, octets of 4 values |

Why they are enough. `MaxTicks` only ends the stream: three coordinates let one be published, one
skipped and one overtaken, and the counter's modulus is chosen on either side of it, so that the
wrap-around happens in `producer` and `publisher_sequence_wraps` and does not in `publisher`, where
`LatestPublished` would fail for the reason that the latter run shows. Two subscribers let one leave
while the other stays; two clients let one fail while the other must still be served. In `pacer` a delay of
13 is more than four periods: twice the limit at which a deadline is given up. In `dds_channel` three
coordinates are one more than the history holds, so that it is full while one reader lags and the other
does not; the ordinals 127 and 128 are on either side of the largest long of four octets of four
values, so that `count` becomes negative between two of them. The run covers all interleavings of two readers that come and go with the writer's departure.
The safety results of all passing runs are proved without these bounds. `publisher_process` is small because its state
is a product: with one tick the run sees a coordinate published twice (the mutant of `ForwardsGenerated`) and not two in the wrong order;
order rests on `EndToEndRefinement`, for every bound, and the longer behaviours are those of the component runs.

Two properties say less than their names. `EveryClientFollows` compares ordinals with the recorded number and so speaks only of the time
before the counter wraps (the run's does not); the theorems about the server do not depend on it. `FullHistoryYields` claims nothing
while a subscriber that was told to end stays matched: with such a one, the writer's history can fill for good. Three
coordinates are too few for that (its reader alone holds two), so the run does not need the exception, but longer streams would.

Some properties are conjunctions of invariants with names of their own, which the proofs take one by one:
`ShutdownInOrder` (`ReturnsLast`, `ExitsWhenTold`), `RateKept` (`NeverFaster`, `NoTickLost`), `UndisturbedUntilStop`
(`TicksGoOn`, `RaceOnlyInShutdown`), `Accounted` (`CountsValid`, `NoneForgotten`), `RetainedUntilReceived`
(`UnacknowledgedRetained`, `GivenUpIsReceived`) and `TypeSupportAgrees` (`OneInstance`,
`TypeObjectDescribesPayload`). Where the type invariant is proved and TLC's other properties need more than types,
the run does not repeat it (`pacer`, `publisher_process`); the same holds for `ConnectionsTracked`, part of the server's `IInv`.

All runs say `CHECK_DEADLOCK FALSE`: a process that has stopped, and a model whose bound is reached,
have nothing left to do.

Every property of a passing run has a mutant in `PROJECT.json`: a definition of the model next to a
form of it with a plausible bug (a lock not taken, an exception that ends the loop, a number recorded
before the return code is known, ...), with which TLC finds the property violated. Mutants stand
right before what they mutate and are used by nothing else.

## Fairness

* A thread that can step does: weak fairness of each thread's disjunction.
* Timers expire, and the producer's ticks come (`WF`); no client has to do anything, no signal has to come.
* `stop()`, once begun, goes on (`WF`); nobody has to call it.
* `SF(Listener)`: `mutex_` is not a fair lock, but the DDS thread holds it for a short part of each
  period, so the listener gets it.
* `SF(WriteAccepted)`: a write that is retried for ever is accepted at some time. Only `LatestPublished` needs it.
* `SF(PeriodTimeout)`: the deadline is absolute (`wait_until`), so spurious wake-ups cannot postpone it.
* `SF(Tick)` in the server: asio runs ready handlers in the order of their arrival, so the timer's is
  not passed over for ever by those of the sessions.
* In `DdsChannel`: a subscriber process for which there is something to do works - what is retained and has not arrived
  arrives, it is acknowledged, the callback takes it (a reliable writer repeats what is not acknowledged, and Fast DDS calls
  the listener) - or it is dead, and then its lease expires and it is unmatched: `WF(ReaderWorks \/ LeaseExpires)` per reader, on
  the variables that this changes. A subscriber that was told to end is not assumed to take anything.
  The publisher goes on writing. No reader has to come, stay or leave.
* In `PublisherProcess` the two threads have strong fairness: signals may come so often that a
  thread is free only now and then.

## Proofs

The theorems hold for every `SeqMod > 1`, `CountMod > 1`, `MaxTicks`, `MaxReaders`, `MaxSamples`,
`Period > 0`, `MaxStall`, `MaxNow` in `Nat`, every set `Clients`, every finite set `Readers`, every set `Fixes` of
ordinals, every `Capacity > 0`, either `Representation` and every `Byte > 1` (in `DdsChannel`, whose messages use the characters 1 and
2, `Byte > 2`): these assumptions, named in the modules, are the only
ones. Each proof module of a component defines an inductive invariant `IInv`,
proves `Init => IInv`, `IInv /\ [Next]_vars => IInv'` with a step per action, and draws the results
from it. `IInv` was checked by TLC, too, before it was proved.

* **`CoordinateProducer_proofs`**. `ChainUnbroken` is not inductive: that `run()` finds a wait pending
  depends on where the thread was before. `IInv` adds that between the steps of the
  handler, from its dispatch on, no wait is pending (`OneWait`), that without a `stop()` the flag stays set and nothing is cancelled (`Undisturbed`), that a
  finished `stop()` leaves the context stopped (`StoppedForGood`), and that `latest_`, `ticks` and
  `sequence_` move in step (`InStep`). Results: `TypeCorrect`, `ChainHolds`,
  `ConsumersFed` (the step `latest_` makes is `+1` for the coordinate and the wrapping successor
  for the number: the assumption of both consumers), `StoppedTicksNoMore` (with a stopped context nothing is dispatched, so the
  generated coordinates and the one under way, `Begun`, stay the same).
* **`MessengerPublisherApp_proofs`**. `IInv` adds who holds `mutex_` at which point (`MutexHeld`), that `matched_`
  differs from the real number of readers only while a callback is on its way (`ReadersCounted`),
  that between the predicate and the sleep, and between the predicate and the write, `matched_` is what
  the predicate saw (`MatchedSeen`), and that everything read is at most as new as `latest_` and what is being written newer than what was
  written before (`Fresh`). `NoLostMatch` itself then is inductive.
  The wrap-around is the difficulty of `Fresh`: the code compares numbers, the claim is about ordinals,
  and a greater number does not mean a greater ordinal. What carries the proof is that equal
  coordinates have equal numbers (`NotAhead`): a number that differs from the last published one belongs to another
  coordinate, and the other coordinate is at most as new as `latest_`. So the
  publisher still implements `SampledStream` after a wrap, although it goes silent. `SuccessorMod`
  shows that the wrapping counter counts modulo its width, which `WholeSamples` rests on, together with the conversion to a signed number,
  which loses nothing of it. `StoppedSendsLast` follows from what was written plus what is in flight (`Outgoing`): once `stop_` is set, which
  is for good, no step makes it greater. `StepForwards` states the refinement's
  step without the abstract specification: nothing is published, or a coordinate newer than the last one and at most as new as `latest_`. Both the
  component's refinement and the process's rest on it. Results: `TypeCorrect`, `MatchNotLost`,
  `MatchedWhenWritten`, `StoppedSendsLast`, `WholeSamples` and `Refinement`.
* **`DeadlinePacer_proofs`**. `IInv` bounds the lateness by the number of cycles that have not slept:
  a deadline that is more than two periods old is given up, and each cycle without sleep
  makes up for one period. For the producer it says that the deadlines stay on the grid of multiples of the period
  (`ProducerGrid`). That no thread overtakes the clock needs a second invariant, `Paced`: the deadline is at
  least one period later than the periods of all cycles that have ended, and is not ahead of `now` when a cycle ends; a
  deadline that is given up is only ever replaced by a later one. Results: `CatchUp`, `TicksKept`, `NeverAhead` and, of both, `Rate`.
* **`WebSocketServer_proofs`**. `IInv` says of the newest coordinate sent to each client how it relates to
  `latest_` and to the broadcast in progress: between broadcasts (`Between`), who was sent the newest one
  finds its number in `last_broadcast_sequence_`, and during one (`During`), the coordinate is news for
  every client still to be visited. Both loops are over when their thread is elsewhere (`LoopsOver`). As for the publisher, equality of
  numbers suffices, so the wrap-around does no harm. `Phases` is the invariant for shutdown: before the thread has begun
  `m_running` is unset and `stop()` does nothing, and from the store of `stop()` on it is unset again, a crash included. Results:
  `TypeCorrect`, `ConnectionsKnown`, `SubStreams`, `ClientRefinement` (the same for a single client, as initial states and steps of
  `SampledStream`), `ChainHolds` and `RaceConfined`, together `GoesOn`, and `StoppedSendsLast`: after the flag
  is cleared, what a client was sent plus the one that the broadcast under way still has for it never grows.
* **`MessengerSubscriberApp_proofs`**. `Counted` relates the wrapping counter to the cardinality of the
  set of valid samples seen; `IncrementMod` is the wrap. `NoneForgotten` is inductive with it: a callback
  ends only when it has seen the reader empty, and an arrival sets the status. Results: `TypeCorrect`, `CountsExactly` and
  `NoneLeftBehind`, together `AllAccounted`, and `EndsOnlyWhenTold`: `run()` has ended only if `stop_` was set, and `main` returns after it (`Ordered`).
* **`PublisherProcess_proofs`** is compositional. `ProducerSteps` and `PublisherSteps` show that every
  step of the process is a step of the producer (of the publisher) or leaves its variables alone; the
  producer's inductive invariant then holds in the process, and with `FeedsConsumers` every step of the real producer is
  the one `CoordinateUpdate` that the publisher's module assumes. So each theorem about a
  component holds in the process: `Fit`, `TypeCorrect`, `ProcessSamplesWhole`, `ProcessMatchNotLost`,
  `ProcessMatchedWhenWritten`, `ProcessSendsLast`, `ProcessChainHolds`, `ProcessStopsTicking`. `MainReturnsLast` rests on
  what is joined at which point of `main` (`Joined`). `Ordered` follows a signal through the handler: before `stop()` of the
  publisher begins, the one of the producer has returned, and what that has stopped stays stopped through any number of
  further signals. It gives `SourceFirst` (of a handler dispatched before it only says that it is the last) and, with `Joined`, `ExitNeedsStop`; with `MainReturnsLast` that is `Shutdown`.
  `EndToEndRefinement` composes the two sides: a step of the process is one of the publisher or leaves its output alone, so
  `StepForwards` bounds what is published by `latest_`, and the producer's invariant bounds `latest_` by what it has generated (`ticks`).
* **`MessageCdr_proofs`** proves `RoundTrip`: for every message whose size a long can express, every encoding and
  every state of the receiving object, `deserialize` of the payload gives the message. `Layout` says which
  field stands where in the buffer (`Holds`), `PutKeeps` that a later field leaves the earlier ones alone, `LongRead` and
  `StringRead` what is read of a field, `SignedMod` that two's complement is undone, `FiveMembers` that the
  recursive function over the five members is five readings. `SizeExact` shows that `calculate_serialized_size` is
  exactly the size of the payload, so `serialize` is never refused its memory (`NeverRefused`). From `RoundTrip` follows that no
  two messages share a payload (`PayloadsDiffer`); `BigEndianDiffers` gives `KeyIsSubjectId`: a key, computed from a message or
  from a payload, distinguishes exactly the subject ids. `MaxSizeHolds` derives the generated
  constant 792 from strings of at most 255 characters.
* **`DdsChannel_proofs`**. `IInv` adds to the properties `Held`: what a reader has acknowledged and not yet taken, it holds. `GivenUpIsReceived` is not inductive without it, because an acknowledgement and the
  giving up are steps of two processes. `ReceivedAsWritten` holds also when the writer has left: what was accepted is then a
  stretch without gaps that ends where the departure was noticed. The
  step of `Take` rests on `RoundTrip`: the payload of a retained position gives the message of the coordinate, whatever
  `sample_` held (`TakeResult`). Results: `TypeCorrect`, `AsWritten`, `Retained`
  and `NothingLost`, together `HistoryLosesNothing`, `SameInstance` and `Described`, together `TypeSupport`. `Described` goes through the return paths
  of the registration: it announces all members or nothing (`AllOrNothing`), `AnnouncedReads` reads a payload by them, and `CatchesUp` shows that a
  registration that has given up leaves nothing behind that a later one could not build on.

Only model-checked: every liveness property (no backend proves `~>` under fairness) and the five
violations. Every invariant, every action property and every refinement of a passing run is a theorem. What a liveness
property rests on besides fairness is proved where it is an invariant: `NoLostMatch` for `LatestPublished`, `ChainUnbroken` for
`KeepsTicking`, `TicksGoOn` for `EveryClientFollows`, `NoneForgotten` for `EverySampleTaken`, `Retained` and `NothingLost` for
`HistoryReachesReaders`.

## What was found

Five runs expect a violation; each states what the repository says of itself and is refuted by
a behaviour of the code (`PROJECT.json`, `findings`).

1. `publisher_stop_is_lost`: `MessengerPublisherApp::stop()` stores and notifies without `mutex_`. In
   the gap between the predicate of `cv_.wait` and the sleep it is lost, and with no subscriber the
   thread sleeps on. A second signal helps: `StopWakesSleeper`, `SignalsEndPublisher`.
2. `publisher_sequence_wraps`: the comment says "a different number", the code tests for a greater
   one. After 2^32 coordinates the publisher goes silent for as long again.
3. `websocket_stop_before_listen`: `stop()` before `listen()` gets an exception from `stop_listening()`, never
   reaches `m_server.stop()`, and has cleared the flag that every later `stop()` tests. A `stop()` before
   `run()` has set the flag does nothing at all.
4. `websocket_stop_meets_closing`: one session that is no longer open makes `close()` throw and ends the
   loop that should close the others.
5. `subscriber_signal`: the handler calls `stop()` on a server that the subscriber never builds. For the
   same reason it forwards nothing, although the usage text says that it does.

## What is not modelled

* The **figure-8 formula** and the formatting and parsing of coordinates (floating point and text; the properties need
  only which coordinate it is). A text that does not parse, or makes the conversion throw, is a kind of sample in the subscriber.
* The **DDS protocol** itself: discovery, heartbeats and the network are the choice of what arrives next.
  `DdsChannel` has one writer; the publisher's `matched_` there is the one of `MessengerPublisherApp` without its locks,
  and the two modules are not composed. A sample that arrives before the writer leaves is dropped by the subscriber
  if it is taken after (its instance is not alive); the model does so, and `ReceivedAsWritten` says only that what was
  accepted has no gap.
* A **constructor that throws** after the participant exists leaves it undeleted; the model ends with `main`'s return.
* The **close frames** that `stop()` queues right before it stops the loop: a session counts as closing from the call of `close()` on.
* `on_message` (echoes to its sender), `on_subscription_matched` (prints), `reset()`, `is_running()`,
  `get_sequence()` (no caller); of the generated code `create_data`, `delete_data`, comparison, copy and move; `client.html`.
* A signal that interrupts the **handler** itself; a library's lock held by the interrupted thread; the
  handler at work while `main` destroys its locals. They are listed under hazards.
* The **WebSocket server inside the process**: it has no effect on the other two, and its states
  would multiply theirs. `PublisherProcess` keeps its thread, its end at any time, and the call of its `stop()` with its two outcomes.
* What the process should do **without a server**: when `listen()` throws, the server's thread ends and the rest goes on
  (`Listen` in `WebSocketServer`); no property says that it should not.

## Plan

Order of work: the shared state and the two threads that matter most (producer, publisher), their abstract
specification, the pacing they share, the server, the subscriber, the whole process, and then the
channel with the generated type support, and the proofs of all of them. This is done. What is left:

1. `DdsChannel` composed with the publisher's `history` on one side, to show that what a subscriber accepts is a
   sub-stream of what the producer made in one step rather than in two.
2. More than one field order and type in `MessageCdr`, so that the round trip is a theorem about the generator's scheme and not
   only about this message.
3. The end of `main` with a handler at work.
4. Width arithmetic of `DeadlinePacer`: the model's clock is unbounded, the code's is 64 bits of nanoseconds.
