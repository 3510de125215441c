----------------------- MODULE MessengerPublisherApp -----------------------
(***************************************************************************)
(* The DDS publisher (src/src/MessengerPublisherApp.cxx).  Its threads:    *)
(*   - the DDS thread: run() calls publish_from_shared_state(), which waits*)
(*     on cv_ until a subscriber is matched, and then sleeps on the same   *)
(*     cv_ until the deadline of its period;                               *)
(*   - the discovery thread of Fast DDS, which calls the listener;         *)
(*   - the thread on which the signal handler calls stop(): it takes no    *)
(*     lock, so it runs between any two steps of the others;               *)
(*   - the producer, which replaces latest_ at any moment.                 *)
(* main sets shared_state_ before it starts the thread, so the two guards  *)
(* for a missing state never fire.                                         *)
(***************************************************************************)
EXTENDS SharedCoordinateState, Sequences

CONSTANT MaxReaders     \* bound: subscribers matched at the same time

ASSUME ReadersAssumption == MaxReaders \in Nat

VARIABLES
  stop_,                     \* std::atomic<bool> stop_
  matched_,                  \* int32_t matched_, guarded by mutex_
  mutex_,                    \* holder of mutex_: "dds" or "free"
  last_published_sequence_,  \* uint32_t, DDS thread only
  samples_sent_,             \* uint32_t, DDS thread only
  coord_data,                \* local of publish_from_shared_state()
  history,                   \* samples accepted by writer_ (reliable, keep all)
  readers,                   \* subscribers the DDS layer has matched
  listener,                  \* where the discovery thread is
  dds_pc,                    \* where the DDS thread is
  app_stop                   \* where the caller of stop() is

ddsLocals == <<last_published_sequence_, samples_sent_, coord_data, history>>
\* What the DDS thread does not write.
othersVars == <<latest_, stop_, matched_, readers, listener, app_stop>>
appVars == <<stop_, matched_, mutex_, ddsLocals, readers, listener, dds_pc,
             app_stop>>
vars == <<latest_, appVars>>

Message == [text : Nat, count : Int]

\* Every variable keeps its type: matched_ counts no more readers than there are,
\* and the counters keep the width of uint32_t.
TypeOK ==
  /\ latest_ \in CoordinateData
  /\ stop_ \in BOOLEAN
  /\ matched_ \in 0 .. MaxReaders
  /\ mutex_ \in {"free", "dds"}
  /\ last_published_sequence_ \in Sequence
  /\ samples_sent_ \in Sequence
  /\ coord_data \in CoordinateData
  /\ history \in Seq(Message)
  /\ readers \in 0 .. MaxReaders
  /\ listener \in {"idle", "matched", "unmatched", "notify"}
  /\ dds_pc \in {"loop", "has_data", "lock", "predicate", "block", "wait",
                 "check", "read", "write",
                 "period_lock", "period_predicate", "period_block",
                 "period_wait", "done"}
  /\ app_stop \in {"idle", "notify", "returned"}

AppInit ==
  /\ stop_ = FALSE
  /\ matched_ = 0
  /\ mutex_ = "free"
  /\ last_published_sequence_ = 0
  /\ samples_sent_ = 0
  /\ coord_data = NoCoordinate
  /\ history = << >>
  /\ readers = 0
  /\ listener = "idle"
  /\ dds_pc = "loop"
  /\ app_stop = "idle"

Init == SharedStateInit /\ AppInit
-----------------------------------------------------------------------------
(* mutex_ and cv_ (C++ library).  Only the DDS thread ever waits on cv_;   *)
(* the listener's whole critical section is one step.                      *)

Goto(from, to) == dds_pc = from /\ dds_pc' = to
Lock == mutex_ = "free" /\ mutex_' = "dds"
Unlock == mutex_ = "dds" /\ mutex_' = "free"

Waiting == dds_pc \in {"wait", "period_wait"}

\* A woken thread takes the mutex again and re-evaluates its predicate.
Awake(pc) ==
  IF pc = "wait" THEN "lock" ELSE IF pc = "period_wait" THEN "period_lock" ELSE pc

\* notify_one wakes the waiter that is there now and leaves no trace otherwise.
notify_one == dds_pc' = Awake(dds_pc)
-----------------------------------------------------------------------------
(* The DDS thread: run() ...                                               *)

\* Mutant: the thread sees only the value that stop_ had at first.
IsStoppedStale == FALSE

is_stopped == stop_

TestStop ==
  /\ Goto("loop", IF is_stopped THEN "done" ELSE "has_data")
  /\ UNCHANGED <<othersVars, mutex_, ddsLocals>>

(* ... publish_from_shared_state() ...                                     *)

TestData ==
  /\ Goto("has_data", IF has_data THEN "lock" ELSE "period_lock")
  /\ UNCHANGED <<othersVars, mutex_, ddsLocals>>

MatchedLock ==
  /\ Goto("lock", "predicate")
  /\ Lock
  /\ UNCHANGED <<othersVars, ddsLocals>>

\* Mutant: the predicate does not look at stop_.
MayProceedNoStop == matched_ > 0

MayProceed == matched_ > 0 \/ is_stopped

\* The predicate of the wait for a subscriber; it is evaluated under mutex_, but
\* the step that puts the thread to sleep is another one.
MatchedPredicate ==
  /\ Goto("predicate", IF MayProceed THEN "check" ELSE "block")
  /\ UNCHANGED <<othersVars, mutex_, ddsLocals>>

\* cv_.wait releases mutex_ and enqueues the thread atomically.
MatchedBlock ==
  /\ Goto("block", "wait")
  /\ Unlock
  /\ UNCHANGED <<othersVars, ddsLocals>>

\* Mutant: whatever ended the wait, a sample is read.
TestStopMatchedDropped ==
  /\ Goto("check", "read")
  /\ UNCHANGED <<othersVars, mutex_, ddsLocals>>

TestStopMatched ==
  \/ /\ ~is_stopped
     /\ Goto("check", "read")
     /\ UNCHANGED <<othersVars, mutex_, ddsLocals>>
  \/ /\ is_stopped
     /\ Goto("check", "period_lock")
     /\ Unlock
     /\ UNCHANGED <<othersVars, ddsLocals>>

\* Mutant: a sample that was already sent counts as new.
IsNewAlways(data) == TRUE

IsNew(data) == data.sequence > last_published_sequence_

\* get_latest(), and the test that the sample is newer than the last one.
ReadLatest ==
  /\ coord_data' = get_latest
  /\ \/ /\ IsNew(get_latest)
        /\ Goto("read", "write")
        /\ UNCHANGED mutex_
     \/ /\ ~IsNew(get_latest)
        /\ Goto("read", "period_lock")
        /\ Unlock
  /\ UNCHANGED <<othersVars, last_published_sequence_, samples_sent_, history>>

\* Mutant: the number is read from the shared state a second time.
MessageOfReread(data) == [text |-> data.fix, count |-> ToSigned(latest_.sequence)]

MessageOf(data) == [text |-> data.fix, count |-> ToSigned(data.sequence)]

\* writer_->write accepts the sample.  mutex_ is released on return, and run()
\* counts the sample.
WriteAccepted ==
  /\ Goto("write", "period_lock")
  /\ history' = Append(history, MessageOf(coord_data))
  /\ last_published_sequence_' = coord_data.sequence
  /\ samples_sent_' = Successor(samples_sent_)
  /\ Unlock
  /\ UNCHANGED <<othersVars, coord_data>>

\* Mutant: the sequence number is recorded before the return code is known.
RefusedRecords == coord_data.sequence

RefusedKeeps == last_published_sequence_

\* writer_->write refuses it (a full history, a timeout, ...): nothing is recorded,
\* and the next period tries again with the coordinate that is then the latest.
WriteRefused ==
  /\ Goto("write", "period_lock")
  /\ last_published_sequence_' = RefusedKeeps
  /\ Unlock
  /\ UNCHANGED <<othersVars, samples_sent_, coord_data, history>>

(* ... and the wait for the deadline.                                      *)

PeriodLock ==
  /\ Goto("period_lock", "period_predicate")
  /\ Lock
  /\ UNCHANGED <<othersVars, ddsLocals>>

PeriodPredicate ==
  \/ /\ ~is_stopped
     /\ Goto("period_predicate", "period_block")
     /\ UNCHANGED <<othersVars, mutex_, ddsLocals>>
  \/ /\ is_stopped
     /\ Goto("period_predicate", "loop")
     /\ Unlock
     /\ UNCHANGED <<othersVars, ddsLocals>>

PeriodBlock ==
  /\ Goto("period_block", "period_wait")
  /\ Unlock
  /\ UNCHANGED <<othersVars, ddsLocals>>

\* The deadline passes: the thread takes mutex_, computes the next deadline and
\* releases mutex_ at the end of the iteration.
PeriodTimeout ==
  /\ Goto("period_wait", "loop")
  /\ mutex_ = "free"
  /\ UNCHANGED <<othersVars, mutex_, ddsLocals>>

DdsThread ==
  \/ TestStop \/ TestData
  \/ MatchedLock \/ MatchedPredicate \/ MatchedBlock \/ TestStopMatched
  \/ ReadLatest \/ WriteAccepted \/ WriteRefused
  \/ PeriodLock \/ PeriodPredicate \/ PeriodBlock \/ PeriodTimeout

\* The C++ library lets a wait return without a notification.
SpuriousWakeup ==
  /\ Waiting
  /\ notify_one
  /\ UNCHANGED <<othersVars, mutex_, ddsLocals>>
-----------------------------------------------------------------------------
(* The discovery thread: a subscriber appears or disappears, and           *)
(* on_publication_matched is called with the new current_count.  Fast DDS  *)
(* calls it synchronously, so the next change waits for the callback.      *)

ReaderAppears ==
  /\ listener = "idle" /\ readers < MaxReaders
  /\ readers' = readers + 1
  /\ listener' = "matched"
  /\ UNCHANGED <<latest_, stop_, matched_, mutex_, ddsLocals, dds_pc, app_stop>>

ReaderDisappears ==
  /\ listener = "idle" /\ readers > 0
  /\ readers' = readers - 1
  /\ listener' = "unmatched"
  /\ UNCHANGED <<latest_, stop_, matched_, mutex_, ddsLocals, dds_pc, app_stop>>

\* Mutants: the callback takes no lock; it only ever increments matched_; it ends
\* without a notification.
LocksNothing == TRUE
MatchesOnly == IF listener = "matched" THEN matched_ + 1 ELSE matched_
NotifiesNever == FALSE

LocksMutex == mutex_ = "free"
CurrentCount == readers
Notifies == listener = "matched"

\* on_publication_matched: the critical section.  A change that is not +1 or -1
\* would be ignored; Fast DDS reports readers one by one.
ListenerRecords ==
  /\ listener \in {"matched", "unmatched"}
  /\ LocksMutex
  /\ matched_' = CurrentCount
  /\ listener' = IF Notifies THEN "notify" ELSE "idle"
  /\ UNCHANGED <<latest_, stop_, mutex_, ddsLocals, readers, dds_pc, app_stop>>

ListenerNotifies ==
  /\ listener = "notify"
  /\ notify_one
  /\ listener' = "idle"
  /\ UNCHANGED <<latest_, stop_, matched_, mutex_, ddsLocals, readers, app_stop>>

Listener == ListenerRecords \/ ListenerNotifies
-----------------------------------------------------------------------------
(* stop(): the store and the notification, without mutex_.                 *)

StopStore ==
  /\ app_stop \in {"idle", "returned"}
  /\ stop_' = TRUE
  /\ app_stop' = "notify"
  /\ UNCHANGED <<latest_, matched_, mutex_, ddsLocals, readers, listener, dds_pc>>

StopNotify ==
  /\ app_stop = "notify"
  /\ notify_one
  /\ app_stop' = "returned"
  /\ UNCHANGED <<latest_, stop_, matched_, mutex_, ddsLocals, readers, listener>>

Stop == StopStore \/ StopNotify
-----------------------------------------------------------------------------
\* The producer stores the next coordinate; MaxTicks bounds the execution.
CoordinateUpdate ==
  /\ latest_.fix < MaxTicks
  /\ update(latest_.fix + 1, Successor(latest_.sequence))
  /\ UNCHANGED appVars

Next ==
  \/ DdsThread \/ SpuriousWakeup
  \/ ReaderAppears \/ ReaderDisappears \/ Listener
  \/ Stop \/ CoordinateUpdate

Spec == Init /\ [][Next]_vars

\* Threads that can step are scheduled and deadlines pass.  The mutex is not fair,
\* but the DDS thread gives it up for most of every period, so a listener that
\* keeps asking gets it; a write that is retried for ever is accepted once; and the
\* deadline of a period is absolute, so spurious wake-ups cannot postpone it for ever.
Fairness ==
  /\ WF_vars(DdsThread)
  /\ SF_vars(Listener)
  /\ SF_vars(WriteAccepted)
  /\ SF_vars(PeriodTimeout)
  /\ WF_vars(StopNotify)
  /\ WF_vars(CoordinateUpdate)

FairSpec == Spec /\ Fairness
-----------------------------------------------------------------------------
(* The fixes handed to the writer, in order, and the last of them.         *)
Published == [i \in 1 .. Len(history) |-> history[i].text]
NewestPublished == IF history = << >> THEN 0 ELSE history[Len(history)].text

Stream == INSTANCE SampledStream WITH produced <- latest_.fix, emitted <- Published

(* The publisher forwards a sub-stream of the coordinates: in order, none  *)
(* twice, none invented, although latest_ is replaced between has_data()   *)
(* and get_latest(), during the wait and during the write.                 *)
ForwardsSubStream == Stream!Spec

(* text and count of a sample belong to the same coordinate: both come     *)
(* from the one snapshot that get_latest() returned, and the conversion to *)
(* the signed count, negative in the upper half, loses nothing of a number.*)
SamplesNotTorn ==
  \A i \in 1 .. Len(history) :
    /\ history[i].count % SeqMod = history[i].text % SeqMod
    /\ 2 * history[i].count \in -SeqMod .. SeqMod - 1

(* A sample is written only while a subscriber is matched: mutex_ is held  *)
(* from the predicate to the write, so an unmatch cannot slip in between.  *)
WrittenWhileMatched == [][history' # history => matched_ > 0]_vars

(* No match is lost: a thread asleep for want of a subscriber while there  *)
(* is one is about to be notified.                                         *)
NoLostMatch == dds_pc = "wait" /\ matched_ > 0 => listener = "notify"

InFlight == dds_pc \in {"read", "write"}

(* What can still go out after stop(): the one sample that is being read or*)
(* written at that moment, once, however long a lost notification keeps the*)
(* thread alive and however many coordinates and subscribers still come.   *)
LastSample ==
  \A n \in 0 .. MaxTicks :
    [](stop_ /\ Len(history) + (IF InFlight THEN 1 ELSE 0) = n
         => [](Len(history) <= n))

(* Every coordinate is overtaken by a published one while a subscriber is  *)
(* matched and nobody stops the publisher, through refused writes, spurious*)
(* wake-ups and subscribers that come and go.                              *)
LatestPublished ==
  \A n \in 1 .. MaxTicks :
    latest_.fix >= n /\ readers > 0
      ~> NewestPublished >= n \/ readers = 0 \/ stop_

(* A stop() whose notification is still to come when the thread is asleep, *)
(* in either wait, ends the thread: so a second call always helps.         *)
StopWakesSleeper == app_stop = "notify" /\ Waiting ~> dds_pc = "done"

(* A stopped publisher ends as soon as a subscriber is matched, even if    *)
(* the notification of stop() was lost.                                    *)
StopEndsMatchedRun == stop_ /\ matched_ > 0 ~> dds_pc = "done" \/ matched_ = 0

(* What MessengerApplication.hpp says of stop(): "Trigger the end of       *)
(* execution".                                                             *)
StopEndsRun == stop_ ~> dds_pc = "done"

(* What the comment above the comparison says: a sample is new, and so     *)
(* published, when its sequence number is a different one.                 *)
DifferentIsPublished ==
  \A s \in Sequence :
    latest_.sequence = s /\ last_published_sequence_ # s /\ readers > 0
      ~> last_published_sequence_ = s \/ latest_.sequence # s \/ readers = 0 \/ stop_
=============================================================================
