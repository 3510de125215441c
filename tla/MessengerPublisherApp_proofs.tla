-------------------- MODULE MessengerPublisherApp_proofs --------------------
(***************************************************************************)
(* Safety of the DDS publisher for any number of subscribers, any length of*)
(* execution and any width of the sequence counter.                        *)
(***************************************************************************)
EXTENDS MessengerPublisherApp, SequenceTheorems, TLAPS

\* mutex_ is held exactly from the return of a lock or of a wait to the next
\* release; the critical section of the listener never spans two states.
MutexHeld ==
  mutex_ = "dds" <=> dds_pc \in {"predicate", "block", "check", "read", "write",
                                 "period_predicate", "period_block"}

\* The listener knows of every change of readers but the one it is handling.
ReadersCounted ==
  /\ listener \in {"idle", "notify"} => matched_ = readers
  /\ listener = "matched" => matched_ + 1 = readers
  /\ listener = "unmatched" => matched_ = readers + 1

\* What the predicate saw of matched_ stays true while mutex_ is held.
MatchedSeen ==
  /\ dds_pc = "block" => matched_ = 0
  /\ dds_pc = "check" => matched_ > 0 \/ stop_
  /\ dds_pc \in {"read", "write"} => matched_ > 0

\* A coordinate as a consumer may hold it: not newer than latest_, and the same
\* number if it is the same coordinate.
NotAhead(fix, sequence) ==
  /\ fix <= latest_.fix
  /\ fix = latest_.fix => sequence = latest_.sequence

\* The last published coordinate and the one about to be written are old news, and
\* the second is newer than the first.
Fresh ==
  /\ NotAhead(NewestPublished, last_published_sequence_)
  /\ dds_pc = "write" => /\ NotAhead(coord_data.fix, coord_data.sequence)
                         /\ coord_data.fix > NewestPublished

IInv == TypeOK /\ MutexHeld /\ ReadersCounted /\ MatchedSeen /\ NoLostMatch /\ Fresh
-----------------------------------------------------------------------------
(* Lemmas about the operators of the model.                                *)

(* The counter stays within its width.                                     *)
LEMMA SuccessorType ==
  ASSUME NEW s \in Sequence
  PROVE  Successor(s) \in Sequence
BY SharedStateAssumption DEF Sequence, Successor

(* The wrapping counter counts modulo its width.                           *)
LEMMA SuccessorMod ==
  ASSUME NEW f \in Nat
  PROVE  Successor(f % SeqMod) = (f + 1) % SeqMod
<1> DEFINE q == f \div SeqMod
           r == f % SeqMod
<1> USE SharedStateAssumption
<1>1. /\ q \in Nat
      /\ r \in 0 .. SeqMod - 1
      /\ f = SeqMod * q + r
  OBVIOUS
<1>2. \A k \in Nat, d \in 0 .. SeqMod - 1 : (SeqMod * k + d) % SeqMod = d
  OBVIOUS
<1>3. Successor(r) = (f + 1) % SeqMod
  <2> HIDE DEF q, r
  <2>1. CASE r + 1 = SeqMod
    <3>1. f + 1 = SeqMod * (q + 1) + 0
      BY <1>1, <2>1
    <3>2. (SeqMod * (q + 1) + 0) % SeqMod = 0
      BY <1>1, <1>2
    <3> QED
      BY <2>1, <3>1, <3>2 DEF Successor
  <2>2. CASE r + 1 # SeqMod
    <3>1. f + 1 = SeqMod * q + (r + 1) /\ r + 1 \in 0 .. SeqMod - 1
      BY <1>1, <2>2
    <3>2. (SeqMod * q + (r + 1)) % SeqMod = r + 1
      BY <1>1, <1>2, <3>1
    <3> QED
      BY <2>2, <3>1, <3>2 DEF Successor
  <2> QED
    BY <2>1, <2>2
<1> QED
  BY <1>3

(* A message built from a coordinate carries its fix.                      *)
LEMMA MessageOfType ==
  ASSUME NEW data \in CoordinateData
  PROVE  /\ MessageOf(data) \in Message
         /\ MessageOf(data).text = data.fix
BY SharedStateAssumption DEF CoordinateData, Message, MessageOf, ToSigned, Sequence

(* What one more sample does to the view of the history.                   *)
LEMMA AppendedNewest ==
  ASSUME history \in Seq(Message), NEW m \in Message,
         history' = Append(history, m)
  PROVE  /\ history' \in Seq(Message)
         /\ NewestPublished' = m.text
<1>1. /\ history' \in Seq(Message)
      /\ Len(history') = Len(history) + 1
      /\ history'[Len(history) + 1] = m
  BY AppendProperties
<1>2. history' # << >>
  BY <1>1, EmptySeq
<1> QED
  BY <1>1, <1>2 DEF NewestPublished

(* NewestPublished is the ordinal of a coordinate (0: none yet).           *)
LEMMA NewestType ==
  ASSUME history \in Seq(Message)
  PROVE  NewestPublished \in Nat
<1>1. CASE history = << >>
  BY <1>1 DEF NewestPublished
<1>2. CASE history # << >>
  <2>1. Len(history) \in 1 .. Len(history)
    BY <1>2, EmptySeq
  <2>2. history[Len(history)] \in Message
    BY <2>1, ElementOfSeq
  <2> QED
    BY <1>2, <2>2 DEF NewestPublished, Message
<1> QED
  BY <1>1, <1>2
-----------------------------------------------------------------------------
(* The invariant holds initially ...                                       *)
LEMMA InitIInv == Init => IInv
<1> SUFFICES ASSUME Init
             PROVE  IInv
  OBVIOUS
<1> USE DEF Init, SharedStateInit, AppInit
<1>1. TypeOK
  <2>1. NoCoordinate \in CoordinateData /\ 0 \in Sequence
    BY SharedStateAssumption DEF NoCoordinate, CoordinateData, Sequence
  <2>2. history \in Seq(Message)
    BY EmptySeq
  <2>3. stop_ \in BOOLEAN
    OBVIOUS
  <2>4. /\ matched_ \in 0 .. MaxReaders /\ readers \in 0 .. MaxReaders
    BY ReadersAssumption
  <2> QED
    BY <2>1, <2>2, <2>3, <2>4, Zenon DEF TypeOK
<1>2. MutexHeld /\ ReadersCounted /\ MatchedSeen /\ NoLostMatch
  BY DEF MutexHeld, ReadersCounted, MatchedSeen, NoLostMatch
<1>3. Fresh
  BY DEF Fresh, NotAhead, NewestPublished, NoCoordinate
<1> QED
  BY <1>1, <1>2, <1>3 DEF IInv

(* ... and every step preserves it.                                        *)
LEMMA NextIInv == IInv /\ [Next]_vars => IInv'
<1> SUFFICES ASSUME IInv, [Next]_vars
             PROVE  IInv'
  OBVIOUS
<1> USE SharedStateAssumption, ReadersAssumption
        DEF IInv, Goto, Lock, Unlock, othersVars
<1>0. NewestPublished \in Nat
  BY NewestType DEF TypeOK
<1>. DEFINE Quiet == UNCHANGED <<latest_, coord_data, last_published_sequence_, history>>
<1>1. ASSUME Quiet, dds_pc' = "write" => dds_pc = "write"
      PROVE  Fresh'
  BY <1>1 DEF Fresh, NotAhead, NewestPublished
<1>2. CASE TestStop
  BY <1>2, <1>1 DEF TestStop, ddsLocals, TypeOK, MutexHeld, ReadersCounted, MatchedSeen, NoLostMatch
<1>3. CASE TestData
  BY <1>3, <1>1 DEF TestData, ddsLocals, TypeOK, MutexHeld, ReadersCounted, MatchedSeen, NoLostMatch
<1>4. CASE MatchedLock
  BY <1>4, <1>1 DEF MatchedLock, ddsLocals, TypeOK, MutexHeld, ReadersCounted, MatchedSeen, NoLostMatch
<1>5. CASE MatchedPredicate
  BY <1>5, <1>1 DEF MatchedPredicate, MayProceed, is_stopped, ddsLocals, TypeOK, MutexHeld, ReadersCounted, MatchedSeen, NoLostMatch
<1>6. CASE MatchedBlock
  BY <1>6, <1>1 DEF MatchedBlock, ddsLocals, TypeOK, MutexHeld, ReadersCounted, MatchedSeen, NoLostMatch
<1>7. CASE TestStopMatched
  BY <1>7, <1>1 DEF TestStopMatched, is_stopped, ddsLocals, TypeOK, MutexHeld, ReadersCounted, MatchedSeen, NoLostMatch
<1>8. CASE ReadLatest
  <2>1. TypeOK' /\ MutexHeld' /\ ReadersCounted' /\ MatchedSeen' /\ NoLostMatch'
    BY <1>8 DEF ReadLatest, IsNew, get_latest, TypeOK, MutexHeld, ReadersCounted, MatchedSeen, NoLostMatch
  <2>2. NotAhead(NewestPublished, last_published_sequence_)'
    BY <1>8 DEF ReadLatest, IsNew, Fresh, NotAhead, NewestPublished
  <2>3. dds_pc' = "write" => /\ NotAhead(coord_data.fix, coord_data.sequence)'
                             /\ (coord_data.fix > NewestPublished)'
    BY <1>8, <1>0 DEF ReadLatest, IsNew, get_latest, Fresh, NotAhead, NewestPublished, TypeOK,
                CoordinateData, Sequence
  <2> QED
    BY <2>1, <2>2, <2>3 DEF Fresh
<1>9. CASE WriteAccepted
  <2>1. /\ history' \in Seq(Message)
        /\ NewestPublished' = coord_data.fix
    BY <1>9, MessageOfType, AppendedNewest DEF WriteAccepted, TypeOK
  <2>2. TypeOK'
    BY <1>9, <2>1, SuccessorType DEF WriteAccepted, TypeOK, CoordinateData
  <2>3. MutexHeld' /\ ReadersCounted' /\ MatchedSeen' /\ NoLostMatch'
    BY <1>9 DEF WriteAccepted, MutexHeld, ReadersCounted, MatchedSeen, NoLostMatch
  <2>4. Fresh'
    BY <1>9, <2>1 DEF WriteAccepted, Fresh, NotAhead
  <2> QED
    BY <2>2, <2>3, <2>4
<1>10. CASE WriteRefused
  BY <1>10, <1>1 DEF WriteRefused, RefusedKeeps, ddsLocals, TypeOK, MutexHeld, ReadersCounted, MatchedSeen, NoLostMatch
<1>11. CASE PeriodLock
  BY <1>11, <1>1 DEF PeriodLock, ddsLocals, TypeOK, MutexHeld, ReadersCounted, MatchedSeen, NoLostMatch
<1>12. CASE PeriodPredicate
  BY <1>12, <1>1 DEF PeriodPredicate, ddsLocals, TypeOK, MutexHeld, ReadersCounted, MatchedSeen, NoLostMatch
<1>13. CASE PeriodBlock
  BY <1>13, <1>1 DEF PeriodBlock, ddsLocals, TypeOK, MutexHeld, ReadersCounted, MatchedSeen, NoLostMatch
<1>14. CASE PeriodTimeout
  BY <1>14, <1>1 DEF PeriodTimeout, ddsLocals, TypeOK, MutexHeld, ReadersCounted, MatchedSeen, NoLostMatch
<1>15. CASE SpuriousWakeup
  BY <1>15, <1>1 DEF SpuriousWakeup, Waiting, notify_one, Awake, ddsLocals, TypeOK, MutexHeld, ReadersCounted, MatchedSeen, NoLostMatch
<1>16. CASE ReaderAppears
  BY <1>16, <1>1 DEF ReaderAppears, ddsLocals, TypeOK, MutexHeld, ReadersCounted, MatchedSeen, NoLostMatch
<1>17. CASE ReaderDisappears
  BY <1>17, <1>1 DEF ReaderDisappears, ddsLocals, TypeOK, MutexHeld, ReadersCounted, MatchedSeen, NoLostMatch
<1>18. CASE ListenerRecords
  BY <1>18, <1>1 DEF ListenerRecords, LocksMutex, CurrentCount, Notifies, ddsLocals, TypeOK, MutexHeld, ReadersCounted, MatchedSeen, NoLostMatch
<1>19. CASE ListenerNotifies
  BY <1>19, <1>1 DEF ListenerNotifies, notify_one, Awake, ddsLocals, TypeOK, MutexHeld, ReadersCounted, MatchedSeen, NoLostMatch
<1>20. CASE StopStore
  BY <1>20, <1>1 DEF StopStore, ddsLocals, TypeOK, MutexHeld, ReadersCounted, MatchedSeen, NoLostMatch
<1>21. CASE StopNotify
  BY <1>21, <1>1 DEF StopNotify, notify_one, Awake, ddsLocals, TypeOK, MutexHeld, ReadersCounted, MatchedSeen, NoLostMatch
<1>22. CASE CoordinateUpdate
  <2>1. TypeOK'
    BY <1>22, SuccessorType DEF CoordinateUpdate, update, appVars, ddsLocals, TypeOK, CoordinateData
  <2>2. MutexHeld' /\ ReadersCounted' /\ MatchedSeen' /\ NoLostMatch'
    BY <1>22 DEF CoordinateUpdate, appVars, MutexHeld, ReadersCounted, MatchedSeen, NoLostMatch
  <2>3. Fresh'
    BY <1>22, <1>0 DEF CoordinateUpdate, update, appVars, ddsLocals, Fresh, NotAhead, NewestPublished,
                 TypeOK, CoordinateData
  <2> QED
    BY <2>1, <2>2, <2>3
<1>23. CASE UNCHANGED vars
  BY <1>23, <1>1 DEF vars, appVars, ddsLocals, TypeOK, MutexHeld, ReadersCounted, MatchedSeen, NoLostMatch
<1> QED
  BY <1>2, <1>3, <1>4, <1>5, <1>6, <1>7, <1>8, <1>9, <1>10, <1>11, <1>12, <1>13, <1>14,
     <1>15, <1>16, <1>17, <1>18, <1>19, <1>20, <1>21, <1>22, <1>23
     DEF Next, DdsThread, Listener, Stop

(* The strengthened invariant holds throughout every execution.            *)
THEOREM Invariance == Spec => []IInv
BY InitIInv, NextIInv, PTL DEF Spec
-----------------------------------------------------------------------------
(* What the invariant is for.                                              *)

(* Every variable keeps its type; the counters keep their width.           *)
THEOREM TypeCorrect == Spec => []TypeOK
BY Invariance, PTL DEF IInv

(* No match is lost: the thread never sleeps for want of a subscriber while*)
(* there is one and no notification is on its way.                         *)
THEOREM MatchNotLost == Spec => []NoLostMatch
BY Invariance, PTL DEF IInv

(* A sample is written only while the listener's last word is that there is*)
(* a subscriber.                                                           *)
THEOREM MatchedWhenWritten == Spec => WrittenWhileMatched
<1>1. IInv /\ [Next]_vars => [history' # history => matched_ > 0]_vars
  <2> SUFFICES ASSUME IInv, Next, history' # history
               PROVE  matched_ > 0
    BY DEF vars, appVars, ddsLocals
  <2>1. WriteAccepted
    BY DEF Next, DdsThread, Listener, Stop, TestStop, TestData, MatchedLock, MatchedPredicate,
           MatchedBlock, TestStopMatched, ReadLatest, WriteRefused, PeriodLock,
           PeriodPredicate, PeriodBlock, PeriodTimeout, SpuriousWakeup, ReaderAppears,
           ReaderDisappears, ListenerRecords, ListenerNotifies, StopStore, StopNotify,
           CoordinateUpdate, appVars, ddsLocals
  <2> QED
    BY <2>1 DEF WriteAccepted, Goto, IInv, MatchedSeen
<1> QED
  BY <1>1, Invariance, PTL DEF Spec, WrittenWhileMatched

\* The samples written, and the one that may still follow.
Outgoing == Len(history) + (IF InFlight THEN 1 ELSE 0)

(* Once stop_ is set the count of samples, the one in flight included, does*)
(* not grow: a write turns the latter into one of the former, a refusal and*)
(* an old coordinate lose it, and no step brings a new one into flight.    *)
LEMMA OutgoingKept ==
  ASSUME IInv, [Next]_vars, stop_
  PROVE  stop_' /\ Outgoing' <= Outgoing
<1>1. stop_'
  BY DEF Next, DdsThread, Listener, Stop, TestStop, TestData, MatchedLock, MatchedPredicate,
         MatchedBlock, TestStopMatched, ReadLatest, WriteAccepted, WriteRefused, PeriodLock,
         PeriodPredicate, PeriodBlock, PeriodTimeout, SpuriousWakeup, ReaderAppears,
         ReaderDisappears, ListenerRecords, ListenerNotifies, StopStore, StopNotify,
         CoordinateUpdate, vars, appVars, othersVars
<1>2. Len(history) \in Nat
  BY LenProperties DEF IInv, TypeOK
<1>3. CASE WriteAccepted
  <2>1. Len(history') = Len(history) + 1
    BY <1>3, MessageOfType, AppendProperties DEF WriteAccepted, IInv, TypeOK
  <2>2. InFlight /\ ~InFlight'
    BY <1>3 DEF WriteAccepted, Goto, InFlight
  <2> QED
    BY <1>1, <1>2, <2>1, <2>2 DEF Outgoing
<1>4. CASE ~WriteAccepted
  <2>1. UNCHANGED history
    BY <1>4 DEF Next, DdsThread, Listener, Stop, TestStop, TestData, MatchedLock,
         MatchedPredicate, MatchedBlock, TestStopMatched, ReadLatest, WriteRefused, PeriodLock,
         PeriodPredicate, PeriodBlock, PeriodTimeout, SpuriousWakeup, ReaderAppears,
         ReaderDisappears, ListenerRecords, ListenerNotifies, StopStore, StopNotify,
         CoordinateUpdate, vars, appVars, ddsLocals, othersVars
  <2>2. InFlight' => InFlight
    BY <1>4 DEF InFlight, Goto, Next, DdsThread, Listener, Stop, TestStop, TestData,
         MatchedLock, MatchedPredicate, MatchedBlock, TestStopMatched, is_stopped, ReadLatest,
         WriteRefused, PeriodLock, PeriodPredicate, PeriodBlock, PeriodTimeout,
         SpuriousWakeup, notify_one, Awake, ReaderAppears, ReaderDisappears,
         ListenerRecords, ListenerNotifies, StopStore, StopNotify, CoordinateUpdate, vars,
         appVars
  <2> QED
    BY <1>1, <1>2, <2>1, <2>2 DEF Outgoing
<1> QED
  BY <1>3, <1>4

(* After stop() at most the sample in flight still goes out, and once, for *)
(* ever after, whether or not the thread ends.                             *)
THEOREM StoppedSendsLast == Spec => LastSample
<1>1. ASSUME NEW n \in 0 .. MaxTicks
      PROVE  Spec => [](stop_ /\ Len(history) + (IF InFlight THEN 1 ELSE 0) = n
                          => [](Len(history) <= n))
  <2> DEFINE Told == stop_ /\ Len(history) + (IF InFlight THEN 1 ELSE 0) = n
             Kept == stop_ /\ Outgoing <= n
             Within == Len(history) <= n
  <2>1. IInv => Outgoing \in Nat /\ Len(history) <= Outgoing
    BY LenProperties DEF IInv, TypeOK, Outgoing
  <2>2. Told => Kept
    BY DEF Outgoing
  <2>3. IInv /\ [Next]_vars /\ Kept => Kept'
    <3> SUFFICES ASSUME IInv, [Next]_vars, Kept
                 PROVE  stop_' /\ Outgoing' <= n
      BY DEF Kept
    <3>1. Outgoing \in Nat /\ Outgoing' <= Outgoing /\ stop_'
      BY <2>1, OutgoingKept
    <3>2. Outgoing' \in Nat
      BY NextIInv, LenProperties DEF IInv, TypeOK, Outgoing
    <3> QED
      BY <3>1, <3>2, SharedStateAssumption
  <2>4. IInv /\ Kept => Within
    <3> SUFFICES ASSUME IInv, Outgoing <= n PROVE Len(history) <= n
      OBVIOUS
    <3>1. Len(history) \in Nat
      BY LenProperties DEF IInv, TypeOK
    <3> QED
      BY <2>1, <3>1, SharedStateAssumption
  <2> HIDE DEF Told, Kept, Within
  <2>5. Spec => [](Told => []Within)
    BY <2>2, <2>3, <2>4, Invariance, PTL DEF Spec
  <2> QED
    BY <2>5 DEF Told, Within
<1> QED
  BY <1>1 DEF LastSample
-----------------------------------------------------------------------------
(* Samples are whole.                                                      *)

\* A coordinate and the number beside it, in the shared state and in the snapshot.
Numbered ==
  /\ latest_.sequence = latest_.fix % SeqMod
  /\ coord_data.sequence = coord_data.fix % SeqMod

(* The conversion keeps the number, and it fits.                           *)
LEMMA ToSignedKeeps ==
  ASSUME NEW s \in Sequence
  PROVE  /\ ToSigned(s) \in Int
         /\ ToSigned(s) % SeqMod = s
         /\ 2 * ToSigned(s) \in -SeqMod .. SeqMod - 1
<1> USE SharedStateAssumption DEF Sequence
<1>1. \A k \in Int, d \in 0 .. SeqMod - 1 : (SeqMod * k + d) % SeqMod = d
  OBVIOUS
<1>2. CASE 2 * s < SeqMod
  <2>1. (SeqMod * 0 + s) % SeqMod = s
    BY <1>1
  <2> QED
    BY <1>2, <2>1 DEF ToSigned
<1>3. CASE ~(2 * s < SeqMod)
  <2>1. (SeqMod * (-1) + s) % SeqMod = s
    BY <1>1
  <2>2. ToSigned(s) = SeqMod * (-1) + s
    BY <1>3 DEF ToSigned
  <2>3. 2 * ToSigned(s) \in -SeqMod .. SeqMod - 1 /\ ToSigned(s) \in Int
    BY <1>3 DEF ToSigned
  <2> QED
    BY <2>1, <2>2, <2>3
<1> QED
  BY <1>2, <1>3

(* No sample is torn at first ...                                          *)
LEMMA InitWhole == Init => Numbered /\ SamplesNotTorn
<1>1. 0 % SeqMod = 0
  BY SharedStateAssumption
<1> QED
  BY <1>1, EmptySeq DEF Init, SharedStateInit, AppInit, NoCoordinate, Numbered, SamplesNotTorn

(* ... and no step tears one.                                              *)
LEMMA NextWhole ==
  IInv /\ Numbered /\ SamplesNotTorn /\ [Next]_vars => (Numbered /\ SamplesNotTorn)'
<1> SUFFICES ASSUME IInv, Numbered, SamplesNotTorn, [Next]_vars
             PROVE  Numbered' /\ SamplesNotTorn'
  OBVIOUS
<1>1. CASE CoordinateUpdate
  <2>1. latest_.fix \in Nat
    BY DEF IInv, TypeOK, CoordinateData
  <2> QED
    BY <1>1, <2>1, SuccessorMod
       DEF CoordinateUpdate, update, appVars, ddsLocals, Numbered, SamplesNotTorn
<1>2. CASE ReadLatest
  BY <1>2 DEF ReadLatest, IsNew, get_latest, othersVars, Numbered, SamplesNotTorn
<1>3. CASE WriteAccepted
  <2>1. Numbered'
    BY <1>3 DEF WriteAccepted, othersVars, Numbered
  <2> DEFINE m == MessageOf(coord_data)
  <2>2. m \in Message /\ history \in Seq(Message)
    BY MessageOfType DEF IInv, TypeOK
  <2>3. m.count % SeqMod = m.text % SeqMod /\ 2 * m.count \in -SeqMod .. SeqMod - 1
    BY ToSignedKeeps DEF MessageOf, Numbered, IInv, TypeOK, CoordinateData
  <2>4. /\ history' = Append(history, m)
        /\ Len(history) \in Nat
        /\ Len(history') = Len(history) + 1
        /\ history'[Len(history) + 1] = m
        /\ \A i \in 1 .. Len(history) : history'[i] = history[i]
    <3> HIDE DEF m
    <3>1. history' = Append(history, m)
      BY <1>3 DEF WriteAccepted, m
    <3> QED
      BY <2>2, <3>1, AppendProperties, LenProperties
  <2>5. SamplesNotTorn'
    <3> HIDE DEF m
    <3> SUFFICES ASSUME NEW i \in 1 .. Len(history')
                 PROVE  /\ history'[i].count % SeqMod = history'[i].text % SeqMod
                        /\ 2 * history'[i].count \in -SeqMod .. SeqMod - 1
      BY DEF SamplesNotTorn
    <3>1. CASE i = Len(history) + 1
      BY <3>1, <2>3, <2>4
    <3>2. CASE i \in 1 .. Len(history)
      BY <3>2, <2>4 DEF SamplesNotTorn
    <3> QED
      BY <3>1, <3>2, <2>4
  <2> QED
    BY <2>1, <2>5
<1>4. CASE ~CoordinateUpdate /\ ~ReadLatest /\ ~WriteAccepted
  <2>1. UNCHANGED <<latest_, coord_data, history>>
    BY <1>4 DEF Next, DdsThread, Listener, Stop, TestStop, TestData, MatchedLock,
         MatchedPredicate, MatchedBlock, TestStopMatched, WriteRefused, PeriodLock,
         PeriodPredicate, PeriodBlock, PeriodTimeout, SpuriousWakeup, ReaderAppears,
         ReaderDisappears, ListenerRecords, ListenerNotifies, StopStore, StopNotify,
         vars, appVars, ddsLocals, othersVars
  <2> QED
    BY <2>1 DEF Numbered, SamplesNotTorn
<1> QED
  BY <1>1, <1>2, <1>3, <1>4

(* text and count of every sample come from one coordinate, whatever the   *)
(* producer does between the reads and through every wrap of the counter.  *)
THEOREM WholeSamples == Spec => []SamplesNotTorn
BY InitWhole, NextWhole, Invariance, PTL DEF Spec
-----------------------------------------------------------------------------
(* The publisher implements SampledStream.                                 *)

\* Published is a sequence of numbers, and a new sample is appended to it.
LEMMA PublishedAppend ==
  ASSUME history \in Seq(Message), NEW m \in Message,
         history' = Append(history, m)
  PROVE  Published' = Append(Published, m.text)
<1>1. /\ history' \in Seq(Message)
      /\ Len(history) \in Nat
      /\ Len(history') = Len(history) + 1
      /\ history'[Len(history) + 1] = m
      /\ \A i \in 1 .. Len(history) : history'[i] = history[i]
  BY AppendProperties, LenProperties
<1>2. /\ \A i \in 1 .. Len(history) : history[i] \in Message
      /\ \A i \in 1 .. Len(history') : history'[i] \in Message
  BY <1>1, ElementOfSeq
<1>3. /\ Published \in Seq(Nat)
      /\ Len(Published) = Len(history)
      /\ \A i \in 1 .. Len(history) : Published[i] = history[i].text
  BY <1>1, <1>2 DEF Published, Message
<1>4. /\ Published' \in Seq(Nat)
      /\ Len(Published') = Len(history) + 1
      /\ \A i \in 1 .. Len(history) + 1 : Published'[i] = history'[i].text
  BY <1>1, <1>2 DEF Published, Message
<1>5. /\ Append(Published, m.text) \in Seq(Nat)
      /\ Len(Append(Published, m.text)) = Len(history) + 1
      /\ \A i \in 1 .. Len(history) : Append(Published, m.text)[i] = Published[i]
      /\ Append(Published, m.text)[Len(history) + 1] = m.text
  BY <1>3, AppendProperties DEF Message
<1>6. \A i \in 1 .. Len(history) + 1 : Published'[i] = Append(Published, m.text)[i]
  <2> SUFFICES ASSUME NEW i \in 1 .. Len(history) + 1
               PROVE  Published'[i] = Append(Published, m.text)[i]
    OBVIOUS
  <2>1. Published'[i] = history'[i].text
    BY <1>4
  <2>2. CASE i \in 1 .. Len(history)
    <3>1. history'[i] = history[i]
      BY <1>1, <2>2
    <3>2. Append(Published, m.text)[i] = history[i].text
      BY <1>3, <1>5, <2>2
    <3> QED
      BY <2>1, <3>1, <3>2
  <2>3. CASE i = Len(history) + 1
    BY <1>1, <1>5, <2>1, <2>3
  <2>4. i \in 1 .. Len(history) \/ i = Len(history) + 1
    BY <1>1
  <2> QED
    BY <2>2, <2>3, <2>4
<1> QED
  BY <1>4, <1>5, <1>6, SeqEqual

\* The two views of the newest sample agree.
LEMMA NewestAgree ==
  ASSUME history \in Seq(Message)
  PROVE  Stream!Newest = NewestPublished
<1>1. Len(history) \in Nat /\ (history # << >> => Len(history) > 0)
  BY LenProperties, EmptySeq
<1>2. /\ Len(Published) = Len(history)
      /\ \A i \in 1 .. Len(history) : Published[i] = history[i].text
  BY <1>1 DEF Published
<1>3. Published = << >> <=> history = << >>
  BY <1>1, <1>2, EmptySeq
<1> QED
  BY <1>1, <1>2, <1>3 DEF Stream!Newest, NewestPublished

\* The fix that a list of samples ends with.
LastFix(fixes) == IF fixes = << >> THEN 0 ELSE fixes[Len(fixes)]

(* A step of the publisher publishes nothing, or a coordinate that the     *)
(* shared state has seen and that is newer than all it published before.   *)
LEMMA StepForwards ==
  ASSUME IInv, [Next]_vars
  PROVE  \/ UNCHANGED Published
         \/ /\ UNCHANGED latest_
            /\ LastFix(Published) \in Nat
            /\ \E fix \in LastFix(Published) + 1 .. latest_.fix :
                 Published' = Append(Published, fix)
<1>1. CASE WriteAccepted
  <2>1. /\ Published' = Append(Published, coord_data.fix)
        /\ LastFix(Published) = NewestPublished
    BY <1>1, MessageOfType, PublishedAppend, NewestAgree
       DEF WriteAccepted, IInv, TypeOK, LastFix, Stream!Newest
  <2>2. /\ NewestPublished \in Nat
        /\ coord_data.fix \in NewestPublished + 1 .. latest_.fix
    BY <1>1, NewestType DEF WriteAccepted, Goto, IInv, TypeOK, Fresh, NotAhead,
                            CoordinateData
  <2> QED
    BY <1>1, <2>1, <2>2 DEF WriteAccepted, othersVars
<1>2. CASE ~WriteAccepted
  BY <1>2 DEF Next, DdsThread, Listener, Stop, TestStop, TestData, MatchedLock,
         MatchedPredicate, MatchedBlock, TestStopMatched, ReadLatest, WriteRefused,
         PeriodLock, PeriodPredicate, PeriodBlock, PeriodTimeout, SpuriousWakeup,
         ReaderAppears, ReaderDisappears, ListenerRecords, ListenerNotifies, StopStore,
         StopNotify, CoordinateUpdate, vars, appVars, ddsLocals, othersVars, Published
<1> QED
  BY <1>1, <1>2

(* Whatever the interleaving, the wrap-around and the refused writes, what *)
(* is published is a sub-stream of what was produced.                      *)
THEOREM Refinement == Spec => ForwardsSubStream
<1>1. Init => Stream!Init
  BY EmptySeq DEF Init, SharedStateInit, AppInit, NoCoordinate, Stream!Init, Published
<1>2. IInv /\ [Next]_vars => [Stream!Next]_<<latest_.fix, Published>>
  <2> SUFFICES ASSUME IInv, [Next]_vars
               PROVE  \/ Stream!Next
                      \/ UNCHANGED <<latest_.fix, Published>>
    OBVIOUS
  <2>1. CASE CoordinateUpdate
    BY <2>1 DEF CoordinateUpdate, update, appVars, ddsLocals, Published, Stream!Next,
                Stream!Produce
  <2>2. CASE ~CoordinateUpdate
    <3>1. UNCHANGED latest_
      BY <2>2 DEF Next, DdsThread, Listener, Stop, TestStop, TestData, MatchedLock,
           MatchedPredicate, MatchedBlock, TestStopMatched, ReadLatest, WriteAccepted,
           WriteRefused, PeriodLock, PeriodPredicate, PeriodBlock, PeriodTimeout,
           SpuriousWakeup, ReaderAppears, ReaderDisappears, ListenerRecords,
           ListenerNotifies, StopStore, StopNotify, vars, othersVars
    <3> QED
      BY <3>1, StepForwards DEF LastFix, Stream!Next, Stream!Emit, Stream!Newest
  <2> QED
    BY <2>1, <2>2
<1> QED
  BY <1>1, <1>2, Invariance, PTL DEF Spec, ForwardsSubStream, Stream!Spec
=============================================================================
