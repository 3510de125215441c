-------------------- MODULE MessengerSubscriberApp_proofs --------------------
(***************************************************************************)
(* Safety of the DDS subscriber for any number of samples and any width of *)
(* its counter.                                                            *)
(***************************************************************************)
EXTENDS MessengerSubscriberApp, SequenceTheorems, FiniteSetTheorems, TLAPS

\* The samples that the callback has taken and looked at, and the valid ones of them.
Seen == IF callback = "count" THEN taken - 1 ELSE taken
Valid(n) == {i \in 1 .. n : arrived[i] # "invalid"}

\* A sample that is being looked at has been taken.
TakenFirst == callback = "count" => taken > 0

Counted == samples_received_ = Cardinality(Valid(Seen)) % CountMod

\* Only a handler that runs, or has run, has got past main's installing it, and its
\* first step sets stop_, for good; run() returns after that.
Ordered ==
  /\ handler \in {"notify", "ws_stop", "done"} \/ run_pc = "done" => stop_
  /\ main = "exited" => stop_

IInv == TypeOK /\ TakenFirst /\ Counted /\ Ordered /\ EndsWhenTold
-----------------------------------------------------------------------------
(* Lemmas about the operators of the model.                                *)

(* The wrapping counter counts modulo its width.                           *)
LEMMA IncrementMod ==
  ASSUME NEW n \in Nat
  PROVE  Increment(n % CountMod) = (n + 1) % CountMod
<1> DEFINE q == n \div CountMod
           r == n % CountMod
<1> USE SubscriberAssumption
<1>1. /\ q \in Nat
      /\ r \in 0 .. CountMod - 1
      /\ n = CountMod * q + r
  OBVIOUS
<1>2. \A k \in Nat, d \in 0 .. CountMod - 1 : (CountMod * k + d) % CountMod = d
  OBVIOUS
<1>3. Increment(r) = (n + 1) % CountMod
  <2> HIDE DEF q, r
  <2>1. CASE r + 1 = CountMod
    <3>1. n + 1 = CountMod * (q + 1) + 0
      BY <1>1, <2>1
    <3>2. (CountMod * (q + 1) + 0) % CountMod = 0
      BY <1>1, <1>2
    <3> QED
      BY <2>1, <3>1, <3>2 DEF Increment
  <2>2. CASE r + 1 # CountMod
    <3>1. n + 1 = CountMod * q + (r + 1) /\ r + 1 \in 0 .. CountMod - 1
      BY <1>1, <2>2
    <3>2. (CountMod * q + (r + 1)) % CountMod = r + 1
      BY <1>1, <1>2, <3>1
    <3> QED
      BY <2>2, <3>1, <3>2 DEF Increment
  <2> QED
    BY <2>1, <2>2
<1> QED
  BY <1>3

(* Finitely many samples, finitely many valid ones.                        *)
LEMMA ValidFinite ==
  ASSUME NEW n \in Nat
  PROVE  /\ IsFiniteSet(Valid(n))
         /\ Cardinality(Valid(n)) \in Nat
<1>1. IsFiniteSet(1 .. n)
  BY FS_Interval
<1>2. Valid(n) \subseteq 1 .. n
  BY DEF Valid
<1> QED
  BY <1>1, <1>2, FS_Subset, FS_CardinalityType

(* One more sample counts if it is valid.                                  *)
LEMMA ValidNext ==
  ASSUME NEW n \in Nat \ {0}
  PROVE  Cardinality(Valid(n)) =
           IF arrived[n] # "invalid" THEN Cardinality(Valid(n - 1)) + 1
           ELSE Cardinality(Valid(n - 1))
<1>1. n - 1 \in Nat /\ 1 .. n = (1 .. n - 1) \cup {n} /\ n \notin 1 .. n - 1
  OBVIOUS
<1>2. CASE arrived[n] # "invalid"
  <2>1. Valid(n) = Valid(n - 1) \cup {n} /\ n \notin Valid(n - 1)
    BY <1>1, <1>2 DEF Valid
  <2> QED
    BY <1>1, <1>2, <2>1, ValidFinite, FS_AddElement
<1>3. CASE arrived[n] = "invalid"
  <2>1. Valid(n) = Valid(n - 1)
    BY <1>1, <1>3 DEF Valid
  <2> QED
    BY <1>3, <2>1
<1> QED
  BY <1>2, <1>3
-----------------------------------------------------------------------------
(* The invariant holds at first ...                                        *)
LEMMA InitIInv == Init => IInv
<1> SUFFICES ASSUME Init
             PROVE  IInv
  OBVIOUS
<1> USE SubscriberAssumption DEF Init
<1>3. Ordered /\ EndsWhenTold
  BY DEF Ordered, EndsWhenTold
<1>1. TypeOK
  <2>1. arrived \in Seq(Kinds) /\ Len(arrived) = 0
    BY EmptySeq
  <2>2. stop_ \in BOOLEAN /\ data_available \in BOOLEAN
    OBVIOUS
  <2>3. samples_received_ \in 0 .. CountMod - 1 /\ taken \in 0 .. Len(arrived)
    BY <2>1
  <2> QED
    BY <2>1, <2>2, <2>3, Zenon DEF TypeOK
<1>2. Counted
  <2>1. Seen = 0 /\ Valid(0) = {}
    BY DEF Seen, Valid
  <2>2. Cardinality(Valid(0)) = 0
    BY <2>1, FS_EmptySet
  <2> QED
    BY <2>1, <2>2 DEF Counted
<1> QED
  BY <1>1, <1>2, <1>3 DEF IInv, TakenFirst

(* ... every step preserves the count ...                                  *)
LEMMA NextCounted == IInv /\ [Next]_vars => TypeOK' /\ TakenFirst' /\ Counted'
<1> SUFFICES ASSUME IInv, [Next]_vars
             PROVE  TypeOK' /\ TakenFirst' /\ Counted'
  OBVIOUS
<1> USE SubscriberAssumption DEF IInv, otherVars, dataVars
<1>0. Seen \in 0 .. Len(arrived) /\ Len(arrived) \in Nat
  BY LenProperties DEF TypeOK, TakenFirst, Seen
<1>1. ASSUME NEW kind \in Kinds, SampleArrives(kind)
      PROVE  TypeOK' /\ TakenFirst' /\ Counted'
  <2>1. /\ arrived' \in Seq(Kinds)
        /\ Len(arrived') = Len(arrived) + 1
        /\ \A i \in 1 .. Len(arrived) : arrived'[i] = arrived[i]
    BY <1>1, AppendProperties DEF SampleArrives, TypeOK
  <2>2. TypeOK'
    BY <1>0, <1>1, <2>1 DEF SampleArrives, TypeOK
  <2>3. Seen' = Seen /\ Valid(Seen)' = Valid(Seen)
    BY <1>0, <1>1, <2>1 DEF SampleArrives, Seen, Valid
  <2> QED
    BY <1>1, <2>2, <2>3 DEF SampleArrives, TakenFirst, Counted
<1>2. ASSUME UNCHANGED <<arrived, samples_received_>>, Seen' = Seen
      PROVE  Counted'
  BY <1>2 DEF Counted, Valid
<1>3. CASE CallbackBegins
  BY <1>2, <1>3 DEF CallbackBegins, TypeOK, TakenFirst, Seen
<1>4. CASE TestStop
  BY <1>2, <1>4 DEF TestStop, TypeOK, TakenFirst, Seen
<1>5. CASE TakeNextSample
  BY <1>0, <1>2, <1>5 DEF TakeNextSample, TypeOK, TakenFirst, Seen
<1>6. CASE CountSample
  <2>1. /\ taken \in Nat \ {0} /\ Seen = taken - 1 /\ Seen' = taken
        /\ Valid(Seen)' = Valid(taken)
    BY <1>0, <1>6 DEF CountSample, AfterSample, TypeOK, TakenFirst, Seen, Valid
  <2>2. Cardinality(Valid(Seen)) \in Nat
    BY <1>0, ValidFinite
  <2>3. samples_received_' = Cardinality(Valid(taken)) % CountMod
    <3>1. CASE arrived[taken] # "invalid"
      BY <1>6, <2>1, <2>2, <3>1, ValidNext, IncrementMod DEF CountSample, Counts, Counted
    <3>2. CASE arrived[taken] = "invalid"
      BY <1>6, <2>1, <3>2, ValidNext DEF CountSample, Counts, Counted
    <3> QED
      BY <3>1, <3>2
  <2>4. Counted'
    BY <2>1, <2>3 DEF Counted
  <2>5. TypeOK' /\ TakenFirst'
    <3>1. samples_received_' \in 0 .. CountMod - 1
      BY <1>6 DEF CountSample, Increment, TypeOK
    <3> QED
      BY <1>6, <3>1 DEF CountSample, AfterSample, TypeOK, TakenFirst
  <2> QED
    BY <2>4, <2>5
<1>7. CASE RunThread \/ SpuriousWakeup
  BY <1>2, <1>7 DEF RunThread, Lock, Predicate, Block, SpuriousWakeup, Awake, Goto, TypeOK,
                    TakenFirst, Seen
<1>8. CASE Main
  BY <1>2, <1>8 DEF Main, StartUp, InstallHandler, MainReturns, TypeOK, TakenFirst, Seen
<1>9. CASE StopStore
  BY <1>2, <1>9 DEF StopStore, TypeOK, TakenFirst, Seen
<1>10. CASE HandlerContinues
  BY <1>2, <1>10 DEF HandlerContinues, StopNotify, Woken, Awake, StopNullServer, TypeOK,
                     TakenFirst, Seen
<1>11. CASE UNCHANGED vars
  BY <1>2, <1>11 DEF vars, TypeOK, TakenFirst, Seen
<1> QED
  BY <1>1, <1>3, <1>4, <1>5, <1>6, <1>7, <1>8, <1>9, <1>10, <1>11 DEF Next, Callback

(* ... and the order in which the process ends.                            *)
LEMMA NextOrdered == IInv /\ [Next]_vars => Ordered' /\ EndsWhenTold'
<1> SUFFICES ASSUME IInv, [Next]_vars
             PROVE  Ordered' /\ EndsWhenTold'
  OBVIOUS
<1> USE DEF IInv, Ordered, EndsWhenTold, otherVars, dataVars
<1>0. taken \in 0 .. Len(arrived) /\ Len(arrived) \in Nat
  BY LenProperties DEF TypeOK
<1>1. ASSUME NEW kind \in Kinds, SampleArrives(kind)
      PROVE  Ordered' /\ EndsWhenTold'
  <2>1. \A i \in 1 .. taken : arrived'[i] = arrived[i]
    BY <1>0, <1>1, AppendProperties DEF SampleArrives, TypeOK
  <2> QED
    BY <1>1, <2>1 DEF SampleArrives
<1>2. CASE Callback
  <2>1. CASE CallbackBegins \/ TestStop
    BY <2>1 DEF CallbackBegins, TestStop
  <2>2. CASE TakeNextSample
    <3>1. taken' \in Nat /\ taken <= taken'
      BY <1>0, <2>2 DEF TakeNextSample
    <3> QED
      BY <1>0, <2>2, <3>1 DEF TakeNextSample
  <2>3. CASE CountSample
    <3>1. taken \in 1 .. taken
      BY <1>0, <2>3 DEF CountSample, TakenFirst
    <3> QED
      BY <2>3, <3>1 DEF CountSample, Throws
  <2> QED
    BY <1>2, <2>1, <2>2, <2>3 DEF Callback
<1>3. CASE RunThread \/ SpuriousWakeup
  BY <1>3 DEF RunThread, Lock, Predicate, is_stopped, Block, SpuriousWakeup, Awake, Goto
<1>4. CASE Main
  BY <1>4 DEF Main, StartUp, InstallHandler, MainReturns
<1>5. CASE StopStore \/ HandlerContinues
  BY <1>5 DEF StopStore, HandlerContinues, StopNotify, Woken, Awake, StopNullServer
<1>6. CASE UNCHANGED vars
  BY <1>6 DEF vars
<1> QED
  BY <1>1, <1>2, <1>3, <1>4, <1>5, <1>6 DEF Next

(* So every step preserves the invariant.                                  *)
LEMMA NextIInv == IInv /\ [Next]_vars => IInv'
BY NextCounted, NextOrdered DEF IInv

(* The strengthened invariant holds throughout every execution.            *)
THEOREM Invariance == Spec => []IInv
BY InitIInv, NextIInv, PTL DEF Spec
-----------------------------------------------------------------------------
(* Every variable keeps its type; the counter keeps its width.             *)
THEOREM TypeCorrect == Spec => []TypeOK
BY Invariance, PTL DEF IInv

(* Whatever arrives during a callback, and through every wrap of the       *)
(* counter: each valid sample that was looked at counts once.              *)
THEOREM CountsExactly == Spec => []CountsValid
<1>1. IInv => CountsValid
  BY DEF IInv, Counted, CountsValid, Seen, Valid
<1> QED
  BY <1>1, Invariance, PTL

(* Neither a spurious wake-up nor any sample ends the process, but a text  *)
(* of three fields that are not numbers.                                   *)
THEOREM EndsOnlyWhenTold == Spec => []EndsWhenTold
BY Invariance, PTL DEF IInv

(* Samples that share a callback, or race with its end, are none of them   *)
(* left behind: EverySampleTaken has only to wait for the callback.        *)
THEOREM NoneLeftBehind == Spec => []NoneForgotten
<1>1. Init => NoneForgotten
  BY EmptySeq DEF Init, NoneForgotten
<1>2. IInv /\ NoneForgotten /\ [Next]_vars => NoneForgotten'
  <2> SUFFICES ASSUME IInv, NoneForgotten, [Next]_vars
               PROVE  NoneForgotten'
    OBVIOUS
  <2> USE DEF NoneForgotten, dataVars, otherVars
  <2>1. taken \in Nat /\ Len(arrived) \in Nat /\ taken <= Len(arrived)
    BY LenProperties DEF IInv, TypeOK
  <2>2. CASE \E kind \in Kinds : SampleArrives(kind)
    BY <2>2 DEF SampleArrives
  <2>3. CASE Callback
    BY <2>1, <2>3 DEF Callback, CallbackBegins, TestStop, is_stopped, TakeNextSample,
                      CountSample, AfterSample
  <2>4. CASE RunThread \/ SpuriousWakeup \/ Main
    BY <2>4 DEF RunThread, Lock, Predicate, Block, SpuriousWakeup, Goto, Main, StartUp,
                InstallHandler, MainReturns
  <2>5. CASE StopStore \/ HandlerContinues
    BY <2>5 DEF StopStore, HandlerContinues, StopNotify, StopNullServer
  <2>6. CASE UNCHANGED vars
    BY <2>6 DEF vars
  <2> QED
    BY <2>2, <2>3, <2>4, <2>5, <2>6 DEF Next
<1> QED
  BY <1>1, <1>2, Invariance, PTL DEF Spec

(* No sample is counted twice, skipped or left behind.                     *)
THEOREM AllAccounted == Spec => []Accounted
BY CountsExactly, NoneLeftBehind, PTL DEF Accounted
=============================================================================
