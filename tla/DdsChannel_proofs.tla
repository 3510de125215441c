-------------------------- MODULE DdsChannel_proofs --------------------------
(***************************************************************************)
(* Safety of the channel for any number of subscribers and coordinates and *)
(* any capacity of the history.  What a reader makes of a payload comes    *)
(* from the round trip of MessageCdr_proofs.                               *)
(***************************************************************************)
EXTENDS DdsChannel, MessageCdr_proofs, FiniteSetTheorems

\* What a reader has acknowledged it holds until it is taken.
Held == \A r \in Readers : taken[r] + 1 .. acked[r] \subseteq arrived[r]

IInv == TypeOK /\ UnacknowledgedRetained /\ Held /\ ReceivedAsWritten
-----------------------------------------------------------------------------
(* The publisher's messages survive the wire.                              *)

(* A long has at least three values in each of its octets here.            *)
LEMMA LongModEnough == LongMod \in Nat /\ LongMod >= 81
<1> DEFINE b == Byte * Byte
<1>1. b \in Nat /\ b >= 9
  BY ByteAssumption, ChannelAssumption
<1>2. LongMod = b * b
  BY ByteAssumption DEF LongMod
<1> HIDE DEF b
<1>3. b * b \in Nat /\ b * b >= 81
  BY <1>1
<1> QED
  BY <1>2, <1>3

(* The text of a coordinate has at most three characters.                  *)
LEMMA TextType ==
  ASSUME NEW fix \in Nat
  PROVE  Text(fix) \in CharString /\ Len(Text(fix)) \in 0 .. 3
<1> DEFINE n == fix % 4
<1>1. n \in 0 .. 3
  OBVIOUS
<1>2. \A k \in Nat : 1 + (k % (Byte - 1)) \in 1 .. Byte - 1
  BY ByteAssumption, ChannelAssumption
<1>3. \A i \in 1 .. n : 1 + ((fix + i) % (Byte - 1)) \in 1 .. Byte - 1
  BY <1>1, <1>2
<1>4. Text(fix) \in [1 .. n -> 1 .. Byte - 1]
  BY <1>3 DEF Text
<1> HIDE DEF n
<1>5. Text(fix) \in Seq(1 .. Byte - 1) /\ Len(Text(fix)) = n
  <2>1. n \in Nat
    BY <1>1
  <2> QED
    BY Zenon, <1>4, <2>1, LengthOfFunction
<1> QED
  BY <1>1, <1>5 DEF CharString

(* The message of a coordinate is one, and small.                          *)
LEMMA MessageOfType ==
  ASSUME NEW fix \in Fixes
  PROVE  Encodable(MessageOf[fix])
<1> DEFINE m == MessageOf[fix]
           count == Signed(fix % LongMod)
<1>1. m = [from |-> <<1, 1, 1>>, subject |-> <<2, 2, 2>>, subject_id |-> 1,
           text |-> Text(fix), count |-> count]
  BY DEF MessageOf
<1>2. fix \in Nat
  BY ChannelAssumption
<1>3. <<1, 1, 1>> \in CharString /\ <<2, 2, 2>> \in CharString
  <2>1. 1 \in 1 .. Byte - 1 /\ 2 \in 1 .. Byte - 1
    BY ByteAssumption, ChannelAssumption
  <2> QED
    BY <2>1 DEF CharString
<1>4. 1 \in Long /\ count \in Long
  <2>1. fix % LongMod \in 0 .. LongMod - 1
    BY <1>2, LongModType
  <2>2. 1 \in Long
    BY LongModType DEF Long
  <2> QED
    BY <2>1, <2>2, SignedType
<1>5. Text(fix) \in CharString /\ Len(Text(fix)) \in 0 .. 3
  BY <1>2, TextType
<1> HIDE DEF count
<1>6. m \in Message
  BY <1>1, <1>3, <1>4, <1>5 DEF Message
<1>7. /\ StringSize(m.from) = 8 /\ StringSize(m.subject) = 8
      /\ StringSize(m.text) \in 5 .. 8
  <2>1. m.from = <<1, 1, 1>> /\ m.subject = <<2, 2, 2>> /\ m.text = Text(fix)
    BY <1>1
  <2> HIDE DEF m
  <2>2. Len(<<1, 1, 1>>) = 3 /\ Len(<<2, 2, 2>>) = 3
    OBVIOUS
  <2>3. 4 + 3 + 1 = 8 /\ \A n \in 0 .. 3 : 4 + n + 1 \in 5 .. 8
    OBVIOUS
  <2> QED
    BY Zenon, <1>5, <2>1, <2>2, <2>3 DEF StringSize
<1>8. Len(PutMembers(m)) \in 0 .. 44
  <2> HIDE DEF m
  <2> DEFINE e1 == Len(PutFrom(m))
             e2 == Len(PutSubject(m))
             e3 == Len(PutSubjectId(m))
             e4 == Len(PutText(m))
             e5 == Len(PutMembers(m))
             s4 == StringSize(m.text)
  <2>1. /\ e1 = 8 /\ e2 = e1 + Padding(e1) + 8 /\ e3 = e2 + Padding(e2) + 4
        /\ e4 = e3 + Padding(e3) + s4 /\ e5 = e4 + Padding(e4) + 4
    BY <1>6, <1>7, Layout DEF Behind
  <2>2. s4 \in 5 .. 8
    BY <1>7
  <2> HIDE DEF e1, e2, e3, e4, e5, s4
  <2>3. e1 \in Nat /\ Padding(e1) \in 0 .. 3
    BY <2>1, PaddingType
  <2>4. e2 \in Nat /\ e2 <= 19 /\ Padding(e2) \in 0 .. 3
    BY <2>1, <2>3, PaddingType
  <2>5. e3 \in Nat /\ e3 <= 26 /\ Padding(e3) \in 0 .. 3
    BY <2>1, <2>4, PaddingType
  <2>6. e4 \in Nat /\ e4 <= 37 /\ Padding(e4) \in 0 .. 3
    BY <2>1, <2>2, <2>5, PaddingType
  <2>7. e5 \in 0 .. 44
    BY <2>1, <2>6
  <2> QED
    BY Zenon, <2>7 DEF e5
<1> HIDE DEF m
<1>9. Len(PutMembers(m)) < LongMod
  <2>1. \A n \in 0 .. 44 : n < LongMod
    BY LongModEnough
  <2> QED
    BY Zenon, <1>8, <2>1
<1>10. Encodable(m)
  BY Zenon, <1>6, <1>9 DEF Encodable
<1> QED
  BY Zenon, <1>10 DEF m

(* What a reader makes of the payload of a coordinate.                     *)
LEMMA PayloadRead ==
  ASSUME NEW representation \in Representations, NEW fix \in Fixes, NEW data \in Message
  PROVE  /\ PayloadOf[representation][fix] = PayloadOfMessage(representation, MessageOf[fix])
         /\ deserialize(PayloadOf[representation][fix], data).data = MessageOf[fix]
         /\ deserialize(PayloadOf[representation][fix], data).ok = TRUE
<1>1. PayloadOf[representation][fix] = PayloadOfMessage(representation, MessageOf[fix])
  BY DEF PayloadOf, PayloadOfMessage
<1>2. deserialize(PayloadOf[representation][fix], data) =
        Cursor(Len(PutMembers(MessageOf[fix])), MessageOf[fix])
  BY Zenon, <1>1, MessageOfType, RoundTrip
<1> QED
  BY <1>1, <1>2 DEF Cursor

(* An object starts out as a message.                                      *)
LEMMA NoMessageType == NoMessage \in Message
<1>1. << >> \in CharString
  BY EmptySeq DEF CharString
<1>2. 0 \in Long
  BY LongModType DEF Long
<1> QED
  BY <1>1, <1>2 DEF NoMessage, Message
-----------------------------------------------------------------------------
(* Types.                                                                  *)

(* As many matched readers as there are readers, at the most.              *)
LEMMA MatchedCount ==
  ASSUME NEW S \in SUBSET Readers
  PROVE  Cardinality(S) \in 0 .. Cardinality(Readers)
<1>1. IsFiniteSet(Readers)
  BY ChannelAssumption
<1>2. Cardinality(Readers) \in Nat /\ Cardinality(S) \in Nat
      /\ Cardinality(S) <= Cardinality(Readers)
  BY <1>1, FS_Subset, FS_CardinalityType
<1> QED
  BY <1>2

(* The state of a reader that begins anew is one.                          *)
LEMMA RestartedType ==
  ASSUME TypeOK, NEW r \in Readers, NEW oldest \in 1 .. Len(emitted) + 1,
         Restarted(r, oldest)
  PROVE  /\ arrived' \in [Readers -> SUBSET (1 .. Len(emitted))]
         /\ acked' \in [Readers -> 0 .. Len(emitted)]
         /\ taken' \in [Readers -> 0 .. Len(emitted)]
         /\ sample_' \in [Readers -> Message]
         /\ stop_' \in [Readers -> BOOLEAN]
         /\ received' \in [Readers -> Seq(Message)]
<1> DEFINE n == Len(emitted)
<1>1. /\ arrived \in [Readers -> SUBSET (1 .. n)]
      /\ acked \in [Readers -> 0 .. n] /\ taken \in [Readers -> 0 .. n]
      /\ sample_ \in [Readers -> Message] /\ received \in [Readers -> Seq(Message)]
      /\ stop_ \in [Readers -> BOOLEAN]
  BY DEF TypeOK
<1>2. n \in Nat
  BY LenProperties DEF TypeOK
<1>3. oldest \in 1 .. n + 1
  OBVIOUS
<1> HIDE DEF n
<1>4. oldest - 1 \in 0 .. n
  BY <1>2, <1>3
<1>5. << >> \in Seq(Message) /\ NoMessage \in Message
  BY NoMessageType, EmptySeq
<1>6. arrived' \in [Readers -> SUBSET (1 .. n)]
  BY <1>1 DEF Restarted
<1>7. acked' \in [Readers -> 0 .. n] /\ taken' \in [Readers -> 0 .. n]
  BY <1>1, <1>4 DEF Restarted
<1>8. sample_' \in [Readers -> Message] /\ received' \in [Readers -> Seq(Message)]
  BY <1>1, <1>5 DEF Restarted
<1>9. stop_' \in [Readers -> BOOLEAN]
  BY <1>1 DEF Restarted
<1> QED
  BY <1>6, <1>7, <1>8, <1>9 DEF n

(* The bookkeeping of the readers stays within a history that grows.       *)
LEMMA LongerHistory ==
  ASSUME TypeOK, NEW fix \in Fixes, emitted' = Append(emitted, fix)
  PROVE  /\ emitted' \in Seq(Fixes)
         /\ Len(emitted) \in Nat
         /\ Len(emitted') = Len(emitted) + 1
         /\ arrived \in [Readers -> SUBSET (1 .. Len(emitted'))]
         /\ acked \in [Readers -> 0 .. Len(emitted')]
         /\ taken \in [Readers -> 0 .. Len(emitted')]
<1>1. emitted \in Seq(Fixes)
  BY DEF TypeOK
<1>2. Len(emitted) \in Nat
  BY <1>1, LenProperties
<1>3. emitted' \in Seq(Fixes) /\ Len(emitted') = Len(emitted) + 1
  BY <1>1, AppendProperties
<1>4. \A n \in Nat : 1 .. n \subseteq 1 .. n + 1 /\ 0 .. n \subseteq 0 .. n + 1
  OBVIOUS
<1>5. /\ 1 .. Len(emitted) \subseteq 1 .. Len(emitted')
      /\ 0 .. Len(emitted) \subseteq 0 .. Len(emitted')
  BY Zenon, <1>2, <1>3, <1>4
<1>6. /\ arrived \in [Readers -> SUBSET (1 .. Len(emitted))]
      /\ acked \in [Readers -> 0 .. Len(emitted)] /\ taken \in [Readers -> 0 .. Len(emitted)]
  BY DEF TypeOK
<1>7. arrived \in [Readers -> SUBSET (1 .. Len(emitted'))]
  BY <1>5, <1>6
<1>8. acked \in [Readers -> 0 .. Len(emitted')] /\ taken \in [Readers -> 0 .. Len(emitted')]
  BY <1>5, <1>6
<1> QED
  BY <1>2, <1>3, <1>7, <1>8

(* What take_next_sample() finds, while the writer is up: the sample that  *)
(* the publisher wrote, whole.                                             *)
LEMMA TakeResult ==
  ASSUME TypeOK, NEW r \in Readers, HandOver(r)
  PROVE  LET n == taken[r] + 1
             result == deserialize(PayloadOf[Representation][emitted[n]], sample_[r])
         IN  /\ n \in 1 .. Len(emitted) /\ emitted[n] \in Fixes
             /\ result.ok = TRUE
             /\ result.data = MessageOf[emitted[n]] /\ result.data \in Message
<1> DEFINE n == taken[r] + 1
<1>1. n \in 1 .. Len(emitted)
  BY DEF TypeOK, HandOver
<1>2. emitted[n] \in Fixes
  BY <1>1, ElementOfSeq DEF TypeOK
<1>3. sample_[r] \in Message /\ Representation \in Representations
  BY ChannelAssumption DEF TypeOK
<1> HIDE DEF n
<1>4. MessageOf[emitted[n]] \in Message
  BY <1>2, MessageOfType DEF Encodable
<1>5. /\ deserialize(PayloadOf[Representation][emitted[n]], sample_[r]).ok = TRUE
      /\ deserialize(PayloadOf[Representation][emitted[n]], sample_[r]).data
           = MessageOf[emitted[n]]
  <2> DEFINE fix == emitted[n]
             data == sample_[r]
  <2>1. Representation \in Representations /\ fix \in Fixes /\ data \in Message
    BY <1>2, <1>3
  <2> HIDE DEF fix, data
  <2>2. deserialize(PayloadOf[Representation][fix], data).ok = TRUE
    BY <2>1, PayloadRead
  <2>3. deserialize(PayloadOf[Representation][fix], data).data = MessageOf[fix]
    BY <2>1, PayloadRead
  <2> QED
    BY <2>2, <2>3 DEF fix, data
<1> QED
  BY Zenon, <1>1, <1>2, <1>4, <1>5 DEF n
-----------------------------------------------------------------------------
(* The inductive invariant.                                                *)

(* It holds at the start.                                                  *)
LEMMA InitInvariant == Init => IInv
<1> SUFFICES ASSUME Init PROVE IInv
  OBVIOUS
<1>1. NoMessage \in Message /\ << >> \in Seq(Message) /\ << >> \in Seq(Fixes)
      /\ Len(<< >>) = 0
  BY NoMessageType, EmptySeq
<1>2. Capacity \in Nat /\ Capacity > 0
  BY ChannelAssumption
<1>3. Cardinality(Readers) \in Nat
  BY ChannelAssumption, FS_CardinalityType
<1>4. TypeOK
  BY <1>1, <1>2, <1>3 DEF Init, TypeOK
<1>5. UnacknowledgedRetained
  BY DEF Init, UnacknowledgedRetained
<1>6. Held
  <2>1. 0 + 1 .. 0 = {}
    OBVIOUS
  <2> QED
    BY <2>1 DEF Init, Held
<1>7. ReceivedAsWritten
  <2>1. 0 \in 0 .. 0 /\ 0 + 0 = 0 /\ 0 + 0 <= 0 /\ 1 .. 0 = {}
    OBVIOUS
  <2>2. /\ Len(emitted) = 0
        /\ \A r \in Readers : Len(received[r]) = 0 /\ taken[r] = 0
    BY <1>1 DEF Init
  <2> QED
    BY Zenon, <2>1, <2>2 DEF ReceivedAsWritten
<1> QED
  BY <1>4, <1>5, <1>6, <1>7 DEF IInv

(* Every step keeps the types.                                             *)
LEMMA TypeStep == TypeOK /\ [Next]_vars => TypeOK'
<1> SUFFICES ASSUME TypeOK, [Next]_vars PROVE TypeOK'
  OBVIOUS
<1>1. Len(emitted) \in Nat /\ emitted \in Seq(Fixes) /\ first \in 1 .. Len(emitted) + 1
  BY LenProperties DEF TypeOK
<1>2. ASSUME NEW r \in Readers, ReaderAppears(r) PROVE TypeOK'
  <2>1. Restarted(r, first) /\ UNCHANGED <<writer, emitted, first, matched_>>
        /\ matched' \in SUBSET Readers
    BY <1>2 DEF ReaderAppears, OldestOffered, writerVars, TypeOK
  <2>2. /\ arrived' \in [Readers -> SUBSET (1 .. Len(emitted))]
        /\ acked' \in [Readers -> 0 .. Len(emitted)]
        /\ taken' \in [Readers -> 0 .. Len(emitted)]
        /\ sample_' \in [Readers -> Message] /\ received' \in [Readers -> Seq(Message)]
        /\ stop_' \in [Readers -> BOOLEAN]
    BY <1>1, <2>1, RestartedType
  <2> QED
    BY <2>1, <2>2 DEF TypeOK
<1>3. ASSUME NEW r \in Readers, ReaderDisappears(r) PROVE TypeOK'
  <2>1. Restarted(r, 1) /\ UNCHANGED <<writer, emitted, first, matched_>>
        /\ matched' \in SUBSET Readers
    BY <1>3 DEF ReaderDisappears, writerVars, TypeOK
  <2>2. 1 \in 1 .. Len(emitted) + 1
    BY <1>1
  <2>3. /\ arrived' \in [Readers -> SUBSET (1 .. Len(emitted))]
        /\ acked' \in [Readers -> 0 .. Len(emitted)]
        /\ taken' \in [Readers -> 0 .. Len(emitted)]
        /\ sample_' \in [Readers -> Message] /\ received' \in [Readers -> Seq(Message)]
        /\ stop_' \in [Readers -> BOOLEAN]
    BY <2>1, <2>2, RestartedType
  <2> QED
    BY <2>1, <2>3 DEF TypeOK
<1>4. ASSUME NEW r \in Readers, ArriveAny(r) PROVE TypeOK'
  <2>1. PICK n \in 1 .. Len(emitted) : Arrive(r, n)
    BY <1>4 DEF ArriveAny
  <2>2. arrived' \in [Readers -> SUBSET (1 .. Len(emitted))]
    BY <2>1 DEF Arrive, TypeOK
  <2> QED
    BY <2>1, <2>2 DEF Arrive, writerVars, TypeOK
<1>5. ASSUME NEW r \in Readers, Acknowledge(r) PROVE TypeOK'
  <2>1. acked[r] + 1 \in 0 .. Len(emitted)
    BY <1>1, <1>5 DEF Acknowledge, TypeOK
  <2>2. acked' \in [Readers -> 0 .. Len(emitted)]
    BY <1>5, <2>1 DEF Acknowledge, TypeOK
  <2> QED
    BY <1>5, <2>2 DEF Acknowledge, writerVars, TypeOK
<1>6. ASSUME NEW r \in Readers, Take(r) PROVE TypeOK'
  <2> DEFINE result == deserialize(PayloadOf[Representation][emitted[taken[r] + 1]], sample_[r])
  <2>1. taken[r] + 1 \in 0 .. Len(emitted) /\ result.data \in Message
    <3>1. HandOver(r)
      BY <1>6 DEF Take
    <3>2. taken[r] + 1 \in 1 .. Len(emitted) /\ result.data \in Message
      BY Zenon, <3>1, TakeResult
    <3> HIDE DEF result
    <3> QED
      BY <1>1, <3>2
  <2>2. /\ sample_' = [sample_ EXCEPT ![r] = result.data]
        /\ received' = IF result.ok /\ writer = "up"
                       THEN [received EXCEPT ![r] = Append(@, result.data)] ELSE received
        /\ taken' = [taken EXCEPT ![r] = @ + 1]
    BY <1>6 DEF Take, HandOver
  <2> HIDE DEF result
  <2>3. taken' \in [Readers -> 0 .. Len(emitted)]
    BY <2>1, <2>2 DEF TypeOK
  <2>4. sample_' \in [Readers -> Message]
    BY <2>1, <2>2 DEF TypeOK
  <2>5. received' \in [Readers -> Seq(Message)]
    <3>1. received \in [Readers -> Seq(Message)]
      BY DEF TypeOK
    <3>2. Append(received[r], result.data) \in Seq(Message)
      BY <2>1, <3>1, AppendProperties
    <3> QED
      BY <2>2, <3>1, <3>2
  <2> QED
    BY <1>6, <2>3, <2>4, <2>5 DEF Take, writerVars, TypeOK
<1>7. ASSUME NEW r \in Readers, CallbackEnds(r) PROVE TypeOK'
  <2>1. sample_' \in [Readers -> Message]
    BY <1>7, NoMessageType DEF CallbackEnds, TypeOK
  <2> QED
    BY <1>7, <2>1 DEF CallbackEnds, writerVars, TypeOK
<1>8. CASE on_publication_matched
  <2>1. matched_' \in 0 .. Cardinality(Readers)
    BY <1>8, MatchedCount DEF on_publication_matched, TypeOK
  <2> QED
    BY <1>8, <2>1 DEF on_publication_matched, readerVars, writerVars, TypeOK
<1>9. ASSUME NEW fix \in Fixes, Write(fix) PROVE TypeOK'
  <2>1. /\ emitted' = Append(emitted, fix) /\ MakeRoom
        /\ UNCHANGED <<writer, matched, matched_, readerVars>>
    BY <1>9 DEF Write
  <2>2. /\ emitted' \in Seq(Fixes) /\ Len(emitted') = Len(emitted) + 1
        /\ arrived \in [Readers -> SUBSET (1 .. Len(emitted'))]
        /\ acked \in [Readers -> 0 .. Len(emitted')]
        /\ taken \in [Readers -> 0 .. Len(emitted')]
    BY <2>1, LongerHistory
  <2>3. first' \in 1 .. Len(emitted') + 1 /\ Len(emitted') - first' < Capacity
    <3>1. Capacity \in Nat \ {0} /\ Len(emitted) - first < Capacity
      BY ChannelAssumption DEF TypeOK
    <3>2. \/ Len(emitted) - first + 1 # Capacity /\ first' = first
          \/ Len(emitted) - first + 1 = Capacity /\ first' = first + 1
      BY <2>1 DEF MakeRoom, Full
    <3> DEFINE n == Len(emitted)
               m == Len(emitted')
    <3>3. n \in Nat /\ m = n + 1 /\ first \in 1 .. n + 1 /\ n - first < Capacity
          /\ \/ n - first + 1 # Capacity /\ first' = first
             \/ n - first + 1 = Capacity /\ first' = first + 1
      BY <1>1, <2>2, <3>1, <3>2
    <3> HIDE DEF n, m
    <3>4. first' \in 1 .. m + 1 /\ m - first' < Capacity
      BY <3>1, <3>3
    <3> QED
      BY <3>4 DEF m
  <2> QED
    BY <2>1, <2>2, <2>3 DEF readerVars, TypeOK
<1>10. CASE WriterLeaves
  <2>1. arrived' \in [Readers -> SUBSET (1 .. Len(emitted))]
    BY <1>10 DEF WriterLeaves, TypeOK
  <2> QED
    BY <1>10, <2>1 DEF WriterLeaves, TypeOK
<1>11. CASE UNCHANGED vars
  BY <1>11 DEF vars, writerVars, readerVars, TypeOK
<1>12. ASSUME NEW r \in Readers, Stop(r) PROVE TypeOK'
  <2>1. stop_' \in [Readers -> BOOLEAN]
    BY <1>12 DEF Stop, TypeOK
  <2> QED
    BY <1>12, <2>1 DEF Stop, writerVars, TypeOK
<1> QED
  BY <1>2, <1>3, <1>4, <1>5, <1>6, <1>7, <1>8, <1>9, <1>10, <1>11, <1>12 DEF Next

(* No step gives up a sample that a matched reader waits for.              *)
LEMMA RetainedStep == TypeOK /\ UnacknowledgedRetained /\ [Next]_vars => UnacknowledgedRetained'
<1> SUFFICES ASSUME TypeOK, UnacknowledgedRetained, [Next]_vars,
                    NEW s \in matched'
             PROVE  first' <= acked'[s] + 1
  BY DEF UnacknowledgedRetained
<1>1. /\ first \in Int /\ acked \in [Readers -> Int] /\ matched \subseteq Readers
  BY LenProperties DEF TypeOK
<1>2. ASSUME NEW r \in Readers, ReaderAppears(r) PROVE first' <= acked'[s] + 1
  <2>1. /\ writer = "up" /\ matched' = matched \cup {r} /\ first' = first
        /\ acked' = [acked EXCEPT ![r] = first - 1]
    BY <1>2 DEF ReaderAppears, Restarted, OldestOffered, writerVars
  <2>2. CASE s = r
    BY <1>1, <2>1, <2>2
  <2>3. CASE s # r
    <3>1. s \in matched /\ acked'[s] = acked[s]
      BY <1>1, <2>1, <2>3
    <3> QED
      BY <2>1, <3>1 DEF UnacknowledgedRetained
  <2> QED
    BY <2>2, <2>3
<1>3. ASSUME NEW r \in Readers, ReaderDisappears(r) PROVE first' <= acked'[s] + 1
  <2>1. /\ matched' = matched \ {r} /\ first' = first
        /\ acked' = [acked EXCEPT ![r] = 1 - 1]
    BY <1>3 DEF ReaderDisappears, Restarted, writerVars
  <2>2. s \in matched /\ acked'[s] = acked[s]
    BY <1>1, <2>1
  <2> QED
    BY <2>1, <2>2 DEF UnacknowledgedRetained
<1>4. ASSUME NEW r \in Readers, Acknowledge(r) PROVE first' <= acked'[s] + 1
  <2>1. /\ writer = "up" /\ matched' = matched /\ first' = first
        /\ acked' = [acked EXCEPT ![r] = @ + 1]
    BY <1>4 DEF Acknowledge, writerVars
  <2>2. first <= acked[s] + 1 /\ s \in Readers
    BY <1>1, <2>1 DEF UnacknowledgedRetained
  <2> QED
    BY <1>1, <2>1, <2>2
<1>5. ASSUME NEW fix \in Fixes, Write(fix) PROVE first' <= acked'[s] + 1
  <2>1. /\ writer = "up" /\ matched' = matched /\ acked' = acked /\ MakeRoom
    BY <1>5 DEF Write, readerVars
  <2>2. first <= acked[s] + 1
    BY <2>1 DEF UnacknowledgedRetained
  <2>3. CASE Full /\ OldestAcknowledged /\ first' = first + 1
    <3>1. acked[s] >= first
      BY <2>1, <2>3 DEF OldestAcknowledged
    <3> QED
      BY <1>1, <2>1, <2>3, <3>1
  <2> QED
    BY <2>1, <2>2, <2>3 DEF MakeRoom
<1>6. CASE UNCHANGED <<first, matched, acked>>
  BY <1>6 DEF UnacknowledgedRetained
<1>7. CASE WriterLeaves
  BY <1>6, <1>7 DEF WriterLeaves
<1>8. CASE on_publication_matched \/ UNCHANGED vars
  BY <1>6, <1>8 DEF on_publication_matched, vars, writerVars, readerVars
<1>9. ASSUME NEW r \in Readers, ArriveAny(r) \/ Stop(r) \/ Take(r) \/ CallbackEnds(r)
      PROVE  first' <= acked'[s] + 1
  BY <1>6, <1>9 DEF ArriveAny, Arrive, Stop, Take, CallbackEnds, writerVars
<1> QED
  BY <1>2, <1>3, <1>4, <1>5, <1>7, <1>8, <1>9 DEF Next

(* No step takes from a reader what it has acknowledged and not yet handed *)
(* over, and the end of the publisher's process does not either.           *)
LEMMA HeldStep ==
  ASSUME TypeOK, Held, [Next]_vars, NEW s \in Readers
  PROVE  taken'[s] + 1 .. acked'[s] \subseteq arrived'[s]
<1>1. /\ taken[s] \in Nat /\ acked[s] \in Nat
      /\ taken \in [Readers -> Nat] /\ acked \in [Readers -> Nat]
      /\ s \in DOMAIN taken /\ s \in DOMAIN acked /\ s \in DOMAIN arrived
      /\ taken[s] + 1 .. acked[s] \subseteq arrived[s]
  <2>1. Len(emitted) \in Nat
    BY LenProperties DEF TypeOK
  <2> QED
    BY <2>1 DEF TypeOK, Held
<1>2. ASSUME NEW r \in Readers, NEW oldest \in Int, Restarted(r, oldest)
      PROVE  taken'[s] + 1 .. acked'[s] \subseteq arrived'[s]
  <2>1. CASE s = r
    <3>1. taken'[s] = oldest - 1 /\ acked'[s] = oldest - 1
      BY <1>1, <1>2, <2>1 DEF Restarted
    <3>2. (oldest - 1) + 1 .. oldest - 1 = {}
      OBVIOUS
    <3> QED
      BY <3>1, <3>2
  <2>2. CASE s # r
    BY <1>1, <1>2, <2>2 DEF Restarted
  <2> QED
    BY <2>1, <2>2
<1>3. ASSUME NEW r \in Readers, ReaderAppears(r)
      PROVE  taken'[s] + 1 .. acked'[s] \subseteq arrived'[s]
  <2>1. first \in Int
    BY LenProperties DEF TypeOK
  <2> QED
    BY <1>2, <1>3, <2>1 DEF ReaderAppears, OldestOffered
<1>4. ASSUME NEW r \in Readers, ReaderDisappears(r)
      PROVE  taken'[s] + 1 .. acked'[s] \subseteq arrived'[s]
  BY <1>2, <1>4 DEF ReaderDisappears
<1>5. ASSUME NEW r \in Readers, ArriveAny(r)
      PROVE  taken'[s] + 1 .. acked'[s] \subseteq arrived'[s]
  <2>1. arrived[s] \subseteq arrived'[s] /\ UNCHANGED <<taken, acked>>
    BY <1>1, <1>5 DEF ArriveAny, Arrive
  <2> QED
    BY <1>1, <2>1
<1>6. ASSUME NEW r \in Readers, Acknowledge(r)
      PROVE  taken'[s] + 1 .. acked'[s] \subseteq arrived'[s]
  <2>1. /\ UNCHANGED <<taken, arrived>> /\ acked[r] + 1 \in arrived[r]
        /\ acked' = [acked EXCEPT ![r] = @ + 1]
    BY <1>6 DEF Acknowledge
  <2>2. CASE s = r
    <3>1. acked'[s] = acked[s] + 1 /\ acked[s] + 1 \in arrived[s]
      BY <1>1, <2>1, <2>2
    <3>2. taken[s] + 1 .. acked[s] + 1 \subseteq (taken[s] + 1 .. acked[s]) \cup {acked[s] + 1}
      BY <1>1
    <3> QED
      BY <1>1, <2>1, <3>1, <3>2
  <2>3. CASE s # r
    BY <1>1, <2>1, <2>3
  <2> QED
    BY <2>2, <2>3
<1>7. ASSUME NEW r \in Readers, Take(r)
      PROVE  taken'[s] + 1 .. acked'[s] \subseteq arrived'[s]
  <2>1. UNCHANGED <<acked, arrived>> /\ taken' = [taken EXCEPT ![r] = @ + 1]
    BY <1>7 DEF Take, HandOver
  <2>2. taken'[s] \in {taken[s], taken[s] + 1}
    BY <1>1, <2>1
  <2>3. taken'[s] + 1 .. acked[s] \subseteq taken[s] + 1 .. acked[s]
    BY <1>1, <2>2
  <2> QED
    BY <1>1, <2>1, <2>3
<1>8. CASE WriterLeaves
  <2>1. /\ UNCHANGED <<taken, acked>>
        /\ arrived'[s] = {n \in arrived[s] : taken[s] + 1 .. n \subseteq arrived[s]}
    BY <1>8 DEF WriterLeaves
  <2>2. \A n \in taken[s] + 1 .. acked[s] :
          taken[s] + 1 .. n \subseteq taken[s] + 1 .. acked[s]
    BY <1>1
  <2> QED
    BY <1>1, <2>1, <2>2
<1>9. CASE UNCHANGED <<taken, acked, arrived>>
  BY <1>1, <1>9
<1>10. CASE on_publication_matched \/ UNCHANGED vars
  BY <1>9, <1>10 DEF on_publication_matched, vars, readerVars
<1>11. ASSUME NEW fix \in Fixes, Write(fix)
       PROVE  taken'[s] + 1 .. acked'[s] \subseteq arrived'[s]
  BY <1>9, <1>11 DEF Write, readerVars
<1>12. ASSUME NEW r \in Readers, Stop(r) \/ CallbackEnds(r)
       PROVE  taken'[s] + 1 .. acked'[s] \subseteq arrived'[s]
  BY <1>9, <1>12 DEF Stop, CallbackEnds
<1> QED
  BY <1>3, <1>4, <1>5, <1>6, <1>7, <1>8, <1>10, <1>11, <1>12 DEF Next

(* The samples that a subscriber has accepted are those behind start.      *)
AcceptedFrom(r, start) ==
  /\ start + Len(received[r]) <= taken[r]
  /\ writer = "up" => start + Len(received[r]) = taken[r]
  /\ \A i \in 1 .. Len(received[r]) : received[r][i] = MessageOf[emitted[start + i]]

Accepted(r) == \E start \in 0 .. Len(emitted) : AcceptedFrom(r, start)

(* A step that leaves a reader's samples and the history alone.            *)
LEMMA AcceptedSame ==
  ASSUME NEW r \in Readers, Accepted(r), emitted' = emitted, writer' = "up" => writer = "up",
         taken'[r] = taken[r], received'[r] = received[r]
  PROVE  Accepted(r)'
BY Zenon DEF Accepted, AcceptedFrom

(* A step that takes a sample.                                             *)
LEMMA AcceptedTake ==
  ASSUME TypeOK, NEW r \in Readers, Accepted(r), Take(r)
  PROVE  Accepted(r)'
<1> DEFINE n == taken[r]
           old == received[r]
           k == Len(received[r])
           result == deserialize(PayloadOf[Representation][emitted[n + 1]], sample_[r])
<1>1. /\ n \in Nat /\ old \in Seq(Message) /\ k \in Nat
  BY LenProperties DEF TypeOK
<1>2. /\ result.ok = TRUE /\ result.data = MessageOf[emitted[n + 1]]
      /\ result.data \in Message
  <2>1. HandOver(r)
    BY DEF Take
  <2> QED
    BY Zenon, <2>1, TakeResult
<1>3. /\ emitted' = emitted /\ writer' = writer /\ taken' = [taken EXCEPT ![r] = @ + 1]
      /\ received' = IF result.ok /\ writer = "up"
                     THEN [received EXCEPT ![r] = Append(@, result.data)] ELSE received
  BY DEF Take, HandOver, writerVars
<1>4. PICK start \in 0 .. Len(emitted) : AcceptedFrom(r, start)
  BY DEF Accepted
<1>5. /\ start \in Nat
      /\ start + k <= n
      /\ writer = "up" => start + k = n
      /\ \A i \in 1 .. k : old[i] = MessageOf[emitted[start + i]]
  BY <1>4 DEF AcceptedFrom
<1>6. taken'[r] = n + 1
  BY <1>3 DEF TypeOK
<1>7. CASE writer = "up"
  <2>1. received'[r] = Append(old, result.data)
    BY <1>2, <1>3, <1>7 DEF TypeOK
  <2> DEFINE new == received'[r]
             data == result.data
  <2> HIDE DEF result, n, old, new
  <2>2. /\ Len(new) = k + 1 /\ new[k + 1] = data
        /\ \A i \in 1 .. k : new[i] = old[i]
    <3>1. new = Append(old, data) /\ k = Len(old)
      BY <2>1 DEF new, old
    <3> HIDE DEF k, data
    <3>2. Len(new) = Len(old) + 1 /\ new[Len(old) + 1] = data
          /\ \A i \in 1 .. Len(old) : new[i] = old[i]
      BY <1>1, <1>2, <3>1, AppendProperties DEF data
    <3> QED
      BY Zenon, <3>1, <3>2
  <2> HIDE DEF k, data
  <2>3. \A i \in 1 .. k + 1 : new[i] = MessageOf[emitted[start + i]]
    <3> SUFFICES ASSUME NEW i \in 1 .. k + 1
                 PROVE  new[i] = MessageOf[emitted[start + i]]
      OBVIOUS
    <3>1. CASE i = k + 1
      <4>1. start + i = n + 1
        BY <1>1, <1>5, <1>7, <3>1
      <4>2. new[i] = MessageOf[emitted[n + 1]]
        BY Zenon, <1>2, <2>2, <3>1 DEF data
      <4> QED
        BY Zenon, <4>1, <4>2
    <3>2. CASE i # k + 1
      <4>1. i \in 1 .. k
        BY <1>1, <3>2
      <4> QED
        BY Zenon, <1>5, <2>2, <4>1
    <3> QED
      BY <3>1, <3>2
  <2>4. start + (k + 1) = n + 1 /\ start + (k + 1) <= n + 1
    BY <1>1, <1>5, <1>7
  <2>5. Len(received'[r]) = k + 1 /\ taken'[r] = n + 1
    BY Zenon, <1>6, <2>2 DEF new
  <2>6. \A i \in 1 .. k + 1 : received'[r][i] = MessageOf[emitted'[start + i]]
    BY Zenon, <1>3, <2>3 DEF new
  <2>7. AcceptedFrom(r, start)'
    BY Zenon, <2>4, <2>5, <2>6 DEF AcceptedFrom
  <2> QED
    BY Zenon, <1>3, <1>4, <2>7 DEF Accepted
<1>8. CASE writer # "up"
  <2>1. received'[r] = old /\ writer' # "up"
    BY <1>3, <1>8
  <2>2. start + k <= n + 1
    BY <1>1, <1>5
  <2>3. AcceptedFrom(r, start)'
    BY Zenon, <1>3, <1>5, <1>6, <2>1, <2>2 DEF AcceptedFrom
  <2> QED
    BY Zenon, <1>3, <1>4, <2>3 DEF Accepted
<1> QED
  BY <1>7, <1>8

(* Every step keeps what the subscribers have accepted.                    *)
LEMMA AcceptedStep ==
  ASSUME TypeOK, TypeOK', \A r \in Readers : Accepted(r), [Next]_vars, NEW s \in Readers
  PROVE  Accepted(s)'
<1>1. /\ s \in DOMAIN taken /\ s \in DOMAIN received
      /\ taken \in [Readers -> Nat] /\ received \in [Readers -> Seq(Message)]
  <2>1. Len(emitted) \in Nat
    BY LenProperties DEF TypeOK
  <2> QED
    BY <2>1 DEF TypeOK
<1>2. ASSUME NEW r \in Readers, NEW oldest \in 1 .. Len(emitted) + 1, Restarted(r, oldest),
             UNCHANGED <<writer, emitted>>
      PROVE  Accepted(s)'
  <2>1. CASE s = r
    <3>1. received'[s] = << >> /\ taken'[s] = oldest - 1 /\ emitted' = emitted
      BY <1>1, <1>2, <2>1 DEF Restarted
    <3>2. Len(emitted) \in Nat
      BY LenProperties DEF TypeOK
    <3>3. /\ oldest - 1 \in 0 .. Len(emitted) /\ 1 .. 0 = {}
          /\ (oldest - 1) + 0 = oldest - 1 /\ (oldest - 1) + 0 <= oldest - 1
      BY <3>2
    <3>4. Len(received'[s]) = 0
      BY <3>1, EmptySeq
    <3>5. AcceptedFrom(s, oldest - 1)'
      BY Zenon, <3>1, <3>3, <3>4 DEF AcceptedFrom
    <3> QED
      BY Zenon, <3>1, <3>3, <3>5 DEF Accepted
  <2>2. CASE s # r
    <3>1. taken'[s] = taken[s] /\ received'[s] = received[s]
      BY <1>1, <1>2, <2>2 DEF Restarted
    <3> QED
      BY <1>2, <3>1, AcceptedSame
  <2> QED
    BY <2>1, <2>2
<1>3. ASSUME NEW r \in Readers, ReaderAppears(r) PROVE Accepted(s)'
  <2>1. first \in 1 .. Len(emitted) + 1
    BY DEF TypeOK
  <2> QED
    BY <1>2, <1>3, <2>1 DEF ReaderAppears, OldestOffered, writerVars
<1>4. ASSUME NEW r \in Readers, ReaderDisappears(r) PROVE Accepted(s)'
  <2>1. 1 \in 1 .. Len(emitted) + 1
    BY LenProperties DEF TypeOK
  <2> QED
    BY <1>2, <1>4, <2>1 DEF ReaderDisappears, writerVars
<1>5. ASSUME NEW r \in Readers, Take(r) PROVE Accepted(s)'
  <2>1. CASE s = r
    BY <1>5, <2>1, AcceptedTake
  <2>2. CASE s # r
    <3>1. taken'[s] = taken[s]
      BY <1>1, <1>5, <2>2 DEF Take, HandOver
    <3>2. received'[s] = received[s]
      BY <1>1, <1>5, <2>2 DEF Take
    <3>3. UNCHANGED <<writer, emitted>>
      BY <1>5 DEF Take, writerVars
    <3> QED
      BY <3>1, <3>2, <3>3, AcceptedSame
  <2> QED
    BY <2>1, <2>2
<1>6. ASSUME NEW fix \in Fixes, Write(fix) PROVE Accepted(s)'
  <2>1. /\ emitted' = Append(emitted, fix) /\ writer' = writer
        /\ taken' = taken /\ received' = received
    BY <1>6 DEF Write, readerVars
  <2> DEFINE n == taken[s]
             k == Len(received[s])
  <2>2. /\ n \in Nat /\ k \in Nat /\ n <= Len(emitted) /\ Len(emitted) \in Nat
        /\ emitted \in Seq(Fixes)
    BY <1>1, LenProperties DEF TypeOK
  <2>3. PICK start \in 0 .. Len(emitted) : AcceptedFrom(s, start)
    BY DEF Accepted
  <2>4. /\ start \in Nat /\ start + k <= n
        /\ writer = "up" => start + k = n
        /\ \A i \in 1 .. k : received[s][i] = MessageOf[emitted[start + i]]
    BY <2>3 DEF AcceptedFrom
  <2>5. \A j \in 1 .. Len(emitted) : emitted'[j] = emitted[j]
    BY <2>1, <2>2, AppendProperties
  <2>6. Len(emitted') = Len(emitted) + 1
    BY <2>1, <2>2, AppendProperties
  <2> HIDE DEF n, k
  <2>7. \A i \in 1 .. k : start + i \in 1 .. Len(emitted)
    BY <2>2, <2>4
  <2>8. \A i \in 1 .. k : received[s][i] = MessageOf[emitted'[start + i]]
    BY Zenon, <2>4, <2>5, <2>7
  <2>9. start \in 0 .. Len(emitted')
    BY <2>2, <2>3, <2>6
  <2>10. AcceptedFrom(s, start)'
    BY Zenon, <2>1, <2>4, <2>8 DEF AcceptedFrom, n, k
  <2> QED
    BY Zenon, <2>9, <2>10 DEF Accepted
<1>7. CASE on_publication_matched \/ WriterLeaves \/ UNCHANGED vars
  <2>1. /\ emitted' = emitted /\ (writer' = "up" => writer = "up")
        /\ taken' = taken /\ received' = received
    BY <1>7 DEF on_publication_matched, WriterLeaves, vars, writerVars, readerVars
  <2> QED
    BY <2>1, AcceptedSame
<1>8. ASSUME NEW r \in Readers, ArriveAny(r) \/ Acknowledge(r) \/ Stop(r) \/ CallbackEnds(r)
      PROVE  Accepted(s)'
  <2>1. /\ emitted' = emitted /\ writer' = writer /\ taken' = taken /\ received' = received
    BY <1>8 DEF ArriveAny, Arrive, Acknowledge, Stop, CallbackEnds, writerVars
  <2> QED
    BY <2>1, AcceptedSame
<1> QED
  BY <1>3, <1>4, <1>5, <1>6, <1>7, <1>8 DEF Next

(* The conjunction is inductive.                                           *)
THEOREM Invariance == Spec => []IInv
<1>1. IInv /\ [Next]_vars => IInv'
  <2> SUFFICES ASSUME IInv, [Next]_vars PROVE IInv'
    OBVIOUS
  <2>1. TypeOK /\ TypeOK' /\ UnacknowledgedRetained /\ UnacknowledgedRetained'
    BY Zenon, TypeStep, RetainedStep DEF IInv
  <2>2. \A r \in Readers : Accepted(r)
    BY Zenon DEF IInv, ReceivedAsWritten, Accepted, AcceptedFrom
  <2>3. \A r \in Readers : Accepted(r)'
    BY Zenon, <2>1, <2>2, AcceptedStep
  <2>4. ReceivedAsWritten'
    BY Zenon, <2>3 DEF ReceivedAsWritten, Accepted, AcceptedFrom
  <2>5. Held'
    BY Zenon, <2>1, HeldStep DEF Held, IInv
  <2> QED
    BY Zenon, <2>1, <2>4, <2>5 DEF IInv
<1> QED
  BY <1>1, InitInvariant, PTL DEF Spec
-----------------------------------------------------------------------------
(* The results.                                                            *)

(* Every variable keeps its type, and the history its capacity.            *)
THEOREM TypeCorrect == Spec => []TypeOK
BY Invariance, PTL DEF IInv

(* The history never gives up a sample that a matched reader has not       *)
(* acknowledged, whatever its capacity.                                    *)
THEOREM Retained == Spec => []UnacknowledgedRetained
BY Invariance, PTL DEF IInv

(* What the history gives up has arrived, at every matched reader that has *)
(* not taken it yet.                                                       *)
THEOREM NothingLost == Spec => []GivenUpIsReceived
<1>1. IInv => GivenUpIsReceived
  <2> SUFFICES ASSUME IInv, NEW r \in matched
               PROVE  taken[r] + 1 .. first - 1 \subseteq arrived[r]
    BY DEF GivenUpIsReceived
  <2>1. /\ first \in Int /\ acked[r] \in Int /\ taken[r] \in Int /\ r \in Readers
        /\ first <= acked[r] + 1
    BY LenProperties DEF IInv, TypeOK, UnacknowledgedRetained
  <2>2. taken[r] + 1 .. first - 1 \subseteq taken[r] + 1 .. acked[r]
    BY <2>1
  <2> QED
    BY <2>1, <2>2 DEF IInv, Held
<1> QED
  BY <1>1, Invariance, PTL

(* A subscriber accepts the messages that were written, whole, in order    *)
(* and without a gap.                                                      *)
THEOREM AsWritten == Spec => []ReceivedAsWritten
BY Invariance, PTL DEF IInv

(* The positions of the history hold coordinates.                          *)
LEMMA EmittedFix == ASSUME TypeOK, NEW n \in DOMAIN emitted PROVE emitted[n] \in Fixes
BY LenProperties, ElementOfSeq DEF TypeOK

(* Any two coordinates have the same key.                                  *)
LEMMA KeysAgree == ASSUME NEW fix \in Fixes, NEW other \in Fixes PROVE other \in SameKey[fix]
<1> SUFFICES ASSUME NEW representation \in Representations, NEW force_md5 \in BOOLEAN
             PROVE  compute_key(MessageOf[fix], force_md5) =
                      compute_key_of_payload(PayloadOf[representation][other], force_md5)
  BY DEF SameKey
<1>1. /\ deserialize(PayloadOf[representation][other], NoMessage).data = MessageOf[other]
      /\ deserialize(PayloadOf[representation][other], NoMessage).ok = TRUE
  BY NoMessageType, PayloadRead
<1>2. MessageOf[fix].subject_id = MessageOf[other].subject_id
  BY DEF MessageOf
<1>3. compute_key(MessageOf[fix], force_md5) = compute_key(MessageOf[other], force_md5)
  BY Zenon, <1>2 DEF compute_key, KeyOf
<1> QED
  BY Zenon, <1>1, <1>3 DEF compute_key_of_payload

(* Writer and readers compute the same key for all coordinates.            *)
THEOREM SameInstance == Spec => []OneInstance
<1>1. TypeOK => OneInstance
  BY Zenon, EmittedFix, KeysAgree DEF OneInstance
<1> QED
  BY <1>1, TypeCorrect, PTL

(* A registration announces every member of the message or nothing, on     *)
(* whichever of its returns it leaves.                                     *)
LEMMA AllOrNothing ==
  ASSUME NEW registry \in Registries
  PROVE  register_Message_type_identifier(registry).announced \in {<< >>, TypeObject}
<1> DEFINE known == [registry EXCEPT !.string = IF @ = "absent" THEN "usable" ELSE @]
           members == BuildMembers(known)
<1>1. registry.announced = << >> /\ known.announced = << >>
  BY DEF Registries
<1>2. members \in {<< >>, TypeObject}
  BY DEF BuildMembers
<1>3. [known EXCEPT !.message = "usable", !.announced = members].announced = members
  BY DEF Registries
<1>4. register_Message_type_identifier(registry)
        \in {registry, known, [known EXCEPT !.message = "usable", !.announced = members]}
  BY DEF register_Message_type_identifier
<1> HIDE DEF known, members
<1> QED
  BY <1>1, <1>2, <1>3, <1>4

(* An announced type object reads what the generated code has written.     *)
LEMMA AnnouncedReads == ASSUME NEW fix \in Fixes PROVE fix \in WellDescribed
<1> SUFFICES ASSUME NEW members \in AnnouncedTypes, NEW representation \in Representations
             PROVE  /\ Decode(PayloadOf[representation][fix], members, NoMessage).ok
                    /\ Decode(PayloadOf[representation][fix], members, NoMessage).data
                         = MessageOf[fix]
  BY DEF WellDescribed
<1>1. members = TypeObject
  BY Zenon, AllOrNothing DEF AnnouncedTypes
<1>2. TypeObject = Switch
  BY DEF TypeObject, Switch
<1>3. /\ deserialize(PayloadOf[representation][fix], NoMessage).data = MessageOf[fix]
      /\ deserialize(PayloadOf[representation][fix], NoMessage).ok = TRUE
  BY NoMessageType, PayloadRead
<1> QED
  BY Zenon, <1>1, <1>2, <1>3 DEF deserialize

(* With the two types of the members in the registry, all of them are built.*)
LEMMA MembersBuilt ==
  ASSUME NEW known, known.string = "usable", known.long = "usable"
  PROVE  BuildMembers(known) = TypeObject /\ TypeObject # << >>
<1>1. \A i \in DOMAIN TypeObject : TypeObject[i].kind \in {"string", "long"}
  BY DEF TypeObject, Member
<1>2. \A i \in DOMAIN TypeObject : known[TypeObject[i].kind] = "usable"
  BY Zenon, <1>1
<1>3. TypeObject # << >>
  BY DEF TypeObject
<1> QED
  BY Zenon, <1>2, <1>3 DEF BuildMembers

(* After a registration that gave up because the type of long was missing, *)
(* one that finds it announces the message.                                *)
LEMMA CatchesUp == RegistrationCatchesUp
<1> DEFINE before(registry) == register_Message_type_identifier(registry)
           ready(registry) == [before(registry) EXCEPT !.long = "usable"]
<1> SUFFICES ASSUME NEW registry \in Registries, registry.string \in {"absent", "usable"},
                    registry.message = "absent"
             PROVE  register_Message_type_identifier(ready(registry)).announced # << >>
  BY DEF RegistrationCatchesUp
<1> DEFINE known == [registry EXCEPT !.string = IF @ = "absent" THEN "usable" ELSE @]
           members == BuildMembers(known)
           done == [known EXCEPT !.message = "usable", !.announced = members]
<1>1. /\ known \in Registries /\ known.string = "usable" /\ known.message = "absent"
  BY DEF Registries, Entries
<1>2. \/ before(registry) = known
      \/ members # << >> /\ before(registry) = done
  BY DEF register_Message_type_identifier
<1>3. CASE members # << >> /\ before(registry) = done
  <2>1. ready(registry).announced = members /\ ready(registry).message = "usable"
    BY <1>1, <1>3 DEF Registries
  <2> HIDE DEF ready, members
  <2>2. register_Message_type_identifier(ready(registry)) = ready(registry)
    BY <2>1 DEF register_Message_type_identifier
  <2> QED
    BY <1>3, <2>1, <2>2
<1>4. CASE before(registry) = known
  <2> DEFINE now == ready(registry)
             nowKnown == [now EXCEPT !.string = IF @ = "absent" THEN "usable" ELSE @]
  <2>1. /\ now.string = "usable" /\ now.long = "usable" /\ now.message = "absent"
        /\ now \in Registries
    BY <1>1, <1>4 DEF Registries, Entries
  <2> HIDE DEF now
  <2>2. nowKnown.string = "usable" /\ nowKnown.long = "usable" /\ nowKnown \in Registries
    BY <2>1 DEF Registries, Entries
  <2> HIDE DEF nowKnown
  <2>3. BuildMembers(nowKnown) = TypeObject /\ TypeObject # << >>
    BY Zenon, <2>2, MembersBuilt
  <2>4. register_Message_type_identifier(now)
          = [nowKnown EXCEPT !.message = "usable", !.announced = BuildMembers(nowKnown)]
    BY <2>1, <2>3 DEF register_Message_type_identifier, nowKnown
  <2>5. register_Message_type_identifier(now).announced = BuildMembers(nowKnown)
    BY <2>2, <2>4 DEF Registries
  <2> QED
    BY <2>3, <2>5 DEF now
<1> QED
  BY Zenon, <1>2, <1>3, <1>4

(* The announced type objects read what the generated code has written, and*)
(* no half-way registration keeps the message from being announced.        *)
THEOREM Described == Spec => []TypeObjectDescribesPayload
<1>1. TypeOK => TypeObjectDescribesPayload
  BY Zenon, CatchesUp, EmittedFix, AnnouncedReads DEF TypeObjectDescribesPayload
<1> QED
  BY <1>1, TypeCorrect, PTL

(* The bounded history loses nothing that a matched reader has a claim to. *)
THEOREM HistoryLosesNothing == Spec => []RetainedUntilReceived
BY Retained, NothingLost, PTL DEF RetainedUntilReceived

(* The three pieces of generated code agree about every coordinate.        *)
THEOREM TypeSupport == Spec => []TypeSupportAgrees
BY SameInstance, Described, PTL DEF TypeSupportAgrees
=============================================================================
