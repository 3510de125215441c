----------------------------- MODULE DdsChannel -----------------------------
(***************************************************************************)
(* From the publisher to its subscribers: the publisher's DataWriter       *)
(* (src/src/MessengerPublisherApp.cxx) and the DataReaders of subscriber   *)
(* processes (src/src/MessengerSubscriberApp.cxx), all reliable, transient *)
(* local and keep all, with the generated type support between them.  A    *)
(* subscriber that stop() has told to end takes nothing more; its reader   *)
(* stays matched, and acknowledges what it has room for, until the process *)
(* is gone - which may be never (MessengerSubscriberApp).                  *)
(*                                                                         *)
(* Fast DDS and the network are external.  The writer's history is bounded:*)
(* when it is full, a sample that every matched reader has acknowledged    *)
(* makes room, or the write is refused.  Any retained sample may arrive at *)
(* a matched reader, in any order: what is lost is sent again, and what    *)
(* arrives twice is ignored.  A reader hands samples over in order, and it *)
(* receives no more than its history has room for.                         *)
(* Which coordinates are written is the publisher's choice, in ascending   *)
(* order and with gaps (SampledStream); a coordinate stands for its number.*)
(***************************************************************************)
EXTENDS MessageCdr, FiniteSets

CONSTANTS
  Representation,   \* of the writer's payloads: XCDR by default
  Readers,    \* bound: subscriber processes at the same time
  Fixes,      \* bound: the coordinates of a modelled execution, by ordinal
  Capacity    \* samples that a history holds, the writer's and a reader's (the default
              \* resource limits of both)

ASSUME ChannelAssumption ==
  /\ Byte > 2
  /\ Representation \in Representations
  /\ IsFiniteSet(Readers)
  /\ Fixes \subseteq Nat
  /\ Capacity \in Nat \ {0}

VARIABLES
  writer,           \* "up", or "gone" with the publisher process
  emitted,          \* the coordinates that write() accepted, in order
  first,            \* position in emitted of the oldest sample still retained
  matched,          \* the readers matched with the writer
  matched_,         \* what on_publication_matched has recorded of it
  arrived,          \* the positions that each reader has received
  acked,            \* the last position each reader has acknowledged
  taken,            \* the last position take_next_sample() has returned
  sample_,          \* local of on_data_available; one object for all its takes
  stop_,            \* member of each subscriber
  received          \* the messages that each subscriber has accepted

readerVars == <<arrived, acked, taken, sample_, stop_, received>>
writerVars == <<writer, emitted, first>>
vars == <<writerVars, matched, matched_, readerVars>>

\* Every variable keeps its type, and the history its capacity.
TypeOK ==
  /\ writer \in {"up", "gone"}
  /\ emitted \in Seq(Fixes)
  /\ first \in 1 .. Len(emitted) + 1
  /\ Len(emitted) - first < Capacity
  /\ matched \in SUBSET Readers
  /\ matched_ \in 0 .. Cardinality(Readers)
  /\ arrived \in [Readers -> SUBSET (1 .. Len(emitted))]
  /\ acked \in [Readers -> 0 .. Len(emitted)]
  /\ taken \in [Readers -> 0 .. Len(emitted)]
  /\ sample_ \in [Readers -> Message]
  /\ stop_ \in [Readers -> BOOLEAN]
  /\ received \in [Readers -> Seq(Message)]

Init ==
  /\ writer = "up"
  /\ emitted = << >>
  /\ first = 1
  /\ matched = {}
  /\ matched_ = 0
  /\ arrived = [r \in Readers |-> {}]
  /\ acked = [r \in Readers |-> 0]
  /\ taken = [r \in Readers |-> 0]
  /\ sample_ = [r \in Readers |-> NoMessage]
  /\ stop_ = [r \in Readers |-> FALSE]
  /\ received = [r \in Readers |-> << >>]
-----------------------------------------------------------------------------
(* Subscriber processes come and go.                                       *)

\* The discovery thread reports one change at a time.
Settled == matched_ = Cardinality(matched)

\* Mutant: a volatile writer offers only what is written from now on.
OldestOfferedVolatile == Len(emitted) + 1

\* A transient local writer offers what it retains.
OldestOffered == first

Restarted(r, oldest) ==
  /\ arrived' = [arrived EXCEPT ![r] = {}]
  /\ acked' = [acked EXCEPT ![r] = oldest - 1]
  /\ taken' = [taken EXCEPT ![r] = oldest - 1]
  /\ sample_' = [sample_ EXCEPT ![r] = NoMessage]
  /\ stop_' = [stop_ EXCEPT ![r] = FALSE]
  /\ received' = [received EXCEPT ![r] = << >>]

ReaderAppears(r) ==
  /\ writer = "up" /\ Settled
  /\ r \notin matched
  /\ matched' = matched \cup {r}
  /\ Restarted(r, OldestOffered)
  /\ UNCHANGED <<writerVars, matched_>>

ReaderDisappears(r) ==
  /\ Settled
  /\ r \in matched
  /\ matched' = matched \ {r}
  /\ Restarted(r, 1)
  /\ UNCHANGED <<writerVars, matched_>>

on_publication_matched ==
  /\ writer = "up" /\ ~Settled
  /\ matched_' = Cardinality(matched)
  /\ UNCHANGED <<writerVars, matched, readerVars>>
-----------------------------------------------------------------------------
(* The publisher.                                                          *)

Newest == IF emitted = << >> THEN 0 ELSE emitted[Len(emitted)]

\* The texts differ in length; sender and subject are constants, of the same length
\* modulo four as in the code.
Text(fix) == [i \in 1 .. (fix % 4) |-> 1 + ((fix + i) % (Byte - 1))]

MessageOf ==
  [fix \in Fixes |->
     [from |-> <<1, 1, 1>>, subject |-> <<2, 2, 2>>, subject_id |-> 1,
      text |-> Text(fix), count |-> Signed(fix % LongMod)]]

PayloadOf ==
  [representation \in Representations |->
     [fix \in Fixes |->
        serialize(representation, MessageOf[fix],
                  calculate_serialized_size(representation, MessageOf[fix]))]]

Full == Len(emitted) - first + 1 = Capacity

\* Mutants: a keep-last history gives up its oldest sample in any case; a history that
\* never gives up any; one without a limit.
OldestAcknowledgedAlways == TRUE
OldestAcknowledgedNever == FALSE
MakeRoomNever == UNCHANGED first

\* A keep-all history gives up what every matched reader has acknowledged.
OldestAcknowledged == \A r \in matched : acked[r] >= first

MakeRoom ==
  \/ ~Full /\ UNCHANGED first
  \/ Full /\ OldestAcknowledged /\ first' = first + 1

\* writer_->write accepts a sample newer than the last one; a write that is refused
\* changes nothing, and the publisher comes back with a later coordinate.
Write(fix) ==
  /\ writer = "up" /\ matched_ > 0
  /\ fix > Newest
  /\ PayloadOf[Representation][fix] # Refused
  /\ MakeRoom
  /\ emitted' = Append(emitted, fix)
  /\ UNCHANGED <<writer, matched, matched_, readerVars>>

\* The publisher process ends.  A reader keeps what it can hand over; what waits for a
\* gap to close is dropped.
WriterLeaves ==
  /\ writer = "up"
  /\ writer' = "gone"
  /\ arrived' = [r \in Readers |-> {n \in arrived[r] : taken[r] + 1 .. n \subseteq arrived[r]}]
  /\ UNCHANGED <<emitted, first, matched, matched_, acked, taken, sample_, stop_, received>>
-----------------------------------------------------------------------------
(* Delivery, and on_data_available of each subscriber.                     *)

\* A reader keeps room for what is missing before a sample.
Arrive(r, n) ==
  /\ writer = "up" /\ r \in matched
  /\ n <= taken[r] + Capacity
  /\ n \in first .. Len(emitted)
  /\ n \notin arrived[r]
  /\ arrived' = [arrived EXCEPT ![r] = @ \cup {n}]
  /\ UNCHANGED <<writerVars, matched, matched_, acked, taken, sample_, stop_, received>>

\* Mutant: a reader acknowledges the newest position that it has received.
AcknowledgeNewest(r) ==
  /\ writer = "up" /\ r \in matched
  /\ \E n \in arrived[r] : n > acked[r] /\ acked' = [acked EXCEPT ![r] = n]
  /\ UNCHANGED <<writerVars, matched, matched_, arrived, taken, sample_, stop_, received>>

Acknowledge(r) ==
  /\ writer = "up" /\ r \in matched
  /\ acked[r] + 1 \in arrived[r]
  /\ acked' = [acked EXCEPT ![r] = @ + 1]
  /\ UNCHANGED <<writerVars, matched, matched_, arrived, taken, sample_, stop_, received>>

HandOver(r) ==
  /\ taken[r] + 1 \in arrived[r]
  /\ taken' = [taken EXCEPT ![r] = @ + 1]

\* stop() of a subscriber; one that is stopped before its reader is matched takes just
\* as little as one that is stopped right afterwards.
Stop(r) ==
  /\ r \in matched
  /\ ~stop_[r]
  /\ stop_' = [stop_ EXCEPT ![r] = TRUE]
  /\ UNCHANGED <<writerVars, matched, matched_, arrived, acked, taken, sample_, received>>

\* One round of the loop; a stop() between its test and its take is the same as one just
\* after the take.  take_next_sample() deserialises into sample_; a sample whose instance
\* has lost its writer is dropped.
Take(r) ==
  /\ ~stop_[r]
  /\ HandOver(r)
  /\ LET payload == PayloadOf[Representation][emitted[taken[r] + 1]]
         result == deserialize(payload, sample_[r])
     IN  /\ sample_' = [sample_ EXCEPT ![r] = result.data]
         /\ received' = IF result.ok /\ writer = "up"
                        THEN [received EXCEPT ![r] = Append(@, result.data)]
                        ELSE received
  /\ UNCHANGED <<writerVars, matched, matched_, arrived, acked, stop_>>

\* The loop finds nothing more or the stop, and the callback returns.
CallbackEnds(r) ==
  /\ stop_[r] \/ taken[r] + 1 \notin arrived[r]
  /\ sample_[r] # NoMessage
  /\ sample_' = [sample_ EXCEPT ![r] = NoMessage]
  /\ UNCHANGED <<writerVars, matched, matched_, arrived, acked, taken, stop_, received>>
-----------------------------------------------------------------------------
ArriveAny(r) == \E n \in 1 .. Len(emitted) : Arrive(r, n)

Next ==
  \/ \E r \in Readers :
       \/ ReaderAppears(r) \/ ReaderDisappears(r)
       \/ ArriveAny(r) \/ Acknowledge(r) \/ Stop(r) \/ Take(r) \/ CallbackEnds(r)
  \/ on_publication_matched
  \/ \E fix \in Fixes : Write(fix)
  \/ WriterLeaves

Spec == Init /\ [][Next]_vars

\* Take(r), without what it reads.
TakeNext(r) == ~stop_[r] /\ HandOver(r) /\ UNCHANGED <<matched, arrived, acked>>

\* What a subscriber process does with the samples, unless it is dead.
ReaderWorks(r) == ArriveAny(r) \/ Acknowledge(r) \/ TakeNext(r)

\* There is something for it to do.
WorkWaits(r) ==
  \/ writer = "up" /\ r \in matched
       /\ \/ acked[r] + 1 \in arrived[r]
          \/ \E n \in first .. Len(emitted) : n \notin arrived[r] /\ n <= taken[r] + Capacity
  \/ ~stop_[r] /\ taken[r] + 1 \in arrived[r]

LeaseExpires(r) == WorkWaits(r) /\ ReaderDisappears(r)

\* The publisher's threads run.  A subscriber process works - what is sent again and again
\* arrives, and callbacks run -, or it is dead, and its lease expires.
Fairness ==
  /\ WF_vars(on_publication_matched)
  /\ WF_vars(\E fix \in Fixes : Write(fix))
  /\ \A r \in Readers :
       WF_<<matched, arrived, acked, taken>>(ReaderWorks(r) \/ LeaseExpires(r))

FairSpec == Spec /\ Fairness
-----------------------------------------------------------------------------
(* What a subscriber accepts is what was written: every member of every    *)
(* message although all are read into one object, in the order of the      *)
(* writes and with none left out from the first to the last - which is the *)
(* last one taken, as long as the publisher is there.                      *)
ReceivedAsWritten ==
  \A r \in Readers : \E start \in 0 .. Len(emitted) :
    /\ start + Len(received[r]) <= taken[r]
    /\ writer = "up" => start + Len(received[r]) = taken[r]
    /\ \A i \in 1 .. Len(received[r]) : received[r][i] = MessageOf[emitted[start + i]]

(* A sample that the history has given up has not been lost: who is matched*)
(* has received it and holds it until the callback takes it, also when the *)
(* publisher has left meanwhile.                                           *)
GivenUpIsReceived ==
  \A r \in matched : taken[r] + 1 .. first - 1 \subseteq arrived[r]

(* The history gives up no sample that a matched reader still waits for.   *)
UnacknowledgedRetained == \A r \in matched : first <= acked[r] + 1

(* The bounded history loses nothing: a sample that a matched reader has   *)
(* still to receive is retained, and one that is no longer retained is held*)
(* by the reader.                                                          *)
RetainedUntilReceived == UnacknowledgedRetained /\ GivenUpIsReceived

\* The coordinates whose payloads have the key that a coordinate has as a message.
SameKey ==
  [fix \in Fixes |->
     {other \in Fixes :
        \A representation \in Representations, force_md5 \in BOOLEAN :
          compute_key(MessageOf[fix], force_md5)
            = compute_key_of_payload(PayloadOf[representation][other], force_md5)}]

(* All coordinates belong to one instance, for the writer, which computes  *)
(* the key from the message, and for a reader, which finds the payload.    *)
OneInstance == \A m, n \in DOMAIN emitted : emitted[n] \in SameKey[emitted[m]]

\* The member lists that some registration announces.
AnnouncedTypes ==
  {register_Message_type_identifier(registry).announced : registry \in Registries} \ {<< >>}

\* The coordinates that an announced type object reads from every payload of them.
WellDescribed ==
  {fix \in Fixes : \A members \in AnnouncedTypes, representation \in Representations :
     LET read == Decode(PayloadOf[representation][fix], members, NoMessage)
     IN  read.ok /\ read.data = MessageOf[fix]}

(* A registration that gives up half-way leaves nothing behind that stops a*)
(* later one: as soon as the type of long is there, the next one announces *)
(* the message.                                                            *)
RegistrationCatchesUp ==
  \A registry \in Registries :
    registry.string \in {"absent", "usable"} /\ registry.message = "absent" =>
      LET before == register_Message_type_identifier(registry)
          again == register_Message_type_identifier([before EXCEPT !.long = "usable"])
      IN  again.announced # << >>

(* Whatever the registry holds: no registration announces a part of the    *)
(* message, and who knows the message by an announced type object only     *)
(* reads the same from a payload.                                          *)
TypeObjectDescribesPayload ==
  RegistrationCatchesUp /\ \A n \in DOMAIN emitted : emitted[n] \in WellDescribed

(* The generated code agrees with itself: the key from the message and from*)
(* the payload, the type object and the serialisation.                     *)
TypeSupportAgrees == OneInstance /\ TypeObjectDescribesPayload

(* Whatever is lost and reordered, and however late a subscriber joins: it *)
(* gets every sample that is retained while it is there and not told to end*)
HistoryReachesReaders ==
  \A r \in Readers, n \in 1 .. Cardinality(Fixes) :
    r \in matched /\ n \in first .. Len(emitted)
      ~> \/ \E i \in DOMAIN received[r] :
              n \in DOMAIN emitted /\ received[r][i] = MessageOf[emitted[n]]
         \/ r \notin matched \/ stop_[r] \/ writer = "gone"

(* A full history does not silence the publisher: once no more subscribers *)
(* come, it gets its latest coordinate written, for a subscriber that is   *)
(* dead is unmatched in the end.  Only one that is told to end and stays   *)
(* can fill its reader's history and then the writer's.                    *)
FullHistoryYields ==
  <>[][matched' \subseteq matched]_matched =>
    \A fix \in Fixes :
      matched_ > 0 ~> \/ Newest >= fix \/ matched_ = 0 \/ writer = "gone"
                      \/ \E r \in matched : stop_[r]
=============================================================================
