----------------------------- MODULE MessageCdr -----------------------------
(***************************************************************************)
(* The message and the code that fastddsgen generated for it: its layout   *)
(* (src/src/MessengerCdrAux.ipp), the type support that Fast DDS calls     *)
(* (src/src/MessengerPubSubTypes.cxx) and the description of the type that *)
(* it announces (src/src/MessengerTypeObjectSupport.cxx).  Operators only. *)
(*                                                                         *)
(* A payload is its representation (from the encapsulation header) and the *)
(* octets after that header; a string is a sequence of octets without NUL. *)
(* Fast CDR is external: little endian, every member aligned to four, the  *)
(* delimiter of XCDR2 in front, and NotEnoughMemory at the end of a buffer.*)
(***************************************************************************)
EXTENDS Integers, Sequences

CONSTANT Byte           \* number of values of an octet (2^8 in the code)

ASSUME ByteAssumption == Byte \in Nat /\ Byte > 1

Representations == {"XCDR", "XCDR2"}

LongMod == Byte * Byte * Byte * Byte
Long == -(LongMod \div 2) .. (LongMod - 1) \div 2
CharString == Seq(1 .. Byte - 1)

Message == [from : CharString, subject : CharString, subject_id : Long,
            text : CharString, count : Long]

\* The default constructor.
NoMessage == [from |-> << >>, subject |-> << >>, subject_id |-> 0, text |-> << >>,
              count |-> 0]
-----------------------------------------------------------------------------
(* Numbers in a buffer.                                                    *)

Octets(n) ==
  LET u == n % LongMod
  IN  <<u % Byte, (u \div Byte) % Byte, ((u \div Byte) \div Byte) % Byte,
        ((u \div Byte) \div Byte) \div Byte>>

BigEndian(n) == [i \in 1 .. 4 |-> Octets(n)[5 - i]]

NumberAt(octets, at) ==
  octets[at + 1]
    + Byte * (octets[at + 2] + Byte * (octets[at + 3] + Byte * octets[at + 4]))

Signed(u) == IF 2 * u < LongMod THEN u ELSE u - LongMod

\* Cdr::alignment(at, 4).
Padding(at) == (4 - (at % 4)) % 4

Zeros(n) == [i \in 1 .. n |-> 0]
-----------------------------------------------------------------------------
(* Serialisation.                                                          *)

StringField(s) == Octets(Len(s) + 1) \o s \o <<0>>

Put(buffer, field) == buffer \o Zeros(Padding(Len(buffer))) \o field

PutMembers(data) ==
  LET from == Put(<< >>, StringField(data.from))
      subject == Put(from, StringField(data.subject))
      subject_id == Put(subject, Octets(data.subject_id))
      text == Put(subject_id, StringField(data.text))
  IN  Put(text, Octets(data.count))

\* XCDR2 is delimited, XCDR is plain.
Encoded(representation, data) ==
  IF representation = "XCDR2"
  THEN Octets(Len(PutMembers(data))) \o PutMembers(data)
  ELSE PutMembers(data)

\* Four octets of encapsulation.
PayloadLength(payload) == 4 + Len(payload.octets)

Refused == [representation |-> "none", octets |-> << >>]

\* MessagePubSubType::serialize: false if the buffer of the payload is too small.
serialize(representation, data, max_size) ==
  LET payload == [representation |-> representation, octets |-> Encoded(representation, data)]
  IN  IF PayloadLength(payload) <= max_size THEN payload ELSE Refused

After(at, size) == at + Padding(at) + size
StringSize(s) == 4 + Len(s) + 1
DelimiterSize(representation) == IF representation = "XCDR2" THEN 4 ELSE 0

\* What Fast DDS allocates for the payload of one message.
calculate_serialized_size(representation, data) ==
  LET from == After(DelimiterSize(representation), StringSize(data.from))
      subject == After(from, StringSize(data.subject))
      subject_id == After(subject, 4)
      text == After(subject_id, StringSize(data.text))
  IN  After(text, 4) + 4

\* The bound that the constructor announces; fastddsgen derives its 792 from strings
\* of at most 255 characters.
max_cdr_typesize == 792
max_serialized_type_size == max_cdr_typesize + Padding(max_cdr_typesize) + 4
-----------------------------------------------------------------------------
(* Deserialisation, into an object that may hold an older message.         *)

\* A cursor: how far the body is read, the object, and whether no exception came.
Start(data) == [at |-> 0, data |-> data, ok |-> TRUE]

Failed(cursor) == [cursor EXCEPT !.ok = FALSE]

Store(cursor, name, value, at) ==
  [at |-> at, data |-> [cursor.data EXCEPT ![name] = value], ok |-> TRUE]

ReadLong(body, cursor, name) ==
  LET start == cursor.at + Padding(cursor.at)
  IN  IF start + 4 > Len(body) THEN Failed(cursor)
      ELSE Store(cursor, name, Signed(NumberAt(body, start)), start + 4)

ReadString(body, cursor, name) ==
  LET start == cursor.at + Padding(cursor.at)
      size == NumberAt(body, start)
  IN  IF start + 4 > Len(body) \/ start + 4 + size > Len(body) THEN Failed(cursor)
      ELSE Store(cursor, name, SubSeq(body, start + 5, start + 3 + size), start + 4 + size)

\* Nothing is read once the body has ended or an exception has come.
ReadMember(body, cursor, member) ==
  CASE ~cursor.ok \/ cursor.at = Len(body) -> cursor
    [] member.kind = "string" -> ReadString(body, cursor, member.name)
    [] OTHER -> ReadLong(body, cursor, member.name)

\* The members one after the other.
ReadMembers(body, members, data) ==
  LET read[i \in 0 .. Len(members)] ==
        IF i = 0 THEN Start(data) ELSE ReadMember(body, read[i - 1], members[i])
  IN  read[Len(members)]

Decode(payload, members, data) ==
  LET octets == payload.octets
      delimited == SubSeq(octets, 5, 4 + NumberAt(octets, 0))
  IN  CASE payload.representation = "none" -> Failed(Start(data))
        [] payload.representation = "XCDR" -> ReadMembers(octets, members, data)
        [] OTHER -> ReadMembers(delimited, members, data)

Member(name, kind) == [name |-> name, kind |-> kind]

\* Mutant: the case of one member is missing, and its number goes to the next one.
SwitchShort == <<Member("from", "string"), Member("subject", "string"),
                 Member("subject_id", "long"), Member("count", "long")>>

\* The cases of the switch over the member number.
Switch == <<Member("from", "string"), Member("subject", "string"),
            Member("subject_id", "long"), Member("text", "string"),
            Member("count", "long")>>

deserialize(payload, data) == Decode(payload, Switch, data)
-----------------------------------------------------------------------------
(* The key, by which Fast DDS tells instances apart.                       *)

\* Mutant: the key is taken from another member.
KeyOfCount(data) == BigEndian(data.count)

KeyOf(data) == BigEndian(data.subject_id)

compute_key(data, force_md5) ==
  [md5 |-> force_md5, value |-> IF force_md5 THEN KeyOf(data) ELSE KeyOf(data) \o Zeros(12)]

\* What a caller has who is told that there is no key.
NoKey == [md5 |-> FALSE, value |-> << >>]

\* From a payload: the message is deserialised into a fresh object first.
compute_key_of_payload(payload, force_md5) ==
  LET read == deserialize(payload, NoMessage)
  IN  IF read.ok THEN compute_key(read.data, force_md5) ELSE NoKey
-----------------------------------------------------------------------------
(* The type object that other participants get to see.                     *)

\* Mutant: two members change places.
TypeObjectSwapped == <<Member("subject", "string"), Member("from", "string"),
                       Member("subject_id", "long"), Member("text", "string"),
                       Member("count", "long")>>

\* The members by ascending member number.
TypeObject == <<Member("from", "string"), Member("subject", "string"),
                Member("subject_id", "long"), Member("text", "string"),
                Member("count", "long")>>

\* What the registry of the process (external) holds under a name: nothing; another
\* type, so that the lookup fails and a registration is refused as well; the type, with
\* a complete identifier or without one.
Entries == {"absent", "conflict", "usable", "unusable"}

\* Under the three names, and the members that are announced for the message.
Registries ==
  [string : Entries, long : Entries, message : Entries, announced : {<< >>}]

\* Mutant: a member without a complete identifier is left out, and building goes on.
BuildMembersSkips(known) ==
  SelectSeq(TypeObject, LAMBDA member : known[member.kind] = "usable")

\* The blocks of the members: each of them returns from the whole registration when the
\* type of its member has no complete identifier.
BuildMembers(known) ==
  IF \A i \in DOMAIN TypeObject : known[TypeObject[i].kind] = "usable"
  THEN TypeObject ELSE << >>

\* Mutant: the message is registered even if the building of its members has given up.
RegisterHalf(registry) ==
  IF registry.message = "absent"
  THEN [registry EXCEPT !.string = "usable", !.message = "usable",
                        !.announced = BuildMembers(registry)]
  ELSE registry

\* The string type is registered by the first member that misses it, before any return;
\* the message is registered last, unless it is there or its name is taken.
register_Message_type_identifier(registry) ==
  LET known == [registry EXCEPT !.string = IF @ = "absent" THEN "usable" ELSE @]
      members == BuildMembers(known)
  IN  CASE registry.message \in {"usable", "unusable"} -> registry
        [] registry.message = "absent" /\ members # << >> ->
             [known EXCEPT !.message = "usable", !.announced = members]
        [] OTHER -> known
=============================================================================
