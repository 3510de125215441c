-------------------------- MODULE MessageCdr_proofs --------------------------
(***************************************************************************)
(* The generated code reads what it writes, for every message whose strings*)
(* have a length that a 32-bit number can hold.                            *)
(***************************************************************************)
EXTENDS MessageCdr, SequenceTheorems, TLAPS

\* The strings of a message whose lengths, the NUL included, fit in their field.
FitsLong(s) == Len(s) + 1 < LongMod
-----------------------------------------------------------------------------
(* Numbers.                                                                *)

(* A long has at least two values in each of its octets.                   *)
LEMMA LongModType == LongMod \in Nat /\ LongMod >= 16
<1> DEFINE b == Byte * Byte
<1>1. b \in Nat /\ b >= 4
  BY ByteAssumption
<1>2. LongMod = b * b
  BY ByteAssumption DEF LongMod
<1> HIDE DEF b
<1>3. b * b \in Nat /\ b * b >= 16
  BY <1>1
<1> QED
  BY <1>2, <1>3

(* Division by an octet's number of values leaves nothing out.             *)
LEMMA OctetSplit ==
  ASSUME NEW u \in Nat
  PROVE  /\ u % Byte \in Nat /\ u \div Byte \in Nat
         /\ u = (u % Byte) + Byte * (u \div Byte)
BY ByteAssumption

(* Four octets, and the number that they stand for.                        *)
LEMMA OctetsNumber ==
  ASSUME NEW n \in Int
  PROVE  /\ Octets(n) \in Seq(Nat)
         /\ Len(Octets(n)) = 4
         /\ Octets(n)[1] + Byte * (Octets(n)[2] + Byte * (Octets(n)[3] + Byte * Octets(n)[4]))
              = n % LongMod
<1> DEFINE u == n % LongMod
           v == u \div Byte
           w == v \div Byte
           x == w \div Byte
<1>1. u \in Nat
  BY LongModType
<1>2. /\ u % Byte \in Nat /\ v \in Nat /\ u = (u % Byte) + Byte * v
      /\ v % Byte \in Nat /\ w \in Nat /\ v = (v % Byte) + Byte * w
      /\ w % Byte \in Nat /\ x \in Nat /\ w = (w % Byte) + Byte * x
  BY <1>1, OctetSplit
<1>3. Octets(n) = <<u % Byte, v % Byte, w % Byte, x>>
  BY DEF Octets
<1> HIDE DEF u, v, w, x
<1>4. Octets(n) \in Seq(Nat) /\ Len(Octets(n)) = 4
  BY <1>2, <1>3
<1>5. (u % Byte) + Byte * ((v % Byte) + Byte * ((w % Byte) + Byte * x)) = u
  BY <1>2
<1>6. /\ Octets(n)[1] = u % Byte /\ Octets(n)[2] = v % Byte
      /\ Octets(n)[3] = w % Byte /\ Octets(n)[4] = x
  BY <1>3
<1> QED
  BY <1>4, <1>5, <1>6 DEF u

(* Two's complement and back.                                              *)
LEMMA SignedMod ==
  ASSUME NEW n \in Long
  PROVE  Signed(n % LongMod) = n
<1> DEFINE l == LongMod
<1>1. l \in Nat /\ l > 1 /\ n \in -(l \div 2) .. (l - 1) \div 2
  BY LongModType DEF Long
<1>2. Signed(n % LongMod) = IF 2 * (n % l) < l THEN n % l ELSE (n % l) - l
  BY DEF Signed
<1> HIDE DEF l
<1>3. CASE n >= 0
  <2>1. n % l = n
    BY <1>1, <1>3
  <2> QED
    BY <1>1, <1>2, <1>3, <2>1
<1>4. CASE n < 0
  <2>1. n = l * (-1) + (n + l) /\ n + l \in 0 .. l - 1
    BY <1>1, <1>4
  <2>2. n % l = n + l
    BY <1>1, <2>1
  <2> QED
    BY <1>1, <1>2, <1>4, <2>2
<1> QED
  BY <1>1, <1>3, <1>4

(* Any number of 32 bits is a long.                                        *)
LEMMA SignedType ==
  ASSUME NEW u \in 0 .. LongMod - 1
  PROVE  Signed(u) \in Long
<1> DEFINE l == LongMod
<1>1. l \in Nat /\ l > 1
  BY LongModType
<1> QED
  BY <1>1 DEF Signed, Long

(* A number of 32 bits is its own remainder.                               *)
LEMMA SmallMod ==
  ASSUME NEW u \in 0 .. LongMod - 1
  PROVE  u % LongMod = u
<1> DEFINE l == LongMod
<1>1. l \in Nat /\ l > 0 /\ u \in 0 .. l - 1
  BY LongModType
<1> HIDE DEF l
<1>2. u % l = u
  BY <1>1
<1> QED
  BY <1>2 DEF l

(* At most three octets of padding, and none at the start.                 *)
LEMMA PaddingType ==
  /\ \A at \in Nat : Padding(at) \in 0 .. 3
  /\ Padding(0) = 0
BY DEF Padding

(* Padding consists of octets.                                             *)
LEMMA ZerosType ==
  ASSUME NEW n \in Nat
  PROVE  Zeros(n) \in Seq(Nat) /\ Len(Zeros(n)) = n
BY DEF Zeros
-----------------------------------------------------------------------------
(* What is written where.                                                  *)

\* The field lies in the buffer from an offset on.
Holds(buffer, at, field) ==
  /\ at \in Nat
  /\ at + Len(field) <= Len(buffer)
  /\ \A j \in 1 .. Len(field) : buffer[at + j] = field[j]

(* A concatenation holds both of its parts.                                *)
LEMMA ConcatHolds ==
  ASSUME NEW s \in Seq(Nat), NEW t \in Seq(Nat)
  PROVE  /\ s \o t \in Seq(Nat)
         /\ Len(s \o t) = Len(s) + Len(t)
         /\ Holds(s \o t, 0, s)
         /\ Holds(s \o t, Len(s), t)
<1>1. /\ s \o t \in Seq(Nat)
      /\ Len(s \o t) = Len(s) + Len(t)
      /\ \A i \in 1 .. Len(s) + Len(t) :
           (s \o t)[i] = IF i <= Len(s) THEN s[i] ELSE t[i - Len(s)]
  BY ConcatProperties
<1>2. Len(s) \in Nat /\ Len(t) \in Nat
  BY LenProperties
<1> QED
  BY <1>1, <1>2 DEF Holds

(* What a buffer's part holds the buffer holds, too.                       *)
LEMMA HoldsWithin ==
  ASSUME NEW buffer, NEW s \in Seq(Nat), NEW f \in Seq(Nat), NEW at, NEW offset,
         Holds(buffer, at, s), Holds(s, offset, f), Len(buffer) \in Nat
  PROVE  Holds(buffer, at + offset, f)
<1>1. Len(s) \in Nat /\ Len(f) \in Nat
  BY LenProperties
<1>2. at \in Nat /\ offset \in Nat /\ offset + Len(f) <= Len(s)
  BY DEF Holds
<1>3. ASSUME NEW j \in 1 .. Len(f)
      PROVE  buffer[at + offset + j] = f[j]
  <2>1. offset + j \in 1 .. Len(s)
    BY <1>1, <1>2
  <2>2. s[offset + j] = f[j]
    BY DEF Holds
  <2>3. buffer[at + (offset + j)] = s[offset + j]
    BY <2>1 DEF Holds
  <2>4. at + offset + j = at + (offset + j)
    BY <1>1, <1>2
  <2> QED
    BY <2>2, <2>3, <2>4
<1>4. at + offset + Len(f) <= Len(buffer)
  BY <1>1, <1>2 DEF Holds
<1> QED
  BY <1>2, <1>3, <1>4 DEF Holds

(* A field is put behind what the buffer holds, at an aligned offset.      *)
LEMMA PutHolds ==
  ASSUME NEW buffer \in Seq(Nat), NEW field \in Seq(Nat)
  PROVE  /\ Put(buffer, field) \in Seq(Nat)
         /\ Len(Put(buffer, field)) = Len(buffer) + Padding(Len(buffer)) + Len(field)
         /\ Holds(Put(buffer, field), 0, buffer)
         /\ Holds(Put(buffer, field), Len(buffer) + Padding(Len(buffer)), field)
<1> DEFINE zeros == Zeros(Padding(Len(buffer)))
           padded == buffer \o zeros
<1>1. Len(buffer) \in Nat /\ Padding(Len(buffer)) \in Nat
  BY LenProperties, PaddingType
<1>2. zeros \in Seq(Nat) /\ Len(zeros) = Padding(Len(buffer))
  BY <1>1, ZerosType
<1>3. Put(buffer, field) = padded \o field
  BY DEF Put
<1> HIDE DEF zeros
<1>4. /\ padded \in Seq(Nat) /\ Len(padded) = Len(buffer) + Padding(Len(buffer))
      /\ Holds(padded, 0, buffer)
  <2>1. /\ padded \in Seq(Nat) /\ Len(padded) = Len(buffer) + Len(zeros)
        /\ Holds(padded, 0, buffer)
    BY <1>2, ConcatHolds
  <2> QED
    BY <1>2, <2>1
<1> HIDE DEF padded
<1>5. /\ padded \o field \in Seq(Nat)
      /\ Len(padded \o field) = Len(padded) + Len(field)
      /\ Holds(padded \o field, 0, padded)
      /\ Holds(padded \o field, Len(padded), field)
  BY <1>4, ConcatHolds
<1>6. Holds(padded \o field, 0, buffer)
  <2>1. Len(padded \o field) \in Nat
    BY <1>5, LenProperties
  <2> QED
    <3>1. Holds(padded \o field, 0 + 0, buffer)
      BY <1>4, <1>5, <2>1, HoldsWithin
    <3> QED
      BY <3>1
<1> QED
  BY <1>3, <1>4, <1>5, <1>6

(* The field of a string: its length, its octets and a NUL.                *)
LEMMA StringFieldHolds ==
  ASSUME NEW s \in CharString
  PROVE  /\ StringField(s) \in Seq(Nat)
         /\ Len(StringField(s)) = StringSize(s)
         /\ Holds(StringField(s), 0, Octets(Len(s) + 1))
         /\ Holds(StringField(s), 4, s)
<1>1. s \in Seq(Nat) /\ Len(s) \in Nat
  <2>1. 1 .. Byte - 1 \subseteq Nat
    BY ByteAssumption
  <2>2. s \in Seq(Nat)
    BY <2>1, SeqMonotonic DEF CharString
  <2> QED
    BY <2>2, LenProperties
<1> DEFINE size == Octets(Len(s) + 1)
           head == size \o s
<1>2. size \in Seq(Nat) /\ Len(size) = 4
  <2>1. Len(s) + 1 \in Int
    BY <1>1
  <2> QED
    BY <2>1, OctetsNumber
<1>3. StringField(s) = head \o <<0>>
  BY DEF StringField
<1> HIDE DEF size
<1>4. /\ head \in Seq(Nat) /\ Len(head) = 4 + Len(s)
      /\ Holds(head, 0, size) /\ Holds(head, 4, s)
  BY <1>1, <1>2, ConcatHolds
<1> HIDE DEF head
<1>5. <<0>> \in Seq(Nat) /\ Len(<<0>>) = 1
  OBVIOUS
<1>6. /\ head \o <<0>> \in Seq(Nat)
      /\ Len(head \o <<0>>) = Len(head) + 1
      /\ Holds(head \o <<0>>, 0, head)
  BY <1>4, <1>5, ConcatHolds
<1>7. Holds(head \o <<0>>, 0, size) /\ Holds(head \o <<0>>, 4, s)
  <2>1. Len(head \o <<0>>) \in Nat
    BY <1>6, LenProperties
  <2>2. Holds(head \o <<0>>, 0 + 0, size) /\ Holds(head \o <<0>>, 0 + 4, s)
    BY <1>1, <1>2, <1>4, <1>6, <2>1, HoldsWithin
  <2> QED
    BY <2>2
<1> QED
  BY <1>3, <1>4, <1>6, <1>7, <1>1 DEF size, StringSize
-----------------------------------------------------------------------------
(* What is read where.                                                     *)

Cursor(at, data) == [at |-> at, data |-> data, ok |-> TRUE]

With(data, name, value) == [data EXCEPT ![name] = value]

(* What a cursor consists of.                                              *)
LEMMA CursorFields ==
  ASSUME NEW at, NEW data
  PROVE  Cursor(at, data).at = at /\ Cursor(at, data).data = data
BY DEF Cursor

(* A number that a buffer holds is read from it.                           *)
LEMMA NumberRead ==
  ASSUME NEW body, NEW at, NEW n \in Int, Holds(body, at, Octets(n))
  PROVE  NumberAt(body, at) = n % LongMod
<1>1. \A j \in 1 .. 4 : body[at + j] = Octets(n)[j]
  BY OctetsNumber DEF Holds
<1>2. /\ body[at + 1] = Octets(n)[1] /\ body[at + 2] = Octets(n)[2]
      /\ body[at + 3] = Octets(n)[3] /\ body[at + 4] = Octets(n)[4]
  BY <1>1
<1> QED
  BY <1>2, OctetsNumber DEF NumberAt

(* A string that the body holds behind the cursor is read, whatever the    *)
(* object held before.                                                     *)
LEMMA StringRead ==
  ASSUME NEW body \in Seq(Nat), NEW at \in Nat, NEW data, NEW name,
         NEW s \in CharString, FitsLong(s), at < Len(body),
         Holds(body, at + Padding(at), StringField(s))
  PROVE  ReadMember(body, Cursor(at, data), Member(name, "string")) =
           Cursor(at + Padding(at) + StringSize(s), With(data, name, s))
<1> DEFINE start == at + Padding(at)
<1>1. start \in Nat /\ Len(body) \in Nat /\ Len(s) \in Nat
  BY PaddingType, LenProperties DEF CharString
<1>2. /\ start + 4 + Len(s) + 1 <= Len(body)
      /\ Holds(body, start + 0, Octets(Len(s) + 1)) /\ Holds(body, start + 4, s)
  <2>1. s \in Seq(Nat)
    <3>1. 1 .. Byte - 1 \subseteq Nat
      BY ByteAssumption
    <3> QED
      BY <3>1, SeqMonotonic DEF CharString
  <2>2. Len(s) + 1 \in Int /\ Octets(Len(s) + 1) \in Seq(Nat)
    <3>1. Len(s) + 1 \in Int
      BY <1>1
    <3> QED
      BY <3>1, OctetsNumber
  <2>3. /\ StringField(s) \in Seq(Nat) /\ Len(StringField(s)) = 4 + Len(s) + 1
        /\ Holds(StringField(s), 0, Octets(Len(s) + 1)) /\ Holds(StringField(s), 4, s)
    BY StringFieldHolds DEF StringSize
  <2>4. start + Len(StringField(s)) <= Len(body)
    BY DEF Holds
  <2> HIDE DEF start
  <2>5. Holds(body, start, StringField(s))
    BY DEF start
  <2>6. Holds(body, start + 0, Octets(Len(s) + 1)) /\ Holds(body, start + 4, s)
    BY <1>1, <2>1, <2>2, <2>3, <2>5, HoldsWithin
  <2> QED
    BY <1>1, <2>3, <2>4, <2>6
<1>3. NumberAt(body, start) = Len(s) + 1
  <2>1. NumberAt(body, start) = (Len(s) + 1) % LongMod
    <3>1. start + 0 = start /\ Len(s) + 1 \in Int
      BY <1>1
    <3> QED
      BY <1>2, <3>1, NumberRead
  <2>2. Len(s) + 1 \in 0 .. LongMod - 1
    BY <1>1, LongModType DEF FitsLong
  <2> QED
    BY <2>1, <2>2, SmallMod
<1>4. SubSeq(body, start + 5, start + 3 + (Len(s) + 1)) = s
  <2> DEFINE m == start + 5
             n == start + 3 + (Len(s) + 1)
             chars == 1 .. Byte - 1
  <2>1. m \in Int /\ n \in Int /\ n - m + 1 = Len(s)
    BY <1>1
  <2>2. \A j \in 1 .. Len(s) : body[m + j - 1] = s[j]
    <3> SUFFICES ASSUME NEW j \in 1 .. Len(s)
                 PROVE  body[m + j - 1] = s[j]
      OBVIOUS
    <3>1. m + j - 1 = start + 4 + j
      BY <1>1
    <3> QED
      BY <1>2, <3>1 DEF Holds
  <2>3. \A i \in m .. n : body[i] \in chars
    <3> SUFFICES ASSUME NEW i \in m .. n
                 PROVE  body[i] \in chars
      OBVIOUS
    <3>1. i - m + 1 \in 1 .. Len(s) /\ m + (i - m + 1) - 1 = i
      BY <1>1
    <3>2. s[i - m + 1] \in chars
      BY <3>1, ElementOfSeq DEF CharString
    <3> QED
      BY <2>2, <3>1, <3>2
  <2> HIDE DEF m, n
  <2>4. /\ SubSeq(body, m, n) \in Seq(chars)
        /\ Len(SubSeq(body, m, n)) = IF m <= n THEN n - m + 1 ELSE 0
        /\ \A j \in 1 .. n - m + 1 : SubSeq(body, m, n)[j] = body[m + j - 1]
    BY <2>1, <2>3, SubSeqProperties
  <2>5. Len(SubSeq(body, m, n)) = Len(s)
    BY <1>1, <2>1, <2>4
  <2>6. \A j \in 1 .. Len(s) : SubSeq(body, m, n)[j] = s[j]
    BY <2>1, <2>2, <2>4
  <2>7. SubSeq(body, m, n) = s
    BY <2>4, <2>5, <2>6, SeqEqual DEF CharString
  <2> QED
    BY <2>7 DEF m, n
<1>5. ReadString(body, Cursor(at, data), name) =
        Cursor(start + 4 + (Len(s) + 1), With(data, name, s))
  <2>1. start + 4 <= Len(body) /\ start + 4 + (Len(s) + 1) <= Len(body)
    BY <1>1, <1>2
  <2>2. Cursor(at, data).at = at /\ Cursor(at, data).data = data
    BY CursorFields
  <2> DEFINE size == Len(s) + 1
  <2>3. ReadString(body, Cursor(at, data), name) =
          IF start + 4 > Len(body) \/ start + 4 + size > Len(body)
          THEN Failed(Cursor(at, data))
          ELSE Store(Cursor(at, data), name, SubSeq(body, start + 5, start + 3 + size),
                     start + 4 + size)
    BY <1>3, <2>2, Zenon DEF ReadString
  <2>4. ~(start + 4 > Len(body) \/ start + 4 + size > Len(body))
    BY <1>1, <2>1
  <2>5. ReadString(body, Cursor(at, data), name) =
          Store(Cursor(at, data), name, s, start + 4 + size)
    BY <1>4, <2>3, <2>4, Zenon
  <2>6. Store(Cursor(at, data), name, s, start + 4 + size) =
          Cursor(start + 4 + size, With(data, name, s))
    BY <2>2, Zenon DEF Store, Cursor, With
  <2> QED
    BY <2>5, <2>6, Zenon
<1>6. ReadMember(body, Cursor(at, data), Member(name, "string")) =
        ReadString(body, Cursor(at, data), name)
  BY <1>1 DEF ReadMember, Cursor, Member
<1> QED
  BY <1>1, <1>5, <1>6 DEF StringSize

(* And so is a number.                                                     *)
LEMMA LongRead ==
  ASSUME NEW body \in Seq(Nat), NEW at \in Nat, NEW data, NEW name,
         NEW n \in Long, at < Len(body),
         Holds(body, at + Padding(at), Octets(n))
  PROVE  ReadMember(body, Cursor(at, data), Member(name, "long")) =
           Cursor(at + Padding(at) + 4, With(data, name, n))
<1> DEFINE start == at + Padding(at)
<1>1. start \in Nat /\ Len(body) \in Nat /\ n \in Int
  BY PaddingType, LenProperties, LongModType DEF Long
<1>2. start + 4 <= Len(body)
  BY <1>1, OctetsNumber DEF Holds
<1>3. Signed(NumberAt(body, start)) = n
  BY <1>1, NumberRead, SignedMod
<1>4. ReadLong(body, Cursor(at, data), name) = Cursor(start + 4, With(data, name, n))
  <2>1. Cursor(at, data).at = at /\ Cursor(at, data).data = data
    BY CursorFields
  <2>2. ReadLong(body, Cursor(at, data), name) =
          IF start + 4 > Len(body) THEN Failed(Cursor(at, data))
          ELSE Store(Cursor(at, data), name, Signed(NumberAt(body, start)), start + 4)
    BY <2>1, Zenon DEF ReadLong
  <2> HIDE DEF start
  <2>3. ReadLong(body, Cursor(at, data), name) = Store(Cursor(at, data), name, n, start + 4)
    BY <1>1, <1>2, <1>3, <2>2
  <2>4. Store(Cursor(at, data), name, n, start + 4) =
          Cursor(start + 4, With(data, name, n))
    BY <2>1, Zenon DEF Store, Cursor, With
  <2> QED
    BY <2>3, <2>4, Zenon
<1>5. ReadMember(body, Cursor(at, data), Member(name, "long")) =
        ReadLong(body, Cursor(at, data), name)
  BY <1>1 DEF ReadMember, Cursor, Member
<1> QED
  BY <1>4, <1>5

(* The recursion over five members is five readings.                       *)
LEMMA FiveMembers ==
  ASSUME NEW body, NEW members, Len(members) = 5, NEW data,
         NEW c1, c1 = ReadMember(body, Start(data), members[1]),
         NEW c2, c2 = ReadMember(body, c1, members[2]),
         NEW c3, c3 = ReadMember(body, c2, members[3]),
         NEW c4, c4 = ReadMember(body, c3, members[4]),
         NEW c5, c5 = ReadMember(body, c4, members[5])
  PROVE  ReadMembers(body, members, data) = c5
<1> DEFINE After5(f) ==
             [i \in 0 .. Len(members) |->
                IF i = 0 THEN Start(data) ELSE ReadMember(body, f[i - 1], members[i])]
           read == CHOOSE f : f = After5(f)
           cursors == [i \in 0 .. Len(members) |->
                         IF i = 0 THEN Start(data) ELSE IF i = 1 THEN c1 ELSE IF i = 2 THEN c2
                         ELSE IF i = 3 THEN c3 ELSE IF i = 4 THEN c4 ELSE c5]
<1>1. cursors = After5(cursors)
  <2>1. ASSUME NEW i \in 0 .. Len(members)
        PROVE  cursors[i] = IF i = 0 THEN Start(data)
                            ELSE ReadMember(body, cursors[i - 1], members[i])
    <3>1. i \in {0, 1, 2, 3, 4, 5}
      OBVIOUS
    <3> QED
      BY <3>1
  <2> QED
    BY <2>1
<1> HIDE DEF cursors
<1>2. read = After5(read)
  BY <1>1
<1>3. ReadMembers(body, members, data) = read[5]
  BY DEF ReadMembers
<1> HIDE DEF read
<1>4. /\ read[0] = Start(data)
      /\ \A i \in 1 .. 5 : read[i] = ReadMember(body, read[i - 1], members[i])
  BY <1>2
<1>5. read[1] = c1 /\ read[2] = c2 /\ read[3] = c3 /\ read[4] = c4 /\ read[5] = c5
  BY <1>4
<1> QED
  BY <1>3, <1>5
-----------------------------------------------------------------------------
(* The members of a message, one behind the other.                         *)

PutFrom(m) == Put(<< >>, StringField(m.from))
PutSubject(m) == Put(PutFrom(m), StringField(m.subject))
PutSubjectId(m) == Put(PutSubject(m), Octets(m.subject_id))
PutText(m) == Put(PutSubjectId(m), StringField(m.text))

\* Where the next field begins.
Behind(buffer) == Len(buffer) + Padding(Len(buffer))

(* A further field leaves where they are the ones that the buffer holds.   *)
LEMMA PutKeeps ==
  ASSUME NEW buffer \in Seq(Nat), NEW field \in Seq(Nat), NEW f \in Seq(Nat), NEW at,
         Holds(buffer, at, f)
  PROVE  Holds(Put(buffer, field), at, f)
<1>1. /\ Put(buffer, field) \in Seq(Nat)
      /\ Holds(Put(buffer, field), 0, buffer)
  BY PutHolds
<1>2. Len(Put(buffer, field)) \in Nat
  BY <1>1, LenProperties
<1>3. Holds(Put(buffer, field), 0 + at, f)
  BY <1>1, <1>2, HoldsWithin
<1>4. 0 + at = at
  BY DEF Holds
<1> QED
  BY <1>3, <1>4

(* The fields and the ends of the five members.                            *)
LEMMA Layout ==
  ASSUME NEW m \in Message
  PROVE  /\ PutMembers(m) \in Seq(Nat)
         /\ Len(PutFrom(m)) = StringSize(m.from)
         /\ Len(PutSubject(m)) = Behind(PutFrom(m)) + StringSize(m.subject)
         /\ Len(PutSubjectId(m)) = Behind(PutSubject(m)) + 4
         /\ Len(PutText(m)) = Behind(PutSubjectId(m)) + StringSize(m.text)
         /\ Len(PutMembers(m)) = Behind(PutText(m)) + 4
         /\ Holds(PutMembers(m), 0, StringField(m.from))
         /\ Holds(PutMembers(m), Behind(PutFrom(m)), StringField(m.subject))
         /\ Holds(PutMembers(m), Behind(PutSubject(m)), Octets(m.subject_id))
         /\ Holds(PutMembers(m), Behind(PutSubjectId(m)), StringField(m.text))
         /\ Holds(PutMembers(m), Behind(PutText(m)), Octets(m.count))
<1> DEFINE b1 == PutFrom(m)
           b2 == PutSubject(m)
           b3 == PutSubjectId(m)
           b4 == PutText(m)
           b5 == PutMembers(m)
           f1 == StringField(m.from)
           f2 == StringField(m.subject)
           f3 == Octets(m.subject_id)
           f4 == StringField(m.text)
           f5 == Octets(m.count)
<1>1. /\ f1 \in Seq(Nat) /\ Len(f1) = StringSize(m.from)
      /\ f2 \in Seq(Nat) /\ Len(f2) = StringSize(m.subject)
      /\ f4 \in Seq(Nat) /\ Len(f4) = StringSize(m.text)
  <2>1. m.from \in CharString /\ m.subject \in CharString /\ m.text \in CharString
    BY DEF Message
  <2> QED
    BY <2>1, StringFieldHolds
<1>2. f3 \in Seq(Nat) /\ Len(f3) = 4 /\ f5 \in Seq(Nat) /\ Len(f5) = 4
  <2>1. m.subject_id \in Int /\ m.count \in Int
    BY LongModType DEF Message, Long
  <2> QED
    BY <2>1, OctetsNumber
<1>3. /\ b1 = Put(<< >>, f1) /\ b2 = Put(b1, f2) /\ b3 = Put(b2, f3)
      /\ b4 = Put(b3, f4) /\ b5 = Put(b4, f5)
  BY DEF PutFrom, PutSubject, PutSubjectId, PutText, PutMembers
<1> HIDE DEF b1, b2, b3, b4, b5, f1, f2, f3, f4, f5
<1>4. /\ b1 \in Seq(Nat) /\ Len(b1) = Len(f1) /\ Holds(b1, 0, f1)
  <2>1. << >> \in Seq(Nat) /\ Len(<< >>) = 0
    BY EmptySeq
  <2>2. /\ b1 \in Seq(Nat) /\ Len(b1) = Behind(<< >>) + Len(f1)
        /\ Holds(b1, Behind(<< >>), f1)
    BY <1>1, <1>3, <2>1, PutHolds DEF Behind
  <2>3. Behind(<< >>) = 0 /\ Len(f1) \in Nat
    BY <1>1, <2>1, PaddingType, LenProperties DEF Behind
  <2> QED
    BY <2>2, <2>3
<1>5. /\ b2 \in Seq(Nat) /\ Len(b2) = Behind(b1) + Len(f2) /\ Holds(b2, Behind(b1), f2)
      /\ Holds(b2, 0, f1)
  BY <1>1, <1>3, <1>4, PutHolds, PutKeeps DEF Behind
<1>6. /\ b3 \in Seq(Nat) /\ Len(b3) = Behind(b2) + Len(f3) /\ Holds(b3, Behind(b2), f3)
      /\ Holds(b3, 0, f1) /\ Holds(b3, Behind(b1), f2)
  BY <1>1, <1>2, <1>3, <1>5, PutHolds, PutKeeps DEF Behind
<1>7. /\ b4 \in Seq(Nat) /\ Len(b4) = Behind(b3) + Len(f4) /\ Holds(b4, Behind(b3), f4)
      /\ Holds(b4, 0, f1) /\ Holds(b4, Behind(b1), f2) /\ Holds(b4, Behind(b2), f3)
  BY <1>1, <1>2, <1>3, <1>6, PutHolds, PutKeeps DEF Behind
<1>8. /\ b5 \in Seq(Nat) /\ Len(b5) = Behind(b4) + Len(f5) /\ Holds(b5, Behind(b4), f5)
      /\ Holds(b5, 0, f1) /\ Holds(b5, Behind(b1), f2) /\ Holds(b5, Behind(b2), f3)
      /\ Holds(b5, Behind(b3), f4)
  BY <1>1, <1>2, <1>3, <1>7, PutHolds, PutKeeps DEF Behind
<1> QED
  BY <1>1, <1>2, <1>4, <1>5, <1>6, <1>7, <1>8 DEF b1, b2, b3, b4, b5, f1, f2, f3, f4, f5

\* A message whose size a payload can describe.
Encodable(m) == m \in Message /\ Len(PutMembers(m)) < LongMod

(* The lengths of its strings fit in their fields, too.                    *)
LEMMA EncodableStrings ==
  ASSUME NEW m, Encodable(m)
  PROVE  FitsLong(m.from) /\ FitsLong(m.subject) /\ FitsLong(m.text)
<1>1. ASSUME NEW s \in CharString, NEW at, Holds(PutMembers(m), at, StringField(s))
      PROVE  FitsLong(s)
  <2>1. Len(s) \in Nat /\ Len(PutMembers(m)) \in Nat /\ LongMod \in Nat /\ at \in Nat
    BY <1>1, Layout, LenProperties, LongModType DEF Encodable, CharString, Holds
  <2>2. Len(StringField(s)) = 4 + Len(s) + 1
    BY StringFieldHolds DEF StringSize
  <2>3. at + (4 + Len(s) + 1) <= Len(PutMembers(m))
    BY <1>1, <2>2 DEF Holds
  <2> QED
    BY <2>1, <2>3 DEF Encodable, FitsLong
<1>2. m.from \in CharString /\ m.subject \in CharString /\ m.text \in CharString
  BY DEF Encodable, Message
<1>3. /\ Holds(PutMembers(m), 0, StringField(m.from))
      /\ Holds(PutMembers(m), Behind(PutFrom(m)), StringField(m.subject))
      /\ Holds(PutMembers(m), Behind(PutSubjectId(m)), StringField(m.text))
  BY Layout DEF Encodable
<1> QED
  BY <1>1, <1>2, <1>3

(* What was put is read: the five members replace those of the object, and *)
(* the cursor is at the end.                                               *)
LEMMA MembersRead ==
  ASSUME NEW m, Encodable(m), NEW data \in Message
  PROVE  ReadMembers(PutMembers(m), Switch, data) = Cursor(Len(PutMembers(m)), m)
<1> DEFINE body == PutMembers(m)
           d1 == With(data, "from", m.from)
           d2 == With(d1, "subject", m.subject)
           d3 == With(d2, "subject_id", m.subject_id)
           d4 == With(d3, "text", m.text)
           d5 == With(d4, "count", m.count)
<1>1. /\ m \in Message
      /\ m.from \in CharString /\ m.subject \in CharString /\ m.text \in CharString
      /\ m.subject_id \in Long /\ m.count \in Long
      /\ FitsLong(m.from) /\ FitsLong(m.subject) /\ FitsLong(m.text)
  BY EncodableStrings DEF Encodable, Message
<1>2. d5 = m
  BY <1>1 DEF Message, With
<1>3. /\ Len(Switch) = 5
      /\ Switch[1] = Member("from", "string") /\ Switch[2] = Member("subject", "string")
      /\ Switch[3] = Member("subject_id", "long") /\ Switch[4] = Member("text", "string")
      /\ Switch[5] = Member("count", "long")
  BY DEF Switch
<1> DEFINE e1 == Len(PutFrom(m))
           e2 == Len(PutSubject(m))
           e3 == Len(PutSubjectId(m))
           e4 == Len(PutText(m))
           e5 == Len(PutMembers(m))
<1>4. /\ body \in Seq(Nat)
      /\ e1 = StringSize(m.from)
      /\ e2 = e1 + Padding(e1) + StringSize(m.subject)
      /\ e3 = e2 + Padding(e2) + 4
      /\ e4 = e3 + Padding(e3) + StringSize(m.text)
      /\ e5 = e4 + Padding(e4) + 4
      /\ Holds(body, 0, StringField(m.from))
      /\ Holds(body, e1 + Padding(e1), StringField(m.subject))
      /\ Holds(body, e2 + Padding(e2), Octets(m.subject_id))
      /\ Holds(body, e3 + Padding(e3), StringField(m.text))
      /\ Holds(body, e4 + Padding(e4), Octets(m.count))
  BY <1>1, Layout DEF Behind
<1>5. /\ StringSize(m.from) \in Nat /\ StringSize(m.subject) \in Nat
      /\ StringSize(m.text) \in Nat
  BY <1>1, LenProperties DEF StringSize, CharString
<1> HIDE DEF e1, e2, e3, e4, e5, d1, d2, d3, d4, d5, body
<1>6. /\ e1 \in Nat /\ e2 \in Nat /\ e3 \in Nat /\ e4 \in Nat /\ e5 \in Nat
      /\ 0 < e5 /\ e1 < e5 /\ e2 < e5 /\ e3 < e5 /\ e4 < e5
  <2>1. e1 \in Nat /\ Padding(e1) \in Nat
    BY <1>4, <1>5, PaddingType
  <2>2. e2 \in Nat /\ Padding(e2) \in Nat /\ e1 <= e2
    <3>1. e2 \in Nat /\ e1 <= e2
      BY <1>4, <1>5, <2>1
    <3> QED
      BY <3>1, PaddingType
  <2>3. e3 \in Nat /\ Padding(e3) \in Nat /\ e2 <= e3
    <3>1. e3 \in Nat /\ e2 <= e3
      BY <1>4, <2>2
    <3> QED
      BY <3>1, PaddingType
  <2>4. e4 \in Nat /\ Padding(e4) \in Nat /\ e3 <= e4
    <3>1. e4 \in Nat /\ e3 <= e4
      BY <1>4, <1>5, <2>3
    <3> QED
      BY <3>1, PaddingType
  <2>5. e5 \in Nat /\ e4 < e5
    BY <1>4, <2>4
  <2> QED
    BY <2>1, <2>2, <2>3, <2>4, <2>5
<1>7. e5 = Len(body)
  BY DEF e5, body
<1>8. /\ ReadMember(body, Cursor(0, data), Member("from", "string")) = Cursor(e1, d1)
      /\ ReadMember(body, Cursor(e1, d1), Member("subject", "string")) = Cursor(e2, d2)
      /\ ReadMember(body, Cursor(e3, d3), Member("text", "string")) = Cursor(e4, d4)
  <2>1. ReadMember(body, Cursor(0, data), Member("from", "string")) =
          Cursor(0 + Padding(0) + StringSize(m.from), d1)
    <3>1. 0 + Padding(0) = 0
      BY PaddingType
    <3> QED
      BY <1>1, <1>4, <1>6, <1>7, <3>1, StringRead DEF d1
  <2>2. ReadMember(body, Cursor(e1, d1), Member("subject", "string")) =
          Cursor(e1 + Padding(e1) + StringSize(m.subject), d2)
    BY <1>1, <1>4, <1>6, <1>7, StringRead DEF d2
  <2>3. ReadMember(body, Cursor(e3, d3), Member("text", "string")) =
          Cursor(e3 + Padding(e3) + StringSize(m.text), d4)
    BY <1>1, <1>4, <1>6, <1>7, StringRead DEF d4
  <2>4. 0 + Padding(0) + StringSize(m.from) = e1
    BY <1>4, <1>5, PaddingType
  <2> QED
    BY <1>4, <2>1, <2>2, <2>3, <2>4
<1>9. /\ ReadMember(body, Cursor(e2, d2), Member("subject_id", "long")) = Cursor(e3, d3)
      /\ ReadMember(body, Cursor(e4, d4), Member("count", "long")) = Cursor(e5, d5)
  <2>1. ReadMember(body, Cursor(e2, d2), Member("subject_id", "long")) =
          Cursor(e2 + Padding(e2) + 4, d3)
    BY <1>1, <1>4, <1>6, <1>7, LongRead DEF d3
  <2>2. ReadMember(body, Cursor(e4, d4), Member("count", "long")) =
          Cursor(e4 + Padding(e4) + 4, d5)
    BY <1>1, <1>4, <1>6, <1>7, LongRead DEF d5
  <2> QED
    BY <1>4, <2>1, <2>2
<1>10. Start(data) = Cursor(0, data)
  BY DEF Start, Cursor
<1>11. ReadMembers(body, Switch, data) = Cursor(e5, d5)
  BY <1>3, <1>8, <1>9, <1>10, FiveMembers
<1> QED
  BY <1>2, <1>11 DEF e5, body
-----------------------------------------------------------------------------
(* The whole payload.                                                      *)

(* The announced size is that of the payload, padding included.            *)
LEMMA SizeExact ==
  ASSUME NEW representation \in Representations, NEW m \in Message
  PROVE  calculate_serialized_size(representation, m) =
           4 + Len(Encoded(representation, m))
<1> DEFINE d == DelimiterSize(representation)
           e1 == Len(PutFrom(m))
           e2 == Len(PutSubject(m))
           e3 == Len(PutSubjectId(m))
           e4 == Len(PutText(m))
           e5 == Len(PutMembers(m))
           s1 == StringSize(m.from)
           s2 == StringSize(m.subject)
           s4 == StringSize(m.text)
<1>1. d \in {0, 4}
  BY DEF DelimiterSize
<1>2. s1 \in Nat /\ s2 \in Nat /\ s4 \in Nat
  BY LenProperties DEF StringSize, CharString, Message
<1>3. /\ e1 = s1 /\ e2 = e1 + Padding(e1) + s2 /\ e3 = e2 + Padding(e2) + 4
      /\ e4 = e3 + Padding(e3) + s4 /\ e5 = e4 + Padding(e4) + 4
  BY Layout DEF Behind
<1>4. ASSUME NEW at \in Nat
      PROVE  Padding(at) \in Nat /\ Padding(d + at) = Padding(at) /\ Padding(d) = 0
  BY <1>1, <1>4 DEF Padding
<1>5. calculate_serialized_size(representation, m) =
        After(After(After(After(After(d, s1), s2), 4), s4), 4) + 4
  BY DEF calculate_serialized_size
<1>6. Len(Encoded(representation, m)) = d + e5
  <2>1. PutMembers(m) \in Seq(Nat) /\ e5 \in Nat
    BY Layout, LenProperties
  <2>2. CASE representation = "XCDR2"
    <3>1. Octets(e5) \in Seq(Nat) /\ Len(Octets(e5)) = 4
      <4>1. e5 \in Int
        BY <2>1
      <4> QED
        BY <4>1, OctetsNumber
    <3>2. Len(Octets(e5) \o PutMembers(m)) = 4 + e5
      BY <2>1, <3>1, ConcatHolds
    <3> QED
      BY <2>2, <3>2 DEF Encoded, DelimiterSize
  <2>3. CASE representation # "XCDR2"
    BY <2>1, <2>3 DEF Encoded, DelimiterSize
  <2> QED
    BY <2>2, <2>3
<1> HIDE DEF d, e1, e2, e3, e4, e5, s1, s2, s4
<1>7. After(d, s1) = d + e1 /\ e1 \in Nat
  BY <1>1, <1>2, <1>3, <1>4 DEF After
<1>8. After(d + e1, s2) = d + e2 /\ e2 \in Nat
  BY <1>1, <1>2, <1>3, <1>4, <1>7 DEF After
<1>9. After(d + e2, 4) = d + e3 /\ e3 \in Nat
  BY <1>1, <1>3, <1>4, <1>8 DEF After
<1>10. After(d + e3, s4) = d + e4 /\ e4 \in Nat
  BY <1>1, <1>2, <1>3, <1>4, <1>9 DEF After
<1>11. After(d + e4, 4) = d + e5 /\ e5 \in Nat
  BY <1>1, <1>3, <1>4, <1>10 DEF After
<1> QED
  BY <1>1, <1>5, <1>6, <1>7, <1>8, <1>9, <1>10, <1>11

\* The payload that Fast DDS is given of a message.
PayloadOfMessage(representation, m) ==
  serialize(representation, m, calculate_serialized_size(representation, m))

(* serialize() never runs out of the memory that was allocated for it.     *)
THEOREM NeverRefused ==
  ASSUME NEW representation \in Representations, NEW m \in Message
  PROVE  PayloadOfMessage(representation, m) =
           [representation |-> representation, octets |-> Encoded(representation, m)]
<1> DEFINE payload == [representation |-> representation,
                       octets |-> Encoded(representation, m)]
           size == calculate_serialized_size(representation, m)
<1>1. PayloadLength(payload) = size
  BY SizeExact DEF PayloadLength
<1>2. size \in Int
  <2>1. Encoded(representation, m) \in Seq(Nat)
    <3>1. PutMembers(m) \in Seq(Nat) /\ Len(PutMembers(m)) \in Int
      BY Layout, LenProperties
    <3>2. Octets(Len(PutMembers(m))) \in Seq(Nat)
      BY <3>1, OctetsNumber
    <3> QED
      BY <3>1, <3>2, ConcatHolds DEF Encoded
  <2>2. Len(Encoded(representation, m)) \in Nat
    BY <2>1, LenProperties
  <2> QED
    BY <2>2, SizeExact
<1>3. PayloadLength(payload) <= size
  BY <1>1, <1>2
<1> QED
  BY <1>3 DEF PayloadOfMessage, serialize

(* What was sent is what is received: every member of every message, in    *)
(* both representations, whatever the receiving object held before.        *)
THEOREM RoundTrip ==
  ASSUME NEW representation \in Representations, NEW m, Encodable(m), NEW data \in Message
  PROVE  deserialize(PayloadOfMessage(representation, m), data) =
           Cursor(Len(PutMembers(m)), m)
<1> DEFINE body == PutMembers(m)
           octets == Encoded(representation, m)
           payload == [representation |-> representation, octets |-> octets]
           delimited == SubSeq(octets, 5, 4 + NumberAt(octets, 0))
<1>1. PayloadOfMessage(representation, m) = payload
  BY NeverRefused DEF Encodable
<1>2. body \in Seq(Nat) /\ Len(body) \in 0 .. LongMod - 1
  BY Layout, LenProperties, LongModType DEF Encodable
<1>3. ReadMembers(body, Switch, data) = Cursor(Len(body), m)
  BY MembersRead
<1>4. CASE representation = "XCDR"
  <2>1. octets = body
    BY <1>4 DEF Encoded
  <2>2. deserialize(payload, data) = ReadMembers(octets, Switch, data)
    BY <1>4 DEF deserialize, Decode
  <2> QED
    BY <1>1, <1>3, <2>1, <2>2
<1>5. CASE representation = "XCDR2"
  <2>1. octets = Octets(Len(body)) \o body
    BY <1>5 DEF Encoded
  <2>2. /\ Octets(Len(body)) \in Seq(Nat) /\ Len(Octets(Len(body))) = 4
    <3>1. Len(body) \in Int
      BY <1>2
    <3> QED
      BY <3>1, OctetsNumber
  <2>3. /\ octets \in Seq(Nat) /\ Len(octets) = 4 + Len(body)
        /\ Holds(octets, 0, Octets(Len(body))) /\ Holds(octets, 4, body)
    BY <1>2, <2>1, <2>2, ConcatHolds
  <2>4. NumberAt(octets, 0) = Len(body)
    <3>1. Len(body) \in Int
      BY <1>2
    <3>2. NumberAt(octets, 0) = Len(body) % LongMod
      BY <2>3, <3>1, NumberRead
    <3> QED
      BY <1>2, <3>2, SmallMod
  <2>5. SubSeq(octets, 5, 4 + Len(body)) = body
    <3> HIDE DEF octets, body
    <3>1. \A i \in 5 .. 4 + Len(body) : octets[i] \in Nat
      BY <1>2, <2>3, ElementOfSeq
    <3>2. /\ SubSeq(octets, 5, 4 + Len(body)) \in Seq(Nat)
          /\ Len(SubSeq(octets, 5, 4 + Len(body))) = Len(body)
          /\ \A i \in 1 .. Len(body) : SubSeq(octets, 5, 4 + Len(body))[i] = octets[5 + i - 1]
      <4>1. 5 \in Int /\ 4 + Len(body) \in Int /\ 4 + Len(body) - 5 + 1 = Len(body)
            /\ (5 <= 4 + Len(body) \/ Len(body) = 0)
        BY <1>2
      <4>2. /\ SubSeq(octets, 5, 4 + Len(body)) \in Seq(Nat)
            /\ Len(SubSeq(octets, 5, 4 + Len(body))) =
                 IF 5 <= 4 + Len(body) THEN 4 + Len(body) - 5 + 1 ELSE 0
            /\ \A i \in 1 .. 4 + Len(body) - 5 + 1 :
                 SubSeq(octets, 5, 4 + Len(body))[i] = octets[5 + i - 1]
        BY <3>1, <4>1, SubSeqProperties
      <4> QED
        BY <1>2, <4>1, <4>2
    <3>3. \A i \in 1 .. Len(body) : octets[5 + i - 1] = body[i]
      <4> SUFFICES ASSUME NEW i \in 1 .. Len(body)
                   PROVE  octets[5 + i - 1] = body[i]
        OBVIOUS
      <4>1. 5 + i - 1 = 4 + i
        BY <1>2
      <4> QED
        BY <2>3, <4>1 DEF Holds
    <3>4. \A i \in 1 .. Len(body) : SubSeq(octets, 5, 4 + Len(body))[i] = body[i]
      BY <3>2, <3>3
    <3> QED
      BY <1>2, <3>2, <3>4, SeqEqual
  <2>6. deserialize(payload, data) = ReadMembers(delimited, Switch, data)
    BY <1>5 DEF deserialize, Decode
  <2> QED
    BY <1>1, <1>3, <2>4, <2>5, <2>6
<1> QED
  BY <1>4, <1>5 DEF Representations

(* No two messages share a payload.                                        *)
THEOREM PayloadsDiffer ==
  ASSUME NEW representation \in Representations,
         NEW m, Encodable(m), NEW n, Encodable(n),
         PayloadOfMessage(representation, m) = PayloadOfMessage(representation, n)
  PROVE  m = n
<1>1. m \in Message
  BY DEF Encodable
<1>2. deserialize(PayloadOfMessage(representation, m), m) = Cursor(Len(PutMembers(m)), m)
  BY Zenon, <1>1, RoundTrip
<1>3. deserialize(PayloadOfMessage(representation, n), m) = Cursor(Len(PutMembers(n)), n)
  BY Zenon, <1>1, RoundTrip
<1>4. Cursor(Len(PutMembers(m)), m) = Cursor(Len(PutMembers(n)), n)
  BY Zenon, <1>2, <1>3
<1>5. /\ Cursor(Len(PutMembers(m)), m).data = m
      /\ Cursor(Len(PutMembers(n)), n).data = n
  BY Zenon, CursorFields
<1> QED
  BY Zenon, <1>4, <1>5
-----------------------------------------------------------------------------
(* The key.                                                                *)

(* A function on an initial segment is a sequence of that length.          *)
LEMMA LengthOfFunction ==
  ASSUME NEW S, NEW n \in Nat, NEW f \in [1 .. n -> S]
  PROVE  f \in Seq(S) /\ Len(f) = n
BY SeqDef, LenProperties

(* Four octets tell any two longs apart, the most significant one first.   *)
LEMMA BigEndianDiffers ==
  ASSUME NEW a \in Long, NEW b \in Long
  PROVE  /\ BigEndian(a) \in Seq(Nat) /\ Len(BigEndian(a)) = 4
         /\ BigEndian(a) = BigEndian(b) => a = b
<1>1. a \in Int /\ b \in Int
  BY DEF Long
<1>2. /\ Octets(a) \in Seq(Nat) /\ Len(Octets(a)) = 4
      /\ Octets(a)[1] + Byte * (Octets(a)[2] + Byte * (Octets(a)[3] + Byte * Octets(a)[4]))
           = a % LongMod
  BY <1>1, OctetsNumber
<1>3. Octets(b)[1] + Byte * (Octets(b)[2] + Byte * (Octets(b)[3] + Byte * Octets(b)[4]))
        = b % LongMod
  BY <1>1, OctetsNumber
<1>4. /\ BigEndian(a)[1] = Octets(a)[4] /\ BigEndian(b)[1] = Octets(b)[4]
      /\ BigEndian(a)[2] = Octets(a)[3] /\ BigEndian(b)[2] = Octets(b)[3]
      /\ BigEndian(a)[3] = Octets(a)[2] /\ BigEndian(b)[3] = Octets(b)[2]
      /\ BigEndian(a)[4] = Octets(a)[1] /\ BigEndian(b)[4] = Octets(b)[1]
  BY DEF BigEndian
<1>5. BigEndian(a) \in Seq(Nat) /\ Len(BigEndian(a)) = 4
  <2>1. \A i \in 1 .. 4 : 5 - i \in 1 .. 4
    OBVIOUS
  <2>2. \A i \in 1 .. 4 : Octets(a)[5 - i] \in Nat
    BY <1>2, <2>1, ElementOfSeq
  <2>3. BigEndian(a) \in [1 .. 4 -> Nat]
    BY <2>2 DEF BigEndian
  <2> QED
    BY Zenon, <2>3, LengthOfFunction, 4 \in Nat
<1>6. ASSUME BigEndian(a) = BigEndian(b) PROVE a = b
  <2>1. a % LongMod = b % LongMod
    BY Zenon, <1>2, <1>3, <1>4, <1>6
  <2>2. Signed(a % LongMod) = a /\ Signed(b % LongMod) = b
    BY SignedMod
  <2> QED
    BY Zenon, <2>1, <2>2
<1> QED
  BY <1>5, <1>6

(* Fast DDS tells instances apart as the IDL says, by subject_id and by    *)
(* nothing else: the key that the writer computes of one message and the   *)
(* one that a reader finds in the payload of another agree just when their *)
(* subject_id does, zeros behind the key included.                         *)
THEOREM KeyIsSubjectId ==
  ASSUME NEW representation \in Representations, NEW force_md5 \in BOOLEAN,
         NEW m, Encodable(m), NEW n, Encodable(n)
  PROVE  compute_key(m, force_md5)
             = compute_key_of_payload(PayloadOfMessage(representation, n), force_md5)
           <=> m.subject_id = n.subject_id
<1> DEFINE value(d) == IF force_md5 THEN KeyOf(d) ELSE KeyOf(d) \o Zeros(12)
<1>1. /\ deserialize(PayloadOfMessage(representation, n), NoMessage).data = n
      /\ deserialize(PayloadOfMessage(representation, n), NoMessage).ok = TRUE
  <2>1. NoMessage \in Message
    <3>1. << >> \in CharString
      BY EmptySeq DEF CharString
    <3>2. 0 \in Long
      BY LongModType DEF Long
    <3> QED
      BY <3>1, <3>2 DEF NoMessage, Message
  <2>2. deserialize(PayloadOfMessage(representation, n), NoMessage)
          = Cursor(Len(PutMembers(n)), n)
    BY Zenon, <2>1, RoundTrip
  <2> QED
    BY <2>2 DEF Cursor
<1>2. compute_key_of_payload(PayloadOfMessage(representation, n), force_md5)
        = compute_key(n, force_md5)
  BY Zenon, <1>1 DEF compute_key_of_payload
<1>3. m.subject_id \in Long /\ n.subject_id \in Long
  BY DEF Encodable, Message
<1>4. compute_key(m, force_md5) = compute_key(n, force_md5) <=> value(m) = value(n)
  BY DEF compute_key
<1>5. m.subject_id = n.subject_id => value(m) = value(n)
  BY Zenon DEF KeyOf
<1>6. ASSUME value(m) = value(n) PROVE KeyOf(m) = KeyOf(n)
  <2>1. /\ KeyOf(m) \in Seq(Nat) /\ Len(KeyOf(m)) = 4
        /\ KeyOf(n) \in Seq(Nat) /\ Len(KeyOf(n)) = 4
    BY Zenon, <1>3, BigEndianDiffers DEF KeyOf
  <2>2. CASE force_md5
    BY <1>6, <2>2
  <2>3. CASE ~force_md5
    <3> DEFINE k == KeyOf(m)
               l == KeyOf(n)
    <3>1. k \o Zeros(12) = l \o Zeros(12)
      BY <1>6, <2>3
    <3>2. k \in Seq(Nat) /\ l \in Seq(Nat) /\ Len(k) = 4 /\ Len(l) = 4
      BY <2>1
    <3>3. Zeros(12) \in Seq(Nat)
      BY ZerosType
    <3> HIDE DEF k, l
    <3>4. /\ \A j \in 1 .. Len(k) : (k \o Zeros(12))[0 + j] = k[j]
          /\ \A j \in 1 .. Len(l) : (l \o Zeros(12))[0 + j] = l[j]
      BY Zenon, <3>2, <3>3, ConcatHolds DEF Holds
    <3>5. \A j \in 1 .. 4 : k[j] = l[j]
      BY Zenon, <3>1, <3>2, <3>4
    <3>6. k = l
      BY <3>2, <3>5, SeqEqual
    <3> QED
      BY <3>6 DEF k, l
  <2> QED
    BY <2>2, <2>3
<1>7. KeyOf(m) = KeyOf(n) => m.subject_id = n.subject_id
  BY Zenon, <1>3, BigEndianDiffers DEF KeyOf
<1> QED
  BY Zenon, <1>2, <1>4, <1>5, <1>6, <1>7

(* A field starts at the next multiple of four.                            *)
LEMMA AfterSplit ==
  ASSUME NEW at \in Nat, NEW size \in Nat
  PROVE  \E q \in Nat : After(at, size) = 4 * q + size /\ 4 * q <= at + 3
<1> DEFINE q == (at + Padding(at)) \div 4
<1>1. Padding(at) \in 0 .. 3
  BY PaddingType
<1>2. (at + Padding(at)) % 4 = 0
  <2>1. CASE at % 4 = 0
    BY <2>1 DEF Padding
  <2>2. CASE at % 4 # 0
    <3>1. at % 4 \in 1 .. 3
      BY <2>2
    <3>2. Padding(at) = 4 - (at % 4)
      BY <3>1 DEF Padding
    <3> QED
      BY <3>1, <3>2
  <2> QED
    BY <2>1, <2>2
<1>3. q \in Nat /\ at + Padding(at) = 4 * q
  <2>1. \A u \in Nat : u % 4 = 0 => u \div 4 \in Nat /\ u = 4 * (u \div 4)
    OBVIOUS
  <2>2. at + Padding(at) \in Nat
    BY <1>1
  <2> QED
    BY Zenon, <1>2, <2>1, <2>2
<1> HIDE DEF q
<1>4. After(at, size) = 4 * q + size /\ 4 * q <= at + 3
  BY <1>1, <1>3 DEF After
<1> QED
  BY <1>3, <1>4

\* The sizes of a string of at most 255 characters, and of such a message.
StringSizes == 0 .. 260
MessageSizes == 0 .. max_serialized_type_size

(* Three strings of limited size, two numbers and the delimiter.           *)
LEMMA BoundedSize ==
  ASSUME NEW d \in {0, 4},
         NEW from \in StringSizes, NEW subject \in StringSizes, NEW text \in StringSizes
  PROVE  After(After(After(After(After(d, from), subject), 4), text), 4) + 4
           \in MessageSizes
<1> DEFINE e1 == After(d, from)
           e2 == After(e1, subject)
           e3 == After(e2, 4)
           e4 == After(e3, text)
           e5 == After(e4, 4)
<1>0. /\ d \in Nat /\ from \in Nat /\ subject \in Nat /\ text \in Nat /\ 4 \in Nat
      /\ d <= 4 /\ from <= 260 /\ subject <= 260 /\ text <= 260
  BY DEF StringSizes
<1>1. e1 \in 0 .. 264
  <2>1. PICK q \in Nat : e1 = 4 * q + from /\ 4 * q <= d + 3
    BY Zenon, <1>0, AfterSplit
  <2> QED
    BY <1>0, <1>0, <2>1
<1> HIDE DEF e1
<1>2. e2 \in 0 .. 524
  <2>1. PICK q \in Nat : e2 = 4 * q + subject /\ 4 * q <= e1 + 3
    <3>1. e1 \in Nat
      BY <1>1
    <3> QED
      BY Zenon, <1>0, <3>1, AfterSplit
  <2> QED
    BY <1>0, <1>1, <2>1
<1> HIDE DEF e2
<1>3. e3 \in 0 .. 528
  <2>1. PICK q \in Nat : e3 = 4 * q + 4 /\ 4 * q <= e2 + 3
    <3>1. e2 \in Nat
      BY <1>2
    <3> QED
      BY Zenon, <1>0, <3>1, AfterSplit
  <2> QED
    BY <1>0, <1>2, <2>1
<1> HIDE DEF e3
<1>4. e4 \in 0 .. 788
  <2>1. PICK q \in Nat : e4 = 4 * q + text /\ 4 * q <= e3 + 3
    <3>1. e3 \in Nat
      BY <1>3
    <3> QED
      BY Zenon, <1>0, <3>1, AfterSplit
  <2> QED
    BY <1>0, <1>3, <2>1
<1> HIDE DEF e4
<1>5. e5 \in 0 .. 792
  <2>1. PICK q \in Nat : e5 = 4 * q + 4 /\ 4 * q <= e4 + 3
    <3>1. e4 \in Nat
      BY <1>4
    <3> QED
      BY Zenon, <1>0, <3>1, AfterSplit
  <2> QED
    BY <1>0, <1>4, <2>1
<1> HIDE DEF e5
<1>6. e5 + 4 \in 0 .. 796
  BY <1>5
<1>7. 0 .. 796 = MessageSizes
  BY DEF MessageSizes, max_serialized_type_size, max_cdr_typesize, Padding
<1> QED
  BY Zenon, <1>6, <1>7 DEF e1, e2, e3, e4, e5

(* The field of a string of at most 255 characters.                        *)
LEMMA BoundedString ==
  ASSUME NEW s, Len(s) \in 0 .. 255
  PROVE  StringSize(s) \in StringSizes
<1>1. \A n \in 0 .. 255 : 4 + n + 1 \in StringSizes
  BY DEF StringSizes
<1> QED
  BY Zenon, <1>1 DEF StringSize

(* The bound of 792 octets that the type announces holds for strings of at *)
(* most 255 characters, in both representations; nothing in the type keeps *)
(* a string from being longer.                                             *)
THEOREM MaxSizeHolds ==
  ASSUME NEW representation \in Representations, NEW m \in Message,
         Len(m.from) \in 0 .. 255, Len(m.subject) \in 0 .. 255, Len(m.text) \in 0 .. 255
  PROVE  calculate_serialized_size(representation, m) \in 0 .. max_serialized_type_size
<1> DEFINE d == DelimiterSize(representation)
           from == StringSize(m.from)
           subject == StringSize(m.subject)
           text == StringSize(m.text)
<1>1. d \in {0, 4}
  BY Zenon DEF DelimiterSize
<1>2. from \in StringSizes /\ subject \in StringSizes /\ text \in StringSizes
  BY Zenon, BoundedString
<1>3. calculate_serialized_size(representation, m) =
        After(After(After(After(After(d, from), subject), 4), text), 4) + 4
  BY DEF calculate_serialized_size
<1> HIDE DEF d, from, subject, text
<1>4. calculate_serialized_size(representation, m) \in MessageSizes
  <2>1. After(After(After(After(After(d, from), subject), 4), text), 4) + 4 \in MessageSizes
    BY Zenon, <1>1, <1>2, BoundedSize
  <2> QED
    BY Zenon, <1>3, <2>1
<1> QED
  BY Zenon, <1>4 DEF MessageSizes
=============================================================================
