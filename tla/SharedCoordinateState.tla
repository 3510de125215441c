----------------------- MODULE SharedCoordinateState -----------------------
(***************************************************************************)
(* The one-slot buffer between the coordinate producer and its consumers   *)
(* (src/src/SharedCoordinateState.hpp).  latest_ points to an immutable    *)
(* CoordinateData and every operation copies that pointer inside one       *)
(* critical section of the buffer's own mutex, so each is one step here.   *)
(*                                                                         *)
(* Longitude, latitude and timestamp are abstracted to "fix", the ordinal  *)
(* of the generated coordinate they come from (0: the default constructor);*)
(* the uint32_t sequence number keeps its wrap-around.                     *)
(***************************************************************************)
EXTENDS Integers

CONSTANTS
  SeqMod,     \* number of values of the unsigned sequence counter (2^32 in the code)
  MaxTicks    \* bound: coordinates generated in a modelled execution

ASSUME SharedStateAssumption ==
  /\ SeqMod \in Nat /\ SeqMod > 1
  /\ MaxTicks \in Nat

VARIABLE latest_

Sequence == 0 .. SeqMod - 1

CoordinateData == [fix : Nat, sequence : Sequence]

NoCoordinate == [fix |-> 0, sequence |-> 0]

SharedStateInit == latest_ = NoCoordinate

update(fix, sequence) == latest_' = [fix |-> fix, sequence |-> sequence]

get_latest == latest_

has_data == latest_.sequence > 0

\* Mutant: the counter does not wrap.
SuccessorUnbounded(s) == s + 1

\* sequence_.fetch_add(1) + 1 in unsigned arithmetic.
Successor(s) == IF s + 1 = SeqMod THEN 0 ELSE s + 1

\* Mutant: the conversion keeps a number that does not fit at the greatest that does.
ToSignedSaturates(s) == IF 2 * s < SeqMod THEN s ELSE (SeqMod - 1) \div 2

\* The implicit conversion of the unsigned sequence to the signed IDL "long".
ToSigned(s) == IF 2 * s < SeqMod THEN s ELSE s - SeqMod
=============================================================================
