--------------------------- MODULE SampledStream ---------------------------
(***************************************************************************)
(* What a consumer of the shared coordinate promises, whatever transport   *)
(* it feeds: it forwards a sub-stream of the generated coordinates, each   *)
(* at most once, in the order of generation, and none that was not         *)
(* generated.  It may skip coordinates, since it samples a slower clock.   *)
(***************************************************************************)
EXTENDS Naturals, Sequences

VARIABLES
  produced,   \* ordinal of the last coordinate stored in the shared state
  emitted     \* the coordinates forwarded so far, by ordinal

Newest == IF emitted = << >> THEN 0 ELSE emitted[Len(emitted)]

Init == produced = 0 /\ emitted = << >>

Produce == produced' = produced + 1 /\ UNCHANGED emitted

Emit ==
  /\ \E fix \in Newest + 1 .. produced : emitted' = Append(emitted, fix)
  /\ UNCHANGED produced

Next == Produce \/ Emit

Spec == Init /\ [][Next]_<<produced, emitted>>
=============================================================================
