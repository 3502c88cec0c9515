----------------------------- MODULE MCDecoder -----------------------------
(* Instances of Decoder for TLC. *)
EXTENDS Decoder, TLC

CONSTANTS x1, p1, p2

Terrestrial == [x \in Transponder |-> 22]

(* With one section the programs of a PAT are interchangeable. *)
ProgramSymmetry == Permutations({p1, p2})

OneSection   == [p \in Program |-> 0]
TwoSections  == [p \in Program |-> IF p = p1 THEN 0 ELSE 1]
=============================================================================
