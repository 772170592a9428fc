------------------------------ MODULE MCShapes ------------------------------
(***************************************************************************)
(* Shapes with one object, or with one that inherits from another.        *)
(***************************************************************************)
EXTENDS Shapes, TLC

MCPrototype ==
    [o \in Objects |-> IF o = "instance" /\ "proto" \in Objects THEN "proto" ELSE None]
SymmetricKeys == Permutations(Keys)
Symmetric == Permutations(Keys) \cup Permutations(Values)
=============================================================================
