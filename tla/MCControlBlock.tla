--------------------------- MODULE MCControlBlock ---------------------------
(***************************************************************************)
(* Constants for TLC: three wakers, and one block more than they can hold. *)
(***************************************************************************)
EXTENDS ControlBlock, TLC

CONSTANTS w1, w2, w3, b1, b2, b3, b4, owner, nil

ThreeWakers == {w1, w2, w3}
FourBlocks == {b1, b2, b3, b4}
=============================================================================
