----------------------------- MODULE MCWaitList -----------------------------
(***************************************************************************)
(* Constants for TLC: one block for each thread, so that a waiter always   *)
(* finds one that is dead.                                                 *)
(***************************************************************************)
EXTENDS WaitList, TLC

CONSTANTS v1, t1, t2, w1, b1, b2, b3, nil

OneVar == {v1}
TwoWaiters == {t1, t2}
OneWaker == {w1}
ThreeBlocks == {b1, b2, b3}
=============================================================================
