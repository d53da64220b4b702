---------------------------- MODULE MCRegisters -----------------------------
(***************************************************************************)
(* Constants for TLC: three TVars and as many addresses, so that one is    *)
(* free whenever a control block has died.                                 *)
(***************************************************************************)
EXTENDS Registers, TLC

CONSTANTS v1, v2, v3, a1, a2, a3, nil

ThreeTVars == {v1, v2, v3}
ThreeAddrs == {a1, a2, a3}

Symmetric == Permutations(TVar) \cup Permutations(Addr)
=============================================================================
