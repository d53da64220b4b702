-------------------------------- MODULE Latch --------------------------------
(***************************************************************************)
(* What a ControlBlock promises its thread: a wait ends if, and only if,   *)
(* this very block has been set to changed, no matter when that happens    *)
(* and what else the thread is woken by.                                   *)
(***************************************************************************)

VARIABLES phase,   \* of the thread: "out", "in" wait_for_change, "waiting"
          set      \* its block has been set to changed

vars == <<phase, set>>

TypeOK == phase \in {"out", "in", "waiting"} /\ set \in BOOLEAN

Init == phase = "out" /\ set = FALSE

Arm ==
  /\ phase = "out"
  /\ phase' = "in" /\ set' = FALSE

Set ==
  /\ phase # "out"
  /\ set' = TRUE /\ UNCHANGED phase

Wait ==
  /\ phase = "in"
  /\ phase' = "waiting" /\ UNCHANGED set

\* Leave without waiting: a value has changed already.
Skip ==
  /\ phase = "in"
  /\ phase' = "out" /\ set' = FALSE

Return ==
  /\ phase = "waiting" /\ set
  /\ phase' = "out" /\ set' = FALSE

Next == Arm \/ Set \/ Wait \/ Skip \/ Return

\* A thread that waits on a block that is set returns.
Returns == phase = "waiting" /\ set ~> phase = "out"

Spec == Init /\ [][Next]_vars /\ Returns
=============================================================================
