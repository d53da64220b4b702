---------------------------- MODULE Notification ----------------------------
(***************************************************************************)
(* What waiting lists promise: a control block that is registered with a   *)
(* TVar stays so until it dies or the TVar is announced as changed; whoever *)
(* announces it owes a signal to each block that was registered, and every *)
(* signal that is owed is given.                                           *)
(***************************************************************************)

CONSTANTS Block,    \* control blocks
          Var,      \* TVars
          Waker     \* those who announce changes

VARIABLES alive,       \* the blocks whose owner is in wait_for_change
          signalled,   \* those of them that have been told of a change
          registered,  \* registered[x]: the blocks to tell of changes of x
          owed         \* owed[w]: the blocks w still has to tell

vars == <<alive, signalled, registered, owed>>

TypeOK ==
  /\ alive \in SUBSET Block
  /\ signalled \in SUBSET Block
  /\ registered \in [Var -> SUBSET Block]
  /\ owed \in [Waker -> SUBSET Block]

Init ==
  /\ alive = {} /\ signalled = {}
  /\ registered = [x \in Var |-> {}]
  /\ owed = [w \in Waker |-> {}]

Arm(b) ==
  /\ b \notin alive
  /\ alive' = alive \cup {b}
  /\ UNCHANGED <<signalled, registered, owed>>

Register(b, x) ==
  /\ b \in alive
  /\ registered' = [registered EXCEPT ![x] = @ \cup {b}]
  /\ UNCHANGED <<alive, signalled, owed>>

\* x has changed: the one step in which w takes over all that are registered.
Announce(w, x) ==
  /\ owed[w] = {}
  /\ owed' = [owed EXCEPT ![w] = registered[x]]
  /\ registered' = [registered EXCEPT ![x] = {}]
  /\ UNCHANGED <<alive, signalled>>

Signal(w, b) ==
  /\ b \in owed[w]
  /\ owed' = [owed EXCEPT ![w] = @ \ {b}]
  /\ signalled' = signalled \cup {b}
  /\ UNCHANGED <<alive, registered>>

\* The owner of b has left wait_for_change: nobody has to tell it anything.
Die(b) ==
  /\ b \in alive
  /\ alive' = alive \ {b}
  /\ signalled' = signalled \ {b}
  /\ registered' = [x \in Var |-> registered[x] \ {b}]
  /\ owed' = [w \in Waker |-> owed[w] \ {b}]

Next ==
  \/ \E b \in Block : Arm(b) \/ Die(b) \/ \E x \in Var : Register(b, x)
  \/ \E w \in Waker : \/ \E x \in Var : Announce(w, x)
                      \/ \E b \in Block : Signal(w, b)

Spec == Init /\ [][Next]_vars
=============================================================================
