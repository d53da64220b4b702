------------------------------ MODULE WaitList ------------------------------
(***************************************************************************)
(* The waiting lists of the TVars (tvar.rs): waiting_threads, with weak    *)
(* references to ControlBlocks that die at any time, and dead_threads, the *)
(* counter that makes set_dead clean a list up now and then.               *)
(*                                                                         *)
(* Waiters run wait_for_change, wakers wake_all; which TVars they call it  *)
(* on, and what a waiter finds there, is left open.                        *)
(***************************************************************************)
EXTENDS Naturals, FiniteSets

CONSTANTS Var,        \* TVars
          Waiter,     \* threads in wait_for_change
          Waker,      \* threads in wake_all
          Block,      \* ControlBlocks; one that is dead is used again
          DeadLimit,  \* the 64 of set_dead
          Nil         \* no thread, no block

ASSUME WaitListAssumption ==
  /\ DeadLimit \in Nat
  /\ Waiter \cap Waker = {}
  /\ Nil \notin Waiter \cup Waker \cup Block

VARIABLES
  \* VarControlBlock, by TVar
  waiting_threads,  \* the blocks in the list that are alive
  garbage,          \* how many entries are left of dead ones
  dead_threads,
  mutex,            \* the waiter that holds the list's mutex, or Nil
  \* Waiters
  pc,
  ctrl,             \* its block, or Nil
  reads,            \* the TVars it has registered with
  todo,             \* the TVars it has left to call wait or set_dead on
  at,               \* the TVar it is cleaning up
  \* Wakers
  taken,            \* blocks that are alive in the list it took
  held,             \* the one it has upgraded, or Nil
  \* ControlBlocks
  blocked

listVars == <<waiting_threads, garbage, dead_threads, mutex>>
waiterVars == <<pc, ctrl, reads, todo, at>>
wakerVars == <<taken, held>>
vars == <<waiting_threads, garbage, dead_threads, mutex, pc, ctrl, reads, todo, at,
          taken, held, blocked>>

TypeOK ==
  /\ waiting_threads \in [Var -> SUBSET Block]
  /\ garbage \in [Var -> Nat]
  /\ dead_threads \in [Var -> Nat]
  /\ mutex \in [Var -> Waiter \cup {Nil}]
  /\ pc \in [Waiter -> {"run", "register", "blocked", "dead", "lock", "reset",
                        "retain", "unlock"}]
  /\ ctrl \in [Waiter -> Block \cup {Nil}]
  /\ reads \in [Waiter -> SUBSET Var]
  /\ todo \in [Waiter -> SUBSET Var]
  /\ at \in [Waiter -> Var \cup {Nil}]
  /\ taken \in [Waker -> SUBSET Block]
  /\ held \in [Waker -> Block \cup {Nil}]
  /\ blocked \in [Block -> BOOLEAN]

Init ==
  /\ waiting_threads = [x \in Var |-> {}]
  /\ garbage = [x \in Var |-> 0]
  /\ dead_threads = [x \in Var |-> 0]
  /\ mutex = [x \in Var |-> Nil]
  /\ pc = [t \in Waiter |-> "run"]
  /\ ctrl = [t \in Waiter |-> Nil]
  /\ reads = [t \in Waiter |-> {}]
  /\ todo = [t \in Waiter |-> {}]
  /\ at = [t \in Waiter |-> Nil]
  /\ taken = [w \in Waker |-> {}]
  /\ held = [w \in Waker |-> Nil]
  /\ blocked = [b \in Block |-> FALSE]

-----------------------------------------------------------------------------
(* The lifetime of a block.                                                *)

Free(x) == mutex[x] = Nil

Goto(t, p) == pc' = [pc EXCEPT ![t] = p]

Dead(b) == (\A t \in Waiter : ctrl[t] # b) /\ (\A w \in Waker : held[w] # b)

\* The last strong reference to b is gone: what weak references there are to
\* it are dead.  A list that is being traversed may lose the entry at once.
Perish(b) ==
  /\ waiting_threads' = [x \in Var |-> waiting_threads[x] \ {b}]
  /\ \E removed \in SUBSET {x \in Var : mutex[x] # Nil /\ pc[mutex[x]] = "unlock"} :
       garbage' = [x \in Var |-> IF b \in waiting_threads[x] /\ x \notin removed
                                 THEN garbage[x] + 1 ELSE garbage[x]]
  /\ taken' = [w \in Waker |-> taken[w] \ {b}]

-----------------------------------------------------------------------------
(* wait_for_change.                                                        *)

\* It is called with a register that holds the TVars S.
Begin(t, b, S) ==
  /\ pc[t] = "run" /\ Dead(b)
  /\ Goto(t, "register")
  /\ ctrl' = [ctrl EXCEPT ![t] = b]
  /\ todo' = [todo EXCEPT ![t] = S]
  /\ blocked' = [blocked EXCEPT ![b] = TRUE]
  /\ UNCHANGED <<listVars, reads, at, wakerVars>>

\* VarControlBlock::wait, and the value of x has not changed.
Wait(t, x) ==
  /\ pc[t] = "register" /\ x \in todo[t] /\ Free(x)
  /\ waiting_threads' = [waiting_threads EXCEPT ![x] = @ \cup {ctrl[t]}]
  /\ reads' = [reads EXCEPT ![t] = @ \cup {x}]
  /\ todo' = [todo EXCEPT ![t] = @ \ {x}]
  /\ UNCHANGED <<garbage, dead_threads, mutex, pc, ctrl, at, wakerVars, blocked>>

\* VarControlBlock::wait, and the value of x has changed: the rest is skipped.
WaitChanged(t, x) ==
  /\ pc[t] = "register" /\ x \in todo[t] /\ Free(x)
  /\ waiting_threads' = [waiting_threads EXCEPT ![x] = @ \cup {ctrl[t]}]
  /\ reads' = [reads EXCEPT ![t] = @ \cup {x}]
  /\ todo' = [todo EXCEPT ![t] = reads[t] \cup {x}]
  /\ Goto(t, "dead")
  /\ UNCHANGED <<garbage, dead_threads, mutex, ctrl, at, wakerVars, blocked>>

\* Nothing has changed: ControlBlock::wait.
GoToSleep(t) ==
  /\ pc[t] = "register" /\ todo[t] = {}
  /\ Goto(t, "blocked")
  /\ UNCHANGED <<listVars, ctrl, reads, todo, at, wakerVars, blocked>>

Woken(t) ==
  /\ pc[t] = "blocked" /\ ~blocked[ctrl[t]]
  /\ Goto(t, "dead")
  /\ todo' = [todo EXCEPT ![t] = reads[t]]
  /\ UNCHANGED <<listVars, ctrl, reads, at, wakerVars, blocked>>

\* VarControlBlock::set_dead.  The counter is compared outside of the mutex,
\* and the block that is reported dead is still alive.
\* Broken variant: only who finds the counter at the limit cleans up.
SetDead_Exactly(t, x) ==
  /\ pc[t] = "dead" /\ x \in todo[t]
  /\ dead_threads' = [dead_threads EXCEPT ![x] = @ + 1]
  /\ todo' = [todo EXCEPT ![t] = @ \ {x}]
  /\ IF dead_threads[x] + 1 = DeadLimit
     THEN Goto(t, "lock") /\ at' = [at EXCEPT ![t] = x]
     ELSE UNCHANGED <<pc, at>>
  /\ UNCHANGED <<waiting_threads, garbage, mutex, ctrl, reads, wakerVars, blocked>>
SetDead(t, x) ==
  /\ pc[t] = "dead" /\ x \in todo[t]
  /\ dead_threads' = [dead_threads EXCEPT ![x] = @ + 1]
  /\ todo' = [todo EXCEPT ![t] = @ \ {x}]
  /\ IF dead_threads[x] >= DeadLimit
     THEN Goto(t, "lock") /\ at' = [at EXCEPT ![t] = x]
     ELSE UNCHANGED <<pc, at>>
  /\ UNCHANGED <<waiting_threads, garbage, mutex, ctrl, reads, wakerVars, blocked>>

LockList(t) ==
  /\ pc[t] = "lock" /\ Free(at[t])
  /\ mutex' = [mutex EXCEPT ![at[t]] = t]
  /\ Goto(t, "reset")
  /\ UNCHANGED <<waiting_threads, garbage, dead_threads, ctrl, reads, todo, at, wakerVars,
                 blocked>>

ResetCount(t) ==
  /\ pc[t] = "reset"
  /\ dead_threads' = [dead_threads EXCEPT ![at[t]] = 0]
  /\ Goto(t, "retain")
  /\ UNCHANGED <<waiting_threads, garbage, mutex, ctrl, reads, todo, at, wakerVars, blocked>>

\* retain: the traversal begins.  Entries that die before it ends may or may
\* not be removed, see Perish.
\* Broken variant: the list is cleared.
Retain_Clears(t) ==
  /\ pc[t] = "retain"
  /\ waiting_threads' = [waiting_threads EXCEPT ![at[t]] = {}]
  /\ garbage' = [garbage EXCEPT ![at[t]] = 0]
  /\ Goto(t, "unlock")
  /\ UNCHANGED <<dead_threads, mutex, ctrl, reads, todo, at, wakerVars, blocked>>
Retain(t) ==
  /\ pc[t] = "retain"
  /\ garbage' = [garbage EXCEPT ![at[t]] = 0]
  /\ Goto(t, "unlock")
  /\ UNCHANGED <<waiting_threads, dead_threads, mutex, ctrl, reads, todo, at, wakerVars,
                 blocked>>

UnlockList(t) ==
  /\ pc[t] = "unlock"
  /\ mutex' = [mutex EXCEPT ![at[t]] = Nil]
  /\ at' = [at EXCEPT ![t] = Nil]
  /\ Goto(t, "dead")
  /\ UNCHANGED <<waiting_threads, garbage, dead_threads, ctrl, reads, todo, wakerVars, blocked>>

\* The end of wait_for_change drops ctrl.
End(t) ==
  /\ pc[t] = "dead" /\ todo[t] = {}
  /\ Goto(t, "run")
  /\ ctrl' = [ctrl EXCEPT ![t] = Nil]
  /\ reads' = [reads EXCEPT ![t] = {}]
  /\ IF \E w \in Waker : held[w] = ctrl[t]
     THEN UNCHANGED <<waiting_threads, garbage, taken>>
     ELSE Perish(ctrl[t])
  /\ UNCHANGED <<dead_threads, mutex, todo, at, held, blocked>>

-----------------------------------------------------------------------------
(* wake_all.                                                               *)

TakeAll(w, x) ==
  /\ taken[w] = {} /\ held[w] = Nil /\ Free(x)
  /\ taken' = [taken EXCEPT ![w] = waiting_threads[x]]
  /\ waiting_threads' = [waiting_threads EXCEPT ![x] = {}]
  /\ garbage' = [garbage EXCEPT ![x] = 0]
  /\ UNCHANGED <<dead_threads, mutex, waiterVars, held, blocked>>

Upgrade(w, b) ==
  /\ held[w] = Nil /\ b \in taken[w]
  /\ taken' = [taken EXCEPT ![w] = @ \ {b}]
  /\ held' = [held EXCEPT ![w] = b]
  /\ UNCHANGED <<listVars, waiterVars, blocked>>

\* set_changed, and the reference is dropped.
\* Broken variant: the flag is set instead of cleared.
SetChanged_Sets(w) ==
  /\ held[w] # Nil
  /\ blocked' = [blocked EXCEPT ![held[w]] = TRUE]
  /\ held' = [held EXCEPT ![w] = Nil]
  /\ IF (\E t \in Waiter : ctrl[t] = held[w]) \/ (\E v \in Waker \ {w} : held[v] = held[w])
     THEN UNCHANGED <<waiting_threads, garbage, taken>>
     ELSE Perish(held[w])
  /\ UNCHANGED <<dead_threads, mutex, waiterVars>>
SetChanged(w) ==
  /\ held[w] # Nil
  /\ blocked' = [blocked EXCEPT ![held[w]] = FALSE]
  /\ held' = [held EXCEPT ![w] = Nil]
  /\ IF (\E t \in Waiter : ctrl[t] = held[w]) \/ (\E v \in Waker \ {w} : held[v] = held[w])
     THEN UNCHANGED <<waiting_threads, garbage, taken>>
     ELSE Perish(held[w])
  /\ UNCHANGED <<dead_threads, mutex, waiterVars>>

-----------------------------------------------------------------------------
WaiterStep(t) ==
  \/ \E x \in Var : Wait(t, x) \/ WaitChanged(t, x) \/ SetDead(t, x)
  \/ GoToSleep(t) \/ Woken(t) \/ LockList(t) \/ ResetCount(t) \/ Retain(t)
  \/ UnlockList(t) \/ End(t)

WakerStep(w) == SetChanged(w) \/ \E b \in Block : Upgrade(w, b)

Next ==
  \/ \E t \in Waiter :
       WaiterStep(t) \/ \E b \in Block, S \in SUBSET Var : Begin(t, b, S)
  \/ \E w \in Waker : WakerStep(w) \/ \E x \in Var : TakeAll(w, x)

Spec == Init /\ [][Next]_vars

\* Threads that are in the middle of something go on, and get a mutex that
\* others have in between.  Nothing is assumed of TakeAll and Begin.
FairSpec ==
  /\ Spec
  /\ \A t \in Waiter : WF_vars(WaiterStep(t)) /\ SF_vars(LockList(t))
  /\ \A w \in Waker : WF_vars(WakerStep(w))

-----------------------------------------------------------------------------
\* "This prevents masses of old StmControlBlock to pile up": the garbage in a
\* list is bounded, although the counter and the list change at different
\* moments, wake_all empties the list and not the counter, cleanups race, and
\* who cleans up is still alive itself.  What exceeds the limit is at most the
\* entries that were alive in the last cleanup and those that are in the next.
GarbageBounded ==
  \A x \in Var : garbage[x] < DeadLimit + 2 * Cardinality(Waiter) + Cardinality(Waker)

\* The lists do what Notification promises: no entry of a thread that still
\* waits is ever lost to a cleanup, and all entries that were there when
\* wake_all took the list are informed.
Owned == {b \in Block : \E t \in Waiter : ctrl[t] = b}

N == INSTANCE Notification WITH
  alive <- Owned,
  signalled <- {b \in Owned : ~blocked[b]},
  registered <- [x \in Var |-> waiting_threads[x] \cap Owned],
  owed <- [w \in Waker |-> (taken[w] \cup {held[w]}) \cap Owned]

Notifies == N!Spec

\* A sleeper whose block wake_all has taken leaves wait_for_change: it is
\* informed, and its own cleanup is not kept waiting for ever by those of
\* others.
TakenReturns ==
  \A t \in Waiter :
    pc[t] = "blocked" /\ (\E w \in Waker : ctrl[t] \in taken[w] \cup {held[w]})
      ~> pc[t] = "run"
=============================================================================
