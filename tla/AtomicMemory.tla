---------------------------- MODULE AtomicMemory ----------------------------
(***************************************************************************)
(* What the STM promises to its users: every transaction takes effect in   *)
(* one indivisible step, or not at all.                                    *)
(*                                                                         *)
(* A transaction runs its closure on a private view.  obs holds what it    *)
(* loaded from the shared variables, own what it has written.  Until it    *)
(* commits a load may return any value (the library documents that it does *)
(* not guarantee opacity), but the closure always sees its own last write, *)
(* or else the value it loaded first.  The one step in which it commits    *)
(* requires every observed value to be the current one, and publishes all  *)
(* the writes together.  Tx::or can give up an alternative: the view then  *)
(* is again what it was when the alternative was entered.                  *)
(***************************************************************************)
EXTENDS Naturals, Sequences

CONSTANTS Thread,   \* the threads that run transactions
          Var,      \* the TVars
          Val,      \* their values
          Fns,      \* the functions closures pass to modify
          Nil       \* no value

VARIABLES mem,      \* the value of every TVar
          status,   \* "idle", "active", "ready" (closure done), "committed"
          obs,      \* obs[t][x]: value t loaded from x, or Nil
          own,      \* own[t][x]: value t wrote to x, or Nil
          saved,    \* the pending alternatives, innermost first, with the view to
                    \* go back to if the first of the two is given up
          ret       \* what the last call of the closure returned

vars == <<mem, status, obs, own, saved, ret>>

View     == [Var -> Val \cup {Nil}]
NoView   == [x \in Var |-> Nil]
Frame    == [second : BOOLEAN, obs : View, own : View]

TypeOK ==
  /\ mem \in [Var -> Val]
  /\ status \in [Thread -> {"idle", "active", "ready", "committed"}]
  /\ obs \in [Thread -> View]
  /\ own \in [Thread -> View]
  /\ saved \in [Thread -> Seq(Frame)]
  /\ ret \in [Thread -> Val \cup {Nil}]

Init ==
  /\ mem \in [Var -> Val]
  /\ status = [t \in Thread |-> "idle"]
  /\ obs = [t \in Thread |-> NoView]
  /\ own = [t \in Thread |-> NoView]
  /\ saved = [t \in Thread |-> <<>>]
  /\ ret = [t \in Thread |-> Nil]

\* t's view is emptied and it enters status s.
Clear(t, s) ==
  /\ status' = [status EXCEPT ![t] = s]
  /\ obs' = [obs EXCEPT ![t] = NoView]
  /\ own' = [own EXCEPT ![t] = NoView]
  /\ saved' = [saved EXCEPT ![t] = <<>>]
  /\ ret' = [ret EXCEPT ![t] = Nil]

\* A load of x by t may return v: its own write, what it loaded before, or,
\* the first time, any value.
Returns(t, x, v) ==
  IF own[t][x] # Nil THEN v = own[t][x]
  ELSE obs[t][x] # Nil => v = obs[t][x]

\* t comes to depend on the value v of x.  Where it reads its own write it
\* need not, but may depend on the value x had before.
Depends(t, x, v) ==
  IF own[t][x] = Nil THEN obs' = [obs EXCEPT ![t][x] = v]
  ELSE \/ obs' = obs
       \/ /\ obs[t][x] = Nil
          /\ \E u \in Val : obs' = [obs EXCEPT ![t][x] = u]

-----------------------------------------------------------------------------
Begin(t) ==
  /\ status[t] = "idle"
  /\ Clear(t, "active")
  /\ UNCHANGED mem

Read(t, x, v) ==
  /\ status[t] = "active"
  /\ Returns(t, x, v)
  /\ Depends(t, x, v)
  /\ ret' = [ret EXCEPT ![t] = v]
  /\ UNCHANGED <<mem, status, own, saved>>

Write(t, x, w) ==
  /\ status[t] = "active"
  /\ own' = [own EXCEPT ![t][x] = w]
  /\ ret' = [ret EXCEPT ![t] = Nil]
  /\ UNCHANGED <<mem, status, obs, saved>>

\* Load v and store w in one call; modify returns nothing, exchange v.
Update(t, x, v, w, r) ==
  /\ status[t] = "active"
  /\ Returns(t, x, v)
  /\ Depends(t, x, v)
  /\ own' = [own EXCEPT ![t][x] = w]
  /\ ret' = [ret EXCEPT ![t] = r]
  /\ UNCHANGED <<mem, status, saved>>

\* An alternative is entered, given up for the second one, or left.
Enter(t) ==
  /\ status[t] = "active"
  /\ saved' = [saved EXCEPT ![t] =
                 <<[second |-> FALSE, obs |-> obs[t], own |-> own[t]]>> \o @]
  /\ UNCHANGED <<mem, status, obs, own, ret>>

GiveUp(t) ==
  /\ status[t] = "active"
  /\ saved[t] # <<>>
  /\ ~Head(saved[t]).second
  /\ obs' = [obs EXCEPT ![t] = Head(saved[t]).obs]
  /\ own' = [own EXCEPT ![t] = Head(saved[t]).own]
  /\ saved' = [saved EXCEPT ![t] =
                 <<[second |-> TRUE, obs |-> NoView, own |-> NoView]>> \o Tail(@)]
  /\ UNCHANGED <<mem, status, ret>>

Leave(t) ==
  /\ status[t] = "active"
  /\ saved[t] # <<>>
  /\ saved' = [saved EXCEPT ![t] = Tail(@)]
  /\ UNCHANGED <<mem, status, obs, own, ret>>

\* An error that ends the closure leaves all alternatives at once.
LeaveAll(t) ==
  /\ status[t] = "active"
  /\ saved' = [saved EXCEPT ![t] = <<>>]
  /\ UNCHANGED <<mem, status, obs, own, ret>>

Done(t) ==
  /\ status[t] = "active"
  /\ saved[t] = <<>>
  /\ status' = [status EXCEPT ![t] = "ready"]
  /\ ret' = [ret EXCEPT ![t] = Nil]
  /\ UNCHANGED <<mem, obs, own, saved>>

\* The whole transaction happens here.
Commit(t) ==
  /\ status[t] = "ready"
  /\ \A x \in Var : obs[t][x] # Nil => obs[t][x] = mem[x]
  /\ mem' = [x \in Var |-> IF own[t][x] # Nil THEN own[t][x] ELSE mem[x]]
  /\ Clear(t, "committed")

\* The attempt leaves no trace: run the closure again, or give up for good.
Rerun(t) ==
  /\ status[t] \in {"active", "ready"}
  /\ Clear(t, "active")
  /\ UNCHANGED mem

End(t) ==
  /\ status[t] \in {"active", "committed"}
  /\ Clear(t, "idle")
  /\ UNCHANGED mem

\* Accesses of a single variable outside of a transaction.
ReadAtomic(t, x) ==
  /\ status[t] = "idle"
  /\ ret' = [ret EXCEPT ![t] = mem[x]]
  /\ UNCHANGED <<mem, status, obs, own, saved>>

WriteAtomic(t, x, w) ==
  /\ status[t] = "idle"
  /\ mem' = [mem EXCEPT ![x] = w]
  /\ ret' = [ret EXCEPT ![t] = Nil]
  /\ UNCHANGED <<status, obs, own, saved>>

Next ==
  \E t \in Thread :
    \/ Begin(t) \/ Enter(t) \/ GiveUp(t) \/ Leave(t) \/ LeaveAll(t)
    \/ Done(t) \/ Commit(t) \/ Rerun(t) \/ End(t)
    \/ \E x \in Var :
         \/ ReadAtomic(t, x)
         \/ \E v \in Val :
              \/ Read(t, x, v)
              \/ Write(t, x, v)
              \/ WriteAtomic(t, x, v)
              \/ \E w \in Val : Update(t, x, v, w, v)
              \/ \E f \in Fns : Update(t, x, v, f[v], Nil)

Spec == Init /\ [][Next]_vars
=============================================================================
