--------------------------- MODULE WaitListProofs ---------------------------
(***************************************************************************)
(* The waiting lists implement Notification, and the garbage in them is    *)
(* bounded, for any TVars, threads and blocks and any limit.               *)
(***************************************************************************)
EXTENDS WaitList, FiniteSetTheorems, TLAPS

\* A waiter has a block of its own while it is in wait_for_change.
Owners ==
  /\ \A t \in Waiter : pc[t] = "run" <=> ctrl[t] = Nil
  /\ \A t, u \in Waiter : ctrl[t] = ctrl[u] /\ ctrl[t] # Nil => t = u

\* Entries count as alive only while somebody refers to the block, and a
\* waker has no second entry of the block it is about to inform.
Entries ==
  /\ \A x \in Var : \A b \in waiting_threads[x] : ~Dead(b)
  /\ \A w \in Waker : (\A b \in taken[w] : ~Dead(b)) /\ held[w] \notin taken[w]

\* Where a waiter cleans up is a TVar.
Cleaning ==
  \A t \in Waiter : pc[t] \in {"lock", "reset", "retain", "unlock"} => at[t] \in Var

Inv == TypeOK /\ Owners /\ Entries /\ Cleaning

USE DEF listVars, waiterVars, wakerVars

-----------------------------------------------------------------------------
(* The invariant.                                                          *)

LEMMA InvInit == Init => Inv
BY WaitListAssumption DEF Init, Inv, TypeOK, Owners, Entries, Cleaning

\* What becomes of the entries of a block that dies.
LEMMA PerishLemma ==
  ASSUME TypeOK, NEW b \in Block, Perish(b)
  PROVE  /\ waiting_threads' \in [Var -> SUBSET Block]
         /\ taken' \in [Waker -> SUBSET Block]
         /\ garbage' \in [Var -> Nat]
         /\ \A x \in Var : waiting_threads'[x] = waiting_threads[x] \ {b}
         /\ \A w \in Waker : taken'[w] = taken[w] \ {b}
BY DEF TypeOK, Perish

\* Steps that touch the counters, the mutex and the progress of waiters only.
LEMMA CleanupInv ==
  ASSUME Inv, NEW t \in Waiter,
         GoToSleep(t) \/ Woken(t) \/ (\E x \in Var : SetDead(t, x))
           \/ LockList(t) \/ ResetCount(t) \/ Retain(t) \/ UnlockList(t)
  PROVE  Inv' /\ UNCHANGED <<waiting_threads, ctrl, wakerVars, blocked>>
<1> USE DEF Inv, TypeOK, Goto
<1>1. UNCHANGED <<waiting_threads, ctrl, wakerVars, blocked>>
  BY DEF GoToSleep, Woken, SetDead, LockList, ResetCount, Retain, UnlockList
<1>2. Entries'  BY <1>1 DEF Entries, Dead
<1>3. TypeOK' /\ Owners' /\ Cleaning'
  <2> USE DEF Owners, Cleaning
  <2>1. CASE GoToSleep(t) \/ Woken(t)  BY <2>1 DEF GoToSleep, Woken
  <2>2. ASSUME NEW x \in Var, SetDead(t, x)  PROVE TypeOK' /\ Owners' /\ Cleaning'
    <3>1. CASE dead_threads[x] >= DeadLimit  BY <2>2, <3>1 DEF SetDead
    <3>2. CASE ~(dead_threads[x] >= DeadLimit)  BY <2>2, <3>2 DEF SetDead
    <3> QED  BY <3>1, <3>2
  <2>3. CASE LockList(t)  BY <2>3 DEF LockList
  <2>4. CASE ResetCount(t)  BY <2>4 DEF ResetCount
  <2>5. CASE Retain(t)  BY <2>5 DEF Retain
  <2>6. CASE UnlockList(t)  BY <2>6 DEF UnlockList
  <2> QED  BY <2>1, <2>2, <2>3, <2>4, <2>5, <2>6
<1> QED  BY <1>1, <1>2, <1>3

LEMMA BeginInv ==
  ASSUME Inv, NEW t \in Waiter, NEW b \in Block, NEW S \in SUBSET Var, Begin(t, b, S)
  PROVE  Inv'
<1> USE DEF Inv, TypeOK, Begin, Goto
<1>1. TypeOK'  OBVIOUS
<1>2. Owners'  BY WaitListAssumption DEF Owners, Dead
<1>3. Entries'  BY WaitListAssumption DEF Entries, Dead, Owners
<1>4. Cleaning'  BY DEF Cleaning
<1> QED  BY <1>1, <1>2, <1>3, <1>4

LEMMA WaitInv ==
  ASSUME Inv, NEW t \in Waiter, NEW x \in Var, Wait(t, x) \/ WaitChanged(t, x)
  PROVE  Inv'
<1> USE DEF Inv, TypeOK, Wait, WaitChanged, Goto
<1>1. ctrl[t] \in Block /\ ~Dead(ctrl[t])  BY DEF Owners, Dead
<1>2. waiting_threads' = [waiting_threads EXCEPT ![x] = @ \cup {ctrl[t]}]
      /\ UNCHANGED <<ctrl, wakerVars>>
  OBVIOUS
<1>3. Entries'
  <2>1. \A b : Dead(b)' <=> Dead(b)  BY <1>2 DEF Dead
  <2> QED  BY <1>1, <1>2, <2>1 DEF Entries
<1>4. TypeOK'  BY <1>1
<1>5. Owners' /\ Cleaning'  BY DEF Owners, Cleaning
<1> QED  BY <1>3, <1>4, <1>5

LEMMA EndInv ==
  ASSUME Inv, NEW t \in Waiter, End(t)
  PROVE  Inv'
<1> USE DEF Inv, Goto
<1> DEFINE b == ctrl[t]
<1>1. b \in Block  BY DEF End, Owners, TypeOK
<1>2. /\ ctrl' = [ctrl EXCEPT ![t] = Nil] /\ UNCHANGED held
      /\ pc[t] = "dead" /\ pc' = [pc EXCEPT ![t] = "run"]
      /\ reads' = [reads EXCEPT ![t] = {}]
      /\ UNCHANGED <<dead_threads, mutex, todo, at, blocked>>
  BY DEF End
<1>3. /\ waiting_threads' \in [Var -> SUBSET Block] /\ taken' \in [Waker -> SUBSET Block]
      /\ garbage' \in [Var -> Nat]
      /\ \A x \in Var : waiting_threads'[x] \subseteq waiting_threads[x]
      /\ \A w \in Waker : taken'[w] \subseteq taken[w]
      /\ (\E w \in Waker : held[w] = b)
         \/ (/\ \A x \in Var : b \notin waiting_threads'[x]
             /\ \A w \in Waker : b \notin taken'[w])
  <2>1. CASE \E w \in Waker : held[w] = b  BY <2>1 DEF End, TypeOK
  <2>2. CASE ~\E w \in Waker : held[w] = b
    <3>1. Perish(b)  BY <2>2 DEF End
    <3> QED  BY <1>1, <3>1, PerishLemma
  <2> QED  BY <2>1, <2>2
<1>4. TypeOK'  BY <1>2, <1>3 DEF TypeOK
<1>5. Owners'  BY <1>2 DEF Owners, TypeOK
<1>6. Entries'
  <2>1. \A c \in Block : ~Dead(c) /\ (c # b \/ \E w \in Waker : held[w] = b) => ~Dead(c)'
    BY <1>2, WaitListAssumption DEF Dead, TypeOK
  <2> QED  BY <1>2, <1>3, <2>1 DEF Entries
<1>7. Cleaning'  BY <1>2 DEF Cleaning, TypeOK
<1> QED  BY <1>4, <1>5, <1>6, <1>7

LEMMA TakeInv ==
  ASSUME Inv, NEW w \in Waker,
         (\E x \in Var : TakeAll(w, x)) \/ (\E b \in Block : Upgrade(w, b))
  PROVE  Inv'
<1> USE DEF Inv, TypeOK
<1>1. ASSUME NEW x \in Var, TakeAll(w, x)  PROVE Inv'
  <2> USE <1>1 DEF TakeAll
  <2>1. TypeOK'  OBVIOUS
  <2>2. \A b : Dead(b)' <=> Dead(b)  BY DEF Dead
  <2>3. Entries'  BY <2>2, WaitListAssumption DEF Entries
  <2>4. Owners' /\ Cleaning'  BY DEF Owners, Cleaning
  <2> QED  BY <2>1, <2>3, <2>4
<1>2. ASSUME NEW b \in Block, Upgrade(w, b)  PROVE Inv'
  <2> USE <1>2 DEF Upgrade
  <2>1. TypeOK'  OBVIOUS
  <2>2. \A c \in Block : ~Dead(c) => ~Dead(c)'  BY WaitListAssumption DEF Dead
  <2>3. Entries'  BY <2>2 DEF Entries
  <2>4. Owners' /\ Cleaning'  BY DEF Owners, Cleaning
  <2> QED  BY <2>1, <2>3, <2>4
<1> QED  BY <1>1, <1>2

\* Whoever else refers to it, the block that was informed dies with its last
\* reference only.
LEMMA SetChangedInv ==
  ASSUME Inv, NEW w \in Waker, SetChanged(w)
  PROVE  Inv'
<1> USE DEF Inv
<1> DEFINE b == held[w]
           shared == (\E t \in Waiter : ctrl[t] = b) \/ (\E v \in Waker \ {w} : held[v] = b)
<1>1. b \in Block  BY DEF SetChanged, TypeOK
<1>2. /\ held' = [held EXCEPT ![w] = Nil] /\ blocked' = [blocked EXCEPT ![b] = FALSE]
      /\ UNCHANGED <<dead_threads, mutex, waiterVars>>
  BY DEF SetChanged
<1>3. /\ waiting_threads' \in [Var -> SUBSET Block] /\ taken' \in [Waker -> SUBSET Block]
      /\ garbage' \in [Var -> Nat]
      /\ \A x \in Var : waiting_threads'[x] \subseteq waiting_threads[x]
      /\ \A v \in Waker : taken'[v] \subseteq taken[v]
      /\ shared \/ (/\ \A x \in Var : b \notin waiting_threads'[x]
                    /\ \A v \in Waker : b \notin taken'[v])
  <2>1. CASE shared  BY <2>1 DEF SetChanged, TypeOK
  <2>2. CASE ~shared
    <3>1. Perish(b)  BY <2>2 DEF SetChanged
    <3> QED  BY <1>1, <3>1, PerishLemma
  <2> QED  BY <2>1, <2>2
<1>4. TypeOK'  BY <1>2, <1>3 DEF TypeOK
<1>5. Entries'
  <2>1. \A c \in Block : ~Dead(c) /\ (c # b \/ shared) => ~Dead(c)'
    BY <1>2, WaitListAssumption DEF Dead, TypeOK
  <2>2. \A v \in Waker : held'[v] \notin taken'[v]
    BY <1>2, <1>3, WaitListAssumption DEF Entries, TypeOK
  <2> QED  BY <1>3, <2>1, <2>2 DEF Entries, TypeOK
<1>6. Owners' /\ Cleaning'  BY <1>2 DEF Owners, Cleaning
<1> QED  BY <1>4, <1>5, <1>6

LEMMA InvStep == Inv /\ [Next]_vars => Inv'
<1> SUFFICES ASSUME Inv, [Next]_vars PROVE Inv'  OBVIOUS
<1>1. CASE UNCHANGED vars
  BY <1>1 DEF vars, Inv, TypeOK, Owners, Entries, Cleaning, Dead
<1>2. ASSUME NEW t \in Waiter, WaiterStep(t)  PROVE Inv'
  BY <1>2, CleanupInv, WaitInv, EndInv DEF WaiterStep
<1>3. ASSUME NEW w \in Waker, WakerStep(w) \/ \E x \in Var : TakeAll(w, x)  PROVE Inv'
  BY <1>3, TakeInv, SetChangedInv DEF WakerStep
<1> QED  BY <1>1, <1>2, <1>3, BeginInv DEF Next

\* Types are respected.
THEOREM TypeCorrect == Spec => []TypeOK
<1>1. Inv => TypeOK  BY DEF Inv
<1> QED  BY <1>1, InvInit, InvStep, PTL DEF Spec

-----------------------------------------------------------------------------
(* The refinement.  Only the steps named below can be seen.                *)

Registered == [x \in Var |-> waiting_threads[x] \cap Owned]
Owed == [w \in Waker |-> (taken[w] \cup {held[w]}) \cap Owned]
Signalled == {b \in Owned : ~blocked[b]}

\* Nothing to see: the blocks with an owner, what is registered and what is
\* owed stay the same.
LEMMA Invisible ==
  ASSUME Owned' = Owned, Signalled' = Signalled, Registered' = Registered, Owed' = Owed
  PROVE  UNCHANGED N!vars
BY DEF N!vars, Signalled, Registered, Owed

LEMMA RefInit == Init => N!Init
<1> SUFFICES ASSUME Init PROVE N!Init  OBVIOUS
<1>1. Owned = {}  BY WaitListAssumption DEF Init, Owned
<1> QED  BY <1>1 DEF Init, N!Init

LEMMA RefBegin ==
  ASSUME Inv, NEW t \in Waiter, NEW b \in Block, NEW S \in SUBSET Var, Begin(t, b, S)
  PROVE  N!Arm(b)
<1> USE DEF Inv, TypeOK, Begin
<1>1. Owned' = Owned \cup {b} /\ b \notin Owned
  BY WaitListAssumption DEF Owned, Dead, Owners
<1>2. Signalled' = Signalled  BY <1>1 DEF Signalled
<1>3. Registered' = Registered  BY <1>1 DEF Registered, Entries
<1>4. Owed' = Owed  BY <1>1 DEF Owed, Entries, Dead
<1> QED  BY <1>1, <1>2, <1>3, <1>4 DEF N!Arm, Signalled, Registered, Owed

LEMMA RefWait ==
  ASSUME Inv, NEW t \in Waiter, NEW x \in Var, Wait(t, x) \/ WaitChanged(t, x)
  PROVE  N!Register(ctrl[t], x)
<1> USE DEF Inv, TypeOK
<1>1. ctrl[t] \in Owned  BY DEF Wait, WaitChanged, Owners, Owned
<1>2. /\ waiting_threads' = [waiting_threads EXCEPT ![x] = @ \cup {ctrl[t]}]
      /\ UNCHANGED <<ctrl, wakerVars, blocked>>
  BY DEF Wait, WaitChanged
<1>3. Owned' = Owned  BY <1>2 DEF Owned
<1>4. Registered' = [Registered EXCEPT ![x] = @ \cup {ctrl[t]}]
  BY <1>1, <1>2, <1>3 DEF Registered
<1> QED  BY <1>1, <1>2, <1>3, <1>4 DEF N!Register, Registered

LEMMA RefEnd ==
  ASSUME Inv, NEW t \in Waiter, NEW b \in Block, b = ctrl[t], End(t)
  PROVE  N!Die(b)
<1> USE DEF Inv
<1>1. b \in Block /\ b \in Owned  BY DEF End, Owners, Owned, TypeOK
<1>2. ctrl' = [ctrl EXCEPT ![t] = Nil] /\ UNCHANGED <<held, blocked>>  BY DEF End
<1>3. Owned' = Owned \ {b}  BY <1>1, <1>2, WaitListAssumption DEF Owned, Owners, TypeOK
<1>4. /\ \A x \in Var : waiting_threads'[x] \in {waiting_threads[x], waiting_threads[x] \ {b}}
      /\ \A w \in Waker : taken'[w] \in {taken[w], taken[w] \ {b}}
  <2>1. CASE \E w \in Waker : held[w] = b  BY <2>1 DEF End
  <2>2. CASE ~\E w \in Waker : held[w] = b
    <3>1. Perish(b)  BY <2>2 DEF End
    <3> QED  BY <1>1, <3>1, PerishLemma
  <2> QED  BY <2>1, <2>2
<1>5. Registered' = [x \in Var |-> Registered[x] \ {b}]
  <2>1. \A x \in Var : waiting_threads'[x] \cap Owned' = (waiting_threads[x] \cap Owned) \ {b}
    BY <1>3, <1>4
  <2> QED  BY <2>1 DEF Registered
<1>6. Owed' = [w \in Waker |-> Owed[w] \ {b}]
  <2>1. \A w \in Waker : (taken'[w] \cup {held'[w]}) \cap Owned'
                           = ((taken[w] \cup {held[w]}) \cap Owned) \ {b}
    BY <1>2, <1>3, <1>4
  <2> QED  BY <2>1 DEF Owed
<1>7. Signalled' = Signalled \ {b}  BY <1>2, <1>3 DEF Signalled
<1> QED  BY <1>1, <1>3, <1>5, <1>6, <1>7 DEF N!Die, Registered, Owed, Signalled

LEMMA RefTake ==
  ASSUME Inv, NEW w \in Waker, NEW x \in Var, TakeAll(w, x)
  PROVE  N!Announce(w, x)
<1> USE DEF Inv, TypeOK, TakeAll
<1>1. Owned' = Owned /\ Nil \notin Owned  BY WaitListAssumption DEF Owned
<1>2. Owed[w] = {}  BY <1>1 DEF Owed
<1>3. Owed' = [Owed EXCEPT ![w] = Registered[x]]
  <2>1. \A v \in Waker : (taken'[v] \cup {held'[v]}) \cap Owned'
              = IF v = w THEN waiting_threads[x] \cap Owned
                         ELSE (taken[v] \cup {held[v]}) \cap Owned
    BY <1>1
  <2> QED  BY <2>1 DEF Owed, Registered
<1>4. Registered' = [Registered EXCEPT ![x] = {}]  BY <1>1 DEF Registered
<1> QED  BY <1>1, <1>2, <1>3, <1>4 DEF N!Announce, Owed, Registered

LEMMA RefSetChanged ==
  ASSUME Inv, NEW w \in Waker, NEW b \in Block, b = held[w], SetChanged(w)
  PROVE  N!Signal(w, b) \/ UNCHANGED N!vars
<1> USE DEF Inv
<1>1. b \in Block /\ b \notin taken[w]  BY DEF SetChanged, TypeOK, Entries
<1>2. /\ held' = [held EXCEPT ![w] = Nil] /\ blocked' = [blocked EXCEPT ![b] = FALSE]
      /\ UNCHANGED ctrl
  BY DEF SetChanged
<1>3. Owned' = Owned /\ Nil \notin Owned  BY <1>2, WaitListAssumption DEF Owned
<1>4. CASE b \in Owned
  <2>1. UNCHANGED <<waiting_threads, taken>>  BY <1>4 DEF SetChanged, Owned
  <2>2. Registered' = Registered  BY <1>3, <2>1 DEF Registered
  <2>3. Owed' = [Owed EXCEPT ![w] = @ \ {b}]
    <3>1. \A v \in Waker : (taken'[v] \cup {held'[v]}) \cap Owned'
                = IF v = w THEN ((taken[v] \cup {held[v]}) \cap Owned) \ {b}
                           ELSE (taken[v] \cup {held[v]}) \cap Owned
      BY <1>1, <1>2, <1>3, <2>1 DEF TypeOK
    <3> QED  BY <3>1 DEF Owed
  <2>4. Signalled' = Signalled \cup {b}
    BY <1>1, <1>2, <1>3, <1>4 DEF Signalled, Owned, TypeOK
  <2>5. b \in Owed[w]  BY <1>4 DEF Owed
  <2> QED  BY <1>3, <2>2, <2>3, <2>4, <2>5 DEF N!Signal, Registered, Owed, Signalled
<1>5. CASE b \notin Owned
  <2>1. /\ \A x \in Var : waiting_threads'[x] \in {waiting_threads[x], waiting_threads[x] \ {b}}
        /\ \A v \in Waker : taken'[v] \in {taken[v], taken[v] \ {b}}
    <3>1. CASE \E v \in Waker \ {w} : held[v] = b  BY <3>1 DEF SetChanged
    <3>2. CASE ~\E v \in Waker \ {w} : held[v] = b
      <4>1. Perish(b)  BY <1>1, <1>5, <3>2 DEF SetChanged, Owned
      <4> QED  BY <1>1, <4>1, PerishLemma
    <3> QED  BY <3>1, <3>2
  <2>2. Registered' = Registered
    <3>1. \A x \in Var : waiting_threads'[x] \cap Owned' = waiting_threads[x] \cap Owned
      BY <1>3, <1>5, <2>1
    <3> QED  BY <3>1 DEF Registered
  <2>3. Owed' = Owed
    <3>1. \A v \in Waker : (taken'[v] \cup {held'[v]}) \cap Owned'
                             = (taken[v] \cup {held[v]}) \cap Owned
      BY <1>2, <1>3, <1>5, <2>1 DEF TypeOK
    <3> QED  BY <3>1 DEF Owed
  <2>4. Signalled' = Signalled  BY <1>2, <1>3, <1>5 DEF Signalled, Owned, TypeOK
  <2> QED  BY <1>3, <2>2, <2>3, <2>4, Invisible
<1> QED  BY <1>4, <1>5

LEMMA RefUpgrade ==
  ASSUME Inv, NEW w \in Waker, NEW b \in Block, Upgrade(w, b)
  PROVE  UNCHANGED N!vars
<1> USE DEF Inv, TypeOK, Upgrade
<1>1. Owned' = Owned /\ Nil \notin Owned  BY WaitListAssumption DEF Owned
<1>2. Owed' = Owed
  <2>1. \A v \in Waker : (taken'[v] \cup {held'[v]}) \cap Owned'
                           = (taken[v] \cup {held[v]}) \cap Owned
    BY <1>1
  <2> QED  BY <2>1 DEF Owed
<1>3. Registered' = Registered /\ Signalled' = Signalled
  BY <1>1 DEF Registered, Signalled
<1> QED  BY <1>1, <1>2, <1>3, Invisible

LEMMA RefStep == Inv /\ [Next]_vars => [N!Next]_(N!vars)
<1> SUFFICES ASSUME Inv, [Next]_vars PROVE [N!Next]_(N!vars)  OBVIOUS
<1>1. ASSUME UNCHANGED <<waiting_threads, ctrl, wakerVars, blocked>>
      PROVE  UNCHANGED N!vars
  <2>1. Owned' = Owned  BY <1>1 DEF Owned
  <2> QED  BY <1>1, <2>1 DEF N!vars
<1>2. CASE UNCHANGED vars  BY <1>1, <1>2 DEF vars
<1>3. ASSUME NEW t \in Waiter, NEW b \in Block, NEW S \in SUBSET Var, Begin(t, b, S)
      PROVE  N!Next
  BY <1>3, RefBegin DEF N!Next
<1>4. ASSUME NEW t \in Waiter, NEW x \in Var, Wait(t, x) \/ WaitChanged(t, x)
      PROVE  N!Next
  <2>1. ctrl[t] \in Block
    BY <1>4 DEF Wait, WaitChanged, Inv, TypeOK, Owners
  <2>2. N!Register(ctrl[t], x)  BY <1>4, RefWait
  <2> QED  BY <2>1, <2>2 DEF N!Next
<1>5. ASSUME NEW t \in Waiter, End(t)  PROVE N!Next
  <2>1. PICK b \in Block : b = ctrl[t]  BY <1>5 DEF End, Inv, TypeOK, Owners
  <2>2. N!Die(b)  BY <1>5, <2>1, RefEnd
  <2> QED  BY <2>1, <2>2 DEF N!Next
<1>6. ASSUME NEW w \in Waker, NEW x \in Var, TakeAll(w, x)  PROVE N!Next
  BY <1>6, RefTake DEF N!Next
<1>7. ASSUME NEW w \in Waker, SetChanged(w)  PROVE [N!Next]_(N!vars)
  <2>1. PICK b \in Block : b = held[w]  BY <1>7 DEF SetChanged, Inv, TypeOK
  <2>2. N!Signal(w, b) \/ UNCHANGED N!vars  BY <1>7, <2>1, RefSetChanged
  <2> QED  BY <2>1, <2>2 DEF N!Next
<1>8. ASSUME NEW t \in Waiter, WaiterStep(t)  PROVE [N!Next]_(N!vars)
  <2>1. CASE \E x \in Var : Wait(t, x) \/ WaitChanged(t, x)  BY <1>4, <2>1
  <2>2. CASE End(t)  BY <1>5, <2>2
  <2>3. CASE GoToSleep(t) \/ Woken(t) \/ (\E x \in Var : SetDead(t, x))
               \/ LockList(t) \/ ResetCount(t) \/ Retain(t) \/ UnlockList(t)
    BY <1>1, <2>3, CleanupInv
  <2> QED  BY <1>8, <2>1, <2>2, <2>3 DEF WaiterStep
<1>9. ASSUME NEW w \in Waker, WakerStep(w)  PROVE [N!Next]_(N!vars)
  BY <1>7, <1>9, RefUpgrade DEF WakerStep
<1> QED  BY <1>2, <1>3, <1>6, <1>8, <1>9 DEF Next

\* However cleanups, deaths and wake-ups interleave, the waiting lists lose no
\* thread that still waits, and a change is announced to all of them.
THEOREM ImplementsNotification == Spec => Notifies
BY RefInit, RefStep, InvInit, InvStep, PTL DEF Spec, Notifies, N!Spec

-----------------------------------------------------------------------------
(* Counting blocks.                                                        *)

\* A bounded number of threads is in wait_for_change and in wake_all.
FiniteThreads == IsFiniteSet(Waiter) /\ IsFiniteSet(Waker) /\ Waiter # {}

Size == Cardinality(Waiter) + Cardinality(Waker)

\* Blocks that threads refer to are not more than the threads.
LEMMA ImageCard ==
  ASSUME NEW T, IsFiniteSet(T), NEW f, NEW S, \A b \in S : \E t \in T : f[t] = b
  PROVE  IsFiniteSet(S) /\ Cardinality(S) \in Nat /\ Cardinality(S) <= Cardinality(T)
<1> DEFINE D == {t \in T : f[t] \in S}
           g == [t \in D |-> f[t]]
<1>1. IsFiniteSet(D) /\ Cardinality(D) <= Cardinality(T)  BY FS_Subset
<1>2. g \in Surjection(D, S)  BY DEF Surjection
<1>3. IsFiniteSet(S) /\ Cardinality(S) <= Cardinality(D)  BY <1>1, <1>2, FS_Surjection
<1> HIDE DEF D
<1> QED  BY <1>1, <1>3, FS_CardinalityType

LEMMA ReferredCard ==
  ASSUME FiniteThreads, NEW c, NEW h, NEW S,
         \A b \in S : (\E t \in Waiter : c[t] = b) \/ (\E w \in Waker : h[w] = b)
  PROVE  IsFiniteSet(S) /\ Cardinality(S) \in Nat /\ Cardinality(S) <= Size
<1> USE DEF FiniteThreads
<1> DEFINE C == {b \in S : \E t \in Waiter : c[t] = b}
           H == {b \in S : \E w \in Waker : h[w] = b}
<1>1. IsFiniteSet(C) /\ Cardinality(C) \in Nat /\ Cardinality(C) <= Cardinality(Waiter)
  BY ImageCard
<1>2. IsFiniteSet(H) /\ Cardinality(H) \in Nat /\ Cardinality(H) <= Cardinality(Waker)
  BY ImageCard
<1>3. S = C \cup H  OBVIOUS
<1> HIDE DEF C, H
<1>4. /\ IsFiniteSet(S) /\ Cardinality(S) \in Nat /\ Cardinality(C \cap H) \in Nat
      /\ Cardinality(S) = Cardinality(C) + Cardinality(H) - Cardinality(C \cap H)
  BY <1>1, <1>2, <1>3, FS_Union, FS_Intersection, FS_CardinalityType
<1> QED  BY <1>1, <1>2, <1>4, FS_CardinalityType DEF Size

LEMMA SubsetCard ==
  ASSUME NEW S, IsFiniteSet(S), NEW T, T \subseteq S
  PROVE  /\ IsFiniteSet(T) /\ Cardinality(T) \in Nat /\ Cardinality(S) \in Nat
         /\ Cardinality(T) <= Cardinality(S)
BY FS_Subset, FS_CardinalityType

LEMMA WithoutCard ==
  ASSUME NEW S, IsFiniteSet(S), NEW b \in S
  PROVE  /\ IsFiniteSet(S \ {b}) /\ Cardinality(S \ {b}) \in Nat
         /\ Cardinality(S) = Cardinality(S \ {b}) + 1
<1>1. IsFiniteSet(S \ {b}) /\ Cardinality(S \ {b}) = Cardinality(S) - 1
  BY FS_RemoveElement
<1>2. Cardinality(S) \in Nat /\ Cardinality(S \ {b}) \in Nat  BY <1>1, FS_CardinalityType
<1> QED  BY <1>1, <1>2

LEMMA WithCard ==
  ASSUME NEW S, IsFiniteSet(S), NEW b
  PROVE  /\ IsFiniteSet(S \cup {b}) /\ Cardinality(S \cup {b}) \in Nat
         /\ Cardinality(S) \in Nat /\ Cardinality(S \cup {b}) <= Cardinality(S) + 1
         /\ b \notin S => Cardinality(S \cup {b}) = Cardinality(S) + 1
<1>1. /\ IsFiniteSet(S \cup {b})
      /\ Cardinality(S \cup {b}) = IF b \in S THEN Cardinality(S) ELSE Cardinality(S) + 1
  BY FS_AddElement
<1>2. Cardinality(S) \in Nat  BY FS_CardinalityType
<1> QED  BY <1>1, <1>2

-----------------------------------------------------------------------------
(* The garbage is bounded.  An entry becomes garbage only after its waiter *)
(* has counted it in dead_threads, and whoever finds the counter at its    *)
(* limit cleans the list up.  Between the two, and between the reset of    *)
(* the counter and the end of the traversal, the two numbers drift apart   *)
(* by no more than the threads that can be at work there.                  *)

\* t has not counted its entry in the list of x yet.
Uncounted(t, x) == pc[t] \in {"register", "blocked"} \/ x \in todo[t]

\* The blocks of the waiters that found the counter of x at its limit and
\* have not reset it yet.
Due(x) ==
  {b \in Block : \E t \in Waiter : ctrl[t] = b /\ at[t] = x /\ pc[t] \in {"lock", "reset"}}

\* The blocks that may be counted in dead_threads[x] and are alive.
Counted(x) ==
  {b \in waiting_threads[x] : \A t \in Waiter : ctrl[t] = b => ~Uncounted(t, x)} \cup Due(x)

\* The garbage that the traversal will leave, where one has begun.
Left(x) == IF \E t \in Waiter : pc[t] = "retain" /\ at[t] = x THEN 0 ELSE garbage[x]

\* Who cleans up has counted its own entry, and holds the mutex.
Cleaners ==
  \A t \in Waiter :
    /\ pc[t] \in {"reset", "retain", "unlock"} => mutex[at[t]] = t
    /\ pc[t] \in {"lock", "reset", "retain", "unlock"} => at[t] \notin todo[t]

\* A waiter knows where it has registered.
Listed ==
  \A t \in Waiter : pc[t] \in {"register", "blocked"} =>
    \A x \in Var : ctrl[t] \in waiting_threads[x] => x \in reads[t]

\* The counter exceeds the limit only while cleanups are due.
LimitAt(x) == dead_threads[x] <= DeadLimit + Cardinality(Due(x))

\* What dies has been counted, up to the blocks alive at the last reset.
BalanceAt(x) == Left(x) + Cardinality(Counted(x)) <= dead_threads[x] + Size

\* While a cleanup holds the mutex no entry is added, and its own is alive.
SweptBy(t) ==
  pc[t] \in {"reset", "retain"} =>
    garbage[at[t]] + Cardinality(waiting_threads[at[t]] \cup {ctrl[t]})
      <= DeadLimit + Cardinality(Waiter) + Size

GarbageInv ==
  /\ Inv /\ Cleaners /\ Listed
  /\ \A x \in Var : LimitAt(x) /\ BalanceAt(x)
  /\ \A t \in Waiter : SweptBy(t)

\* All these blocks are referred to by threads.
LEMMA CountedCard ==
  ASSUME FiniteThreads, TypeOK, Owners, Entries, NEW x \in Var,
         NEW S, S \subseteq waiting_threads[x] \cup Counted(x)
  PROVE  IsFiniteSet(S) /\ Cardinality(S) \in Nat /\ Cardinality(S) <= Size
<1>1. \A b \in S : (\E t \in Waiter : ctrl[t] = b) \/ (\E w \in Waker : held[w] = b)
  BY DEF Entries, Dead, Counted, Due
<1> QED  BY <1>1, ReferredCard

LEMMA DueCard ==
  ASSUME FiniteThreads, NEW x
  PROVE  IsFiniteSet(Due(x)) /\ Cardinality(Due(x)) \in Nat
<1>1. \A b \in Due(x) : \E t \in Waiter : ctrl[t] = b  BY DEF Due
<1> QED  BY <1>1, ImageCard DEF FiniteThreads

LEMMA BoundArithmetic ==
  ASSUME NEW g \in Nat, NEW c \in Nat, NEW l \in Nat, NEW w \in Nat, NEW k \in Nat,
         w # 0, c # 0, g + c <= l + w + (w + k)
  PROVE  g < l + 2 * w + k
OBVIOUS

\* The bound follows: the counter is at most the limit and what is due, and
\* a cleanup has an entry of its own that is not garbage.
LEMMA BoundFollows ==
  ASSUME FiniteThreads, GarbageInv
  PROVE  GarbageBounded
<1> SUFFICES ASSUME NEW x \in Var
             PROVE  garbage[x] < DeadLimit + 2 * Cardinality(Waiter) + Cardinality(Waker)
  BY DEF GarbageBounded
<1> USE DEF GarbageInv, Inv
<1>1. /\ Cardinality(Waiter) \in Nat /\ Cardinality(Waker) \in Nat /\ Cardinality(Waiter) # 0
      /\ DeadLimit \in Nat /\ garbage[x] \in Nat /\ dead_threads[x] \in Nat
  BY FS_CardinalityType, FS_EmptySet, WaitListAssumption DEF FiniteThreads, TypeOK
<1>2. CASE \E t \in Waiter : pc[t] = "retain" /\ at[t] = x
  <2>1. PICK t \in Waiter : pc[t] = "retain" /\ at[t] = x  BY <1>2
  <2> DEFINE S == waiting_threads[x] \cup {ctrl[t]}
  <2>2. IsFiniteSet(S) /\ Cardinality(S) \in Nat
    <3>1. IsFiniteSet(waiting_threads[x])  BY CountedCard
    <3> QED  BY <3>1, WithCard
  <2>3. Cardinality(S) # 0  BY <2>2, FS_EmptySet
  <2>4. garbage[x] + Cardinality(S) <= DeadLimit + Cardinality(Waiter) + Size
    BY <2>1 DEF SweptBy
  <2>5. garbage[x] + Cardinality(S)
          <= DeadLimit + Cardinality(Waiter) + (Cardinality(Waiter) + Cardinality(Waker))
    BY <2>4 DEF Size
  <2> HIDE DEF S
  <2> QED  BY <1>1, <2>2, <2>3, <2>5, BoundArithmetic
<1>3. CASE ~\E t \in Waiter : pc[t] = "retain" /\ at[t] = x
  <2>1. garbage[x] + Cardinality(Counted(x)) <= dead_threads[x] + Size
        /\ dead_threads[x] <= DeadLimit + Cardinality(Due(x))
    BY <1>3 DEF BalanceAt, LimitAt, Left
  <2>2. IsFiniteSet(Counted(x))  BY CountedCard
  <2>3. /\ Cardinality(Due(x)) \in Nat /\ Cardinality(Counted(x)) \in Nat
        /\ Cardinality(Due(x)) <= Cardinality(Counted(x))
    <3>1. Due(x) \subseteq Counted(x)  BY DEF Counted
    <3> QED  BY <2>2, <3>1, SubsetCard
  <2> QED  BY <1>1, <2>1, <2>3 DEF Size
<1> QED  BY <1>2, <1>3

LEMMA GarbageInit == FiniteThreads /\ Init => GarbageInv
<1> SUFFICES ASSUME FiniteThreads, Init PROVE GarbageInv  OBVIOUS
<1>1. Inv  BY InvInit
<1>2. Cleaners /\ Listed  BY DEF Init, Cleaners, Listed
<1>3. \A t \in Waiter : SweptBy(t)  BY DEF Init, SweptBy
<1>4. Size \in Nat  BY FS_CardinalityType DEF FiniteThreads, Size
<1>5. ASSUME NEW x \in Var  PROVE LimitAt(x) /\ BalanceAt(x)
  <2>1. Due(x) = {} /\ Counted(x) = {} /\ Left(x) = 0 /\ dead_threads[x] = 0
    BY DEF Init, Due, Counted, Left
  <2> QED  BY <1>4, <2>1, FS_EmptySet, WaitListAssumption DEF LimitAt, BalanceAt
<1> QED  BY <1>1, <1>2, <1>3, <1>5 DEF GarbageInv

\* A step after which no more is counted, and nothing less is due.
Quiet(x) ==
  /\ Left(x)' <= Left(x) /\ Counted(x)' \subseteq Counted(x) /\ Due(x) \subseteq Due(x)'
  /\ dead_threads'[x] = dead_threads[x]

LEMMA CountedCardNext ==
  ASSUME FiniteThreads, Inv', NEW x \in Var
  PROVE  IsFiniteSet(Counted(x)') /\ Cardinality(Counted(x)') \in Nat
         /\ Cardinality(Counted(x)') <= Size
<1>1. \A b \in Counted(x)' : (\E t \in Waiter : ctrl'[t] = b) \/ (\E w \in Waker : held'[w] = b)
  BY DEF Inv, Entries, Dead, Counted, Due
<1> QED  BY <1>1, ReferredCard

LEMMA DueCardNext ==
  ASSUME FiniteThreads, NEW x
  PROVE  IsFiniteSet(Due(x)') /\ Cardinality(Due(x)') \in Nat
<1>1. \A b \in Due(x)' : \E t \in Waiter : ctrl'[t] = b  BY DEF Due
<1> QED  BY <1>1, ImageCard DEF FiniteThreads

LEMMA Numbers ==
  ASSUME TypeOK, FiniteThreads
  PROVE  /\ Size \in Nat /\ DeadLimit \in Nat
         /\ \A x \in Var : garbage[x] \in Nat /\ dead_threads[x] \in Nat /\ Left(x) \in Nat
BY FS_CardinalityType, WaitListAssumption DEF TypeOK, FiniteThreads, Size, Left

LEMMA NumbersNext ==
  ASSUME TypeOK'
  PROVE  \A x \in Var : garbage'[x] \in Nat /\ dead_threads'[x] \in Nat /\ Left(x)' \in Nat
BY DEF TypeOK, Left

LEMMA QuietStep ==
  ASSUME FiniteThreads, GarbageInv, Inv', NEW x \in Var, Quiet(x)
  PROVE  LimitAt(x)' /\ BalanceAt(x)'
<1> USE DEF GarbageInv, Inv
<1>1. /\ Size \in Nat /\ DeadLimit \in Nat /\ dead_threads[x] \in Nat /\ Left(x) \in Nat
      /\ dead_threads'[x] = dead_threads[x] /\ Left(x)' \in Nat /\ Left(x)' <= Left(x)
  BY Numbers, NumbersNext DEF Quiet
<1>2. LimitAt(x)'
  <2>1. IsFiniteSet(Due(x)') /\ Due(x) \subseteq Due(x)'  BY DueCardNext DEF Quiet
  <2>2. /\ Cardinality(Due(x)) \in Nat /\ Cardinality(Due(x)') \in Nat
        /\ Cardinality(Due(x)) <= Cardinality(Due(x)')
    BY <2>1, SubsetCard
  <2>3. dead_threads[x] <= DeadLimit + Cardinality(Due(x))  BY DEF LimitAt
  <2> QED  BY <1>1, <2>2, <2>3 DEF LimitAt
<1>3. BalanceAt(x)'
  <2>1. IsFiniteSet(Counted(x)) /\ Counted(x)' \subseteq Counted(x)  BY CountedCard DEF Quiet
  <2>2. /\ Cardinality(Counted(x)) \in Nat /\ Cardinality(Counted(x)') \in Nat
        /\ Cardinality(Counted(x)') <= Cardinality(Counted(x))
    BY <2>1, SubsetCard
  <2>3. Left(x) + Cardinality(Counted(x)) <= dead_threads[x] + Size  BY DEF BalanceAt
  <2> QED  BY <1>1, <2>2, <2>3 DEF BalanceAt
<1> QED  BY <1>2, <1>3

\* A cleanup that goes on, in a list that gets no entries.
LEMMA SweptKept ==
  ASSUME FiniteThreads, GarbageInv, Inv', NEW t \in Waiter,
         pc[t] \in {"reset", "retain"}, at'[t] = at[t], ctrl'[t] = ctrl[t],
         garbage'[at[t]] = garbage[at[t]], waiting_threads'[at[t]] \subseteq waiting_threads[at[t]]
  PROVE  SweptBy(t)'
<1> USE DEF GarbageInv, Inv
<1> DEFINE x == at[t]
           S == waiting_threads[x] \cup {ctrl[t]}
           T == waiting_threads'[x] \cup {ctrl[t]}
<1>1. x \in Var  BY DEF Cleaning
<1>2. IsFiniteSet(S)
  <2>1. IsFiniteSet(waiting_threads[x])  BY <1>1, CountedCard
  <2> QED  BY <2>1, WithCard
<1>3. Cardinality(S) \in Nat /\ Cardinality(T) \in Nat /\ Cardinality(T) <= Cardinality(S)
  BY <1>2, SubsetCard
<1>4. garbage[x] + Cardinality(S) <= DeadLimit + Cardinality(Waiter) + Size  BY DEF SweptBy
<1>5. Cardinality(Waiter) \in Nat /\ Size \in Nat /\ DeadLimit \in Nat /\ garbage[x] \in Nat
  BY <1>1, Numbers, FS_CardinalityType DEF FiniteThreads
<1>6. garbage'[x] + Cardinality(T) <= DeadLimit + Cardinality(Waiter) + Size
  <2> HIDE DEF S, T
  <2> QED  BY <1>3, <1>4, <1>5
<1> QED  BY <1>6 DEF SweptBy

\* A waiter arrives, registers, goes to sleep or wakes up: its entries are not
\* counted before it reports them, and it adds none to a list being cleaned.
LEMMA GarbageBegin ==
  ASSUME FiniteThreads, GarbageInv, Inv', NEW t \in Waiter, NEW b \in Block,
         NEW S \in SUBSET Var, Begin(t, b, S)
  PROVE  GarbageInv'
<1> USE DEF GarbageInv, Inv
<1>1. /\ pc[t] = "run" /\ pc' = [pc EXCEPT ![t] = "register"] /\ ctrl[t] = Nil
      /\ ctrl' = [ctrl EXCEPT ![t] = b] /\ todo' = [todo EXCEPT ![t] = S]
      /\ \A u \in Waiter : ctrl[u] # b
      /\ \A x \in Var : b \notin waiting_threads[x]
      /\ UNCHANGED <<waiting_threads, garbage, dead_threads, mutex, reads, at>>
  BY DEF Begin, Goto, Owners, Entries, Dead
<1>2. ASSUME NEW x \in Var  PROVE LimitAt(x)' /\ BalanceAt(x)'
  <2>1. Due(x)' = Due(x)  BY <1>1 DEF Due, TypeOK
  <2>2. Counted(x)' \subseteq Counted(x)
    BY <1>1, <2>1, WaitListAssumption DEF Counted, Uncounted, TypeOK
  <2>3. Left(x)' = Left(x)  BY <1>1 DEF Left, TypeOK
  <2> QED  BY <1>1, <2>1, <2>2, <2>3, QuietStep, Numbers DEF Quiet
<1>3. Cleaners'  BY <1>1 DEF Cleaners, TypeOK
<1>4. Listed'  BY <1>1 DEF Listed, TypeOK
<1>5. ASSUME NEW u \in Waiter, pc'[u] \in {"reset", "retain"}  PROVE SweptBy(u)'
  <2>1. u # t /\ pc[u] \in {"reset", "retain"}  BY <1>1, <1>5 DEF TypeOK
  <2> QED  BY <1>1, <2>1, SweptKept DEF TypeOK
<1> QED  BY <1>2, <1>3, <1>4, <1>5 DEF SweptBy

LEMMA GarbageWait ==
  ASSUME FiniteThreads, GarbageInv, Inv', NEW t \in Waiter, NEW y \in Var,
         Wait(t, y) \/ WaitChanged(t, y)
  PROVE  GarbageInv'
<1> USE DEF GarbageInv, Inv
<1>1. /\ pc[t] = "register" /\ mutex[y] = Nil /\ ctrl[t] \in Block
      /\ waiting_threads' = [waiting_threads EXCEPT ![y] = @ \cup {ctrl[t]}]
      /\ reads' = [reads EXCEPT ![t] = @ \cup {y}]
      /\ \/ UNCHANGED pc
         \/ pc' = [pc EXCEPT ![t] = "dead"] /\ todo'[t] = reads[t] \cup {y}
      /\ \A u \in Waiter \ {t} : todo'[u] = todo[u]
      /\ UNCHANGED <<garbage, dead_threads, mutex, ctrl, at>>
  BY DEF Wait, WaitChanged, Goto, Free, Owners, TypeOK
<1>2. ASSUME NEW x \in Var  PROVE LimitAt(x)' /\ BalanceAt(x)'
  <2>1. Due(x)' = Due(x)  BY <1>1 DEF Due, TypeOK
  <2>2. Counted(x)' \subseteq Counted(x)
    <3> SUFFICES ASSUME NEW c \in waiting_threads'[x],
                        \A u \in Waiter : ctrl'[u] = c => ~Uncounted(u, x)'
                 PROVE  c \in Counted(x)
      BY <2>1 DEF Counted
    <3>1. ctrl[t] \in waiting_threads'[x] => Uncounted(t, x)'
      BY <1>1 DEF Uncounted, Listed, TypeOK
    <3>2. c # ctrl[t]  BY <1>1, <3>1
    <3>3. c \in waiting_threads[x]  BY <1>1, <3>2 DEF TypeOK
    <3>4. \A u \in Waiter \ {t} : Uncounted(u, x)' <=> Uncounted(u, x)
      BY <1>1 DEF Uncounted, TypeOK
    <3> QED  BY <1>1, <3>2, <3>3, <3>4 DEF Counted
  <2>3. Left(x)' = Left(x)  BY <1>1 DEF Left, TypeOK
  <2> QED  BY <1>1, <2>1, <2>2, <2>3, QuietStep, Numbers DEF Quiet
<1>3. Cleaners'  BY <1>1 DEF Cleaners, TypeOK
<1>4. Listed'  BY <1>1 DEF Listed, Owners, TypeOK
<1>5. ASSUME NEW u \in Waiter, pc'[u] \in {"reset", "retain"}  PROVE SweptBy(u)'
  <2>1. u # t /\ pc[u] \in {"reset", "retain"}  BY <1>1, <1>5 DEF TypeOK
  <2>2. at[u] # y  BY <1>1, <2>1, WaitListAssumption DEF Cleaners
  <2>3. waiting_threads'[at[u]] = waiting_threads[at[u]]  BY <1>1, <2>1, <2>2 DEF TypeOK, Cleaning
  <2> QED  BY <1>1, <2>1, <2>3, SweptKept
<1> QED  BY <1>2, <1>3, <1>4, <1>5 DEF SweptBy

LEMMA GarbageSleep ==
  ASSUME FiniteThreads, GarbageInv, Inv', NEW t \in Waiter, GoToSleep(t) \/ Woken(t)
  PROVE  GarbageInv'
<1> USE DEF GarbageInv, Inv
<1>1. /\ \/ pc[t] = "register" /\ pc' = [pc EXCEPT ![t] = "blocked"] /\ UNCHANGED todo
         \/ /\ pc[t] = "blocked" /\ pc' = [pc EXCEPT ![t] = "dead"]
            /\ todo' = [todo EXCEPT ![t] = reads[t]]
      /\ UNCHANGED <<waiting_threads, garbage, dead_threads, mutex, ctrl, reads, at>>
  BY DEF GoToSleep, Woken, Goto
<1>2. ASSUME NEW x \in Var  PROVE LimitAt(x)' /\ BalanceAt(x)'
  <2>1. Due(x)' = Due(x)  BY <1>1 DEF Due, TypeOK
  <2>2. \A u \in Waiter : ctrl[u] \in waiting_threads[x] /\ Uncounted(u, x) => Uncounted(u, x)'
    BY <1>1 DEF Uncounted, Listed, TypeOK
  <2>3. Counted(x)' \subseteq Counted(x)  BY <1>1, <2>1, <2>2 DEF Counted
  <2>4. Left(x)' = Left(x)  BY <1>1 DEF Left, TypeOK
  <2> QED  BY <1>1, <2>1, <2>3, <2>4, QuietStep, Numbers DEF Quiet
<1>3. Cleaners'  BY <1>1 DEF Cleaners, TypeOK
<1>4. Listed'  BY <1>1 DEF Listed, TypeOK
<1>5. ASSUME NEW u \in Waiter, pc'[u] \in {"reset", "retain"}  PROVE SweptBy(u)'
  <2>1. u # t /\ pc[u] \in {"reset", "retain"}  BY <1>1, <1>5 DEF TypeOK
  <2> QED  BY <1>1, <2>1, SweptKept
<1> QED  BY <1>2, <1>3, <1>4, <1>5 DEF SweptBy

\* A waiter counts its entry.  If the counter has reached the limit, one more
\* cleanup is due.
LEMMA GarbageSetDead ==
  ASSUME FiniteThreads, GarbageInv, Inv', NEW t \in Waiter, NEW y \in Var, SetDead(t, y)
  PROVE  GarbageInv'
<1> USE DEF GarbageInv, Inv
<1>1. /\ pc[t] = "dead" /\ y \in todo[t] /\ ctrl[t] \in Block
      /\ todo' = [todo EXCEPT ![t] = @ \ {y}]
      /\ dead_threads' = [dead_threads EXCEPT ![y] = @ + 1]
      /\ \A u \in Waiter \ {t} : pc'[u] = pc[u] /\ at'[u] = at[u]
      /\ \/ dead_threads[y] >= DeadLimit /\ pc'[t] = "lock" /\ at'[t] = y
         \/ ~(dead_threads[y] >= DeadLimit) /\ pc'[t] = "dead" /\ at'[t] = at[t]
      /\ UNCHANGED <<waiting_threads, garbage, mutex, ctrl, reads>>
  BY DEF SetDead, Goto, Owners, TypeOK
<1>2. \A u \in Waiter, x \in Var : u # t \/ x # y => (Uncounted(u, x)' <=> Uncounted(u, x))
  BY <1>1 DEF Uncounted, TypeOK
<1>3. \A x \in Var : Left(x)' = Left(x)
  BY <1>1 DEF Left
<1>4. ASSUME NEW x \in Var, x # y  PROVE LimitAt(x)' /\ BalanceAt(x)'
  <2>1. Due(x)' = Due(x)  BY <1>1, <1>4 DEF Due
  <2>2. Counted(x)' \subseteq Counted(x)  BY <1>1, <1>2, <1>4, <2>1 DEF Counted
  <2>3. dead_threads'[x] = dead_threads[x]  BY <1>1, <1>4 DEF TypeOK
  <2> QED  BY <1>3, <2>1, <2>2, <2>3, QuietStep, Numbers DEF Quiet
<1>5. LimitAt(y)'
  <2>1. /\ dead_threads[y] \in Nat /\ dead_threads'[y] = dead_threads[y] + 1 /\ DeadLimit \in Nat
        /\ dead_threads[y] <= DeadLimit + Cardinality(Due(y))
        /\ Cardinality(Due(y)) \in Nat /\ Cardinality(Due(y)') \in Nat
    BY <1>1, DueCard, DueCardNext, WaitListAssumption DEF TypeOK, LimitAt
  <2>2. CASE ~(dead_threads[y] >= DeadLimit)  BY <2>1, <2>2 DEF LimitAt
  <2>3. CASE dead_threads[y] >= DeadLimit
    <3>1. Due(y)' = Due(y) \cup {ctrl[t]}  BY <1>1, <2>3 DEF Due
    <3>2. ctrl[t] \notin Due(y)  BY <1>1, WaitListAssumption DEF Due, Owners
    <3>3. Cardinality(Due(y)') = Cardinality(Due(y)) + 1  BY <3>1, <3>2, WithCard, DueCard
    <3> QED  BY <2>1, <3>3 DEF LimitAt
  <2> QED  BY <2>2, <2>3
<1>6. BalanceAt(y)'
  <2>1. Counted(y)' \subseteq Counted(y) \cup {ctrl[t]}
    <3>1. Due(y)' \subseteq Due(y) \cup {ctrl[t]}  BY <1>1 DEF Due
    <3> QED  BY <1>1, <1>2, <3>1 DEF Counted
  <2>2. IsFiniteSet(Counted(y))  BY CountedCard
  <2>3. /\ IsFiniteSet(Counted(y) \cup {ctrl[t]}) /\ Cardinality(Counted(y)) \in Nat
        /\ Cardinality(Counted(y) \cup {ctrl[t]}) \in Nat
        /\ Cardinality(Counted(y) \cup {ctrl[t]}) <= Cardinality(Counted(y)) + 1
    BY <2>2, WithCard
  <2>4. /\ Cardinality(Counted(y)') \in Nat
        /\ Cardinality(Counted(y)') <= Cardinality(Counted(y) \cup {ctrl[t]})
    BY <2>1, <2>3, SubsetCard
  <2>5. /\ Left(y) \in Nat /\ Left(y)' = Left(y) /\ Size \in Nat /\ dead_threads[y] \in Nat
        /\ dead_threads'[y] = dead_threads[y] + 1
        /\ Left(y) + Cardinality(Counted(y)) <= dead_threads[y] + Size
    BY <1>1, <1>3, Numbers DEF BalanceAt, TypeOK
  <2> QED  BY <2>3, <2>4, <2>5 DEF BalanceAt
<1>7. Cleaners'  BY <1>1 DEF Cleaners, TypeOK
<1>8. Listed'  BY <1>1 DEF Listed
<1>9. ASSUME NEW u \in Waiter, pc'[u] \in {"reset", "retain"}  PROVE SweptBy(u)'
  <2>1. u # t /\ pc[u] \in {"reset", "retain"}  BY <1>1, <1>9
  <2> QED  BY <1>1, <2>1, SweptKept
<1> QED  BY <1>4, <1>5, <1>6, <1>7, <1>8, <1>9 DEF SweptBy

\* When the cleanup begins, the garbage is what the counter allows; what has
\* not been counted belongs to waiters that are not due.
LEMMA SweptLock ==
  ASSUME FiniteThreads, GarbageInv, NEW t \in Waiter, LockList(t)
  PROVE  garbage[at[t]] + Cardinality(waiting_threads[at[t]] \cup {ctrl[t]})
           <= DeadLimit + Cardinality(Waiter) + Size
<1> USE DEF GarbageInv, Inv
<1> DEFINE x == at[t]
           S == waiting_threads[x] \cup {ctrl[t]}
           C == Counted(x)
           D == Due(x)
           U == {b \in waiting_threads[x] : b \notin C}
<1>1. x \in Var /\ mutex[x] = Nil /\ pc[t] = "lock"  BY DEF LockList, Free, Cleaning
<1>2. garbage[x] + Cardinality(C) <= dead_threads[x] + Size
      /\ dead_threads[x] <= DeadLimit + Cardinality(D)
  <2>1. Left(x) = garbage[x]  BY <1>1, WaitListAssumption DEF Left, Cleaners
  <2> QED  BY <1>1, <2>1 DEF LimitAt, BalanceAt
<1>3. \A b \in D \cup U : \E u \in Waiter : ctrl[u] = b  BY DEF Due, Counted
<1>4. /\ IsFiniteSet(D \cup U) /\ Cardinality(D \cup U) \in Nat
      /\ Cardinality(D \cup U) <= Cardinality(Waiter)
  <2> HIDE DEF D, U
  <2> QED  BY <1>3, ImageCard DEF FiniteThreads
<1>5. D \cap U = {} /\ S \subseteq C \cup U
  BY <1>1 DEF Due, Counted, Owners, TypeOK
<1>6. IsFiniteSet(C)  BY <1>1, CountedCard
<1> HIDE DEF C, D, U, S
<1>7. /\ IsFiniteSet(D) /\ Cardinality(D) \in Nat /\ IsFiniteSet(U) /\ Cardinality(U) \in Nat
      /\ Cardinality(D) + Cardinality(U) <= Cardinality(Waiter)
  <2>1. IsFiniteSet(D) /\ IsFiniteSet(U)  BY <1>4, SubsetCard
  <2>2. Cardinality(D) \in Nat /\ Cardinality(U) \in Nat  BY <2>1, FS_CardinalityType
  <2>3. Cardinality(D \cup U) = Cardinality(D) + Cardinality(U) - 0
    BY <1>5, <2>1, FS_Union, FS_EmptySet
  <2> QED  BY <1>4, <2>1, <2>2, <2>3
<1>8. Cardinality(S) \in Nat /\ Cardinality(C) \in Nat /\ Cardinality(S) <= Cardinality(C) + Cardinality(U)
  <2>1. /\ IsFiniteSet(C \cup U)
        /\ Cardinality(C \cup U) = Cardinality(C) + Cardinality(U) - Cardinality(C \cap U)
    BY <1>6, <1>7, FS_Union
  <2>2. Cardinality(C \cap U) \in Nat /\ Cardinality(C) \in Nat
    BY <1>6, FS_Intersection, FS_CardinalityType
  <2>3. Cardinality(S) \in Nat /\ Cardinality(S) <= Cardinality(C \cup U)
    BY <1>5, <2>1, SubsetCard
  <2> QED  BY <1>7, <2>1, <2>2, <2>3
<1>9. /\ Cardinality(Waiter) \in Nat /\ Size \in Nat /\ DeadLimit \in Nat /\ garbage[x] \in Nat
      /\ dead_threads[x] \in Nat
  BY <1>1, Numbers, FS_CardinalityType DEF FiniteThreads
<1>10. garbage[x] + Cardinality(S) <= DeadLimit + Cardinality(Waiter) + Size
  BY <1>2, <1>7, <1>8, <1>9
<1> QED  BY <1>10 DEF S

LEMMA GarbageLock ==
  ASSUME FiniteThreads, GarbageInv, Inv', NEW t \in Waiter, LockList(t)
  PROVE  GarbageInv'
<1> USE DEF GarbageInv, Inv
<1>1. /\ pc[t] = "lock" /\ pc' = [pc EXCEPT ![t] = "reset"] /\ at[t] \in Var
      /\ mutex[at[t]] = Nil /\ mutex' = [mutex EXCEPT ![at[t]] = t]
      /\ UNCHANGED <<waiting_threads, garbage, dead_threads, ctrl, reads, todo, at>>
  BY DEF LockList, Goto, Free, Cleaning
<1>2. ASSUME NEW x \in Var  PROVE LimitAt(x)' /\ BalanceAt(x)'
  <2>1. Due(x)' = Due(x)  BY <1>1 DEF Due, TypeOK
  <2>2. Counted(x)' = Counted(x)  BY <1>1, <2>1 DEF Counted, Uncounted, TypeOK
  <2>3. Left(x)' = Left(x)  BY <1>1 DEF Left, TypeOK
  <2> QED  BY <1>1, <2>1, <2>2, <2>3, QuietStep, Numbers DEF Quiet
<1>3. Cleaners'  BY <1>1, WaitListAssumption DEF Cleaners, Cleaning, TypeOK
<1>4. Listed'  BY <1>1 DEF Listed, TypeOK
<1>5. ASSUME NEW u \in Waiter, pc'[u] \in {"reset", "retain"}  PROVE SweptBy(u)'
  <2>1. CASE u = t  BY <1>1, <2>1, SweptLock DEF SweptBy
  <2>2. CASE u # t
    <3>1. pc[u] \in {"reset", "retain"}  BY <1>1, <1>5, <2>2 DEF TypeOK
    <3> QED  BY <1>1, <3>1, SweptKept
  <2> QED  BY <2>1, <2>2
<1> QED  BY <1>2, <1>3, <1>4, <1>5 DEF SweptBy

\* The counter starts again from nothing.
LEMMA GarbageReset ==
  ASSUME FiniteThreads, GarbageInv, Inv', NEW t \in Waiter, ResetCount(t)
  PROVE  GarbageInv'
<1> USE DEF GarbageInv, Inv
<1>1. /\ pc[t] = "reset" /\ pc' = [pc EXCEPT ![t] = "retain"] /\ at[t] \in Var
      /\ dead_threads' = [dead_threads EXCEPT ![at[t]] = 0]
      /\ UNCHANGED <<waiting_threads, garbage, mutex, ctrl, reads, todo, at>>
  BY DEF ResetCount, Goto, Cleaning
<1>2. ASSUME NEW x \in Var, x # at[t]  PROVE LimitAt(x)' /\ BalanceAt(x)'
  <2>1. Due(x)' = Due(x)  BY <1>1, <1>2 DEF Due, TypeOK
  <2>2. Counted(x)' = Counted(x)  BY <1>1, <2>1 DEF Counted, Uncounted, TypeOK
  <2>3. Left(x)' = Left(x) /\ dead_threads'[x] = dead_threads[x]
    BY <1>1, <1>2 DEF Left, TypeOK
  <2> QED  BY <2>1, <2>2, <2>3, QuietStep, Numbers DEF Quiet
<1>3. ASSUME NEW x \in Var, x = at[t]  PROVE LimitAt(x)' /\ BalanceAt(x)'
  <2>1. dead_threads'[x] = 0 /\ Left(x)' = 0  BY <1>1, <1>3 DEF Left, TypeOK
  <2>2. Cardinality(Due(x)') \in Nat /\ DeadLimit \in Nat /\ Size \in Nat
    BY DueCardNext, Numbers
  <2>3. Cardinality(Counted(x)') \in Nat /\ Cardinality(Counted(x)') <= Size
    BY CountedCardNext
  <2> QED  BY <2>1, <2>2, <2>3 DEF LimitAt, BalanceAt
<1>4. Cleaners'  BY <1>1 DEF Cleaners, TypeOK
<1>5. Listed'  BY <1>1 DEF Listed, TypeOK
<1>6. ASSUME NEW u \in Waiter, pc'[u] \in {"reset", "retain"}  PROVE SweptBy(u)'
  <2>1. pc[u] \in {"reset", "retain"}  BY <1>1, <1>6 DEF TypeOK
  <2> QED  BY <1>1, <2>1, SweptKept
<1> QED  BY <1>2, <1>3, <1>4, <1>5, <1>6 DEF SweptBy

\* The traversal removes what was garbage when it began.
LEMMA GarbageRetain ==
  ASSUME FiniteThreads, GarbageInv, Inv', NEW t \in Waiter, Retain(t) \/ UnlockList(t)
  PROVE  GarbageInv'
<1> USE DEF GarbageInv, Inv
<1>1. /\ at[t] \in Var /\ mutex[at[t]] = t
      /\ \/ /\ pc[t] = "retain" /\ pc' = [pc EXCEPT ![t] = "unlock"]
            /\ garbage' = [garbage EXCEPT ![at[t]] = 0] /\ UNCHANGED <<mutex, at>>
         \/ /\ pc[t] = "unlock" /\ pc' = [pc EXCEPT ![t] = "dead"]
            /\ mutex' = [mutex EXCEPT ![at[t]] = Nil] /\ at' = [at EXCEPT ![t] = Nil]
            /\ UNCHANGED garbage
      /\ UNCHANGED <<waiting_threads, dead_threads, ctrl, reads, todo>>
  BY DEF Retain, UnlockList, Goto, Cleaning, Cleaners
<1>2. ASSUME NEW x \in Var  PROVE LimitAt(x)' /\ BalanceAt(x)'
  <2>1. Due(x)' = Due(x)  BY <1>1 DEF Due, TypeOK
  <2>2. Counted(x)' = Counted(x)  BY <1>1, <2>1 DEF Counted, Uncounted, TypeOK
  <2>3. Left(x)' <= Left(x)  BY <1>1 DEF Left, TypeOK
  <2> QED  BY <1>1, <2>1, <2>2, <2>3, QuietStep DEF Quiet
<1>3. \A u \in Waiter \ {t} : pc[u] \in {"reset", "retain", "unlock"} => at[u] # at[t]
  BY <1>1 DEF Cleaners
<1>4. Cleaners'  BY <1>1, <1>3 DEF Cleaners, Cleaning, TypeOK
<1>5. Listed'  BY <1>1 DEF Listed, TypeOK
<1>6. ASSUME NEW u \in Waiter, pc'[u] \in {"reset", "retain"}  PROVE SweptBy(u)'
  <2>1. u # t /\ pc[u] \in {"reset", "retain"}  BY <1>1, <1>6 DEF TypeOK
  <2>2. garbage'[at[u]] = garbage[at[u]] /\ at'[u] = at[u]  BY <1>1, <1>3, <2>1 DEF TypeOK, Cleaning
  <2> QED  BY <1>1, <2>1, <2>2, SweptKept
<1> QED  BY <1>2, <1>4, <1>5, <1>6 DEF SweptBy

\* wake_all empties the list, which nobody is cleaning up.
LEMMA GarbageTake ==
  ASSUME FiniteThreads, GarbageInv, Inv', NEW w \in Waker, NEW y \in Var, TakeAll(w, y)
  PROVE  GarbageInv'
<1> USE DEF GarbageInv, Inv
<1>1. /\ mutex[y] = Nil /\ waiting_threads' = [waiting_threads EXCEPT ![y] = {}]
      /\ garbage' = [garbage EXCEPT ![y] = 0]
      /\ UNCHANGED <<dead_threads, mutex, pc, ctrl, reads, todo, at>>
  BY DEF TakeAll, Free
<1>2. ASSUME NEW x \in Var  PROVE LimitAt(x)' /\ BalanceAt(x)'
  <2>1. Due(x)' = Due(x)  BY <1>1 DEF Due
  <2>2. Counted(x)' \subseteq Counted(x)  BY <1>1, <2>1 DEF Counted, Uncounted, TypeOK
  <2>3. Left(x)' <= Left(x)  BY <1>1 DEF Left, TypeOK
  <2> QED  BY <1>1, <2>1, <2>2, <2>3, QuietStep DEF Quiet
<1>3. Cleaners' /\ Listed'  BY <1>1 DEF Cleaners, Listed, TypeOK
<1>4. ASSUME NEW u \in Waiter, pc'[u] \in {"reset", "retain"}  PROVE SweptBy(u)'
  <2>1. pc[u] \in {"reset", "retain"} /\ at[u] # y
    BY <1>1, <1>4, WaitListAssumption DEF Cleaners
  <2>2. /\ garbage'[at[u]] = garbage[at[u]]
        /\ waiting_threads'[at[u]] = waiting_threads[at[u]]
    BY <1>1, <2>1 DEF TypeOK, Cleaning
  <2> QED  BY <1>1, <2>1, <2>2, SweptKept
<1> QED  BY <1>2, <1>3, <1>4 DEF SweptBy

\* Nothing in the lists changes, or nothing at all.
LEMMA GarbageFrame ==
  ASSUME GarbageInv, Inv', UNCHANGED <<listVars, waiterVars>>
  PROVE  GarbageInv'
BY DEF GarbageInv, Cleaners, Listed, LimitAt, BalanceAt, SweptBy, Due, Counted, Uncounted, Left

\* The only waiters that stop referring to b have counted all their entries,
\* and leave.
Leaves(b) ==
  /\ \A u \in Waiter :
       \/ /\ pc'[u] = pc[u] /\ ctrl'[u] = ctrl[u] /\ at'[u] = at[u] /\ todo'[u] = todo[u]
          /\ reads'[u] = reads[u]
       \/ pc[u] = "dead" /\ todo[u] = {} /\ ctrl[u] = b /\ pc'[u] = "run" /\ ctrl'[u] = Nil
  /\ \A u \in Waiter : ctrl'[u] # b
  /\ UNCHANGED <<dead_threads, mutex>>

\* Where the entry of b is kept, because a waker still refers to b.
LEMMA GarbageLeave ==
  ASSUME FiniteThreads, GarbageInv, Inv', NEW b \in Block, Leaves(b),
         UNCHANGED <<waiting_threads, garbage>>
  PROVE  GarbageInv'
<1> USE DEF GarbageInv, Inv
<1>1. ASSUME NEW x \in Var  PROVE LimitAt(x)' /\ BalanceAt(x)'
  <2>1. Due(x)' = Due(x)  BY WaitListAssumption DEF Due, Leaves
  <2>2. Counted(x)' \subseteq Counted(x)
    BY <2>1 DEF Counted, Uncounted, Leaves, TypeOK
  <2>3. Left(x)' = Left(x)  BY DEF Left, Leaves
  <2> QED  BY <2>1, <2>2, <2>3, QuietStep, Numbers DEF Quiet, Leaves
<1>2. Cleaners' /\ Listed'  BY DEF Cleaners, Listed, Leaves
<1>3. ASSUME NEW u \in Waiter, pc'[u] \in {"reset", "retain"}  PROVE SweptBy(u)'
  BY <1>3, SweptKept DEF Leaves
<1> QED  BY <1>1, <1>2, <1>3 DEF SweptBy

\* Where it becomes garbage: it was counted.
LEMMA GarbageDeath ==
  ASSUME FiniteThreads, GarbageInv, Inv', NEW b \in Block, Leaves(b), Perish(b)
  PROVE  GarbageInv'
<1> USE DEF GarbageInv, Inv
<1>1. \A x \in Var :
        /\ waiting_threads'[x] = waiting_threads[x] \ {b}
        /\ b \notin waiting_threads[x] => garbage'[x] = garbage[x]
        /\ garbage'[x] \in Nat /\ garbage[x] \in Nat /\ garbage'[x] <= garbage[x] + 1
  BY DEF Perish, TypeOK
<1>2. \A x \in Var : Due(x)' = Due(x)  BY WaitListAssumption DEF Due, Leaves
<1>3. \A x \in Var : Counted(x)' \subseteq Counted(x) \ {b}
  <2> SUFFICES ASSUME NEW x \in Var  PROVE Counted(x)' \subseteq Counted(x) \ {b}  OBVIOUS
  <2>1. b \notin Due(x)'  BY DEF Due, Leaves
  <2> QED  BY <1>1, <1>2, <2>1 DEF Counted, Uncounted, Leaves, TypeOK
<1>4. ASSUME NEW x \in Var, b \notin waiting_threads[x]  PROVE LimitAt(x)' /\ BalanceAt(x)'
  <2>1. Left(x)' = Left(x)  BY <1>1, <1>4 DEF Left, Leaves
  <2> QED  BY <1>2, <1>3, <2>1, QuietStep, Numbers DEF Quiet, Leaves
<1>5. ASSUME NEW x \in Var, b \in waiting_threads[x]  PROVE LimitAt(x)' /\ BalanceAt(x)'
  <2>1. LimitAt(x)'  BY <1>2 DEF LimitAt, Leaves
  <2>2. b \in Counted(x)  BY <1>5 DEF Counted, Uncounted, Leaves
  <2>3. IsFiniteSet(Counted(x))  BY CountedCard
  <2>4. /\ IsFiniteSet(Counted(x) \ {b}) /\ Cardinality(Counted(x) \ {b}) \in Nat
        /\ Cardinality(Counted(x)) = Cardinality(Counted(x) \ {b}) + 1
    BY <2>2, <2>3, WithoutCard
  <2>5. /\ Cardinality(Counted(x)') \in Nat
        /\ Cardinality(Counted(x)') <= Cardinality(Counted(x) \ {b})
    BY <1>3, <2>4, SubsetCard
  <2>6. Left(x) \in Nat /\ Left(x)' \in Nat /\ Left(x)' <= Left(x) + 1
    BY <1>1 DEF Left, Leaves
  <2>7. /\ Left(x) + Cardinality(Counted(x)) <= dead_threads[x] + Size
        /\ Size \in Nat /\ dead_threads[x] \in Nat /\ dead_threads'[x] = dead_threads[x]
    BY Numbers DEF BalanceAt, Leaves
  <2>8. BalanceAt(x)'  BY <2>4, <2>5, <2>6, <2>7 DEF BalanceAt
  <2> QED  BY <2>1, <2>8
<1>6. Cleaners' /\ Listed'  BY <1>1 DEF Cleaners, Listed, Leaves
<1>7. ASSUME NEW u \in Waiter, pc'[u] \in {"reset", "retain"}  PROVE SweptBy(u)'
  <2> DEFINE x == at[u]
             S == waiting_threads[x] \cup {ctrl[u]}
             T == waiting_threads'[x] \cup {ctrl[u]}
  <2>1. /\ pc[u] \in {"reset", "retain"} /\ at'[u] = x /\ ctrl'[u] = ctrl[u] /\ ctrl[u] # b
        /\ x \in Var
    BY <1>7 DEF Leaves, Cleaning
  <2>2. CASE b \notin waiting_threads[x]  BY <1>1, <2>1, <2>2, SweptKept
  <2>3. CASE b \in waiting_threads[x]
    <3>1. T = S \ {b} /\ b \in S  BY <1>1, <2>1, <2>3
    <3>2. IsFiniteSet(S)
      <4>1. IsFiniteSet(waiting_threads[x])  BY <2>1, CountedCard
      <4> QED  BY <4>1, WithCard
    <3>3. Cardinality(T) \in Nat /\ Cardinality(S) = Cardinality(T) + 1
      <4> HIDE DEF S, T
      <4> QED  BY <3>1, <3>2, WithoutCard
    <3>4. garbage[x] + Cardinality(S) <= DeadLimit + Cardinality(Waiter) + Size
      BY <2>1 DEF SweptBy
    <3>5. Cardinality(Waiter) \in Nat /\ Size \in Nat /\ DeadLimit \in Nat
      BY Numbers, FS_CardinalityType DEF FiniteThreads
    <3>6. garbage'[x] \in Nat /\ garbage[x] \in Nat /\ garbage'[x] <= garbage[x] + 1
      BY <1>1, <2>1
    <3>7. garbage'[x] + Cardinality(T) <= DeadLimit + Cardinality(Waiter) + Size
      <4> HIDE DEF S, T
      <4> QED  BY <3>3, <3>4, <3>5, <3>6
    <3> QED  BY <2>1, <3>7 DEF SweptBy
  <2> QED  BY <2>2, <2>3
<1> QED  BY <1>4, <1>5, <1>6, <1>7 DEF SweptBy

LEMMA GarbageEnd ==
  ASSUME FiniteThreads, GarbageInv, Inv', NEW t \in Waiter, End(t)
  PROVE  GarbageInv'
<1> USE DEF GarbageInv, Inv
<1>1. PICK b \in Block : b = ctrl[t]  BY DEF End, Owners, TypeOK
<1>2. Leaves(b)
  <2>1. /\ pc[t] = "dead" /\ todo[t] = {} /\ pc' = [pc EXCEPT ![t] = "run"]
        /\ ctrl' = [ctrl EXCEPT ![t] = Nil] /\ reads' = [reads EXCEPT ![t] = {}]
        /\ UNCHANGED <<dead_threads, mutex, todo, at>>
    BY DEF End, Goto
  <2>2. \A u \in Waiter \ {t} : ctrl[u] # b  BY <1>1, WaitListAssumption DEF Owners
  <2> QED  BY <1>1, <2>1, <2>2, WaitListAssumption DEF Leaves, TypeOK
<1>3. CASE \E w \in Waker : held[w] = b  BY <1>1, <1>2, <1>3, GarbageLeave DEF End
<1>4. CASE ~\E w \in Waker : held[w] = b  BY <1>1, <1>2, <1>4, GarbageDeath DEF End
<1> QED  BY <1>3, <1>4

LEMMA GarbageSetChanged ==
  ASSUME FiniteThreads, GarbageInv, Inv', NEW w \in Waker, SetChanged(w)
  PROVE  GarbageInv'
<1> USE DEF GarbageInv, Inv
<1>1. PICK b \in Block : b = held[w]  BY DEF SetChanged, TypeOK
<1> DEFINE shared == (\E t \in Waiter : ctrl[t] = b) \/ (\E v \in Waker \ {w} : held[v] = b)
<1>2. UNCHANGED <<dead_threads, mutex, waiterVars>>  BY DEF SetChanged
<1>3. CASE shared
  <2>1. UNCHANGED <<waiting_threads, garbage>>  BY <1>1, <1>3 DEF SetChanged
  <2> QED  BY <1>2, <2>1, GarbageFrame
<1>4. CASE ~shared
  <2>1. Perish(b)  BY <1>1, <1>4 DEF SetChanged
  <2>2. Leaves(b)  BY <1>2, <1>4 DEF Leaves
  <2> QED  BY <2>1, <2>2, GarbageDeath
<1> QED  BY <1>3, <1>4

LEMMA GarbageStep == FiniteThreads /\ GarbageInv /\ [Next]_vars => GarbageInv'
<1> SUFFICES ASSUME FiniteThreads, GarbageInv, [Next]_vars PROVE GarbageInv'  OBVIOUS
<1>1. Inv'  BY InvStep DEF GarbageInv
<1>2. CASE UNCHANGED vars  BY <1>1, <1>2, GarbageFrame DEF vars
<1>3. ASSUME NEW t \in Waiter, WaiterStep(t)  PROVE GarbageInv'
  BY <1>1, <1>3, GarbageWait, GarbageSleep, GarbageSetDead, GarbageLock, GarbageReset,
     GarbageRetain, GarbageEnd
  DEF WaiterStep
<1>4. ASSUME NEW w \in Waker, WakerStep(w)  PROVE GarbageInv'
  <2>1. CASE SetChanged(w)  BY <1>1, <2>1, GarbageSetChanged
  <2>2. ASSUME NEW b \in Block, Upgrade(w, b)  PROVE GarbageInv'
    BY <1>1, <2>2, GarbageFrame DEF Upgrade
  <2> QED  BY <1>4, <2>1, <2>2 DEF WakerStep
<1> QED  BY <1>1, <1>2, <1>3, <1>4, GarbageBegin, GarbageTake DEF Next

\* However registrations, wake-ups, deaths and cleanups race, a waiting list
\* holds less than the limit of set_dead and a few entries per thread that are
\* dead, for any limit and any finite number of threads.
THEOREM GarbageIsBounded ==
  ASSUME IsFiniteSet(Waiter), IsFiniteSet(Waker), Waiter # {}
  PROVE  Spec => []GarbageBounded
<1>1. FiniteThreads  BY DEF FiniteThreads
<1>2. Init => GarbageInv  BY <1>1, GarbageInit
<1>3. GarbageInv /\ [Next]_vars => GarbageInv'  BY <1>1, GarbageStep
<1>4. GarbageInv => GarbageBounded  BY <1>1, BoundFollows
<1> QED  BY <1>2, <1>3, <1>4, PTL DEF Spec
=============================================================================
