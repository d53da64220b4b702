---------------------------- MODULE WaitingProofs ----------------------------
(***************************************************************************)
(* What wait_for_change relies on, and what it achieves, for any threads,  *)
(* TVars and values.                                                       *)
(***************************************************************************)
EXTENDS CommitProofs

USE DEF lockVars, tvarVars, wakeVars, histVars

-----------------------------------------------------------------------------
(* Only threads in wait_for_change are registered anywhere, or about to be *)
(* woken: nothing refers to a ControlBlock that is gone.                   *)

RegisteredWait ==
  /\ \A x \in Var : waiting[x] \subseteq Waiting
  /\ \A u \in Thread : waking[u] \subseteq Waiting

\* t neither enters nor leaves wait_for_change.
SamePlace(t) ==
  /\ \A u \in Thread \ {t} : pc'[u] = pc[u]
  /\ pc'[t] \in {"register", "check", "parked"} <=> pc[t] \in {"register", "check", "parked"}

LEMMA SameWaiting ==
  ASSUME NEW t \in Thread, SamePlace(t)
  PROVE  Waiting' = Waiting
BY DEF SamePlace, Waiting

LEMMA Stutters ==
  ASSUME NEW t \in Thread, SamePlace(t), UNCHANGED wakeVars
  PROVE  UNCHANGED WL!vars
BY SameWaiting DEF WL!vars

LEMMA EndWaitDies ==
  ASSUME TypeInv, RegisteredWait, NEW t \in Thread, t \in Waiting, EndWait(t)
  PROVE  WL!Die(t)
<1>1. Waiting' = Waiting \ {t}
  BY DEF EndWait, Reset, Waiting, TypeInv, TypeOK
<1> QED BY <1>1 DEF WL!Die, EndWait

LEMMA EntryPointsNotify ==
  ASSUME TypeInv, NEW t \in Thread,
         Begin(t) \/ EndOfClosure(t) \/ ControlAbort(t) \/ Restart(t)
  PROVE  UNCHANGED WL!vars
<1>1. SamePlace(t)
  <2>1. pc[t] \in {"idle", "closure", "retry", "failed"}
    BY DEF Begin, EndOfClosure, ClosureOk, ClosureRetry, ClosureAbort, ClosurePanic,
           ControlAbort, Restart
  <2>2. \E p \in {"idle", "closure", "commit", "retry"} : pc' = [pc EXCEPT ![t] = p]
    BY DEF Begin, EndOfClosure, ClosureOk, ClosureRetry, ClosureAbort, ClosurePanic,
           ControlAbort, Leave, Restart, Reset
  <2> QED BY <2>1, <2>2 DEF SamePlace, TypeInv, TypeOK
<1>2. UNCHANGED wakeVars
  BY DEF Begin, EndOfClosure, ClosureOk, ClosureRetry, ClosureAbort, ClosurePanic, ControlAbort,
         Leave, Restart
<1> QED BY <1>1, <1>2, Stutters

LEMMA ClosureNotifies ==
  ASSUME TypeInv, NEW t \in Thread, Access(t) \/ Or(t) \/ Atomic(t)
  PROVE  UNCHANGED WL!vars
<1>1. SamePlace(t)
  BY DEF Access, Read, Write, Exchange, Modify, EarlyConflict, Call,
         Or, OrBegin, OrFirstOk, OrFirstRetry, OrSecondDone,
         Atomic, ReadAtomic, WriteAtomic, SamePlace, TypeInv, TypeOK
<1>2. UNCHANGED wakeVars
  BY DEF Access, Read, Write, Exchange, Modify, EarlyConflict,
         Or, OrBegin, OrFirstOk, OrFirstRetry, OrSecondDone, Atomic, ReadAtomic, WriteAtomic
<1> QED BY <1>1, <1>2, Stutters

LEMMA AcquireNotifies ==
  ASSUME TypeInv, RegisteredWait, NEW t \in Thread, Acquire(t)
  PROVE  WL!Next \/ UNCHANGED WL!vars
<1> PICK x \in Var : \/ LockRead(t, x) \/ ClaimWrite(t, x) \/ CommitFail(t, x)
                     \/ CheckOk(t, x) \/ CheckChanged(t, x)
  BY DEF Acquire
<1>1. CASE CheckChanged(t, x)
  <2>1. WL!Die(t)
    BY <1>1, EndWaitDies DEF CheckChanged, Waiting
  <2> QED BY <2>1 DEF WL!Next
<1>2. CASE ~CheckChanged(t, x)
  <2>1. SamePlace(t) /\ UNCHANGED wakeVars
    BY <1>2 DEF LockRead, ClaimWrite, CommitFail, CheckOk, Locking, Reset, SamePlace,
                TypeInv, TypeOK
  <2> QED BY <2>1, Stutters
<1> QED BY <1>1, <1>2

LEMMA CommitNotifies ==
  ASSUME TypeInv, RegisteredWait, NEW t \in Thread, Commit(t)
  PROVE  WL!Next \/ UNCHANGED WL!vars
<1>1. ASSUME NEW x \in Var, TakeWaiters(t, x) PROVE WL!Next
  <2>1. Waiting' = Waiting /\ blocked' = blocked
    BY <1>1 DEF TakeWaiters, Waiting
  <2>2. WL!Announce(t, x)
    BY <1>1, <2>1 DEF TakeWaiters, WL!Announce
  <2> QED BY <2>2 DEF WL!Next
<1>2. ASSUME NEW u \in Thread, SetChanged(t, u) PROVE WL!Next
  <2>1. Waiting' = Waiting /\ u \in Waiting
    BY <1>2 DEF SetChanged, Waiting, RegisteredWait
  <2>2. {w \in Waiting : ~blocked'[w]} = {w \in Waiting : ~blocked[w]} \cup {u}
    BY <1>2, <2>1 DEF SetChanged, Waiting, TypeInv, TypeOK
  <2>3. WL!Signal(t, u)
    BY <1>2, <2>1, <2>2 DEF SetChanged, WL!Signal
  <2> QED BY <2>3 DEF WL!Next
<1>3. CASE ReleaseReads(t) \/ BeginWake(t) \/ Return(t)
  <2>1. SamePlace(t) /\ UNCHANGED wakeVars
    BY <1>3 DEF ReleaseReads, BeginWake, Return, Leave, Reset, SamePlace, TypeInv, TypeOK
  <2> QED BY <2>1, Stutters
<1>4. ASSUME NEW x \in Var, LockWrite(t, x) \/ WriteBack(t, x) PROVE UNCHANGED WL!vars
  BY <1>4, Stutters DEF LockWrite, WriteBack, SamePlace
<1> QED BY <1>1, <1>2, <1>3, <1>4 DEF Commit

LEMMA WaitForChangeNotifies ==
  ASSUME TypeInv, RegisteredWait, NEW t \in Thread, WaitForChange(t)
  PROVE  WL!Next \/ UNCHANGED WL!vars
<1>1. CASE StartWait(t)
  <2>1. Waiting' = Waiting \cup {t} /\ t \notin Waiting
    BY <1>1 DEF StartWait, Waiting, TypeInv, TypeOK
  <2>2. {w \in Waiting \cup {t} : ~blocked'[w]} = {w \in Waiting : ~blocked[w]}
    BY <1>1, <2>1 DEF StartWait, Waiting, TypeInv, TypeOK
  <2>3. WL!Arm(t)
    BY <1>1, <2>1, <2>2 DEF StartWait, WL!Arm
  <2> QED BY <2>3 DEF WL!Next
<1>2. ASSUME NEW x \in Var, Register(t, x) PROVE WL!Next
  <2>1. Waiting' = Waiting /\ t \in Waiting
    BY <1>2 DEF Register, Waiting, TypeInv, TypeOK
  <2>2. WL!Register(t, x)
    BY <1>2, <2>1 DEF Register, WL!Register
  <2> QED BY <2>2 DEF WL!Next
<1>3. CASE Park(t)
  BY <1>3, Stutters DEF Park, SamePlace, TypeInv, TypeOK
<1>4. CASE Unpark(t)
  <2>1. WL!Die(t)
    BY <1>4, EndWaitDies DEF Unpark, Waiting
  <2> QED BY <2>1 DEF WL!Next
<1> QED BY <1>1, <1>2, <1>3, <1>4 DEF WaitForChange

LEMMA StepNotifies ==
  TypeInv /\ RegisteredWait /\ [Next]_vars => [WL!Next]_(WL!vars)
<1> SUFFICES ASSUME TypeInv, RegisteredWait, [Next]_vars
             PROVE  WL!Next \/ UNCHANGED WL!vars
  OBVIOUS
<1>1. CASE UNCHANGED vars
  BY <1>1 DEF vars, WL!vars, Waiting
<1> QED BY <1>1, EntryPointsNotify, ClosureNotifies, AcquireNotifies, CommitNotifies,
           WaitForChangeNotifies DEF Next

\* What is registered is alive, as the lists' users promise.
LEMMA NotificationKeeps ==
  TypeInv /\ RegisteredWait /\ [WL!Next]_(WL!vars) => RegisteredWait'
<1> SUFFICES ASSUME TypeInv, RegisteredWait, WL!Next \/ UNCHANGED WL!vars PROVE RegisteredWait'
  OBVIOUS
<1> USE DEF RegisteredWait
<1>1. CASE UNCHANGED WL!vars
  <2>1. Waiting' = Waiting /\ waiting' = waiting /\ waking' = waking
    BY <1>1 DEF WL!vars
  <2> QED BY <2>1
<1>2. ASSUME NEW t \in Thread, WL!Arm(t) \/ WL!Die(t) PROVE RegisteredWait'
  BY <1>2 DEF WL!Arm, WL!Die
<1>3. ASSUME NEW t \in Thread, NEW x \in Var, WL!Register(t, x) \/ WL!Announce(t, x)
      PROVE  RegisteredWait'
  <2>1. Waiting' = Waiting /\ t \in Thread /\ waiting[x] \subseteq Waiting
    BY <1>3 DEF WL!Register, WL!Announce
  <2>2. waiting \in [Var -> SUBSET Thread] /\ waking \in [Thread -> SUBSET Thread]
    BY DEF TypeInv, TypeOK
  <2>3. CASE WL!Register(t, x)
    BY <2>1, <2>2, <2>3 DEF WL!Register
  <2>4. CASE WL!Announce(t, x)
    BY <2>1, <2>2, <2>4 DEF WL!Announce
  <2> QED BY <1>3, <2>3, <2>4
<1>4. ASSUME NEW t \in Thread, NEW u \in Thread, WL!Signal(t, u) PROVE RegisteredWait'
  BY <1>4 DEF WL!Signal, TypeInv, TypeOK
<1> QED BY <1>1, <1>2, <1>3, <1>4 DEF WL!Next

LEMMA RegisteredInvariant == Spec => [](TypeInv /\ RegisteredWait)
<1>1. Init => RegisteredWait
  BY DEF Init, RegisteredWait
<1> QED BY <1>1, InitType, StepType, StepNotifies, NotificationKeeps, PTL DEF Spec

\* Transactions use the waiting lists as their specification allows: blocks
\* are registered while they are alive, whoever announces a change takes over
\* the whole list, and a signal that is owed is given or its block is dead.
THEOREM WaitersAreNotified == Spec => NotifiesWaiters
<1>1. Init => WL!Init
  BY DEF Init, WL!Init, Waiting
<1> QED BY <1>1, RegisteredInvariant, StepNotifies, PTL DEF Spec, NotifiesWaiters, WL!Spec

-----------------------------------------------------------------------------
(* A sleeper waits on everything it has loaded.  What it has loaded is in  *)
(* its register, or in a register that or has kept, until wait_for_change  *)
(* has registered it.  The exception is an attempt that ended in an early  *)
(* conflict inside or, which drops registers: it never goes to sleep.      *)
(*                                                                         *)
(* All this needs a thread that does not write blindly inside of or: what  *)
(* the first alternative loaded is lost where the second one writes.       *)

\* t has been put on the list of x, or has been taken off some list to be
\* woken, unless it has been woken already.
Listed(t, x) == blocked[t] => t \in waiting[x] \/ \E u \in Thread : t \in waking[u]

Found(t, x) ==
  \/ log[t][x].orig # Nil
  \/ \E i \in DOMAIN alts[t] : alts[t][i].branch = 2 /\ alts[t][i].copy[x].orig # Nil

Kept(t) == \A x \in seen[t] : Found(t, x) \/ (t \in Waiting /\ Listed(t, x))

Outdated(t) ==
  \E x \in Var : log[t][x].orig # Nil /\ log[t][x].orig.addr # value[x].addr

Dropped(t) ==
  "or" \in Ops[t] /\ (pc[t] = "failed" \/ (pc[t] \in {"register", "check"} /\ Outdated(t)))

NoBlindWrite(t) ==
  \A x \in Var : /\ log[t][x].tag # "Write"
                 /\ \A i \in DOMAIN alts[t] : alts[t][i].copy[x].tag # "Write"

WaitInv(t) ==
  /\ "or" \notin Ops[t] => alts[t] = <<>>
  /\ "write" \notin Ops[t] => NoBlindWrite(t)
  /\ pc[t] \notin {"closure", "retry"} => alts[t] = <<>>
  /\ pc[t] = "check" => \A x \in todo[t] : Listed(t, x)
  /\ Kept(t) \/ Dropped(t)

\* Threads that do not combine or with blind writes.
Careful == {t \in Thread : ~({"or", "write"} \subseteq Ops[t])}

\* Who is listed stays so as long as it waits.
LEMMA StaysListed ==
  ASSUME TypeInv, RegisteredWait, Next, NEW t \in Thread, NEW x \in Var,
         t \in Waiting, t \in Waiting', Listed(t, x)
  PROVE  Listed(t, x)'
<1> SUFFICES ASSUME blocked'[t]
             PROVE  t \in waiting'[x] \/ \E u \in Thread : t \in waking'[u]
  BY DEF Listed
<1> DEFINE Signalled == {u \in Waiting : ~blocked[u]}
<1>0. waiting \in [Var -> SUBSET Thread] /\ waking \in [Thread -> SUBSET Thread]
  BY DEF TypeInv, TypeOK
<1>1. t \notin Signalled'
  OBVIOUS
<1> HIDE DEF Signalled
<1>2. [WL!Next]_(WL!vars)
  BY StepNotifies
<1>3. t \notin Signalled => t \in waiting[x] \/ \E u \in Thread : t \in waking[u]
  BY DEF Listed, Signalled
<1>4. CASE UNCHANGED WL!vars
  <2>1. Signalled' = Signalled /\ waiting' = waiting /\ waking' = waking
    BY <1>4 DEF WL!vars, Signalled
  <2> QED BY <1>1, <1>3, <2>1
<1>5. ASSUME NEW u \in Thread, WL!Arm(u) PROVE t \in waiting'[x] \/ \E w \in Thread : t \in waking'[w]
  <2>1. Signalled' = Signalled /\ waiting' = waiting /\ waking' = waking
    BY <1>5 DEF WL!Arm, Signalled
  <2> QED BY <1>1, <1>3, <2>1
<1>6. ASSUME NEW u \in Thread, WL!Die(u) PROVE t \in waiting'[x] \/ \E w \in Thread : t \in waking'[w]
  <2>1. /\ Signalled' = Signalled \ {u} /\ Waiting' = Waiting \ {u}
        /\ waiting' = [y \in Var |-> waiting[y] \ {u}]
        /\ waking' = [w \in Thread |-> waking[w] \ {u}]
    BY <1>6 DEF WL!Die, Signalled
  <2> QED BY <1>1, <1>3, <2>1
<1>7. ASSUME NEW u \in Thread, NEW y \in Var, WL!Register(u, y)
      PROVE  t \in waiting'[x] \/ \E w \in Thread : t \in waking'[w]
  <2>1. /\ Signalled' = Signalled /\ waking' = waking
        /\ waiting' = [waiting EXCEPT ![y] = @ \cup {u}]
    BY <1>7 DEF WL!Register, Signalled
  <2> QED BY <1>0, <1>1, <1>3, <2>1
<1>8. ASSUME NEW u \in Thread, NEW y \in Var, WL!Announce(u, y)
      PROVE  t \in waiting'[x] \/ \E w \in Thread : t \in waking'[w]
  <2>1. /\ Signalled' = Signalled /\ waking[u] = {}
        /\ waking' = [waking EXCEPT ![u] = waiting[y]]
        /\ waiting' = [waiting EXCEPT ![y] = {}]
    BY <1>8 DEF WL!Announce, Signalled
  <2> QED BY <1>0, <1>1, <1>3, <2>1
<1>9. ASSUME NEW u \in Thread, NEW w \in Thread, WL!Signal(u, w)
      PROVE  t \in waiting'[x] \/ \E v \in Thread : t \in waking'[v]
  <2>1. /\ Signalled' = Signalled \cup {w} /\ waiting' = waiting
        /\ waking' = [waking EXCEPT ![u] = @ \ {w}]
    BY <1>9 DEF WL!Signal, Signalled
  <2> QED BY <1>0, <1>1, <1>3, <2>1
<1> QED BY <1>2, <1>4, <1>5, <1>6, <1>7, <1>8, <1>9 DEF WL!Next

\* Outdated entries stay outdated.
LEMMA StaysOutdatedStep ==
  ASSUME TypeInv, PointerIdentity, HeapInv, Next, NEW t \in Thread, NEW x \in Var,
         log[t][x].orig # Nil, log[t][x].orig.addr # value[x].addr
  PROVE  log[t][x].orig.addr # value'[x].addr
<1>1. TypeInv' /\ PointerIdentity'
  BY StepType, StepHeap
<1>2. ASSUME NEW u \in Thread, NEW y \in Var, NEW a \in Arc, Stores(u, y, a)
      PROVE  log[t][x].orig.addr # value'[x].addr
  BY <1>1, <1>2, StaysOutdated DEF HeapInv
<1> QED BY <1>2, StaleSteps

\* A thread whose own part of the state stays as it is keeps its invariant.
LEMMA OthersWait ==
  ASSUME TypeInv, PointerIdentity, HeapInv, RegisteredWait, Next,
         NEW t \in Thread, WaitInv(t),
         log'[t] = log[t], alts'[t] = alts[t], seen'[t] = seen[t],
         pc'[t] = pc[t], todo'[t] = todo[t]
  PROVE  WaitInv(t)'
<1>1. t \in Waiting' <=> t \in Waiting
  BY DEF Waiting
<1>2. /\ seen[t] \subseteq Var /\ todo[t] \subseteq Var
      /\ pc[t] = "check" => t \in Waiting
  BY DEF TypeInv, TypeOK, Waiting
<1>3. \A x \in Var : t \in Waiting /\ Listed(t, x) => Listed(t, x)'
  BY <1>1, StaysListed
<1>4. \A x \in Var : Found(t, x)' = Found(t, x)
  BY DEF Found
<1>5. Kept(t) => Kept(t)'
  BY <1>1, <1>2, <1>3, <1>4 DEF Kept
<1>6. Dropped(t) => Dropped(t)'
  BY StaysOutdatedStep DEF Dropped, Outdated
<1>7. NoBlindWrite(t)' = NoBlindWrite(t)
  BY DEF NoBlindWrite
<1> QED BY <1>2, <1>3, <1>5, <1>6, <1>7 DEF WaitInv

\* An empty register.
LEMMA ResetWaits ==
  ASSUME TypeInv, NEW t \in Thread, NEW p \in {"idle", "closure"}, Reset(t, p)
  PROVE  WaitInv(t)'
<1>1. /\ pc'[t] = p /\ log'[t] = NoLog /\ alts'[t] = <<>> /\ seen'[t] = {}
  BY DEF Reset, TypeInv, TypeOK
<1> QED BY <1>1 DEF WaitInv, NoBlindWrite, NoLog, Vacant, Entry, Kept

\* A thread that keeps its register and does not wait.
LEMMA KeepsWaiting ==
  ASSUME TypeInv, NEW t \in Thread, WaitInv(t), pc[t] \notin {"failed", "register", "check", "parked"},
         log'[t] = log[t], alts'[t] = alts[t], seen'[t] \in {seen[t], {}},
         pc'[t] # "check", pc'[t] \notin {"closure", "retry"} => alts[t] = <<>>
  PROVE  WaitInv(t)'
<1>1. Kept(t) /\ t \notin Waiting
  BY DEF WaitInv, Dropped, Waiting
<1>2. \A x \in Var : Found(t, x)' = Found(t, x)
  BY DEF Found
<1>3. Kept(t)'
  BY <1>1, <1>2 DEF Kept, TypeInv, TypeOK
<1>4. NoBlindWrite(t)' = NoBlindWrite(t)
  BY DEF NoBlindWrite
<1> QED BY <1>3, <1>4 DEF WaitInv

LEMMA BlindEntries ==
  ASSUME NEW e \in LogVar, e.tag # "Write"
  PROVE  AfterRead(e).tag # "Write" /\ \A a : AfterWrite(e, a).tag # "Write"
BY DEF LogVar, AfterRead, AfterWrite, ReadEntry, ReadWriteEntry, ReadObsoleteWriteEntry, Entry

LEMMA AccessBlind ==
  ASSUME TypeInv, NEW t \in Thread, Access(t), "write" \notin Ops[t], NoBlindWrite(t),
         alts'[t] = alts[t]
  PROVE  NoBlindWrite(t)'
<1> SUFFICES ASSUME NEW y \in Var PROVE log'[t][y].tag # "Write"
  BY DEF NoBlindWrite
<1>1. PICK z \in Var :
        \/ Read(t, z) \/ EarlyConflict(t, z)
        \/ \E v \in Val : Exchange(t, z, v)
        \/ \E f \in Fns : Modify(t, z, f)
  BY DEF Access, Write, Call
<1>2. CASE y # z
  BY <1>1, <1>2
     DEF Read, Exchange, Modify, EarlyConflict, SetEntry, TypeInv, TypeOK, RegisterType,
         NoBlindWrite
<1>3. CASE y = z
  <2> DEFINE e == AfterRead(Loaded(t, y))
  <2>1. Loaded(t, y) \in LogVar /\ Loaded(t, y).tag # "Write"
    BY LoadedType DEF Loaded, NoBlindWrite, ReadEntry, Entry
  <2>2. e \in LogVar /\ e.tag # "Write"
    BY <2>1, ReadLemma, BlindEntries
  <2> HIDE DEF e
  <2>3. log'[t][y] \in {e, log[t][y]} \/ \E a : log'[t][y] = AfterWrite(e, a)
    BY <1>1, <1>3
       DEF Read, Exchange, Modify, EarlyConflict, SetEntry, TypeInv, TypeOK, RegisterType, e
  <2> QED BY <2>2, <2>3, BlindEntries DEF NoBlindWrite
<1> QED BY <1>2, <1>3

LEMMA AccessWaits ==
  ASSUME TypeInv, NEW t \in Thread, WaitInv(t), Access(t)
  PROVE  WaitInv(t)'
<1>1. ASSUME NEW x \in Var, EarlyConflict(t, x) PROVE WaitInv(t)'
  <2>1. /\ pc[t] = "closure" /\ pc'[t] = "failed"
        /\ log'[t] = log[t] /\ alts'[t] = <<>> /\ seen'[t] = seen[t]
    BY <1>1 DEF EarlyConflict, TypeInv, TypeOK
  <2>2. "write" \notin Ops[t] => NoBlindWrite(t)'
    BY <2>1 DEF WaitInv, NoBlindWrite
  <2>3. "or" \notin Ops[t] => Kept(t)'
    <3>1. Kept(t) /\ t \notin Waiting /\ seen[t] \subseteq Var
      BY <2>1 DEF WaitInv, Dropped, Waiting, TypeInv, TypeOK
    <3>2. "or" \notin Ops[t] => \A x2 \in Var : Found(t, x2)' = Found(t, x2)
      BY <2>1 DEF Found, WaitInv
    <3> QED BY <2>1, <3>1, <3>2 DEF Kept
  <2> QED BY <2>1, <2>2, <2>3 DEF WaitInv, Dropped
<1>2. CASE \A x \in Var : ~EarlyConflict(t, x)
  <2>1. PICK x \in Var : \E E, F \in SUBSET Arc : Calls(t, x, E, F)
    BY <1>2, AccessCalls
  <2>2. PICK E \in SUBSET Arc, F \in SUBSET Arc : Calls(t, x, E, F)
    BY <2>1
  <2>3. pc' = pc /\ alts'[t] = alts[t] /\ pc[t] = "closure" /\ t \notin Waiting
    BY <2>2 DEF Calls, Waiting
  <2>4. "write" \notin Ops[t] => NoBlindWrite(t)'
    BY <2>3, AccessBlind DEF WaitInv
  <2>5. ASSUME NEW y \in seen'[t] PROVE Found(t, y)'
    <3>1. CASE y = x /\ E # {}
      <4>1. log'[t][x] \in LogVar /\ log'[t][x].tag # "Write"
        BY <2>2, <3>1 DEF Calls
      <4> QED BY <3>1, <4>1, NilFacts DEF LogVar, Found
    <3>2. CASE y # x \/ E = {}
      <4>1. y \in seen[t] /\ y \in Var
        BY <2>2, <3>2 DEF Calls, TypeInv, TypeOK
      <4>2. log'[t][y].orig = log[t][y].orig
        BY <2>2, <3>2, <4>1 DEF Calls
      <4>3. Found(t, y)
        BY <2>3, <4>1 DEF WaitInv, Kept, Dropped
      <4> QED BY <2>3, <4>2, <4>3 DEF Found
    <3> QED BY <3>1, <3>2
  <2> QED BY <2>3, <2>4, <2>5 DEF WaitInv, Kept
<1> QED BY <1>1, <1>2

\* Where the alternatives are after a push or a pop.
LEMMA PushKeeps ==
  ASSUME NEW f \in Alternative, NEW s \in Seq(Alternative)
  PROVE  /\ 1 \in DOMAIN (<<f>> \o s) /\ (<<f>> \o s)[1] = f
         /\ \A i \in DOMAIN s : i + 1 \in DOMAIN (<<f>> \o s) /\ (<<f>> \o s)[i + 1] = s[i]
OBVIOUS

LEMMA TailKeeps ==
  ASSUME NEW s \in Seq(Alternative), s # <<>>
  PROVE  \A i \in DOMAIN s : i = 1 \/ (i - 1 \in DOMAIN Tail(s) /\ Tail(s)[i - 1] = s[i])
OBVIOUS

\* combine keeps what either register has loaded, where the one that goes on
\* has no blind writes.
LEMMA CombineKeeps ==
  ASSUME NEW r \in RegisterType, NEW s \in RegisterType, NEW x \in Var, r[x].tag # "Write"
  PROVE  /\ r[x].orig # Nil \/ s[x].orig # Nil => Combine(r, s)[x].orig # Nil
         /\ Combine(r, s)[x].tag # "Write"
<1>1. r[x] \in LogVar \cup {Vacant} /\ s[x] \in LogVar \cup {Vacant}
  BY DEF RegisterType
<1>2. Combine(r, s)[x] = IF r[x] = Vacant THEN Obsolete(s[x]) ELSE r[x]
  BY DEF Combine, RegisterType
<1>3. s[x].orig # Nil => IntoReadValue(s[x]) = s[x].orig
  BY <1>1, LogVarCases DEF IntoReadValue
<1>4. r[x] # Vacant => r[x].orig # Nil
  BY <1>1, NilFacts DEF LogVar
<1> QED BY <1>1, <1>2, <1>3, <1>4 DEF Obsolete, ReadObsoleteEntry, Vacant, Entry

LEMMA OrWaits ==
  ASSUME TypeInv, NEW t \in Thread, t \in Careful, WaitInv(t), Or(t)
  PROVE  WaitInv(t)'
<1>0. /\ alts[t] \in Seq(Alternative) /\ log[t] \in RegisterType
      /\ pc[t] \in {"closure", "retry"} /\ pc'[t] \in {"closure", "retry"}
      /\ seen'[t] = seen[t] /\ seen[t] \subseteq Var
      /\ Kept(t) /\ t \notin Waiting
  BY DEF Or, OrBegin, OrFirstOk, OrFirstRetry, OrSecondDone, Call, WaitInv, Dropped, Waiting,
         TypeInv, TypeOK
<1>1. "or" \in Ops[t] /\ "write" \notin Ops[t] /\ NoBlindWrite(t)
  BY DEF Or, OrBegin, OrFirstOk, OrFirstRetry, OrSecondDone, Call, Within, WaitInv, Careful
<1>2. SUFFICES ASSUME NEW x \in Var
               PROVE  /\ log'[t][x].tag # "Write"
                      /\ \A i \in DOMAIN alts'[t] : alts'[t][i].copy[x].tag # "Write"
                      /\ Found(t, x) => Found(t, x)'
  BY <1>0, <1>1 DEF WaitInv, NoBlindWrite, Kept
<1>3. log[t][x].tag # "Write" /\ \A i \in DOMAIN alts[t] : alts[t][i].copy[x].tag # "Write"
  BY <1>1 DEF NoBlindWrite
<1>4. CASE OrBegin(t)
  <2> DEFINE f == [branch |-> 1, copy |-> log[t]]
  <2>1. f \in Alternative /\ f.copy = log[t]
    BY <1>0 DEF Alternative
  <2>2. log' = log /\ alts'[t] = <<f>> \o alts[t]
    BY <1>4 DEF OrBegin, TypeInv, TypeOK
  <2> HIDE DEF f
  <2>3. \A i \in DOMAIN alts'[t] : alts'[t][i].copy[x].tag # "Write"
    BY <1>0, <1>3, <2>1, <2>2, PushCases
  <2>4. Found(t, x) => Found(t, x)'
    <3>1. \A i \in DOMAIN alts[t] : i + 1 \in DOMAIN alts'[t] /\ alts'[t][i + 1] = alts[t][i]
      BY <1>0, <2>1, <2>2, PushKeeps
    <3> QED BY <2>2, <3>1 DEF Found
  <2> QED BY <1>3, <2>2, <2>3, <2>4
<1>5. CASE OrFirstOk(t)
  <2>1. /\ log' = log /\ alts[t] # <<>> /\ alts'[t] = Tail(alts[t])
        /\ 1 \in DOMAIN alts[t] /\ alts[t][1].branch = 1
    BY <1>0, <1>5, HeadCases DEF OrFirstOk, Within, Pop, TypeInv, TypeOK
  <2>2. \A i \in DOMAIN alts'[t] : alts'[t][i].copy[x].tag # "Write"
    BY <1>0, <1>3, <2>1, TailCases
  <2>3. Found(t, x) => Found(t, x)'
    <3>1. \A i \in DOMAIN alts[t] :
            i = 1 \/ (i - 1 \in DOMAIN alts'[t] /\ alts'[t][i - 1] = alts[t][i])
      BY <1>0, <2>1, TailKeeps
    <3>2. ASSUME NEW i \in DOMAIN alts[t], alts[t][i].branch = 2, alts[t][i].copy[x].orig # Nil
          PROVE  Found(t, x)'
      <4>1. i # 1
        BY <2>1, <3>2
      <4> QED BY <3>1, <3>2, <4>1 DEF Found
    <3> QED BY <2>1, <3>2 DEF Found
  <2> QED BY <1>3, <2>1, <2>2, <2>3
<1>6. CASE OrFirstRetry(t)
  <2> DEFINE f == [branch |-> 2, copy |-> log[t]]
  <2>1. f \in Alternative /\ f.copy = log[t] /\ f.branch = 2
    BY <1>0 DEF Alternative
  <2>2. /\ alts[t] # <<>> /\ Tail(alts[t]) \in Seq(Alternative)
        /\ log'[t] = alts[t][1].copy
        /\ 1 \in DOMAIN alts[t] /\ alts[t][1].branch = 1
        /\ alts'[t] = <<f>> \o Tail(alts[t])
    BY <1>0, <1>6, HeadCases DEF OrFirstRetry, Within, TypeInv, TypeOK
  <2> HIDE DEF f
  <2>3. \A i \in DOMAIN alts'[t] : alts'[t][i].copy[x].tag # "Write"
    <3>1. \A i \in DOMAIN Tail(alts[t]) : Tail(alts[t])[i].copy[x].tag # "Write"
      BY <1>0, <1>3, <2>2, TailCases
    <3> QED BY <1>3, <2>1, <2>2, <3>1, PushCases
  <2>4. Found(t, x) => Found(t, x)'
    <3>1. /\ 1 \in DOMAIN alts'[t] /\ alts'[t][1] = f
          /\ \A i \in DOMAIN Tail(alts[t]) :
               i + 1 \in DOMAIN alts'[t] /\ alts'[t][i + 1] = Tail(alts[t])[i]
      BY <2>1, <2>2, PushKeeps
    <3>2. CASE log[t][x].orig # Nil
      BY <2>1, <3>1, <3>2 DEF Found
    <3>3. ASSUME NEW i \in DOMAIN alts[t], alts[t][i].branch = 2, alts[t][i].copy[x].orig # Nil
          PROVE  Found(t, x)'
      <4>1. i # 1 /\ i - 1 \in DOMAIN Tail(alts[t]) /\ Tail(alts[t])[i - 1] = alts[t][i]
        BY <1>0, <2>2, <3>3, TailKeeps
      <4>2. (i - 1) + 1 = i
        BY <1>0, <3>3
      <4>3. i \in DOMAIN alts'[t] /\ alts'[t][i] = alts[t][i]
        BY <3>1, <4>1, <4>2
      <4> QED BY <3>3, <4>3 DEF Found
    <3> QED BY <3>2, <3>3 DEF Found
  <2> QED BY <1>3, <2>2, <2>3, <2>4
<1>7. CASE OrSecondDone(t)
  <2>1. /\ alts[t] # <<>> /\ alts'[t] = Tail(alts[t])
        /\ 1 \in DOMAIN alts[t] /\ alts[t][1] \in Alternative
        /\ log'[t] = Combine(log[t], alts[t][1].copy)
    <3>1. /\ alts[t] # <<>> /\ alts'[t] = Tail(alts[t])
          /\ log'[t] = Combine(log[t], Head(alts[t]).copy)
      BY <1>7 DEF OrSecondDone, Within, Pop, TypeInv, TypeOK
    <3> QED BY <1>0, <3>1, HeadCases
  <2>2. /\ log[t][x].orig # Nil \/ alts[t][1].copy[x].orig # Nil => log'[t][x].orig # Nil
        /\ log'[t][x].tag # "Write"
    BY <1>0, <1>3, <2>1, CombineKeeps DEF Alternative
  <2>3. \A i \in DOMAIN alts'[t] : alts'[t][i].copy[x].tag # "Write"
    BY <1>0, <1>3, <2>1, TailCases
  <2>4. Found(t, x) => Found(t, x)'
    <3>1. \A i \in DOMAIN alts[t] :
            i = 1 \/ (i - 1 \in DOMAIN alts'[t] /\ alts'[t][i - 1] = alts[t][i])
      BY <1>0, <2>1, TailKeeps
    <3> QED BY <2>2, <3>1 DEF Found
  <2> QED BY <2>2, <2>3, <2>4
<1> QED BY <1>4, <1>5, <1>6, <1>7 DEF Or

LEMMA EntryPointsWait ==
  ASSUME TypeInv, HeapInv, NEW t \in Thread, WaitInv(t),
         Begin(t) \/ EndOfClosure(t) \/ ControlAbort(t) \/ Restart(t)
  PROVE  WaitInv(t)'
<1>1. ASSUME NEW p \in {"idle", "closure"}, Reset(t, p) PROVE WaitInv(t)'
  BY <1>1, ResetWaits
<1>2. CASE ClosureOk(t) \/ ClosureRetry(t)
  <2>1. /\ pc[t] = "closure" /\ pc'[t] \in {"commit", "retry"}
        /\ pc'[t] = "commit" => alts[t] = <<>>
        /\ log'[t] = log[t] /\ alts'[t] = alts[t] /\ seen'[t] = seen[t]
    BY <1>2 DEF ClosureOk, ClosureRetry, TypeInv, TypeOK
  <2> QED BY <2>1, KeepsWaiting
<1> QED BY <1>1, <1>2
       DEF Begin, EndOfClosure, ClosureAbort, ClosurePanic, ControlAbort, Leave, Restart

\* The value that has been compared is one that is waited for.
LEMMA CheckWaits ==
  ASSUME TypeInv, PointerIdentity, HeapInv, RegisteredWait, Next,
         NEW t \in Thread, WaitInv(t), NEW x \in Var, CheckOk(t, x)
  PROVE  WaitInv(t)'
<1>1. /\ pc[t] = "check" /\ pc'[t] = "register" /\ x \in todo[t]
      /\ log'[t][x] = Vacant /\ \A y \in Var \ {x} : log'[t][y] = log[t][y]
      /\ UNCHANGED <<value, alts, seen>>
      /\ value[x].addr = log[t][x].orig.addr
  BY DEF CheckOk, Current, PtrEq, TypeInv, TypeOK, RegisterType
<1>2. alts[t] = <<>> /\ Listed(t, x) /\ t \in Waiting /\ t \in Waiting' /\ seen[t] \subseteq Var
  BY <1>1 DEF WaitInv, Waiting, TypeInv, TypeOK
<1>3. \A y \in Var : Listed(t, y) => Listed(t, y)'
  BY <1>2, StaysListed
<1>4. Kept(t) => Kept(t)'
  <2>1. \A y \in Var \ {x} : Found(t, y) => Found(t, y)'
    BY <1>1 DEF Found
  <2> QED BY <1>1, <1>2, <1>3, <2>1 DEF Kept
<1>5. Outdated(t) => Outdated(t)'
  BY <1>1 DEF Outdated
<1>6. NoBlindWrite(t) => NoBlindWrite(t)'
  BY <1>1 DEF NoBlindWrite, Vacant, Entry
<1> QED BY <1>1, <1>2, <1>4, <1>5, <1>6 DEF WaitInv, Dropped

LEMMA AcquireWaits ==
  ASSUME TypeInv, PointerIdentity, HeapInv, RegisteredWait, Next,
         NEW t \in Thread, WaitInv(t), Acquire(t)
  PROVE  WaitInv(t)'
<1> PICK x \in Var : \/ LockRead(t, x) \/ ClaimWrite(t, x) \/ CommitFail(t, x)
                     \/ CheckOk(t, x) \/ CheckChanged(t, x)
  BY DEF Acquire
<1>1. CASE LockRead(t, x) \/ ClaimWrite(t, x)
  <2>1. pc[t] = "commit" /\ UNCHANGED <<pc, log, alts, seen>>
    BY <1>1 DEF LockRead, ClaimWrite, Locking
  <2>2. alts[t] = <<>>
    BY <2>1 DEF WaitInv
  <2> QED BY <2>1, <2>2, KeepsWaiting
<1>2. CASE CommitFail(t, x) \/ CheckChanged(t, x)
  BY <1>2, ResetWaits DEF CommitFail, CheckChanged, EndWait
<1> QED BY <1>1, <1>2, CheckWaits

LEMMA CommitWaits ==
  ASSUME TypeInv, PointerIdentity, HeapInv, RegisteredWait, Next,
         NEW t \in Thread, WaitInv(t), Commit(t)
  PROVE  WaitInv(t)'
<1>1. CASE Return(t)
  BY <1>1, ResetWaits DEF Return, Leave
<1>2. ASSUME NEW u \in Thread, SetChanged(t, u) PROVE WaitInv(t)'
  BY <1>2, OthersWait DEF SetChanged
<1>3. CASE ~Return(t) /\ ~\E u \in Thread : SetChanged(t, u)
  <2>1. /\ pc[t] \in {"commit", "write", "wake"} /\ pc'[t] \in {"commit", "write", "wake"}
        /\ log' = log /\ alts' = alts /\ seen'[t] \in {seen[t], {}}
    BY <1>3 DEF Commit, LockWrite, WriteBack, TakeWaiters, ReleaseReads, BeginWake, Locking,
                TypeInv, TypeOK
  <2>2. alts[t] = <<>>
    BY <2>1 DEF WaitInv
  <2> QED BY <2>1, <2>2, KeepsWaiting
<1> QED BY <1>1, <1>2, <1>3

LEMMA WaitForChangeWaits ==
  ASSUME TypeInv, PointerIdentity, HeapInv, RegisteredWait, Next,
         NEW t \in Thread, WaitInv(t), WaitForChange(t)
  PROVE  WaitInv(t)'
<1>1. CASE StartWait(t)
  <2>1. /\ pc[t] \in {"retry", "failed"} /\ pc'[t] = "register" /\ alts[t] = <<>>
        /\ UNCHANGED <<value, log, alts, seen>>
    BY <1>1 DEF StartWait, TypeInv, TypeOK
  <2>2. t \notin Waiting
    BY <2>1 DEF Waiting
  <2>3. pc[t] = "failed" => Outdated(t)
    <3>1. SUFFICES ASSUME NEW x \in Var, log[t][x].tag = "Read",
                          log[t][x].orig.addr # value[x].addr
                   PROVE  log[t][x].orig # Nil
      BY DEF HeapInv, Outdates, Outdated
    <3>2. log[t][x] \in LogVar \cup {Vacant}
      BY DEF TypeInv, TypeOK, RegisterType
    <3> QED BY <3>1, <3>2, LogVarCases, NilFacts DEF OrigTags
  <2>4. Outdated(t)' = Outdated(t) /\ NoBlindWrite(t)' = NoBlindWrite(t)
    BY <2>1 DEF Outdated, NoBlindWrite
  <2>5. Kept(t) => Kept(t)'
    BY <2>1, <2>2 DEF Kept, Found
  <2> QED BY <2>1, <2>3, <2>4, <2>5 DEF WaitInv, Dropped
<1>2. ASSUME NEW x \in Var, Register(t, x) PROVE WaitInv(t)'
  <2>1. /\ pc[t] = "register" /\ pc'[t] = "check" /\ todo'[t] = {x}
        /\ t \in waiting'[x] /\ UNCHANGED <<value, log, alts, seen>>
    BY <1>2 DEF Register, TypeInv, TypeOK
  <2>2. t \in Waiting /\ t \in Waiting' /\ seen[t] \subseteq Var
    BY <2>1 DEF Waiting, TypeInv, TypeOK
  <2>3. \A y \in Var : Listed(t, y) => Listed(t, y)'
    BY <2>2, StaysListed
  <2>4. Kept(t) => Kept(t)'
    BY <2>1, <2>2, <2>3 DEF Kept, Found
  <2>5. Listed(t, x)'
    BY <2>1 DEF Listed
  <2>6. Outdated(t)' = Outdated(t) /\ NoBlindWrite(t)' = NoBlindWrite(t)
    BY <2>1 DEF Outdated, NoBlindWrite
  <2> QED BY <2>1, <2>4, <2>5, <2>6 DEF WaitInv, Dropped
<1>3. CASE Park(t)
  <2>1. /\ pc[t] = "register" /\ pc'[t] = "parked" /\ log'[t] = NoLog
        /\ UNCHANGED <<alts, seen>> /\ Unregistered(t) = {}
    BY <1>3 DEF Park, TypeInv, TypeOK
  <2>2. t \in Waiting /\ t \in Waiting' /\ seen[t] \subseteq Var /\ alts[t] = <<>>
    BY <2>1 DEF Waiting, TypeInv, TypeOK, WaitInv
  <2>3. ASSUME NEW y \in Var PROVE log[t][y].orig = Nil
    <3>1. log[t][y] \in LogVar \cup {Vacant} /\ IntoReadValue(log[t][y]) = Nil
      BY <2>1 DEF TypeInv, TypeOK, RegisterType, Unregistered
    <3> QED BY <3>1, LogVarCases DEF IntoReadValue
  <2>4. Kept(t)
    BY <2>1, <2>3 DEF WaitInv, Dropped, Outdated
  <2>5. \A y \in Var : Listed(t, y) => Listed(t, y)'
    BY <2>2, StaysListed
  <2>6. \A y \in Var : ~Found(t, y)
    BY <2>2, <2>3 DEF Found
  <2>7. Kept(t)'
    BY <2>1, <2>2, <2>4, <2>5, <2>6 DEF Kept
  <2>8. NoBlindWrite(t)'
    BY <2>1, <2>2 DEF NoBlindWrite, NoLog, Vacant, Entry
  <2> QED BY <2>1, <2>2, <2>7, <2>8 DEF WaitInv
<1>4. CASE Unpark(t)
  BY <1>4, ResetWaits DEF Unpark, EndWait
<1> QED BY <1>1, <1>2, <1>3, <1>4 DEF WaitForChange

\* A thread's own step, and any other.
LEMMA WaitStep ==
  ASSUME TypeInv, PointerIdentity, HeapInv, RegisteredWait, Next,
         NEW t \in Careful, WaitInv(t)
  PROVE  WaitInv(t)'
<1>0. t \in Thread
  BY DEF Careful
<1>1. PICK u \in Thread : ThreadStep(u)
  BY DEF Next, ThreadStep
<1>2. CASE u # t
  <2>1. /\ log'[t] = log[t] /\ alts'[t] = alts[t] /\ seen'[t] = seen[t]
        /\ pc'[t] = pc[t] /\ todo'[t] = todo[t]
    BY <1>0, <1>1, <1>2, OthersOwn DEF ThreadStep
  <2> QED BY <1>0, <2>1, OthersWait
<1>3. CASE Atomic(t)
  <2>1. /\ log'[t] = log[t] /\ alts'[t] = alts[t] /\ seen'[t] = seen[t]
        /\ pc'[t] = pc[t] /\ todo'[t] = todo[t]
    BY <1>3 DEF Atomic, ReadAtomic, WriteAtomic
  <2> QED BY <1>0, <2>1, OthersWait
<1>4. CASE u = t /\ ~Atomic(t)
  BY <1>0, <1>1, <1>4, EntryPointsWait, AccessWaits, OrWaits, AcquireWaits, CommitWaits,
     WaitForChangeWaits DEF ThreadStep
<1> QED BY <1>1, <1>2, <1>3, <1>4

\* A sleeper has nothing left in its register.
ParkedEmpty == \A t \in Thread : pc[t] = "parked" => log[t] = NoLog

LEMMA ParkedStep ==
  ASSUME TypeInv, ParkedEmpty, Next
  PROVE  ParkedEmpty'
<1>1. SUFFICES ASSUME NEW t \in Thread, pc'[t] = "parked" PROVE log'[t] = NoLog
  BY DEF ParkedEmpty
<1>2. PICK u \in Thread : ThreadStep(u)
  BY DEF Next, ThreadStep
<1>3. CASE u # t
  BY <1>1, <1>2, <1>3, OthersOwn DEF ThreadStep, ParkedEmpty
<1>4. CASE Park(t)
  BY <1>4 DEF Park, TypeInv, TypeOK
<1>5. CASE u = t /\ ~Park(t)
  <2>1. \E v \in Thread : SetChanged(t, v)
    BY <1>1, <1>2, <1>5, Arrives DEF StartWait, Register, CheckOk, TypeInv, TypeOK
  <2> QED BY <1>1, <2>1 DEF ParkedEmpty, SetChanged
<1> QED BY <1>2, <1>3, <1>4, <1>5

AllWait == \A t \in Careful : WaitInv(t)

WaitsInv ==
  /\ TypeInv /\ PointerIdentity /\ HeapInv
  /\ RegisteredWait /\ ParkedEmpty /\ AllWait

LEMMA WaitsInvariant == Spec => []WaitsInv
<1>1. Init => RegisteredWait /\ ParkedEmpty /\ AllWait
  BY DEF Init, RegisteredWait, ParkedEmpty, AllWait, WaitInv, NoBlindWrite, NoLog, Vacant,
         Entry, Kept, Careful
<1>2. WaitsInv /\ Next => ParkedEmpty' /\ AllWait'
  BY WaitStep, ParkedStep DEF WaitsInv, AllWait
<1>3. WaitsInv /\ UNCHANGED vars => ParkedEmpty' /\ AllWait'
  <2> SUFFICES ASSUME WaitsInv, UNCHANGED vars
               PROVE  ParkedEmpty' /\ AllWait'
    OBVIOUS
  <2>1. ParkedEmpty'
    BY DEF WaitsInv, ParkedEmpty, vars
  <2>2. ASSUME NEW t \in Careful PROVE WaitInv(t)'
    BY DEF WaitsInv, AllWait, vars, WaitInv, NoBlindWrite, Kept, Dropped, Found, Listed, Outdated, Waiting
  <2> QED BY <2>1, <2>2 DEF AllWait
<1>4. WaitsInv /\ [Next]_vars => ParkedEmpty' /\ AllWait'
  BY <1>2, <1>3
<1> QED BY <1>1, <1>4, HeapInvariant, RegisteredInvariant, PTL DEF Spec, WaitsInv

LEMMA ListedSleeper ==
  ASSUME WaitsInv, NEW t \in Careful, pc[t] = "parked", blocked[t], NEW x \in seen[t]
  PROVE  t \in waiting[x] \/ \E u \in Thread : t \in waking[u]
<1>1. t \in Thread /\ x \in Var
  BY DEF Careful, WaitsInv, TypeInv, TypeOK
<1>2. WaitInv(t) /\ log[t] = NoLog
  BY <1>1 DEF WaitsInv, AllWait, ParkedEmpty
<1>3. ~Found(t, x)
  BY <1>1, <1>2 DEF WaitInv, Found, NoLog, Vacant, Entry
<1> QED BY <1>2, <1>3 DEF WaitInv, Dropped, Kept, Listed

\* No thread uses both or and write in its closures.
NoBlindAlternatives == \A t \in Thread : ~({"or", "write"} \subseteq Ops[t])

\* A thread sleeps on every TVar it has loaded, also on those that only an
\* abandoned alternative of or has loaded: it is on their lists, or somebody
\* is waking it, as long as it has not been woken.
THEOREM SleepsOnAllReads ==
  ASSUME NoBlindAlternatives
  PROVE  Spec => []WaitsOnAllReads
<1>1. Careful = Thread
  BY DEF NoBlindAlternatives, Careful
<1>2. WaitsInv => WaitsOnAllReads
  BY <1>1, ListedSleeper DEF WaitsOnAllReads
<1> QED BY <1>2, WaitsInvariant, PTL

-----------------------------------------------------------------------------
(* No wakeup is lost.  A TVar that changes is announced by the transaction *)
(* that wrote it, from its first store until it has woken everybody who    *)
(* was on the list of the TVar.  Who is on the list before it is taken is  *)
(* woken; who comes later finds the new value when it looks again.         *)
(*                                                                         *)
(* All this needs closures without or, where a register may hold a later   *)
(* load than the first, and transactions as the only writers: write_atomic *)
(* announces nothing.                                                      *)

AnnouncedBy(u, t, x) ==
  \/ pc[u] = "write" /\ x \in Written(u)
  \/ pc[u] = "wake" /\ (x \in todo[u] \/ t \in waking[u])

Announced(t, x) == \E u \in Thread : AnnouncedBy(u, t, x)

\* What t has registered with and is not waiting to compare.
Heard(t) ==
  t \in Waiting /\ blocked[t] =>
    \A x \in stale[t] : log[t][x].orig = Nil => Announced(t, x)

Simple == {t \in Thread : "or" \notin Ops[t]}

WakersWake ==
  /\ \A u \in Thread : waking[u] # {} => pc[u] = "wake"
  /\ Waiting # {} => WaitOnRetry

\* The steps that use the waiting lists.
LEMMA WakeShape ==
  ASSUME NEW u \in Thread, ThreadStep(u)
  PROVE  \/ UNCHANGED wakeVars \/ StartWait(u) \/ EndWait(u)
         \/ \E x \in Var : Register(u, x) \/ TakeWaiters(u, x)
         \/ \E v \in Thread : SetChanged(u, v)
BY DEF ThreadStep, Begin, EndOfClosure, ClosureOk, ClosureRetry, ClosureAbort,
       ClosurePanic, ControlAbort, Restart, Leave, Access, Read, Write, Exchange, Modify,
       EarlyConflict, Or, OrBegin, OrFirstOk, OrFirstRetry, OrSecondDone,
       Acquire, LockRead, ClaimWrite, CommitFail, CheckOk, CheckChanged,
       Commit, LockWrite, WriteBack, ReleaseReads, BeginWake, Return,
       WaitForChange, Park, Unpark, Atomic, ReadAtomic, WriteAtomic

\* The announcer goes on.
LEMMA AnnouncerStep ==
  ASSUME TypeInv, WakersWake, NEW u \in Thread, ThreadStep(u), NEW t \in Thread, NEW x \in Var,
         AnnouncedBy(u, t, x), t \in Waiting, blocked[t], blocked'[t],
         t \in waiting[x] \/ \E w \in Thread : t \in waking[w]
  PROVE  Announced(t, x)'
<1>1. \/ BeginWake(u) \/ Return(u) \/ \E v \in Thread : SetChanged(u, v)
      \/ \E y \in Var : WriteBack(u, y) \/ TakeWaiters(u, y)
  BY Places DEF AnnouncedBy
<1>2. WaitOnRetry
  BY DEF WakersWake
<1>3. ASSUME NEW y \in Var, WriteBack(u, y) PROVE Announced(t, x)'
  <2>1. pc' = pc /\ log' = log /\ pc[u] = "write" /\ x \in Written(u)
    BY <1>3 DEF WriteBack, AnnouncedBy
  <2> QED BY <2>1 DEF Announced, AnnouncedBy, Written
<1>4. CASE BeginWake(u)
  <2>1. pc'[u] = "wake" /\ x \in todo'[u]
    BY <1>4 DEF BeginWake, AnnouncedBy, TypeInv, TypeOK
  <2> QED BY <2>1 DEF Announced, AnnouncedBy
<1>5. ASSUME NEW y \in Var, TakeWaiters(u, y) PROVE Announced(t, x)'
  <2>1. /\ pc' = pc /\ pc[u] = "wake" /\ waking[u] = {} /\ x \in todo[u]
        /\ waking'[u] = waiting[y] /\ \A w \in Thread \ {u} : waking'[w] = waking[w]
        /\ todo'[u] = todo[u] \ {y}
    BY <1>5 DEF TakeWaiters, Locked, AnnouncedBy, TypeInv, TypeOK
  <2>2. CASE x # y
    BY <2>1, <2>2 DEF Announced, AnnouncedBy
  <2>3. CASE x = y /\ t \in waiting[x]
    BY <2>1, <2>3 DEF Announced, AnnouncedBy
  <2>4. CASE \E w \in Thread : t \in waking[w]
    <3>1. PICK w \in Thread : t \in waking[w]
      BY <2>4
    <3>2. pc[w] = "wake" /\ w # u
      BY <2>1, <3>1 DEF WakersWake
    <3> QED BY <2>1, <3>1, <3>2 DEF Announced, AnnouncedBy
  <2> QED BY <2>2, <2>3, <2>4
<1>6. ASSUME NEW v \in Thread, SetChanged(u, v) PROVE Announced(t, x)'
  <2>1. /\ pc' = pc /\ log' = log /\ todo' = todo /\ v # t
        /\ waking'[u] = waking[u] \ {v}
    BY <1>6 DEF SetChanged, TypeInv, TypeOK
  <2> QED BY <2>1 DEF Announced, AnnouncedBy, Written
<1>7. ~Return(u)
  BY <1>2 DEF Return, AnnouncedBy
<1> QED BY <1>1, <1>3, <1>4, <1>5, <1>6, <1>7

\* Other threads leave the announcer alone.
LEMMA AnnouncerStays ==
  ASSUME TypeInv, NEW v \in Thread, ThreadStep(v), NEW u \in Thread \ {v},
         NEW t \in Thread, NEW x \in Var, AnnouncedBy(u, t, x), t \in Waiting, t \in Waiting'
  PROVE  Announced(t, x)'
<1>1. log'[u] = log[u] /\ pc'[u] = pc[u] /\ todo'[u] = todo[u]
  BY OthersOwn DEF ThreadStep
<1>2. t \in waking[u] => t \in waking'[u]
  <2>1. CASE waking'[u] = waking[u]
    BY <2>1
  <2>2. CASE EndWait(v)
    <3>1. v # t
      BY <2>2 DEF EndWait, Reset, Waiting, TypeInv, TypeOK
    <3> QED BY <2>2, <3>1 DEF EndWait
  <2>3. CASE \E y \in Var : TakeWaiters(v, y)
    BY <2>3 DEF TakeWaiters, TypeInv, TypeOK
  <2>4. CASE \E w \in Thread : SetChanged(v, w)
    BY <2>4 DEF SetChanged, TypeInv, TypeOK
  <2> QED BY <2>1, <2>2, <2>3, <2>4, WakeShape DEF wakeVars, StartWait, Register
<1> QED BY <1>1, <1>2 DEF Announced, AnnouncedBy, Written

LEMMA WakersStep ==
  ASSUME TypeInv, WakersWake, Next
  PROVE  WakersWake'
<1>1. PICK v \in Thread : ThreadStep(v)
  BY DEF Next, ThreadStep
<1>2. ASSUME NEW u \in Thread, waking'[u] # {} PROVE pc'[u] = "wake"
  <2>1. \/ pc[u] = "wake" /\ waking[u] # {}
        \/ v = u /\ \E x \in Var : TakeWaiters(u, x)
    <3>1. CASE EndWait(v)
      BY <1>2, <3>1 DEF EndWait, WakersWake
    <3>2. ASSUME NEW w \in Thread, SetChanged(v, w) PROVE waking[u] # {}
      BY <1>2, <3>2 DEF SetChanged, TypeInv, TypeOK
    <3>3. ASSUME NEW x \in Var, TakeWaiters(v, x) PROVE v = u \/ waking[u] # {}
      BY <1>2, <3>3 DEF TakeWaiters, TypeInv, TypeOK
    <3> QED BY <1>1, <1>2, <3>1, <3>2, <3>3, WakeShape DEF WakersWake, StartWait, Register
  <2>2. CASE v = u /\ \E x \in Var : TakeWaiters(u, x)
    BY <2>2 DEF TakeWaiters
  <2>3. CASE pc[u] = "wake" /\ waking[u] # {}
    <3>1. CASE v # u
      BY <1>1, <2>3, <3>1, OthersOwn DEF ThreadStep
    <3>2. CASE v = u
      BY <1>1, <2>3, <3>2, Places DEF TakeWaiters, SetChanged, Return
    <3> QED BY <3>1, <3>2
  <2> QED BY <2>1, <2>2, <2>3
<1>3. ASSUME NEW t \in Waiting' PROVE WaitOnRetry
  <2>1. t \in Thread
    BY DEF Waiting
  <2>2. CASE t \in Waiting
    BY <2>2 DEF WakersWake
  <2>3. CASE t \notin Waiting
    <3>1. v = t
      BY <1>1, <1>3, <2>1, <2>3, OthersOwn DEF Waiting
    <3>2. StartWait(t)
      BY <1>1, <1>3, <2>1, <2>3, <3>1, Arrives
         DEF Waiting, Register, CheckOk, Park, SetChanged
    <3> QED BY <3>2 DEF StartWait, Waits
  <2> QED BY <2>2, <2>3
<1> QED BY <1>2, <1>3 DEF WakersWake

\* How a thread comes to wait, and what happens to its register then.
LEMMA WaitingSteps ==
  ASSUME TypeInv, NEW u \in Thread, ThreadStep(u),
         NEW t \in Waiting', blocked'[t], ~StartWait(t)
  PROVE  /\ t \in Waiting /\ blocked[t]
         /\ log'[t] = log[t] \/ Park(t) \/ \E y \in Var : CheckOk(t, y)
<1>1. t \in Thread
  BY DEF Waiting
<1>2. blocked[t]
  <2>1. CASE StartWait(u)
    BY <1>1, <2>1 DEF StartWait, TypeInv, TypeOK
  <2>2. ASSUME NEW v \in Thread, SetChanged(u, v) PROVE blocked[t]
    BY <1>1, <2>2 DEF SetChanged, TypeInv, TypeOK
  <2> QED BY <2>1, <2>2, WakeShape DEF wakeVars, EndWait, Register, TakeWaiters
<1>3. CASE u = t
  <2>1. \/ Park(t) \/ \E y \in Var : Register(t, y) \/ CheckOk(t, y)
        \/ \E v \in Thread : SetChanged(t, v)
    BY <1>1, <1>3, Arrives DEF Waiting
  <2>2. t \in Waiting
    BY <1>1, <2>1 DEF Waiting, Park, Register, CheckOk, SetChanged
  <2> QED BY <1>2, <2>1, <2>2 DEF Register, SetChanged
<1>4. CASE u # t
  <2>1. log'[t] = log[t] /\ pc'[t] = pc[t]
    BY <1>1, <1>4, OthersOwn
  <2> QED BY <1>1, <1>2, <2>1 DEF Waiting
<1> QED BY <1>3, <1>4

\* Every store is a transaction's.
NoAtomicWrites == \A t \in Thread : "write_atomic" \notin Ops[t]

LEMMA StoreSteps ==
  ASSUME TypeInv, NoAtomicWrites, NEW u \in Thread, ThreadStep(u), NEW t \in Thread,
         NEW x \in stale'[t]
  PROVE  x \in stale[t] \/ (WriteBack(u, x) /\ x \in Var)
<1>1. ASSUME NEW p, Reset(u, p) PROVE x \in stale[t]
  BY <1>1 DEF Reset, TypeInv, TypeOK
<1>2. CASE \E y \in Var : WriteBack(u, y)
  BY <1>2 DEF WriteBack, Store
<1>3. CASE ReleaseReads(u)
  BY <1>3 DEF ReleaseReads, TypeInv, TypeOK
<1>4. CASE ~ReleaseReads(u) /\ ~\E y \in Var : WriteBack(u, y)
  BY <1>1, <1>4
     DEF NoAtomicWrites, ThreadStep, Begin, EndOfClosure, ClosureOk, ClosureRetry, ClosureAbort,
         ClosurePanic, ControlAbort, Restart, Leave, Access, Read, Write, Exchange, Modify,
         EarlyConflict, Saw, Or, OrBegin, OrFirstOk, OrFirstRetry, OrSecondDone,
         Acquire, LockRead, ClaimWrite, CommitFail, CheckOk, CheckChanged, EndWait,
         Commit, LockWrite, TakeWaiters, BeginWake, SetChanged, Return,
         WaitForChange, StartWait, Register, Park, Unpark, Atomic, ReadAtomic, WriteAtomic
<1> QED BY <1>2, <1>3, <1>4

LEMMA HeardStep ==
  ASSUME WaitsInv, PlainInv, WakersWake, NoAtomicWrites, Next,
         NEW t \in Simple, Heard(t)
  PROVE  Heard(t)'
<1> SUFFICES ASSUME t \in Waiting', blocked'[t], NEW x \in stale'[t], log'[t][x].orig = Nil
             PROVE  Announced(t, x)'
  BY DEF Heard
<1>0. /\ TypeInv /\ PointerIdentity /\ HeapInv /\ RegisteredWait /\ t \in Thread
      /\ t \in Careful /\ WaitInv(t) /\ alts[t] = <<>> /\ LoadsKept(t) /\ "or" \notin Ops[t]
  BY DEF WaitsInv, Simple, Careful, AllWait, WaitInv, PlainInv
<1>1. PICK u \in Thread : ThreadStep(u)
  BY DEF Next, ThreadStep
<1>2. x \in stale[t] \/ (WriteBack(u, x) /\ x \in Var)
  BY <1>0, <1>1, StoreSteps
<1>3. CASE StartWait(t)
  <2>1. x \in stale[t]
    BY <1>2, <1>3 DEF WriteBack, StartWait, TypeInv, TypeOK
  <2>2. Pending(t) /\ log' = log
    BY <1>3 DEF StartWait, Pending
  <2> QED BY <1>0, <2>1, <2>2 DEF LoadsKept
<1>4. CASE ~StartWait(t) /\ WriteBack(u, x) /\ x \in Var
  <2>1. pc[u] = "write" /\ x \in Written(u) /\ pc' = pc /\ log' = log
    BY <1>0, <1>4 DEF WriteBack, IsNext, TypeInv, WritesHaveValues
  <2> QED BY <2>1 DEF Announced, AnnouncedBy, Written
<1>5. CASE ~StartWait(t) /\ x \in stale[t]
  <2>1. /\ t \in Waiting /\ blocked[t]
        /\ log'[t] = log[t] \/ Park(t) \/ \E y \in Var : CheckOk(t, y)
    BY <1>0, <1>1, <1>5, WaitingSteps
  <2>2. x \in seen[t] /\ x \in Var /\ log[t][x].orig # value[x]
    BY <1>0, <1>5 DEF LoadsKept, TypeInv, TypeOK
  <2>3. log[t][x].orig = Nil
    <3>0. log[t][x] \in LogVar \cup {Vacant} /\ log[t] \in RegisterType
      BY <1>0, <2>2 DEF TypeInv, TypeOK, RegisterType
    <3>1. CASE Park(t)
      <4>1. IntoReadValue(log[t][x]) = Nil
        BY <2>2, <3>1 DEF Park, Unregistered
      <4> QED BY <3>0, <4>1, LogVarCases DEF IntoReadValue
    <3>2. ASSUME NEW y \in Var, CheckOk(t, y), log[t][x].orig # Nil PROVE FALSE
      <4>1. y = x
        BY <1>0, <2>2, <3>0, <3>2 DEF CheckOk, TypeInv, TypeOK, RegisterType
      <4>2. log[t][x].orig \in Arc
        BY <3>0, <3>2, LogVarCases
      <4> QED BY <1>0, <2>2, <3>2, <4>1, <4>2, CurrentIsEqual DEF CheckOk
    <3> QED BY <2>1, <3>1, <3>2
  <2>4. t \in waiting[x] \/ \E w \in Thread : t \in waking[w]
    <3>1. ~Found(t, x)
      BY <1>0, <2>3 DEF Found
    <3> QED BY <1>0, <2>1, <2>2, <3>1 DEF WaitInv, Dropped, Kept, Listed
  <2>5. PICK w \in Thread : AnnouncedBy(w, t, x)
    BY <1>5, <2>1, <2>3 DEF Heard, Announced
  <2> QED BY <1>0, <1>1, <2>1, <2>2, <2>4, <2>5, AnnouncerStep, AnnouncerStays
<1> QED BY <1>2, <1>3, <1>4, <1>5

AllHeard == \A t \in Simple : Heard(t)

LEMMA HeardInvariant ==
  ASSUME NoAtomicWrites
  PROVE  Spec => [](WaitsInv /\ AllHeard)
<1>1. Init => WakersWake /\ AllHeard
  BY DEF Init, WakersWake, AllHeard, Heard, Waiting
<1>2. WaitsInv /\ PlainInv /\ WakersWake /\ AllHeard /\ Next => AllHeard'
  BY HeardStep DEF AllHeard
<1>3. TypeInv /\ WakersWake /\ Next => WakersWake'
  BY WakersStep
<1>4. WakersWake /\ UNCHANGED vars => WakersWake'
  BY DEF vars, WakersWake, Waiting
<1>5. AllHeard /\ UNCHANGED vars => AllHeard'
  BY DEF vars, AllHeard, Heard, Waiting, Announced, AnnouncedBy, Written
<1>6. WaitsInv => TypeInv
  BY DEF WaitsInv
<1> QED BY <1>1, <1>2, <1>3, <1>4, <1>5, <1>6, WaitsInvariant, PlainInvariant, PTL DEF Spec

\* While a thread sleeps although a TVar it has loaded has changed, the
\* transaction that changed it is about to wake it: nothing falls between the
\* comparison of the value, the registration and the list's being taken.
THEOREM NoWakeupIsLost ==
  ASSUME NoAlternatives, NoAtomicWrites
  PROVE  Spec => []NoLostWakeup
<1>1. WaitsInv /\ AllHeard => NoLostWakeup
  <2> SUFFICES ASSUME WaitsInv, AllHeard,
                      NEW t \in Thread, pc[t] = "parked", blocked[t], NEW x \in stale[t]
               PROVE  \E u \in Thread :
                        \/ pc[u] = "write" /\ x \in Written(u)
                        \/ pc[u] = "wake" /\ (x \in todo[u] \/ t \in waking[u])
    BY DEF NoLostWakeup
  <2>1. t \in Waiting /\ Heard(t) /\ log[t] = NoLog /\ x \in Var
    BY DEF AllHeard, Simple, NoAlternatives, Waiting, WaitsInv, ParkedEmpty, TypeInv, TypeOK
  <2>2. log[t][x].orig = Nil
    BY <2>1 DEF NoLog, Vacant, Entry
  <2> QED BY <2>1, <2>2 DEF Heard, Announced, AnnouncedBy
<1> QED BY <1>1, HeardInvariant, PTL
=============================================================================
