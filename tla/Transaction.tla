---------------------------- MODULE Transaction ----------------------------
(***************************************************************************)
(* The STM runtime: threads run closures on registers of LogVars, commit   *)
(* them with two-phase locking over the TVars, and sleep after a retry     *)
(* until a TVar they read changes (transaction/mod.rs, tvar.rs).           *)
(*                                                                         *)
(* The closure is the user's: it is any sequence of at most MaxOps[t]      *)
(* calls of the API, of the kinds Ops[t] names.  Each call, each lock that *)
(* is taken, each value that is stored and each wake-up is one step, and   *)
(* the steps of all threads interleave.                                    *)
(***************************************************************************)
EXTENDS Naturals, Sequences, LogVar

CONSTANTS Thread,                  \* threads
          Var,                     \* TVars, named by the address of their control block
          Fns,                     \* functions closures pass to modify
          Ops,                     \* Ops[t]: the calls thread t's closures make
          Modes,                   \* the entry points threads use
          InitValue,               \* the Arc every TVar is created with
          MaxOps,                  \* MaxOps[t]: bound on the calls of one run of t's closure
          MaxAlts,                 \* bound on the nesting of Transaction::or
          EarlyConflictDetection,  \* the cargo features of the build
          WaitOnRetry

ASSUME ConstantsAssumption ==
  /\ Var \subseteq Nat /\ Addr \subseteq Nat
  /\ Fns \subseteq [Val -> Val]
  /\ Nil \notin Thread \cup Val \cup Arc
  /\ InitValue \in [Var -> Arc]
  /\ MaxOps \in [Thread -> Nat] /\ MaxAlts \in Nat
  /\ Modes \subseteq {"with", "with_control", "with_err", "with_control_and_err"}
  /\ EarlyConflictDetection \in BOOLEAN /\ WaitOnRetry \in BOOLEAN

ControlModes == {"with_control", "with_control_and_err"}
ErrModes     == {"with_err", "with_control_and_err"}

VARIABLES
  \* VarControlBlock, by TVar
  value,    \* the Arc in the RwLock
  readers,  \* the threads that hold its read lock
  writer,   \* the thread that holds or has claimed its write lock, or Nil
  waiting,  \* waiting_threads: the threads whose ControlBlock is registered and alive
  \* Transaction, by thread
  pc,       \* where the thread is
  mode,     \* the entry point it called
  log,      \* log[t][x]: its register's entry for x, or Vacant
  alts,     \* the pending calls of Transaction::or, innermost first
  nops,     \* calls the closure has made in this run
  ret,      \* what the last of them returned
  todo,     \* the TVars the current loop of commit or wait_for_change has left
  waking,   \* the ControlBlocks wake_all has taken and not informed yet
  \* ControlBlock, by thread
  blocked,
  \* History: the TVars the attempt has loaded (in any alternative), and
  \* those of them that have been overwritten since.
  seen, stale

lockVars == <<readers, writer>>
tvarVars == <<value, readers, writer>>
wakeVars == <<waiting, waking, blocked>>
histVars == <<seen, stale>>
vars == <<value, readers, writer, waiting, pc, mode, log, alts, nops, ret,
          todo, waking, blocked, seen, stale>>

-----------------------------------------------------------------------------
NoLog == [x \in Var |-> Vacant]
RegisterType == [Var -> LogVar \cup {Vacant}]
Alternative == [branch : {1, 2}, copy : RegisterType]

TypeOK ==
  /\ value \in [Var -> Arc]
  /\ readers \in [Var -> SUBSET Thread]
  /\ writer \in [Var -> Thread \cup {Nil}]
  /\ waiting \in [Var -> SUBSET Thread]
  /\ pc \in [Thread -> {"idle", "closure", "retry", "failed", "commit", "write",
                        "wake", "register", "check", "parked"}]
  /\ mode \in [Thread -> Modes \cup {Nil}]
  /\ log \in [Thread -> RegisterType]
  /\ alts \in [Thread -> Seq(Alternative)]
  /\ nops \in [Thread -> Nat]
  /\ ret \in [Thread -> Val \cup {Nil}]
  /\ todo \in [Thread -> SUBSET Var]
  /\ waking \in [Thread -> SUBSET Thread]
  /\ blocked \in [Thread -> BOOLEAN]
  /\ seen \in [Thread -> SUBSET Var]
  /\ stale \in [Thread -> SUBSET Var]

Init ==
  /\ value = InitValue
  /\ readers = [x \in Var |-> {}]
  /\ writer = [x \in Var |-> Nil]
  /\ waiting = [x \in Var |-> {}]
  /\ pc = [t \in Thread |-> "idle"]
  /\ mode = [t \in Thread |-> Nil]
  /\ log = [t \in Thread |-> NoLog]
  /\ alts = [t \in Thread |-> <<>>]
  /\ nops = [t \in Thread |-> 0]
  /\ ret = [t \in Thread |-> Nil]
  /\ todo = [t \in Thread |-> {}]
  /\ waking = [t \in Thread |-> {}]
  /\ blocked = [t \in Thread |-> FALSE]
  /\ seen = [t \in Thread |-> {}]
  /\ stale = [t \in Thread |-> {}]

-----------------------------------------------------------------------------
(* Arc::new.  An Arc is alive while a TVar, a register or a register saved *)
(* by or refers to it; the allocator may give out any other address.  Only *)
(* Arcs of the same TVar are ever compared, and only for equality, so each *)
(* TVar has addresses of its own, and one choice of a dead one stands for  *)
(* all: the least.                                                         *)

\* The registers t refers to.
Registers(t) == {log[t]} \cup {alts[t][i].copy : i \in DOMAIN alts[t]}

\* Broken variant: an entry does not keep the Arc it loaded alive.
ArcsOf_WeakReads(t, x) == {r[x].new : r \in Registers(t)}
ArcsOf(t, x) == UNION {{r[x].orig, r[x].new} : r \in Registers(t)}

LiveArcs(x) == ({value[x]} \cup UNION {ArcsOf(t, x) : t \in Thread}) \ {Nil}

FreeAddr(x) == Addr \ {a.addr : a \in LiveArcs(x)}

NewArc(x, v, a) ==
  /\ a.val = v
  /\ a.addr \in FreeAddr(x)
  /\ \A b \in FreeAddr(x) : a.addr <= b

-----------------------------------------------------------------------------
(* The entry points: with, with_control, with_err, with_control_and_err.   *)

\* The closure is (re)started on an empty register, or the transaction is
\* dropped: t enters pc p.
Reset(t, p) ==
  /\ pc' = [pc EXCEPT ![t] = p]
  /\ log' = [log EXCEPT ![t] = NoLog]
  /\ alts' = [alts EXCEPT ![t] = <<>>]
  /\ nops' = [nops EXCEPT ![t] = 0]
  /\ ret' = [ret EXCEPT ![t] = Nil]
  /\ todo' = [todo EXCEPT ![t] = {}]
  /\ seen' = [seen EXCEPT ![t] = {}]
  /\ stale' = [stale EXCEPT ![t] = {}]

Begin(t) ==
  /\ pc[t] = "idle"
  /\ \E m \in Modes : mode' = [mode EXCEPT ![t] = m]
  /\ Reset(t, "closure")
  /\ UNCHANGED <<tvarVars, wakeVars>>

\* The transaction ends without a commit, and its register is dropped.
Leave(t) ==
  /\ mode' = [mode EXCEPT ![t] = Nil]
  /\ Reset(t, "idle")
  /\ UNCHANGED <<tvarVars, wakeVars>>

\* The closure returned Ok: commit what the register holds.  Of the records
\* that are left of abandoned alternatives, commit takes no notice.
ClosureOk(t) ==
  /\ pc[t] = "closure" /\ alts[t] = <<>>
  /\ pc' = [pc EXCEPT ![t] = "commit"]
  /\ todo' = [todo EXCEPT ![t] =
                {x \in Var : log[t][x].tag \notin {"Vacant", "ReadObsolete"}}]
  /\ ret' = [ret EXCEPT ![t] = Nil]
  /\ UNCHANGED <<tvarVars, wakeVars, mode, log, alts, nops, histVars>>

\* The closure called retry.
ClosureRetry(t) ==
  /\ pc[t] = "closure" /\ "retry" \in Ops[t]
  /\ pc' = [pc EXCEPT ![t] = "retry"]
  /\ UNCHANGED <<tvarVars, wakeVars, mode, log, alts, nops, ret, todo, histVars>>

\* The closure called abort; alternatives cannot, by their type.
ClosureAbort(t) ==
  /\ pc[t] = "closure" /\ alts[t] = <<>>
  /\ "abort" \in Ops[t] /\ mode[t] \in ErrModes
  /\ Leave(t)

\* The closure panicked: unwinding drops the transaction.
ClosurePanic(t) ==
  /\ pc[t] = "closure" /\ "panic" \in Ops[t]
  /\ Leave(t)

\* The closure returned an StmError and the control function chose Abort.
ControlAbort(t) ==
  /\ pc[t] \in {"retry", "failed"} /\ alts[t] = <<>>
  /\ mode[t] \in ControlModes
  /\ Leave(t)

\* with_err waits after either StmError, the others after Retry only.
Waits(t) == WaitOnRetry /\ (pc[t] = "retry" \/ mode[t] = "with_err")

Restart(t) ==
  /\ pc[t] \in {"retry", "failed"} /\ alts[t] = <<>>
  /\ ~Waits(t)
  /\ Reset(t, "closure")
  /\ UNCHANGED <<tvarVars, wakeVars, mode>>

-----------------------------------------------------------------------------
(* The calls of the closure.                                               *)

Call(t, op) ==
  /\ pc[t] = "closure" /\ op \in Ops[t]
  /\ nops[t] < MaxOps[t]
  /\ nops' = [nops EXCEPT ![t] = @ + 1]

\* A read lock is to be had.
\* Broken variant: a writer that waits for readers does not keep new ones out.
NoWriter_Unfair(x) == writer[x] = Nil \/ readers[x] # {}
NoWriter(x) == writer[x] = Nil

\* Loading x takes its read lock for a moment; early conflict detection
\* does so again when x has been read before.

Rechecks(t, x) == EarlyConflictDetection /\ log[t][x].tag = "Read"

CanLoad(t, x) ==
  /\ (log[t][x] = Vacant \/ Rechecks(t, x)) => NoWriter(x)
  /\ Rechecks(t, x) => PtrEq(log[t][x].orig, value[x])

\* The entry of x, inserted as Read if the register has none.
Loaded(t, x) == IF log[t][x] = Vacant THEN ReadEntry(value[x]) ELSE log[t][x]

SetEntry(t, x, e) == log' = [log EXCEPT ![t][x] = e]

Saw(t, x) ==
  /\ seen' = IF log[t][x] = Vacant THEN [seen EXCEPT ![t] = @ \cup {x}] ELSE seen
  /\ stale' = stale

Read(t, x) ==
  /\ Call(t, "read") /\ CanLoad(t, x)
  /\ SetEntry(t, x, AfterRead(Loaded(t, x)))
  /\ ret' = [ret EXCEPT ![t] = ReadResult(Loaded(t, x)).val]
  /\ Saw(t, x)
  /\ UNCHANGED <<tvarVars, wakeVars, pc, mode, alts, todo>>

Write(t, x, v) ==
  /\ Call(t, "write")
  /\ \E a \in Arc : NewArc(x, v, a) /\ SetEntry(t, x, AfterWrite(log[t][x], a))
  /\ ret' = [ret EXCEPT ![t] = Nil]
  /\ UNCHANGED <<tvarVars, wakeVars, pc, mode, alts, todo, histVars>>

Modify(t, x, f) ==
  /\ Call(t, "modify") /\ CanLoad(t, x)
  /\ LET e == AfterRead(Loaded(t, x)) IN
       \E a \in Arc : NewArc(x, f[ReadResult(e).val], a) /\ SetEntry(t, x, AfterWrite(e, a))
  /\ ret' = [ret EXCEPT ![t] = Nil]
  /\ Saw(t, x)
  /\ UNCHANGED <<tvarVars, wakeVars, pc, mode, alts, todo>>

Exchange(t, x, v) ==
  /\ Call(t, "exchange") /\ CanLoad(t, x)
  /\ LET e == AfterRead(Loaded(t, x)) IN
       /\ \E a \in Arc : NewArc(x, v, a) /\ SetEntry(t, x, AfterWrite(e, a))
       /\ ret' = [ret EXCEPT ![t] = ReadResult(e).val]
  /\ Saw(t, x)
  /\ UNCHANGED <<tvarVars, wakeVars, pc, mode, alts, todo>>

\* read, modify or exchange finds that x is not what it was: the error
\* passes through every pending alternative.
\* Broken variant: what the closure sees is compared, be it its own write.
EarlyConflict_OwnWrite(t, x) ==
  /\ pc[t] = "closure" /\ Ops[t] \cap {"read", "modify", "exchange"} # {}
  /\ nops[t] < MaxOps[t]
  /\ EarlyConflictDetection /\ log[t][x].tag \in CheckedTags /\ NoWriter(x)
  /\ ~PtrEq(ReadResult(log[t][x]), value[x])
  /\ pc' = [pc EXCEPT ![t] = "failed"]
  /\ alts' = [alts EXCEPT ![t] = <<>>]
  /\ UNCHANGED <<tvarVars, wakeVars, mode, log, nops, ret, todo, histVars>>
EarlyConflict(t, x) ==
  /\ pc[t] = "closure" /\ Ops[t] \cap {"read", "modify", "exchange"} # {}
  /\ nops[t] < MaxOps[t]
  /\ Rechecks(t, x) /\ NoWriter(x)
  /\ ~PtrEq(log[t][x].orig, value[x])
  /\ pc' = [pc EXCEPT ![t] = "failed"]
  /\ alts' = [alts EXCEPT ![t] = <<>>]
  /\ UNCHANGED <<tvarVars, wakeVars, mode, log, nops, ret, todo, histVars>>

-----------------------------------------------------------------------------
(* Transaction::or.  The top of alts[t] is the innermost pending call.     *)
(* While its first alternative runs, copy is the backup of the register;   *)
(* while the second runs, copy is the register the first one left.         *)

Within(t, b) == alts[t] # <<>> /\ Head(alts[t]).branch = b

Pop(t) == alts' = [alts EXCEPT ![t] = Tail(@)]

OrBegin(t) ==
  /\ Call(t, "or") /\ Len(alts[t]) < MaxAlts
  /\ alts' = [alts EXCEPT ![t] = <<[branch |-> 1, copy |-> log[t]]>> \o @]
  /\ UNCHANGED <<tvarVars, wakeVars, pc, mode, log, ret, todo, histVars>>

OrFirstOk(t) ==
  /\ pc[t] = "closure" /\ Within(t, 1)
  /\ Pop(t)
  /\ UNCHANGED <<tvarVars, wakeVars, pc, mode, log, nops, ret, todo, histVars>>

OrFirstRetry(t) ==
  /\ pc[t] = "retry" /\ Within(t, 1)
  /\ pc' = [pc EXCEPT ![t] = "closure"]
  /\ log' = [log EXCEPT ![t] = Head(alts[t]).copy]
  /\ alts' = [alts EXCEPT ![t] = <<[branch |-> 2, copy |-> log[t]]>> \o Tail(@)]
  /\ UNCHANGED <<tvarVars, wakeVars, mode, nops, ret, todo, histVars>>

\* Ok or Retry: the reads of the first alternative are kept, and the result
\* is that of the second.
\* Broken variant: the registers are merged only if the second one retries, too.
OrSecondDone_DropsIfOk(t) ==
  /\ pc[t] \in {"closure", "retry"} /\ Within(t, 2)
  /\ log' = IF pc[t] = "retry"
            THEN [log EXCEPT ![t] = Combine(@, Head(alts[t]).copy)] ELSE log
  /\ Pop(t)
  /\ UNCHANGED <<tvarVars, wakeVars, pc, mode, nops, ret, todo, histVars>>
OrSecondDone(t) ==
  /\ pc[t] \in {"closure", "retry"} /\ Within(t, 2)
  /\ log' = [log EXCEPT ![t] = Combine(@, Head(alts[t]).copy)]
  /\ Pop(t)
  /\ UNCHANGED <<tvarVars, wakeVars, pc, mode, nops, ret, todo, histVars>>

-----------------------------------------------------------------------------
(* commit: two-phase locking.                                              *)

\* The TVars of the records are locked in the order of their addresses.
\* Broken variant: take the write locks before the read locks.
IsNext_WritesFirst(t, x) ==
  /\ x \in todo[t]
  /\ \A y \in todo[t] :
       \/ log[t][x].tag \in WriteTags /\ log[t][y].tag = "Read"
       \/ (log[t][x].tag = "Read" <=> log[t][y].tag = "Read") /\ x <= y
IsNext(t, x) ==
  /\ x \in todo[t]
  /\ \A y \in todo[t] : x <= y

Locking(t, x) == pc[t] = "commit" /\ IsNext(t, x)

\* The value found under the lock is the one that was loaded.
Current(t, x) == PtrEq(value[x], log[t][x].orig)

Locked(t, x) == todo' = [todo EXCEPT ![t] = @ \ {x}]

LockRead(t, x) ==
  /\ Locking(t, x) /\ log[t][x].tag = "Read"
  /\ NoWriter(x)
  /\ Current(t, x)
  /\ readers' = [readers EXCEPT ![x] = @ \cup {t}]
  /\ Locked(t, x)
  /\ UNCHANGED <<value, writer, wakeVars, pc, mode, log, alts, nops, ret, histVars>>

\* parking_lot: a writer first claims the lock, which keeps new readers out,
\* and has it when the readers are gone.
ClaimWrite(t, x) ==
  /\ Locking(t, x) /\ log[t][x].tag \in WriteTags
  /\ writer[x] = Nil
  /\ writer' = [writer EXCEPT ![x] = t]
  /\ UNCHANGED <<value, readers, wakeVars, pc, mode, log, alts, nops, ret, todo, histVars>>

HasWriteLock(t, x) == writer[x] = t /\ readers[x] = {}

LockWrite(t, x) ==
  /\ Locking(t, x)
  /\ HasWriteLock(t, x)
  /\ log[t][x].tag = "ReadWrite" => Current(t, x)
  /\ Locked(t, x)
  /\ UNCHANGED <<tvarVars, wakeVars, pc, mode, log, alts, nops, ret, histVars>>

ReleaseReadLocks(t) == readers' = [x \in Var |-> readers[x] \ {t}]

Conflict(t, x) ==
  /\ log[t][x].tag \in CheckedTags /\ ~Current(t, x)
  /\ IF log[t][x].tag = "Read" THEN NoWriter(x) ELSE HasWriteLock(t, x)

\* A value has changed: all locks are dropped and the closure is run again,
\* in every mode and without asking the control function.
\* Broken variant: a lock that is held by another thread counts as a conflict.
CommitFail_TryLock(t, x) ==
  /\ Locking(t, x) /\ (Conflict(t, x) \/ writer[x] \notin {t, Nil})
  /\ ReleaseReadLocks(t)
  /\ writer' = [y \in Var |-> IF writer[y] = t THEN Nil ELSE writer[y]]
  /\ Reset(t, "closure")
  /\ UNCHANGED <<value, wakeVars, mode>>
\* Broken variant: the write locks taken so far are not released.
CommitFail_KeepsLocks(t, x) ==
  /\ Locking(t, x) /\ Conflict(t, x)
  /\ ReleaseReadLocks(t)
  /\ Reset(t, "closure")
  /\ UNCHANGED <<value, writer, wakeVars, mode>>
CommitFail(t, x) ==
  /\ Locking(t, x) /\ Conflict(t, x)
  /\ ReleaseReadLocks(t)
  /\ writer' = [y \in Var |-> IF writer[y] = t THEN Nil ELSE writer[y]]
  /\ Reset(t, "closure")
  /\ UNCHANGED <<value, wakeVars, mode>>

Written(t) == {x \in Var : log[t][x].tag \in WriteTags}

\* All locks are held and all values are current: the transaction takes
\* effect.  The read locks are dropped first.
ReleaseReads(t) ==
  /\ pc[t] = "commit" /\ todo[t] = {}
  /\ ReleaseReadLocks(t)
  /\ pc' = [pc EXCEPT ![t] = "write"]
  /\ todo' = [todo EXCEPT ![t] = Written(t)]
  /\ seen' = [seen EXCEPT ![t] = {}]
  /\ stale' = [stale EXCEPT ![t] = {}]
  /\ UNCHANGED <<value, writer, wakeVars, mode, log, alts, nops, ret>>

\* The Arc a is stored into x; those that loaded the former one hold a
\* value that is not current any more.
Store(x, a) ==
  /\ value' = [value EXCEPT ![x] = a]
  /\ stale' = [t \in Thread |-> stale[t] \cup ({x} \cap seen[t])]

WriteBack(t, x) ==
  /\ pc[t] = "write" /\ IsNext(t, x)
  /\ Store(x, log[t][x].new)
  /\ writer' = [writer EXCEPT ![x] = Nil]
  /\ Locked(t, x)
  /\ UNCHANGED <<readers, wakeVars, pc, mode, log, alts, nops, ret, seen>>

\* Every value is stored.
\* Broken variant: only the variables that were written blindly are announced.
BeginWake_BlindOnly(t) ==
  /\ pc[t] = "write" /\ todo[t] = {} /\ WaitOnRetry
  /\ pc' = [pc EXCEPT ![t] = "wake"]
  /\ todo' = [todo EXCEPT ![t] = {x \in Var : log[t][x].tag = "Write"}]
  /\ UNCHANGED <<tvarVars, wakeVars, mode, log, alts, nops, ret, histVars>>
BeginWake(t) ==
  /\ pc[t] = "write" /\ todo[t] = {} /\ WaitOnRetry
  /\ pc' = [pc EXCEPT ![t] = "wake"]
  /\ todo' = [todo EXCEPT ![t] = Written(t)]
  /\ UNCHANGED <<tvarVars, wakeVars, mode, log, alts, nops, ret, histVars>>

\* VarControlBlock::wake_all: take the list under its mutex, then inform
\* the ControlBlocks in it that are alive, one by one.
\* Broken variant: the list is copied and stays as it is.
TakeWaiters_Copies(t, x) ==
  /\ pc[t] = "wake" /\ IsNext(t, x) /\ waking[t] = {}
  /\ waking' = [waking EXCEPT ![t] = waiting[x]]
  /\ Locked(t, x)
  /\ UNCHANGED <<tvarVars, waiting, blocked, pc, mode, log, alts, nops, ret, histVars>>
\* Broken variant: one of the threads is informed, the others are dropped.
TakeWaiters_One(t, x) ==
  /\ pc[t] = "wake" /\ IsNext(t, x) /\ waking[t] = {}
  /\ waking' = [waking EXCEPT ![t] = IF waiting[x] = {} THEN {} ELSE {CHOOSE u \in waiting[x] : TRUE}]
  /\ waiting' = [waiting EXCEPT ![x] = {}]
  /\ Locked(t, x)
  /\ UNCHANGED <<tvarVars, blocked, pc, mode, log, alts, nops, ret, histVars>>
TakeWaiters(t, x) ==
  /\ pc[t] = "wake" /\ IsNext(t, x) /\ waking[t] = {}
  /\ waking' = [waking EXCEPT ![t] = waiting[x]]
  /\ waiting' = [waiting EXCEPT ![x] = {}]
  /\ Locked(t, x)
  /\ UNCHANGED <<tvarVars, blocked, pc, mode, log, alts, nops, ret, histVars>>

SetChanged(t, u) ==
  /\ u \in waking[t]
  /\ waking' = [waking EXCEPT ![t] = @ \ {u}]
  /\ blocked' = [blocked EXCEPT ![u] = FALSE]
  /\ UNCHANGED <<tvarVars, waiting, pc, mode, log, alts, nops, ret, todo, histVars>>

Return(t) ==
  /\ pc[t] = IF WaitOnRetry THEN "wake" ELSE "write"
  /\ todo[t] = {} /\ waking[t] = {}
  /\ Leave(t)

-----------------------------------------------------------------------------
(* wait_for_change.  The order in which the register is traversed depends  *)
(* on the build (by address, or by hash): any order is modelled.           *)

StartWait(t) ==
  /\ pc[t] \in {"retry", "failed"} /\ alts[t] = <<>>
  /\ Waits(t)
  /\ pc' = [pc EXCEPT ![t] = "register"]
  /\ blocked' = [blocked EXCEPT ![t] = TRUE]
  /\ nops' = [nops EXCEPT ![t] = 0]
  /\ ret' = [ret EXCEPT ![t] = Nil]
  /\ UNCHANGED <<tvarVars, waiting, waking, mode, log, alts, todo, histVars>>

Unregistered(t) == {x \in Var : IntoReadValue(log[t][x]) # Nil}

Register(t, x) ==
  /\ pc[t] = "register" /\ x \in Unregistered(t)
  /\ waiting' = [waiting EXCEPT ![x] = @ \cup {t}]
  /\ pc' = [pc EXCEPT ![t] = "check"]
  /\ todo' = [todo EXCEPT ![t] = {x}]
  /\ UNCHANGED <<tvarVars, waking, blocked, mode, log, alts, nops, ret, histVars>>

\* The ControlBlock dies with wait_for_change, and with it the weak
\* references to it; the register is cleared and the closure run again.
EndWait(t) ==
  /\ waiting' = [x \in Var |-> waiting[x] \ {t}]
  /\ waking' = [u \in Thread |-> waking[u] \ {t}]
  /\ Reset(t, "closure")
  /\ UNCHANGED <<tvarVars, blocked, mode>>

\* Broken variant: do not look at the value again after registering.
CheckOk_Unchecked(t, x) ==
  /\ pc[t] = "check" /\ x \in todo[t] /\ NoWriter(x)
  /\ pc' = [pc EXCEPT ![t] = "register"]
  /\ log' = [log EXCEPT ![t][x] = Vacant]
  /\ todo' = [todo EXCEPT ![t] = {}]
  /\ UNCHANGED <<tvarVars, wakeVars, mode, alts, nops, ret, histVars>>
CheckOk(t, x) ==
  /\ pc[t] = "check" /\ x \in todo[t] /\ NoWriter(x)
  /\ Current(t, x)
  /\ pc' = [pc EXCEPT ![t] = "register"]
  /\ log' = [log EXCEPT ![t][x] = Vacant]
  /\ todo' = [todo EXCEPT ![t] = {}]
  /\ UNCHANGED <<tvarVars, wakeVars, mode, alts, nops, ret, histVars>>

CheckChanged(t, x) ==
  /\ pc[t] = "check" /\ x \in todo[t] /\ NoWriter(x)
  /\ ~Current(t, x)
  /\ EndWait(t)

\* No variable has changed: ControlBlock::wait.
Park(t) ==
  /\ pc[t] = "register" /\ Unregistered(t) = {}
  /\ pc' = [pc EXCEPT ![t] = "parked"]
  /\ log' = [log EXCEPT ![t] = NoLog]
  /\ UNCHANGED <<tvarVars, wakeVars, mode, alts, nops, ret, todo, histVars>>

Unpark(t) ==
  /\ pc[t] = "parked" /\ ~blocked[t]
  /\ EndWait(t)

-----------------------------------------------------------------------------
(* TVar::read_atomic and TVar::write_atomic, outside of a transaction.     *)

ReadAtomic(t, x) ==
  /\ pc[t] = "idle" /\ "read_atomic" \in Ops[t]
  /\ NoWriter(x)
  /\ ret' = [ret EXCEPT ![t] = value[x].val]
  /\ UNCHANGED <<tvarVars, wakeVars, pc, mode, log, alts, nops, todo, histVars>>

WriteAtomic(t, x, v) ==
  /\ pc[t] = "idle" /\ "write_atomic" \in Ops[t]
  /\ writer[x] = Nil /\ readers[x] = {}
  /\ \E a \in Arc : NewArc(x, v, a) /\ Store(x, a)
  /\ ret' = [ret EXCEPT ![t] = Nil]
  /\ UNCHANGED <<lockVars, wakeVars, pc, mode, log, alts, nops, todo, seen>>

-----------------------------------------------------------------------------
Access(t) ==
  \E x \in Var :
    \/ Read(t, x)
    \/ \E v \in Val : Write(t, x, v) \/ Exchange(t, x, v)
    \/ \E f \in Fns : Modify(t, x, f)
    \/ EarlyConflict(t, x)

Or(t) == OrBegin(t) \/ OrFirstOk(t) \/ OrFirstRetry(t) \/ OrSecondDone(t)

EndOfClosure(t) ==
  \/ ClosureOk(t) \/ ClosureRetry(t) \/ ClosureAbort(t) \/ ClosurePanic(t)

\* The steps that obtain a lock another thread may hold, to keep it or for
\* the moment of a comparison.
Acquire(t) ==
  \E x \in Var :
    \/ LockRead(t, x) \/ ClaimWrite(t, x) \/ CommitFail(t, x)
    \/ CheckOk(t, x) \/ CheckChanged(t, x)

Commit(t) ==
  \/ \E x \in Var : LockWrite(t, x) \/ WriteBack(t, x) \/ TakeWaiters(t, x)
  \/ ReleaseReads(t)
  \/ BeginWake(t)
  \/ \E u \in Thread : SetChanged(t, u)
  \/ Return(t)

WaitForChange(t) ==
  \/ StartWait(t)
  \/ \E x \in Var : Register(t, x)
  \/ Park(t)
  \/ Unpark(t)

Atomic(t) ==
  \E x \in Var : ReadAtomic(t, x) \/ \E v \in Val : WriteAtomic(t, x, v)

Next ==
  \E t \in Thread :
    \/ Begin(t) \/ Access(t) \/ Or(t) \/ EndOfClosure(t) \/ ControlAbort(t)
    \/ Restart(t) \/ Acquire(t) \/ Commit(t) \/ WaitForChange(t) \/ Atomic(t)

Spec == Init /\ [][Next]_vars

\* The library's own steps are taken eventually; what the closure does next
\* is the user's business.  A lock that is free again and again is obtained:
\* parking_lot serves its waiters in order and forces a fair hand-over.
Fairness ==
  \A t \in Thread :
    /\ WF_vars(Commit(t)) /\ SF_vars(Acquire(t))
    /\ WF_vars(Restart(t)) /\ WF_vars(WaitForChange(t))

FairSpec == Spec /\ Fairness
=============================================================================
