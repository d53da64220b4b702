------------------------- MODULE TransactionProofs -------------------------
(***************************************************************************)
(* Theorems about the STM runtime, for any threads, TVars and values, any  *)
(* calls of the closures and any build.                                    *)
(***************************************************************************)
EXTENDS TransactionProps, TLAPS

-----------------------------------------------------------------------------
(* The register entries.                                                   *)

\* Nil is none of the things it stands in for.
LEMMA NilFacts == Nil \notin Thread /\ Nil \notin Val /\ Nil \notin Arc
BY ConstantsAssumption DEF ConstantsAssumption

\* Which Arcs an entry has follows from its tag.
LEMMA LogVarCases ==
  ASSUME NEW e \in LogVar \cup {Vacant}
  PROVE  /\ e = Vacant <=> e.tag = "Vacant"
         /\ e.tag \in {"Vacant", "Read", "Write", "ReadWrite", "ReadObsolete",
                       "ReadObsoleteWrite"}
         /\ IF e.tag \in OrigTags THEN e.orig \in Arc ELSE e.orig = Nil
         /\ IF e.tag \in WriteTags THEN e.new \in Arc ELSE e.new = Nil
BY DEF LogVar, Vacant, Entry, OrigTags, WriteTags

\* LogVar::read returns an Arc, and leaves an entry of the enum that has the
\* Arcs it had before.
LEMMA ReadLemma ==
  ASSUME NEW e \in LogVar
  PROVE  /\ ReadResult(e) \in Arc
         /\ AfterRead(e) \in LogVar
         /\ AfterRead(e).orig = e.orig /\ AfterRead(e).new = e.new
BY DEF LogVar, ReadResult, AfterRead, ReadEntry, ReadWriteEntry, Entry, WriteTags

\* LogVar::write leaves an entry that will be written, and keeps the original.
LEMMA WriteLemma ==
  ASSUME NEW e \in LogVar \cup {Vacant}, NEW w \in Arc
  PROVE  /\ AfterWrite(e, w) \in LogVar
         /\ AfterWrite(e, w).tag \in WriteTags
         /\ AfterWrite(e, w).orig = e.orig /\ AfterWrite(e, w).new = w
BY DEF LogVar, AfterWrite, WriteEntry, ReadWriteEntry, ReadObsoleteWriteEntry,
       Vacant, Entry, WriteTags

\* combine yields a register, and brings in no Arcs but the originals of the
\* other one.
LEMMA CombineLemma ==
  ASSUME NEW r \in RegisterType, NEW s \in RegisterType
  PROVE  /\ Combine(r, s) \in RegisterType
         /\ \A x \in Var : /\ Combine(r, s)[x].orig \in {r[x].orig, s[x].orig, Nil}
                           /\ Combine(r, s)[x].new = r[x].new
<1>1. ASSUME NEW x \in Var
      PROVE  /\ Combine(r, s)[x] \in LogVar \cup {Vacant}
             /\ Combine(r, s)[x].orig \in {r[x].orig, s[x].orig, Nil}
             /\ Combine(r, s)[x].new = r[x].new
  <2>1. r[x] \in LogVar \cup {Vacant} /\ s[x] \in LogVar \cup {Vacant}
    BY DEF RegisterType
  <2>2. Combine(r, s)[x] = IF r[x] = Vacant THEN Obsolete(s[x]) ELSE r[x]
    BY DEF Combine, RegisterType
  <2>3. CASE r[x] = Vacant
    BY <2>1, <2>2, <2>3, LogVarCases
       DEF Obsolete, IntoReadValue, ReadObsoleteEntry, Entry, LogVar, Vacant, OrigTags
  <2>4. CASE r[x] # Vacant
    BY <2>1, <2>2, <2>4
  <2> QED BY <2>3, <2>4
<1>2. Combine(r, s) = [x \in Var |-> Combine(r, s)[x]]
  BY DEF Combine, RegisterType
<1> QED BY <1>1, <1>2 DEF RegisterType

-----------------------------------------------------------------------------
(* Type correctness.  A value that is stored is taken from the register,   *)
(* so that the variables still to store must be ones the register writes.  *)

WritesHaveValues ==
  \A t \in Thread : pc[t] = "write" => todo[t] \subseteq Written(t)

TypeInv == TypeOK /\ WritesHaveValues

USE DEF lockVars, tvarVars, wakeVars, histVars

LEMMA InitType == Init => TypeInv
BY ConstantsAssumption
   DEF Init, TypeInv, TypeOK, WritesHaveValues, NoLog, RegisterType, ConstantsAssumption

\* Restarting the closure or dropping the transaction.
LEMMA ResetType ==
  ASSUME TypeInv, NEW t \in Thread, NEW p \in {"idle", "closure"}, Reset(t, p)
  PROVE  /\ pc' \in [Thread -> {"idle", "closure", "retry", "failed", "commit", "write",
                                "wake", "register", "check", "parked"}]
         /\ log' \in [Thread -> RegisterType]
         /\ alts' \in [Thread -> Seq(Alternative)]
         /\ nops' \in [Thread -> Nat]
         /\ ret' \in [Thread -> Val \cup {Nil}]
         /\ todo' \in [Thread -> SUBSET Var]
         /\ seen' \in [Thread -> SUBSET Var]
         /\ stale' \in [Thread -> SUBSET Var]
         /\ WritesHaveValues'
<1>1. NoLog \in RegisterType
  BY DEF NoLog, RegisterType
<1>2. <<>> \in Seq(Alternative)
  OBVIOUS
<1> QED BY <1>1, <1>2 DEF TypeInv, TypeOK, WritesHaveValues, Written, Reset

LEMMA EntryPointsType ==
  ASSUME TypeInv, NEW t \in Thread,
         Begin(t) \/ EndOfClosure(t) \/ ControlAbort(t) \/ Restart(t)
  PROVE  TypeInv'
<1>1. CASE Begin(t)
  BY <1>1, ResetType DEF Begin, TypeInv, TypeOK
<1>2. CASE Leave(t)
  BY <1>2, ResetType DEF Leave, TypeInv, TypeOK
<1>3. CASE ClosureOk(t)
  BY <1>3 DEF ClosureOk, TypeInv, TypeOK, WritesHaveValues, Written
<1>4. CASE ClosureRetry(t)
  BY <1>4 DEF ClosureRetry, TypeInv, TypeOK, WritesHaveValues, Written
<1>5. CASE Restart(t)
  BY <1>5, ResetType DEF Restart, TypeInv, TypeOK
<1> QED BY <1>1, <1>2, <1>3, <1>4, <1>5
       DEF EndOfClosure, ClosureAbort, ClosurePanic, ControlAbort

\* What a call finds or makes in the register is an entry of the enum.
LEMMA LoadedType ==
  ASSUME TypeInv, NEW t \in Thread, NEW x \in Var
  PROVE  /\ log[t][x] \in LogVar \cup {Vacant}
         /\ Loaded(t, x) \in LogVar
         /\ Loaded(t, x).tag # "Vacant"
BY DEF TypeInv, TypeOK, RegisterType, Loaded, ReadEntry, Entry, LogVar

\* A new entry for one TVar keeps the registers well-formed.
LEMMA SetEntryType ==
  ASSUME TypeInv, NEW t \in Thread, NEW x \in Var, NEW e \in LogVar, SetEntry(t, x, e)
  PROVE  log' \in [Thread -> RegisterType]
<1>1. [log[t] EXCEPT ![x] = e] \in RegisterType
  BY DEF TypeInv, TypeOK, RegisterType
<1> QED BY <1>1 DEF TypeInv, TypeOK, SetEntry

LEMMA AccessType ==
  ASSUME TypeInv, NEW t \in Thread, Access(t)
  PROVE  TypeInv'
<1> PICK x \in Var :
       \/ Read(t, x) \/ EarlyConflict(t, x)
       \/ \E v \in Val : Write(t, x, v) \/ Exchange(t, x, v)
       \/ \E f \in Fns : Modify(t, x, f)
  BY DEF Access
<1> DEFINE e == AfterRead(Loaded(t, x))
<1>0. /\ log[t][x] \in LogVar \cup {Vacant}
      /\ Loaded(t, x) \in LogVar
      /\ e \in LogVar
      /\ ReadResult(Loaded(t, x)).val \in Val
      /\ ReadResult(e).val \in Val
  <2>1. log[t][x] \in LogVar \cup {Vacant} /\ Loaded(t, x) \in LogVar
    BY LoadedType
  <2>2. e \in LogVar /\ ReadResult(Loaded(t, x)) \in Arc
    BY <2>1, ReadLemma
  <2>3. ReadResult(e) \in Arc
    BY <2>2, ReadLemma
  <2> QED BY <2>1, <2>2, <2>3 DEF Arc
<1> HIDE DEF e
<1>1. CASE Read(t, x)
  <2>1. log' \in [Thread -> RegisterType]
    BY <1>0, <1>1, SetEntryType DEF Read, e
  <2> QED BY <1>0, <1>1, <2>1
         DEF Read, Call, Saw, TypeInv, TypeOK, WritesHaveValues, Written, SetEntry
<1>2. ASSUME NEW v \in Val, Write(t, x, v) PROVE TypeInv'
  <2>1. log' \in [Thread -> RegisterType]
    BY <1>0, <1>2, SetEntryType, WriteLemma DEF Write
  <2> QED BY <1>2, <2>1
         DEF Write, Call, TypeInv, TypeOK, WritesHaveValues, Written, SetEntry
<1>3. ASSUME NEW v \in Val, Exchange(t, x, v) PROVE TypeInv'
  <2>1. log' \in [Thread -> RegisterType]
    BY <1>0, <1>3, SetEntryType, WriteLemma DEF Exchange, e
  <2> QED BY <1>0, <1>3, <2>1
         DEF Exchange, e, Call, Saw, TypeInv, TypeOK, WritesHaveValues, Written, SetEntry
<1>4. ASSUME NEW f \in Fns, Modify(t, x, f) PROVE TypeInv'
  <2>1. log' \in [Thread -> RegisterType]
    BY <1>0, <1>4, SetEntryType, WriteLemma DEF Modify, e
  <2> QED BY <1>4, <2>1
         DEF Modify, Call, Saw, TypeInv, TypeOK, WritesHaveValues, Written, SetEntry
<1>5. CASE EarlyConflict(t, x)
  <2>1. <<>> \in Seq(Alternative)
    OBVIOUS
  <2> QED BY <1>5, <2>1 DEF EarlyConflict, TypeInv, TypeOK, WritesHaveValues, Written
<1> QED BY <1>1, <1>2, <1>3, <1>4, <1>5

LEMMA OrType ==
  ASSUME TypeInv, NEW t \in Thread, Or(t)
  PROVE  TypeInv'
<1>0. /\ alts[t] \in Seq(Alternative) /\ log[t] \in RegisterType
      /\ alts[t] # <<>> => /\ Head(alts[t]) \in Alternative
                           /\ Tail(alts[t]) \in Seq(Alternative)
                           /\ Head(alts[t]).copy \in RegisterType
  <2>1. alts[t] \in Seq(Alternative) /\ log[t] \in RegisterType
    BY DEF TypeInv, TypeOK
  <2>2. alts[t] # <<>> => /\ Head(alts[t]) \in Alternative
                         /\ Tail(alts[t]) \in Seq(Alternative)
    BY <2>1
  <2> QED BY <2>1, <2>2 DEF Alternative
<1>1. CASE OrBegin(t)
  <2>1. [branch |-> 1, copy |-> log[t]] \in Alternative
    BY <1>0 DEF Alternative
  <2>2. <<[branch |-> 1, copy |-> log[t]]>> \o alts[t] \in Seq(Alternative)
    BY <1>0, <2>1
  <2> QED BY <1>1, <2>2 DEF OrBegin, Call, TypeInv, TypeOK, WritesHaveValues, Written
<1>2. CASE OrFirstOk(t)
  BY <1>0, <1>2
     DEF OrFirstOk, Within, Pop, TypeInv, TypeOK, WritesHaveValues, Written
<1>3. CASE OrFirstRetry(t)
  <2>1. [branch |-> 2, copy |-> log[t]] \in Alternative
    BY <1>0 DEF Alternative
  <2>2. <<[branch |-> 2, copy |-> log[t]]>> \o Tail(alts[t]) \in Seq(Alternative)
    BY <1>0, <1>3, <2>1 DEF OrFirstRetry, Within
  <2> QED BY <1>0, <1>3, <2>2
         DEF OrFirstRetry, Within, TypeInv, TypeOK, WritesHaveValues, Written
<1>4. CASE OrSecondDone(t)
  <2>1. Combine(log[t], Head(alts[t]).copy) \in RegisterType
    BY <1>0, <1>4, CombineLemma DEF OrSecondDone, Within
  <2> QED BY <1>0, <1>4, <2>1
         DEF OrSecondDone, Within, Pop, TypeInv, TypeOK, WritesHaveValues, Written
<1> QED BY <1>1, <1>2, <1>3, <1>4 DEF Or

LEMMA AcquireType ==
  ASSUME TypeInv, NEW t \in Thread, Acquire(t)
  PROVE  TypeInv'
<1> PICK x \in Var : \/ LockRead(t, x) \/ ClaimWrite(t, x) \/ CommitFail(t, x)
                     \/ CheckOk(t, x) \/ CheckChanged(t, x)
  BY DEF Acquire
<1>1. CASE LockRead(t, x)
  BY <1>1 DEF LockRead, Locking, Locked, TypeInv, TypeOK, WritesHaveValues, Written
<1>2. CASE ClaimWrite(t, x)
  BY <1>2 DEF ClaimWrite, TypeInv, TypeOK, WritesHaveValues, Written
<1>3. CASE CommitFail(t, x)
  BY <1>3, ResetType DEF CommitFail, ReleaseReadLocks, TypeInv, TypeOK
<1>4. CASE CheckOk(t, x)
  <2>1. [log[t] EXCEPT ![x] = Vacant] \in RegisterType
    BY DEF TypeInv, TypeOK, RegisterType
  <2> QED BY <1>4, <2>1 DEF CheckOk, TypeInv, TypeOK, WritesHaveValues, Written
<1>5. CASE CheckChanged(t, x)
  BY <1>5, ResetType DEF CheckChanged, EndWait, TypeInv, TypeOK
<1> QED BY <1>1, <1>2, <1>3, <1>4, <1>5

LEMMA CommitType ==
  ASSUME TypeInv, NEW t \in Thread, Commit(t)
  PROVE  TypeInv'
<1>1. ASSUME NEW x \in Var, LockWrite(t, x) PROVE TypeInv'
  BY <1>1 DEF LockWrite, Locking, Locked, TypeInv, TypeOK, WritesHaveValues, Written
<1>2. ASSUME NEW x \in Var, WriteBack(t, x) PROVE TypeInv'
  <2>1. log[t][x].new \in Arc
    <3>1. log[t][x] \in LogVar \cup {Vacant} /\ log[t][x].tag \in WriteTags
      BY <1>2 DEF WriteBack, IsNext, TypeInv, TypeOK, RegisterType, WritesHaveValues, Written
    <3> QED BY <3>1, LogVarCases
  <2>2. value' \in [Var -> Arc] /\ stale' \in [Thread -> SUBSET Var]
    BY <1>2, <2>1 DEF WriteBack, Store, TypeInv, TypeOK
  <2> QED BY <1>2, <2>2 DEF WriteBack, Locked, TypeInv, TypeOK, WritesHaveValues, Written
<1>3. ASSUME NEW x \in Var, TakeWaiters(t, x) PROVE TypeInv'
  BY <1>3 DEF TakeWaiters, Locked, TypeInv, TypeOK, WritesHaveValues, Written
<1>4. CASE ReleaseReads(t)
  BY <1>4 DEF ReleaseReads, ReleaseReadLocks, TypeInv, TypeOK, WritesHaveValues, Written
<1>5. CASE BeginWake(t)
  BY <1>5 DEF BeginWake, TypeInv, TypeOK, WritesHaveValues, Written
<1>6. ASSUME NEW u \in Thread, SetChanged(t, u) PROVE TypeInv'
  BY <1>6 DEF SetChanged, TypeInv, TypeOK, WritesHaveValues, Written
<1>7. CASE Return(t)
  BY <1>7, ResetType DEF Return, Leave, TypeInv, TypeOK
<1> QED BY <1>1, <1>2, <1>3, <1>4, <1>5, <1>6, <1>7 DEF Commit

LEMMA WaitForChangeType ==
  ASSUME TypeInv, NEW t \in Thread, WaitForChange(t)
  PROVE  TypeInv'
<1>1. CASE StartWait(t)
  BY <1>1 DEF StartWait, TypeInv, TypeOK, WritesHaveValues, Written
<1>2. ASSUME NEW x \in Var, Register(t, x) PROVE TypeInv'
  BY <1>2 DEF Register, TypeInv, TypeOK, WritesHaveValues, Written
<1>3. CASE Park(t)
  BY <1>3 DEF Park, NoLog, RegisterType, TypeInv, TypeOK, WritesHaveValues, Written
<1>4. CASE Unpark(t)
  BY <1>4, ResetType DEF Unpark, EndWait, TypeInv, TypeOK
<1> QED BY <1>1, <1>2, <1>3, <1>4 DEF WaitForChange

LEMMA AtomicType ==
  ASSUME TypeInv, NEW t \in Thread, Atomic(t)
  PROVE  TypeInv'
<1>1. ASSUME NEW x \in Var, ReadAtomic(t, x) PROVE TypeInv'
  BY <1>1 DEF ReadAtomic, Arc, TypeInv, TypeOK, WritesHaveValues, Written
<1>2. ASSUME NEW x \in Var, NEW v \in Val, WriteAtomic(t, x, v) PROVE TypeInv'
  BY <1>2 DEF WriteAtomic, Store, TypeInv, TypeOK, WritesHaveValues, Written
<1> QED BY <1>1, <1>2 DEF Atomic

LEMMA StepType == TypeInv /\ [Next]_vars => TypeInv'
<1> SUFFICES ASSUME TypeInv, [Next]_vars PROVE TypeInv'
  OBVIOUS
<1>1. ASSUME NEW t \in Thread,
             \/ Begin(t) \/ Access(t) \/ Or(t) \/ EndOfClosure(t) \/ ControlAbort(t)
             \/ Restart(t) \/ Acquire(t) \/ Commit(t) \/ WaitForChange(t) \/ Atomic(t)
      PROVE  TypeInv'
  BY <1>1, EntryPointsType, AccessType, OrType, AcquireType, CommitType,
     WaitForChangeType, AtomicType
<1>2. CASE UNCHANGED vars
  BY <1>2 DEF vars, TypeInv, TypeOK, WritesHaveValues, Written
<1> QED BY <1>1, <1>2 DEF Next

\* In every reachable state the variables have their types; in particular a
\* register never holds an entry the enum LogVar does not have.
THEOREM TypeCorrect == Spec => []TypeOK
<1>1. Spec => []TypeInv
  BY InitType, StepType, PTL DEF Spec
<1> QED BY <1>1, PTL DEF TypeInv

-----------------------------------------------------------------------------
(* Locking.  The inductive invariant says who holds which lock, and that   *)
(* the lock is really held as long as the commit relies on it: this is     *)
(* what keeps a value that has been validated from changing.               *)

ReadersCommit ==
  \A x \in Var : \A t \in readers[x] :
    pc[t] = "commit" /\ x \notin todo[t] /\ log[t][x].tag = "Read"

WritersWrite ==
  \A x \in Var : \A t \in Thread : writer[x] = t =>
    \/ pc[t] = "commit" /\ log[t][x].tag \in WriteTags
    \/ pc[t] = "write" /\ x \in todo[t]

Exclusive ==
  \A x \in Var : \A t \in Thread :
    writer[x] = t /\ (pc[t] = "write" \/ x \notin todo[t]) => readers[x] = {}

LocksKept ==
  \A x \in Var : \A t \in Thread :
    /\ pc[t] = "commit" /\ x \notin todo[t] =>
         /\ log[t][x].tag = "Read" => t \in readers[x]
         /\ log[t][x].tag \in WriteTags => writer[x] = t
    /\ pc[t] = "write" /\ x \in todo[t] => writer[x] = t

LockInv == ReadersCommit /\ WritersWrite /\ Exclusive /\ LocksKept

\* What t does to its own part of the state while others keep theirs.
OnlyOwn(t) ==
  \A u \in Thread \ {t} :
    pc'[u] = pc[u] /\ log'[u] = log[u] /\ todo'[u] = todo[u]

LEMMA InitLock == Init => LockInv
BY NilFacts
   DEF Init, LockInv, ReadersCommit, WritersWrite, Exclusive, LocksKept

\* A thread outside of the two phases of commit has no locks, and as long as
\* it does not enter them it can do what it likes to its own state.
LEMMA LockFrame ==
  ASSUME TypeInv, LockInv, NEW t \in Thread, OnlyOwn(t),
         pc[t] \notin {"commit", "write"} \/ (pc[t] = "write" /\ todo[t] = {}),
         pc'[t] \notin {"commit", "write"},
         UNCHANGED lockVars
  PROVE  LockInv'
<1>1. \A x \in Var : t \notin readers[x] /\ writer[x] # t
  BY DEF LockInv, ReadersCommit, WritersWrite
<1>2. \A x \in Var : \A u \in readers[x] : u \in Thread \ {t}
  BY <1>1 DEF TypeInv, TypeOK
<1>3. ReadersCommit'
  BY <1>2 DEF LockInv, ReadersCommit, OnlyOwn
<1>4. WritersWrite'
  BY <1>1 DEF LockInv, WritersWrite, OnlyOwn
<1>5. Exclusive'
  BY <1>1 DEF LockInv, Exclusive, OnlyOwn
<1>6. LocksKept'
  BY DEF LockInv, LocksKept, OnlyOwn
<1> QED BY <1>3, <1>4, <1>5, <1>6 DEF LockInv

LEMMA LockStutter ==
  ASSUME LockInv, UNCHANGED <<readers, writer, pc, log, todo>>
  PROVE  LockInv'
BY DEF LockInv, ReadersCommit, WritersWrite, Exclusive, LocksKept

LEMMA EntryPointsLock ==
  ASSUME TypeInv, LockInv, NEW t \in Thread,
         Begin(t) \/ EndOfClosure(t) \/ ControlAbort(t) \/ Restart(t)
  PROVE  LockInv'
<1>1. CASE Begin(t)
  BY <1>1, LockFrame DEF Begin, Reset, OnlyOwn, TypeInv, TypeOK
<1>2. CASE Leave(t) /\ pc[t] \notin {"commit", "write"}
  BY <1>2, LockFrame DEF Leave, Reset, OnlyOwn, TypeInv, TypeOK
<1>3. CASE ClosureOk(t)
  <2>1. \A x \in Var : x \notin todo'[t] => log'[t][x].tag \notin {"Read"} \cup WriteTags
    BY <1>3 DEF ClosureOk, WriteTags, TypeInv, TypeOK, RegisterType, LogVar
  <2> QED BY <1>3, <2>1
         DEF ClosureOk, TypeInv, TypeOK, LockInv, ReadersCommit, WritersWrite, Exclusive,
             LocksKept
<1>4. CASE ClosureRetry(t)
  BY <1>4, LockFrame DEF ClosureRetry, OnlyOwn, TypeInv, TypeOK
<1>5. CASE Restart(t)
  BY <1>5, LockFrame DEF Restart, Reset, OnlyOwn, TypeInv, TypeOK
<1> QED BY <1>1, <1>2, <1>3, <1>4, <1>5
       DEF EndOfClosure, ClosureAbort, ClosurePanic, ControlAbort

LEMMA AccessLock ==
  ASSUME TypeInv, LockInv, NEW t \in Thread, Access(t)
  PROVE  LockInv'
<1>1. pc[t] = "closure" /\ pc'[t] \in {"closure", "failed"}
  BY DEF Access, Read, Write, Exchange, Modify, EarlyConflict, Call, TypeInv, TypeOK
<1>2. OnlyOwn(t)
  BY DEF Access, Read, Write, Exchange, Modify, EarlyConflict, SetEntry, OnlyOwn,
         TypeInv, TypeOK
<1>3. UNCHANGED lockVars
  BY DEF Access, Read, Write, Exchange, Modify, EarlyConflict
<1> QED BY <1>1, <1>2, <1>3, LockFrame

LEMMA OrLock ==
  ASSUME TypeInv, LockInv, NEW t \in Thread, Or(t)
  PROVE  LockInv'
BY LockFrame
   DEF Or, OrBegin, OrFirstOk, OrFirstRetry, OrSecondDone, Call, OnlyOwn, TypeInv, TypeOK

LEMMA AcquireLock ==
  ASSUME TypeInv, LockInv, NEW t \in Thread, Acquire(t)
  PROVE  LockInv'
<1> PICK x \in Var : \/ LockRead(t, x) \/ ClaimWrite(t, x) \/ CommitFail(t, x)
                     \/ CheckOk(t, x) \/ CheckChanged(t, x)
  BY DEF Acquire
<1>1. CASE LockRead(t, x)
  BY <1>1, NilFacts
     DEF LockRead, Locking, IsNext, Locked, NoWriter, WriteTags, TypeInv, TypeOK,
         LockInv, ReadersCommit, WritersWrite, Exclusive, LocksKept
<1>2. CASE ClaimWrite(t, x)
  BY <1>2, NilFacts
     DEF ClaimWrite, Locking, IsNext, NoWriter, TypeInv, TypeOK,
         LockInv, ReadersCommit, WritersWrite, Exclusive, LocksKept
<1>3. CASE CommitFail(t, x)
  BY <1>3, NilFacts
     DEF CommitFail, Locking, ReleaseReadLocks, Reset, TypeInv, TypeOK,
         LockInv, ReadersCommit, WritersWrite, Exclusive, LocksKept
<1>4. CASE CheckOk(t, x)
  BY <1>4, LockFrame DEF CheckOk, OnlyOwn, TypeInv, TypeOK
<1>5. CASE CheckChanged(t, x)
  BY <1>5, LockFrame DEF CheckChanged, EndWait, Reset, OnlyOwn, TypeInv, TypeOK
<1> QED BY <1>1, <1>2, <1>3, <1>4, <1>5

LEMMA CommitLock ==
  ASSUME TypeInv, LockInv, NEW t \in Thread, Commit(t)
  PROVE  LockInv'
<1>1. ASSUME NEW x \in Var, LockWrite(t, x) PROVE LockInv'
  <2>1. log[t][x].tag \in WriteTags /\ writer[x] = t /\ readers[x] = {}
    BY <1>1 DEF LockWrite, Locking, HasWriteLock, LockInv, WritersWrite
  <2>2. /\ pc' = pc /\ log' = log /\ readers' = readers /\ writer' = writer
        /\ \A u \in Thread \ {t} : todo'[u] = todo[u]
        /\ todo'[t] = todo[t] \ {x} /\ pc[t] = "commit"
    BY <1>1 DEF LockWrite, Locking, Locked, TypeInv, TypeOK
  <2>3. ReadersCommit'
    BY <2>1, <2>2 DEF LockInv, ReadersCommit, TypeInv, TypeOK
  <2>4. WritersWrite'
    BY <2>2 DEF LockInv, WritersWrite
  <2>5. Exclusive'
    BY <2>1, <2>2 DEF LockInv, Exclusive
  <2>6. LocksKept'
    BY <2>1, <2>2 DEF LockInv, LocksKept, WriteTags
  <2> QED BY <2>3, <2>4, <2>5, <2>6 DEF LockInv
<1>2. ASSUME NEW x \in Var, WriteBack(t, x) PROVE LockInv'
  BY <1>2, NilFacts
     DEF WriteBack, IsNext, Locked, TypeInv, TypeOK,
         LockInv, ReadersCommit, WritersWrite, Exclusive, LocksKept
<1>3. ASSUME NEW x \in Var, TakeWaiters(t, x) PROVE LockInv'
  BY <1>3, LockFrame DEF TakeWaiters, Locked, OnlyOwn, TypeInv, TypeOK
<1>4. CASE ReleaseReads(t)
  BY <1>4
     DEF ReleaseReads, ReleaseReadLocks, Written, WriteTags, TypeInv, TypeOK,
         LockInv, ReadersCommit, WritersWrite, Exclusive, LocksKept
<1>5. CASE BeginWake(t)
  BY <1>5, LockFrame DEF BeginWake, OnlyOwn, TypeInv, TypeOK
<1>6. ASSUME NEW u \in Thread, SetChanged(t, u) PROVE LockInv'
  BY <1>6, LockStutter DEF SetChanged
<1>7. CASE Return(t)
  BY <1>7, LockFrame DEF Return, Leave, Reset, OnlyOwn, TypeInv, TypeOK
<1> QED BY <1>1, <1>2, <1>3, <1>4, <1>5, <1>6, <1>7 DEF Commit

LEMMA WaitForChangeLock ==
  ASSUME TypeInv, LockInv, NEW t \in Thread, WaitForChange(t)
  PROVE  LockInv'
<1>1. CASE StartWait(t)
  BY <1>1, LockFrame DEF StartWait, OnlyOwn, TypeInv, TypeOK
<1>2. ASSUME NEW x \in Var, Register(t, x) PROVE LockInv'
  BY <1>2, LockFrame DEF Register, OnlyOwn, TypeInv, TypeOK
<1>3. CASE Park(t)
  BY <1>3, LockFrame DEF Park, OnlyOwn, TypeInv, TypeOK
<1>4. CASE Unpark(t)
  BY <1>4, LockFrame DEF Unpark, EndWait, Reset, OnlyOwn, TypeInv, TypeOK
<1> QED BY <1>1, <1>2, <1>3, <1>4 DEF WaitForChange

LEMMA AtomicLock ==
  ASSUME LockInv, NEW t \in Thread, Atomic(t)
  PROVE  LockInv'
BY LockStutter DEF Atomic, ReadAtomic, WriteAtomic

LEMMA StepLock == TypeInv /\ LockInv /\ [Next]_vars => LockInv'
<1> SUFFICES ASSUME TypeInv, LockInv, [Next]_vars PROVE LockInv'
  OBVIOUS
<1>1. ASSUME NEW t \in Thread,
             \/ Begin(t) \/ Access(t) \/ Or(t) \/ EndOfClosure(t) \/ ControlAbort(t)
             \/ Restart(t) \/ Acquire(t) \/ Commit(t) \/ WaitForChange(t) \/ Atomic(t)
      PROVE  LockInv'
  BY <1>1, EntryPointsLock, AccessLock, OrLock, AcquireLock, CommitLock,
     WaitForChangeLock, AtomicLock
<1>2. CASE UNCHANGED vars
  BY <1>2, LockStutter DEF vars
<1> QED BY <1>1, <1>2 DEF Next

LEMMA LockInvariant == Spec => [](TypeInv /\ LockInv)
BY InitType, StepType, InitLock, StepLock, PTL DEF Spec

\* Only a committing thread holds locks, no TVar is locked for writing and
\* for reading at once, and no way out of commit leaves a lock behind.
THEOREM LocksAreSafe == Spec => []LockSafety
<1>1. TypeInv /\ LockInv => LockSafety
  BY DEF TypeInv, TypeOK, LockInv, ReadersCommit, WritersWrite, Exclusive, LockSafety,
         WritesHaveValues, Written
<1> QED BY <1>1, LockInvariant, PTL

-----------------------------------------------------------------------------
(* The heap.  A step of any kind only moves Arcs around or drops them,     *)
(* except for those that allocate, and the address these get is free.      *)

\* What the allocator gives, in the form the proofs use it: two live Arcs of a
\* TVar with the same address are one Arc.
PointerIdentity ==
  \A x \in Var : \A a, b \in LiveArcs(x) : PtrEq(a, b) => a = b

LEMMA ArcsCases ==
  ASSUME NEW t \in Thread, NEW x \in Var, NEW b
  PROVE  b \in ArcsOf(t, x) <=>
           \/ b \in {log[t][x].orig, log[t][x].new}
           \/ \E i \in DOMAIN alts[t] : b \in {alts[t][i].copy[x].orig, alts[t][i].copy[x].new}
BY DEF ArcsOf, Registers

LEMMA ArcsCasesNext ==
  ASSUME NEW t \in Thread, NEW x \in Var, NEW b
  PROVE  b \in ArcsOf(t, x)' <=>
           \/ b \in {log'[t][x].orig, log'[t][x].new}
           \/ \E i \in DOMAIN alts'[t] :
                b \in {alts'[t][i].copy[x].orig, alts'[t][i].copy[x].new}
BY DEF ArcsOf, Registers

\* t keeps, drops or copies what it refers to, or stores it into a TVar.
Moves(t) ==
  /\ \A u \in Thread \ {t} : log'[u] = log[u] /\ alts'[u] = alts[u]
  /\ \A x \in Var :
       /\ value'[x] \in {value[x]} \cup ArcsOf(t, x)
       /\ ArcsOf(t, x)' \subseteq {Nil, value[x]} \cup ArcsOf(t, x)

\* As before, but for one Arc a of x that has been allocated in the step.
Allocates(t, x, a) ==
  /\ \A u \in Thread \ {t} : log'[u] = log[u] /\ alts'[u] = alts[u]
  /\ \A y \in Var :
       /\ value'[y] = value[y] \/ (y = x /\ value'[y] = a)
       /\ \A b \in ArcsOf(t, y)' :
            b \in {Nil, value[y]} \cup ArcsOf(t, y) \/ (y = x /\ b = a)

LEMMA MovesHeap ==
  ASSUME PointerIdentity, NEW t \in Thread, Moves(t)
  PROVE  PointerIdentity'
<1>1. ASSUME NEW x \in Var PROVE LiveArcs(x)' \subseteq LiveArcs(x)
  <2>1. \A u \in Thread \ {t} : ArcsOf(u, x)' = ArcsOf(u, x)
    BY DEF Moves, ArcsOf, Registers
  <2> QED BY <2>1 DEF Moves, LiveArcs
<1> QED BY <1>1 DEF PointerIdentity

LEMMA AllocatesHeap ==
  ASSUME PointerIdentity, NEW t \in Thread, NEW x \in Var, NEW a \in Arc,
         a.addr \in FreeAddr(x), Allocates(t, x, a)
  PROVE  PointerIdentity'
<1>1. ASSUME NEW y \in Var, NEW b \in LiveArcs(y)'
      PROVE  b \in LiveArcs(y) \/ (y = x /\ b = a)
  <2>1. \A u \in Thread \ {t} : ArcsOf(u, y)' = ArcsOf(u, y)
    BY DEF Allocates, ArcsOf, Registers
  <2> QED BY <2>1 DEF Allocates, LiveArcs
<1>2. \A b \in LiveArcs(x) : b.addr # a.addr
  BY DEF FreeAddr
<1> QED BY <1>1, <1>2 DEF PointerIdentity, PtrEq

LEMMA InitHeap == Init => PointerIdentity
<1> SUFFICES ASSUME Init, NEW x \in Var PROVE \A a, b \in LiveArcs(x) : a = b
  BY DEF PointerIdentity
<1>1. \A t \in Thread : ArcsOf(t, x) \subseteq {Nil}
  BY DEF Init, ArcsOf, Registers, NoLog, Vacant, Entry
<1> QED BY <1>1 DEF LiveArcs

LEMMA KeepsHeap ==
  ASSUME PointerIdentity, UNCHANGED <<value, log, alts>>
  PROVE  PointerIdentity'
<1>1. \A x \in Var : \A t \in Thread : ArcsOf(t, x)' = ArcsOf(t, x)
  BY DEF ArcsOf, Registers
<1>2. \A x \in Var : LiveArcs(x)' = LiveArcs(x)
  BY <1>1 DEF LiveArcs
<1> QED BY <1>2 DEF PointerIdentity

LEMMA ResetMoves ==
  ASSUME TypeInv, NEW t \in Thread, NEW p \in {"idle", "closure"}, Reset(t, p), value' = value
  PROVE  Moves(t)
<1>1. /\ \A u \in Thread \ {t} : log'[u] = log[u] /\ alts'[u] = alts[u]
      /\ log'[t] = NoLog /\ alts'[t] = <<>>
  BY DEF Reset, TypeInv, TypeOK
<1>2. ASSUME NEW x \in Var PROVE ArcsOf(t, x)' \subseteq {Nil}
  BY <1>1, ArcsCasesNext DEF NoLog, Vacant, Entry
<1> QED BY <1>1, <1>2 DEF Moves

\* A call that changes the entry of x: what is new in it has been loaded,
\* moved, or allocated.
LEMMA SetEntryHeap ==
  ASSUME TypeInv, PointerIdentity, NEW t \in Thread, NEW x \in Var, NEW e,
         SetEntry(t, x, e), UNCHANGED <<value, alts>>,
         e.orig \in {Nil, value[x], log[t][x].orig},
         \/ e.new \in {Nil, log[t][x].new}
         \/ \E a \in Arc : a.addr \in FreeAddr(x) /\ e.new = a
  PROVE  PointerIdentity'
<1>1. /\ \A u \in Thread \ {t} : log'[u] = log[u]
      /\ log'[t][x] = e
      /\ \A y \in Var \ {x} : log'[t][y] = log[t][y]
  BY DEF SetEntry, TypeInv, TypeOK, RegisterType
<1>2. ASSUME NEW y \in Var, NEW b \in ArcsOf(t, y)'
      PROVE  b \in {Nil, value[y]} \cup ArcsOf(t, y) \/ (y = x /\ b = e.new)
  BY <1>1, <1>2, ArcsCases, ArcsCasesNext
<1>3. CASE e.new \in {Nil, log[t][x].new}
  BY <1>1, <1>2, <1>3, ArcsCases, MovesHeap DEF Moves
<1>4. ASSUME NEW a \in Arc, a.addr \in FreeAddr(x), e.new = a PROVE PointerIdentity'
  BY <1>1, <1>2, <1>4, AllocatesHeap DEF Allocates
<1> QED BY <1>3, <1>4

LEMMA AccessHeap ==
  ASSUME TypeInv, PointerIdentity, NEW t \in Thread, Access(t)
  PROVE  PointerIdentity'
<1> PICK x \in Var :
       \/ Read(t, x) \/ EarlyConflict(t, x)
       \/ \E v \in Val : Write(t, x, v) \/ Exchange(t, x, v)
       \/ \E f \in Fns : Modify(t, x, f)
  BY DEF Access
<1> DEFINE e == AfterRead(Loaded(t, x))
<1>0. /\ log[t][x] \in LogVar \cup {Vacant}
      /\ e \in LogVar
      /\ e.orig \in {Nil, value[x], log[t][x].orig}
      /\ e.new = log[t][x].new
  BY LoadedType, ReadLemma DEF Loaded, ReadEntry, Vacant, Entry
<1> HIDE DEF e
<1>1. CASE Read(t, x)
  BY <1>0, <1>1, SetEntryHeap DEF Read, e
<1>2. ASSUME NEW v \in Val, Write(t, x, v) PROVE PointerIdentity'
  <2>1. PICK a \in Arc : NewArc(x, v, a) /\ SetEntry(t, x, AfterWrite(log[t][x], a))
    BY <1>2 DEF Write
  <2>2. AfterWrite(log[t][x], a).orig = log[t][x].orig /\ AfterWrite(log[t][x], a).new = a
    BY <1>0, WriteLemma
  <2> QED BY <1>2, <2>1, <2>2, SetEntryHeap DEF Write, NewArc
<1>3. ASSUME NEW a \in Arc, NEW v, NewArc(x, v, a), SetEntry(t, x, AfterWrite(e, a)),
             UNCHANGED <<value, alts>>
      PROVE  PointerIdentity'
  <2>1. AfterWrite(e, a).orig = e.orig /\ AfterWrite(e, a).new = a
    BY <1>0, WriteLemma
  <2> QED BY <1>0, <1>3, <2>1, SetEntryHeap DEF NewArc
<1>4. ASSUME NEW v \in Val, Exchange(t, x, v) PROVE PointerIdentity'
  BY <1>3, <1>4 DEF Exchange, e
<1>5. ASSUME NEW f \in Fns, Modify(t, x, f) PROVE PointerIdentity'
  BY <1>3, <1>5 DEF Modify, e
<1>6. CASE EarlyConflict(t, x)
  <2>1. /\ \A u \in Thread \ {t} : log'[u] = log[u] /\ alts'[u] = alts[u]
        /\ log'[t] = log[t] /\ alts'[t] = <<>> /\ value' = value
    BY <1>6 DEF EarlyConflict, TypeInv, TypeOK
  <2>2. \A y \in Var : ArcsOf(t, y)' \subseteq ArcsOf(t, y)
    BY <2>1, ArcsCases, ArcsCasesNext
  <2> QED BY <2>1, <2>2, MovesHeap DEF Moves
<1> QED BY <1>1, <1>2, <1>4, <1>5, <1>6

\* What is in a stack of alternatives after a push or a pop.
LEMMA PushCases ==
  ASSUME NEW f \in Alternative, NEW s \in Seq(Alternative), NEW i \in DOMAIN (<<f>> \o s)
  PROVE  (<<f>> \o s)[i] = f \/ \E j \in DOMAIN s : (<<f>> \o s)[i] = s[j]
<1>1. CASE i = 1
  BY <1>1
<1>2. CASE i # 1
  <2>1. i - 1 \in DOMAIN s /\ (<<f>> \o s)[i] = s[i - 1]
    BY <1>2
  <2> QED BY <2>1
<1> QED BY <1>1, <1>2

LEMMA TailCases ==
  ASSUME NEW s \in Seq(Alternative), s # <<>>, NEW i \in DOMAIN Tail(s)
  PROVE  \E j \in DOMAIN s : Tail(s)[i] = s[j]
<1>1. i + 1 \in DOMAIN s /\ Tail(s)[i] = s[i + 1]
  OBVIOUS
<1> QED BY <1>1

LEMMA HeadCases ==
  ASSUME NEW s \in Seq(Alternative), s # <<>>
  PROVE  1 \in DOMAIN s /\ Head(s) = s[1]
OBVIOUS

\* or makes copies of registers, exchanges and merges them.
LEMMA OrHeap ==
  ASSUME TypeInv, PointerIdentity, NEW t \in Thread, Or(t)
  PROVE  PointerIdentity'
<1>0. /\ \A u \in Thread \ {t} : log'[u] = log[u] /\ alts'[u] = alts[u]
      /\ value' = value
      /\ alts[t] \in Seq(Alternative) /\ log[t] \in RegisterType
  BY DEF Or, OrBegin, OrFirstOk, OrFirstRetry, OrSecondDone, Pop, TypeInv, TypeOK
<1>1. SUFFICES ASSUME NEW x \in Var, NEW b \in ArcsOf(t, x)'
               PROVE  b = Nil \/ b \in ArcsOf(t, x)
  BY <1>0, <1>1, MovesHeap DEF Moves
<1> DEFINE Old(i) == b \in {alts[t][i].copy[x].orig, alts[t][i].copy[x].new}
           Mine == b \in {log[t][x].orig, log[t][x].new}
<1>2. (\E i \in DOMAIN alts[t] : Old(i)) => b \in ArcsOf(t, x)
  BY ArcsCases
<1>3. Mine => b \in ArcsOf(t, x)
  BY ArcsCases
<1>4. CASE OrBegin(t)
  <2> DEFINE f == [branch |-> 1, copy |-> log[t]]
  <2>1. f \in Alternative /\ f.copy = log[t]
    BY <1>0 DEF Alternative
  <2>2. log' = log /\ alts'[t] = <<f>> \o alts[t]
    BY <1>4 DEF OrBegin, TypeInv, TypeOK
  <2> HIDE DEF f
  <2>3. ASSUME NEW i \in DOMAIN alts'[t],
               b \in {alts'[t][i].copy[x].orig, alts'[t][i].copy[x].new}
        PROVE  Mine \/ \E j \in DOMAIN alts[t] : Old(j)
    BY <1>0, <2>1, <2>2, <2>3, PushCases
  <2> QED BY <1>1, <1>2, <1>3, <2>2, <2>3, ArcsCasesNext
<1>5. ASSUME alts[t] # <<>>, alts'[t] = Tail(alts[t]),
             NEW i \in DOMAIN alts'[t],
             b \in {alts'[t][i].copy[x].orig, alts'[t][i].copy[x].new}
      PROVE  \E j \in DOMAIN alts[t] : Old(j)
  <2>1. PICK j \in DOMAIN alts[t] : Tail(alts[t])[i] = alts[t][j]
    BY <1>0, <1>5, TailCases
  <2>2. alts'[t][i] = alts[t][j]
    BY <1>5, <2>1
  <2> QED BY <1>5, <2>2
<1>6. CASE OrFirstOk(t)
  <2>1. log' = log /\ alts[t] # <<>> /\ alts'[t] = Tail(alts[t])
    BY <1>6 DEF OrFirstOk, Within, Pop, TypeInv, TypeOK
  <2> QED BY <1>1, <1>2, <1>3, <1>5, <2>1, ArcsCasesNext
<1>7. CASE OrFirstRetry(t)
  <2> DEFINE f == [branch |-> 2, copy |-> log[t]]
  <2>1. f \in Alternative /\ f.copy = log[t]
    BY <1>0 DEF Alternative
  <2>2. /\ alts[t] # <<>> /\ Tail(alts[t]) \in Seq(Alternative)
        /\ log'[t] = alts[t][1].copy /\ 1 \in DOMAIN alts[t]
        /\ alts'[t] = <<f>> \o Tail(alts[t])
    BY <1>0, <1>7, HeadCases DEF OrFirstRetry, Within, TypeInv, TypeOK
  <2> HIDE DEF f
  <2>3. ASSUME NEW i \in DOMAIN alts'[t],
               b \in {alts'[t][i].copy[x].orig, alts'[t][i].copy[x].new}
        PROVE  Mine \/ \E j \in DOMAIN alts[t] : Old(j)
    <3>1. CASE alts'[t][i] = f
      BY <2>1, <2>3, <3>1
    <3>2. ASSUME NEW j \in DOMAIN Tail(alts[t]), alts'[t][i] = Tail(alts[t])[j]
          PROVE  \E k \in DOMAIN alts[t] : Old(k)
      <4>1. PICK k \in DOMAIN alts[t] : Tail(alts[t])[j] = alts[t][k]
        BY <1>0, <2>2, TailCases
      <4>2. alts'[t][i] = alts[t][k]
        BY <3>2, <4>1
      <4> QED BY <2>3, <4>2
    <3> QED BY <2>1, <2>2, <3>1, <3>2, PushCases
  <2> QED BY <1>1, <1>2, <1>3, <2>2, <2>3, ArcsCasesNext
<1>8. CASE OrSecondDone(t)
  <2>1. /\ alts[t] # <<>> /\ alts'[t] = Tail(alts[t])
        /\ 1 \in DOMAIN alts[t] /\ alts[t][1].copy \in RegisterType
        /\ log'[t] = Combine(log[t], alts[t][1].copy)
    <3>1. /\ alts[t] # <<>> /\ alts'[t] = Tail(alts[t])
          /\ log'[t] = Combine(log[t], Head(alts[t]).copy)
      BY <1>8 DEF OrSecondDone, Within, Pop, TypeInv, TypeOK
    <3>2. 1 \in DOMAIN alts[t] /\ Head(alts[t]) = alts[t][1] /\ alts[t][1] \in Alternative
      BY <1>0, <3>1, HeadCases
    <3> QED BY <3>1, <3>2 DEF Alternative
  <2>2. /\ log'[t][x].orig \in {log[t][x].orig, alts[t][1].copy[x].orig, Nil}
        /\ log'[t][x].new = log[t][x].new
    BY <1>0, <2>1, CombineLemma
  <2>3. CASE b \in {log'[t][x].orig, log'[t][x].new}
    <3>1. b = Nil \/ Mine \/ Old(1)
      BY <2>2, <2>3
    <3> QED BY <1>2, <1>3, <2>1, <3>1
  <2>4. ASSUME NEW i \in DOMAIN alts'[t],
               b \in {alts'[t][i].copy[x].orig, alts'[t][i].copy[x].new}
        PROVE  b \in ArcsOf(t, x)
    BY <1>2, <1>5, <2>1, <2>4
  <2> QED BY <1>1, <2>3, <2>4, ArcsCasesNext
<1> QED BY <1>4, <1>6, <1>7, <1>8 DEF Or

\* Storing moves an Arc from the register to the TVar; the Arc that was there
\* before lives on in the registers that hold it.
LEMMA CommitHeap ==
  ASSUME TypeInv, PointerIdentity, NEW t \in Thread, Commit(t)
  PROVE  PointerIdentity'
<1>1. ASSUME NEW x \in Var, WriteBack(t, x) PROVE PointerIdentity'
  <2>1. /\ log' = log /\ alts' = alts
        /\ value'[x] = log[t][x].new
        /\ \A y \in Var \ {x} : value'[y] = value[y]
    BY <1>1 DEF WriteBack, Store, TypeInv, TypeOK
  <2>2. \A y \in Var : ArcsOf(t, y)' = ArcsOf(t, y)
    BY <2>1 DEF ArcsOf, Registers
  <2>3. log[t][x].new \in ArcsOf(t, x)
    BY ArcsCases
  <2> QED BY <2>1, <2>2, <2>3, MovesHeap DEF Moves
<1>2. CASE Return(t)
  BY <1>2, ResetMoves, MovesHeap DEF Return, Leave
<1>3. CASE UNCHANGED <<value, log, alts>>
  BY <1>3, KeepsHeap
<1> QED BY <1>1, <1>2, <1>3
       DEF Commit, LockWrite, TakeWaiters, ReleaseReads, BeginWake, SetChanged

LEMMA OtherHeap ==
  ASSUME TypeInv, PointerIdentity, NEW t \in Thread,
         \/ Begin(t) \/ EndOfClosure(t) \/ ControlAbort(t) \/ Restart(t)
         \/ Acquire(t) \/ WaitForChange(t) \/ Atomic(t)
  PROVE  PointerIdentity'
<1>1. ASSUME NEW p \in {"idle", "closure"}, Reset(t, p), value' = value
      PROVE  PointerIdentity'
  BY <1>1, ResetMoves, MovesHeap
<1>2. CASE UNCHANGED <<value, log, alts>>
  BY <1>2, KeepsHeap
<1>3. ASSUME NEW x \in Var, CheckOk(t, x) PROVE PointerIdentity'
  BY <1>3, SetEntryHeap DEF CheckOk, SetEntry, Vacant, Entry
<1>4. CASE Park(t)
  <2>1. /\ \A u \in Thread \ {t} : log'[u] = log[u]
        /\ log'[t] = NoLog /\ alts' = alts /\ value' = value
    BY <1>4 DEF Park, TypeInv, TypeOK
  <2>2. \A x \in Var : ArcsOf(t, x)' \subseteq {Nil} \cup ArcsOf(t, x)
    BY <2>1, ArcsCases, ArcsCasesNext DEF NoLog, Vacant, Entry
  <2> QED BY <2>1, <2>2, MovesHeap DEF Moves
<1>5. ASSUME NEW x \in Var, NEW v \in Val, WriteAtomic(t, x, v) PROVE PointerIdentity'
  <2>1. PICK a \in Arc : NewArc(x, v, a) /\ Store(x, a)
    BY <1>5 DEF WriteAtomic
  <2>2. \A y \in Var : ArcsOf(t, y)' = ArcsOf(t, y)
    BY <1>5 DEF WriteAtomic, ArcsOf, Registers
  <2>3. /\ log' = log /\ alts' = alts
        /\ value'[x] = a
        /\ \A y \in Var \ {x} : value'[y] = value[y]
    BY <1>5, <2>1 DEF WriteAtomic, Store, TypeInv, TypeOK
  <2>4. Allocates(t, x, a)
    BY <2>2, <2>3 DEF Allocates
  <2> QED BY <2>1, <2>4, AllocatesHeap DEF NewArc
<1> QED BY <1>1, <1>2, <1>3, <1>4, <1>5
       DEF Begin, EndOfClosure, ClosureOk, ClosureRetry, ClosureAbort, ClosurePanic,
           ControlAbort, Leave, Restart, Acquire, LockRead, ClaimWrite, CommitFail,
           CheckChanged, EndWait, WaitForChange, StartWait, Register, Unpark, Atomic,
           ReadAtomic

LEMMA StepHeap == TypeInv /\ PointerIdentity /\ [Next]_vars => PointerIdentity'
<1> SUFFICES ASSUME TypeInv, PointerIdentity, [Next]_vars PROVE PointerIdentity'
  OBVIOUS
<1>1. ASSUME NEW t \in Thread,
             \/ Begin(t) \/ Access(t) \/ Or(t) \/ EndOfClosure(t) \/ ControlAbort(t)
             \/ Restart(t) \/ Acquire(t) \/ Commit(t) \/ WaitForChange(t) \/ Atomic(t)
      PROVE  PointerIdentity'
  BY <1>1, AccessHeap, OrHeap, CommitHeap, OtherHeap
<1>2. CASE UNCHANGED vars
  BY <1>2, KeepsHeap DEF vars
<1> QED BY <1>1, <1>2 DEF Next
=============================================================================
