---------------------------- MODULE CommitProofs ----------------------------
(***************************************************************************)
(* What a commit validates, why it fails and why it does not deadlock, for *)
(* any threads, TVars and values, any calls of the closures and any build. *)
(***************************************************************************)
EXTENDS TransactionProofs, FiniteSets, FiniteSetTheorems, WellFoundedInduction

USE DEF lockVars, tvarVars, wakeVars, histVars

-----------------------------------------------------------------------------
(* Which Arcs of x the registers of t hold, as originals and to be stored. *)

OrigsOf(t, x) == {r[x].orig : r \in Registers(t)}
NewsOf(t, x) == {r[x].new : r \in Registers(t)}

LEMMA OrigsCases ==
  ASSUME NEW t \in Thread, NEW x \in Var, NEW b
  PROVE  b \in OrigsOf(t, x) <=>
           \/ b = log[t][x].orig
           \/ \E i \in DOMAIN alts[t] : b = alts[t][i].copy[x].orig
BY DEF OrigsOf, Registers

LEMMA OrigsCasesNext ==
  ASSUME NEW t \in Thread, NEW x \in Var, NEW b
  PROVE  b \in OrigsOf(t, x)' <=>
           \/ b = log'[t][x].orig
           \/ \E i \in DOMAIN alts'[t] : b = alts'[t][i].copy[x].orig
BY DEF OrigsOf, Registers

LEMMA NewsCases ==
  ASSUME NEW t \in Thread, NEW x \in Var, NEW b
  PROVE  b \in NewsOf(t, x) <=>
           \/ b = log[t][x].new
           \/ \E i \in DOMAIN alts[t] : b = alts[t][i].copy[x].new
BY DEF NewsOf, Registers

LEMMA NewsCasesNext ==
  ASSUME NEW t \in Thread, NEW x \in Var, NEW b
  PROVE  b \in NewsOf(t, x)' <=>
           \/ b = log'[t][x].new
           \/ \E i \in DOMAIN alts'[t] : b = alts'[t][i].copy[x].new
BY DEF NewsOf, Registers

\* What a register holds is alive.
LEMMA HeldIsLive ==
  ASSUME NEW t \in Thread, NEW x \in Var, NEW b \in OrigsOf(t, x) \cup NewsOf(t, x), b # Nil
  PROVE  b \in LiveArcs(x)
<1>1. b \in ArcsOf(t, x)
  BY ArcsCases, OrigsCases, NewsCases
<1> QED BY <1>1 DEF LiveArcs

\* The Arcs in registers of a thread that keeps its registers.
LEMMA SameArcs ==
  ASSUME NEW t \in Thread, log'[t] = log[t], alts'[t] = alts[t], NEW x \in Var
  PROVE  OrigsOf(t, x)' = OrigsOf(t, x) /\ NewsOf(t, x)' = NewsOf(t, x)
BY DEF OrigsOf, NewsOf, Registers

LEMMA NoArcs ==
  ASSUME NEW t \in Thread, log'[t] = NoLog, alts'[t] = <<>>, NEW x \in Var
  PROVE  OrigsOf(t, x)' = {Nil} /\ NewsOf(t, x)' = {Nil}
BY DEF OrigsOf, NewsOf, Registers, NoLog, Vacant, Entry

\* Transaction::or moves originals between registers, and never brings a
\* value to be stored into another register than by copying the whole of it.
LEMMA OrArcs ==
  ASSUME TypeInv, NEW t \in Thread, Or(t), NEW x \in Var
  PROVE  /\ OrigsOf(t, x)' \subseteq OrigsOf(t, x) \cup {Nil}
         /\ NewsOf(t, x)' \subseteq NewsOf(t, x)
<1>0. alts[t] \in Seq(Alternative) /\ log[t] \in RegisterType
  BY DEF TypeInv, TypeOK
<1>1. \A i \in DOMAIN alts[t] :
         /\ alts[t][i].copy[x].orig \in OrigsOf(t, x)
         /\ alts[t][i].copy[x].new \in NewsOf(t, x)
  BY OrigsCases, NewsCases
<1>2. log[t][x].orig \in OrigsOf(t, x) /\ log[t][x].new \in NewsOf(t, x)
  BY OrigsCases, NewsCases
\* It is enough to look at the register in use and at each copy.
<1>3. ASSUME log'[t][x].orig \in OrigsOf(t, x) \cup {Nil}, log'[t][x].new \in NewsOf(t, x),
             \A i \in DOMAIN alts'[t] :
               /\ alts'[t][i].copy[x].orig \in OrigsOf(t, x)
               /\ alts'[t][i].copy[x].new \in NewsOf(t, x)
      PROVE  /\ OrigsOf(t, x)' \subseteq OrigsOf(t, x) \cup {Nil}
             /\ NewsOf(t, x)' \subseteq NewsOf(t, x)
  BY <1>3, OrigsCasesNext, NewsCasesNext
<1>4. ASSUME alts[t] # <<>>, alts'[t] = Tail(alts[t]), NEW i \in DOMAIN alts'[t]
      PROVE  /\ alts'[t][i].copy[x].orig \in OrigsOf(t, x)
             /\ alts'[t][i].copy[x].new \in NewsOf(t, x)
  <2>1. PICK j \in DOMAIN alts[t] : Tail(alts[t])[i] = alts[t][j]
    BY <1>0, <1>4, TailCases
  <2> QED BY <1>1, <1>4, <2>1
<1>5. ASSUME NEW f \in Alternative, f.copy = log[t], NEW s \in Seq(Alternative),
             alts'[t] = <<f>> \o s,
             \A j \in DOMAIN s : \E k \in DOMAIN alts[t] : s[j] = alts[t][k],
             NEW i \in DOMAIN alts'[t]
      PROVE  /\ alts'[t][i].copy[x].orig \in OrigsOf(t, x)
             /\ alts'[t][i].copy[x].new \in NewsOf(t, x)
  <2>1. CASE alts'[t][i] = f
    BY <1>2, <1>5, <2>1
  <2>2. ASSUME NEW j \in DOMAIN s, alts'[t][i] = s[j]
        PROVE  /\ alts'[t][i].copy[x].orig \in OrigsOf(t, x)
               /\ alts'[t][i].copy[x].new \in NewsOf(t, x)
    <3>1. PICK k \in DOMAIN alts[t] : s[j] = alts[t][k]
      BY <1>5
    <3> QED BY <1>1, <2>2, <3>1
  <2> QED BY <1>5, <2>1, <2>2, PushCases
<1>6. CASE OrBegin(t)
  <2> DEFINE f == [branch |-> 1, copy |-> log[t]]
  <2>1. f \in Alternative /\ f.copy = log[t]
    BY <1>0 DEF Alternative
  <2>2. log' = log /\ alts'[t] = <<f>> \o alts[t]
    BY <1>6 DEF OrBegin, TypeInv, TypeOK
  <2> HIDE DEF f
  <2>3. \A i \in DOMAIN alts'[t] :
           /\ alts'[t][i].copy[x].orig \in OrigsOf(t, x)
           /\ alts'[t][i].copy[x].new \in NewsOf(t, x)
    BY <1>0, <1>5, <2>1, <2>2
  <2> QED BY <1>2, <1>3, <2>2, <2>3
<1>7. CASE OrFirstOk(t)
  <2>1. log' = log /\ alts[t] # <<>> /\ alts'[t] = Tail(alts[t])
    BY <1>7 DEF OrFirstOk, Within, Pop, TypeInv, TypeOK
  <2> QED BY <1>2, <1>3, <1>4, <2>1
<1>8. CASE OrFirstRetry(t)
  <2> DEFINE f == [branch |-> 2, copy |-> log[t]]
  <2>1. f \in Alternative /\ f.copy = log[t]
    BY <1>0 DEF Alternative
  <2>2. /\ alts[t] # <<>> /\ Tail(alts[t]) \in Seq(Alternative)
        /\ log'[t] = alts[t][1].copy /\ 1 \in DOMAIN alts[t]
        /\ alts'[t] = <<f>> \o Tail(alts[t])
    BY <1>0, <1>8, HeadCases DEF OrFirstRetry, Within, TypeInv, TypeOK
  <2>3. \A j \in DOMAIN Tail(alts[t]) : \E k \in DOMAIN alts[t] : Tail(alts[t])[j] = alts[t][k]
    BY <1>0, <2>2, TailCases
  <2> HIDE DEF f
  <2>4. \A i \in DOMAIN alts'[t] :
           /\ alts'[t][i].copy[x].orig \in OrigsOf(t, x)
           /\ alts'[t][i].copy[x].new \in NewsOf(t, x)
    BY <1>5, <2>1, <2>2, <2>3
  <2> QED BY <1>1, <1>3, <2>2, <2>4
<1>9. CASE OrSecondDone(t)
  <2>1. /\ alts[t] # <<>> /\ alts'[t] = Tail(alts[t])
        /\ 1 \in DOMAIN alts[t] /\ alts[t][1] \in Alternative
        /\ log'[t] = Combine(log[t], alts[t][1].copy)
    <3>1. /\ alts[t] # <<>> /\ alts'[t] = Tail(alts[t])
          /\ log'[t] = Combine(log[t], Head(alts[t]).copy)
      BY <1>9 DEF OrSecondDone, Within, Pop, TypeInv, TypeOK
    <3> QED BY <1>0, <3>1, HeadCases
  <2>2. /\ log'[t][x].orig \in {log[t][x].orig, alts[t][1].copy[x].orig, Nil}
        /\ log'[t][x].new = log[t][x].new
    BY <1>0, <2>1, CombineLemma DEF Alternative
  <2> QED BY <1>1, <1>2, <1>3, <1>4, <2>1, <2>2
<1> QED BY <1>6, <1>7, <1>8, <1>9 DEF Or

-----------------------------------------------------------------------------
(* The shapes of steps.  Only calls of the closure bring new Arcs into a   *)
(* register, only stores change values, and all other steps are quiet.     *)

\* A value to be stored that is not in its TVar yet.
Unstored(t, x) == pc[t] \notin {"write", "wake"} \/ (pc[t] = "write" /\ x \in todo[t])

\* The part of the state of threads other than t that matters here.
OthersKeep(t) ==
  \A u \in Thread \ {t} :
    /\ log'[u] = log[u] /\ alts'[u] = alts[u]
    /\ pc'[u] = pc[u] /\ todo'[u] = todo[u]
    /\ seen'[u] = seen[u] /\ stale'[u] = stale[u]

\* t moves its Arcs around, or drops them all, or gets on with its commit.
Quiet(t) ==
  /\ value' = value
  /\ OthersKeep(t)
  /\ \A x \in Var : /\ OrigsOf(t, x)' \subseteq OrigsOf(t, x) \cup {Nil}
                    /\ NewsOf(t, x)' \subseteq NewsOf(t, x) \cup {Nil}
  /\ \/ /\ seen'[t] = seen[t] /\ stale'[t] = stale[t]
        /\ \/ pc[t] \notin {"write", "wake"} /\ pc'[t] \notin {"write", "wake"}
           \/ pc'[t] = pc[t] /\ todo'[t] = todo[t]
     \/ log'[t] = NoLog /\ alts'[t] = <<>>
     \/ pc'[t] \in {"write", "wake"} /\ \A x \in Var : Unstored(t, x)' => Unstored(t, x)

\* An attempt that has failed has done so before.
NoFailure(t) == pc'[t] = "failed" => pc[t] = "failed" /\ log'[t] = log[t]

\* A call of the closure loads the value of x into its register, if it is in
\* E, and makes an Arc for a new one, if F has one.
Calls(t, x, E, F) ==
  /\ value' = value /\ stale' = stale
  /\ \A u \in Thread \ {t} :
       log'[u] = log[u] /\ alts'[u] = alts[u] /\ seen'[u] = seen[u]
  /\ pc' = pc /\ todo' = todo /\ alts'[t] = alts[t]
  /\ pc[t] = "closure"
  /\ seen'[t] = IF E = {} THEN seen[t] ELSE seen[t] \cup {x}
  /\ \A y \in Var \ {x} : log'[t][y] = log[t][y]
  /\ log'[t][x] \in LogVar
  /\ log'[t][x].orig \in E \cup {log[t][x].orig}
  /\ log'[t][x].new \in F \cup {log[t][x].new}
  /\ E \subseteq {value[x]}
  /\ E # {} <=> log[t][x] = Vacant /\ log'[t][x].tag # "Write"
  /\ F = {} \/ \E a \in Arc : F = {a} /\ a.addr \in FreeAddr(x)

\* a becomes the value of x.
Stores(t, x, a) ==
  /\ Store(x, a)
  /\ a \in Arc
  /\ UNCHANGED <<log, alts, pc, seen>>
  /\ \A u \in Thread \ {t} : todo'[u] = todo[u]
  /\ \/ pc[t] = "write" /\ x \in todo[t] /\ todo'[t] = todo[t] \ {x} /\ a = log[t][x].new
     \/ pc[t] = "idle" /\ todo'[t] = todo[t] /\ a.addr \in FreeAddr(x)

LEMMA ResetQuiet ==
  ASSUME TypeInv, NEW t \in Thread, NEW p \in {"idle", "closure"}, Reset(t, p), value' = value
  PROVE  Quiet(t) /\ NoFailure(t)
<1>1. OthersKeep(t)
  BY DEF Reset, OthersKeep, TypeInv, TypeOK
<1>2. log'[t] = NoLog /\ alts'[t] = <<>> /\ pc'[t] = p
  BY DEF Reset, TypeInv, TypeOK
<1> QED BY <1>1, <1>2, NoArcs DEF Quiet, NoFailure

\* Steps that leave the registers alone.
LEMMA KeepQuiet ==
  ASSUME NEW t \in Thread, OthersKeep(t), UNCHANGED <<value, log, alts>>,
         \/ /\ seen'[t] = seen[t] /\ stale'[t] = stale[t]
            /\ \/ pc[t] \notin {"write", "wake"} /\ pc'[t] \notin {"write", "wake"}
               \/ pc'[t] = pc[t] /\ todo'[t] = todo[t]
         \/ pc'[t] \in {"write", "wake"} /\ \A x \in Var : Unstored(t, x)' => Unstored(t, x),
         pc'[t] = "failed" => pc[t] = "failed"
  PROVE  Quiet(t) /\ NoFailure(t)
BY SameArcs DEF Quiet, NoFailure

LEMMA EntryPointsQuiet ==
  ASSUME TypeInv, NEW t \in Thread,
         Begin(t) \/ EndOfClosure(t) \/ ControlAbort(t) \/ Restart(t)
  PROVE  Quiet(t) /\ NoFailure(t)
<1>1. ASSUME NEW p \in {"idle", "closure"}, Reset(t, p), value' = value
      PROVE  Quiet(t) /\ NoFailure(t)
  BY <1>1, ResetQuiet
<1>2. CASE ClosureOk(t)
  <2>1. OthersKeep(t)
    BY <1>2 DEF ClosureOk, OthersKeep, TypeInv, TypeOK
  <2>2. pc[t] = "closure" /\ pc'[t] = "commit"
    BY <1>2 DEF ClosureOk, TypeInv, TypeOK
  <2> QED BY <1>2, <2>1, <2>2, KeepQuiet DEF ClosureOk
<1>3. CASE ClosureRetry(t)
  <2>1. OthersKeep(t)
    BY <1>3 DEF ClosureRetry, OthersKeep, TypeInv, TypeOK
  <2>2. pc[t] = "closure" /\ pc'[t] = "retry"
    BY <1>3 DEF ClosureRetry, TypeInv, TypeOK
  <2> QED BY <1>3, <2>1, <2>2, KeepQuiet DEF ClosureRetry
<1> QED BY <1>1, <1>2, <1>3
       DEF Begin, EndOfClosure, ClosureAbort, ClosurePanic, ControlAbort, Leave, Restart

LEMMA OrQuiet ==
  ASSUME TypeInv, NEW t \in Thread, Or(t)
  PROVE  Quiet(t) /\ NoFailure(t)
<1>1. /\ OthersKeep(t) /\ value' = value
      /\ seen'[t] = seen[t] /\ stale'[t] = stale[t]
      /\ pc[t] \in {"closure", "retry"} /\ pc'[t] \in {"closure", "retry"}
  BY DEF Or, OrBegin, OrFirstOk, OrFirstRetry, OrSecondDone, Pop, Call, OthersKeep,
         TypeInv, TypeOK
<1> QED BY <1>1, OrArcs DEF Quiet, NoFailure

LEMMA AcquireQuiet ==
  ASSUME TypeInv, NEW t \in Thread, Acquire(t)
  PROVE  Quiet(t) /\ NoFailure(t)
<1> PICK x \in Var : \/ LockRead(t, x) \/ ClaimWrite(t, x) \/ CommitFail(t, x)
                     \/ CheckOk(t, x) \/ CheckChanged(t, x)
  BY DEF Acquire
<1>1. CASE LockRead(t, x) \/ ClaimWrite(t, x)
  <2>1. OthersKeep(t) /\ pc' = pc /\ pc[t] = "commit"
    BY <1>1 DEF LockRead, ClaimWrite, Locking, Locked, OthersKeep, TypeInv, TypeOK
  <2> QED BY <1>1, <2>1, KeepQuiet DEF LockRead, ClaimWrite
<1>2. CASE CommitFail(t, x)
  BY <1>2, ResetQuiet DEF CommitFail
<1>3. CASE CheckOk(t, x)
  <2>1. OthersKeep(t) /\ pc[t] = "check" /\ pc'[t] = "register"
    BY <1>3 DEF CheckOk, OthersKeep, TypeInv, TypeOK
  <2>2. \A y \in Var : log'[t][y].orig \in {log[t][y].orig, Nil}
                       /\ log'[t][y].new \in {log[t][y].new, Nil}
    BY <1>3 DEF CheckOk, Vacant, Entry, TypeInv, TypeOK, RegisterType
  <2>3. \A y \in Var : /\ OrigsOf(t, y)' \subseteq OrigsOf(t, y) \cup {Nil}
                       /\ NewsOf(t, y)' \subseteq NewsOf(t, y) \cup {Nil}
    BY <1>3, <2>2, OrigsCases, OrigsCasesNext, NewsCases, NewsCasesNext DEF CheckOk
  <2> QED BY <1>3, <2>1, <2>3 DEF CheckOk, Quiet, NoFailure
<1>4. CASE CheckChanged(t, x)
  BY <1>4, ResetQuiet DEF CheckChanged, EndWait
<1> QED BY <1>1, <1>2, <1>3, <1>4

LEMMA CommitQuiet ==
  ASSUME TypeInv, NEW t \in Thread, Commit(t), \A x \in Var : ~WriteBack(t, x)
  PROVE  Quiet(t) /\ NoFailure(t)
<1>1. ASSUME NEW x \in Var, LockWrite(t, x) PROVE Quiet(t) /\ NoFailure(t)
  <2>1. OthersKeep(t) /\ pc' = pc /\ pc[t] = "commit"
    BY <1>1 DEF LockWrite, Locking, Locked, OthersKeep, TypeInv, TypeOK
  <2> QED BY <1>1, <2>1, KeepQuiet DEF LockWrite
<1>2. ASSUME NEW x \in Var, TakeWaiters(t, x) PROVE Quiet(t) /\ NoFailure(t)
  <2>1. OthersKeep(t) /\ pc' = pc /\ pc[t] = "wake"
    BY <1>2 DEF TakeWaiters, Locked, OthersKeep, TypeInv, TypeOK
  <2> QED BY <1>2, <2>1, KeepQuiet DEF TakeWaiters, Unstored
<1>3. CASE ReleaseReads(t)
  <2>1. OthersKeep(t) /\ pc[t] = "commit" /\ pc'[t] = "write"
    BY <1>3 DEF ReleaseReads, OthersKeep, TypeInv, TypeOK
  <2> QED BY <1>3, <2>1, KeepQuiet DEF ReleaseReads, Unstored
<1>4. CASE BeginWake(t)
  <2>1. OthersKeep(t) /\ pc[t] = "write" /\ pc'[t] = "wake"
    BY <1>4 DEF BeginWake, OthersKeep, TypeInv, TypeOK
  <2> QED BY <1>4, <2>1, KeepQuiet DEF BeginWake, Unstored
<1>5. ASSUME NEW u \in Thread, SetChanged(t, u) PROVE Quiet(t) /\ NoFailure(t)
  BY <1>5, KeepQuiet DEF SetChanged, OthersKeep
<1>6. CASE Return(t)
  BY <1>6, ResetQuiet DEF Return, Leave
<1> QED BY <1>1, <1>2, <1>3, <1>4, <1>5, <1>6 DEF Commit

LEMMA WaitForChangeQuiet ==
  ASSUME TypeInv, NEW t \in Thread, WaitForChange(t)
  PROVE  Quiet(t) /\ NoFailure(t)
<1>1. CASE StartWait(t)
  <2>1. OthersKeep(t) /\ pc[t] \in {"retry", "failed"} /\ pc'[t] = "register"
    BY <1>1 DEF StartWait, OthersKeep, TypeInv, TypeOK
  <2> QED BY <1>1, <2>1, KeepQuiet DEF StartWait
<1>2. ASSUME NEW x \in Var, Register(t, x) PROVE Quiet(t) /\ NoFailure(t)
  <2>1. OthersKeep(t) /\ pc[t] = "register" /\ pc'[t] = "check"
    BY <1>2 DEF Register, OthersKeep, TypeInv, TypeOK
  <2> QED BY <1>2, <2>1, KeepQuiet DEF Register
<1>3. CASE Park(t)
  <2>1. OthersKeep(t) /\ pc[t] = "register" /\ pc'[t] = "parked" /\ log'[t] = NoLog
    BY <1>3 DEF Park, OthersKeep, TypeInv, TypeOK
  <2>2. \A y \in Var : /\ OrigsOf(t, y)' \subseteq OrigsOf(t, y) \cup {Nil}
                       /\ NewsOf(t, y)' \subseteq NewsOf(t, y) \cup {Nil}
    BY <1>3, <2>1, OrigsCases, OrigsCasesNext, NewsCases, NewsCasesNext
       DEF Park, NoLog, Vacant, Entry
  <2> QED BY <1>3, <2>1, <2>2 DEF Park, Quiet, NoFailure
<1>4. CASE Unpark(t)
  BY <1>4, ResetQuiet DEF Unpark, EndWait
<1> QED BY <1>1, <1>2, <1>3, <1>4 DEF WaitForChange

LEMMA EarlyConflictQuiet ==
  ASSUME TypeInv, NEW t \in Thread, NEW x \in Var, EarlyConflict(t, x)
  PROVE  /\ Quiet(t)
         /\ log' = log /\ log[t][x].tag = "Read" /\ log[t][x].orig.addr # value[x].addr
         /\ pc[t] = "closure" /\ pc' = [pc EXCEPT ![t] = "failed"]
<1>1. /\ OthersKeep(t) /\ pc[t] = "closure" /\ pc'[t] = "failed"
      /\ log' = log /\ alts'[t] = <<>>
  BY DEF EarlyConflict, OthersKeep, TypeInv, TypeOK
<1>2. \A y \in Var : /\ OrigsOf(t, y)' \subseteq OrigsOf(t, y) \cup {Nil}
                     /\ NewsOf(t, y)' \subseteq NewsOf(t, y) \cup {Nil}
  BY <1>1, OrigsCases, OrigsCasesNext, NewsCases, NewsCasesNext
<1> QED BY <1>1, <1>2 DEF EarlyConflict, Rechecks, PtrEq, Quiet

LEMMA AccessCalls ==
  ASSUME TypeInv, NEW t \in Thread, Access(t), \A x \in Var : ~EarlyConflict(t, x)
  PROVE  \E x \in Var : \E E, F \in SUBSET Arc : Calls(t, x, E, F)
<1> PICK x \in Var :
       \/ Read(t, x)
       \/ \E v \in Val : Write(t, x, v) \/ Exchange(t, x, v)
       \/ \E f \in Fns : Modify(t, x, f)
  BY DEF Access
<1> DEFINE e == AfterRead(Loaded(t, x))
           E == IF log[t][x] = Vacant THEN {value[x]} ELSE {}
<1>0. /\ log[t][x] \in LogVar \cup {Vacant} /\ value[x] \in Arc
      /\ e \in LogVar
      /\ e.orig \in E \cup {log[t][x].orig} /\ e.new = log[t][x].new
      /\ log[t][x] = Vacant => e.tag = "Read"
      /\ E \in SUBSET Arc
  <2>1. log[t][x] \in LogVar \cup {Vacant} /\ Loaded(t, x) \in LogVar /\ value[x] \in Arc
    BY LoadedType DEF TypeInv, TypeOK
  <2>2. e \in LogVar /\ e.orig = Loaded(t, x).orig /\ e.new = Loaded(t, x).new
    BY <2>1, ReadLemma
  <2> QED BY <2>1, <2>2
         DEF Loaded, ReadEntry, AfterRead, Vacant, Entry
<1> HIDE DEF e
<1>1. ASSUME NEW d \in LogVar, NEW F \in SUBSET Arc, SetEntry(t, x, d),
             d.orig \in E \cup {log[t][x].orig}, d.new \in F \cup {log[t][x].new},
             log[t][x] = Vacant => d.tag # "Write",
             F = {} \/ \E a \in Arc : F = {a} /\ a.addr \in FreeAddr(x),
             pc[t] = "closure", UNCHANGED <<value, pc, alts, todo>>, Saw(t, x)
      PROVE  Calls(t, x, E, F)
  <2>1. /\ log'[t][x] = d
        /\ \A y \in Var \ {x} : log'[t][y] = log[t][y]
        /\ \A u \in Thread \ {t} : log'[u] = log[u] /\ seen'[u] = seen[u]
        /\ seen'[t] = IF E = {} THEN seen[t] ELSE seen[t] \cup {x}
    BY <1>1 DEF SetEntry, Saw, TypeInv, TypeOK, RegisterType
  <2> QED BY <1>1, <2>1 DEF Calls, Saw
<1>2. CASE Read(t, x)
  <2>1. Calls(t, x, E, {})
    BY <1>0, <1>1, <1>2 DEF Read, Call, e
  <2> QED BY <1>0, <2>1
<1>3. ASSUME NEW a \in Arc, NEW v, NewArc(x, v, a), SetEntry(t, x, AfterWrite(e, a)),
             pc[t] = "closure", UNCHANGED <<value, pc, alts, todo>>, Saw(t, x)
      PROVE  \E F \in SUBSET Arc : Calls(t, x, E, F)
  <2>1. /\ AfterWrite(e, a) \in LogVar
        /\ AfterWrite(e, a).orig = e.orig /\ AfterWrite(e, a).new = a
    BY <1>0, WriteLemma
  <2>2. log[t][x] = Vacant => AfterWrite(e, a).tag # "Write"
    BY <1>0 DEF AfterWrite, ReadWriteEntry, Entry
  <2>3. Calls(t, x, E, {a})
    BY <1>0, <1>1, <1>3, <2>1, <2>2 DEF NewArc
  <2> QED BY <2>3
<1>4. ASSUME NEW v \in Val, Exchange(t, x, v) PROVE \E F \in SUBSET Arc : Calls(t, x, E, F)
  BY <1>3, <1>4 DEF Exchange, Call, e
<1>5. ASSUME NEW f \in Fns, Modify(t, x, f) PROVE \E F \in SUBSET Arc : Calls(t, x, E, F)
  BY <1>3, <1>5 DEF Modify, Call, e
<1>6. ASSUME NEW v \in Val, Write(t, x, v) PROVE \E F \in SUBSET Arc : Calls(t, x, {}, F)
  <2>1. PICK a \in Arc : NewArc(x, v, a) /\ SetEntry(t, x, AfterWrite(log[t][x], a))
    BY <1>6 DEF Write
  <2> DEFINE d == AfterWrite(log[t][x], a)
  <2>2. /\ d \in LogVar /\ d.orig = log[t][x].orig /\ d.new = a
        /\ log[t][x] = Vacant => d.tag = "Write"
    BY <1>0, WriteLemma DEF AfterWrite, WriteEntry, Vacant, Entry
  <2>3. /\ log'[t][x] = d
        /\ \A y \in Var \ {x} : log'[t][y] = log[t][y]
        /\ \A u \in Thread \ {t} : log'[u] = log[u]
    BY <2>1 DEF SetEntry, TypeInv, TypeOK, RegisterType
  <2> HIDE DEF d
  <2>4. Calls(t, x, {}, {a})
    BY <1>6, <2>1, <2>2, <2>3 DEF Calls, Write, Call, NewArc
  <2> QED BY <2>4
<1> QED BY <1>0, <1>2, <1>4, <1>5, <1>6

LEMMA WriteBackStores ==
  ASSUME TypeInv, NEW t \in Thread, NEW x \in Var, WriteBack(t, x)
  PROVE  Stores(t, x, log[t][x].new)
<1>1. log[t][x].new \in Arc
  <2>1. log[t][x] \in LogVar \cup {Vacant} /\ log[t][x].tag \in WriteTags
    BY DEF WriteBack, IsNext, TypeInv, TypeOK, RegisterType, WritesHaveValues, Written
  <2> QED BY <2>1, LogVarCases
<1> QED BY <1>1 DEF WriteBack, IsNext, Locked, Stores, TypeInv, TypeOK

LEMMA AtomicShape ==
  ASSUME TypeInv, NEW t \in Thread, Atomic(t)
  PROVE  \/ Quiet(t) /\ NoFailure(t)
         \/ \E x \in Var : \E a \in Arc : Stores(t, x, a)
<1>1. ASSUME NEW x \in Var, ReadAtomic(t, x) PROVE Quiet(t) /\ NoFailure(t)
  BY <1>1, KeepQuiet DEF ReadAtomic, OthersKeep
<1>2. ASSUME NEW x \in Var, NEW v \in Val, WriteAtomic(t, x, v)
      PROVE  \E a \in Arc : Stores(t, x, a)
  BY <1>2 DEF WriteAtomic, NewArc, Stores
<1> QED BY <1>1, <1>2 DEF Atomic

\* Every step has one of the shapes.
LEMMA StepShape ==
  ASSUME TypeInv, [Next]_vars
  PROVE  \/ UNCHANGED vars
         \/ \E t \in Thread : Quiet(t) /\ NoFailure(t)
         \/ \E t \in Thread, x \in Var : EarlyConflict(t, x)
         \/ \E t \in Thread, x \in Var : \E E, F \in SUBSET Arc : Calls(t, x, E, F)
         \/ \E t \in Thread, x \in Var : \E a \in Arc : Stores(t, x, a)
<1> SUFFICES ASSUME NEW t \in Thread,
               \/ Begin(t) \/ Access(t) \/ Or(t) \/ EndOfClosure(t) \/ ControlAbort(t)
               \/ Restart(t) \/ Acquire(t) \/ Commit(t) \/ WaitForChange(t) \/ Atomic(t)
             PROVE  \/ Quiet(t) /\ NoFailure(t)
                    \/ \E x \in Var : EarlyConflict(t, x)
                    \/ \E x \in Var : \E E, F \in SUBSET Arc : Calls(t, x, E, F)
                    \/ \E x \in Var : \E a \in Arc : Stores(t, x, a)
  BY DEF Next
<1>1. CASE Commit(t) /\ \E x \in Var : WriteBack(t, x)
  BY <1>1, WriteBackStores DEF Stores
<1> QED BY <1>1, EntryPointsQuiet, AccessCalls, OrQuiet, AcquireQuiet, CommitQuiet,
           WaitForChangeQuiet, AtomicShape

-----------------------------------------------------------------------------
(* The heap invariant: what a thread is going to store is known to nobody  *)
(* else, so that a TVar never gets an Arc back that it had before; and a   *)
(* value that was loaded and not overwritten is still the current one.     *)

Private ==
  \A t \in Thread, x \in Var : Unstored(t, x) =>
    \A a \in NewsOf(t, x) \ {Nil} :
      /\ a # value[x]
      /\ \A u \in Thread : a \notin OrigsOf(u, x) /\ (u # t => a \notin NewsOf(u, x))

Loads ==
  \A t \in Thread, x \in Var : pc[t] \notin {"write", "wake"} =>
    \A a \in OrigsOf(t, x) \ {Nil} : x \in seen[t] /\ (x \notin stale[t] => a = value[x])

\* A failed attempt has an entry that is outdated.
Outdates ==
  \A t \in Thread : pc[t] = "failed" =>
    \E x \in Var : log[t][x].tag = "Read" /\ log[t][x].orig.addr # value[x].addr

HeapInv == Private /\ Loads /\ Outdates

LEMMA InitHeapInv == Init => HeapInv
<1> SUFFICES ASSUME Init PROVE HeapInv
  OBVIOUS
<1>1. ASSUME NEW t \in Thread, NEW x \in Var
      PROVE  OrigsOf(t, x) \subseteq {Nil} /\ NewsOf(t, x) \subseteq {Nil}
  <2>1. alts[t] = <<>> /\ log[t][x].orig = Nil /\ log[t][x].new = Nil
    BY DEF Init, NoLog, Vacant, Entry
  <2> QED BY <2>1, OrigsCases, NewsCases
<1> QED BY <1>1 DEF HeapInv, Private, Loads, Outdates, Init

LEMMA CallsArcs ==
  ASSUME NEW t \in Thread, NEW x \in Var, NEW E, NEW F, Calls(t, x, E, F), NEW y \in Var
  PROVE  /\ OrigsOf(t, y)' \subseteq OrigsOf(t, y) \cup (IF y = x THEN E ELSE {})
         /\ NewsOf(t, y)' \subseteq NewsOf(t, y) \cup (IF y = x THEN F ELSE {})
BY OrigsCases, OrigsCasesNext, NewsCases, NewsCasesNext DEF Calls

LEMMA QuietPrivate ==
  ASSUME TypeInv, Private, NEW t \in Thread, Quiet(t)
  PROVE  Private'
<1>1. ASSUME NEW u \in Thread, NEW x \in Var
      PROVE  /\ OrigsOf(u, x)' \subseteq OrigsOf(u, x) \cup {Nil}
             /\ NewsOf(u, x)' \subseteq NewsOf(u, x) \cup {Nil}
  BY SameArcs DEF Quiet, OthersKeep
<1>2. ASSUME NEW u \in Thread, NEW x \in Var, Unstored(u, x)', ~Unstored(u, x)
      PROVE  NewsOf(u, x)' \subseteq {Nil}
  <2>1. u = t
    BY <1>2 DEF Quiet, OthersKeep, Unstored
  <2>2. log'[t] = NoLog /\ alts'[t] = <<>>
    BY <1>2, <2>1 DEF Quiet, Unstored
  <2> QED BY <2>1, <2>2, NoArcs
<1>3. value' = value
  BY DEF Quiet
<1> QED BY <1>1, <1>2, <1>3 DEF Private

LEMMA CallsPrivate ==
  ASSUME TypeInv, Private, NEW t \in Thread, NEW x \in Var,
         NEW E \in SUBSET Arc, NEW F \in SUBSET Arc, Calls(t, x, E, F)
  PROVE  Private'
<1>1. ASSUME NEW u \in Thread \ {t}, NEW y \in Var
      PROVE  OrigsOf(u, y)' = OrigsOf(u, y) /\ NewsOf(u, y)' = NewsOf(u, y)
  BY SameArcs DEF Calls
<1>2. ASSUME NEW y \in Var
      PROVE  /\ OrigsOf(t, y)' \subseteq OrigsOf(t, y) \cup (IF y = x THEN {value[x]} ELSE {})
             /\ NewsOf(t, y)' \subseteq NewsOf(t, y) \cup (IF y = x THEN F ELSE {})
  BY CallsArcs DEF Calls
<1>3. ASSUME NEW a \in F
      PROVE  /\ a # value[x]
             /\ \A u \in Thread : a \notin OrigsOf(u, x) /\ a \notin NewsOf(u, x)
  <2>1. a \notin LiveArcs(x) /\ a # Nil
    BY NilFacts DEF Calls, FreeAddr
  <2>2. value[x] \in LiveArcs(x)
    BY NilFacts DEF LiveArcs, TypeInv, TypeOK
  <2> QED BY <2>1, <2>2, HeldIsLive
<1>4. \A u \in Thread, y \in Var : Unstored(u, y)' = Unstored(u, y)
  BY DEF Calls, Unstored
<1>5. value' = value
  BY DEF Calls
<1>6. ASSUME NEW u \in Thread, NEW y \in Var, Unstored(u, y)', NEW a \in NewsOf(u, y)' \ {Nil}
      PROVE  /\ a # value[y]
             /\ \A w \in Thread : a \notin OrigsOf(w, y) /\ (w # u => a \notin NewsOf(w, y))
  <2>1. a \in NewsOf(u, y) \/ (u = t /\ y = x /\ a \in F)
    BY <1>1, <1>2, <1>6
  <2>2. CASE a \in NewsOf(u, y)
    BY <1>4, <1>6, <2>2 DEF Private
  <2>3. CASE y = x /\ a \in F
    BY <1>3, <2>3
  <2> QED BY <2>1, <2>2, <2>3
<1>7. ASSUME NEW u \in Thread, NEW y \in Var, Unstored(u, y)', NEW a \in NewsOf(u, y)' \ {Nil},
             NEW w \in Thread
      PROVE  a \notin OrigsOf(w, y)' /\ (w # u => a \notin NewsOf(w, y)')
  <2>1. a # value[y] /\ a \notin OrigsOf(w, y) /\ (w # u => a \notin NewsOf(w, y))
    BY <1>6, <1>7
  <2>2. a \notin OrigsOf(w, y)'
    BY <1>1, <1>2, <2>1
  <2>3. ASSUME w # u PROVE a \notin NewsOf(w, y)'
    <3>1. CASE w = t
      <4>1. a \in NewsOf(u, y)
        BY <1>1, <1>7, <2>3, <3>1
      <4>2. ~(y = x /\ a \in F)
        BY <1>3, <4>1
      <4> QED BY <1>2, <2>1, <2>3, <3>1, <4>2
    <3>2. CASE w # t
      BY <1>1, <2>1, <2>3, <3>2
    <3> QED BY <3>1, <3>2
  <2> QED BY <2>2, <2>3
<1> QED BY <1>5, <1>6, <1>7 DEF Private

LEMMA StoresPrivate ==
  ASSUME TypeInv, Private, NEW t \in Thread, NEW x \in Var, NEW a \in Arc, Stores(t, x, a)
  PROVE  Private'
<1>1. \A u \in Thread, y \in Var : OrigsOf(u, y)' = OrigsOf(u, y) /\ NewsOf(u, y)' = NewsOf(u, y)
  BY SameArcs DEF Stores
<1>2. /\ value'[x] = a
      /\ \A y \in Var \ {x} : value'[y] = value[y]
  BY DEF Stores, Store, TypeInv, TypeOK
<1>3. \A u \in Thread, y \in Var : Unstored(u, y)' => Unstored(u, y)
  BY DEF Stores, Unstored
<1>4. ASSUME NEW u \in Thread, Unstored(u, x)', NEW b \in NewsOf(u, x) \ {Nil}
      PROVE  b # a
  <2>1. CASE pc[t] = "idle" /\ a.addr \in FreeAddr(x)
    BY <2>1, HeldIsLive DEF FreeAddr
  <2>2. CASE pc[t] = "write" /\ x \in todo[t] /\ todo'[t] = todo[t] \ {x} /\ a = log[t][x].new
    <3>1. u # t
      BY <1>4, <2>2 DEF Unstored, Stores
    <3>2. a \in NewsOf(t, x)
      BY <2>2, NewsCases
    <3> QED BY <1>3, <1>4, <3>1, <3>2 DEF Private
  <2> QED BY <2>1, <2>2 DEF Stores
<1> QED BY <1>1, <1>2, <1>3, <1>4 DEF Private

LEMMA QuietLoads ==
  ASSUME TypeInv, Loads, NEW t \in Thread, Quiet(t)
  PROVE  Loads'
<1>1. ASSUME NEW u \in Thread \ {t}, NEW x \in Var
      PROVE  OrigsOf(u, x)' = OrigsOf(u, x)
  BY SameArcs DEF Quiet, OthersKeep
<1>2. ASSUME pc'[t] \notin {"write", "wake"}, NEW x \in Var, NEW a \in OrigsOf(t, x)' \ {Nil}
      PROVE  /\ pc[t] \notin {"write", "wake"} /\ seen'[t] = seen[t] /\ stale'[t] = stale[t]
             /\ a \in OrigsOf(t, x)
  BY <1>2, NoArcs DEF Quiet
<1>3. value' = value
  BY DEF Quiet
<1> QED BY <1>1, <1>2, <1>3 DEF Loads, Quiet, OthersKeep

LEMMA CallsLoads ==
  ASSUME TypeInv, Loads, NEW t \in Thread, NEW x \in Var,
         NEW E \in SUBSET Arc, NEW F \in SUBSET Arc, Calls(t, x, E, F)
  PROVE  Loads'
<1>1. ASSUME NEW u \in Thread \ {t}, NEW y \in Var
      PROVE  OrigsOf(u, y)' = OrigsOf(u, y)
  BY SameArcs DEF Calls
<1>2. ASSUME NEW y \in Var, NEW a \in OrigsOf(t, y)' \ {Nil}
      PROVE  y \in seen'[t] /\ (y \notin stale[t] => a = value[y])
  <2>1. a \in OrigsOf(t, y) \/ (y = x /\ a \in E)
    BY <1>2, CallsArcs
  <2>2. CASE a \in OrigsOf(t, y)
    BY <1>2, <2>2 DEF Loads, Calls
  <2>3. CASE y = x /\ a \in E
    BY <2>3 DEF Calls
  <2> QED BY <2>1, <2>2, <2>3
<1> QED BY <1>1, <1>2 DEF Loads, Calls

LEMMA StoresLoads ==
  ASSUME TypeInv, Loads, NEW t \in Thread, NEW x \in Var, NEW a \in Arc, Stores(t, x, a)
  PROVE  Loads'
<1>1. \A u \in Thread, y \in Var : OrigsOf(u, y)' = OrigsOf(u, y)
  BY SameArcs DEF Stores
<1>2. /\ \A y \in Var \ {x} : value'[y] = value[y]
      /\ \A u \in Thread : stale'[u] = stale[u] \cup ({x} \cap seen[u])
  BY DEF Stores, Store, TypeInv, TypeOK
<1> QED BY <1>1, <1>2 DEF Loads, Stores

\* What is stored is not what anybody has loaded from the TVar.
LEMMA StoredIsNew ==
  ASSUME TypeInv, Private, NEW t \in Thread, NEW x \in Var, NEW a \in Arc, Stores(t, x, a),
         NEW u \in Thread
  PROVE  a \notin OrigsOf(u, x)
<1>1. CASE pc[t] = "idle" /\ a.addr \in FreeAddr(x)
  BY <1>1, NilFacts, HeldIsLive DEF FreeAddr
<1>2. CASE pc[t] = "write" /\ x \in todo[t] /\ a = log[t][x].new
  <2>1. a \in NewsOf(t, x) /\ Unstored(t, x) /\ a # Nil
    BY <1>2, NewsCases, NilFacts DEF Unstored
  <2> QED BY <2>1 DEF Private
<1> QED BY <1>1, <1>2 DEF Stores

\* A store does not make an outdated entry current again: what is stored is
\* not what was loaded, so that its address is another one.
LEMMA StaysOutdated ==
  ASSUME TypeInv, Private, PointerIdentity', TypeInv',
         NEW t \in Thread, NEW x \in Var, NEW a \in Arc, Stores(t, x, a),
         NEW u \in Thread, NEW y \in Var, log[u][y].orig # Nil,
         log[u][y].orig.addr # value[y].addr
  PROVE  log[u][y].orig.addr # value'[y].addr
<1>1. CASE y # x
  BY <1>1 DEF Stores, Store, TypeInv, TypeOK
<1>2. CASE y = x
  <2>1. value'[x] = a /\ log' = log
    BY DEF Stores, Store, TypeInv, TypeOK
  <2>2. log[u][x].orig \in OrigsOf(u, x)
    BY OrigsCases
  <2>3. log[u][x].orig # a
    BY <2>2, StoredIsNew
  <2>4. log[u][x].orig \in LiveArcs(x)' /\ a \in LiveArcs(x)'
    <3>1. log[u][x].orig \in ArcsOf(u, x)'
      BY <2>1, ArcsCasesNext
    <3> QED BY <1>2, <2>1, <3>1, NilFacts DEF LiveArcs
  <2>5. log[u][x].orig.addr # a.addr
    BY <2>3, <2>4 DEF PointerIdentity, PtrEq
  <2> QED BY <1>2, <2>1, <2>5
<1> QED BY <1>1, <1>2

LEMMA StoresOutdates ==
  ASSUME TypeInv, Private, Outdates, PointerIdentity', TypeInv',
         NEW t \in Thread, NEW x \in Var, NEW a \in Arc, Stores(t, x, a)
  PROVE  Outdates'
<1> SUFFICES ASSUME NEW u \in Thread, pc[u] = "failed"
             PROVE  \E y \in Var : log[u][y].tag = "Read" /\ log[u][y].orig.addr # value'[y].addr
  BY DEF Outdates, Stores
<1>1. PICK y \in Var : log[u][y].tag = "Read" /\ log[u][y].orig.addr # value[y].addr
  BY DEF Outdates
<1>2. log[u][y].orig # Nil
  <2>1. log[u][y] \in LogVar \cup {Vacant}
    BY DEF TypeInv, TypeOK, RegisterType
  <2> QED BY <1>1, <2>1, LogVarCases, NilFacts DEF OrigTags
<1> QED BY <1>1, <1>2, StaysOutdated

LEMMA StepHeapInv ==
  TypeInv /\ PointerIdentity /\ HeapInv /\ [Next]_vars => HeapInv'
<1> SUFFICES ASSUME TypeInv, PointerIdentity, HeapInv, [Next]_vars PROVE HeapInv'
  OBVIOUS
<1>0. TypeInv' /\ PointerIdentity'
  BY StepType, StepHeap
<1>1. CASE UNCHANGED vars
  <2>1. \A u \in Thread, x \in Var : OrigsOf(u, x)' = OrigsOf(u, x) /\ NewsOf(u, x)' = NewsOf(u, x)
    BY <1>1, SameArcs DEF vars
  <2> QED BY <1>1, <2>1 DEF vars, HeapInv, Private, Loads, Outdates, Unstored
<1>2. ASSUME NEW t \in Thread, Quiet(t), NoFailure(t) PROVE HeapInv'
  <2>1. Outdates'
    BY <1>2 DEF HeapInv, Outdates, Quiet, OthersKeep, NoFailure
  <2> QED BY <1>2, <2>1, QuietPrivate, QuietLoads DEF HeapInv
<1>3. ASSUME NEW t \in Thread, NEW x \in Var, EarlyConflict(t, x) PROVE HeapInv'
  <2>1. Quiet(t) /\ log' = log /\ log[t][x].tag = "Read" /\ log[t][x].orig.addr # value[x].addr
    BY <1>3, EarlyConflictQuiet
  <2>2. Outdates'
    BY <2>1 DEF HeapInv, Outdates, Quiet, OthersKeep
  <2> QED BY <2>1, <2>2, QuietPrivate, QuietLoads DEF HeapInv
<1>4. ASSUME NEW t \in Thread, NEW x \in Var, NEW E \in SUBSET Arc, NEW F \in SUBSET Arc,
             Calls(t, x, E, F)
      PROVE  HeapInv'
  <2>1. Outdates'
    BY <1>4 DEF HeapInv, Outdates, Calls
  <2> QED BY <1>4, <2>1, CallsPrivate, CallsLoads DEF HeapInv
<1>5. ASSUME NEW t \in Thread, NEW x \in Var, NEW a \in Arc, Stores(t, x, a) PROVE HeapInv'
  BY <1>0, <1>5, StoresPrivate, StoresLoads, StoresOutdates DEF HeapInv
<1> QED BY <1>1, <1>2, <1>3, <1>4, <1>5, StepShape

LEMMA HeapInvariant == Spec => [](TypeInv /\ PointerIdentity /\ HeapInv)
BY InitType, StepType, InitHeap, StepHeap, InitHeapInv, StepHeapInv, PTL DEF Spec

-----------------------------------------------------------------------------
(* Failures.                                                               *)

\* The two ways to fail: a commit that finds another Arc under a lock, and a
\* second read that does.
LEMMA FailSteps ==
  ASSUME TypeInv, Next, NEW t \in Thread,
         \/ pc[t] = "commit" /\ pc'[t] = "closure"
         \/ pc[t] = "closure" /\ pc'[t] = "failed"
  PROVE  \E x \in Var : log[t][x].tag \in CheckedTags /\ log[t][x].orig.addr # value[x].addr
                        /\ pc[t] \notin {"write", "wake"}
<1> PICK u \in Thread :
      \/ Begin(u) \/ Access(u) \/ Or(u) \/ EndOfClosure(u) \/ ControlAbort(u)
      \/ Restart(u) \/ Acquire(u) \/ Commit(u) \/ WaitForChange(u) \/ Atomic(u)
  BY DEF Next
<1>1. ASSUME NEW x \in Var, CommitFail(t, x)
      PROVE  log[t][x].tag \in CheckedTags /\ log[t][x].orig.addr # value[x].addr
  BY <1>1 DEF CommitFail, Conflict, Current, PtrEq
<1>2. ASSUME NEW x \in Var, EarlyConflict(t, x)
      PROVE  log[t][x].tag \in CheckedTags /\ log[t][x].orig.addr # value[x].addr
  BY <1>2 DEF EarlyConflict, Rechecks, PtrEq, CheckedTags
<1>3. CASE Begin(u) \/ EndOfClosure(u) \/ ControlAbort(u) \/ Restart(u)
  <2>1. ASSUME NEW p \in {"idle", "closure"}, Reset(u, p) PROVE pc'[t] \in {pc[t], p}
    BY <2>1 DEF Reset, TypeInv, TypeOK
  <2>2. CASE Begin(u) \/ ControlAbort(u) \/ Restart(u)
    BY <2>1, <2>2 DEF Begin, ControlAbort, Leave, Restart, Reset, TypeInv, TypeOK
  <2>3. CASE EndOfClosure(u)
    BY <2>1, <2>3 DEF EndOfClosure, ClosureOk, ClosureRetry, ClosureAbort, ClosurePanic, Leave,
                      TypeInv, TypeOK
  <2> QED BY <1>3, <2>2, <2>3
<1>4. CASE Access(u)
  <2>1. CASE \E x \in Var : EarlyConflict(u, x)
    <3>1. u = t
      BY <2>1 DEF EarlyConflict, TypeInv, TypeOK
    <3> QED BY <1>2, <2>1, <3>1
  <2>2. CASE ~\E x \in Var : EarlyConflict(u, x)
    BY <1>4, <2>2 DEF Access, Read, Write, Exchange, Modify
  <2> QED BY <2>1, <2>2
<1>5. CASE Or(u)
  BY <1>5 DEF Or, OrBegin, OrFirstOk, OrFirstRetry, OrSecondDone, TypeInv, TypeOK
<1>6. CASE Acquire(u)
  <2>1. CASE \E x \in Var : CommitFail(u, x)
    <3>1. u = t
      BY <2>1 DEF CommitFail, Reset, TypeInv, TypeOK
    <3> QED BY <1>1, <2>1, <3>1
  <2>2. CASE ~\E x \in Var : CommitFail(u, x)
    BY <1>6, <2>2 DEF Acquire, LockRead, ClaimWrite, CheckOk, CheckChanged, EndWait, Reset,
                      TypeInv, TypeOK
  <2> QED BY <2>1, <2>2
<1>7. CASE Commit(u)
  BY <1>7 DEF Commit, LockWrite, WriteBack, TakeWaiters, ReleaseReads, BeginWake, SetChanged,
              Return, Leave, Reset, TypeInv, TypeOK
<1>8. CASE WaitForChange(u)
  BY <1>8 DEF WaitForChange, StartWait, Register, Park, Unpark, EndWait, Reset, TypeInv, TypeOK
<1>9. CASE Atomic(u)
  BY <1>9 DEF Atomic, ReadAtomic, WriteAtomic
<1> QED BY <1>3, <1>4, <1>5, <1>6, <1>7, <1>8, <1>9

\* An entry that is not current was loaded before the TVar was overwritten.
LEMMA OldIsStale ==
  ASSUME TypeInv, HeapInv, NEW t \in Thread, NEW x \in Var,
         pc[t] \notin {"write", "wake"},
         log[t][x].tag \in CheckedTags, log[t][x].orig # value[x]
  PROVE  x \in stale[t]
<1>1. log[t][x].orig # Nil
  <2>1. log[t][x] \in LogVar \cup {Vacant}
    BY DEF TypeInv, TypeOK, RegisterType
  <2> QED BY <2>1, LogVarCases, NilFacts DEF CheckedTags, OrigTags
<1>2. log[t][x].orig \in OrigsOf(t, x)
  BY OrigsCases
<1> QED BY <1>1, <1>2 DEF HeapInv, Loads

\* Commits and reads fail because a value that was loaded has been
\* overwritten, in any build and with any use of or: locks that others hold,
\* and values that were written back to what they had been, play no role.
THEOREM FailsForConflict == Spec => FailsOnlyOnConflict
<1> DEFINE Fails(t) ==
      \/ pc[t] = "commit" /\ pc'[t] = "closure"
      \/ pc[t] = "closure" /\ pc'[t] = "failed"
<1>1. TypeInv /\ PointerIdentity /\ HeapInv /\ [Next]_vars
        => [\A t \in Thread : Fails(t) => stale[t] # {}]_vars
  <2> SUFFICES ASSUME TypeInv, PointerIdentity, HeapInv, Next, NEW t \in Thread, Fails(t)
               PROVE  stale[t] # {}
    OBVIOUS
  <2>1. PICK x \in Var : log[t][x].tag \in CheckedTags /\ log[t][x].orig.addr # value[x].addr
                         /\ pc[t] \notin {"write", "wake"}
    BY FailSteps
  <2> QED BY <2>1, OldIsStale
<1> QED BY <1>1, HeapInvariant, PTL DEF Spec, FailsOnlyOnConflict

\* with_err, which waits after an early conflict, waits with a register in
\* which some value is outdated, whatever has been stored in between.
THEOREM FailuresAreOutdated == Spec => []FailureIsOutdated
<1>1. TypeInv /\ HeapInv => FailureIsOutdated
  <2> SUFFICES ASSUME TypeInv, HeapInv, NEW t \in Thread, pc[t] = "failed"
               PROVE  \E x \in Unregistered(t) : ~Current(t, x)
    BY DEF FailureIsOutdated
  <2>1. PICK x \in Var : log[t][x].tag = "Read" /\ log[t][x].orig.addr # value[x].addr
    BY DEF HeapInv, Outdates
  <2>2. log[t][x].orig \in Arc
    <3>1. log[t][x] \in LogVar \cup {Vacant}
      BY DEF TypeInv, TypeOK, RegisterType
    <3> QED BY <2>1, <3>1, LogVarCases DEF OrigTags
  <2> QED BY <2>1, <2>2, NilFacts DEF Unregistered, IntoReadValue, OrigTags, Current, PtrEq
<1> QED BY <1>1, HeapInvariant, PTL

-----------------------------------------------------------------------------
(* Validation.  What has been compared under its lock stays current until  *)
(* the transaction takes effect.                                           *)

Validated ==
  \A t \in Thread, x \in Var :
    pc[t] = "commit" /\ x \notin todo[t] /\ log[t][x].tag \in CheckedTags
      => log[t][x].orig = value[x]

\* How a thread can be in commit after a step.
LEMMA CommitSteps ==
  ASSUME TypeInv, Next, NEW t \in Thread, pc'[t] = "commit"
  PROVE  /\ log'[t] = log[t]
         /\ \/ ClosureOk(t)
            \/ pc[t] = "commit" /\ \E x \in Var : LockRead(t, x) \/ LockWrite(t, x)
            \/ pc[t] = "commit" /\ todo'[t] = todo[t]
<1> PICK u \in Thread :
      \/ Begin(u) \/ Access(u) \/ Or(u) \/ EndOfClosure(u) \/ ControlAbort(u)
      \/ Restart(u) \/ Acquire(u) \/ Commit(u) \/ WaitForChange(u) \/ Atomic(u)
  BY DEF Next
<1>1. CASE Begin(u) \/ EndOfClosure(u) \/ ControlAbort(u) \/ Restart(u)
  <2>1. CASE ClosureOk(u)
    <3>1. log' = log /\ \A w \in Thread \ {u} : todo'[w] = todo[w] /\ pc'[w] = pc[w]
      BY <2>1 DEF ClosureOk, TypeInv, TypeOK
    <3> QED BY <2>1, <3>1
  <2>2. CASE ~ClosureOk(u)
    BY <1>1, <2>2
       DEF Begin, EndOfClosure, ClosureRetry, ClosureAbort, ClosurePanic, ControlAbort, Leave,
           Restart, Reset, TypeInv, TypeOK
  <2> QED BY <2>1, <2>2
<1>2. CASE Access(u)
  BY <1>2 DEF Access, Read, Write, Exchange, Modify, EarlyConflict, Call, SetEntry,
              TypeInv, TypeOK
<1>3. CASE Or(u)
  BY <1>3 DEF Or, OrBegin, OrFirstOk, OrFirstRetry, OrSecondDone, Call, TypeInv, TypeOK
<1>4. CASE Acquire(u)
  <2>1. ASSUME NEW x \in Var, LockRead(u, x)
        PROVE  /\ log' = log /\ pc' = pc
               /\ \A w \in Thread \ {u} : todo'[w] = todo[w]
    BY <2>1 DEF LockRead, Locked, TypeInv, TypeOK
  <2>2. ASSUME NEW x \in Var, ClaimWrite(u, x)
        PROVE  log' = log /\ pc' = pc /\ todo' = todo
    BY <2>2 DEF ClaimWrite
  <2>3. ASSUME NEW x \in Var, CommitFail(u, x) \/ CheckOk(u, x) \/ CheckChanged(u, x)
        PROVE  /\ pc'[u] # "commit"
               /\ \A w \in Thread \ {u} : /\ log'[w] = log[w] /\ pc'[w] = pc[w]
                                           /\ todo'[w] = todo[w]
    BY <2>3 DEF CommitFail, CheckOk, CheckChanged, EndWait, Reset, TypeInv, TypeOK
  <2> QED BY <1>4, <2>1, <2>2, <2>3 DEF Acquire
<1>5. CASE Commit(u)
  <2>1. ASSUME NEW x \in Var, LockWrite(u, x)
        PROVE  /\ log' = log /\ pc' = pc
               /\ \A w \in Thread \ {u} : todo'[w] = todo[w]
    BY <2>1 DEF LockWrite, Locked, TypeInv, TypeOK
  <2>2. CASE ~\E x \in Var : LockWrite(u, x)
    BY <1>5, <2>2
       DEF Commit, WriteBack, TakeWaiters, ReleaseReads, BeginWake, SetChanged,
           Return, Leave, Reset, Locked, TypeInv, TypeOK
  <2> QED BY <2>1, <2>2
<1>6. CASE WaitForChange(u)
  BY <1>6 DEF WaitForChange, StartWait, Register, Park, Unpark, EndWait, Reset, TypeInv, TypeOK
<1>7. CASE Atomic(u)
  BY <1>7 DEF Atomic, ReadAtomic, WriteAtomic
<1> QED BY <1>1, <1>2, <1>3, <1>4, <1>5, <1>6, <1>7

\* Comparing addresses tells whether the original is the current Arc.
LEMMA CurrentIsEqual ==
  ASSUME TypeInv, PointerIdentity, NEW t \in Thread, NEW x \in Var,
         log[t][x].orig \in Arc, Current(t, x)
  PROVE  log[t][x].orig = value[x]
<1>1. log[t][x].orig \in LiveArcs(x)
  BY OrigsCases, HeldIsLive, NilFacts
<1>2. value[x] \in LiveArcs(x)
  BY NilFacts DEF LiveArcs, TypeInv, TypeOK
<1> QED BY <1>1, <1>2 DEF PointerIdentity, Current, PtrEq

\* Nobody stores into a TVar that another thread has locked.
LEMMA StoresKeepLocked ==
  ASSUME TypeInv, LockInv, Next, NEW u \in Thread, NEW x \in Var,
         u \in readers[x] \/ (writer[x] = u /\ pc[u] # "write")
  PROVE  value'[x] = value[x]
<1> PICK t \in Thread :
      \/ Begin(t) \/ Access(t) \/ Or(t) \/ EndOfClosure(t) \/ ControlAbort(t)
      \/ Restart(t) \/ Acquire(t) \/ Commit(t) \/ WaitForChange(t) \/ Atomic(t)
  BY DEF Next
<1>1. ASSUME NEW y \in Var, WriteBack(t, y) PROVE value'[x] = value[x]
  <2>1. pc[t] = "write" /\ y \in todo[t] /\ writer[y] = t /\ readers[y] = {}
    BY <1>1 DEF WriteBack, IsNext, LockInv, LocksKept, Exclusive
  <2>2. y # x
    BY <2>1
  <2> QED BY <1>1, <2>2 DEF WriteBack, Store, TypeInv, TypeOK
<1>2. ASSUME NEW y \in Var, NEW v \in Val, WriteAtomic(t, y, v) PROVE value'[x] = value[x]
  <2>1. y # x
    BY <1>2, NilFacts DEF WriteAtomic, NoWriter
  <2> QED BY <1>2, <2>1 DEF WriteAtomic, Store, TypeInv, TypeOK
<1>3. CASE Commit(t)
  BY <1>1, <1>3, CommitQuiet DEF Quiet
<1>4. CASE Atomic(t)
  BY <1>2, <1>4 DEF Atomic, ReadAtomic
<1>5. CASE Access(t)
  BY <1>5 DEF Access, Read, Write, Exchange, Modify, EarlyConflict
<1> QED BY <1>3, <1>4, <1>5, EntryPointsQuiet, OrQuiet, AcquireQuiet, WaitForChangeQuiet
       DEF Quiet

LEMMA StepValidated ==
  TypeInv /\ PointerIdentity /\ LockInv /\ Validated /\ [Next]_vars => Validated'
<1> SUFFICES ASSUME TypeInv, PointerIdentity, LockInv, Validated, Next PROVE Validated'
  BY DEF vars, Validated
<1> SUFFICES ASSUME NEW t \in Thread, NEW x \in Var, pc'[t] = "commit", x \notin todo'[t],
                    log'[t][x].tag \in CheckedTags
             PROVE  log'[t][x].orig = value'[x]
  BY DEF Validated
<1>1. log'[t] = log[t] /\ log[t][x] \in LogVar \cup {Vacant} /\ log[t][x].orig \in Arc
  <2>1. log'[t] = log[t] /\ log[t][x] \in LogVar \cup {Vacant}
    BY CommitSteps DEF TypeInv, TypeOK, RegisterType
  <2> QED BY <2>1, LogVarCases DEF CheckedTags, OrigTags
<1>2. CASE ClosureOk(t)
  BY <1>1, <1>2 DEF ClosureOk, CheckedTags, TypeInv, TypeOK
<1>3. ASSUME NEW y \in Var, LockRead(t, y) \/ LockWrite(t, y) PROVE log'[t][x].orig = value'[x]
  <2>1. value' = value /\ todo'[t] = todo[t] \ {y} /\ pc[t] = "commit"
    BY <1>3 DEF LockRead, LockWrite, Locking, Locked, TypeInv, TypeOK
  <2>2. CASE x # y
    BY <1>1, <2>1, <2>2 DEF Validated
  <2>3. CASE x = y
    <3>1. Current(t, x)
      BY <1>1, <1>3, <2>3 DEF LockRead, LockWrite, Locking, HasWriteLock, LockInv, WritersWrite,
                              CheckedTags, WriteTags
    <3> QED BY <1>1, <2>1, <3>1, CurrentIsEqual
  <2> QED BY <2>2, <2>3
<1>4. CASE pc[t] = "commit" /\ todo'[t] = todo[t]
  <2>1. t \in readers[x] \/ writer[x] = t
    BY <1>1, <1>4 DEF LockInv, LocksKept, CheckedTags, WriteTags
  <2>2. value'[x] = value[x]
    BY <1>4, <2>1, StoresKeepLocked
  <2> QED BY <1>1, <1>4, <2>2 DEF Validated
<1> QED BY <1>2, <1>3, <1>4, CommitSteps

\* The full invariant.
CommitInv == TypeInv /\ PointerIdentity /\ HeapInv /\ LockInv /\ Validated

LEMMA CommitInvariant == Spec => []CommitInv
<1>1. Init => Validated
  BY DEF Init, Validated
<1>2. Init => CommitInv
  BY <1>1, InitType, InitHeap, InitHeapInv, InitLock DEF CommitInv
<1>3. CommitInv /\ [Next]_vars => CommitInv'
  BY StepType, StepHeap, StepHeapInv, StepLock, StepValidated DEF CommitInv
<1> QED BY <1>2, <1>3, PTL DEF Spec

-----------------------------------------------------------------------------
(* Deadlock.  A committing thread that holds or has claimed a lock has no  *)
(* TVar left to lock that comes before it, so that in a circle of threads  *)
(* that wait, the one that waits for the greatest TVar could not wait.     *)

\* The TVars that commit locks.
Locks(t) == {x \in Var : log[t][x].tag \notin {"Vacant", "ReadObsolete"}}

LockOrder ==
  \A t \in Thread : pc[t] = "commit" =>
    /\ todo[t] \subseteq Locks(t)
    /\ \A x \in Locks(t) \ todo[t], y \in todo[t] : x < y
    /\ \A x \in todo[t] : writer[x] = t => \A y \in todo[t] : x <= y

\* The threads that have something to do are finitely many.
FewActive == IsFiniteSet({t \in Thread : pc[t] # "idle"})

LEMMA WriterSteps ==
  ASSUME TypeInv, Next, NEW t \in Thread, NEW x \in Var, writer'[x] = t
  PROVE  writer[x] = t \/ ClaimWrite(t, x)
<1> PICK u \in Thread :
      \/ Begin(u) \/ Access(u) \/ Or(u) \/ EndOfClosure(u) \/ ControlAbort(u)
      \/ Restart(u) \/ Acquire(u) \/ Commit(u) \/ WaitForChange(u) \/ Atomic(u)
  BY DEF Next
<1>1. CASE Begin(u) \/ EndOfClosure(u) \/ ControlAbort(u) \/ Restart(u)
  BY <1>1 DEF Begin, EndOfClosure, ClosureOk, ClosureRetry, ClosureAbort, ClosurePanic,
              ControlAbort, Leave, Restart
<1>2. CASE Access(u) \/ Or(u)
  BY <1>2 DEF Access, Read, Write, Exchange, Modify, EarlyConflict,
              Or, OrBegin, OrFirstOk, OrFirstRetry, OrSecondDone
<1>3. CASE Acquire(u)
  BY <1>3, NilFacts
     DEF Acquire, LockRead, ClaimWrite, CommitFail, CheckOk, CheckChanged, EndWait,
         TypeInv, TypeOK
<1>4. CASE Commit(u)
  BY <1>4, NilFacts
     DEF Commit, LockWrite, WriteBack, TakeWaiters, ReleaseReads, BeginWake, SetChanged,
         Return, Leave, TypeInv, TypeOK
<1>5. CASE WaitForChange(u) \/ Atomic(u)
  BY <1>5 DEF WaitForChange, StartWait, Register, Park, Unpark, EndWait,
              Atomic, ReadAtomic, WriteAtomic
<1> QED BY <1>1, <1>2, <1>3, <1>4, <1>5

LEMMA StepLockOrder ==
  TypeInv /\ LockInv /\ LockOrder /\ [Next]_vars => LockOrder'
<1> SUFFICES ASSUME TypeInv, LockInv, LockOrder, Next PROVE LockOrder'
  BY DEF vars, LockOrder, Locks
<1> SUFFICES ASSUME NEW t \in Thread, pc'[t] = "commit"
             PROVE  /\ todo'[t] \subseteq Locks(t)'
                    /\ \A x \in Locks(t)' \ todo'[t], y \in todo'[t] : x < y
                    /\ \A x \in todo'[t] : writer'[x] = t => \A y \in todo'[t] : x <= y
  BY DEF LockOrder
<1>1. Locks(t)' = Locks(t) /\ todo[t] \subseteq Var /\ todo'[t] \subseteq Var
  BY CommitSteps, StepType DEF Locks, TypeInv, TypeOK
<1>2. \A x \in Var : x \in Nat
  BY ConstantsAssumption DEF ConstantsAssumption
<1>3. CASE ClosureOk(t)
  <2>1. todo'[t] = Locks(t) /\ writer' = writer /\ pc[t] = "closure"
    BY <1>3 DEF ClosureOk, Locks, TypeInv, TypeOK
  <2> QED BY <1>1, <2>1 DEF LockInv, WritersWrite
<1>4. ASSUME pc[t] = "commit", NEW x \in Var, LockRead(t, x) \/ LockWrite(t, x)
      PROVE  /\ todo'[t] \subseteq Locks(t)'
             /\ \A z \in Locks(t)' \ todo'[t], y \in todo'[t] : z < y
             /\ \A z \in todo'[t] : writer'[z] = t => \A y \in todo'[t] : z <= y
  <2>1. /\ writer' = writer /\ todo'[t] = todo[t] \ {x}
        /\ \A y \in todo[t] : x <= y
    BY <1>4 DEF LockRead, LockWrite, Locking, IsNext, Locked, TypeInv, TypeOK
  <2> QED BY <1>1, <1>2, <1>4, <2>1 DEF LockOrder
<1>5. CASE pc[t] = "commit" /\ todo'[t] = todo[t]
  <2>1. ASSUME NEW x \in todo[t], writer'[x] = t PROVE \A y \in todo[t] : x <= y
    <3>1. writer[x] = t \/ ClaimWrite(t, x)
      BY <1>1, <2>1, WriterSteps
    <3> QED BY <1>5, <2>1, <3>1 DEF LockOrder, ClaimWrite, Locking, IsNext
  <2> QED BY <1>1, <1>5, <2>1 DEF LockOrder
<1> QED BY <1>3, <1>4, <1>5, CommitSteps

LEMMA StepFewActive ==
  TypeInv /\ FewActive /\ [Next]_vars => FewActive'
<1> SUFFICES ASSUME TypeInv, FewActive, [Next]_vars PROVE FewActive'
  OBVIOUS
<1> DEFINE A == {t \in Thread : pc[t] # "idle"}
           B == {t \in Thread : pc'[t] # "idle"}
<1>1. CASE UNCHANGED vars
  BY <1>1 DEF vars, FewActive
<1>2. ASSUME NEW t \in Thread, \A u \in Thread \ {t} : pc'[u] = pc[u]
      PROVE  FewActive'
  <2>1. B \subseteq A \cup {t}
    BY <1>2
  <2>2. IsFiniteSet(A \cup {t})
    BY FS_AddElement DEF FewActive
  <2>3. IsFiniteSet(B)
    BY <2>1, <2>2, FS_Subset
  <2> QED BY <2>3 DEF FewActive
<1>3. ASSUME NEW t \in Thread, Quiet(t) PROVE FewActive'
  BY <1>2, <1>3 DEF Quiet, OthersKeep
<1>4. ASSUME pc' = pc PROVE FewActive'
  BY <1>4 DEF FewActive
<1>5. UNCHANGED vars \/ pc' = pc \/ \E t \in Thread : Quiet(t)
  <2>1. ASSUME NEW t \in Thread, NEW x \in Var, NEW E \in SUBSET Arc, NEW F \in SUBSET Arc,
               Calls(t, x, E, F)
        PROVE  pc' = pc
    BY <2>1 DEF Calls
  <2>2. ASSUME NEW t \in Thread, NEW x \in Var, NEW a \in Arc, Stores(t, x, a) PROVE pc' = pc
    BY <2>2 DEF Stores
  <2>3. ASSUME NEW t \in Thread, NEW x \in Var, EarlyConflict(t, x) PROVE Quiet(t)
    BY <2>3, EarlyConflictQuiet
  <2> QED BY <2>1, <2>2, <2>3, StepShape
<1> QED BY <1>1, <1>3, <1>4, <1>5

LEMMA OrderInvariant == Spec => [](CommitInv /\ LockOrder /\ FewActive)
<1>1. Init => LockOrder
  BY DEF Init, LockOrder
<1>2. Init => FewActive
  <2> SUFFICES ASSUME Init PROVE FewActive
    OBVIOUS
  <2>1. {t \in Thread : pc[t] # "idle"} = {}
    BY DEF Init
  <2> QED BY <2>1, FS_EmptySet DEF FewActive
<1>3. CommitInv /\ LockOrder /\ FewActive /\ [Next]_vars => (LockOrder /\ FewActive)'
  BY StepLockOrder, StepFewActive DEF CommitInv
<1> QED BY <1>1, <1>2, <1>3, CommitInvariant, PTL DEF Spec

\* A finite set of TVars has a greatest element.
LEMMA GreatestVar ==
  ASSUME NEW S \in SUBSET Var, IsFiniteSet(S), S # {}
  PROVE  \E x \in S : \A y \in S : y <= x
<1> DEFINE HasMax(T) == \E x \in T : \A y \in T : y <= x
           D == {T \in SUBSET S : T # {} /\ ~HasMax(T)}
<1> SUFFICES ASSUME ~HasMax(S) PROVE FALSE
  OBVIOUS
<1>0. S \subseteq Nat
  BY ConstantsAssumption DEF ConstantsAssumption
<1>1. S \in D /\ D \subseteq FiniteSubsetsOf(S)
  BY FS_FiniteSubsetsOfFinite
<1>2. PICK T \in D : \A U \in D : <<U, T>> \notin StrictSubsetOrdering(S)
  BY <1>1, FS_StrictSubsetOrderingWellFounded, WFMin
<1>3. PICK x \in T : TRUE
  OBVIOUS
<1>4. T \ {x} \notin D
  BY <1>2, <1>3 DEF StrictSubsetOrdering
<1>5. CASE T \ {x} = {}
  BY <1>0, <1>3, <1>5
<1>6. CASE T \ {x} # {}
  <2>1. PICK y \in T \ {x} : \A z \in T \ {x} : z <= y
    BY <1>4, <1>6
  <2>2. CASE x <= y
    BY <2>1, <2>2
  <2>3. CASE ~(x <= y)
    BY <1>0, <1>3, <2>1, <2>3
  <2> QED BY <2>2, <2>3
<1> QED BY <1>5, <1>6

LEMMA WaitsCases ==
  ASSUME NEW t \in Thread, NEW u \in WaitsFor(t)
  PROVE  \E x \in Var :
           /\ Locking(t, x)
           /\ \/ u = writer[x] /\ u \notin {t, Nil}
              \/ u \in readers[x] /\ writer[x] = t
BY DEF WaitsFor

\* A committing thread has one TVar to lock next.
LEMMA OneNext ==
  ASSUME NEW t \in Thread, NEW x \in Var, NEW y \in Var, Locking(t, x), Locking(t, y)
  PROVE  x = y
BY ConstantsAssumption DEF ConstantsAssumption, Locking, IsNext

\* What a committing thread has read-locked comes before what it locks next,
\* and what it has write-locked or claimed does not come after it.
LEMMA HeldComesFirst ==
  ASSUME TypeInv, LockInv, LockOrder, NEW t \in Thread, NEW x \in Var, NEW y \in Var,
         Locking(t, y)
  PROVE  /\ t \in readers[x] => ~(y <= x)
         /\ writer[x] = t => ~(y <= x) \/ y = x
<1>1. x \in Nat /\ y \in Nat
  BY ConstantsAssumption DEF ConstantsAssumption
<1>2. pc[t] = "commit" /\ y \in todo[t]
  BY DEF Locking, IsNext
<1>3. t \in readers[x] => x \in Locks(t) \ todo[t]
  BY DEF LockInv, ReadersCommit, Locks
<1>4. writer[x] = t => x \in Locks(t)
  BY <1>2 DEF LockInv, WritersWrite, Locks, WriteTags
<1> QED BY <1>1, <1>2, <1>3, <1>4 DEF LockOrder

LEMMA NoCircle ==
  ASSUME TypeInv, LockInv, LockOrder, FewActive,
         NEW S \in SUBSET Thread, S # {}, \A t \in S : WaitsFor(t) \cap S # {}
  PROVE  FALSE
<1> DEFINE X == {x \in Var : \E t \in S : Locking(t, x)}
           f == [t \in S |-> CHOOSE x \in Var : Locking(t, x)]
<1>1. \A t \in S : \E u \in S, x \in Var :
        /\ Locking(t, x)
        /\ \/ u = writer[x] /\ u \notin {t, Nil}
           \/ u \in readers[x] /\ writer[x] = t
  BY WaitsCases
<1>2. IsFiniteSet(S)
  <2>1. S \subseteq {t \in Thread : pc[t] # "idle"}
    BY <1>1 DEF Locking
  <2> QED BY <2>1, FS_Subset DEF FewActive
<1>3. IsFiniteSet(X)
  <2>1. \A t \in S : f[t] \in Var /\ Locking(t, f[t])
    BY <1>1
  <2>2. \A t \in S, x \in Var : Locking(t, x) => f[t] = x
    BY <2>1, OneNext
  <2>3. f \in [S -> X]
    BY <2>1
  <2> HIDE DEF f
  <2>4. f \in Surjection(S, X)
    BY <2>2, <2>3 DEF Surjection
  <2> QED BY <1>2, <2>4, FS_Surjection
<1>4. X # {}
  BY <1>1
<1>5. PICK m \in X : \A x \in X : x <= m
  BY <1>3, <1>4, GreatestVar
\* Whoever reads m locks something greater.
<1>6. \A u \in S : u \notin readers[m]
  <2> SUFFICES ASSUME NEW u \in S, u \in readers[m] PROVE FALSE
    OBVIOUS
  <2>1. PICK y \in Var : Locking(u, y)
    BY <1>1
  <2>2. y <= m
    BY <1>5, <2>1
  <2> QED BY <2>1, <2>2, HeldComesFirst
<1>7. PICK t \in S : Locking(t, m)
  OBVIOUS
<1>8. PICK u \in S : u = writer[m] \/ u \in readers[m]
  BY <1>1, <1>7, OneNext
\* So it is a writer that t waits for, and it waits for the readers of m.
<1>9. writer[m] = u
  BY <1>6, <1>8
<1>10. Locking(u, m)
  <2>1. PICK y \in Var : Locking(u, y)
    BY <1>1
  <2>2. y <= m
    BY <1>5, <2>1
  <2> QED BY <1>9, <2>1, <2>2, HeldComesFirst
<1>11. PICK w \in S, x \in Var :
         /\ Locking(u, x)
         /\ \/ w = writer[x] /\ w \notin {u, Nil}
            \/ w \in readers[x] /\ writer[x] = u
  BY <1>1
<1>12. x = m
  BY <1>10, <1>11, OneNext
<1> QED BY <1>6, <1>9, <1>11, <1>12

\* Any number of threads, each of which waits for another of them, is never
\* all there is: locks are taken in one order, write claims included.
THEOREM CommitsDoNotDeadlock == Spec => []NoDeadlock
<1>1. CommitInv /\ LockOrder /\ FewActive => NoDeadlock
  <2> SUFFICES ASSUME CommitInv, LockOrder, FewActive,
                      NEW S \in (SUBSET Thread) \ {{}}, \A t \in S : WaitsFor(t) \cap S # {}
               PROVE  FALSE
    BY DEF NoDeadlock
  <2>1. TypeInv /\ LockInv /\ S \in SUBSET Thread /\ S # {}
    BY DEF CommitInv
  <2> QED BY <2>1, NoCircle
<1> QED BY <1>1, OrderInvariant, PTL

-----------------------------------------------------------------------------
(* Commits are consistent.  What a thread without alternatives has loaded  *)
(* it still has in its register when it commits, and has validated; and    *)
(* no TVar that has been overwritten has the value back that was loaded.   *)

ObsoleteTags == {"ReadObsolete", "ReadObsoleteWrite"}

Plain(t) == alts[t] = <<>> /\ \A x \in Var : log[t][x].tag \notin ObsoleteTags

LoadsKept(t) ==
  /\ stale[t] \subseteq seen[t]
  /\ Pending(t) => \A x \in seen[t] : log[t][x].orig # Nil
  /\ pc[t] = "write" => seen[t] = {}
  /\ \A x \in stale[t] : log[t][x].orig # value[x]

PlainInv == \A t \in Thread : "or" \notin Ops[t] => Plain(t) /\ LoadsKept(t)

\* What a step of any thread does to the attempt of t: it is over, it stays
\* as it is, it gets past its end, or the closure makes a call.
Restarts(t) == log'[t] = NoLog /\ seen'[t] = {} /\ stale'[t] = {}
Keeps(t) ==
  /\ log'[t] = log[t] /\ seen'[t] = seen[t]
  /\ Pending(t)' => Pending(t)
  /\ pc'[t] = "write" => pc[t] = "write"
Settles(t) ==
  /\ ~Pending(t)' /\ (pc'[t] = "write" => seen'[t] = {})
  /\ \A x \in Var : log'[t][x] \in {log[t][x], Vacant}
  /\ stale'[t] \subseteq seen'[t]
CallsPlainly(t) ==
  \E x \in Var : \E E, F \in SUBSET Arc :
    /\ Calls(t, x, E, F)
    /\ log[t][x].tag \notin ObsoleteTags => log'[t][x].tag \notin ObsoleteTags

LEMMA PlainEntries ==
  ASSUME NEW e, e.tag \notin ObsoleteTags
  PROVE  AfterRead(e) = e /\ \A a : AfterWrite(e, a).tag \notin ObsoleteTags
BY DEF ObsoleteTags, AfterRead, AfterWrite, WriteEntry, ReadWriteEntry, Entry

LEMMA AccessPlain ==
  ASSUME TypeInv, NEW t \in Thread, Access(t)
  PROVE  CallsPlainly(t) \/ Keeps(t)
<1>1. ASSUME NEW x \in Var, EarlyConflict(t, x) PROVE Keeps(t)
  BY <1>1 DEF EarlyConflict, Keeps, Pending
<1>2. CASE \A x \in Var : ~EarlyConflict(t, x)
  <2>1. PICK x \in Var : \E E, F \in SUBSET Arc : Calls(t, x, E, F)
    BY <1>2, AccessCalls
  <2>2. ASSUME NEW y \in Var, log[t][y].tag \notin ObsoleteTags
        PROVE  log'[t][y].tag \notin ObsoleteTags
    <3>1. PICK z \in Var :
            \/ Read(t, z)
            \/ \E v \in Val : Write(t, z, v) \/ Exchange(t, z, v)
            \/ \E f \in Fns : Modify(t, z, f)
      BY <1>2 DEF Access
    <3>2. CASE y # z
      BY <2>2, <3>1, <3>2
         DEF Read, Write, Exchange, Modify, SetEntry, TypeInv, TypeOK, RegisterType
    <3>3. CASE y = z
      <4> DEFINE e == AfterRead(Loaded(t, y))
      <4>1. e.tag \notin ObsoleteTags
        BY <2>2, PlainEntries DEF Loaded, ReadEntry, Entry, ObsoleteTags
      <4> HIDE DEF e
      <4>2. log'[t][y] = e \/ \E a : log'[t][y] \in {AfterWrite(e, a), AfterWrite(log[t][y], a)}
        BY <3>1, <3>3
           DEF Read, Write, Exchange, Modify, SetEntry, TypeInv, TypeOK, RegisterType, e
      <4> QED BY <2>2, <4>1, <4>2, PlainEntries
    <3> QED BY <3>2, <3>3
  <2> QED BY <2>1, <2>2 DEF CallsPlainly
<1> QED BY <1>1, <1>2

LEMMA ResetRestarts ==
  ASSUME TypeInv, NEW t \in Thread, NEW p, Reset(t, p)
  PROVE  /\ Restarts(t) /\ alts'[t] = <<>>
         /\ \A u \in Thread \ {t} : Keeps(u) /\ alts'[u] = alts[u]
BY DEF Reset, Restarts, Keeps, Pending, TypeInv, TypeOK

LEMMA PlainSteps ==
  ASSUME TypeInv, Next, NEW t \in Thread, "or" \notin Ops[t], alts[t] = <<>>,
         stale[t] \subseteq seen[t]
  PROVE  /\ alts'[t] = <<>>
         /\ Restarts(t) \/ Keeps(t) \/ Settles(t) \/ CallsPlainly(t)
<1> PICK u \in Thread :
      \/ Begin(u) \/ Access(u) \/ Or(u) \/ EndOfClosure(u) \/ ControlAbort(u)
      \/ Restart(u) \/ Acquire(u) \/ Commit(u) \/ WaitForChange(u) \/ Atomic(u)
  BY DEF Next
<1> DEFINE Goal == alts'[t] = <<>> /\ (Restarts(t) \/ Keeps(t) \/ Settles(t) \/ CallsPlainly(t))
<1>1. ASSUME NEW p, Reset(u, p) PROVE Goal
  BY <1>1, ResetRestarts
<1>2. CASE Begin(u) \/ EndOfClosure(u) \/ ControlAbort(u) \/ Restart(u)
  <2>1. CASE ClosureOk(u) \/ ClosureRetry(u)
    BY <2>1 DEF ClosureOk, ClosureRetry, Keeps, Pending, TypeInv, TypeOK
  <2> QED BY <1>1, <1>2, <2>1
         DEF Begin, EndOfClosure, ClosureAbort, ClosurePanic, ControlAbort, Leave, Restart
<1>3. CASE Access(u)
  <2>1. /\ \A w \in Thread \ {u} : log'[w] = log[w] /\ seen'[w] = seen[w] /\ pc'[w] = pc[w]
        /\ alts'[t] = <<>>
    BY <1>3 DEF Access, Read, Write, Exchange, Modify, EarlyConflict, Saw, SetEntry,
                TypeInv, TypeOK
  <2> QED BY <1>3, <2>1, AccessPlain DEF Keeps, Pending
<1>4. CASE Or(u)
  <2>1. u # t
    BY <1>4 DEF Or, OrBegin, OrFirstOk, OrFirstRetry, OrSecondDone, Call, Within
  <2>2. log'[t] = log[t] /\ seen' = seen /\ pc'[t] = pc[t] /\ alts'[t] = alts[t]
    BY <1>4, <2>1 DEF Or, OrBegin, OrFirstOk, OrFirstRetry, OrSecondDone, Pop, TypeInv, TypeOK
  <2> QED BY <2>2 DEF Keeps, Pending
<1>5. CASE Acquire(u)
  <2> PICK x \in Var : \/ LockRead(u, x) \/ ClaimWrite(u, x) \/ CommitFail(u, x)
                       \/ CheckOk(u, x) \/ CheckChanged(u, x)
    BY <1>5 DEF Acquire
  <2>1. CASE LockRead(u, x) \/ ClaimWrite(u, x)
    BY <2>1 DEF LockRead, ClaimWrite, Keeps, Pending
  <2>2. CASE CheckOk(u, x)
    <3>1. /\ \A w \in Thread \ {u} : log'[w] = log[w] /\ pc'[w] = pc[w]
          /\ pc'[u] = "register" /\ UNCHANGED <<alts, seen, stale>>
          /\ \A y \in Var : log'[u][y] \in {log[u][y], Vacant}
      BY <2>2 DEF CheckOk, TypeInv, TypeOK, RegisterType
    <3> QED BY <3>1 DEF Keeps, Settles, Pending
  <2> QED BY <1>1, <2>1, <2>2 DEF CommitFail, CheckChanged, EndWait
<1>6. CASE Commit(u)
  <2>1. CASE ReleaseReads(u)
    <3>1. /\ \A w \in Thread \ {u} : seen'[w] = seen[w] /\ pc'[w] = pc[w]
          /\ pc'[u] = "write" /\ UNCHANGED <<alts, log>>
          /\ seen'[u] = {} /\ stale'[u] = {}
      BY <2>1 DEF ReleaseReads, TypeInv, TypeOK
    <3> QED BY <3>1 DEF Keeps, Settles, Pending
  <2>2. CASE BeginWake(u)
    BY <2>2 DEF BeginWake, Keeps, Pending, TypeInv, TypeOK
  <2>3. CASE UNCHANGED <<log, alts, pc, seen>>
    BY <2>3 DEF Keeps, Pending
  <2> QED BY <1>1, <1>6, <2>1, <2>2, <2>3
         DEF Commit, LockWrite, WriteBack, TakeWaiters, SetChanged, Return, Leave
<1>7. CASE WaitForChange(u)
  <2>1. CASE StartWait(u) \/ \E x \in Var : Register(u, x)
    BY <2>1 DEF StartWait, Register, Keeps, Pending, TypeInv, TypeOK
  <2>2. CASE Park(u)
    <3>1. /\ \A w \in Thread \ {u} : log'[w] = log[w] /\ pc'[w] = pc[w]
          /\ pc'[u] = "parked" /\ UNCHANGED <<alts, seen, stale>>
          /\ log'[u] = NoLog
      BY <2>2 DEF Park, TypeInv, TypeOK
    <3> QED BY <3>1 DEF Keeps, Settles, Pending, NoLog
  <2> QED BY <1>1, <1>7, <2>1, <2>2 DEF WaitForChange, Unpark, EndWait
<1>8. CASE Atomic(u)
  BY <1>8 DEF Atomic, ReadAtomic, WriteAtomic, Keeps, Pending
<1> QED BY <1>2, <1>3, <1>4, <1>5, <1>6, <1>7, <1>8

LEMMA StaleSteps ==
  ASSUME TypeInv, Next, NEW t \in Thread
  PROVE  \/ stale'[t] \in {stale[t], {}} /\ value' = value
         \/ \E u \in Thread, x \in Var : \E a \in Arc : Stores(u, x, a)
<1> PICK u \in Thread :
      \/ Begin(u) \/ Access(u) \/ Or(u) \/ EndOfClosure(u) \/ ControlAbort(u)
      \/ Restart(u) \/ Acquire(u) \/ Commit(u) \/ WaitForChange(u) \/ Atomic(u)
  BY DEF Next
<1>1. ASSUME NEW p, Reset(u, p) PROVE stale'[t] \in {stale[t], {}}
  BY <1>1 DEF Reset, TypeInv, TypeOK
<1>2. CASE Begin(u) \/ EndOfClosure(u) \/ ControlAbort(u) \/ Restart(u)
  BY <1>1, <1>2 DEF Begin, EndOfClosure, ClosureOk, ClosureRetry, ClosureAbort, ClosurePanic,
                    ControlAbort, Leave, Restart
<1>3. CASE Access(u) \/ Or(u)
  BY <1>3 DEF Access, Read, Write, Exchange, Modify, EarlyConflict, Saw,
              Or, OrBegin, OrFirstOk, OrFirstRetry, OrSecondDone
<1>4. CASE Acquire(u)
  BY <1>1, <1>4 DEF Acquire, LockRead, ClaimWrite, CommitFail, CheckOk, CheckChanged, EndWait
<1>5. CASE Commit(u)
  <2>1. CASE ReleaseReads(u)
    BY <2>1 DEF ReleaseReads, TypeInv, TypeOK
  <2> QED BY <1>1, <1>5, <2>1, WriteBackStores
         DEF Commit, LockWrite, TakeWaiters, BeginWake, SetChanged, Return, Leave, Stores
<1>6. CASE WaitForChange(u)
  BY <1>1, <1>6 DEF WaitForChange, StartWait, Register, Park, Unpark, EndWait
<1>7. CASE Atomic(u)
  BY <1>7 DEF Atomic, ReadAtomic, WriteAtomic, NewArc, Stores
<1> QED BY <1>2, <1>3, <1>4, <1>5, <1>6, <1>7

LEMMA StepPlain ==
  TypeInv /\ HeapInv /\ PlainInv /\ [Next]_vars => PlainInv'
<1> SUFFICES ASSUME TypeInv, HeapInv, PlainInv, Next PROVE PlainInv'
  BY DEF vars, PlainInv, Plain, LoadsKept, Pending
<1> SUFFICES ASSUME NEW t \in Thread, "or" \notin Ops[t] PROVE Plain(t)' /\ LoadsKept(t)'
  BY DEF PlainInv
<1>1. Plain(t) /\ LoadsKept(t)
  BY DEF PlainInv
<1>2. alts'[t] = <<>> /\ (Restarts(t) \/ Keeps(t) \/ Settles(t) \/ CallsPlainly(t))
  BY <1>1, PlainSteps DEF Plain, LoadsKept
<1>3. value' \in [Var -> Arc]
  BY StepType DEF TypeInv, TypeOK
<1>4. ASSUME NEW u \in Thread, NEW x \in Var, NEW a \in Arc, Stores(u, x, a)
      PROVE  Plain(t)' /\ LoadsKept(t)'
  <2>1. /\ value'[x] = a /\ \A y \in Var \ {x} : value'[y] = value[y]
        /\ stale'[t] = stale[t] \cup ({x} \cap seen[t])
        /\ UNCHANGED <<log, alts, pc, seen>>
    BY <1>4 DEF Stores, Store, TypeInv, TypeOK
  <2>2. log[t][x].orig # a
    BY <1>4, StoredIsNew, OrigsCases DEF HeapInv
  <2>3. stale[t] \subseteq Var
    BY DEF TypeInv, TypeOK
  <2> QED BY <1>1, <2>1, <2>2, <2>3 DEF Plain, LoadsKept, Pending
<1>5. CASE stale'[t] \in {stale[t], {}} /\ value' = value
  <2>1. CASE Restarts(t)
    BY <1>2, <2>1 DEF Restarts, Plain, LoadsKept, NoLog, Vacant, Entry, ObsoleteTags
  <2>2. CASE Keeps(t)
    BY <1>1, <1>2, <1>5, <2>2 DEF Keeps, Plain, LoadsKept
  <2>3. CASE Settles(t)
    <3>1. Vacant.orig = Nil /\ Vacant.tag \notin ObsoleteTags
      BY DEF Vacant, Entry, ObsoleteTags
    <3>2. stale[t] \subseteq Var
      BY DEF TypeInv, TypeOK
    <3> QED BY <1>1, <1>2, <1>3, <1>5, <2>3, <3>1, <3>2, NilFacts DEF Settles, Plain, LoadsKept
  <2>4. CASE CallsPlainly(t)
    <3>1. PICK x \in Var, E \in SUBSET Arc, F \in SUBSET Arc :
            /\ Calls(t, x, E, F)
            /\ log[t][x].tag \notin ObsoleteTags => log'[t][x].tag \notin ObsoleteTags
      BY <2>4 DEF CallsPlainly
    <3>2. Plain(t)'
      BY <1>1, <1>2, <3>1 DEF Plain, Calls
    <3>3. /\ Pending(t) /\ pc' = pc /\ stale' = stale
          /\ seen'[t] = IF E = {} THEN seen[t] ELSE seen[t] \cup {x}
          /\ stale[t] \subseteq Var /\ seen[t] \subseteq Var
      BY <3>1 DEF Calls, Pending, TypeInv, TypeOK
    <3>4. ASSUME NEW y \in seen'[t] PROVE log'[t][y].orig # Nil
      <4>1. CASE y = x /\ E # {}
        <5>1. log'[t][x] \in LogVar /\ log'[t][x].tag # "Write"
          BY <3>1, <4>1 DEF Calls
        <5> QED BY <4>1, <5>1, NilFacts DEF LogVar
      <4>2. CASE y # x \/ E = {}
        <5>1. y \in seen[t] /\ y \in Var
          BY <3>3, <4>2
        <5>2. log'[t][y].orig = log[t][y].orig
          BY <3>1, <4>2, <5>1 DEF Calls
        <5> QED BY <1>1, <3>3, <5>1, <5>2 DEF LoadsKept
      <4> QED BY <4>1, <4>2
    <3>5. ASSUME NEW y \in stale[t] PROVE log'[t][y].orig = log[t][y].orig
      <4>1. y \in seen[t] /\ log[t][y].orig # Nil
        BY <1>1, <3>3 DEF LoadsKept
      <4>2. CASE y = x
        <5>1. E = {}
          BY <3>1, <4>1, <4>2 DEF Calls, Vacant, Entry
        <5> QED BY <3>1, <4>2, <5>1 DEF Calls
      <4>3. CASE y # x
        BY <3>1, <3>3, <4>3 DEF Calls
      <4> QED BY <4>2, <4>3
    <3>6. pc[t] # "write"
      BY <3>1 DEF Calls
    <3> QED BY <1>1, <1>5, <3>2, <3>3, <3>4, <3>5, <3>6 DEF LoadsKept
  <2> QED BY <1>2, <2>1, <2>2, <2>3, <2>4
<1> QED BY <1>4, <1>5, StaleSteps

LEMMA PlainInvariant == Spec => [](CommitInv /\ PlainInv)
<1>1. Init => PlainInv
  BY DEF Init, PlainInv, Plain, LoadsKept, Pending, NoLog, Vacant, Entry, ObsoleteTags
<1>2. CommitInv /\ PlainInv /\ [Next]_vars => PlainInv'
  BY StepPlain DEF CommitInv
<1> QED BY <1>1, <1>2, CommitInvariant, PTL DEF Spec

\* No thread uses Transaction::or.
NoAlternatives == \A t \in Thread : "or" \notin Ops[t]

\* When a transaction takes effect, no TVar it has loaded has been
\* overwritten since: commit compares each of them under its lock, and no
\* store brings back an Arc that has been loaded.
THEOREM CommitsAreConsistent ==
  ASSUME NoAlternatives
  PROVE  Spec => []ConsistentCommit
<1>1. CommitInv /\ PlainInv => ConsistentCommit
  <2> SUFFICES ASSUME CommitInv, PlainInv,
                      NEW t \in Thread, pc[t] = "commit", todo[t] = {},
                      NEW x \in stale[t]
               PROVE  FALSE
    BY DEF ConsistentCommit
  <2>1. /\ x \in Var /\ log[t][x].orig # Nil /\ log[t][x].orig # value[x]
        /\ log[t][x].tag \notin ObsoleteTags
    BY DEF NoAlternatives, CommitInv, TypeInv, TypeOK, PlainInv, Plain, LoadsKept, Pending
  <2>2. log[t][x] \in LogVar \cup {Vacant}
    BY <2>1 DEF CommitInv, TypeInv, TypeOK, RegisterType
  <2>3. log[t][x].tag \in CheckedTags
    BY <2>1, <2>2, LogVarCases DEF OrigTags, ObsoleteTags, CheckedTags
  <2> QED BY <2>1, <2>3 DEF CommitInv, Validated
<1> QED BY <1>1, PlainInvariant, PTL

-----------------------------------------------------------------------------
(* Who takes a step, and what it leaves alone.                             *)

ThreadStep(t) ==
  \/ Begin(t) \/ Access(t) \/ Or(t) \/ EndOfClosure(t) \/ ControlAbort(t)
  \/ Restart(t) \/ Acquire(t) \/ Commit(t) \/ WaitForChange(t) \/ Atomic(t)

\* Threads only change their own part of the state.
LEMMA OthersOwn ==
  ASSUME TypeInv, NEW u \in Thread, NEW t \in Thread \ {u}, ThreadStep(u)
  PROVE  /\ log'[t] = log[t] /\ alts'[t] = alts[t] /\ seen'[t] = seen[t]
         /\ pc'[t] = pc[t] /\ todo'[t] = todo[t]
<1> USE DEF ThreadStep, TypeInv, TypeOK
<1>1. CASE Begin(u) \/ EndOfClosure(u) \/ ControlAbort(u) \/ Restart(u)
  BY <1>1 DEF Begin, EndOfClosure, ClosureOk, ClosureRetry, ClosureAbort, ClosurePanic,
              ControlAbort, Leave, Restart, Reset
<1>2. CASE Access(u)
  BY <1>2 DEF Access, Read, Write, Exchange, Modify, EarlyConflict, Saw, SetEntry
<1>3. CASE Or(u)
  BY <1>3 DEF Or, OrBegin, OrFirstOk, OrFirstRetry, OrSecondDone, Pop
<1>4. CASE Acquire(u)
  BY <1>4 DEF Acquire, LockRead, ClaimWrite, CommitFail, CheckOk, CheckChanged, EndWait, Reset,
              Locked
<1>5. CASE Commit(u)
  BY <1>5 DEF Commit, LockWrite, WriteBack, TakeWaiters, ReleaseReads, BeginWake, SetChanged,
              Return, Leave, Reset, Locked
<1>6. CASE WaitForChange(u)
  BY <1>6 DEF WaitForChange, StartWait, Register, Park, Unpark, EndWait, Reset
<1>7. CASE Atomic(u)
  BY <1>7 DEF Atomic, ReadAtomic, WriteAtomic
<1> QED BY <1>1, <1>2, <1>3, <1>4, <1>5, <1>6, <1>7

\* What a thread can do in each place.
LEMMA Places ==
  ASSUME NEW t \in Thread, ThreadStep(t)
  PROVE  \/ pc[t] = "idle" /\ (Begin(t) \/ Atomic(t))
         \/ pc[t] = "closure" /\ (Access(t) \/ Or(t) \/ EndOfClosure(t))
         \/ pc[t] = "retry" /\ Or(t)
         \/ pc[t] \in {"retry", "failed"} /\ (ControlAbort(t) \/ Restart(t) \/ StartWait(t))
         \/ pc[t] = "commit" /\ \E x \in Var : \/ LockRead(t, x) \/ ClaimWrite(t, x)
                                               \/ CommitFail(t, x) \/ LockWrite(t, x)
         \/ pc[t] = "commit" /\ ReleaseReads(t)
         \/ pc[t] = "write" /\ (BeginWake(t) \/ \E x \in Var : WriteBack(t, x))
         \/ pc[t] = "wake" /\ \E x \in Var : TakeWaiters(t, x)
         \/ pc[t] \in {"write", "wake"} /\ Return(t)
         \/ \E u \in Thread : SetChanged(t, u)
         \/ pc[t] = "register" /\ (Park(t) \/ \E x \in Var : Register(t, x))
         \/ pc[t] = "check" /\ \E x \in Var : CheckOk(t, x) \/ CheckChanged(t, x)
         \/ pc[t] = "parked" /\ Unpark(t)
<1>1. CASE Begin(t) \/ Atomic(t)
  BY <1>1 DEF Begin, Atomic, ReadAtomic, WriteAtomic
<1>2. CASE Access(t)
  BY <1>2 DEF Access, Read, Write, Exchange, Modify, EarlyConflict, Call
<1>3. CASE Or(t)
  BY <1>3 DEF Or, OrBegin, OrFirstOk, OrFirstRetry, OrSecondDone, Call
<1>4. CASE EndOfClosure(t)
  BY <1>4 DEF EndOfClosure, ClosureOk, ClosureRetry, ClosureAbort, ClosurePanic
<1>5. CASE ControlAbort(t) \/ Restart(t)
  BY <1>5 DEF ControlAbort, Restart
<1>6. CASE Acquire(t)
  BY <1>6 DEF Acquire, LockRead, ClaimWrite, CommitFail, Locking, CheckOk, CheckChanged
<1>7. CASE Commit(t)
  BY <1>7 DEF Commit, LockWrite, Locking, WriteBack, TakeWaiters, ReleaseReads, BeginWake, Return
<1>8. CASE WaitForChange(t)
  BY <1>8 DEF WaitForChange, StartWait, Register, Park, Unpark
<1> QED BY <1>1, <1>2, <1>3, <1>4, <1>5, <1>6, <1>7, <1>8 DEF ThreadStep

\* How a thread gets to, and on, in wait_for_change.
LEMMA Arrives ==
  ASSUME TypeInv, NEW t \in Thread, ThreadStep(t), pc'[t] \in {"register", "check", "parked"}
  PROVE  \/ StartWait(t) \/ Park(t)
         \/ \E x \in Var : Register(t, x) \/ CheckOk(t, x)
         \/ \E u \in Thread : SetChanged(t, u)
<1> USE DEF TypeInv, TypeOK
<1>1. ~Begin(t) /\ ~ControlAbort(t) /\ ~Restart(t) /\ ~Return(t) /\ ~Unpark(t)
  BY DEF Begin, ControlAbort, Restart, Return, Unpark, EndWait, Leave, Reset
<1>2. ~Or(t) /\ ~EndOfClosure(t) /\ (pc[t] = "closure" => ~Access(t))
  BY DEF Or, OrBegin, OrFirstOk, OrFirstRetry, OrSecondDone, Call, EndOfClosure, ClosureOk,
         ClosureRetry, ClosureAbort, ClosurePanic, Leave, Reset,
         Access, Read, Write, Exchange, Modify, EarlyConflict
<1>3. ~ReleaseReads(t) /\ ~BeginWake(t) /\ (pc[t] = "idle" => ~Atomic(t))
  BY DEF ReleaseReads, BeginWake, Atomic, ReadAtomic, WriteAtomic
<1>4. \A x \in Var : /\ ~LockRead(t, x) /\ ~ClaimWrite(t, x) /\ ~CommitFail(t, x)
                     /\ ~LockWrite(t, x) /\ ~CheckChanged(t, x)
  BY DEF LockRead, ClaimWrite, CommitFail, LockWrite, Locking, CheckChanged, EndWait, Reset
<1>5. \A x \in Var : ~WriteBack(t, x) /\ ~TakeWaiters(t, x)
  BY DEF WriteBack, TakeWaiters
<1> QED BY <1>1, <1>2, <1>3, <1>4, <1>5, Places

-----------------------------------------------------------------------------
(* Waiting unless something has changed.                                   *)

\* What a thread compares after it has registered is an Arc it has loaded.
ComparesLoaded ==
  \A t \in Thread : pc[t] = "check" => \A x \in todo[t] : log[t][x].orig \in Arc

LEMMA StepComparesLoaded ==
  TypeInv /\ ComparesLoaded /\ [Next]_vars => ComparesLoaded'
<1> SUFFICES ASSUME TypeInv, ComparesLoaded, [Next]_vars, NEW t \in Thread, pc'[t] = "check",
                    NEW x \in todo'[t]
             PROVE  log'[t][x].orig \in Arc
  BY DEF ComparesLoaded
<1>1. CASE UNCHANGED vars
  BY <1>1 DEF vars, ComparesLoaded
<1>2. ASSUME NEW u \in Thread \ {t}, ThreadStep(u) PROVE log'[t][x].orig \in Arc
  <2>1. log'[t] = log[t] /\ pc'[t] = pc[t] /\ todo'[t] = todo[t]
    BY <1>2, OthersOwn
  <2> QED BY <2>1 DEF ComparesLoaded
<1>3. CASE ThreadStep(t)
  <2>1. ASSUME NEW y \in Var, Register(t, y) PROVE log'[t][x].orig \in Arc
    <3>1. x = y /\ log' = log /\ IntoReadValue(log[t][x]) # Nil
      BY <2>1 DEF Register, Unregistered, TypeInv, TypeOK
    <3>2. log[t][x] \in LogVar \cup {Vacant}
      BY <2>1, <3>1 DEF TypeInv, TypeOK, RegisterType
    <3> QED BY <3>1, <3>2, LogVarCases DEF IntoReadValue
  <2>2. ASSUME NEW u \in Thread, SetChanged(t, u) PROVE log'[t][x].orig \in Arc
    BY <2>2 DEF SetChanged, ComparesLoaded
  <2>3. ~StartWait(t) /\ ~Park(t) /\ \A y \in Var : ~CheckOk(t, y)
    BY DEF StartWait, Park, CheckOk, TypeInv, TypeOK
  <2> QED BY <1>3, <2>1, <2>2, <2>3, Arrives
<1> QED BY <1>1, <1>2, <1>3 DEF Next, ThreadStep

\* A thread goes back from wait_for_change without having slept only if a TVar
\* it had loaded has been overwritten, in any build and with any use of or:
\* what abandoned alternatives were going to write is never compared.
THEOREM WaitsEndForChange == Spec => WaitsUnlessChanged
<1> DEFINE GivesUp(t) == pc[t] = "check" /\ pc'[t] = "closure"
<1>1. Init => ComparesLoaded
  BY DEF Init, ComparesLoaded
<1>2. TypeInv /\ PointerIdentity /\ HeapInv /\ ComparesLoaded /\ [Next]_vars
        => [\A t \in Thread : GivesUp(t) => stale[t] # {}]_vars
  <2> SUFFICES ASSUME TypeInv, HeapInv, ComparesLoaded, Next, NEW t \in Thread, GivesUp(t)
               PROVE  stale[t] # {}
    OBVIOUS
  <2>1. PICK u \in Thread : ThreadStep(u)
    BY DEF Next, ThreadStep
  <2>2. u = t
    BY <2>1, OthersOwn
  <2>3. \A w \in Thread : ~SetChanged(t, w)
    BY DEF SetChanged
  <2>4. \A y \in Var : ~CheckOk(t, y)
    BY DEF CheckOk, TypeInv, TypeOK
  <2>5. PICK x \in Var : CheckChanged(t, x)
    BY <2>1, <2>2, <2>3, <2>4, Places
  <2>6. log[t][x].orig \in Arc \ {value[x]}
    BY <2>5 DEF CheckChanged, Current, PtrEq, ComparesLoaded
  <2>7. log[t][x].orig \in OrigsOf(t, x) \ {Nil}
    BY <2>6, OrigsCases, NilFacts
  <2> QED BY <2>6, <2>7 DEF HeapInv, Loads
<1> QED BY <1>1, <1>2, StepComparesLoaded, HeapInvariant, PTL DEF Spec, WaitsUnlessChanged
=============================================================================
