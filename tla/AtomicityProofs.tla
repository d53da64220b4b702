-------------------------- MODULE AtomicityProofs --------------------------
(***************************************************************************)
(* The STM runtime implements AtomicMemory: a transaction is one step, the *)
(* one in which its commit, with all locks held, releases the read locks.  *)
(***************************************************************************)
EXTENDS CommitProofs

USE DEF lockVars, tvarVars, wakeVars, histVars

-----------------------------------------------------------------------------
(* What a step of t leaves of the abstract state.                          *)

OthersStay(t) ==
  \A u \in Thread \ {t} : log'[u] = log[u] /\ alts'[u] = alts[u] /\ pc'[u] = pc[u]

LEMMA StepsStay ==
  ASSUME TypeInv, NEW t \in Thread, ThreadStep(t)
  PROVE  OthersStay(t)
BY OthersOwn DEF OthersStay

\* The abstract state of one thread.
StatusOf(t) ==
  CASE pc[t] = "idle"               -> "idle"
    [] pc[t] = "commit"             -> "ready"
    [] pc[t] \in {"write", "wake"}  -> "committed"
    [] OTHER                        -> "active"
ObsNow(t) == IF Pending(t) THEN ObsOf(log[t]) ELSE NoView
OwnNow(t) == IF Pending(t) THEN OwnOf(log[t]) ELSE NoView
SavedOf(t) == [i \in DOMAIN alts[t] |-> FrameOf(alts[t][i])]

LEMMA AbstractState ==
  ASSUME NEW t \in Thread
  PROVE  /\ Status[t] = StatusOf(t) /\ Obs[t] = ObsNow(t)
         /\ Own[t] = OwnNow(t) /\ Saved[t] = SavedOf(t)
BY DEF Status, Obs, Own, Saved, StatusOf, ObsNow, OwnNow, SavedOf

\* Of the abstract state a step of t changes what is t's, and the memory.
LEMMA OnlyMine ==
  ASSUME NEW t \in Thread, OthersStay(t)
  PROVE  /\ Status' = [Status EXCEPT ![t] = StatusOf(t)']
         /\ Obs' = [Obs EXCEPT ![t] = ObsNow(t)']
         /\ Own' = [Own EXCEPT ![t] = OwnNow(t)']
         /\ Saved' = [Saved EXCEPT ![t] = SavedOf(t)']
<1>1. ASSUME NEW u \in Thread \ {t}
      PROVE  /\ StatusOf(u)' = StatusOf(u) /\ ObsNow(u)' = ObsNow(u)
             /\ OwnNow(u)' = OwnNow(u) /\ SavedOf(u)' = SavedOf(u)
  BY DEF OthersStay, StatusOf, ObsNow, OwnNow, SavedOf, Pending
<1>2. /\ Status = [u \in Thread |-> StatusOf(u)] /\ Obs = [u \in Thread |-> ObsNow(u)]
      /\ Own = [u \in Thread |-> OwnNow(u)] /\ Saved = [u \in Thread |-> SavedOf(u)]
  BY DEF Status, Obs, Own, Saved, StatusOf, ObsNow, OwnNow, SavedOf
<1>3. /\ Status' = [u \in Thread |-> StatusOf(u)'] /\ Obs' = [u \in Thread |-> ObsNow(u)']
      /\ Own' = [u \in Thread |-> OwnNow(u)'] /\ Saved' = [u \in Thread |-> SavedOf(u)']
  BY DEF Status, Obs, Own, Saved, StatusOf, ObsNow, OwnNow, SavedOf
<1> QED BY <1>1, <1>2, <1>3

\* The memory stays as it is where nothing is stored and t is not past its
\* linearization point, whatever locks it takes and drops.
LEMMA MemKeeps ==
  ASSUME TypeInv, NEW t \in Thread, OthersStay(t), value' = value,
         pc[t] # "write", pc'[t] # "write",
         \A x \in Var : \/ writer'[x] = writer[x]
                        \/ {writer[x], writer'[x]} \subseteq {Nil, t}
  PROVE  Mem' = Mem
<1>1. ASSUME NEW x \in Var
      PROVE  /\ Committing(x)' = Committing(x)
             /\ Committing(x) => log'[writer'[x]][x] = log[writer[x]][x]
  <2>1. CASE writer[x] \in {Nil, t}
    <3>1. writer'[x] \in {Nil, t}
      BY <2>1
    <3> QED BY <2>1, <3>1 DEF Committing
  <2>2. CASE writer[x] \notin {Nil, t}
    <3>1. writer'[x] = writer[x] /\ writer[x] \in Thread \ {t}
      BY <2>2 DEF TypeInv, TypeOK
    <3> QED BY <3>1 DEF Committing, OthersStay
  <2> QED BY <2>1, <2>2
<1> QED BY <1>1 DEF Mem

\* No alternative is pending.
LEMMA EmptySaved ==
  ASSUME NEW t \in Thread, alts[t] = <<>>
  PROVE  SavedOf(t) = <<>>
BY DEF SavedOf

\* A view that is not needed any more, or of an empty register, is empty.
LEMMA Clears ==
  ASSUME NEW t \in Thread, OthersStay(t),
         ~Pending(t)' \/ log'[t] = NoLog, alts'[t] = <<>>, ret' = [ret EXCEPT ![t] = Nil],
         NEW s, StatusOf(t)' = s
  PROVE  AM!Clear(t, s)
<1>1. ObsNow(t)' = NoView /\ OwnNow(t)' = NoView
  <2>1. ObsOf(NoLog) = NoView /\ OwnOf(NoLog) = NoView
    BY DEF ObsOf, OwnOf, View, NoLog, NoView, Vacant, Entry, CheckedTags, WriteTags
  <2>2. CASE ~Pending(t)'
    BY <2>2 DEF ObsNow, OwnNow, NoView
  <2>3. CASE log'[t] = NoLog
    BY <2>1, <2>3 DEF ObsNow, OwnNow, NoView, NoLog, ObsOf, OwnOf
  <2> QED BY <2>2, <2>3
<1>2. SavedOf(t)' = <<>>
  BY DEF SavedOf
<1>3. NoView' = NoView /\ NoView = AM!NoView
  BY DEF NoView, AM!NoView
<1> QED BY <1>1, <1>2, <1>3, OnlyMine DEF AM!Clear

\* The closure is started, or the transaction dropped.
LEMMA ResetClears ==
  ASSUME TypeInv, NEW t \in Thread, OthersStay(t), NEW p \in {"idle", "closure"}, Reset(t, p)
  PROVE  /\ AM!Clear(t, IF p = "idle" THEN "idle" ELSE "active")
         /\ pc'[t] = p
<1>1. /\ pc'[t] = p /\ log'[t] = NoLog /\ alts'[t] = <<>>
      /\ ret' = [ret EXCEPT ![t] = Nil]
  BY DEF Reset, TypeInv, TypeOK
<1>2. StatusOf(t)' = IF p = "idle" THEN "idle" ELSE "active"
  BY <1>1 DEF StatusOf
<1> QED BY <1>1, <1>2, Clears

\* Nothing an observer of transactions can see.
LEMMA Unseen ==
  ASSUME NEW t \in Thread, OthersStay(t), Mem' = Mem, ret' = ret,
         StatusOf(t)' = StatusOf(t), ObsNow(t)' = ObsNow(t), OwnNow(t)' = OwnNow(t),
         SavedOf(t)' = SavedOf(t)
  PROVE  UNCHANGED AM!vars
<1>1. /\ \A u \in Thread : /\ Status[u] = StatusOf(u) /\ Obs[u] = ObsNow(u)
                           /\ Own[u] = OwnNow(u) /\ Saved[u] = SavedOf(u)
      /\ DOMAIN Status = Thread /\ DOMAIN Obs = Thread /\ DOMAIN Own = Thread
      /\ DOMAIN Saved = Thread
  BY AbstractState DEF Status, Obs, Own, Saved
<1>2. /\ [Status EXCEPT ![t] = Status[t]] = Status /\ [Obs EXCEPT ![t] = Obs[t]] = Obs
      /\ [Own EXCEPT ![t] = Own[t]] = Own /\ [Saved EXCEPT ![t] = Saved[t]] = Saved
  BY DEF Status, Obs, Own, Saved
<1> QED BY <1>1, <1>2, OnlyMine DEF AM!vars

LEMMA EntryPointsAtomic ==
  ASSUME TypeInv, NEW t \in Thread, ThreadStep(t),
         Begin(t) \/ EndOfClosure(t) \/ ControlAbort(t) \/ Restart(t)
  PROVE  AM!Next \/ UNCHANGED AM!vars
<1>0. OthersStay(t)
  BY StepsStay
<1>1. Status[t] = StatusOf(t) /\ Saved[t] = SavedOf(t)
  BY AbstractState
<1>2. /\ pc[t] \in {"idle", "closure", "retry", "failed"} /\ pc'[t] # "write"
      /\ value' = value /\ writer' = writer
  BY DEF Begin, EndOfClosure, ClosureOk, ClosureRetry, ClosureAbort, ClosurePanic, ControlAbort,
         Leave, Restart, Reset, TypeInv, TypeOK
<1>3. Mem' = Mem
  BY <1>0, <1>2, MemKeeps
<1>4. CASE Begin(t)
  <2>1. AM!Begin(t)
    BY <1>0, <1>1, <1>3, <1>4, ResetClears DEF Begin, AM!Begin, StatusOf
  <2> QED BY <2>1 DEF AM!Next
<1>5. CASE ClosureAbort(t) \/ ClosurePanic(t) \/ ControlAbort(t)
  <2>1. pc[t] \in {"closure", "retry", "failed"} /\ Leave(t)
    BY <1>5 DEF ClosureAbort, ClosurePanic, ControlAbort
  <2>2. AM!End(t)
    BY <1>0, <1>1, <1>3, <2>1, ResetClears DEF Leave, AM!End, StatusOf
  <2> QED BY <2>2 DEF AM!Next
<1>6. CASE Restart(t)
  <2>1. AM!Rerun(t)
    BY <1>0, <1>1, <1>3, <1>6, ResetClears DEF Restart, AM!Rerun, StatusOf
  <2> QED BY <2>1 DEF AM!Next
<1>7. CASE ClosureRetry(t)
  <2>1. /\ pc[t] = "closure" /\ pc'[t] = "retry"
        /\ UNCHANGED <<log, alts, ret>>
    BY <1>7 DEF ClosureRetry, TypeInv, TypeOK
  <2>2. /\ StatusOf(t)' = StatusOf(t) /\ ObsNow(t)' = ObsNow(t) /\ OwnNow(t)' = OwnNow(t)
        /\ SavedOf(t)' = SavedOf(t)
    BY <2>1 DEF StatusOf, ObsNow, OwnNow, SavedOf, Pending
  <2> QED BY <1>0, <1>3, <2>1, <2>2, Unseen
<1>8. CASE ClosureOk(t)
  <2>1. /\ pc[t] = "closure" /\ pc'[t] = "commit" /\ alts[t] = <<>>
        /\ UNCHANGED <<log, alts>> /\ ret' = [ret EXCEPT ![t] = Nil]
    BY <1>8 DEF ClosureOk, TypeInv, TypeOK
  <2>2. /\ StatusOf(t) = "active" /\ StatusOf(t)' = "ready"
        /\ ObsNow(t)' = Obs[t] /\ OwnNow(t)' = Own[t]
        /\ SavedOf(t)' = Saved[t] /\ Saved[t] = <<>>
    BY <2>1, EmptySaved, AbstractState DEF StatusOf, ObsNow, OwnNow, SavedOf, Pending
  <2>3. Obs' = Obs /\ Own' = Own /\ Saved' = Saved
    BY <1>0, <2>2, OnlyMine DEF Obs, Own, Saved
  <2>4. AM!Done(t)
    BY <1>0, <1>1, <1>3, <2>1, <2>2, <2>3, OnlyMine DEF AM!Done
  <2> QED BY <2>4 DEF AM!Next
<1> QED BY <1>4, <1>5, <1>6, <1>7, <1>8 DEF EndOfClosure

-----------------------------------------------------------------------------
(* The calls of the closure.                                               *)

\* What reading does to the view of one TVar.
LEMMA ReadView ==
  ASSUME NEW e \in LogVar \cup {Vacant}, NEW a \in Arc,
         NEW f, f = IF e = Vacant THEN ReadEntry(a) ELSE e
  PROVE  /\ f \in LogVar /\ AfterRead(f) \in LogVar /\ ReadResult(f).val \in Val
         /\ View(AfterRead(f)).own = View(e).own
         /\ View(e).own # Nil =>
              /\ ReadResult(f).val = View(e).own
              /\ \/ View(AfterRead(f)).obs = View(e).obs
                 \/ View(e).obs = Nil /\ View(AfterRead(f)).obs \in Val
         /\ View(e).own = Nil =>
              /\ View(e).obs # Nil => ReadResult(f).val = View(e).obs
              /\ View(AfterRead(f)).obs = ReadResult(f).val
<1>1. CASE e = Vacant
  BY <1>1, NilFacts
     DEF Arc, LogVar, View, Vacant, Entry, ReadEntry, AfterRead, ReadResult, CheckedTags, WriteTags
<1>2. CASE e \in LogVar
  <2>1. f = e
    BY <1>2 DEF LogVar, Vacant, Entry
  <2> QED BY <1>2, <2>1, NilFacts
          DEF Arc, LogVar, View, Entry, ReadEntry, ReadWriteEntry, AfterRead, ReadResult,
              CheckedTags, WriteTags
<1> QED BY <1>1, <1>2

\* What writing does.
LEMMA WriteView ==
  ASSUME NEW e \in LogVar \cup {Vacant}, NEW a \in Arc
  PROVE  View(AfterWrite(e, a)).own = a.val /\ View(AfterWrite(e, a)).obs = View(e).obs
BY DEF LogVar, View, Vacant, Entry, AfterWrite, WriteEntry, ReadWriteEntry,
       ReadObsoleteWriteEntry, CheckedTags, WriteTags

LEMMA EntryMaps ==
  ASSUME TypeInv, NEW t \in Thread, NEW x \in Var, NEW e, OthersStay(t), pc[t] = "closure",
         SetEntry(t, x, e), UNCHANGED <<pc, alts, value, writer>>
  PROVE  /\ Status[t] = "active" /\ Mem' = Mem /\ Status' = Status /\ Saved' = Saved
         /\ Obs[t][x] = View(log[t][x]).obs /\ Own[t][x] = View(log[t][x]).own
         /\ Obs' = [Obs EXCEPT ![t][x] = View(e).obs]
         /\ Own' = [Own EXCEPT ![t][x] = View(e).own]
<1>1. Mem' = Mem
  BY MemKeeps
<1>2. Status' = Status /\ Saved' = Saved
  BY DEF Status, Saved
<1>3. Status[t] = "active"
  BY DEF Status
<1>4. Pending(t) /\ Pending(t)'
  BY DEF Pending
<1>5. Obs[t][x] = View(log[t][x]).obs /\ Own[t][x] = View(log[t][x]).own
  BY <1>4 DEF Obs, Own, ObsOf, OwnOf
<1>6. log'[t] = [log[t] EXCEPT ![x] = e] /\ log[t] \in RegisterType
  BY DEF SetEntry, TypeInv, TypeOK
<1>7. /\ ObsOf(log[t])' = [ObsOf(log[t]) EXCEPT ![x] = View(e).obs]
      /\ OwnOf(log[t])' = [OwnOf(log[t]) EXCEPT ![x] = View(e).own]
  <2>1. \A y \in Var : log'[t][y] = IF y = x THEN e ELSE log[t][y]
    BY <1>6 DEF RegisterType
  <2> QED BY <2>1 DEF ObsOf, OwnOf
<1>8. /\ ObsNow(t)' = [Obs[t] EXCEPT ![x] = View(e).obs]
      /\ OwnNow(t)' = [Own[t] EXCEPT ![x] = View(e).own]
  BY <1>4, <1>7 DEF ObsNow, OwnNow, Obs, Own
<1> QED BY <1>1, <1>2, <1>3, <1>5, <1>8, OnlyMine

LEMMA SameEntry ==
  ASSUME NEW t \in Thread, NEW x \in Var
  PROVE  [Obs EXCEPT ![t][x] = Obs[t][x]] = Obs /\ [Own EXCEPT ![t][x] = Own[t][x]] = Own
BY DEF Obs, Own, ObsOf, OwnOf, NoView

LEMMA AccessAtomic ==
  ASSUME TypeInv, NEW t \in Thread, ThreadStep(t), Access(t)
  PROVE  AM!Next
<1>0. OthersStay(t)
  BY StepsStay
<1> PICK x \in Var :
      \/ Read(t, x) \/ EarlyConflict(t, x)
      \/ \E v \in Val : Write(t, x, v) \/ Exchange(t, x, v)
      \/ \E f \in Fns : Modify(t, x, f)
  BY DEF Access
<1>1. /\ log[t][x] \in LogVar \cup {Vacant} /\ value[x] \in Arc
      /\ [Obs EXCEPT ![t][x] = Obs[t][x]] = Obs /\ [Own EXCEPT ![t][x] = Own[t][x]] = Own
  BY SameEntry DEF TypeInv, TypeOK, RegisterType
<1> DEFINE entry == Loaded(t, x)
           after == AfterRead(entry)
           r == ReadResult(entry).val
<1>2. /\ entry \in LogVar /\ after \in LogVar /\ r \in Val
      /\ View(after).own = View(log[t][x]).own
      /\ View(log[t][x]).own # Nil =>
           /\ r = View(log[t][x]).own
           /\ \/ View(after).obs = View(log[t][x]).obs
              \/ View(log[t][x]).obs = Nil /\ View(after).obs \in Val
      /\ View(log[t][x]).own = Nil =>
           /\ View(log[t][x]).obs # Nil => r = View(log[t][x]).obs
           /\ View(after).obs = r
  <2>1. entry = IF log[t][x] = Vacant THEN ReadEntry(value[x]) ELSE log[t][x]
    BY DEF Loaded
  <2> HIDE DEF entry, after, r
  <2>2. after = AfterRead(entry) /\ r = ReadResult(entry).val
    BY DEF after, r
  <2> QED BY <1>1, <2>1, <2>2, ReadView
<1> HIDE DEF entry
\* The loaded value is what the view allows, and the view depends on it.
<1>3. ASSUME NEW e, View(e).obs = View(after).obs, SetEntry(t, x, e), pc[t] = "closure",
             UNCHANGED <<pc, alts, value, writer>>
      PROVE  /\ AM!Returns(t, x, r) /\ AM!Depends(t, x, r)
             /\ Status[t] = "active" /\ Mem' = Mem /\ Status' = Status /\ Saved' = Saved
             /\ Own' = [Own EXCEPT ![t][x] = View(e).own]
  <2>1. /\ Status[t] = "active" /\ Mem' = Mem /\ Status' = Status /\ Saved' = Saved
        /\ Obs[t][x] = View(log[t][x]).obs /\ Own[t][x] = View(log[t][x]).own
        /\ Obs' = [Obs EXCEPT ![t][x] = View(after).obs]
        /\ Own' = [Own EXCEPT ![t][x] = View(e).own]
    BY <1>0, <1>3, EntryMaps
  <2>2. AM!Returns(t, x, r)
    BY <1>2, <2>1 DEF AM!Returns
  <2>3. AM!Depends(t, x, r)
    <3>1. CASE Own[t][x] = Nil
      BY <1>2, <2>1, <3>1 DEF AM!Depends
    <3>2. CASE Own[t][x] # Nil /\ View(after).obs = View(log[t][x]).obs
      BY <1>1, <2>1, <3>2 DEF AM!Depends
    <3>3. CASE Own[t][x] # Nil /\ Obs[t][x] = Nil /\ View(after).obs \in Val
      BY <2>1, <3>3 DEF AM!Depends
    <3> QED BY <1>2, <2>1, <3>1, <3>2, <3>3
  <2> QED BY <2>1, <2>2, <2>3
<1>4. CASE Read(t, x)
  <2>1. /\ SetEntry(t, x, after) /\ pc[t] = "closure" /\ UNCHANGED <<pc, alts, value, writer>>
        /\ ret' = [ret EXCEPT ![t] = r]
    BY <1>4 DEF Read, Call, entry
  <2>2. /\ AM!Returns(t, x, r) /\ AM!Depends(t, x, r)
        /\ Status[t] = "active" /\ Mem' = Mem /\ Status' = Status /\ Saved' = Saved
        /\ Own' = [Own EXCEPT ![t][x] = View(after).own]
    BY <1>3, <2>1
  <2>3. Own' = Own
    <3>1. Own[t][x] = View(log[t][x]).own
      BY <1>0, <2>1, EntryMaps
    <3> QED BY <1>1, <1>2, <2>2, <3>1
  <2>4. AM!Read(t, x, r)
    BY <2>1, <2>2, <2>3 DEF AM!Read
  <2> QED BY <1>2, <2>4 DEF AM!Next
<1>5. ASSUME NEW a \in Arc, NEW w \in Val, a.val = w, NEW res,
             SetEntry(t, x, AfterWrite(after, a)), pc[t] = "closure",
             UNCHANGED <<pc, alts, value, writer>>, ret' = [ret EXCEPT ![t] = res]
      PROVE  AM!Update(t, x, r, w, res)
  <2>1. View(AfterWrite(after, a)).obs = View(after).obs /\ View(AfterWrite(after, a)).own = w
    BY <1>2, <1>5, WriteView
  <2>2. /\ AM!Returns(t, x, r) /\ AM!Depends(t, x, r)
        /\ Status[t] = "active" /\ Mem' = Mem /\ Status' = Status /\ Saved' = Saved
        /\ Own' = [Own EXCEPT ![t][x] = View(AfterWrite(after, a)).own]
    BY <1>3, <1>5, <2>1
  <2> QED BY <1>5, <2>1, <2>2 DEF AM!Update
<1>6. ASSUME NEW v \in Val, Exchange(t, x, v) PROVE AM!Next
  <2>1. PICK a \in Arc : NewArc(x, v, a) /\ SetEntry(t, x, AfterWrite(after, a))
    BY <1>6 DEF Exchange, entry
  <2>2. /\ a.val = v /\ pc[t] = "closure" /\ UNCHANGED <<pc, alts, value, writer>>
    BY <1>6, <2>1 DEF Exchange, Call, NewArc
  <2>3. ret' = [ret EXCEPT ![t] = r]
    <3>1. ReadResult(after) = ReadResult(entry)
      BY <1>2 DEF LogVar, ReadResult, AfterRead, ReadEntry, ReadWriteEntry, Entry, WriteTags
    <3> QED BY <1>6, <3>1 DEF Exchange, entry
  <2>4. AM!Update(t, x, r, v, r)
    BY <1>5, <2>1, <2>2, <2>3
  <2> QED BY <1>2, <2>4 DEF AM!Next
<1>7. ASSUME NEW f \in Fns, Modify(t, x, f) PROVE AM!Next
  <2>0. ReadResult(after) = ReadResult(entry) /\ f \in [Val -> Val]
    BY <1>2, ConstantsAssumption
       DEF LogVar, ReadResult, AfterRead, ReadEntry, ReadWriteEntry, Entry, WriteTags,
           ConstantsAssumption
  <2>1. PICK a \in Arc : NewArc(x, f[r], a) /\ SetEntry(t, x, AfterWrite(after, a))
    BY <1>7, <2>0 DEF Modify, entry
  <2>2. /\ a.val = f[r] /\ f[r] \in Val /\ pc[t] = "closure"
        /\ UNCHANGED <<pc, alts, value, writer>> /\ ret' = [ret EXCEPT ![t] = Nil]
    BY <1>2, <1>7, <2>0, <2>1 DEF Modify, Call, NewArc
  <2>4. AM!Update(t, x, r, f[r], Nil)
    BY <1>5, <2>1, <2>2
  <2> QED BY <1>2, <1>7, <2>4 DEF AM!Next
<1>8. ASSUME NEW v \in Val, Write(t, x, v) PROVE AM!Next
  <2>1. PICK a \in Arc : NewArc(x, v, a) /\ SetEntry(t, x, AfterWrite(log[t][x], a))
    BY <1>8 DEF Write
  <2>2. /\ a.val = v /\ pc[t] = "closure" /\ UNCHANGED <<pc, alts, value, writer>>
        /\ ret' = [ret EXCEPT ![t] = Nil]
    BY <1>8, <2>1 DEF Write, Call, NewArc
  <2>3. /\ View(AfterWrite(log[t][x], a)).own = v
        /\ View(AfterWrite(log[t][x], a)).obs = View(log[t][x]).obs
    BY <1>1, <2>2, WriteView
  <2>4. /\ Status[t] = "active" /\ Mem' = Mem /\ Status' = Status /\ Saved' = Saved
        /\ Obs[t][x] = View(log[t][x]).obs
        /\ Obs' = [Obs EXCEPT ![t][x] = View(log[t][x]).obs]
        /\ Own' = [Own EXCEPT ![t][x] = v]
    BY <1>0, <2>1, <2>2, <2>3, EntryMaps
  <2>5. Obs' = Obs
    BY <1>1, <2>4
  <2>6. AM!Write(t, x, v)
    BY <2>2, <2>4, <2>5 DEF AM!Write
  <2> QED BY <2>6 DEF AM!Next
<1>9. CASE EarlyConflict(t, x)
  <2>1. /\ pc[t] = "closure" /\ pc'[t] = "failed" /\ alts'[t] = <<>>
        /\ UNCHANGED <<log, value, writer, ret>>
    BY <1>9 DEF EarlyConflict, TypeInv, TypeOK
  <2>2. Mem' = Mem
    BY <1>0, <2>1, MemKeeps
  <2>3. /\ Status[t] = "active" /\ StatusOf(t)' = Status[t]
        /\ ObsNow(t)' = Obs[t] /\ OwnNow(t)' = Own[t] /\ SavedOf(t)' = <<>>
    <3>1. StatusOf(t) = "active" /\ StatusOf(t)' = "active" /\ Pending(t) /\ Pending(t)'
      BY <2>1 DEF StatusOf, Pending
    <3>2. ObsNow(t)' = ObsNow(t) /\ OwnNow(t)' = OwnNow(t)
      BY <2>1, <3>1 DEF ObsNow, OwnNow
    <3>3. SavedOf(t)' = <<>>
      BY <2>1 DEF SavedOf
    <3> QED BY <3>1, <3>2, <3>3, AbstractState
  <2>4. Status' = Status /\ Obs' = Obs /\ Own' = Own /\ Saved' = [Saved EXCEPT ![t] = <<>>]
    <3>1. /\ Status' = [Status EXCEPT ![t] = Status[t]] /\ Obs' = [Obs EXCEPT ![t] = Obs[t]]
          /\ Own' = [Own EXCEPT ![t] = Own[t]] /\ Saved' = [Saved EXCEPT ![t] = <<>>]
      BY <1>0, <2>3, OnlyMine
    <3> QED BY <3>1 DEF Status, Obs, Own
  <2>5. AM!LeaveAll(t)
    BY <2>1, <2>2, <2>3, <2>4 DEF AM!LeaveAll
  <2> QED BY <2>5 DEF AM!Next
<1> QED BY <1>4, <1>6, <1>7, <1>8, <1>9

-----------------------------------------------------------------------------
(* Transaction::or.                                                        *)

FramesOf(s) == [i \in DOMAIN s |-> FrameOf(s[i])]

Frames == {FrameOf(f) : f \in Alternative}

LEMMA FramesSeq ==
  ASSUME NEW s \in Seq(Alternative)
  PROVE  /\ FramesOf(s) \in Seq(Frames) /\ Len(FramesOf(s)) = Len(s)
         /\ \A i \in 1 .. Len(s) : FramesOf(s)[i] = FrameOf(s[i])
<1>1. DOMAIN s = 1 .. Len(s) /\ Len(s) \in Nat /\ \A i \in 1 .. Len(s) : s[i] \in Alternative
  OBVIOUS
<1>2. FramesOf(s) = [i \in 1 .. Len(s) |-> FrameOf(s[i])]
  BY <1>1 DEF FramesOf
<1>3. \A i \in 1 .. Len(s) : FrameOf(s[i]) \in Frames
  BY <1>1 DEF Frames
<1> QED BY <1>1, <1>2, <1>3

LEMMA PushFrames ==
  ASSUME NEW f \in Alternative, NEW s \in Seq(Alternative)
  PROVE  FramesOf(<<f>> \o s) = <<FrameOf(f)>> \o FramesOf(s)
<1> DEFINE p == <<f>> \o s
           q == <<FrameOf(f)>> \o FramesOf(s)
<1>1. p \in Seq(Alternative) /\ Len(p) = Len(s) + 1 /\ Len(s) \in Nat
      /\ \A i \in 1 .. Len(s) + 1 : p[i] = IF i = 1 THEN f ELSE s[i - 1]
  OBVIOUS
<1>2. FrameOf(f) \in Frames
  BY DEF Frames
<1>3. /\ q \in Seq(Frames) /\ Len(q) = Len(s) + 1
      /\ \A i \in 1 .. Len(s) + 1 : q[i] = IF i = 1 THEN FrameOf(f) ELSE FrameOf(s[i - 1])
  <2> DEFINE fs == FramesOf(s)
  <2>1. fs \in Seq(Frames) /\ Len(fs) = Len(s) /\ \A i \in 1 .. Len(s) : fs[i] = FrameOf(s[i])
    BY FramesSeq
  <2> HIDE DEF fs
  <2>2. /\ <<FrameOf(f)>> \o fs \in Seq(Frames) /\ Len(<<FrameOf(f)>> \o fs) = Len(s) + 1
        /\ \A i \in 1 .. Len(s) + 1 :
             (<<FrameOf(f)>> \o fs)[i] = IF i = 1 THEN FrameOf(f) ELSE fs[i - 1]
    BY <1>1, <1>2, <2>1
  <2> QED BY <1>1, <2>1, <2>2 DEF fs
<1> HIDE DEF p, q
<1>4. /\ FramesOf(p) \in Seq(Frames) /\ Len(FramesOf(p)) = Len(p)
      /\ \A i \in 1 .. Len(p) : FramesOf(p)[i] = FrameOf(p[i])
  BY <1>1, FramesSeq
<1>5. FramesOf(p) = q
  <2>1. \A i \in 1 .. Len(s) + 1 : FramesOf(p)[i] = q[i]
    BY <1>1, <1>3, <1>4
  <2> QED BY <1>1, <1>3, <1>4, <2>1
<1> QED BY <1>5 DEF p, q

LEMMA TailFrames ==
  ASSUME NEW s \in Seq(Alternative), s # <<>>
  PROVE  /\ FramesOf(Tail(s)) = Tail(FramesOf(s)) /\ FramesOf(s) # <<>>
         /\ Head(FramesOf(s)) = FrameOf(Head(s))
<1> DEFINE fs == FramesOf(s)
           ts == FramesOf(Tail(s))
<1>1. /\ Tail(s) \in Seq(Alternative) /\ Len(Tail(s)) = Len(s) - 1 /\ Len(s) \in Nat \ {0}
      /\ \A i \in 1 .. Len(s) - 1 : Tail(s)[i] = s[i + 1]
      /\ Head(s) = s[1]
  OBVIOUS
<1>2. fs \in Seq(Frames) /\ Len(fs) = Len(s) /\ \A i \in 1 .. Len(s) : fs[i] = FrameOf(s[i])
  BY FramesSeq
<1>3. /\ ts \in Seq(Frames) /\ Len(ts) = Len(s) - 1
      /\ \A i \in 1 .. Len(s) - 1 : ts[i] = FrameOf(Tail(s)[i])
  BY <1>1, FramesSeq
<1> HIDE DEF fs, ts
<1>4. /\ Tail(fs) \in Seq(Frames) /\ Len(Tail(fs)) = Len(s) - 1 /\ fs # <<>> /\ Head(fs) = fs[1]
      /\ \A i \in 1 .. Len(s) - 1 : Tail(fs)[i] = fs[i + 1]
  BY <1>1, <1>2
<1>5. \A i \in 1 .. Len(s) - 1 : ts[i] = Tail(fs)[i]
  BY <1>1, <1>2, <1>3, <1>4
<1>6. ts = Tail(fs)
  BY <1>1, <1>3, <1>4, <1>5
<1>7. Head(fs) = FrameOf(Head(s))
  BY <1>1, <1>2, <1>4
<1> QED BY <1>4, <1>6, <1>7 DEF fs, ts

\* What is kept of an abandoned alternative does not belong to the view.
LEMMA CombineView ==
  ASSUME NEW r \in RegisterType, NEW s \in RegisterType
  PROVE  ObsOf(Combine(r, s)) = ObsOf(r) /\ OwnOf(Combine(r, s)) = OwnOf(r)
<1>1. ASSUME NEW x \in Var
      PROVE  View(Combine(r, s)[x]).obs = View(r[x]).obs /\ View(Combine(r, s)[x]).own = View(r[x]).own
  <2>1. Combine(r, s)[x] = IF r[x] = Vacant THEN Obsolete(s[x]) ELSE r[x]
    BY DEF Combine, RegisterType
  <2>2. View(Obsolete(s[x])) = View(Vacant)
    BY DEF View, Obsolete, ReadObsoleteEntry, Vacant, Entry, CheckedTags, WriteTags
  <2> QED BY <2>1, <2>2
<1> QED BY <1>1 DEF ObsOf, OwnOf

LEMMA OrAtomic ==
  ASSUME TypeInv, NEW t \in Thread, ThreadStep(t), Or(t)
  PROVE  AM!Next
<1>0. OthersStay(t)
  BY StepsStay
<1>1. /\ alts[t] \in Seq(Alternative) /\ log[t] \in RegisterType
      /\ pc[t] \in {"closure", "retry"} /\ pc'[t] \in {"closure", "retry"}
      /\ value' = value /\ writer' = writer /\ ret' = ret
  BY DEF Or, OrBegin, OrFirstOk, OrFirstRetry, OrSecondDone, Call, TypeInv, TypeOK
<1>2. Mem' = Mem
  BY <1>0, <1>1, MemKeeps
<1>3. /\ Status[t] = "active" /\ StatusOf(t)' = Status[t]
      /\ Obs[t] = ObsOf(log[t]) /\ Own[t] = OwnOf(log[t]) /\ Saved[t] = FramesOf(alts[t])
      /\ ObsNow(t)' = ObsOf(log[t])' /\ OwnNow(t)' = OwnOf(log[t])'
      /\ SavedOf(t)' = FramesOf(alts'[t])
  <2>1. StatusOf(t) = "active" /\ StatusOf(t)' = "active" /\ Pending(t) /\ Pending(t)'
    BY <1>1 DEF StatusOf, Pending
  <2>2. ObsNow(t)' = ObsOf(log[t])' /\ OwnNow(t)' = OwnOf(log[t])'
    BY <2>1 DEF ObsNow, OwnNow
  <2>3. SavedOf(t)' = FramesOf(alts'[t]) /\ SavedOf(t) = FramesOf(alts[t])
    BY DEF SavedOf, FramesOf
  <2> QED BY <2>1, <2>2, <2>3, AbstractState DEF ObsNow, OwnNow
<1>4. /\ Status' = Status
      /\ Obs' = [Obs EXCEPT ![t] = ObsOf(log[t])']
      /\ Own' = [Own EXCEPT ![t] = OwnOf(log[t])']
      /\ Saved' = [Saved EXCEPT ![t] = FramesOf(alts'[t])]
  <2>1. Status' = [Status EXCEPT ![t] = Status[t]]
    BY <1>0, <1>3, OnlyMine
  <2> QED BY <1>0, <1>3, <2>1, OnlyMine DEF Status
<1>5. log' = log => Obs' = Obs /\ Own' = Own
  <2>1. log' = log => ObsOf(log[t])' = Obs[t] /\ OwnOf(log[t])' = Own[t]
    BY <1>3 DEF ObsOf, OwnOf
  <2> QED BY <1>4, <2>1 DEF Obs, Own
<1>6. ASSUME alts[t] # <<>>
      PROVE  /\ FramesOf(Tail(alts[t])) = Tail(Saved[t]) /\ Saved[t] # <<>>
             /\ Head(Saved[t]) = FrameOf(Head(alts[t]))
  BY <1>1, <1>3, <1>6, TailFrames
<1>7. CASE OrBegin(t)
  <2> DEFINE f == [branch |-> 1, copy |-> log[t]]
  <2>1. f \in Alternative
    BY <1>1 DEF Alternative
  <2>2. FrameOf(f) = [second |-> FALSE, obs |-> Obs[t], own |-> Own[t]]
    BY <1>3 DEF FrameOf
  <2>3. log' = log /\ alts'[t] = <<f>> \o alts[t]
    BY <1>7 DEF OrBegin, TypeInv, TypeOK
  <2> HIDE DEF f
  <2>4. FramesOf(alts'[t]) = <<FrameOf(f)>> \o Saved[t]
    BY <1>1, <1>3, <2>1, <2>3, PushFrames
  <2>5. AM!Enter(t)
    BY <1>1, <1>2, <1>3, <1>4, <1>5, <2>2, <2>3, <2>4 DEF AM!Enter
  <2> QED BY <2>5 DEF AM!Next
<1>8. CASE OrFirstOk(t)
  <2>1. log' = log /\ alts[t] # <<>> /\ alts'[t] = Tail(alts[t])
    BY <1>8 DEF OrFirstOk, Within, Pop, TypeInv, TypeOK
  <2>2. AM!Leave(t)
    BY <1>1, <1>2, <1>3, <1>4, <1>5, <1>6, <2>1 DEF AM!Leave
  <2> QED BY <2>2 DEF AM!Next
<1>9. CASE OrFirstRetry(t)
  <2> DEFINE f == [branch |-> 2, copy |-> log[t]]
  <2>1. f \in Alternative
    BY <1>1 DEF Alternative
  <2>2. FrameOf(f) = [second |-> TRUE, obs |-> AM!NoView, own |-> AM!NoView]
    BY DEF FrameOf, NoView, AM!NoView
  <2>3. /\ alts[t] # <<>> /\ Head(alts[t]).branch = 1 /\ Tail(alts[t]) \in Seq(Alternative)
        /\ log'[t] = Head(alts[t]).copy /\ alts'[t] = <<f>> \o Tail(alts[t])
    BY <1>1, <1>9 DEF OrFirstRetry, Within, TypeInv, TypeOK
  <2> HIDE DEF f
  <2>4. FramesOf(alts'[t]) = <<FrameOf(f)>> \o Tail(Saved[t])
    BY <1>6, <2>1, <2>3, PushFrames
  <2>5. /\ ~Head(Saved[t]).second
        /\ Head(Saved[t]).obs = ObsOf(log[t])' /\ Head(Saved[t]).own = OwnOf(log[t])'
    <3>1. ObsOf(log[t])' = ObsOf(Head(alts[t]).copy) /\ OwnOf(log[t])' = OwnOf(Head(alts[t]).copy)
      BY <2>3 DEF ObsOf, OwnOf
    <3> QED BY <1>6, <2>3, <3>1 DEF FrameOf
  <2>6. AM!GiveUp(t)
    BY <1>1, <1>2, <1>3, <1>4, <1>6, <2>2, <2>3, <2>4, <2>5 DEF AM!GiveUp
  <2> QED BY <2>6 DEF AM!Next
<1>10. CASE OrSecondDone(t)
  <2>1. /\ alts[t] # <<>> /\ Head(alts[t]) \in Alternative /\ alts'[t] = Tail(alts[t])
        /\ log'[t] = Combine(log[t], Head(alts[t]).copy)
    BY <1>1, <1>10 DEF OrSecondDone, Within, Pop, TypeInv, TypeOK
  <2>2. ObsOf(log[t])' = Obs[t] /\ OwnOf(log[t])' = Own[t]
    <3>1. /\ ObsOf(log[t])' = ObsOf(Combine(log[t], Head(alts[t]).copy))
          /\ OwnOf(log[t])' = OwnOf(Combine(log[t], Head(alts[t]).copy))
      BY <2>1 DEF ObsOf, OwnOf
    <3> QED BY <1>1, <1>3, <2>1, <3>1, CombineView DEF Alternative
  <2>3. Obs' = Obs /\ Own' = Own
    BY <1>4, <2>2 DEF Obs, Own
  <2>4. AM!Leave(t)
    BY <1>1, <1>2, <1>3, <1>4, <1>6, <2>1, <2>3 DEF AM!Leave
  <2> QED BY <2>4 DEF AM!Next
<1> QED BY <1>7, <1>8, <1>9, <1>10 DEF Or

-----------------------------------------------------------------------------
(* commit and wait_for_change.                                             *)

LEMMA AcquireAtomic ==
  ASSUME TypeInv, NEW t \in Thread, ThreadStep(t), Acquire(t)
  PROVE  AM!Next \/ UNCHANGED AM!vars
<1>0. OthersStay(t)
  BY StepsStay
<1>1. Status[t] = StatusOf(t)
  BY AbstractState
<1> PICK x \in Var : \/ LockRead(t, x) \/ ClaimWrite(t, x) \/ CommitFail(t, x)
                     \/ CheckOk(t, x) \/ CheckChanged(t, x)
  BY DEF Acquire
<1>2. /\ pc[t] \in {"commit", "check"} /\ pc'[t] # "write" /\ value' = value
      /\ \A y \in Var : \/ writer'[y] = writer[y]
                        \/ {writer[y], writer'[y]} \subseteq {Nil, t}
  BY DEF LockRead, ClaimWrite, CommitFail, CheckOk, CheckChanged, EndWait, Reset, Locking,
         NoWriter, TypeInv, TypeOK
<1>3. Mem' = Mem
  BY <1>0, <1>2, MemKeeps
<1>4. CASE CommitFail(t, x) \/ CheckChanged(t, x)
  <2>1. Reset(t, "closure") /\ Status[t] \in {"active", "ready"}
    BY <1>1, <1>4 DEF CommitFail, CheckChanged, EndWait, Locking, StatusOf
  <2>2. AM!Rerun(t)
    BY <1>0, <1>3, <2>1, ResetClears DEF AM!Rerun
  <2> QED BY <2>2 DEF AM!Next
<1>5. CASE LockRead(t, x) \/ ClaimWrite(t, x)
  <2>1. UNCHANGED <<pc, log, alts, ret>>
    BY <1>5 DEF LockRead, ClaimWrite
  <2>2. /\ StatusOf(t)' = StatusOf(t) /\ ObsNow(t)' = ObsNow(t) /\ OwnNow(t)' = OwnNow(t)
        /\ SavedOf(t)' = SavedOf(t)
    BY <2>1 DEF StatusOf, ObsNow, OwnNow, SavedOf, Pending
  <2> QED BY <1>0, <1>3, <2>1, <2>2, Unseen
<1>6. CASE CheckOk(t, x)
  <2>1. UNCHANGED <<alts, ret>> /\ pc[t] = "check" /\ pc'[t] = "register"
    BY <1>6 DEF CheckOk, TypeInv, TypeOK
  <2>2. /\ StatusOf(t)' = StatusOf(t) /\ ObsNow(t)' = ObsNow(t) /\ OwnNow(t)' = OwnNow(t)
        /\ SavedOf(t)' = SavedOf(t)
    BY <2>1 DEF StatusOf, ObsNow, OwnNow, SavedOf, Pending
  <2> QED BY <1>0, <1>3, <2>1, <2>2, Unseen
<1> QED BY <1>4, <1>5, <1>6

LEMMA WaitForChangeAtomic ==
  ASSUME TypeInv, NEW t \in Thread, ThreadStep(t), WaitForChange(t)
  PROVE  AM!Next \/ UNCHANGED AM!vars
<1>0. OthersStay(t)
  BY StepsStay
<1>1. Status[t] = StatusOf(t)
  BY AbstractState
<1>2. /\ pc[t] \in {"retry", "failed", "register", "parked"} /\ pc'[t] # "write"
      /\ value' = value /\ writer' = writer
  BY DEF WaitForChange, StartWait, Register, Park, Unpark, EndWait, Reset, TypeInv, TypeOK
<1>3. Mem' = Mem
  BY <1>0, <1>2, MemKeeps
\* The attempt is over when the thread begins to wait: from then on its
\* register only says what to wait for.
<1>4. CASE StartWait(t)
  <2>1. /\ ~Pending(t)' /\ alts'[t] = <<>> /\ ret' = [ret EXCEPT ![t] = Nil]
        /\ StatusOf(t)' = "active" /\ Status[t] = "active"
    BY <1>1, <1>4 DEF StartWait, Pending, StatusOf, TypeInv, TypeOK
  <2>2. AM!Clear(t, "active")
    BY <1>0, <2>1, Clears
  <2>3. AM!Rerun(t)
    BY <1>3, <2>1, <2>2 DEF AM!Rerun
  <2> QED BY <2>3 DEF AM!Next
<1>5. CASE Unpark(t)
  <2>1. Reset(t, "closure") /\ Status[t] = "active"
    BY <1>1, <1>5 DEF Unpark, EndWait, StatusOf
  <2>2. AM!Rerun(t)
    BY <1>0, <1>3, <2>1, ResetClears DEF AM!Rerun
  <2> QED BY <2>2 DEF AM!Next
<1>6. CASE Park(t) \/ \E x \in Var : Register(t, x)
  <2>1. UNCHANGED <<alts, ret>> /\ pc[t] = "register" /\ pc'[t] \in {"check", "parked"}
    BY <1>6 DEF Park, Register, TypeInv, TypeOK
  <2>2. /\ StatusOf(t)' = StatusOf(t) /\ ObsNow(t)' = ObsNow(t) /\ OwnNow(t)' = OwnNow(t)
        /\ SavedOf(t)' = SavedOf(t)
    BY <2>1 DEF StatusOf, ObsNow, OwnNow, SavedOf, Pending
  <2> QED BY <1>0, <1>3, <2>1, <2>2, Unseen
<1> QED BY <1>4, <1>5, <1>6 DEF WaitForChange

LEMMA AtomicAtomic ==
  ASSUME TypeInv, NEW t \in Thread, ThreadStep(t), Atomic(t)
  PROVE  AM!Next
<1>0. UNCHANGED <<log, alts, pc, writer>> /\ pc[t] = "idle"
  BY DEF Atomic, ReadAtomic, WriteAtomic
<1>1. Status' = Status /\ Obs' = Obs /\ Own' = Own /\ Saved' = Saved /\ Status[t] = "idle"
  BY <1>0 DEF Status, Obs, Own, Saved, Pending, ObsOf, OwnOf
<1>2. ASSUME NEW x \in Var, ReadAtomic(t, x) PROVE AM!Next
  <2>1. value' = value /\ writer[x] = Nil /\ ret' = [ret EXCEPT ![t] = value[x].val]
    BY <1>2 DEF ReadAtomic, NoWriter
  <2>2. Mem[x] = value[x].val /\ Mem' = Mem
    BY <1>0, <2>1 DEF Mem, Committing
  <2>3. AM!ReadAtomic(t, x)
    BY <1>1, <2>1, <2>2 DEF AM!ReadAtomic
  <2> QED BY <2>3 DEF AM!Next
<1>3. ASSUME NEW x \in Var, NEW v \in Val, WriteAtomic(t, x, v) PROVE AM!Next
  <2>1. PICK a \in Arc : NewArc(x, v, a) /\ Store(x, a)
    BY <1>3 DEF WriteAtomic
  <2>2. /\ value' = [value EXCEPT ![x] = a] /\ a.val = v /\ writer[x] = Nil
        /\ ret' = [ret EXCEPT ![t] = Nil] /\ value \in [Var -> Arc]
    BY <1>3, <2>1 DEF WriteAtomic, NewArc, Store, NoWriter, TypeInv, TypeOK
  <2>3. Mem' = [Mem EXCEPT ![x] = v]
    BY <1>0, <2>2 DEF Mem, Committing
  <2>4. AM!WriteAtomic(t, x, v)
    BY <1>1, <2>2, <2>3 DEF AM!WriteAtomic
  <2> QED BY <2>4 DEF AM!Next
<1> QED BY <1>2, <1>3 DEF Atomic

\* Nothing is pending, and no call has returned anything, when a thread commits.
CommitEmpty == \A t \in Thread : pc[t] = "commit" => alts[t] = <<>> /\ ret[t] = Nil

LEMMA StepCommitEmpty ==
  ASSUME TypeInv, CommitEmpty, Next
  PROVE  CommitEmpty'
<1> SUFFICES ASSUME NEW t \in Thread, pc'[t] = "commit"
             PROVE  alts'[t] = <<>> /\ ret'[t] = Nil
  BY DEF CommitEmpty
<1>1. PICK u \in Thread : ThreadStep(u)
  BY DEF Next, ThreadStep
<1>2. CASE u # t
  <2>1. pc'[t] = pc[t] /\ alts'[t] = alts[t]
    BY <1>1, <1>2, OthersOwn
  <2>2. ret'[t] = ret[t]
    BY <1>1, <1>2
       DEF ThreadStep, Begin, EndOfClosure, ClosureOk, ClosureRetry, ClosureAbort, ClosurePanic,
           ControlAbort, Restart, Reset, Leave, Access, Read, Write, Exchange, Modify,
           EarlyConflict, Or, OrBegin, OrFirstOk, OrFirstRetry, OrSecondDone,
           Acquire, LockRead, ClaimWrite, CommitFail, CheckOk, CheckChanged, EndWait,
           Commit, LockWrite, WriteBack, TakeWaiters, ReleaseReads, BeginWake, SetChanged, Return,
           WaitForChange, StartWait, Register, Park, Unpark, Atomic, ReadAtomic, WriteAtomic,
           TypeInv, TypeOK
  <2> QED BY <2>1, <2>2 DEF CommitEmpty
<1>3. CASE u = t /\ ClosureOk(t)
  BY <1>3 DEF ClosureOk, TypeInv, TypeOK
<1>4. CASE u = t /\ ~ClosureOk(t)
  <2>1. pc[t] = "commit" /\ UNCHANGED <<alts, ret>>
    <3>1. CASE Begin(t) \/ EndOfClosure(t) \/ ControlAbort(t) \/ Restart(t)
      BY <1>4, <3>1 DEF Begin, EndOfClosure, ClosureRetry, ClosureAbort, ClosurePanic,
                        ControlAbort, Restart, Reset, Leave, TypeInv, TypeOK
    <3>2. CASE Access(t) \/ Or(t)
      BY <3>2 DEF Access, Read, Write, Exchange, Modify, EarlyConflict, Call,
                  Or, OrBegin, OrFirstOk, OrFirstRetry, OrSecondDone, TypeInv, TypeOK
    <3>3. CASE Acquire(t)
      BY <3>3 DEF Acquire, LockRead, ClaimWrite, CommitFail, CheckOk, CheckChanged, EndWait,
                  Reset, Locking, TypeInv, TypeOK
    <3>4. CASE Commit(t)
      BY <3>4 DEF Commit, LockWrite, WriteBack, TakeWaiters, ReleaseReads, BeginWake, SetChanged,
                  Return, Leave, Reset, Locking, TypeInv, TypeOK
    <3>5. CASE WaitForChange(t) \/ Atomic(t)
      BY <3>5 DEF WaitForChange, StartWait, Register, Park, Unpark, EndWait, Reset,
                  Atomic, ReadAtomic, WriteAtomic, TypeInv, TypeOK
    <3> QED BY <1>1, <1>4, <3>1, <3>2, <3>3, <3>4, <3>5 DEF ThreadStep
  <2> QED BY <2>1 DEF CommitEmpty
<1> QED BY <1>2, <1>3, <1>4

\* The linearization point: everything that was loaded is still current, and
\* all write locks are held, so that the new values take the place of the old
\* ones at once.
LEMMA ReleaseReadsCommits ==
  ASSUME CommitInv, CommitEmpty, NEW t \in Thread, ThreadStep(t), ReleaseReads(t)
  PROVE  AM!Commit(t)
<1>0. TypeInv /\ LockInv /\ OthersStay(t)
  BY StepsStay DEF CommitInv
<1>1. /\ pc[t] = "commit" /\ pc'[t] = "write" /\ todo[t] = {}
      /\ alts[t] = <<>> /\ ret[t] = Nil
      /\ UNCHANGED <<value, writer, log, alts, ret>>
  BY <1>0 DEF ReleaseReads, CommitEmpty, TypeInv, TypeOK
<1>2. AM!Clear(t, "committed")
  <2>1. ~Pending(t)' /\ StatusOf(t)' = "committed"
    BY <1>1 DEF Pending, StatusOf
  <2>2. ret' = [ret EXCEPT ![t] = Nil]
    BY <1>0, <1>1 DEF TypeInv, TypeOK
  <2> QED BY <1>0, <1>1, <2>1, <2>2, Clears
<1>3. Status[t] = "ready" /\ Obs[t] = ObsOf(log[t]) /\ Own[t] = OwnOf(log[t])
  BY <1>1 DEF Status, Obs, Own, Pending
<1>4. ASSUME NEW x \in Var
      PROVE  /\ Obs[t][x] # Nil => Obs[t][x] = Mem[x]
             /\ Mem'[x] = IF Own[t][x] # Nil THEN Own[t][x] ELSE Mem[x]
  <2>1. log[t][x] \in LogVar \cup {Vacant} /\ x \notin todo[t]
    BY <1>0, <1>1 DEF TypeInv, TypeOK, RegisterType
  <2>2. /\ log[t][x].tag \in WriteTags <=> writer[x] = t
        /\ log[t][x].tag = "Read" => t \in readers[x]
    BY <1>0, <1>1, <2>1 DEF LockInv, LocksKept, WritersWrite
  <2>3. Committing(x) => writer[x] # t /\ writer[x] \in Thread /\ readers[x] = {}
    BY <1>0, <1>1 DEF Committing, LockInv, Exclusive, TypeInv, TypeOK
  <2>4. /\ Mem[x] = IF Committing(x) THEN log[writer[x]][x].new.val ELSE value[x].val
        /\ Mem'[x] = IF Committing(x)' THEN log[writer[x]][x].new.val ELSE value[x].val
    BY <1>1 DEF Mem
  <2>5. Obs[t][x] # Nil => Obs[t][x] = Mem[x]
    <3>1. SUFFICES ASSUME log[t][x].tag \in CheckedTags PROVE log[t][x].orig.val = Mem[x]
      BY <1>3 DEF ObsOf, View
    <3>2. log[t][x].orig = value[x]
      BY <1>1, <2>1, <3>1 DEF CommitInv, Validated
    <3>3. ~Committing(x)
      BY <2>2, <2>3, <3>1 DEF CheckedTags, WriteTags
    <3> QED BY <2>4, <3>2, <3>3
  <2>6. Mem'[x] = IF Own[t][x] # Nil THEN Own[t][x] ELSE Mem[x]
    <3>1. CASE log[t][x].tag \in WriteTags
      <4>1. Committing(x)' /\ writer[x] = t
        BY <1>1, <2>2, <3>1, NilFacts DEF Committing
      <4>2. Own[t][x] = log[t][x].new.val /\ log[t][x].new.val \in Val
        BY <1>3, <2>1, <3>1, LogVarCases DEF OwnOf, View, Arc
      <4> QED BY <2>4, <4>1, <4>2, NilFacts
    <3>2. CASE log[t][x].tag \notin WriteTags
      <4>1. writer[x] # t
        BY <2>2, <3>2
      <4>2. Committing(x)' <=> Committing(x)
        <5>1. CASE writer[x] = Nil
          BY <1>1, <5>1 DEF Committing
        <5>2. CASE writer[x] # Nil
          <6>1. writer[x] \in Thread \ {t}
            BY <1>0, <4>1, <5>2 DEF TypeInv, TypeOK
          <6> QED BY <1>0, <1>1, <6>1 DEF Committing, OthersStay
        <5> QED BY <5>1, <5>2
      <4>3. Own[t][x] = Nil
        BY <1>3, <3>2 DEF OwnOf, View
      <4> QED BY <2>4, <4>2, <4>3
    <3> QED BY <3>1, <3>2
  <2> QED BY <2>5, <2>6
<1>5. Mem' = [x \in Var |-> IF Own[t][x] # Nil THEN Own[t][x] ELSE Mem[x]]
  <2>1. Mem' = [x \in Var |-> Mem'[x]]
    BY DEF Mem
  <2> QED BY <1>4, <2>1
<1> QED BY <1>2, <1>3, <1>4, <1>5 DEF AM!Commit

\* A value behind the lock of a transaction past its linearization point
\* counted as stored already.
LEMMA WriteBackUnseen ==
  ASSUME TypeInv, LockInv, NEW t \in Thread, ThreadStep(t), NEW x \in Var, WriteBack(t, x)
  PROVE  UNCHANGED AM!vars
<1>0. OthersStay(t)
  BY StepsStay
<1>1. /\ pc[t] = "write" /\ x \in todo[t] /\ UNCHANGED <<pc, log, alts, ret>>
      /\ value' = [value EXCEPT ![x] = log[t][x].new]
      /\ writer' = [writer EXCEPT ![x] = Nil]
  BY DEF WriteBack, IsNext, Store
<1>2. Committing(x) /\ writer[x] = t
  BY <1>1, NilFacts DEF Committing, LockInv, LocksKept
<1>3. ~Committing(x)'
  BY <1>1 DEF Committing, TypeInv, TypeOK
<1>4. Mem' = Mem
  BY <1>1, <1>2, <1>3 DEF Mem, Committing, TypeInv, TypeOK
<1>5. /\ StatusOf(t)' = StatusOf(t) /\ ObsNow(t)' = ObsNow(t) /\ OwnNow(t)' = OwnNow(t)
      /\ SavedOf(t)' = SavedOf(t)
  BY <1>1 DEF StatusOf, ObsNow, OwnNow, SavedOf, Pending
<1> QED BY <1>0, <1>1, <1>4, <1>5, Unseen

LEMMA CommitAtomic ==
  ASSUME CommitInv, CommitEmpty, NEW t \in Thread, ThreadStep(t), Commit(t)
  PROVE  AM!Next \/ UNCHANGED AM!vars
<1>0. TypeInv /\ LockInv /\ OthersStay(t)
  BY StepsStay DEF CommitInv
\* Where all values are stored nothing depends on t any more.
<1>1. ASSUME pc[t] # "write" \/ todo[t] = {}, pc'[t] # "write", value' = value, writer' = writer
      PROVE  Mem' = Mem
  <2>1. CASE pc[t] # "write"
    BY <1>0, <1>1, <2>1, MemKeeps
  <2>2. CASE pc[t] = "write" /\ todo[t] = {}
    <3>1. \A x \in Var : writer[x] # t
      BY <1>0, <2>2 DEF LockInv, WritersWrite
    <3>2. \A x \in Var : writer[x] # Nil => writer[x] \in Thread \ {t}
      BY <1>0, <3>1 DEF TypeInv, TypeOK
    <3> QED BY <1>0, <1>1, <3>2 DEF Mem, Committing, OthersStay
  <2> QED BY <1>1, <2>1, <2>2
<1>2. CASE ReleaseReads(t)
  BY <1>2, ReleaseReadsCommits DEF AM!Next
<1>3. ASSUME NEW x \in Var, WriteBack(t, x) PROVE UNCHANGED AM!vars
  BY <1>0, <1>3, WriteBackUnseen
<1>4. CASE Return(t)
  <2>1. Reset(t, "idle") /\ Status[t] = "committed" /\ pc'[t] = "idle"
    BY <1>0, <1>4 DEF Return, Leave, Reset, Status, TypeInv, TypeOK
  <2>2. Mem' = Mem
    BY <1>1, <1>4, <2>1 DEF Return, Leave
  <2>3. AM!End(t)
    BY <1>0, <2>1, <2>2, ResetClears DEF AM!End
  <2> QED BY <2>3 DEF AM!Next
<1>5. CASE BeginWake(t)
  <2>1. /\ pc[t] = "write" /\ pc'[t] = "wake" /\ todo[t] = {}
        /\ UNCHANGED <<value, writer, log, alts, ret>>
    BY <1>0, <1>5 DEF BeginWake, TypeInv, TypeOK
  <2>2. Mem' = Mem
    BY <1>1, <2>1
  <2>3. /\ StatusOf(t)' = StatusOf(t) /\ ObsNow(t)' = ObsNow(t) /\ OwnNow(t)' = OwnNow(t)
        /\ SavedOf(t)' = SavedOf(t)
    BY <2>1 DEF StatusOf, ObsNow, OwnNow, SavedOf, Pending
  <2> QED BY <1>0, <2>1, <2>2, <2>3, Unseen
<1>6. CASE \/ \E x \in Var : LockWrite(t, x) \/ TakeWaiters(t, x)
           \/ \E u \in Thread : SetChanged(t, u)
  BY <1>6 DEF LockWrite, TakeWaiters, SetChanged, AM!vars, Mem, Committing, Status, Obs, Own,
              Saved, Pending, ObsOf, OwnOf
<1> QED BY <1>2, <1>3, <1>4, <1>5, <1>6 DEF Commit

LEMMA InitAtomic == Init => AM!Init
<1> SUFFICES ASSUME Init PROVE AM!Init
  OBVIOUS
<1>1. Mem \in [Var -> Val]
  <2>1. value = InitValue /\ InitValue \in [Var -> Arc] /\ \A x \in Var : writer[x] = Nil
    BY ConstantsAssumption DEF Init, ConstantsAssumption
  <2> QED BY <2>1 DEF Mem, Committing, Arc
<1>2. Status = [t \in Thread |-> "idle"] /\ ret = [t \in Thread |-> Nil]
  BY DEF Init, Status
<1>3. Obs = [t \in Thread |-> NoView] /\ Own = [t \in Thread |-> NoView]
  <2>1. \A t \in Thread : log[t] = NoLog
    BY DEF Init
  <2>2. ObsOf(NoLog) = NoView /\ OwnOf(NoLog) = NoView
    BY DEF ObsOf, OwnOf, View, NoLog, NoView, Vacant, Entry, CheckedTags, WriteTags
  <2> QED BY <2>1, <2>2 DEF Obs, Own
<1>4. Saved = [t \in Thread |-> <<>>]
  <2>1. ASSUME NEW t \in Thread PROVE Saved[t] = <<>>
    BY EmptySaved, AbstractState DEF Init
  <2> QED BY <2>1 DEF Saved
<1>5. NoView = AM!NoView
  BY DEF NoView, AM!NoView
<1> QED BY <1>1, <1>2, <1>3, <1>4, <1>5 DEF AM!Init

LEMMA StepAtomic ==
  CommitInv /\ CommitEmpty /\ [Next]_vars => [AM!Next]_(AM!vars)
<1> SUFFICES ASSUME CommitInv, CommitEmpty, [Next]_vars PROVE AM!Next \/ UNCHANGED AM!vars
  OBVIOUS
<1>1. CASE UNCHANGED vars
  BY <1>1 DEF vars, AM!vars, Mem, Committing, Status, Obs, Own, Saved, Pending, ObsOf, OwnOf
<1>2. CASE Next
  <2>1. PICK t \in Thread : ThreadStep(t)
    BY <1>2 DEF Next, ThreadStep
  <2>2. TypeInv
    BY DEF CommitInv
  <2> QED BY <2>1, <2>2, EntryPointsAtomic, AccessAtomic, OrAtomic, AcquireAtomic, CommitAtomic,
             WaitForChangeAtomic, AtomicAtomic DEF ThreadStep
<1> QED BY <1>1, <1>2

\* Every behaviour of the runtime, in any build and with any use of or, retry,
\* abort and panic, is one of atomic transactions over the TVars.
THEOREM TransactionsAreAtomic == Spec => Atomicity
<1>1. Init => CommitEmpty
  BY DEF Init, CommitEmpty
<1>2. CommitInv /\ CommitEmpty /\ [Next]_vars => CommitEmpty'
  <2>1. CommitEmpty /\ UNCHANGED vars => CommitEmpty'
    BY DEF vars, CommitEmpty
  <2> QED BY <2>1, StepCommitEmpty DEF CommitInv
<1> QED BY <1>1, <1>2, CommitInvariant, InitAtomic, StepAtomic, PTL
       DEF Spec, Atomicity, AM!Spec
=============================================================================
