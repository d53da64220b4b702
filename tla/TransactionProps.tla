-------------------------- MODULE TransactionProps --------------------------
(***************************************************************************)
(* What is expected of the STM runtime.                                    *)
(***************************************************************************)
EXTENDS Transaction

-----------------------------------------------------------------------------
(* Locking.                                                                *)

Holds(t, x) == writer[x] = t \/ t \in readers[x]

\* Locks are held by committing threads only, never by a closure, a sleeper
\* or a thread that is done, and a TVar with a write lock has no readers:
\* every early return of commit drops everything it has taken.
LockSafety ==
  \A x \in Var :
    /\ \A t \in readers[x] : pc[t] = "commit" /\ x \notin todo[t]
    /\ writer[x] # Nil =>
         /\ pc[writer[x]] \in {"commit", "write"}
         /\ log[writer[x]][x].tag \in WriteTags
         /\ (pc[writer[x]] = "write" \/ x \notin todo[writer[x]]) => readers[x] = {}

\* The threads that t's next lock waits for.
WaitsFor(t) ==
  UNION {IF writer[x] = t THEN readers[x] ELSE {writer[x]} \ {Nil} :
           x \in {y \in Var : Locking(t, y)}}

\* Committing threads never wait for each other in a circle, in any mix of
\* read locks, write locks and write claims.
NoDeadlock ==
  \A S \in (SUBSET Thread) \ {{}} : \E t \in S : WaitsFor(t) \cap S = {}

-----------------------------------------------------------------------------
(* Commit.                                                                 *)

\* At the moment a transaction takes effect, none of the TVars it loaded has
\* been overwritten since it loaded it.  With Transaction::or this is so for
\* the alternatives whose results are used only.
ConsistentCommit ==
  \A t \in Thread : pc[t] = "commit" /\ todo[t] = {} => stale[t] = {}

\* A commit fails, and a second read reports an early conflict, only if a
\* value the transaction loaded has been overwritten, never because of locks
\* that others hold.
FailsOnlyOnConflict ==
  [][\A t \in Thread :
       \/ pc[t] = "commit" /\ pc'[t] = "closure"
       \/ pc[t] = "closure" /\ pc'[t] = "failed"
       => stale[t] # {}]_vars

\* The transactions are atomic.  A value that is stored behind the write lock
\* of a transaction past its linearization point counts as stored already.
View(e) == [obs |-> IF e.tag \in CheckedTags THEN e.orig.val ELSE Nil,
            own |-> IF e.tag \in WriteTags THEN e.new.val ELSE Nil]

ObsOf(reg) == [x \in Var |-> View(reg[x]).obs]
OwnOf(reg) == [x \in Var |-> View(reg[x]).own]
NoView     == [x \in Var |-> Nil]

\* A register that is still needed; after the linearization point, and while
\* it is only waited for, it is not.
Pending(t) == pc[t] \in {"closure", "retry", "failed", "commit"}

FrameOf(f) ==
  IF f.branch = 1
  THEN [second |-> FALSE, obs |-> ObsOf(f.copy), own |-> OwnOf(f.copy)]
  ELSE [second |-> TRUE, obs |-> NoView, own |-> NoView]

Committing(x) == writer[x] # Nil /\ pc[writer[x]] = "write"

Mem == [x \in Var |-> IF Committing(x) THEN log[writer[x]][x].new.val ELSE value[x].val]
Status == [t \in Thread |->
             CASE pc[t] = "idle"               -> "idle"
               [] pc[t] = "commit"             -> "ready"
               [] pc[t] \in {"write", "wake"}  -> "committed"
               [] OTHER                        -> "active"]
Obs == [t \in Thread |-> IF Pending(t) THEN ObsOf(log[t]) ELSE NoView]
Own == [t \in Thread |-> IF Pending(t) THEN OwnOf(log[t]) ELSE NoView]
Saved == [t \in Thread |-> [i \in DOMAIN alts[t] |-> FrameOf(alts[t][i])]]

AM == INSTANCE AtomicMemory WITH
  mem <- Mem, status <- Status, obs <- Obs, own <- Own, saved <- Saved, ret <- ret

\* Every behaviour is one of atomic transactions over the TVars: reads see
\* the transaction's own writes and are repeatable, a first alternative that
\* retries leaves no trace, and a commit is one step with all its values.
Atomicity == AM!Spec

\* A thread in commit gets out of it: the ordering of the TVars rules out
\* circles, and a writer that has claimed a lock keeps new readers out, so that
\* readers that overlap without end do not starve it.
CommitTerminates ==
  \A t \in Thread : pc[t] = "commit" ~> pc[t] # "commit"

-----------------------------------------------------------------------------
(* Waiting.                                                                *)

\* No lost wakeup: while a thread sleeps although a TVar it had loaded has
\* changed, a transaction that wrote that TVar is about to wake it.
NoLostWakeup ==
  \A t \in Thread : pc[t] = "parked" /\ blocked[t] =>
    \A x \in stale[t] : \E u \in Thread :
      \/ pc[u] = "write" /\ x \in Written(u)
      \/ pc[u] = "wake" /\ (x \in todo[u] \/ t \in waking[u])

\* A thread that sleeps is registered with every TVar it loaded, in either
\* alternative, or is being woken.
WaitsOnAllReads ==
  \A t \in Thread : pc[t] = "parked" /\ blocked[t] =>
    \A x \in seen[t] : t \in waiting[x] \/ \E u \in Thread : t \in waking[u]

\* wait_for_change gives up before it sleeps only if a TVar that was loaded has
\* been overwritten: what an abandoned alternative only wanted to write is not
\* compared, or the thread would run again and again instead of sleeping.
WaitsUnlessChanged ==
  [][\A t \in Thread : pc[t] = "check" /\ pc'[t] = "closure" => stale[t] # {}]_vars

\* An attempt that ended in an early conflict leaves a register in which some
\* value is outdated and stays so: with_err, which waits after this error as
\* well, does not go to sleep on it.
FailureIsOutdated ==
  \A t \in Thread : pc[t] = "failed" => \E x \in Unregistered(t) : ~Current(t, x)

\* Transactions use the waiting lists as Notification describes them, which
\* WaitList shows their implementation to be: who wakes takes over every
\* thread that is registered and owes each of them a signal until it is given
\* or the thread has left wait_for_change.
Waiting == {t \in Thread : pc[t] \in {"register", "check", "parked"}}

WL == INSTANCE Notification WITH
  Block <- Thread, Waker <- Thread,
  alive <- Waiting,
  signalled <- {t \in Waiting : ~blocked[t]},
  registered <- waiting,
  owed <- waking

NotifiesWaiters == WL!Spec

\* Once a TVar it loaded has changed, a sleeping thread wakes up.
WokenUp ==
  \A t \in Thread : pc[t] = "parked" /\ stale[t] # {} ~> pc[t] # "parked"
=============================================================================
