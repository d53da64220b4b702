---------------------------- MODULE ControlBlock ----------------------------
(***************************************************************************)
(* The ControlBlock (transaction/control_block.rs): how a thread sleeps in *)
(* wait_for_change and how other threads wake it.                          *)
(*                                                                         *)
(* One thread calls wait_for_change again and again, each time with a new  *)
(* block.  Others get hold of a block through the weak references in the   *)
(* waiting lists, and may come so late that the thread is already in its   *)
(* next wait, on another block but with the same unpark token.             *)
(***************************************************************************)
EXTENDS FiniteSets

CONSTANTS Block,    \* ControlBlocks; one that nobody refers to is used again
          Waker,    \* the threads that call set_changed
          Owner,    \* the thread that waits
          Nil       \* no block

ASSUME OwnerAssumption == Owner \notin Waker /\ Nil \notin Block

VARIABLES
  blocked,  \* blocked[b]: the flag of the block
  refs,     \* refs[b]: the threads that hold a strong reference to it
  token,    \* the unpark token of the thread that waits
  pc,       \* where this thread is
  cur,      \* the block it waits on, or Nil
  at,       \* where each waker is in set_changed
  held,     \* the block each waker has upgraded, or Nil
  \* History: the blocks for which a waker has unparked the thread.
  unparked

vars == <<blocked, refs, token, pc, cur, at, held, unparked>>
ownerVars == <<pc, cur>>
wakerVars == <<at, held, unparked>>

Asleep == {"park", "parked"}

TypeOK ==
  /\ blocked \in [Block -> BOOLEAN]
  /\ refs \in [Block -> SUBSET (Waker \cup {Owner})]
  /\ token \in BOOLEAN
  /\ pc \in {"run", "armed", "test", "woken"} \cup Asleep
  /\ cur \in Block \cup {Nil}
  /\ at \in [Waker -> {"idle", "swap", "unpark", "release"}]
  /\ held \in [Waker -> Block \cup {Nil}]
  /\ unparked \subseteq Block

Init ==
  /\ blocked = [b \in Block |-> FALSE]
  /\ refs = [b \in Block |-> {}]
  /\ token = FALSE
  /\ pc = "run" /\ cur = Nil
  /\ at = [w \in Waker |-> "idle"]
  /\ held = [w \in Waker |-> Nil]
  /\ unparked = {}

-----------------------------------------------------------------------------
(* The thread that waits.                                                  *)

\* ControlBlock::new, at the beginning of wait_for_change.
New(b) ==
  /\ pc = "run" /\ refs[b] = {}
  /\ refs' = [refs EXCEPT ![b] = {Owner}]
  /\ blocked' = [blocked EXCEPT ![b] = TRUE]
  /\ pc' = "armed" /\ cur' = b
  /\ unparked' = unparked \ {b}
  /\ UNCHANGED <<token, at, held>>

\* One of the TVars has changed already: do not wait.
SkipWait ==
  /\ pc = "armed"
  /\ pc' = "woken"
  /\ UNCHANGED <<blocked, refs, token, cur, wakerVars>>

CallWait ==
  /\ pc = "armed"
  /\ pc' = "test"
  /\ UNCHANGED <<blocked, refs, token, cur, wakerVars>>

\* The condition of the loop in wait.
Test ==
  /\ pc = "test"
  /\ pc' = IF blocked[cur] THEN "park" ELSE "woken"
  /\ UNCHANGED <<blocked, refs, token, cur, wakerVars>>

\* park_timeout: take the token if there is one, else sleep.
Park ==
  /\ pc = "park"
  /\ pc' = IF token THEN "test" ELSE "parked"
  /\ token' = FALSE
  /\ UNCHANGED <<blocked, refs, cur, wakerVars>>

\* Broken variant: wait does not look at the flag again after parking.
Unparked_NoLoop ==
  /\ pc = "parked" /\ token
  /\ pc' = "woken"
  /\ token' = FALSE
  /\ UNCHANGED <<blocked, refs, cur, wakerVars>>
Unparked ==
  /\ pc = "parked" /\ token
  /\ pc' = "test"
  /\ token' = FALSE
  /\ UNCHANGED <<blocked, refs, cur, wakerVars>>

\* max_parked_time is over, or park returns without a reason as it may.
Timeout ==
  /\ pc = "parked"
  /\ pc' = "test"
  /\ UNCHANGED <<blocked, refs, token, cur, wakerVars>>

\* The end of wait_for_change drops its reference to the block.
Leave ==
  /\ pc = "woken"
  /\ refs' = [refs EXCEPT ![cur] = @ \ {Owner}]
  /\ pc' = "run" /\ cur' = Nil
  /\ UNCHANGED <<blocked, token, wakerVars>>

-----------------------------------------------------------------------------
(* The threads that wake it.                                               *)

\* wake_all upgrades a weak reference: the block lives on until Release.
Upgrade(w, b) ==
  /\ at[w] = "idle" /\ refs[b] # {}
  /\ refs' = [refs EXCEPT ![b] = @ \cup {w}]
  /\ at' = [at EXCEPT ![w] = "swap"]
  /\ held' = [held EXCEPT ![w] = b]
  /\ UNCHANGED <<blocked, token, ownerVars, unparked>>

\* set_changed: blocked.swap(false).  Only who finds it set wakes the thread.
\* Broken variant: everyone wakes it.
Swap_Always(w) ==
  /\ at[w] = "swap"
  /\ at' = [at EXCEPT ![w] = "unpark"]
  /\ blocked' = [blocked EXCEPT ![held[w]] = FALSE]
  /\ UNCHANGED <<refs, token, ownerVars, held, unparked>>
\* Broken variant: the flag is tested the wrong way round.
Swap_Inverted(w) ==
  /\ at[w] = "swap"
  /\ at' = [at EXCEPT ![w] = IF blocked[held[w]] THEN "release" ELSE "unpark"]
  /\ blocked' = [blocked EXCEPT ![held[w]] = FALSE]
  /\ UNCHANGED <<refs, token, ownerVars, held, unparked>>
Swap(w) ==
  /\ at[w] = "swap"
  /\ at' = [at EXCEPT ![w] = IF blocked[held[w]] THEN "unpark" ELSE "release"]
  /\ blocked' = [blocked EXCEPT ![held[w]] = FALSE]
  /\ UNCHANGED <<refs, token, ownerVars, held, unparked>>

\* thread.unpark().
Unpark(w) ==
  /\ at[w] = "unpark"
  /\ at' = [at EXCEPT ![w] = "release"]
  /\ token' = TRUE
  /\ unparked' = unparked \cup {held[w]}
  /\ UNCHANGED <<blocked, refs, ownerVars, held>>

Release(w) ==
  /\ at[w] = "release"
  /\ refs' = [refs EXCEPT ![held[w]] = @ \ {w}]
  /\ at' = [at EXCEPT ![w] = "idle"]
  /\ held' = [held EXCEPT ![w] = Nil]
  /\ UNCHANGED <<blocked, token, ownerVars, unparked>>

-----------------------------------------------------------------------------
\* Code outside of the library may unpark any thread it has a handle of.
ForeignUnpark ==
  /\ token' = TRUE
  /\ UNCHANGED <<blocked, refs, ownerVars, wakerVars>>

OwnerStep == CallWait \/ Test \/ Park \/ Unparked \/ Leave

WakerStep(w) == Swap(w) \/ Unpark(w) \/ Release(w)

Next ==
  \/ OwnerStep \/ SkipWait \/ Timeout \/ ForeignUnpark
  \/ \E b \in Block : New(b)
  \/ \E w \in Waker : WakerStep(w) \/ \E b \in Block : Upgrade(w, b)

Spec == Init /\ [][Next]_vars

\* Threads that are in the middle of something go on.  Nothing is assumed of
\* the time-out: the signals have to be enough.
FairSpec == Spec /\ WF_vars(OwnerStep) /\ \A w \in Waker : WF_vars(WakerStep(w))

-----------------------------------------------------------------------------
\* Once its block is set to changed a thread that sleeps, or has decided to,
\* finds a token or is about to be given one: no signal falls between the
\* test of the flag and the parking, and none is used up by an earlier wait.
SignalArrives ==
  pc \in Asleep /\ ~blocked[cur] =>
    token \/ \E w \in Waker : at[w] = "unpark" /\ held[w] = cur

\* "Only wakeup once": of all that set a block to changed, in whatever order
\* and however late, one unparks the thread.
WakesOnce ==
  \A w \in Waker : at[w] = "unpark" =>
    /\ held[w] \notin unparked
    /\ \A v \in Waker : at[v] = "unpark" /\ held[v] = held[w] => v = w

\* A wait ends if and only if the block it is on was set to changed, whatever
\* tokens are left from earlier waits, whatever else wakes the thread, and
\* without the help of the time-out.
L == INSTANCE Latch WITH
  phase <- IF pc \in {"test"} \cup Asleep THEN "waiting"
           ELSE IF pc = "armed" THEN "in" ELSE "out",
  set <- pc \in {"armed", "test"} \cup Asleep /\ ~blocked[cur]

EndsWhenSet == L!Spec
=============================================================================
