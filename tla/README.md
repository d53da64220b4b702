# A TLA+ model of fast-stm

fast-stm is a software transactional memory for Rust. This directory holds a
model of its runtime, the TLC configurations that check it on small instances,
and theorems about it that TLAPS checks for every instance. Paths below are
relative to `fast-stm/src/` of the repository.

## The system

| Component | State | Operations | Hard behaviour |
|---|---|---|---|
| Register entries (`transaction/log_var.rs`) | an enum of five variants, each with the Arc that was loaded, the Arc to store, or both | `read`, `write`, `obsolete`, `into_read_value` | upgrades between variants: what must be validated, what must be waited for |
| Transaction (`transaction/mod.rs`) | the register `vars`: an entry per TVar | `read`, `write`, `modify`, `exchange`, `or`, `commit`, `wait_for_change` | other threads store between any two steps; two-phase locking; nested alternatives; early returns that hold locks |
| TVar, VarControlBlock (`tvar.rs`) | value behind an `RwLock`, list of weak references to waiting threads behind a `Mutex`, `dead_threads` counter | `wake_all`, `wait`, `set_dead`, `read_atomic`, `write_atomic` | registration races with stores and wake-ups; weak references die at any time |
| ControlBlock (`transaction/control_block.rs`) | `blocked` flag, thread handle | `set_changed`, `wait` | signal before, during or after park; time-out |
| Entry points (`transaction/mod.rs`) | thread-local `TRANSACTION_RUNNING`, tallies | `with`, `with_control`, `with_err`, `with_control_and_err` and their `profile_` twins | retry loops, decisions of the control function, aborts, panics |
| Public functions (`lib.rs`) | none | `atomically`, `retry`, `abort`, `guard`, `optionally`, `unwrap_or_*` | thin wrappers |
| Result types (`result.rs`) | none | accessors | none |

Threads share nothing but the VarControlBlocks and, through the waiting lists,
each other's ControlBlocks. A thread runs the user's closure against its own
register; `commit` locks the TVars of the register in address order, compares
the Arcs it loaded with the current ones by address, stores its new Arcs and
calls `wake_all` on the TVars it wrote. After `retry` a thread registers its
ControlBlock with every TVar it read, looks again whether one of them has
changed, and sleeps otherwise.

What makes each part correct:

* accesses: a transaction sees its own writes, its reads are repeatable,
  whatever an abandoned alternative did is undone;
* commit: atomic, no deadlock, no lock left behind, no validation against a
  recycled address, failure only because of a conflict;
* waiting: who sleeps is registered with everything it read, no change is slept
  over, and without a change nobody runs again instead of sleeping;
* control block: a wait ends if and only if its own block was set to changed,
  whatever tokens other waits leave behind, and each block costs one unpark;
* waiting list: an entry of a thread that waits is lost to nothing but a
  wake-up, whoever takes the list signals all that were in it, garbage stays
  bounded;
* entry points: the guard flag is set exactly while a transaction runs, and the
  tallies account for every attempt;
* registers: every key leads to the control block its entry was made for.

## Modules

| Module | What it is |
|---|---|
| `LogVar` | the register entries: variants and methods as operators |
| `Transaction` | the runtime: all threads, TVars, registers, locks, waiting lists; one action per call or per step that others can observe |
| `TransactionProps` | its properties, and the mappings to `AtomicMemory` and `Notification` |
| `AtomicMemory` | abstract: a transaction takes effect in one step or not at all |
| `WaitList` | the waiting lists in detail: weak references, `wait`, `wake_all`, `set_dead` |
| `Notification` | abstract: what waiting lists promise |
| `ControlBlock` | sleeping and waking in detail: flag, unpark token, time-out |
| `Latch` | abstract: what a control block promises |
| `EntryPoints` | one thread's calls of the entry points: guard, nesting, control, tallies |
| `Registers` | keys of the register and the lifetime of TVars |
| `MCTransaction`, `MCWaitList`, `MCControlBlock`, `MCRegisters` | constants for TLC |
| `TransactionProofs` | theorems about `Transaction`: types and locks, and lemmas about addresses |
| `CommitProofs` | on top of it: why commits and waits fail, what commits validate, why they do not deadlock |
| `WaitingProofs` | on top of `CommitProofs`: what sleeping threads are registered with, and that no wake-up is lost |
| `AtomicityProofs` | on top of `CommitProofs`: the refinement of `AtomicMemory` |
| `WaitListProofs`, `ControlBlockProofs`, `EntryPointsProofs` | theorems about these modules |

The modules fit together like this. `Transaction` is the composition: threads
with their registers, TVars with their locks, lists and control blocks. It takes
from its parts only what they promise. Its waiting lists are sets of threads
that are emptied in one step by whoever wakes, which is `Notification`
(`NotifiesWaiters` says that `Transaction` uses them so); `WaitList` shows that
the lists of `tvar.rs` implement it, with entries that die, counters and
cleanups. A parked thread of `Transaction` goes on when, and only when, its flag
is cleared, which is `Latch`; `ControlBlock` shows that flag and unpark token
implement it. Loops around a transaction are in `EntryPoints`, where all that
other threads do shows as the result of `commit` and of the closure.

### How `Transaction` corresponds to the code

Variables indexed by TVar are the fields of `VarControlBlock`: `value` is the Arc
in the `RwLock`, `readers` and `writer` are who holds the lock, `waiting` is the
set of threads whose ControlBlock is in `waiting_threads` and alive. Variables
indexed by thread are the transaction (`log`, `alts` for the register copies
held by pending calls of `or`), the progress of `commit` or `wait_for_change`
(`pc`, `todo`, `waking`), and the ControlBlock (`blocked`). `nops` bounds the
closure; `ret` is what its last call returned. `seen` and `stale` are history:
the TVars the attempt has loaded, and those of them overwritten since.

* **Arcs.** An Arc is an address and a value; `Arc::ptr_eq` compares addresses.
  A new Arc gets an address that no live Arc of the TVar has, so addresses are
  given out again, as an allocator does. Only Arcs of one TVar are ever
  compared, hence each TVar has addresses of its own.
* **Closure.** The user's code is any sequence of at most `MaxOps[t]` calls of the
  kinds in `Ops[t]`, and ends in Ok, retry, abort or panic. It does not handle
  errors itself, as the crate documentation asks.
* **Loads.** A load outside of commit takes the read lock for a moment: its
  guard is that nobody has the write lock, nothing is held afterwards.
* **Read-write lock.** parking_lot gives a read lock to nobody once a writer has
  it or waits for it (`NoWriter`), so a writer has two steps: `ClaimWrite` when
  there is no other writer, and `LockWrite` when the readers are gone.
* **commit.** `ClosureOk` collects the records, `LockRead`, `ClaimWrite` and
  `LockWrite` take the next lock in address order, `CommitFail` is any of the
  early returns, `ReleaseReads` is the point where all locks are held and the
  transaction takes effect, `WriteBack` stores one value and releases its lock,
  `BeginWake`, `TakeWaiters`, `SetChanged` are `wake_all`, and `Return` ends it.
  Releasing several locks in one step is a simplification that loses nothing:
  a release only enables others.
* **wait_for_change.** `StartWait`, then `Register` and `CheckOk` or
  `CheckChanged` for each entry with an original, in any order (a BTreeMap goes
  by address, a hash map by hash), then `Park` and `Unpark`. When the function
  ends, the ControlBlock dies and with it the weak references to it (`EndWait`).
* **or.** `alts` is the stack of pending calls. While the first alternative
  runs, `copy` is the backup; `OrFirstRetry` exchanges the two; `OrSecondDone`
  merges the abandoned register (`Combine`).
* **Features.** `EarlyConflictDetection` and `WaitOnRetry` are constants.
  `hash-registers` changes the order of traversal only, which is covered (see
  below for the lifetime of its keys). `profiling` only counts.

`X_Something` definitions marked *Broken variant* are never used by the
specifications. They are what the definition after them might wrongly have been,
and serve to confirm that a property notices.

### How `WaitList` corresponds to the code

`waiting_threads[x]` is the set of blocks in the list that are alive,
`garbage[x]` the number of entries left of dead ones: the order of the list
plays no role, and a dead entry can only be thrown away. `mutex[x]` is held over
the three steps of a cleanup (`LockList`, `ResetCount`, `Retain`,
`UnlockList`); `wait` and `wake_all` hold it for one step and find it free.
A block is dead once neither its thread nor a waker has an Arc of it; its
entries, in lists and in what wakers have taken, become garbage in the same step
(`Perish`). `retain` looks at one entry after the other, and one that dies
meanwhile may or may not be removed. `SetDead` is `fetch_add` with the
comparison of what it returned, and what follows is outside of the mutex.
What the waiter finds after registering is a choice (`Wait`, `WaitChanged`), and
so is which TVar a waker announces: values are `Transaction`'s business.

### How `ControlBlock` corresponds to the code

`Test` and `Park` are the condition and the body of the loop in `wait`, so that
a signal can come between them. `Park` takes the token if there is one, as
`park_timeout` does; a parked thread goes on by the token (`Unparked`), or
without (`Timeout`: time-out and spurious returns). `Swap` and `Unpark` are
`set_changed`. A waker holds a strong reference from `Upgrade` to `Release`, in
which time the wait may end and the thread begin its next one, on a new block
but with the same token. `ForeignUnpark` is code outside of the library that
unparks the thread. `unparked` is history: the blocks for which a waker has
unparked it.

### How `EntryPoints` corresponds to the code

`stack` holds the calls that have a `TransactionGuard`; a call records its kind,
where in its loop it is and its tallies. The eight loops are one: `with` is
`with_control` with a control function that always says Retry, the functions
without `_err` cannot abort, and only `with_err` waits after a Failure. `Nested`
is the assertion in `TransactionGuard::new`, which leaves the flag to the outer
call; user code may catch its panic and go on, or not (`Panic`). `conflicts`
counts failed commits, for the property only.

### How `Registers` corresponds to the code

`handles` are the TVars somebody has an `Arc<VarControlBlock>` of outside of the
transaction, `log` and `copy` the keys of its register and of the one that `or`
has put aside. `Alive` is where the two builds differ: the keys of a BTreeMap
are Arcs, those of `hash-registers` are addresses. `New` may happen in any
thread at any time, and use any address that no live control block has. What an
entry holds does not matter here.

## What the runs show

| Run | Instance | Shows |
|---|---|---|
| `locking` | 3 threads, read and write | `LockSafety`, `NoDeadlock`, `ConsistentCommit`, `FailsOnlyOnConflict` |
| `or` | a thread with alternatives, nested ones too, aborts, panics, early conflicts, against a transaction, `read_atomic` and `write_atomic`; 2 values | `Atomicity` (refines `AtomicMemory`) |
| `live` | 2 threads, closures of 3 calls, early conflict detection, `with_err`, fair | `WokenUp`, `NoLostWakeup`, `WaitsOnAllReads`, `FailureIsOutdated`, `FailsOnlyOnConflict` |
| `or_wait` | a thread that modifies and retries in alternatives, closures of 5 calls, nested twice, and one that stores | `WaitsOnAllReads`, `WaitsUnlessChanged` |
| `crowd` | 3 threads at 1 TVar: 2 that read, and retry or commit, 2 that write, fair | `CommitTerminates`, `NoLostWakeup`, `NotifiesWaiters` |
| `block` | 3 wakers, 4 blocks, fair | `EndsWhenSet` (refines `Latch`), `SignalArrives`, `WakesOnce` |
| `list` | 1 TVar, 2 waiters, 1 waker, limit 1, fair | `Notifies` (refines `Notification`), `GarbageBounded`, `TakenReturns` |
| `entry` | all entry points, calls within calls, up to 4 attempts | `GuardExact`, `TalliesAddUp` |

The runs of the runtime use `MCTransaction`: TVars 1 and 2, threads as model
values. Two TVars are what it takes for write skew, for lock-order cycles and
for half-published commits; for starvation and for wakers that race, three
threads at one TVar: two readers whose locks overlap without end and the writer
that waits for them, two that sleep while one writes, one that sleeps while two
write. Closures of two calls suffice for every pair of accesses, five for an
alternative within an alternative with an access in three of them, and the
number of transactions is not bounded: threads start over for ever. States that
differ in the names of addresses only are identified (`HeapView`: for each TVar,
which places hold the same address), which turns out to divide the number of
states by more than thirty. Neither actions nor properties depend on the names,
so that this is a bisimulation that keeps threads and TVars apart, sound for the
runs with liveness too. Symmetry is used in safety runs only.

In `block` the three wakers can hold three blocks, and the thread finds a fourth
for its next wait: a waker each for the wait before, for this one, and for the
race with another. In `list` two waiters clean up at the same time, one of them
for the other's entries, while the waker takes the list or keeps a block alive;
with the limit 1 every second wait ends in a cleanup. Several TVars add nothing
that the proof of `ImplementsNotification` does not cover. `GarbageBounded` is
tight: there is a state with one entry less than the bound. In `entry` the bound on
nesting is never reached, as `GuardExact` shows, and 4 attempts are enough for
every order of conflict, retry and error between two others.

`Atomicity` hides a value that is stored behind the write lock of a transaction
past its `ReleaseReads`: the abstract memory changes there at once. It covers
serializability of commits, read-your-writes, repeatable reads and the rollback
of alternatives. Reads of a live transaction may return values that do not
belong together; the crate documents that it does not guarantee opacity.

Runs with retries disable the deadlock check: if all threads sleep and no value
changes, the system rightly stops, and `NoLostWakeup` says that it does so in no
other case. With one value (`Val = {zero}`) a run checks control only; Arcs are
still told apart by address.

Runs that show a disagreement between code and documentation:

| Run | What happens |
|---|---|
| `write_atomic` | `TVar::write_atomic` does not wake threads that sleep on the TVar, though it is documented to be equivalent to a transaction that writes |
| `or_rereads` | both alternatives load a TVar that is stored in between: `combine` keeps the later Arc, which `wait_for_change` finds current, and the thread sleeps over the change that the first alternative waits for |
| `or_blind_write` | the second alternative writes a TVar the first one read: `combine` drops the read, and the thread sleeps without being registered with the TVar |
| `hash_registers` | with the feature `hash-registers` a TVar that the closure creates, uses and drops leaves a key in the register that leads nowhere, though the crate promises that undefined behaviour never occurs |

These runs say where the theorems need a hypothesis. `NoLostWakeup` and `WokenUp`
are checked, and the former proved, without `or` and `write_atomic`;
`WaitsOnAllReads` without closures that combine `or` and `write`.
`ConsistentCommit` is checked and proved without `or`, because the reads of an
alternative that was given up are not validated by `commit`, which the comment
at `transaction/mod.rs:1007` says is meant so; `Atomicity` covers `or`.

One comment disagrees with a property that holds. `tvar.rs:57-58` says of the
lock: "Starvation may occur, if one thread wants to write-lock but others keep
holding read-locks." In the build it does not: the lock is parking_lot's, where a
writer that waits keeps new readers out, and every commit that has read locks
gets rid of them. `CommitTerminates` says so, and `crowd` has the case the comment
names, two readers whose locks overlap and a writer. The comment would be right
about a lock that lets readers pass a waiting writer; `NoWriter_Unfair` is this
lock, and with it the writer of `crowd` waits for ever. The comment only says what
may happen, so that no run can refute it; a passing run is all there is.

The control function is asked about errors of the closure only. A transaction
whose `commit` fails again and again never asks it, although the documentation
(`transaction/mod.rs:169`) names contention as a reason to have one.

### Fairness

`FairSpec` assumes weak fairness of the library's own steps, that is, that the
scheduler lets every thread run on, and strong fairness of obtaining a lock that
others may hold (`Acquire`): parking_lot queues its waiters and hands the lock
over fairly from time to time. Nothing is assumed about the closure: it may take
for ever, and no other thread may start a transaction again.

`FairSpec` of `ControlBlock` assumes that a thread in the middle of a wait or of
`set_changed` goes on. It assumes nothing of `Timeout` and `ForeignUnpark`: the
code calls the time-out a safety net against deadlocks, and `EndsWhenSet` says
that it is none the protocol needs. `FairSpec` of `WaitList` assumes weak
fairness of what waiters and wakers have begun and strong fairness of `LockList`,
for which parking_lot's mutex hands over fairly from time to time; nothing of
`Begin` and `TakeAll`. `Returns` in `Latch` and `TakenReturns` are therefore about
signals that are under way, not about such that never come.

## What is proved

Every safety invariant, every action property and the safety part of every
refinement that the passing runs check, for any finite or infinite sets of
threads, TVars, values, blocks and addresses, any `Ops`, bounds and features,
except where a hypothesis is named; and the types of `Transaction`.

`TransactionProofs`

* `TypeCorrect`: `Spec => []TypeOK`. The strengthening `WritesHaveValues` says
  that a commit stores only TVars whose entry has a new Arc; without it a store
  could be ill-typed.
* `LocksAreSafe`: `Spec => []LockSafety`. The inductive invariant `LockInv` adds
  to it what each lock is held for (`ReadersCommit`, `WritersWrite`,
  `Exclusive`) and that it stays held until it is released (`LocksKept`). The
  lemma `LockFrame` covers every step of a thread outside of the two phases.

That two live Arcs of a TVar with the same address are one Arc (`PointerIdentity`)
is what the allocator gives. The lemma `StepHeap` brings it into a form the proofs
below can use: each step either moves Arcs between places (`Moves`) or allocates
one with a free address (`Allocates`). That the registers keep alive what they
compare shows in the properties, not there.

`CommitProofs`

* `FailsForConflict`, `FailuresAreOutdated`: `Spec => FailsOnlyOnConflict`,
  `Spec => []FailureIsOutdated`. The inductive invariant is `HeapInv`. `Private`
  says that an Arc a thread is going to store is known to no other register, so
  that a store never brings back an Arc that somebody has loaded; with it, `Loads`
  says that what was loaded and has not been overwritten is current, and
  `Outdates` that an entry which caused a failure stays outdated. Every step is
  one of three kinds (`Quiet`, `Calls`, `Stores`), and the invariant is proved
  for the kinds.
* `WaitsEndForChange`: `Spec => WaitsUnlessChanged`. `ComparesLoaded` says that
  what is compared after the registration is an Arc that was loaded; by `Loads` it
  is current unless the TVar has been overwritten.
* `CommitsAreConsistent`: without `or`, `Spec => []ConsistentCommit`. `Validated`
  says that what was compared under a lock equals the value as long as the lock
  is held, from `LockInv`; `PlainInv` that without alternatives a register has
  everything the attempt has loaded. Both are needed: a read that is validated
  but forgotten would do harm, and so would one that is kept but compared too
  early.
* `CommitsDoNotDeadlock`: `Spec => []NoDeadlock`. `LockOrder` says that the locks
  a thread holds or has claimed come before all it has left to take. In a circle
  of threads the one that waits for the greatest TVar waits for one that holds it
  and therefore waits for nothing smaller. Only finitely many threads are not
  idle (`FewActive`), so that there is a greatest.

`WaitingProofs`

* `WaitersAreNotified`: `Spec => NotifiesWaiters`. Only threads in wait_for_change
  are on lists or about to be woken (`RegisteredWait`). With
  `ImplementsNotification` below, what `Transaction` assumes of the lists is what
  `WaitList` provides.
* `SleepsOnAllReads`: `Spec => []WaitsOnAllReads`, if no closure calls both `or`
  and `write`. `WaitInv` says of everything the attempt has loaded that it is
  found in the register, or in one that `or` keeps for its merge, or that the
  thread is registered with it (`Kept`). An attempt that ended in an early
  conflict inside of `or` has dropped registers (`Dropped`); it never sleeps,
  because it goes on to find its outdated entry.
* `NoWakeupIsLost`: `Spec => []NoLostWakeup`, if no thread uses `or` or
  `write_atomic`. `Heard` says of every waiting thread and every TVar it has
  registered with and compared: if the TVar has been stored since it was loaded,
  its writer is still storing, or has still to take the TVar's list, or has the
  thread in its hands. The argument for a store is `SleepsOnAllReads` and that
  for a comparison `Loads`.

`AtomicityProofs`

* `TransactionsAreAtomic`: `Spec => Atomicity`, for closures of any kind. One
  lemma per group of actions, all from `CommitInv`. `ReleaseReads` is the step in
  which a transaction happens: all its locks are held, so by `Validated` what it
  read is the abstract memory, and by `LockInv` no other transaction is storing
  there; the stores that follow change the concrete memory only. Loads see the
  abstract memory because they wait for the writer (`NoWriter`). `CommitEmpty`
  says that a thread in commit has no pending alternatives.

`ControlBlockProofs`

* `NoSignalIsLost`, `OneWakes`: `Spec => []SignalArrives`, `Spec => []WakesOnce`.
  The inductive invariant says in addition that whoever unparks, or has done so,
  has cleared the flag and it stays cleared (`Cleared`), and that a block in use is
  referred to, so that `New` takes another one (`Referred`).
* `IsLatch`: the initial states and steps of `ControlBlock` are those of `Latch`
  or leave it unchanged.

`WaitListProofs`

* `ImplementsNotification`: `Spec => Notifies`. The invariant says that a waiter
  has a block of its own while it is in wait_for_change, that entries count as
  alive only while somebody refers to their block, and that a waker has no second
  entry of the block it is about to inform. Cleanups are steps that leave
  `Notification` unchanged.
* `GarbageIsBounded`: `Spec => []GarbageBounded`, for finitely many threads, at
  least one of which can wait (the bound counts threads). The invariant
  `GarbageInv` keeps three accounts for each TVar. `LimitAt`: the counter exceeds
  the limit by no more than the cleanups that are due, since whoever finds it at
  the limit cleans up. `BalanceAt`: garbage and entries alive that have been
  counted exceed the counter by no more than the threads, since an entry is
  counted before it dies (`Counted`); what was alive at a reset is the
  difference. `SweptBy`: from when a cleanup has the mutex until it traverses the
  list, garbage and entries together do not grow, and its own entry is not
  garbage. The first two would not do: between the reset of the counter and the
  traversal the garbage is related to the old value of the counter.

`EntryPointsProofs`

* `NeverNested`, `TalliesAreRight`: `Spec => []GuardExact`,
  `Spec => []TalliesAddUp`, one case per action; `Balanced` says of one call what
  `TalliesAddUp` says of all.

The proofs rest on the assumptions named in the modules (TVars and addresses are
numbers, `Nil` is none of the other values, waiters and wakers are different
threads), which TLC evaluates in the runs, and on the hypotheses named in the
theorems: `NoAlternatives`, `NoAtomicWrites` and `NoBlindAlternatives`, each of
which restricts the calls that closures make (the runs above show what happens
otherwise), and finite sets of threads for the bound on garbage. All inductive invariants were checked
with TLC on instances of the runs before they were proved.

Model-checked only: liveness, which is out of reach of the prover
(`CommitTerminates`, `WokenUp`, `TakenReturns` and the liveness that
`EndsWhenSet` adds to `IsLatch`).

## Not modelled

* The lifetime of TVars outside of `Registers`: `Transaction` takes it as given
  that they live on. In the default build they do, because the keys of the
  BTreeMap are Arcs of the control blocks (`transaction/mod.rs:120`); there is
  nothing in this that a step could break, so neither run nor theorem is about it.
* The counters of accesses in `TransactionTallies`, its `AddAssign` and `Sum`:
  they are only added to, nothing in the library reads them, and no text says
  what they promise.
* A control function with memory: its decisions are a free choice.
* Closures that handle errors themselves, share other state, or block.
* User code that runs when the library drops a value: it can run under a write
  lock, where the last reference to an old value goes away
  (`transaction/mod.rs:1032`), and could panic or access a TVar there.
* Overflow of `dead_threads` and of the tallies: 64-bit counters of events.
* Memory orderings other than sequential consistency. What threads share is
  behind locks, except for `blocked` (SeqCst) and `dead_threads`, of which only
  the value itself is used.
* Result types, macros, benchmarks: no state.

## Plan

1. Safety facts under the liveness properties: that a thread that is neither
   idle nor parked nor in its closure always has a step or waits for a lock whose
   holder is in its write phase or is itself no later in the order.
2. Variants of `NoLostWakeup` and `ConsistentCommit` that hold for closures with
   `or`, about what is left in the register.
