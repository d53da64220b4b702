----------------------------- MODULE EntryPoints -----------------------------
(***************************************************************************)
(* The entry points of one thread (transaction/mod.rs): the four retry     *)
(* loops, their profile_ twins with the tallies of attempts, and the       *)
(* thread-local flag by which TransactionGuard refuses nested calls.       *)
(*                                                                         *)
(* What other threads do shows as the outcome of commit and as errors of   *)
(* the closure only, see Transaction.  User code, which is the closure and *)
(* the control function, may call entry points itself, may panic, and may  *)
(* catch the panic of a call it made.                                      *)
(***************************************************************************)
EXTENDS Naturals, Sequences

CONSTANTS MaxDepth,     \* bound on calls within calls
          MaxAttempts,  \* bound on the attempts of a transaction
          WaitOnRetry   \* the cargo feature

ASSUME EntryAssumption ==
  MaxDepth \in Nat /\ MaxAttempts \in Nat /\ WaitOnRetry \in BOOLEAN

Modes == {"with", "with_control", "with_err", "with_control_and_err"}
ControlModes == {"with_control", "with_control_and_err"}
ErrModes == {"with_err", "with_control_and_err"}

StmError == {"Failure", "Retry"}

VARIABLES running,  \* TRANSACTION_RUNNING
          stack,    \* the calls that have a TransactionGuard, outermost first
          outcome,  \* how the last call of an entry point ended, or "None"
          final     \* the call that was last to return

vars == <<running, stack, outcome, final>>
results == <<outcome, final>>

\* A call of an entry point; profiled is 1 for the profile_ twins, else 0.
\* conflicts is history: how often commit has failed.
Call == [mode : Modes, profiled : {0, 1},
         at : {"closure", "commit", "control", "wait"}, err : StmError \cup {"None"},
         n_attempts : Nat, n_retry : Nat, n_error : Nat,
         conflicts : Nat]

TypeOK ==
  /\ running \in BOOLEAN
  /\ stack \in Seq(Call)
  /\ outcome \in {"None", "Panicked", "Validated", "Cancelled", "Abandoned"}
  /\ final \in Call

-----------------------------------------------------------------------------
Top == stack[Len(stack)]

\* The innermost call is at p.
At(p) == stack # <<>> /\ Top.at = p

\* The bound on attempts; those that are not profiled count their conflicts.
MayGoOn == Top.n_attempts < MaxAttempts /\ Top.conflicts < MaxAttempts

InUserCode == At("closure") \/ At("control")

\* The innermost call becomes c.
Continue(c) == stack' = [stack EXCEPT ![Len(stack)] = c]

\* The innermost call ends, and its guard is dropped.
DropGuard == stack' = SubSeq(stack, 1, Len(stack) - 1) /\ running' = FALSE

\* The next attempt begins.
\* Broken variant: an attempt counts only if no error made it necessary.
Again_ConflictsOnly(c) ==
  [c EXCEPT !.at = "closure", !.err = "None",
            !.n_attempts = @ + IF c.err = "None" THEN c.profiled ELSE 0]
Again(c) == [c EXCEPT !.at = "closure", !.err = "None", !.n_attempts = @ + c.profiled]

\* with_err waits after every error, the others after retry only.
Waits(c) == WaitOnRetry /\ (c.mode = "with_err" \/ c.err = "Retry")

\* What a call does about an error it does not stop for.
AfterError(c) == IF Waits(c) THEN [c EXCEPT !.at = "wait"] ELSE Again(c)

-----------------------------------------------------------------------------
\* Transaction::default, and the first attempt begins.
NewCall(m, p) ==
  Again([mode |-> m, profiled |-> p, at |-> "closure", err |-> "None",
         n_attempts |-> 0, n_retry |-> 0, n_error |-> 0,
         conflicts |-> 0])

Init ==
  /\ running = FALSE /\ stack = <<>>
  /\ outcome = "None" /\ final = NewCall("with", 0)

Enter(m, p) ==
  /\ ~running
  /\ stack = <<>> \/ InUserCode
  /\ Len(stack) < MaxDepth
  /\ running' = TRUE
  /\ stack' = Append(stack, NewCall(m, p))
  /\ UNCHANGED results

\* The assertion in TransactionGuard::new: there is no guard yet.  The user
\* code may go on; if not, Panic follows.
\* Broken variant: the guard exists, and is dropped by the panic.
Nested_GuardFirst ==
  /\ running /\ InUserCode
  /\ outcome' = "Panicked"
  /\ running' = FALSE
  /\ UNCHANGED <<stack, final>>
Nested ==
  /\ running /\ InUserCode
  /\ outcome' = "Panicked"
  /\ UNCHANGED <<running, stack, final>>

\* The user code of the innermost call unwinds.
Panic == InUserCode /\ DropGuard /\ outcome' = "Panicked" /\ UNCHANGED final

Return(how) == DropGuard /\ outcome' = how /\ final' = Top

\* The closure returns Ok, and commit begins.
ClosureOk ==
  /\ At("closure")
  /\ Continue([Top EXCEPT !.at = "commit"])
  /\ UNCHANGED <<running, results>>

CommitOk == At("commit") /\ Return("Validated")

CommitFails ==
  /\ At("commit") /\ MayGoOn
  /\ Continue(Again([Top EXCEPT !.conflicts = @ + 1]))
  /\ UNCHANGED <<running, results>>

\* The closure returns TransactionError::Abort.
ClosureAborts == At("closure") /\ Top.mode \in ErrModes /\ Return("Cancelled")

\* The closure returns an StmError: it is counted, then control is asked.
\* The control function of with is the one that always says Retry.
ClosureFails(e) ==
  /\ At("closure") /\ MayGoOn
  /\ LET c == [Top EXCEPT !.err = e,
                          !.n_retry = @ + IF e = "Retry" THEN Top.profiled ELSE 0,
                          !.n_error = @ + IF e = "Failure" THEN Top.profiled ELSE 0]
     IN  Continue(IF c.mode \in ControlModes
                  THEN [c EXCEPT !.at = "control"]
                  ELSE AfterError(c))
  /\ UNCHANGED <<running, results>>

ControlRetry ==
  /\ At("control")
  /\ Continue(AfterError(Top))
  /\ UNCHANGED <<running, results>>

ControlAbort == At("control") /\ Return("Abandoned")

\* wait_for_change is over.
EndWait ==
  /\ At("wait")
  /\ Continue(Again(Top))
  /\ UNCHANGED <<running, results>>

-----------------------------------------------------------------------------
Next ==
  \/ \E m \in Modes, p \in {0, 1} : Enter(m, p)
  \/ \E e \in StmError : ClosureFails(e)
  \/ Nested \/ Panic \/ ClosureOk \/ CommitOk \/ CommitFails \/ ClosureAborts
  \/ ControlRetry \/ ControlAbort \/ EndWait

Spec == Init /\ [][Next]_vars

-----------------------------------------------------------------------------
\* "Nested calls are detected at runtime and handled with panicking": the flag
\* is set if and only if a transaction is open, and there is never more than
\* one, whichever calls are refused, caught, unwound or returned from.  A flag
\* that stays set would bar the thread from transactions for good.
GuardExact == Len(stack) = IF running THEN 1 ELSE 0

\* Each attempt that was counted is the current or the final one, or is
\* accounted for by a retry, an error or a failed commit.
AddUp(c, last) == c.profiled = 1 => c.n_attempts = c.n_retry + c.n_error + c.conflicts + last

\* The tallies add up at every point of the loops, and in what is returned: a
\* transaction that control has abandoned ends with an attempt that is counted
\* as an error already, any other with one that is not.
TalliesAddUp ==
  /\ \A i \in DOMAIN stack :
       AddUp(stack[i], IF stack[i].at \in {"closure", "commit"} THEN 1 ELSE 0)
  /\ AddUp(final, IF final.at = "control" THEN 0 ELSE 1)
=============================================================================
