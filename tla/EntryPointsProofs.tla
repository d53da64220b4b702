-------------------------- MODULE EntryPointsProofs --------------------------
(***************************************************************************)
(* Proofs about EntryPoints, for any bounds.                               *)
(***************************************************************************)
EXTENDS EntryPoints, SequenceTheorems, TLAPS

Inv == TypeOK /\ GuardExact /\ TalliesAddUp

\* Calls whose tallies add up.
Balanced(c) == AddUp(c, IF c.at \in {"closure", "commit"} THEN 1 ELSE 0)

\* With at most one call open, the stack is that call.
LEMMA OneCall ==
  ASSUME Inv, stack # <<>>
  PROVE  /\ Len(stack) = 1 /\ stack = <<Top>> /\ Top \in Call
         /\ Balanced(Top)
<1>1. Len(stack) = 1  BY EmptySeq DEF Inv, TypeOK, GuardExact
<1>2. stack = <<stack[1]>> /\ stack[1] \in Call  BY <1>1 DEF Inv, TypeOK
<1>3. 1 \in DOMAIN stack  BY <1>1 DEF Inv, TypeOK
<1>4. Balanced(stack[1])  BY <1>3 DEF Inv, TalliesAddUp, Balanced
<1> QED  BY <1>1, <1>2, <1>4 DEF Top

LEMMA NoCalls == DOMAIN <<>> = {}
OBVIOUS

\* It changes within the loop.
LEMMA ContinueInv ==
  ASSUME Inv, stack # <<>>, NEW c \in Call, Balanced(c), Continue(c),
         UNCHANGED <<running, results>>
  PROVE  Inv'
<1>1. Len(stack) = 1 /\ stack' = <<c>>  BY OneCall DEF Continue, Inv, TypeOK
<1> QED  BY <1>1 DEF Inv, TypeOK, GuardExact, TalliesAddUp, Balanced, results

\* It ends, by a return or by unwinding.
LEMMA DropInv ==
  ASSUME Inv, stack # <<>>, DropGuard,
         outcome' \in {"None", "Panicked", "Validated", "Cancelled", "Abandoned"},
         final' \in Call, AddUp(final, IF final.at = "control" THEN 0 ELSE 1)'
  PROVE  Inv'
<1>1. stack' = <<>> /\ running' = FALSE  BY OneCall DEF DropGuard
<1>2. TypeOK' /\ GuardExact'  BY <1>1, EmptySeq DEF TypeOK, GuardExact
<1>3. TalliesAddUp'  BY <1>1, NoCalls DEF TalliesAddUp
<1> QED  BY <1>2, <1>3 DEF Inv

LEMMA ReturnInv ==
  ASSUME Inv, stack # <<>>, Top.at # "wait",
         NEW how \in {"Validated", "Cancelled", "Abandoned"}, Return(how)
  PROVE  Inv'
<1>1. Top \in Call /\ Balanced(Top)  BY OneCall
<1>2. AddUp(Top, IF Top.at = "control" THEN 0 ELSE 1)
  BY <1>1 DEF Balanced, Call
<1> QED  BY <1>1, <1>2, DropInv DEF Return, AddUp

\* The next attempt is counted.
LEMMA AgainLemma ==
  ASSUME NEW c \in Call, AddUp(c, 0)
  PROVE  Again(c) \in Call /\ Balanced(Again(c))
<1>1. c.n_attempts \in Nat /\ c.profiled \in {0, 1} /\ c.n_attempts + c.profiled \in Nat
  BY DEF Call
<1>2. Again(c) \in Call  BY <1>1 DEF Again, Call
<1>3. /\ Again(c).at = "closure" /\ Again(c).profiled = c.profiled
      /\ Again(c).n_attempts = c.n_attempts + c.profiled /\ Again(c).n_retry = c.n_retry
      /\ Again(c).n_error = c.n_error /\ Again(c).conflicts = c.conflicts
  BY DEF Again, Call
<1>4. c.n_retry \in Nat /\ c.n_error \in Nat /\ c.conflicts \in Nat  BY DEF Call
<1>5. AddUp(Again(c), 1)  BY <1>1, <1>3, <1>4 DEF AddUp
<1> QED  BY <1>2, <1>3, <1>5 DEF Balanced

LEMMA AfterErrorLemma ==
  ASSUME NEW c \in Call, AddUp(c, 0)
  PROVE  AfterError(c) \in Call /\ Balanced(AfterError(c))
<1>1. CASE Waits(c)
  BY <1>1 DEF AfterError, Balanced, AddUp, Call
<1>2. CASE ~Waits(c)
  BY <1>2, AgainLemma DEF AfterError
<1> QED  BY <1>1, <1>2

LEMMA NewCallLemma ==
  ASSUME NEW m \in Modes, NEW p \in {0, 1}
  PROVE  NewCall(m, p) \in Call /\ Balanced(NewCall(m, p)) /\ NewCall(m, p).at = "closure"
         /\ NewCall(m, p).profiled = p
<1> DEFINE c == [mode |-> m, profiled |-> p, at |-> "closure", err |-> "None",
                 n_attempts |-> 0, n_retry |-> 0, n_error |-> 0,
                 conflicts |-> 0]
<1>1. c \in Call /\ AddUp(c, 0)  BY DEF Call, AddUp
<1>2. Again(c).at = "closure" /\ Again(c).profiled = p  BY DEF Again
<1>3. Again(c) \in Call /\ Balanced(Again(c))  BY <1>1, AgainLemma
<1> QED  BY <1>2, <1>3 DEF NewCall

LEMMA InvInit == Init => Inv
<1> SUFFICES ASSUME Init PROVE Inv  OBVIOUS
<1>1. final \in Call /\ final.profiled = 0
  BY NewCallLemma DEF Init, Modes
<1>2. TypeOK /\ GuardExact  BY <1>1, EmptySeq DEF Init, TypeOK, GuardExact
<1>3. TalliesAddUp  BY <1>1, NoCalls DEF Init, TalliesAddUp, AddUp
<1> QED  BY <1>2, <1>3 DEF Inv

\* An error is counted as a retry or as an error, and the attempt is over.
LEMMA ClosureFailsInv ==
  ASSUME Inv, NEW e \in StmError, ClosureFails(e)
  PROVE  Inv'
<1> DEFINE c == [Top EXCEPT !.err = e,
                            !.n_retry = @ + IF e = "Retry" THEN Top.profiled ELSE 0,
                            !.n_error = @ + IF e = "Failure" THEN Top.profiled ELSE 0]
           d == [c EXCEPT !.at = "control"]
<1>1. stack # <<>> /\ Top.at = "closure"  BY DEF ClosureFails, At
<1>2. Top \in Call /\ Balanced(Top)  BY <1>1, OneCall
<1>3. c \in Call /\ AddUp(c, 0)
  <2>1. AddUp(Top, 1)  BY <1>1, <1>2 DEF Balanced
  <2>2. /\ Top.n_attempts \in Nat /\ Top.n_retry \in Nat /\ Top.n_error \in Nat
        /\ Top.conflicts \in Nat /\ Top.profiled \in {0, 1}
    BY <1>2 DEF Call
  <2>3. c \in Call
    <3>1. /\ Top.n_retry + (IF e = "Retry" THEN Top.profiled ELSE 0) \in Nat
          /\ Top.n_error + (IF e = "Failure" THEN Top.profiled ELSE 0) \in Nat
      BY <2>2
    <3> QED  BY <1>2, <3>1 DEF Call
  <2>4. /\ c.n_attempts = Top.n_attempts /\ c.conflicts = Top.conflicts
        /\ c.profiled = Top.profiled
    BY <1>2 DEF Call
  <2>5. CASE e = "Retry"
    <3>1. c.n_retry = Top.n_retry + Top.profiled /\ c.n_error = Top.n_error
      BY <1>2, <2>2, <2>5 DEF Call
    <3> QED  BY <2>1, <2>2, <2>3, <2>4, <3>1 DEF AddUp
  <2>6. CASE e = "Failure"
    <3>1. c.n_error = Top.n_error + Top.profiled /\ c.n_retry = Top.n_retry
      BY <1>2, <2>2, <2>6 DEF Call
    <3> QED  BY <2>1, <2>2, <2>3, <2>4, <3>1 DEF AddUp
  <2> QED  BY <2>5, <2>6 DEF StmError
<1>4. d \in Call /\ Balanced(d)
  <2> HIDE DEF c
  <2>1. d \in Call /\ d.at = "control"  BY <1>3 DEF Call
  <2>2. /\ d.n_attempts = c.n_attempts /\ d.n_retry = c.n_retry /\ d.n_error = c.n_error
        /\ d.conflicts = c.conflicts /\ d.profiled = c.profiled
    BY <1>3 DEF Call
  <2> QED  BY <1>3, <2>1, <2>2 DEF Balanced, AddUp
<1>5. Continue(IF c.mode \in ControlModes THEN d ELSE AfterError(c))
      /\ UNCHANGED <<running, results>>
  BY DEF ClosureFails
<1> HIDE DEF c, d
<1> QED  BY <1>1, <1>3, <1>4, <1>5, AfterErrorLemma, ContinueInv

LEMMA InvStep == Inv /\ [Next]_vars => Inv'
<1> SUFFICES ASSUME Inv, [Next]_vars PROVE Inv'  OBVIOUS
<1>1. CASE UNCHANGED vars
  BY <1>1 DEF vars, Inv, TypeOK, GuardExact, TalliesAddUp
<1>2. ASSUME NEW m \in Modes, NEW p \in {0, 1}, Enter(m, p)  PROVE Inv'
  <2>1. stack = <<>>  BY <1>2 DEF Enter, Inv, GuardExact
  <2>2. stack' = <<NewCall(m, p)>> /\ running' = TRUE
    BY <1>2, <2>1 DEF Enter
  <2> HIDE DEF NewCall
  <2> QED  BY <1>2, <2>2, NewCallLemma
           DEF Enter, Inv, TypeOK, GuardExact, TalliesAddUp, Balanced, results
<1>3. CASE Nested
  BY <1>3 DEF Nested, Inv, TypeOK, GuardExact, TalliesAddUp
<1>4. CASE Panic
  BY <1>4, DropInv DEF Panic, InUserCode, At, Inv, TypeOK, TalliesAddUp
<1>5. CASE ClosureOk
  <2>1. stack # <<>> /\ Top.at = "closure"  BY <1>5 DEF ClosureOk, At
  <2>2. Top \in Call /\ Balanced(Top)  BY <2>1, OneCall
  <2>3. [Top EXCEPT !.at = "commit"] \in Call /\ Balanced([Top EXCEPT !.at = "commit"])
    BY <2>1, <2>2 DEF Balanced, AddUp, Call
  <2> QED  BY <1>5, <2>1, <2>3, ContinueInv DEF ClosureOk
<1>6. CASE CommitOk
  BY <1>6, ReturnInv DEF CommitOk, At
<1>7. CASE CommitFails
  <2> DEFINE c == [Top EXCEPT !.conflicts = @ + 1]
  <2>1. stack # <<>> /\ Top.at = "commit"  BY <1>7 DEF CommitFails, At
  <2>2. Top \in Call /\ Balanced(Top)  BY <2>1, OneCall
  <2>3. c \in Call /\ AddUp(c, 0)
    BY <2>1, <2>2 DEF Balanced, AddUp, Call
  <2>4. Again(c) \in Call /\ Balanced(Again(c))  BY <2>3, AgainLemma
  <2> QED  BY <1>7, <2>1, <2>4, ContinueInv DEF CommitFails
<1>8. CASE ClosureAborts
  BY <1>8, ReturnInv DEF ClosureAborts, At
<1>9. CASE ControlRetry \/ EndWait
  <2>1. stack # <<>> /\ Top.at \in {"control", "wait"}
    BY <1>9 DEF ControlRetry, EndWait, At
  <2>2. Top \in Call /\ AddUp(Top, 0)  BY <2>1, OneCall DEF Balanced
  <2>3. CASE ControlRetry
    BY <2>1, <2>2, <2>3, AfterErrorLemma, ContinueInv DEF ControlRetry
  <2>4. CASE EndWait
    BY <2>1, <2>2, <2>4, AgainLemma, ContinueInv DEF EndWait
  <2> QED  BY <1>9, <2>3, <2>4
<1>10. CASE ControlAbort
  BY <1>10, ReturnInv DEF ControlAbort, At
<1> QED
  BY <1>1, <1>2, <1>3, <1>4, <1>5, <1>6, <1>7, <1>8, <1>9, <1>10, ClosureFailsInv DEF Next

\* Types are respected.
THEOREM TypeCorrect == Spec => []TypeOK
<1>1. Inv => TypeOK  BY DEF Inv
<1> QED  BY <1>1, InvInit, InvStep, PTL DEF Spec

\* The flag is set exactly while a transaction is open, and there is one only.
THEOREM NeverNested == Spec => []GuardExact
<1>1. Inv => GuardExact  BY DEF Inv
<1> QED  BY <1>1, InvInit, InvStep, PTL DEF Spec

\* The tallies account for every attempt, for any number of attempts.
THEOREM TalliesAreRight == Spec => []TalliesAddUp
<1>1. Inv => TalliesAddUp  BY DEF Inv
<1> QED  BY <1>1, InvInit, InvStep, PTL DEF Spec
=============================================================================
