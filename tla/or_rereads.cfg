\* A thread whose two alternatives read the same TVar, before and after it changed.
CONSTANTS
  t1 = t1  t2 = t2  t3 = t3
  zero = zero  one = one
  nil = nil
  Addr <- Addrs
  Val = {zero}
  Nil = nil
  Thread <- Two
  Var = {1, 2}
  Fns <- MCFns
  Ops <- OpsOrRereads
  Modes = {"with_control"}
  InitValue <- MCInitValue
  MaxOps <- ThreeCalls
  MaxAlts = 1
  EarlyConflictDetection = FALSE
  WaitOnRetry = TRUE
SPECIFICATION Spec
VIEW HeapView
INVARIANT NoLostWakeup
CHECK_DEADLOCK FALSE
