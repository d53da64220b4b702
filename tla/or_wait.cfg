\* A thread that sleeps after alternatives, nested ones too, and one that stores.
CONSTANTS
  t1 = t1  t2 = t2  t3 = t3
  zero = zero  one = one
  nil = nil
  Addr <- Addrs
  Val = {zero}
  Nil = nil
  Thread <- Two
  Var = {1, 2}
  Fns <- MCFns
  Ops <- OpsOrWait
  Modes = {"with_control"}
  InitValue <- MCInitValue
  MaxOps <- FiveToOne
  MaxAlts = 2
  EarlyConflictDetection = FALSE
  WaitOnRetry = TRUE
SPECIFICATION Spec
VIEW HeapView
INVARIANT WaitsOnAllReads
PROPERTY WaitsUnlessChanged
CHECK_DEADLOCK FALSE
