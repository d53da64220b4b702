CONSTANTS
  t1 = t1
  t2 = t2
  t3 = t3
  zero = zero
  one = one
  nil = nil
  Addr <- Addrs
  Val = {zero}
  Nil = nil
  Thread <- Two
  Var = {1, 2}
  Fns <- MCFns
  Ops <- OpsOrBlind
  Modes = {"with"}
  InitValue <- MCInitValue
  MaxOps <- ThreeCalls
  MaxAlts = 1
  EarlyConflictDetection = FALSE
  WaitOnRetry = TRUE
SPECIFICATION Spec
VIEW HeapView
CHECK_DEADLOCK FALSE
INVARIANTS WaitsOnAllReads
