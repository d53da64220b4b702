\* Early conflicts, retries and commits under fair scheduling.
CONSTANTS
  t1 = t1  t2 = t2  t3 = t3
  zero = zero  one = one
  nil = nil
  Addr <- Addrs
  Val = {zero}
  Nil = nil
  Thread <- Two
  Var = {1, 2}
  Fns <- MCFns
  Ops <- OpsLive
  Modes = {"with_err"}
  InitValue <- MCInitValue
  MaxOps <- ThreeCalls
  MaxAlts = 0
  EarlyConflictDetection = TRUE
  WaitOnRetry = TRUE
SPECIFICATION FairSpec
VIEW HeapView
INVARIANTS NoLostWakeup WaitsOnAllReads FailureIsOutdated
PROPERTIES WokenUp FailsOnlyOnConflict
CHECK_DEADLOCK FALSE
