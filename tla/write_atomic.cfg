CONSTANTS
  t1 = t1
  t2 = t2
  t3 = t3
  zero = zero
  one = one
  nil = nil
  Addr <- Addrs
  Val = {zero}
  Nil = nil
  Thread <- Two
  Var = {1, 2}
  Fns <- MCFns
  Ops <- OpsWriteAtomic
  Modes = {"with"}
  InitValue <- MCInitValue
  MaxOps <- TwoCalls
  MaxAlts = 0
  EarlyConflictDetection = FALSE
  WaitOnRetry = TRUE
SPECIFICATION Spec
VIEW HeapView
CHECK_DEADLOCK FALSE
INVARIANTS NoLostWakeup
