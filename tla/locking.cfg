CONSTANTS
  t1 = t1
  t2 = t2
  t3 = t3
  zero = zero
  one = one
  nil = nil
  Addr <- Addrs
  Val = {zero}
  Nil = nil
  Thread <- Three
  Var = {1, 2}
  Fns <- MCFns
  Ops <- OpsReadWrite
  Modes = {"with"}
  InitValue <- MCInitValue
  MaxOps <- TwoCalls
  MaxAlts = 0
  EarlyConflictDetection = FALSE
  WaitOnRetry = FALSE
SYMMETRY ThreadSymmetry
SPECIFICATION Spec
INVARIANTS  LockSafety NoDeadlock ConsistentCommit
PROPERTIES FailsOnlyOnConflict
VIEW HeapView
