\* Nested alternatives, early conflicts and atomic accesses in between.
CONSTANTS
  t1 = t1
  t2 = t2
  t3 = t3
  zero = zero
  one = one
  nil = nil
  Addr <- Addrs
  Val <- Bits
  Nil = nil
  Thread <- Two
  Var = {1, 2}
  Fns <- MCFns
  Ops <- OpsOr
  Modes = {"with_control_and_err"}
  InitValue <- MCInitValue
  MaxOps <- ThreeToOne
  MaxAlts = 2
  EarlyConflictDetection = TRUE
  WaitOnRetry = FALSE
SYMMETRY BitSymmetry
SPECIFICATION Spec
VIEW HeapView
PROPERTIES Atomicity
