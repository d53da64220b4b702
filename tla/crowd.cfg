\* Two readers that sleep and three threads that contend for one lock, under fair scheduling.
CONSTANTS
  t1 = t1  t2 = t2  t3 = t3
  zero = zero  one = one
  nil = nil
  Addr <- Addrs
  Val = {zero}
  Nil = nil
  Thread <- Three
  Var = {1}
  Fns <- MCFns
  Ops <- OpsCrowd
  Modes = {"with_control"}
  InitValue <- MCInitValue
  MaxOps <- OneCall
  MaxAlts = 0
  EarlyConflictDetection = FALSE
  WaitOnRetry = TRUE
SPECIFICATION FairSpec
VIEW HeapView
INVARIANT NoLostWakeup
PROPERTIES CommitTerminates NotifiesWaiters
CHECK_DEADLOCK FALSE
