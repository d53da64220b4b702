\* Two threads wait, are woken and clean up, under fair scheduling.
CONSTANTS
  v1 = v1
  t1 = t1  t2 = t2
  w1 = w1
  b1 = b1  b2 = b2  b3 = b3
  nil = nil
  Nil = nil
  Var <- OneVar
  Waiter <- TwoWaiters
  Waker <- OneWaker
  Block <- ThreeBlocks
  DeadLimit = 1
SPECIFICATION FairSpec
INVARIANT GarbageBounded
PROPERTIES Notifies TakenReturns
