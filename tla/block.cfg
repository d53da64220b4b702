\* Three wakers that come in time, late or never, and successive waits, under fair
\* scheduling and without help of the time-out.
CONSTANTS
  w1 = w1  w2 = w2  w3 = w3
  b1 = b1  b2 = b2  b3 = b3  b4 = b4
  owner = owner
  nil = nil
  Block <- FourBlocks
  Waker <- ThreeWakers
  Owner = owner
  Nil = nil
SPECIFICATION FairSpec
INVARIANTS SignalArrives WakesOnce
PROPERTY EndsWhenSet
