SPECIFICATION FairSpec
CONSTANTS
  k1 = k1
  k2 = k2
  f1 = f1
  f2 = f2
  w1 = w1
  w2 = w2
  Keys = {k1, k2}
  Flights = {f1, f2}
  Waiters = {w1, w2}
  Nil = Nil
CHECK_DEADLOCK FALSE
INVARIANTS TypeOK VouchedFlushed NoLostWakeup
PROPERTIES CallsReturn ImplementsBarrier
