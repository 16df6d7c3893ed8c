CONSTANTS
  Bumpers = {b1, b2}
  Owner = o
  Waiters = {w1, w2}
  M = 4
  Span = 1
  First = 3
  MaxN = 5
SPECIFICATION LiveSpec
INVARIANTS TypeOK NoLostWakeup CalInRange
PROPERTY Implements
