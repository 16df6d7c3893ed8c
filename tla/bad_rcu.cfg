CONSTANTS
  Main = main
  Threads = {main, t1, t2}
  MaxItems = 2
  MaxDepth = 1
  MaxShut = 0
  MaxRegistering = 2
SPECIFICATION Spec
INVARIANT NoUseAfterFree
CHECK_DEADLOCK FALSE
