CONSTANTS
  Main = main
  Threads = {main, t1}
  MaxItems = 2
  MaxDepth = 2
  MaxShut = 1
  MaxRegistering = 1
SPECIFICATION LiveSpec
INVARIANTS TypeOK NoUseAfterFree PopSafe EndEmpty
PROPERTY SweeperAdvances
CHECK_DEADLOCK FALSE
