SPECIFICATION Spec
CONSTANTS
  Nodes = {n1, n2}
  Configs <- EchoConfigs
  Initial <- EchoEach
  SlowTx = 1
  Timed = FALSE
  Events = {"apply", "disable", "restart"}
  Faults = {"loss", "dup"}
  MaxEnv = 2
  MaxLoss = 0
  MaxQ = 1
CHECK_DEADLOCK FALSE
SYMMETRY Ends
INVARIANTS TypeOK TwoWay ClientView EchoRuns
