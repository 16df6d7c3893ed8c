SPECIFICATION Spec
CONSTANTS
  Nodes = {n1, n2}
  Configs <- HalfRate
  Initial <- BaseEach
  SlowTx = 4
  Timed = TRUE
  Events = {"settled"}
  Faults = {"loss"}
  MaxEnv = 3
  MaxLoss = 1
  MaxQ = 6
PROPERTY StaysUp
