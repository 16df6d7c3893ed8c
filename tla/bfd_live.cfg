SPECIFICATION FairSpec
CONSTANTS
  Nodes = {n1, n2}
  Configs <- Roles
  Initial <- BaseEach
  SlowTx = 4
  Timed = TRUE
  Events = {"apply", "restart"}
  Faults = {"loss"}
  MaxEnv = 2
  MaxLoss = 1
  MaxQ = 6
INVARIANTS ClientView DetectionArmed
PROPERTY Recovers
