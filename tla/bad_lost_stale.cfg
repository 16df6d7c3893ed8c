SPECIFICATION Spec
CONSTANTS
  Types = {"isis", "static"}
  SystemTypes = {}
  StaticTypes = {"static"}
  meta_q_map <- MetaQMap
  Nhs = {"n1", "n2"}
  Adverts <- TwoProtocols
  RedistTypes = {"isis", "static"}
  AllowDelete = FALSE
  KernelNexthops = TRUE
  Faults = {}
  Events = {"add", "del", "lost"}
  MaxEnv = 4
  DplaneLimit = 2
  None = None
CHECK_DEADLOCK FALSE
INVARIANTS
  FibMatchesRib
