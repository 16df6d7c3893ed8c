SPECIFICATION Spec
CONSTANTS
  Types = {"isis", "static"}
  SystemTypes = {}
  StaticTypes = {"static"}
  meta_q_map <- MetaQMap
  Nhs = {"n1", "n2"}
  Adverts <- TwoProtocols
  RedistTypes = {"isis", "static"}
  AllowDelete = FALSE
  KernelNexthops = FALSE
  Faults = {"kernel", "ack"}
  Events = {"add", "del", "rmap"}
  MaxEnv = 4
  DplaneLimit = 2
  None = None
CHECK_DEADLOCK FALSE
INVARIANTS
  InstalledInKernel
  OwnerTold
  FailureReported
