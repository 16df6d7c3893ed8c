SPECIFICATION Spec
CONSTANTS
  Types = {"connect", "isis", "nhrp", "static"}
  SystemTypes = {"connect"}
  StaticTypes = {"static"}
  meta_q_map <- MetaQMap
  Nhs = {"n1", "n2"}
  Adverts <- Mixed
  RedistTypes = {"connect", "isis", "nhrp", "static"}
  AllowDelete = FALSE
  KernelNexthops = TRUE
  Faults = {}
  Events = {"add", "del", "rmap"}
  MaxEnv = 4
  DplaneLimit = 2
  None = None
CHECK_DEADLOCK FALSE
INVARIANTS
  TypeOK
  SelectedUnique
  FibMatchesRib
  InstalledTruth
  RedistAnnounced
PROPERTY
  VerdictsKept
