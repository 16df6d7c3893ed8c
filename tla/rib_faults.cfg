SPECIFICATION FairSpec
CONSTANTS
  Types = {"isis", "static"}
  SystemTypes = {}
  StaticTypes = {"static"}
  meta_q_map <- MetaQMap
  Nhs = {"n1", "n2"}
  Adverts <- TwoProtocols
  RedistTypes = {"isis", "static"}
  AllowDelete = TRUE
  KernelNexthops = TRUE
  Faults = {"kernel", "ack", "enqueue"}
  Events = {"add", "del", "rmap", "lost"}
  MaxEnv = 3
  DplaneLimit = 0
  None = None
CHECK_DEADLOCK FALSE
INVARIANTS
  SelectedFibLinked
  RemovedQueued
  QueuedInFlight
  SequenceIdentity
PROPERTIES
  Converges
