SPECIFICATION Spec
CONSTANTS
  Drives <- MCDrives
  IDs <- MCIDs
  Pool <- MCPool
  SwiftIDs = {"", "a", "spare"}
  DistinctIDs = FALSE
  Edits <- ReplaceBySpare
  Contents = {"blank", "xfs"}
  Keys = FALSE
  ChrootMount = "none"
  Faults = {}
  MaxFaults = 0
  Upsets = {"edit", "umount", "readonly", "diskerror", "reinstate", "durable", "crash", "reboot"}
  MaxUpsets = 3
  MinDevices = 0
  QueueCap = 1
  MidPass = FALSE
INVARIANTS
  NoOvermount
  ServesOwnID
  BrokenUnmounted
  PropagationCleared
  AssignmentsAsDeclared
  AuditTruthful
PROPERTIES
  UnmountsAnnounced
  KeepsSwiftIDs
  AssignsUnusedID
  ImplementsPlacement
