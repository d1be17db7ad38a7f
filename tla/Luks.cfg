SPECIFICATION FairSpec
CONSTANTS
  Drives <- MCDrives
  IDs <- OneID
  Pool <- OneIDPool
  SwiftIDs = {"", "a"}
  DistinctIDs = FALSE
  Edits <- NoEdits
  Contents = {"blank", "luks"}
  Keys = TRUE
  ChrootMount = "private"
  Faults = {}
  MaxFaults = 0
  Upsets = {"umount", "close", "readonly", "diskerror", "reinstate", "plug"}
  MaxUpsets = 5
  MinDevices = 1
  QueueCap = 1
  MidPass = FALSE
INVARIANTS
  BrokenUnmounted
  OwnContainersClosed
PROPERTIES
  Settles
