SPECIFICATION Spec
CONSTANTS
  Drives <- OneDrive
  IDs <- OneID
  Pool <- NoPool
  SwiftIDs = {"", "a"}
  DistinctIDs = FALSE
  Edits <- NoEdits
  Contents = {"blank", "luks"}
  Keys = TRUE
  ChrootMount = "none"
  Faults = {}
  MaxFaults = 0
  Upsets = {"crash", "durable"}
  MaxUpsets = 2
  MinDevices = 0
  QueueCap = 1
  MidPass = FALSE
INVARIANTS
  BrokenUnmounted
