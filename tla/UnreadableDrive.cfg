SPECIFICATION Spec
CONSTANTS
  Drives <- OneDrive
  IDs <- OneID
  Pool <- NoPool
  SwiftIDs = {"", "a"}
  DistinctIDs = FALSE
  Edits <- NoEdits
  Contents = {"xfs"}
  Keys = FALSE
  ChrootMount = "none"
  Faults = {}
  MaxFaults = 0
  Upsets = {"diskerror", "fail", "reinstate"}
  MaxUpsets = 3
  MinDevices = 0
  QueueCap = 1
  MidPass = FALSE
INVARIANTS
  KeepsGoing
