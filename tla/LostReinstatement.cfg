SPECIFICATION FairSpec
CONSTANTS
  Drives <- OneDrive
  IDs <- OneID
  Pool <- NoPool
  SwiftIDs = {"", "a"}
  DistinctIDs = FALSE
  Edits <- NoEdits
  Contents = {"xfs"}
  Keys = FALSE
  ChrootMount = "none"
  Faults = {}
  MaxFaults = 0
  Upsets = {"diskerror", "reinstate"}
  MaxUpsets = 2
  MinDevices = 0
  QueueCap = 1
  MidPass = FALSE
PROPERTIES
  DeletedFlagNoticed
