SPECIFICATION Spec
CONSTANTS
  Drives <- OneDrive
  IDs <- OneID
  Pool <- OneIDPool
  SwiftIDs = {"", "a"}
  DistinctIDs = FALSE
  Edits <- NoEdits
  Contents = {"blank", "luks"}
  Keys = TRUE
  ChrootMount = "none"
  Faults = {}
  MaxFaults = 0
  Upsets = {"diskerror"}
  MaxUpsets = 1
  MinDevices = 1
  QueueCap = 1
  MidPass = FALSE
PROPERTIES
  LeavesMappingsIntact
