SPECIFICATION Spec
CONSTANTS
  Drives <- MCDrives
  IDs <- OneID
  Pool <- OneIDPool
  SwiftIDs = {""}
  DistinctIDs = FALSE
  Edits <- NoEdits
  Contents = {"xfs"}
  Keys = FALSE
  ChrootMount = "none"
  Faults = {}
  MaxFaults = 0
  Upsets = {"fail", "plug"}
  MaxUpsets = 2
  MinDevices = 0
  QueueCap = 1
  MidPass = FALSE
PROPERTIES
  AssignsUnusedID
