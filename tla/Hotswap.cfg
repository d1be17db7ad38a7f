SPECIFICATION FairSpec
CONSTANTS
  Drives <- MCDrives
  IDs <- OneID
  Pool <- NoPool
  SwiftIDs = {"", "a"}
  DistinctIDs = TRUE
  Edits <- NoEdits
  Contents = {"xfs"}
  Keys = FALSE
  ChrootMount = "none"
  Faults = {}
  MaxFaults = 0
  Upsets = {"unplug", "plug", "umount", "crash", "diskerror", "reinstate"}
  MaxUpsets = 2
  MinDevices = 1
  QueueCap = 1
  MidPass = TRUE
INVARIANTS
  DrivesDistinct
  CaughtUp
  OrphansReported
PROPERTIES
  ImplementsDriveList
  Settles
  RemovedIsUnmounted
