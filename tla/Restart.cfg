SPECIFICATION Spec
CONSTANTS
  Drives <- ThreeDrives
  IDs <- MCIDs
  Pool <- SparePool
  SwiftIDs = {""}
  DistinctIDs = FALSE
  Edits <- NoEdits
  Contents = {"blank", "xfs"}
  Keys = TRUE
  ChrootMount = "none"
  Faults = {}
  MaxFaults = 0
  Upsets = {"plug", "crash", "reboot"}
  MaxUpsets = 2
  MinDevices = 0
  QueueCap = 1
  MidPass = TRUE
INVARIANTS
  PoolOrder
  NoFalseAlarm
