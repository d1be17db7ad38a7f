SPECIFICATION Spec
CONSTANTS
  Drives <- MCDrives
  IDs <- MCIDs
  Pool <- MCPool
  SwiftIDs = {"", "a", "spare"}
  DistinctIDs = FALSE
  Edits <- NoEdits
  Contents = {"blank", "xfs"}
  Keys = FALSE
  ChrootMount = "none"
  Faults = {"mount", "umount", "mkfs", "ln", "read", "write"}
  MaxFaults = 1
  Upsets = {"umount", "readonly", "diskerror", "unplug", "plug", "fail", "reinstate", "durable", "crash", "reboot"}
  MaxUpsets = 1
  MinDevices = 0
  QueueCap = 1
  MidPass = TRUE
INVARIANTS
  TypeOK
  UniqueAssignments
