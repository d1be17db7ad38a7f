SPECIFICATION Spec
CONSTANTS
  Links <- MCLinks
  Devices <- MCDevices
  Multipath <- MCMultipath
  Partitioned <- MCPartitioned
INVARIANTS
  FinderTypeOK
  ListedOnce
  ListsWhatIsThere
  IgnoresPartitioned
  BrokenReported
  BackingDeviceFound
PROPERTIES
  InferredIdentity
