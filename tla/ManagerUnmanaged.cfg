SPECIFICATION Spec
CONSTANTS
  d1 = d1
  d2 = d2
  p1 = p1
  p2 = p2
  None = None
  Devices <- TwoDevices
  Profiles <- OneProfile
  WifiIds = {}
  Contents <- WiredContents
  Kinds <- TwoWired
  Unmanageds <- NoneOrFirst
  VpnIf <- OnFirst
  Connectivities = {"Unknown"}
  MaxEvents = 2
  Lossy = FALSE
PROPERTIES
  UnmanagedUntouched
