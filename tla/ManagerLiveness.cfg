SPECIFICATION FairSpec
CONSTANTS
  d1 = d1
  d2 = d2
  p1 = p1
  p2 = p2
  None = None
  Devices <- OneDevice
  Profiles <- OneProfile
  WifiIds = {p1}
  Contents <- AllContents
  Kinds <- OneOfEach
  Unmanageds <- NoneOrFirst
  VpnIf <- OnFirst
  Connectivities = {"Unknown", "Full"}
  MaxEvents = 1
  Lossy = TRUE
INVARIANTS
  ActivatedIsTracked
  
PROPERTIES
  AutoconnectServes
  
