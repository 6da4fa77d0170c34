SPECIFICATION Spec
CONSTANTS
  Ssids = {"home", "home.5g"}
  Passphrases = {"p1", "p2"}
  ConnectKinds = {"open", "psk"}
  AddKinds = {"eap"}
  Dotted <- MCDotted
  MaxRequests = 3
  MaxNets = 3
  MaxCrashes = 1
  Manuals = {"manual"}
  Autos = {"auto1", "auto2"}
  NoUrl = "auto"
  Off = "off"
  MAX_CALL_DEPTH = 6
  AddressBits = 4
  Dns <- PacDns
  MyAddress <- PacAddress
CHECK_DEADLOCK FALSE
INVARIANTS
  RepliesMatch
  
PROPERTIES
  ConnectedAsStored
  
  
