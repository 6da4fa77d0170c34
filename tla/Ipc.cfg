SPECIFICATION Spec
CONSTANTS
  c1 = c1
  c2 = c2
  Conns = {c1, c2}
  Peer <- MCPeer
  Requests = {"ActivateConnection", "Reload", "Malformed"}
  MaxConnections = 2
  SockCap = 1
  MaxEvents = 2
  MaxCalls <- MCMaxCalls
  Readers = {c1}
INVARIANTS
  TypeOK
  SlotAccounting
  
  NoStaleRegistration
  WholeFrames
PROPERTIES
  
  SlotsReturn
  Answered
