SPECIFICATION DhcpSpec
CONSTANTS
  m1 = m1
  m2 = m2
  m3 = m3
  None = None
  Macs <- Clients
  Servers = {1, 2}
  PoolStart = 10
  PoolEnd = 11
SYMMETRY Symmetric
INVARIANTS
  DhcpTypeOK
  NoAddressShared
  ServesWhileFree
  AllocateIsLoop
PROPERTIES
  LeaseStable
