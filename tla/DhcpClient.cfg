SPECIFICATION Spec
CONSTANTS
  s1 = s1
  s2 = s2
  a1 = a1
  b1 = b1
  None = None
  Servers = {s1, s2}
  Pool <- MCPool
  MaxXid = 3
INVARIANTS
  TypeOK
  LeasesGranted
  ActivatedOnRecord
PROPERTIES
  RenewalKeepsLease
