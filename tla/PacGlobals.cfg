SPECIFICATION Spec
CONSTANTS
  MAX_CALL_DEPTH = 6
  AddressBits = 4
  Dns <- PacDns
  MyAddress <- PacAddress
INVARIANT GlobalsVisible
