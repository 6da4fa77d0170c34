SPECIFICATION VpnSpec
CONSTANTS
  OpenVpnProfiles = {"office"}
  WithCredentials = {"office"}
  WireGuards = {"wg0"}
  Tuns = {"tun0"}
  Fallback <- MCFallback
  Attempts = {1, 2}
INVARIANTS
  VpnTypeOK
  SessionsTracked
PROPERTIES
  DisconnectStops
  ConnectReturns
