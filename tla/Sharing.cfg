SPECIFICATION Spec
CONSTANTS
  eth = eth
  wlan = wlan
  usb = usb
  r1 = r1
  r2 = r2
  Interfaces = {eth, wlan, usb}
  Radios = {wlan}
  Uplinks = {eth}
  RequestedZones = {"home", "trusted"}
  Rules <- MCRules
  MaxFailures = 1
  MaxServers = 2
INVARIANTS
  TypeOK
  OneZoneOneRule
  MasqueradeIffForwarded
  TableFaithful
  
  RadiosTracked
