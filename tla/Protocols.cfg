SPECIFICATION ProtocolsSpec
CONSTANTS
  Configurations <- MCConfigurations
  Resolved <- ResolvedTo
  Stray <- MCStray
  UotConfigurations <- MCUotConfigurations
  Packets <- MCPackets
  UdpResolved <- ResolvedTo
  MaxPackets = 2
  Scripts <- MCScripts
  Accounts <- MCAccounts
  MaxPayload = 2
INVARIANTS SocksInv PacketsInOrder HttpInv
 
CHECK_DEADLOCK FALSE
