SPECIFICATION Spec
CHECK_DEADLOCK FALSE
CONSTANTS
  MaxSessions = 2
  Pushes <- MCPushes
  Text <- MCText
  DefaultRoute <- MCDefaultRoute
  None = None
  BadMtu = BadMtu
  Refused <- MCRefused
  MaxTuns = 4
INVARIANTS DescriptorsOwned TunnelMatchesPush PersistentTunnel CleanConfiguration
