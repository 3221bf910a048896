SPECIFICATION FairSpec
CONSTANTS
  TableServers = {tab}
  SodiumServers = {sod}
  SSLServers = {}
  Public = Public
  Default = Default
  Nothing = Nothing
  Torn = Torn
  Mixed = Mixed
  MaxSaves = 2
INVARIANTS
  Installed
  OneConfiguration
  OpenSSLSurvives
PROPERTIES
  ListensOnceComplete
CHECK_DEADLOCK FALSE
