SPECIFICATION FairSpec
CONSTANTS
  Servers <- MCServers
  MaxFails = 4
INVARIANTS OneHello ServersAnnounced
PROPERTY HelloSaid
CHECK_DEADLOCK FALSE
