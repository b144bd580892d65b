CONSTANTS
  V4Addrs = {1, 2}
  Ports = {80, 443}
  Inodes = {7, 8}
  BATCH = 2
  LWAT = 2
  HWAT = 4
  MaxPackets = 4
  Tables <- MCTables
  Packets <- MCPackets
  HostMacs <- MCHostMacs
  IfaceSets <- MCIfaceSets

SPECIFICATION Spec

INVARIANT DirectionMatchesHost
