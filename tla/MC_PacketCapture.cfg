CONSTANTS
  V4Addrs = {1, 2}
  Ports = {80, 443}
  Inodes = {7}
  BATCH = 2
  LWAT = 2
  HWAT = 4
  MaxPackets = 4
  Tables <- MCOneInodeTables
  Packets <- MCPackets
  HostMacs <- MCHostMacs
  IfaceSets <- MCSpareIfaces

SPECIFICATION StopFairSpec

INVARIANT TypeOK
INVARIANT PacketsInCaptureOrder
INVARIANT LocalQueueBounded
INVARIANT PacketResolvedIffListed
PROPERTY StopClosesCapture
