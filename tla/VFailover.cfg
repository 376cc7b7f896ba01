SPECIFICATION FairClientSpec
CONSTANTS
  a = a
  b = b
  c = c
  x = x
  y = y
  z = z
  Nobody = Nobody
  Addrs <- MCThree
  Top = 2
  BroadcastCap = 1
  PruneFailures = 2
  StaleAfter = 1
  MaxCount = 1
  Configs <- MCFailover
  Packets <- MCPackets
  HeaderSize = 8
  MaxSize = 11
  MaxAttempts = 1
  MaxPending = 2
  EntityBatch = 1
  SilentAfter = 1
  RotateAfter = 1
PROPERTY LivePeerReached
