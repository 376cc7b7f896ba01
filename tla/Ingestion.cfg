SPECIFICATION FairClientSpec
CONSTANTS
  a = a
  b = b
  c = c
  x = x
  y = y
  z = z
  Nobody = Nobody
  Addrs <- MCAddrs
  Top = 3
  BroadcastCap = 2
  PruneFailures = 2
  StaleAfter = 1
  MaxCount = 2
  Configs <- MCConfigs
  Packets <- MCPackets
  HeaderSize = 8
  MaxSize = 11
  MaxAttempts = 2
  MaxPending = 1
  EntityBatch = 1
  SilentAfter = 1
  RotateAfter = 2
INVARIANT ClientTypeOK
INVARIANT GarbledNeedsInterrupt
PROPERTY KeepsReading
