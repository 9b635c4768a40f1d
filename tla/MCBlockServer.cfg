SPECIFICATION FairServerSpec
CONSTANTS
  f1 = f1  f2 = f2  f3 = f3  s1 = s1  h1 = h1  h2 = h2
  Files = {f1, f2, f3}
  FileSize <- MCFileSize
  Digest <- MCDigest
  BlockSize = 2
  UIntMod = 16
  Hosts = {h1, h2}
  Paths = {"a", "long"}
  PathLen <- MCPathLen
  ReceiveRoom = 48
  MaxQueue = 6
  Servers = {s1}
  Source <- MCSource
  Dest <- MCDest
  Contents <- MCContents
INVARIANTS
  ServerTypeOK
  BlocksGenuine
  BlocksInOrder
  BlocksWithinLimit
  WriteHasFront
PROPERTIES
  OnlyHostsAddWork
  ServerEnds
