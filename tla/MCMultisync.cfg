SPECIFICATION MultisyncSpec
CONSTANTS
  f1 = f1  f2 = f2  s1 = s1  s2 = s2  c1 = c1  c2 = c2  l1 = l1  h1 = h1  h2 = h2  m1 = m1  m2 = m2
  Files = {f1}
  FileSize <- MCFileSize
  Digest <- MCDigest
  BlockSize = 2
  UIntMod = 16
  Hosts = {h1, h2}
  Paths = {"a", "long"}
  PathLen <- MCPathLen
  ReceiveRoom = 48
  MaxQueue = 1
  CrossDevice = {}
  DiskMayFill = FALSE
  GoodbyeGarbage = {TRUE}
  Clients = {c1}
  HostOf <- MCHostOf
  IdGarbage = {h1}
  Servers = {s1}
  Source <- MCSource
  Dest <- MCDest
  Contents <- NoContents
  Monitors = {l1}
  Processes = {s1, c1, l1}
  Machine <- ServersApart
  GroupPort = 90
  Unreliable = TRUE
  RxLimit = 2
  EphemeralPorts = {90}
  OtherTraffic <- LongTraffic
INVARIANTS
  SocketsOwned
PROPERTIES
  DeliversWholeFiles
