SPECIFICATION NoGoodbyeSpec
CONSTANTS
  f1 = f1  f2 = f2  c1 = c1  h1 = h1  h2 = h2
  Files = {f1, f2}
  FileSize <- MCFileSize
  Digest <- MCDigest
  BlockSize = 2
  UIntMod = 16
  Hosts = {h1, h2}
  Paths = {"a", "b"}
  PathLen <- MCPathLen
  ReceiveRoom = 48
  MaxQueue = 3
  CrossDevice = {}
  DiskMayFill = FALSE
  GoodbyeGarbage = {TRUE, FALSE}
  Clients = {c1}
  HostOf <- MCHostOf
  IdGarbage = {h1, h2}
PROPERTY OnlyAGoodbyeCompletes
