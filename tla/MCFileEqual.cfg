SPECIFICATION Spec
CONSTANTS
  Files <- MCFiles
  FileSize <- MCSize
  Digest <- MCSize
  BlockSize = 4
  UIntMod = 4096
  Hosts = {1}
  Paths = {"one", "fit", "long"}
  PathLen <- MCPathLen
  ReceiveRoom = 48
  MaxQueue = 1
INVARIANTS
  EqualIsEqual
