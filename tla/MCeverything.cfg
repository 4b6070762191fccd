\* Every request that changes something, with a crash and a disk fault.
SPECIFICATION Spec
CONSTANTS
  f1 = f1
  f2 = f2
  h1 = h1
  h2 = h2
  Files = {f1}
  Names = {f1}
  Terms = {"a", "b"}
  Unreadable = Unreadable
  Dirs = {"bin", "other"}
  DefaultDir = "bin"
  BinName <- OwnName
  Beneath <- FlatDirs
  Device <- TwoDevices
  Handlers = {h1, h2}
  Movers = {h1}
  Requests = {"index", "delete", "config", "build"}
  Batches <- SingleFiles
  Texts <- EmptyAndFull
  MaxGeneration = 2
  MaxQueue = 2
  MaxCrashes = 1
  MaxFaults = 1
INVARIANTS
  TypeOK
  Coherent
  SegmentsSound
  SaveFindsEveryTerm
  TornCounted
