\* POST /config/indexBin, then a clean shutdown.
SPECIFICATION Spec
CONSTANTS
  f1 = f1
  f2 = f2
  h1 = h1
  h2 = h2
  Files = {f1, f2}
  Names = {f1, f2}
  Terms = {"a", "b"}
  Unreadable = Unreadable
  Dirs = {"bin", "other"}
  DefaultDir = "bin"
  BinName <- OwnName
  Beneath <- FlatDirs
  Device <- OneDevice
  Handlers = {h1, h2}
  Movers = {h1}
  Requests = {"index", "config"}
  Batches <- SingleFiles
  Texts <- TwoTexts
  MaxGeneration = 2
  MaxQueue = 2
  MaxCrashes = 0
  MaxFaults = 0
SYMMETRY FileSymmetry
PROPERTIES
  CleanShutdownKeepsIndex
