\* A reconfiguration to a subdirectory, and clean restarts.
SPECIFICATION Spec
CONSTANTS
  f1 = f1
  h1 = h1
  Files = {f1}
  Names = {f1}
  Terms = {"a", "b"}
  Unreadable = Unreadable
  Dirs = {"bin", "bin/sub"}
  DefaultDir = "bin"
  BinName <- OwnName
  Beneath <- NestedDirs
  Device <- OneDevice
  Handlers = {h1}
  Movers = {h1}
  Requests = {"index", "delete", "config"}
  Batches <- SingleFiles
  Texts <- TwoTexts
  MaxGeneration = 2
  MaxQueue = 1
  MaxCrashes = 0
  MaxFaults = 0
INVARIANTS
  ScoreFindsFile
