\* Two files with the same last path component.
SPECIFICATION Spec
CONSTANTS
  f1 = f1
  f2 = f2
  h1 = h1
  h2 = h2
  Files = {f1, f2}
  Names = {f1}
  Terms = {"a", "b"}
  Unreadable = Unreadable
  Dirs = {"bin"}
  DefaultDir = "bin"
  BinName <- SharedName
  Beneath <- FlatDirs
  Device <- OneDevice
  Handlers = {h1, h2}
  Movers = {}
  Requests = {"index"}
  Batches <- SingleFiles
  Texts <- TwoTexts
  MaxGeneration = 2
  MaxQueue = 2
  MaxCrashes = 0
  MaxFaults = 0
SYMMETRY HandlerSymmetry
INVARIANTS
  PendingOrPersisted
