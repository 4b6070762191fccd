\* Builds that move the segments to another device and back, beside indexing and searching; no symmetry.
SPECIFICATION FairSpec
CONSTANTS
  f1 = f1
  f2 = f2
  h1 = h1
  h2 = h2
  Files = {f1, f2}
  Names = {f1, f2}
  Terms = {"a", "b"}
  Unreadable = Unreadable
  Dirs = {"bin", "other"}
  DefaultDir = "bin"
  BinName <- OwnName
  Beneath <- FlatDirs
  Device <- TwoDevices
  Handlers = {h1, h2}
  Movers = {h1}
  Requests = {"index", "build", "search"}
  Batches <- SingleFiles
  Texts <- OneText
  MaxGeneration = 2
  MaxQueue = 2
  MaxCrashes = 0
  MaxFaults = 0
INVARIANTS
  PendingOrPersisted
  NeverTerminates
PROPERTIES
  ImplementsDocumentStore
  CleanShutdownKeepsIndex
  EventuallySaved
  ShutdownCompletes
