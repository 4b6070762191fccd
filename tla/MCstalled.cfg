\* A deletion beside a migration, and then an indexing request.
SPECIFICATION FairSpec
CONSTANTS
  f1 = f1
  f2 = f2
  h1 = h1
  h2 = h2
  Files = {f1}
  Names = {f1}
  Terms = {"a", "b"}
  Unreadable = Unreadable
  Dirs = {"bin", "other"}
  DefaultDir = "bin"
  BinName <- OwnName
  Beneath <- FlatDirs
  Device <- OneDevice
  Handlers = {h1, h2}
  Movers = {h1}
  Requests = {"index", "delete", "config"}
  Batches <- SingleFiles
  Texts <- OneText
  MaxGeneration = 2
  MaxQueue = 2
  MaxCrashes = 0
  MaxFaults = 0
PROPERTIES
  EventuallySaved
