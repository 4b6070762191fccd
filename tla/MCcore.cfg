\* Indexing, deletion and search around the serializer, with a crash and a disk fault.
SPECIFICATION Spec
CONSTANTS
  f1 = f1
  f2 = f2
  h1 = h1
  h2 = h2
  Files = {f1, f2}
  Names = {f1, f2}
  Terms = {"a", "b"}
  Unreadable = Unreadable
  Dirs = {"bin"}
  DefaultDir = "bin"
  BinName <- OwnName
  Beneath <- FlatDirs
  Device <- OneDevice
  Handlers = {h1, h2}
  Movers = {}
  Requests = {"index", "delete", "search"}
  Batches <- UpToTwoFiles
  Texts <- TwoTexts
  MaxGeneration = 2
  MaxQueue = 2
  MaxCrashes = 1
  MaxFaults = 1
SYMMETRY Symmetry
INVARIANTS
  Coherent
  TotalIsSum
  SaveFindsEveryTerm
  LossesCounted
  OrphansCounted
PROPERTIES
  ImplementsDocumentStore
  ReadersSeeOneIndex
  CleanShutdownKeepsIndex
