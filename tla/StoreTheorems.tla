---------------------------- MODULE StoreTheorems ----------------------------
(***************************************************************************)
(* Without reconfiguration, Engine implements DocumentStore, through       *)
(* crashes and disk faults.  Each fault costs at most one update and       *)
(* leaves at most one deleted segment, and on a disk that works a clean    *)
(* shutdown leaves exactly the index it had in memory - for any files,     *)
(* terms, documents, threads and bounds, and however often the process     *)
(* crashed.                                                                *)
(***************************************************************************)
EXTENDS EngineTheorems

(* What save writes of a file depends on its metadata and postings alone.  *)
LEMMA SameSave ==
  ASSUME NEW kx, NEW jx, NEW g,
         jx.fileToTerms[g] = kx.fileToTerms[g], PostingsOf(jx, g) = PostingsOf(kx, g)
  PROVE  Save(jx, g) = Save(kx, g)
<1> DEFINE P == PostingsOf(kx, g)
           Q == PostingsOf(jx, g)
<1>1. /\ DOMAIN P = {u \in DOMAIN kx.index : g \in DOMAIN kx.index[u]}
      /\ \A t \in DOMAIN P : P[t] = kx.index[t][g]
  BY DEF PostingsOf
<1>2. /\ DOMAIN Q = {u \in DOMAIN jx.index : g \in DOMAIN jx.index[u]}
      /\ \A t \in DOMAIN Q : Q[t] = jx.index[t][g]
  BY DEF PostingsOf
<1>3. P = Q
  OBVIOUS
<1> HIDE DEF P, Q
<1>4. WrittenTerms(kx, g) = {t \in kx.fileToTerms[g].uniqueTerms : t \in DOMAIN P}
  BY <1>1 DEF WrittenTerms
<1>5. WrittenTerms(jx, g) = WrittenTerms(kx, g)
  BY <1>2, <1>3, <1>4 DEF WrittenTerms
<1>6. \A t \in WrittenTerms(kx, g) : jx.index[t][g] = kx.index[t][g]
  BY <1>1, <1>2, <1>3, <1>4
<1>7. [t \in Terms |-> IF t \in WrittenTerms(jx, g) THEN jx.index[t][g] ELSE {}]
        = [t \in Terms |-> IF t \in WrittenTerms(kx, g) THEN kx.index[t][g] ELSE {}]
  BY <1>5, <1>6
<1>. QED
  BY <1>7 DEF Save

(* Deleting a file (Indexer.cpp:104-122) leaves what save would write of   *)
(* every other file as it was,                                             *)
LEMMA RemoveKeeps ==
  ASSUME NEW kx, IsIndex(kx), CoherentIndex(kx), NEW file
  PROVE  LET jx == RemoveFileFromIndex(kx, file)
         IN  /\ DOMAIN jx.fileToTerms = DOMAIN kx.fileToTerms \ {file}
             /\ \A g \in DOMAIN jx.fileToTerms : Save(jx, g) = Save(kx, g)
<1> DEFINE jx == RemoveFileFromIndex(kx, file)
<1>1. /\ DOMAIN jx.fileToTerms = DOMAIN kx.fileToTerms \ {file}
      /\ \A g \in DOMAIN jx.fileToTerms :
           jx.fileToTerms[g] = kx.fileToTerms[g] /\ PostingsOf(jx, g) = PostingsOf(kx, g)
  BY RemoveCoherent
<1>. QED
  BY <1>1, SameSave

(* and so does merging the postings of a file the index does not hold.     *)
LEMMA RegisterKeeps ==
  ASSUME NEW kx, IsIndex(kx), CoherentIndex(kx), NEW file, ~FilePresent(kx, file),
         NEW localIndex, NEW metadata,
         metadata.uniqueTerms = DOMAIN localIndex, Tiles(localIndex, metadata.tokenCount),
         localIndex = [t \in DOMAIN localIndex |-> localIndex[t]]
  PROVE  LET jx == Register(InsertPostings(kx, file, localIndex), file, metadata)
         IN  /\ jx.fileToTerms[file] = metadata
             /\ PostingsOf(jx, file) = localIndex
             /\ \A g \in DOMAIN kx.fileToTerms : Save(jx, g) = Save(kx, g)
<1> DEFINE jx == Register(InsertPostings(kx, file, localIndex), file, metadata)
<1>1. /\ jx.fileToTerms[file] = metadata
      /\ PostingsOf(jx, file) = localIndex
      /\ \A g \in DOMAIN kx.fileToTerms :
           jx.fileToTerms[g] = kx.fileToTerms[g] /\ PostingsOf(jx, g) = PostingsOf(kx, g)
  BY InsertCoherent
<1>. QED
  BY <1>1, SameSave

(* Indexing a file (Indexer.cpp:78-102) touches no other file.             *)
LEMMA BuildKeeps ==
  ASSUME NEW kx, IsIndex(kx), CoherentIndex(kx), NEW file \in Files, NEW text \in Seq(Terms)
  PROVE  LET jx == BuildIndex(kx, file, text)
         IN  \A g \in DOMAIN kx.fileToTerms \ {file} : Save(jx, g) = Save(kx, g)
<1> DEFINE partial == PartialIndexThreadWorkers(file, text)
           metadata == [partial.localFileToTerms EXCEPT !.generation = GetFileGen(kx, file) + 1]
           removed == RemoveFileFromIndex(kx, file)
           jx == Register(InsertPostings(removed, file, partial.localIndex), file, metadata)
<1>1. /\ IsPartial(partial)
      /\ partial.filePath = file
      /\ partial.localFileToTerms =
           [tokenCount |-> partial.localFileToTerms.tokenCount,
            uniqueTerms |-> partial.localFileToTerms.uniqueTerms, generation |-> 0]
  BY PartialSound
<1>2. BuildIndex(kx, file, text) = jx
  BY <1>1 DEF BuildIndex, MergePartialIndexThreadWorkers
<1> HIDE DEF partial
<1>3. /\ metadata.tokenCount = partial.localFileToTerms.tokenCount
      /\ metadata.uniqueTerms = DOMAIN partial.localIndex
  BY <1>1 DEF IsPartial
<1>4. /\ Tiles(partial.localIndex, metadata.tokenCount)
      /\ partial.localIndex = [t \in DOMAIN partial.localIndex |-> partial.localIndex[t]]
  BY <1>1, <1>3 DEF IsPartial, IsMap
<1> HIDE DEF metadata
<1>5. /\ IsIndex(removed) /\ CoherentIndex(removed) /\ ~FilePresent(removed, file)
      /\ DOMAIN removed.fileToTerms = DOMAIN kx.fileToTerms \ {file}
      /\ \A g \in DOMAIN removed.fileToTerms : Save(removed, g) = Save(kx, g)
  BY RemoveType, RemoveCoherent, RemoveKeeps
<1> HIDE DEF removed
<1>6. \A g \in DOMAIN removed.fileToTerms : Save(jx, g) = Save(removed, g)
  BY <1>3, <1>4, <1>5, RegisterKeeps
<1>. QED
  BY <1>2, <1>5, <1>6

(* Loading a whole segment of a file the index does not hold touches no    *)
(* other file, and saving it again would write the same segment            *)
(* (IndexSerializer.cpp:39-88 against 142-201).                            *)
LEMMA LoadRestores ==
  ASSUME NEW kx, IsIndex(kx), CoherentIndex(kx), NEW segment \in Segments, Whole(segment),
         ~FilePresent(kx, segment.filePath)
  PROVE  LET jx == MergePartialLoadIndexThreadWorkers(kx, PartialLoadIndexThreadWorkers(segment))
         IN  /\ Save(jx, segment.filePath) = segment
             /\ \A g \in DOMAIN kx.fileToTerms : Save(jx, g) = Save(kx, g)
<1> DEFINE file == segment.filePath
           listed == ListedTerms(segment)
           localIndex == Restrict(segment.postings, listed)
           metadata == [tokenCount |-> segment.tokenCount, uniqueTerms |-> listed,
                        generation |-> segment.generation]
           jx == Register(InsertPostings(kx, file, localIndex), file, metadata)
<1>1. MergePartialLoadIndexThreadWorkers(kx, PartialLoadIndexThreadWorkers(segment)) = jx
  BY DEF MergePartialLoadIndexThreadWorkers, PartialLoadIndexThreadWorkers
<1>2. /\ DOMAIN localIndex = listed
      /\ localIndex = [t \in DOMAIN localIndex |-> localIndex[t]]
      /\ \A t \in listed : localIndex[t] = segment.postings[t]
  BY DEF ListedTerms, Restrict, Segments
<1>3. Tiles(localIndex, metadata.tokenCount)
  BY DEF Whole
<1>4. /\ listed \subseteq Terms
      /\ \A t \in Terms \ listed : segment.postings[t] = {}
      /\ segment = [filePath |-> file, tokenCount |-> segment.tokenCount,
                    generation |-> segment.generation, postings |-> segment.postings]
      /\ segment.postings = [t \in Terms |-> segment.postings[t]]
  BY DEF ListedTerms, Segments
<1>5. metadata.uniqueTerms = DOMAIN localIndex
  BY <1>2
<1>6. /\ metadata.uniqueTerms = listed /\ metadata.tokenCount = segment.tokenCount
      /\ metadata.generation = segment.generation
  OBVIOUS
<1> HIDE DEF localIndex, metadata, listed, file
<1>7. /\ jx.fileToTerms[file] = metadata
      /\ PostingsOf(jx, file) = localIndex
      /\ \A g \in DOMAIN kx.fileToTerms : Save(jx, g) = Save(kx, g)
  <2>1. ~FilePresent(kx, file)
    BY DEF file
  <2>. QED
    BY <1>2, <1>3, <1>5, <2>1, RegisterKeeps
<1> HIDE DEF jx
<1>8. /\ listed = {u \in DOMAIN jx.index : file \in DOMAIN jx.index[u]}
      /\ \A t \in listed : localIndex[t] = jx.index[t][file]
  BY <1>2, <1>7 DEF PostingsOf
<1>9. WrittenTerms(jx, file) = listed
  BY <1>6, <1>7, <1>8 DEF WrittenTerms
<1>10. [t \in Terms |-> IF t \in listed THEN jx.index[t][file] ELSE {}] = segment.postings
  BY <1>2, <1>4, <1>8
<1>11. Save(jx, file) = segment
  BY <1>4, <1>6, <1>7, <1>9, <1>10 DEF Save
<1>. QED
  BY <1>1, <1>7, <1>11 DEF file

-----------------------------------------------------------------------------
(* No two files share a segment.                                           *)
OwnNames == \A f, g \in Files : BinName[f] = BinName[g] => f = g

(* Files with segment names of their own, no directory beneath another and *)
(* no reconfiguration.                                                     *)
Stationary ==
  /\ Flat
  /\ OwnNames
  /\ Movers = {}

(* Everything stays in DefaultDir, and the file of a deletion is forgotten *)
(* before its segment is removed.                                          *)
Settled ==
  /\ configFile = Unreadable /\ indexBin = DefaultDir /\ worker.bin = DefaultDir
  /\ \A d \in Dirs \ {DefaultDir} : DOMAIN segments[d] = {}
  /\ \A h \in Handlers :
       /\ handler[h].pc \in {"idle", "merge", "unlink", "search"}
       /\ handler[h].pc = "unlink" => ~FilePresent(ix, handler[h].files[1])

StoreInv == TypeInv /\ DataInv /\ Settled

(* No handler is ever in the middle of a reconfiguration.                  *)
LEMMA NobodyModifies ==
  ASSUME Stationary, Settled, NEW h \in Handlers
  PROVE  ~ModifyStep(h)
<1>1. handler[h].pc \in {"idle", "merge", "unlink", "search"} /\ h \notin Movers
  BY DEF Stationary, Settled
<1>. QED
  BY <1>1 DEF ModifyStep, BeginModify, JoinWorker, MoveSegment, OpenCopy, FinishCopy, RemoveOriginal,
              SkipGoneSegment, ModifyFails, SetIndexBin, ClearStop, RestartWorker, OpenConfig, WriteConfig,
              SaveConfigFails, BuildFindsNoFiles, At, Entry

(* Process steps keep the engine settled: with no configuration written,   *)
(* each process starts with the default one.                               *)
LEMMA ProcessSettled ==
  ASSUME StoreInv, ProcessStep
  PROVE  Settled'
<1> USE DEF StoreInv, Settled
<1>1. ASSUME ProcessEnds, UNCHANGED disk
      PROVE  Settled'
  BY <1>1 DEF ProcessEnds, disk, WorkerAt, Idle
<1>2. CASE LoadConfig \/ LoadConfigFails
  BY <1>2 DEF LoadConfig, LoadConfigFails, disk, ConfiguredDir
<1>3. ASSUME NEW d \in Dirs, NEW n \in Names, LoadSegment(d, n)
      PROVE  Settled'
  <2>1. \A h \in Handlers : handler[h].pc = "idle"
    BY <1>3 DEF LoadSegment, TypeInv, Locking, Idle
  <2>. QED
    BY <1>3, <2>1 DEF LoadSegment, disk
<1>4. CASE LoadAborts
  BY <1>4 DEF LoadAborts, disk
<1>5. CASE StartWorker
  BY <1>5 DEF StartWorker, disk, WorkerAt
<1>6. CASE BeginShutdown
  BY <1>6 DEF BeginShutdown, disk
<1>. QED
  BY <1>1, <1>2, <1>3, <1>4, <1>5, <1>6 DEF ProcessStep, FinishShutdown, Crash

(* Every segment of a worker's job goes to the default directory.          *)
LEMMA WorkerSettled ==
  ASSUME StoreInv, WorkerStep
  PROVE  Settled'
<1> USE DEF StoreInv, Settled, WorkerUnchanged, WorkerUnlock
<1>1. ASSUME WorkerUnchanged, worker'.bin = DefaultDir,
             \A d \in Dirs \ {DefaultDir} : segments'[d] = segments[d]
      PROVE  Settled'
  BY <1>1
<1>2. WorkerUnchanged
  BY DEF WorkerStep, WorkerPop, WorkerExit, WorkerReadPath, WorkerSkipStale, WorkerLock,
         OpenSegment, OpenSegmentFails, WriteSegment, WriteSegmentFails
<1>4. worker'.bin = DefaultDir
  <2>1. worker = [pc |-> worker.pc, job |-> worker.job, bin |-> DefaultDir]
    BY DEF TypeInv, TypeOK, WorkerState
  <2>2. CASE WorkerPop
    BY <2>1, <2>2 DEF WorkerPop
  <2>3. CASE WorkerReadPath
    BY <2>1, <2>3 DEF WorkerReadPath
  <2>4. CASE WorkerExit \/ WorkerSkipStale \/ OpenSegmentFails \/ WriteSegment \/ WriteSegmentFails
    BY <2>4 DEF WorkerExit, WorkerSkipStale, OpenSegmentFails, WriteSegment, WriteSegmentFails,
                WorkerAt
  <2>5. CASE WorkerLock \/ OpenSegment
    BY <2>1, <2>5 DEF WorkerLock, OpenSegment
  <2>. QED
    BY <2>2, <2>3, <2>4, <2>5 DEF WorkerStep
<1>3. \A d \in Dirs \ {DefaultDir} : segments'[d] = segments[d]
  BY DEF WorkerStep, WorkerPop, WorkerExit, WorkerReadPath, WorkerSkipStale, WorkerLock,
         OpenSegment, OpenSegmentFails, WriteSegment, WriteSegmentFails, SetSegment, TypeInv, TypeOK
<1>. QED
  BY <1>1, <1>2, <1>3, <1>4

(* A handler's steps keep the engine settled: a deletion forgets its file  *)
(* and nobody can index it again before the segment is gone.               *)
LEMMA RequestSettled ==
  ASSUME StoreInv, NEW h \in Handlers, RequestStep(h)
  PROVE  Settled'
<1> USE DEF StoreInv, Settled
<1>1. /\ \A g \in Handlers : g # h => handler'[g] = handler[g]
      /\ handler'[h].pc \in {"idle", "merge", "unlink", "search"}
      /\ worker' = worker
  BY RequestControl
<1>2. /\ configFile' = configFile /\ indexBin' = indexBin
      /\ \A d \in Dirs \ {DefaultDir} : segments'[d] = segments[d]
  BY DEF RequestStep, LockForIndex, MergeFile, FinishIndex, LockForDelete, DeleteSegment,
         DeleteSegmentFails, EndDelete, BeginSearch, EndSearch, disk, TypeInv, TypeOK
<1>3. ASSUME NEW state, handler' = [handler EXCEPT ![h] = state]
      PROVE  handler'[h] = state
  BY <1>3 DEF TypeInv, TypeOK
<1>4. CASE \E text \in Texts : MergeFile(h, text)
  <2>1. \A g \in Handlers : g # h => handler[g].pc # "unlink"
    BY <1>4 DEF MergeFile, TypeInv, Locking
  <2>2. handler'[h].pc # "unlink"
    BY <1>4 DEF MergeFile, TypeInv, TypeOK, HandlerState
  <2>. QED
    BY <1>1, <1>2, <2>1, <2>2
<1>5. ASSUME NEW file \in Files, LockForDelete(h, file)
      PROVE  Settled'
  <2>1. \A g \in Handlers : handler[g].pc # "unlink"
    BY <1>5, NobodyExclusive DEF LockForDelete, MutexFree
  <2>2. handler'[h] = [Idle EXCEPT !.pc = "unlink", !.files = <<file>>]
    BY <1>3, <1>5 DEF LockForDelete
  <2>3. handler'[h].files[1] = file
    BY <2>2 DEF Idle
  <2>4. ix' = RemoveFileFromIndex(ix, file) /\ IsIndex(ix) /\ CoherentIndex(ix)
    BY <1>5 DEF LockForDelete, TypeInv, TypeOK, DataInv, Coherent
  <2>5. ~FilePresent(ix', file)
    BY <2>4, RemoveCoherent
  <2>. QED
    BY <1>1, <1>2, <2>1, <2>3, <2>5
<1>6. ASSUME ix' = ix, handler'[h].pc # "unlink"
      PROVE  Settled'
  BY <1>1, <1>2, <1>6
<1>7. CASE (\E batch \in Batches : LockForIndex(h, batch)) \/ BeginSearch(h)
  <2>1. ASSUME NEW batch, LockForIndex(h, batch)
        PROVE  handler'[h].pc # "unlink" /\ ix' = ix
    <3>1. handler'[h] = [Idle EXCEPT !.pc = "merge", !.files = batch]
      BY <1>3, <2>1 DEF LockForIndex
    <3>2. handler'[h].pc = "merge"
      BY <3>1 DEF Idle
    <3>3. ix' = ix
      BY <2>1 DEF LockForIndex
    <3>. QED
      BY <3>2, <3>3
  <2>2. BeginSearch(h) => handler'[h].pc # "unlink" /\ ix' = ix
    BY <1>3 DEF BeginSearch, Idle, disk
  <2>. QED
    BY <1>6, <1>7, <2>1, <2>2
<1>8. CASE FinishIndex(h) \/ DeleteSegment(h) \/ DeleteSegmentFails(h) \/ EndSearch(h)
  <2>1. handler'[h] = Idle /\ ix' = ix
    BY <1>3, <1>8 DEF FinishIndex, DeleteSegment, DeleteSegmentFails, EndDelete, EndSearch
  <2>. QED
    BY <1>6, <2>1 DEF Idle
<1>. QED
  BY <1>4, <1>5, <1>7, <1>8 DEF RequestStep

-----------------------------------------------------------------------------
(* Steps of the engine as steps of the store.                              *)

(* What can be read in all directories when one alone has segments.        *)
LEMMA OneShelf ==
  ASSUME NEW segs, NEW dir \in Dirs, \A d \in Dirs \ {dir} : DOMAIN segs[d] = {}
  PROVE  Stored(segs) = Range(segs[dir])
<1>1. \A d \in Dirs \ {dir} : Range(segs[d]) = {}
  BY DEF Range
<1>. QED
  BY <1>1 DEF Stored

(* Only the segment of a file holds a document of it.                      *)
LEMMA OwnSegment ==
  ASSUME OwnNames, TypeOK, SegmentsSound, NEW dir \in Dirs, NEW f \in Files,
         NEW n \in DOMAIN segments[dir], segments[dir][n] # Unreadable
  PROVE  segments[dir][n].filePath = f <=> n = BinName[f]
<1>1. BinName[segments[dir][n].filePath] = n /\ segments[dir][n].filePath \in Files
  BY DEF SegmentsSound, TypeOK, IsMap, Contents, Segments
<1>. QED
  BY <1>1 DEF OwnNames

(* Replacing the segment of f takes the documents of f off the shelf and   *)
(* puts the new content there.                                             *)
LEMMA ShelfPut ==
  ASSUME OwnNames, TypeOK, SegmentsSound, NEW dir \in Dirs, NEW f \in Files, NEW content,
         \A d \in Dirs \ {dir} : DOMAIN segments[d] = {},
         SetSegment(dir, BinName[f], content),
         content # Unreadable => content.filePath = f
  PROVE  Shelf' = (Shelf \ Store!Of(f)) \cup ({content} \ {Unreadable})
<1> DEFINE old == segments[dir]
           new == Put(old, BinName[f], content)
<1>1. segments'[dir] = new /\ \A d \in Dirs \ {dir} : DOMAIN segments'[d] = {}
  BY DEF SetSegment, TypeOK
<1>2. Shelf = Range(old) \ {Unreadable} /\ Shelf' = Range(new) \ {Unreadable}
  BY <1>1, OneShelf DEF Shelf
<1>3. /\ DOMAIN new = DOMAIN old \cup {BinName[f]}
      /\ new[BinName[f]] = content
      /\ \A n \in DOMAIN old : n # BinName[f] => new[n] = old[n]
  BY DEF Put
<1>4. \A n \in DOMAIN old : old[n] # Unreadable => (old[n].filePath = f <=> n = BinName[f])
  BY OwnSegment
<1> HIDE DEF old, new
<1>5. Store!Of(f) = {doc \in Shelf : doc.filePath = f}
  BY DEF Store!Of
<1>. QED
  BY <1>2, <1>3, <1>4, <1>5 DEF Range

(* Removing the segment of f takes the documents of f off the shelf.       *)
LEMMA ShelfDrop ==
  ASSUME OwnNames, TypeOK, SegmentsSound, NEW dir \in Dirs, NEW f \in Files,
         \A d \in Dirs \ {dir} : DOMAIN segments[d] = {},
         segments' = [segments EXCEPT ![dir] = Without(@, BinName[f])]
  PROVE  Shelf' = Shelf \ Store!Of(f)
<1> DEFINE old == segments[dir]
           new == Without(old, BinName[f])
<1>1. segments'[dir] = new /\ \A d \in Dirs \ {dir} : DOMAIN segments'[d] = {}
  BY DEF TypeOK
<1>2. Shelf = Range(old) \ {Unreadable} /\ Shelf' = Range(new) \ {Unreadable}
  BY <1>1, OneShelf DEF Shelf
<1>3. /\ DOMAIN new = DOMAIN old \ {BinName[f]}
      /\ \A n \in DOMAIN new : new[n] = old[n]
  BY DEF Without, Restrict
<1>4. \A n \in DOMAIN old : old[n] # Unreadable => (old[n].filePath = f <=> n = BinName[f])
  BY OwnSegment
<1> HIDE DEF old, new
<1>5. Store!Of(f) = {doc \in Shelf : doc.filePath = f}
  BY DEF Store!Of
<1>. QED
  BY <1>2, <1>3, <1>4, <1>5 DEF Range

(* A step that leaves the index, the segments and what is being written    *)
(* alone is no step of the store.                                          *)
LEMMA Stutters ==
  ASSUME ix' = ix, segments' = segments, Writing' = Writing
  PROVE  UNCHANGED Store!vars
<1>1. Memory' = Memory
  BY DEF Memory
<1>2. Shelf' = Shelf
  BY DEF Shelf
<1>. QED
  BY <1>1, <1>2 DEF Store!vars

(* Nothing is being written unless the worker writes.                      *)
LEMMA NotWriting == worker.pc # "write" => Writing = {}
BY DEF Writing

(* No handler that holds engineMutex exclusively meets a segment being     *)
(* written.                                                                *)
LEMMA WriterExcludesWriting ==
  ASSUME TypeInv, readers = {} \/ \E h \in Handlers : handler[h].pc \in {"merge", "unlink"}
  PROVE  Writing = {}
<1>1. readers = {}
  BY ThreadsAssumption DEF TypeInv, Locking
<1>. QED
  BY <1>1, NotWriting DEF TypeInv, Locking

(* A file indexed is a new version in the store.                           *)
LEMMA MergeRefines ==
  ASSUME TypeInv, DataInv, NEW h \in Handlers, NEW text \in Texts, MergeFile(h, text)
  PROVE  Store!Next
<1> DEFINE f == handler[h].files[handler[h].merged + 1]
<1>1. IsIndex(ix) /\ CoherentIndex(ix)
  BY DEF TypeInv, TypeOK, DataInv, Coherent
<1>2. Writing' = Writing
  BY DEF MergeFile, Writing
<1>3. handler[h].files \in Seq(Files) /\ handler[h].merged \in Nat
  BY DEF TypeInv, TypeOK, HandlerState
<1>4. f \in Files /\ ix' = BuildIndex(ix, f, text) /\ segments' = segments
  BY <1>3 DEF MergeFile, disk
<1>5. text \in Seq(Terms)
  BY DocumentsAssumption
<1>6. Writing = {}
  BY WriterExcludesWriting DEF MergeFile
<1> HIDE DEF f
<1>7. /\ IsIndex(ix')
      /\ DOMAIN ix'.fileToTerms = DOMAIN ix.fileToTerms \cup {f}
      /\ ix'.fileToTerms[f].generation = GetFileGen(ix, f) + 1
      /\ \A g \in DOMAIN ix.fileToTerms \ {f} : Save(ix', g) = Save(ix, g)
  BY <1>1, <1>4, <1>5, BuildSound, BuildKeeps
<1>8. Save(ix', f) \in Segments /\ Save(ix', f).filePath = f
  BY <1>7, SaveSound DEF FilePresent
<1>9. Save(ix', f).generation = Store!Generation(f) + 1
  BY <1>7 DEF Save, Store!Generation, GetFileGen, FilePresent, Memory
<1>10. /\ DOMAIN Memory = DOMAIN ix.fileToTerms
       /\ DOMAIN Memory' = DOMAIN ix.fileToTerms \cup {f}
       /\ Memory'[f] = Save(ix', f)
       /\ \A g \in DOMAIN Memory \ {f} : Memory'[g] = Memory[g]
  BY <1>7 DEF Memory
<1>11. Shelf' = Shelf
  BY <1>4 DEF Shelf
<1>12. Store!Index(f)
  BY <1>2, <1>6, <1>8, <1>9, <1>10, <1>11 DEF Store!Index, Store!Others
<1>. QED
  BY <1>4, <1>12 DEF Store!Next

(* Indexing, deletion and search as steps of the store.                    *)
LEMMA RequestRefines ==
  ASSUME Stationary, StoreInv, NEW h \in Handlers, RequestStep(h)
  PROVE  [Store!Next]_(Store!vars)
<1> USE DEF StoreInv
<1>1. IsIndex(ix) /\ CoherentIndex(ix)
  BY DEF TypeInv, TypeOK, DataInv, Coherent
<1>2. Writing' = Writing
  BY RequestControl DEF Writing
<1>3. ASSUME NEW text \in Texts, MergeFile(h, text)
      PROVE  Store!Next
  BY <1>3, MergeRefines
<1>4. ASSUME NEW file \in Files, LockForDelete(h, file)
      PROVE  Store!Next
  <2>1. ix' = RemoveFileFromIndex(ix, file) /\ segments' = segments
    BY <1>4 DEF LockForDelete, disk
  <2>2. Writing = {}
    BY <1>4, WriterExcludesWriting DEF LockForDelete, MutexFree
  <2>3. /\ DOMAIN ix'.fileToTerms = DOMAIN ix.fileToTerms \ {file}
        /\ \A g \in DOMAIN ix'.fileToTerms : Save(ix', g) = Save(ix, g)
    BY <1>1, <2>1, RemoveKeeps
  <2>4. Memory' = [g \in DOMAIN Memory \ {file} |-> Memory[g]]
    BY <2>3 DEF Memory
  <2>5. Store!Forget(file)
    <3>1. Shelf' = Shelf
      BY <2>1 DEF Shelf
    <3>. QED
      BY <1>2, <2>2, <2>4, <3>1 DEF Store!Forget, Store!Restrict
  <2>. QED
    BY <2>5 DEF Store!Next
<1>5. CASE DeleteSegment(h)
  <2> DEFINE f == handler[h].files[1]
  <2>1. handler[h].pc = "unlink" /\ ix' = ix
    BY <1>5 DEF DeleteSegment, EndDelete
  <2>2. f \in Files /\ f \notin DOMAIN ix.fileToTerms
    BY <2>1 DEF TypeInv, TypeOK, HandlerState, Settled, FilePresent
  <2>3. segments' = [segments EXCEPT ![DefaultDir] = Without(@, BinName[f])]
    BY <1>5 DEF DeleteSegment, Settled
  <2> HIDE DEF f
  <2>4. Shelf' = Shelf \ Store!Of(f)
    BY <2>2, <2>3, DirsAssumption, ShelfDrop DEF TypeInv, DataInv, Settled, Stationary
  <2>5. Writing = {}
    BY <2>1, WriterExcludesWriting
  <2>6. DOMAIN Memory = DOMAIN ix.fileToTerms /\ Memory' = Memory
    BY <2>1 DEF Memory
  <2>7. Store!Remove(f)
    BY <1>2, <2>2, <2>4, <2>5, <2>6 DEF Store!Remove
  <2>. QED
    BY <2>2, <2>7 DEF Store!Next
<1>6. ASSUME UNCHANGED <<ix, segments>>
      PROVE  UNCHANGED Store!vars
  BY <1>2, <1>6, Stutters
<1>. QED
  BY <1>3, <1>4, <1>5, <1>6
  DEF RequestStep, LockForIndex, FinishIndex, DeleteSegmentFails, EndDelete, BeginSearch,
      EndSearch, disk

(* save and the loop around it as steps of the store.                      *)
LEMMA WorkerRefines ==
  ASSUME OwnNames, TypeInv, DataInv, WorkerStep,
         worker.pc \in {"open", "write"} => \A d \in Dirs \ {worker.bin} : DOMAIN segments[d] = {}
  PROVE  [Store!Next]_(Store!vars)
<1> DEFINE f == worker.job[1].file
<1>1. worker = [pc |-> worker.pc, job |-> worker.job, bin |-> worker.bin] /\ worker.bin \in Dirs
  BY DEF TypeInv, TypeOK, WorkerState
<1>2. ix' = ix /\ Memory' = Memory
  BY DEF WorkerStep, WorkerPop, WorkerExit, WorkerReadPath, WorkerSkipStale, WorkerLock,
         OpenSegment, OpenSegmentFails, WriteSegment, WriteSegmentFails, WorkerUnchanged, Memory
<1>3. worker.pc \in {"open", "write"} =>
        f \in Files /\ f \in DOMAIN ix.fileToTerms /\ f \in DOMAIN Memory
  <2>1. worker.pc \in {"open", "write"} => f \in DOMAIN ix.fileToTerms
    BY DEF TypeInv, JobIndexed, FilePresent
  <2>2. DOMAIN ix.fileToTerms \subseteq Files /\ DOMAIN Memory = DOMAIN ix.fileToTerms
    BY DEF TypeInv, TypeOK, IsIndex, IsMap, Memory
  <2>. QED
    BY <2>1, <2>2
<1>4. ASSUME worker'.pc # "write"
      PROVE  Writing' = {}
  BY <1>4 DEF Writing
<1>5. WorkerAt("wait").pc # "write" /\ WorkerAt("exited").pc # "write"
  BY DEF WorkerAt
<1>6. CASE OpenSegment
  <2>1. /\ worker.pc = "open" /\ worker' = [worker EXCEPT !.pc = "write"]
        /\ SetSegment(worker.bin, BinName[f], Unreadable)
    BY <1>6, <1>1 DEF OpenSegment
  <2>2. Writing = {} /\ Writing' = {f}
    BY <1>1, <2>1 DEF Writing
  <2> HIDE DEF f
  <2>3. f \in Files /\ f \in DOMAIN Memory
    BY <1>3, <2>1
  <2>4. Shelf' = (Shelf \ Store!Of(f)) \cup ({Unreadable} \ {Unreadable})
    BY <1>1, <2>1, <2>3, ShelfPut DEF TypeInv, DataInv
  <2>5. Shelf' = Shelf \ Store!Of(f)
    BY <2>4
  <2>6. Store!BeginWrite(f)
    BY <1>2, <2>2, <2>3, <2>5 DEF Store!BeginWrite
  <2>. QED
    BY <2>3, <2>6 DEF Store!Next
<1>7. CASE WriteSegment
  <2>1. /\ worker.pc = "write" /\ worker' = WorkerAt("wait")
        /\ SetSegment(worker.bin, BinName[f], IF FilePresent(ix, f) THEN Save(ix, f) ELSE Unreadable)
    BY <1>7, <1>1 DEF WriteSegment, WorkerUnlock
  <2>2. Writing = {f} /\ Writing' = {}
    BY <1>4, <1>5, <2>1 DEF Writing
  <2> HIDE DEF f
  <2>3. f \in Files /\ f \in DOMAIN ix.fileToTerms /\ Memory[f] = Save(ix, f)
    BY <1>3, <2>1 DEF Memory
  <2>4. Save(ix, f).filePath = f /\ SetSegment(worker.bin, BinName[f], Save(ix, f))
    BY <2>1, <2>3 DEF Save, FilePresent
  <2>5. Shelf' = (Shelf \ Store!Of(f)) \cup ({Save(ix, f)} \ {Unreadable})
    BY <1>1, <2>1, <2>3, <2>4, ShelfPut DEF TypeInv, DataInv
  <2>6. Save(ix, f) \in Segments
    BY <2>3, SaveSound DEF TypeInv, TypeOK, FilePresent
  <2>7. Store!EndWrite(f)
    BY <1>2, <2>2, <2>3, <2>5, <2>6, UnreadableAssumption DEF Store!EndWrite
  <2>. QED
    BY <2>3, <2>7 DEF Store!Next
<1>8. CASE WriteSegmentFails \/ OpenSegmentFails
  <2>1. worker'.pc # "write" /\ segments' = segments
    BY <1>5, <1>8 DEF WriteSegmentFails, OpenSegmentFails, WorkerUnlock
  <2>2. Store!AbandonWrite
    BY <1>2, <1>4, <2>1 DEF Store!AbandonWrite, Shelf
  <2>. QED
    BY <2>2 DEF Store!Next
<1>9. CASE WorkerPop \/ WorkerExit \/ WorkerReadPath \/ WorkerSkipStale \/ WorkerLock
  <2>1. segments' = segments /\ worker.pc # "write"
    BY <1>9 DEF WorkerPop, WorkerExit, WorkerReadPath, WorkerSkipStale, WorkerLock
  <2>2. worker'.pc # "write"
    BY <1>1, <1>5, <1>9 DEF WorkerPop, WorkerExit, WorkerReadPath, WorkerSkipStale, WorkerLock
  <2>3. Writing' = Writing
    BY <1>4, <2>1, <2>2, NotWriting
  <2>. QED
    BY <1>2, <2>1, <2>3, Stutters
<1>. QED
  BY <1>6, <1>7, <1>8, <1>9 DEF WorkerStep

(* Loading, starting, stopping and crashing as steps of the store.         *)
LEMMA ProcessRefines ==
  ASSUME TypeInv, DataInv, ProcessStep
  PROVE  [Store!Next]_(Store!vars)
<1>1. ASSUME ProcessEnds, segments' = segments
      PROVE  Store!Next
  <2>1. worker'.pc # "write"
    BY <1>1 DEF ProcessEnds, WorkerAt
  <2>2. Writing' = {}
    BY <2>1 DEF Writing
  <2>3. DOMAIN ix'.fileToTerms = {}
    BY <1>1 DEF ProcessEnds, EmptyIndex, EmptyMap
  <2>4. Memory' = [f \in {} |-> {}]
    BY <2>3 DEF Memory
  <2>5. Shelf' = Shelf
    BY <1>1 DEF Shelf
  <2>6. Store!ProcessEnds
    BY <2>2, <2>4, <2>5 DEF Store!ProcessEnds
  <2>. QED
    BY <2>6 DEF Store!Next
<1>2. ASSUME NEW d \in Dirs, NEW n \in Names, LoadSegment(d, n)
      PROVE  Store!Next
  <2> DEFINE doc == segments[d][n]
  <2>1. /\ <<d, n>> \in toLoad /\ phase = "loading" /\ doc # Unreadable
        /\ ix' = MergePartialLoadIndexThreadWorkers(ix, PartialLoadIndexThreadWorkers(doc))
        /\ segments' = segments /\ worker' = worker
    BY <1>2 DEF LoadSegment, disk
  <2>2. d = indexBin /\ n \in DOMAIN segments[d] /\ ~FilePresent(ix, doc.filePath)
    BY <2>1 DEF DataInv, LoadInv
  <2>3. doc \in Segments /\ IsIndex(ix)
    BY <2>1, <2>2 DEF TypeInv, TypeOK, IsMap, Contents
  <2>4. Whole(doc) /\ CoherentIndex(ix)
    BY <2>1, <2>2 DEF DataInv, SegmentsSound, Coherent
  <2>5. doc \in Shelf
    BY <2>1, <2>2 DEF Shelf, Stored, Range
  <2>6. worker.pc # "write"
    BY <2>1 DEF TypeInv, Locking
  <2> HIDE DEF doc
  <2>7. /\ DOMAIN ix'.fileToTerms = DOMAIN ix.fileToTerms \cup {doc.filePath}
        /\ Save(ix', doc.filePath) = doc
        /\ \A g \in DOMAIN ix.fileToTerms : Save(ix', g) = Save(ix, g)
    BY <2>1, <2>2, <2>3, <2>4, LoadSound, LoadRestores
  <2>8. /\ DOMAIN Memory = DOMAIN ix.fileToTerms
        /\ DOMAIN Memory' = DOMAIN ix.fileToTerms \cup {doc.filePath}
        /\ Memory'[doc.filePath] = doc
        /\ \A g \in DOMAIN Memory : Memory'[g] = Memory[g]
    BY <2>7 DEF Memory
  <2>9. Writing = {} /\ Writing' = {} /\ Shelf' = Shelf
    BY <2>1, <2>6 DEF Writing, Shelf
  <2>10. Store!Load(doc)
    BY <2>2, <2>8, <2>9 DEF Store!Load, Store!Others, FilePresent
  <2>. QED
    BY <2>5, <2>10 DEF Store!Next
<1>3. CASE LoadConfig \/ LoadConfigFails \/ LoadAborts \/ StartWorker \/ BeginShutdown
  <2>1. ix' = ix /\ segments' = segments
    BY <1>3 DEF LoadConfig, LoadConfigFails, LoadAborts, StartWorker, BeginShutdown, disk
  <2>2. Writing' = Writing
    <3>1. CASE StartWorker
      <4>1. worker.pc # "write"
        BY <3>1 DEF StartWorker, TypeInv, Locking
      <4>2. worker'.pc # "write"
        BY <3>1 DEF StartWorker, WorkerAt
      <4>. QED
        BY <4>1, <4>2 DEF Writing
    <3>. QED
      BY <1>3, <3>1 DEF LoadConfig, LoadConfigFails, LoadAborts, BeginShutdown, Writing
  <2>. QED
    BY <2>1, <2>2, Stutters
<1>. QED
  BY <1>1, <1>2, <1>3 DEF ProcessStep, FinishShutdown, Crash, disk

-----------------------------------------------------------------------------
(* Without reconfiguration, types, index and segments stay sound and       *)
(* everything stays in the default directory.                              *)
THEOREM StoreInvariance ==
  ASSUME Stationary
  PROVE  Spec => []StoreInv
<1>1. Init => Settled
  BY DEF Init, Settled, WorkerAt, Idle, EmptyMap
<1>2. TypeInv /\ DataInv /\ Settled /\ [Next]_vars => Settled'
  <2> SUFFICES ASSUME StoreInv, [Next]_vars PROVE Settled'
    BY DEF StoreInv
  <2>1. CASE UNCHANGED vars
    BY <2>1 DEF vars, memory, disk, StoreInv, Settled
  <2>2. ASSUME NEW h \in Handlers, RequestStep(h) \/ ModifyStep(h)
        PROVE  Settled'
    BY <2>2, RequestSettled, NobodyModifies DEF StoreInv
  <2>. QED
    BY <2>1, <2>2, ProcessSettled, WorkerSettled DEF Next
<1>3. Spec => [](TypeInv /\ DataInv)
  BY DataInvariance DEF Stationary
<1>. QED
  BY <1>1, <1>2, <1>3, PTL DEF Spec, StoreInv

(* With segment names of its own for each file (no two paths with the same *)
(* last component) and no reconfiguration, the engine implements the       *)
(* document store: whatever handlers, the serializer, crashes and disk     *)
(* faults do, only current documents are put on disk, none changes while   *)
(* it is written, and a new process loads what an earlier one stored.      *)
THEOREM StoreTheorem ==
  ASSUME Stationary
  PROVE  Spec => ImplementsDocumentStore
<1>1. Init => Store!Init
  BY DEF Init, EmptyIndex, EmptyMap, WorkerAt, Memory, Shelf, Stored, Range, Writing, Store!Init
<1>2. StoreInv /\ [Next]_vars => [Store!Next]_(Store!vars)
  <2> SUFFICES ASSUME StoreInv, [Next]_vars PROVE [Store!Next]_(Store!vars)
    OBVIOUS
  <2>1. CASE UNCHANGED vars
    BY <2>1, Stutters DEF vars, memory, disk, Writing
  <2>2. ASSUME NEW h \in Handlers, RequestStep(h) \/ ModifyStep(h)
        PROVE  [Store!Next]_(Store!vars)
    BY <2>2, RequestRefines, NobodyModifies DEF StoreInv
  <2>3. CASE WorkerStep
    <3>1. \A d \in Dirs \ {worker.bin} : DOMAIN segments[d] = {}
      BY DEF StoreInv, Settled
    <3>. QED
      BY <2>3, <3>1, WorkerRefines DEF StoreInv, Stationary
  <2>. QED
    BY <2>1, <2>2, <2>3, ProcessRefines DEF Next, StoreInv
<1>3. Spec => []StoreInv
  BY StoreInvariance
<1>. QED
  BY <1>1, <1>2, <1>3, PTL DEF Spec, ImplementsDocumentStore, Store!Spec

-----------------------------------------------------------------------------
(* Persisted, without its directories: Settled knows the only one.         *)
Shelved(f) ==
  /\ BinName[f] \in DOMAIN segments[DefaultDir]
  /\ segments[DefaultDir][BinName[f]] = Save(ix, f)

AtMost(S, k) == IsFiniteSet(S) /\ Cardinality(S) <= k

(* The indexed files that are not on their way to the disk, nor there.     *)
Lost == {f \in DOMAIN ix.fileToTerms : ~(Pending(f) \/ Shelved(f))}

FewLost == AtMost(Lost, faults)

(* Why a segment may be there.                                             *)
Accounted(n) ==
  \/ \E f \in DOMAIN ix.fileToTerms : BinName[f] = n
  \/ \E h \in Handlers : At(h, "unlink") /\ BinName[handler[h].files[1]] = n
  \/ phase = "loading" /\ <<DefaultDir, n>> \in toLoad

Orphans == {n \in DOMAIN segments[DefaultDir] : ~Accounted(n)}

FewOrphans == (phase # "down" /\ loadOk) => AtMost(Orphans, faults)

(* From the generation check to the last byte, the job stays current.      *)
JobCurrent == worker.pc \in {"open", "write"} => ~JobIsStale

(* The worker leaves nothing in the queue, and then nobody adds to it.     *)
Drained ==
  /\ phase \in {"serving", "stopping"} => worker.pc # "none"
  /\ stopWorker => phase = "stopping"
  /\ phase = "stopping" => \A h \in Handlers : handler[h] = Idle
  /\ worker.pc = "exited" => stopWorker /\ dirtyQueue = <<>>

RestoreInv == FewLost /\ FewOrphans /\ JobCurrent /\ Drained

-----------------------------------------------------------------------------
(* Counting.                                                               *)

LEMMA NoneAtMost ==
  ASSUME NEW k \in Nat
  PROVE  AtMost({}, k)
BY FS_EmptySet DEF AtMost

(* Where nothing may be lost, nothing is.                                  *)
LEMMA AtMostNone ==
  ASSUME NEW S, AtMost(S, 0)
  PROVE  S = {}
<1>1. Cardinality(S) \in Nat
  BY FS_CardinalityType DEF AtMost
<1>2. Cardinality(S) = 0
  BY <1>1 DEF AtMost
<1>. QED
  BY <1>2, FS_EmptySet DEF AtMost

(* A step that adds nothing keeps the count,                               *)
LEMMA StillAtMost ==
  ASSUME NEW S, NEW T, NEW k \in Nat, NEW m \in Nat, AtMost(S, k), T \subseteq S, k <= m
  PROVE  AtMost(T, m)
<1>1. IsFiniteSet(T) /\ Cardinality(T) <= Cardinality(S)
  BY FS_Subset DEF AtMost
<1>2. Cardinality(S) \in Nat /\ Cardinality(T) \in Nat
  BY <1>1, FS_CardinalityType DEF AtMost
<1>. QED
  BY <1>1, <1>2 DEF AtMost

(* and a fault pays for one more.                                          *)
LEMMA OneMoreAtMost ==
  ASSUME NEW S, NEW T, NEW k \in Nat, AtMost(S, k), NEW x, T \subseteq S \cup {x}
  PROVE  AtMost(T, k + 1)
<1>1. IsFiniteSet(S) /\ Cardinality(S) <= k /\ Cardinality(S) \in Nat
  BY FS_CardinalityType DEF AtMost
<1>2. /\ IsFiniteSet(S \cup {x})
      /\ Cardinality(S \cup {x}) = IF x \in S THEN Cardinality(S) ELSE Cardinality(S) + 1
  BY <1>1, FS_AddElement
<1>3. AtMost(S \cup {x}, k + 1)
  BY <1>1, <1>2 DEF AtMost
<1>. QED
  BY <1>3, StillAtMost

(* A step has at most one fault.                                           *)
LEMMA FaultsGrow ==
  ASSUME TypeInv, ProcessStep \/ WorkerStep \/ \E h \in Handlers : RequestStep(h)
  PROVE  faults \in Nat /\ faults' \in {faults, faults + 1}
<1>1. faults \in Nat
  BY DEF TypeInv, TypeOK
<1>2. ProcessStep => faults' \in {faults, faults + 1}
  BY DEF ProcessStep, LoadConfig, LoadConfigFails, LoadSegment, LoadAborts, StartWorker, BeginShutdown,
         FinishShutdown, Crash
<1>3. WorkerStep => faults' \in {faults, faults + 1}
  BY DEF WorkerStep, WorkerPop, WorkerExit, WorkerReadPath, WorkerSkipStale, WorkerLock,
         OpenSegment, OpenSegmentFails, WriteSegment, WriteSegmentFails
<1>4. (\E h \in Handlers : RequestStep(h)) => faults' \in {faults, faults + 1}
  BY DEF RequestStep, LockForIndex, MergeFile, FinishIndex, LockForDelete, DeleteSegment,
         DeleteSegmentFails, EndDelete, BeginSearch, EndSearch
<1>. QED
  BY <1>1, <1>2, <1>3, <1>4

-----------------------------------------------------------------------------
(* The end of the queue.                                                   *)

(* Starting and stopping: the flag is raised when no handler is active.    *)
LEMMA ProcessDrained ==
  ASSUME StoreInv, Drained, ProcessStep
  PROVE  Drained'
<1> USE DEF StoreInv, Drained
<1>1. ASSUME ProcessEnds
      PROVE  Drained'
  BY <1>1 DEF ProcessEnds, WorkerAt
<1>2. CASE LoadConfig \/ LoadConfigFails
  <2>1. phase = "down" /\ phase' = "loading" /\ stopWorker' = stopWorker /\ worker' = worker
    BY <1>2 DEF LoadConfig, LoadConfigFails
  <2>2. worker.pc = "none" /\ ~stopWorker
    BY <2>1 DEF TypeInv, Locking
  <2>. QED
    BY <2>1, <2>2
<1>3. CASE (\E d \in Dirs, n \in Names : LoadSegment(d, n)) \/ LoadAborts
  <2>1. UNCHANGED <<phase, stopWorker, worker, handler, dirtyQueue>>
    BY <1>3 DEF LoadSegment, LoadAborts
  <2>. QED
    BY <2>1
<1>4. CASE StartWorker
  BY <1>4 DEF StartWorker, WorkerAt
<1>5. CASE BeginShutdown
  BY <1>5 DEF BeginShutdown
<1>. QED
  BY <1>1, <1>2, <1>3, <1>4, <1>5 DEF ProcessStep, FinishShutdown, Crash

(* The worker exits with the queue empty and does nothing after that.      *)
LEMMA WorkerDrained ==
  ASSUME StoreInv, Drained, WorkerStep
  PROVE  Drained'
<1> USE DEF StoreInv, Drained, WorkerUnchanged, WorkerUnlock
<1>1. CASE WorkerExit
  BY <1>1 DEF WorkerExit, WorkerAt
<1>2. ASSUME WorkerUnchanged, worker'.pc \notin {"none", "exited"}
      PROVE  Drained'
  BY <1>2
<1>3. worker = [pc |-> worker.pc, job |-> worker.job, bin |-> worker.bin]
  BY DEF TypeInv, TypeOK, WorkerState
<1>4. CASE WorkerPop \/ WorkerReadPath \/ WorkerLock \/ OpenSegment
  <2>1. worker'.pc \in {"path", "lock", "open", "write"}
    BY <1>3, <1>4 DEF WorkerPop, WorkerReadPath, WorkerLock, OpenSegment
  <2>. QED
    BY <1>2, <1>4, <2>1 DEF WorkerPop, WorkerReadPath, WorkerLock, OpenSegment
<1>5. CASE WorkerSkipStale \/ OpenSegmentFails \/ WriteSegment \/ WriteSegmentFails
  <2>1. worker'.pc = "wait"
    BY <1>5 DEF WorkerSkipStale, OpenSegmentFails, WriteSegment, WriteSegmentFails, WorkerAt
  <2>. QED
    BY <1>2, <1>5, <2>1 DEF WorkerSkipStale, OpenSegmentFails, WriteSegment, WriteSegmentFails
<1>. QED
  BY <1>1, <1>4, <1>5 DEF WorkerStep

(* A request is served only before the flag is raised.                     *)
LEMMA RequestServing ==
  ASSUME StoreInv, Drained, NEW h \in Handlers, RequestStep(h)
  PROVE  phase = "serving" /\ phase' = phase /\ stopWorker' = stopWorker /\ loadOk' = loadOk
         /\ toLoad' = toLoad /\ worker' = worker
<1>1. phase = "serving" \/ handler[h] # Idle
  <2>1. Idle.pc = "idle"
    BY DEF Idle
  <2>. QED
    BY <2>1
    DEF RequestStep, LockForIndex, MergeFile, FinishIndex, LockForDelete, DeleteSegment,
        DeleteSegmentFails, EndDelete, BeginSearch, EndSearch, Accepts
<1>2. phase = "serving"
  BY <1>1 DEF StoreInv, TypeInv, TypeOK, Locking, Drained
<1>. QED
  BY <1>2
  DEF RequestStep, LockForIndex, MergeFile, FinishIndex, LockForDelete, DeleteSegment,
      DeleteSegmentFails, EndDelete, BeginSearch, EndSearch, HandlerUnchanged

(* So a request adds nothing to a queue the worker has left.               *)
LEMMA RequestDrained ==
  ASSUME StoreInv, Drained, NEW h \in Handlers, RequestStep(h)
  PROVE  Drained'
BY RequestServing DEF Drained

-----------------------------------------------------------------------------
(* The generation of the job.                                              *)

(* Nobody changes the index while the worker has the lock.                 *)
LEMMA StaysCurrent ==
  ASSUME JobCurrent, worker'.pc \in {"open", "write"} =>
           worker.pc \in {"open", "write"} /\ worker'.job = worker.job /\ ix' = ix
  PROVE  JobCurrent'
BY DEF JobCurrent, JobIsStale

(* Before and after its life a process has no worker with a job.           *)
LEMMA ProcessCurrent ==
  ASSUME TypeInv, JobCurrent, ProcessStep
  PROVE  JobCurrent'
<1>1. CASE BeginShutdown
  BY <1>1, StaysCurrent DEF BeginShutdown
<1>2. CASE LoadConfig \/ LoadConfigFails \/ (\E d \in Dirs, n \in Names : LoadSegment(d, n)) \/ LoadAborts
  <2>1. worker'.pc = "none"
    BY <1>2 DEF LoadConfig, LoadConfigFails, LoadSegment, LoadAborts, TypeInv, Locking
  <2>. QED
    BY <2>1, StaysCurrent
<1>3. CASE StartWorker \/ FinishShutdown \/ Crash
  <2>1. worker'.pc \in {"none", "wait"}
    BY <1>3 DEF StartWorker, FinishShutdown, Crash, ProcessEnds, WorkerAt
  <2>. QED
    BY <2>1, StaysCurrent
<1>. QED
  BY <1>1, <1>2, <1>3 DEF ProcessStep

(* The check is made when the lock is taken.                               *)
LEMMA WorkerCurrent ==
  ASSUME TypeInv, JobCurrent, WorkerStep
  PROVE  JobCurrent'
<1> USE DEF WorkerUnchanged, WorkerUnlock
<1>1. worker = [pc |-> worker.pc, job |-> worker.job, bin |-> worker.bin]
  BY DEF TypeInv, TypeOK, WorkerState
<1>2. CASE WorkerLock
  <2>1. worker'.job = worker.job /\ ix' = ix /\ ~JobIsStale
    BY <1>1, <1>2 DEF WorkerLock
  <2>. QED
    BY <2>1 DEF JobCurrent, JobIsStale
<1>3. CASE OpenSegment
  BY <1>1, <1>3, StaysCurrent DEF OpenSegment
<1>4. CASE WorkerPop \/ WorkerReadPath
  <2>1. worker'.pc \in {"path", "lock"}
    BY <1>1, <1>4 DEF WorkerPop, WorkerReadPath
  <2>. QED
    BY <2>1, StaysCurrent
<1>5. CASE WorkerExit \/ WorkerSkipStale \/ OpenSegmentFails \/ WriteSegment \/ WriteSegmentFails
  <2>1. worker'.pc \in {"wait", "exited"}
    BY <1>5 DEF WorkerExit, WorkerSkipStale, OpenSegmentFails, WriteSegment, WriteSegmentFails,
                WorkerAt
  <2>. QED
    BY <2>1, StaysCurrent
<1>. QED
  BY <1>2, <1>3, <1>4, <1>5 DEF WorkerStep

(* Handlers change the index under the exclusive lock only.                *)
LEMMA RequestCurrent ==
  ASSUME TypeInv, JobCurrent, NEW h \in Handlers, RequestStep(h)
  PROVE  JobCurrent'
<1>1. worker' = worker
  BY RequestControl
<1>2. ASSUME worker.pc \in {"open", "write"}
      PROVE  ix' = ix
  <2>1. readers # {} /\ handler[h].pc # "merge"
    BY <1>2, ThreadsAssumption DEF TypeInv, Locking
  <2>. QED
    BY <2>1
    DEF RequestStep, LockForIndex, MergeFile, FinishIndex, LockForDelete, DeleteSegment,
        DeleteSegmentFails, EndDelete, BeginSearch, EndSearch, MutexFree
<1>. QED
  BY <1>1, <1>2, StaysCurrent

-----------------------------------------------------------------------------
(* What a deletion leaves behind.                                          *)

(* A step that leaves no new segment without a reason keeps their number.  *)
LEMMA OrphansStay ==
  ASSUME FewOrphans, phase # "down" /\ loadOk, Orphans' \subseteq Orphans,
         faults \in Nat, faults' \in {faults, faults + 1}
  PROVE  FewOrphans'
BY StillAtMost DEF FewOrphans

(* A step that keeps the indexed files, the deletions under way and what   *)
(* is still to load keeps the reason for a segment.                        *)
LEMMA StaysAccounted ==
  ASSUME DOMAIN ix.fileToTerms \subseteq DOMAIN ix'.fileToTerms,
         \A h \in Handlers : At(h, "unlink") => handler'[h] = handler[h],
         phase = "loading" => phase' = "loading" /\ toLoad \subseteq toLoad',
         NEW n, Accounted(n)
  PROVE  Accounted(n)'
BY DEF Accounted, At

(* Loading registers the file of each segment it takes from the list.      *)
LEMMA ProcessLeft ==
  ASSUME Stationary, StoreInv, FewOrphans, ProcessStep
  PROVE  FewOrphans'
<1> USE DEF StoreInv
<1>0. faults \in Nat /\ faults' \in {faults, faults + 1}
  BY FaultsGrow
<1>1. CASE LoadConfig \/ LoadConfigFails
  <2>1. segments' = segments /\ toLoad' = Scan(DefaultDir) /\ phase' = "loading"
    BY <1>1 DEF LoadConfig, LoadConfigFails, ConfiguredDir, Settled, disk
  <2>2. Scan(DefaultDir) = {<<DefaultDir, n>> : n \in DOMAIN segments[DefaultDir]}
    BY DirsAssumption DEF Scan, Stationary, Flat
  <2>3. Orphans' = {}
    BY <2>1, <2>2 DEF Orphans, Accounted
  <2>. QED
    BY <1>0, <2>3, NoneAtMost DEF FewOrphans
<1>2. ASSUME NEW d \in Dirs, NEW m \in Names, LoadSegment(d, m)
      PROVE  FewOrphans'
  <2> DEFINE doc == segments[d][m]
  <2>1. /\ <<d, m>> \in toLoad /\ phase = "loading" /\ doc # Unreadable
        /\ ix' = MergePartialLoadIndexThreadWorkers(ix, PartialLoadIndexThreadWorkers(doc))
        /\ toLoad' = toLoad \ {<<d, m>>}
        /\ phase' = phase /\ handler' = handler
        /\ segments' = segments /\ loadOk' = loadOk
    BY <1>2 DEF LoadSegment, disk
  <2>2. d = DefaultDir /\ m \in DOMAIN segments[d]
    BY <2>1 DEF DataInv, LoadInv, Settled
  <2>3. doc \in Segments /\ IsIndex(ix) /\ BinName[doc.filePath] = m
    BY <2>1, <2>2 DEF TypeInv, TypeOK, IsMap, Contents, DataInv, SegmentsSound
  <2> HIDE DEF doc
  <2>4. DOMAIN ix'.fileToTerms = DOMAIN ix.fileToTerms \cup {doc.filePath}
    BY <2>1, <2>3, LoadSound
  <2>5. ASSUME NEW n, Accounted(n)
        PROVE  Accounted(n)'
    <3>1. CASE n = m
      BY <2>3, <2>4, <3>1 DEF Accounted
    <3>2. CASE n # m
      BY <2>1, <2>4, <2>5, <3>2 DEF Accounted, At
    <3>. QED
      BY <3>1, <3>2
  <2>6. Orphans' \subseteq Orphans
    BY <2>1, <2>5 DEF Orphans
  <2>. QED
    BY <1>0, <2>1, <2>6, OrphansStay DEF FewOrphans
<1>3. CASE StartWorker \/ BeginShutdown
  <2>1. /\ ix' = ix /\ handler' = handler /\ loadOk' = loadOk
        /\ segments' = segments /\ toLoad' = toLoad /\ phase # "down"
        /\ phase = "loading" => toLoad = {}
    BY <1>3 DEF StartWorker, BeginShutdown, disk
  <2>2. Orphans' \subseteq Orphans
    BY <2>1 DEF Orphans, Accounted, At
  <2>. QED
    BY <1>0, <2>1, <2>2, OrphansStay DEF FewOrphans
<1>4. CASE LoadAborts
  BY <1>4 DEF LoadAborts, FewOrphans
<1>5. CASE FinishShutdown \/ Crash
  BY <1>5 DEF FinishShutdown, Crash, ProcessEnds, FewOrphans
<1>. QED
  BY <1>1, <1>2, <1>3, <1>4, <1>5 DEF ProcessStep

(* The worker makes a segment of an indexed file only.                     *)
LEMMA WorkerLeft ==
  ASSUME StoreInv, FewOrphans, WorkerStep
  PROVE  FewOrphans'
<1> USE DEF StoreInv
<1>1. /\ ix' = ix /\ handler' = handler /\ loadOk' = loadOk /\ phase' = phase /\ toLoad' = toLoad
  BY DEF WorkerStep, WorkerPop, WorkerExit, WorkerReadPath, WorkerSkipStale, WorkerLock,
         OpenSegment, OpenSegmentFails, WriteSegment, WriteSegmentFails, WorkerUnchanged
<1>2. SUFFICES Orphans' \subseteq Orphans
  BY <1>1, FaultsGrow, OrphansStay DEF FewOrphans
<1>3. ASSUME NEW n, Accounted(n)
      PROVE  Accounted(n)'
  BY <1>1, <1>3 DEF Accounted, At
<1>4. CASE OpenSegment \/ WriteSegment
  <2> DEFINE f == worker.job[1].file
  <2>1. worker.pc \in {"open", "write"} /\ worker.bin = DefaultDir
    BY <1>4 DEF OpenSegment, WriteSegment, Settled
  <2>2. PICK content : SetSegment(DefaultDir, BinName[f], content)
    BY <1>4, <2>1 DEF OpenSegment, WriteSegment
  <2>3. DOMAIN segments'[DefaultDir] = DOMAIN segments[DefaultDir] \cup {BinName[f]}
    BY <2>2, DirsAssumption DEF SetSegment, Put, TypeInv, TypeOK
  <2>4. f \in DOMAIN ix'.fileToTerms
    BY <1>1, <2>1 DEF TypeInv, JobIndexed, FilePresent
  <2>5. ASSUME NEW n, n = BinName[f]
        PROVE  Accounted(n)'
    BY <2>4, <2>5 DEF Accounted
  <2>. QED
    BY <1>3, <2>3, <2>5 DEF Orphans
<1>5. CASE ~(OpenSegment \/ WriteSegment)
  <2>1. segments' = segments
    BY <1>5 DEF WorkerStep, WorkerPop, WorkerExit, WorkerReadPath, WorkerSkipStale, WorkerLock,
                OpenSegmentFails, WriteSegmentFails
  <2>. QED
    BY <1>3, <2>1 DEF Orphans
<1>. QED
  BY <1>4, <1>5

(* A deletion keeps its name until the segment is gone, or cannot be       *)
(* removed.                                                                *)
LEMMA RequestLeft ==
  ASSUME StoreInv, Drained, FewOrphans, NEW h \in Handlers, RequestStep(h)
  PROVE  FewOrphans'
<1> USE DEF StoreInv
<1>1. /\ phase = "serving" /\ phase' = phase /\ loadOk' = loadOk
      /\ \A g \in Handlers : g # h => handler'[g] = handler[g]
  BY RequestServing, RequestControl
<1>2. faults \in Nat /\ faults' \in {faults, faults + 1}
  BY FaultsGrow
<1>3. ASSUME Orphans' \subseteq Orphans
      PROVE  FewOrphans'
  BY <1>1, <1>2, <1>3, OrphansStay DEF FewOrphans
<1>4. ASSUME handler[h].pc # "unlink", segments' = segments,
             DOMAIN ix.fileToTerms \subseteq DOMAIN ix'.fileToTerms
      PROVE  FewOrphans'
  <2>1. \A n : Accounted(n) => Accounted(n)'
    BY <1>1, <1>4, StaysAccounted DEF At
  <2>. QED
    BY <1>3, <1>4, <2>1 DEF Orphans
<1>5. ASSUME NEW text \in Texts, MergeFile(h, text)
      PROVE  FewOrphans'
  <2> DEFINE f == handler[h].files[handler[h].merged + 1]
  <2>1. handler[h].files \in Seq(Files) /\ handler[h].merged \in Nat
    BY DEF TypeInv, TypeOK, HandlerState
  <2>2. f \in Files /\ ix' = BuildIndex(ix, f, text) /\ segments' = segments
    BY <1>5, <2>1 DEF MergeFile, disk
  <2> HIDE DEF f
  <2>3. text \in Seq(Terms) /\ IsIndex(ix)
    BY DocumentsAssumption DEF TypeInv, TypeOK
  <2>4. DOMAIN ix.fileToTerms \subseteq DOMAIN ix'.fileToTerms
    BY <2>2, <2>3, BuildSound
  <2>. QED
    BY <1>4, <1>5, <2>2, <2>4 DEF MergeFile
<1>6. ASSUME NEW file \in Files, LockForDelete(h, file)
      PROVE  FewOrphans'
  <2>1. /\ ix' = RemoveFileFromIndex(ix, file) /\ segments' = segments
        /\ handler[h].pc # "unlink"
    BY <1>6, NobodyExclusive DEF LockForDelete, MutexFree, disk
  <2>2. handler'[h] = [Idle EXCEPT !.pc = "unlink", !.files = <<file>>]
    BY <1>6 DEF LockForDelete, TypeInv, TypeOK
  <2>3. handler'[h].pc = "unlink" /\ handler'[h].files[1] = file
    BY <2>2 DEF Idle
  <2>4. DOMAIN ix'.fileToTerms = DOMAIN ix.fileToTerms \ {file}
    BY <2>1, RemoveCoherent DEF TypeInv, TypeOK, DataInv, Coherent
  <2>5. ASSUME NEW n, Accounted(n)
        PROVE  Accounted(n)'
    BY <1>1, <2>1, <2>3, <2>4, <2>5 DEF Accounted, At
  <2>. QED
    BY <1>3, <2>1, <2>5 DEF Orphans
<1>7. CASE DeleteSegment(h) \/ DeleteSegmentFails(h)
  <2> DEFINE gone == BinName[handler[h].files[1]]
  <2>1. ix' = ix
    BY <1>7 DEF DeleteSegment, DeleteSegmentFails, EndDelete
  <2>2. ASSUME NEW n, n # gone, Accounted(n)
        PROVE  Accounted(n)'
    BY <1>1, <2>1, <2>2 DEF Accounted, At
  <2>3. CASE DeleteSegment(h)
    <3>1. segments' = [segments EXCEPT ![DefaultDir] = Without(@, gone)]
      BY <2>3 DEF DeleteSegment, Settled
    <3>2. DOMAIN segments'[DefaultDir] = DOMAIN segments[DefaultDir] \ {gone}
      BY <3>1, DirsAssumption DEF Without, Restrict, TypeInv, TypeOK
    <3>. QED
      BY <1>3, <2>2, <3>2 DEF Orphans
  <2>4. CASE DeleteSegmentFails(h)
    <3>1. ~IndexBinChanging
      BY DEF Settled, IndexBinChanging
    <3>2. faults' = faults + 1 /\ segments' = segments
      BY <2>4, <3>1 DEF DeleteSegmentFails, disk
    <3>3. Orphans' \subseteq Orphans \cup {gone}
      BY <2>2, <3>2 DEF Orphans
    <3>. QED
      BY <1>1, <1>2, <3>2, <3>3, OneMoreAtMost DEF FewOrphans
  <2>. QED
    BY <1>7, <2>3, <2>4
<1>8. CASE (\E batch \in Batches : LockForIndex(h, batch)) \/ FinishIndex(h)
           \/ BeginSearch(h) \/ EndSearch(h)
  <2>1. handler[h].pc # "unlink"
    <3>1. Idle.pc = "idle"
      BY DEF Idle
    <3>. QED
      BY <1>8, <3>1 DEF LockForIndex, FinishIndex, BeginSearch, EndSearch, Accepts
  <2>2. ix' = ix /\ segments' = segments
    BY <1>8 DEF LockForIndex, FinishIndex, BeginSearch, EndSearch, disk
  <2>. QED
    BY <1>4, <2>1, <2>2
<1>. QED
  BY <1>5, <1>6, <1>7, <1>8 DEF RequestStep

-----------------------------------------------------------------------------
(* What a fault loses.                                                     *)

(* A job stays pending while its file keeps its generation, and the queue, *)
(* the worker and the batches keep their files.                            *)
LEMMA StaysPending ==
  ASSUME NEW f, Pending(f), GetFileGen(ix', f) = GetFileGen(ix, f),
         \A i \in DOMAIN dirtyQueue : \E j \in DOMAIN dirtyQueue' : dirtyQueue'[j] = dirtyQueue[i],
         worker.job # <<>> => worker'.job = worker.job,
         \A h \in Handlers : At(h, "merge") =>
           /\ handler'[h].pc = "merge" /\ handler'[h].files = handler[h].files
           /\ 1 .. handler[h].merged \subseteq 1 .. handler'[h].merged
  PROVE  Pending(f)'
<1>1. CurrentJob(f)' = CurrentJob(f)
  BY DEF CurrentJob
<1>. QED
  BY <1>1 DEF Pending, At

(* The generation of an indexed file is the one save writes.               *)
LEMMA SavedGeneration ==
  ASSUME NEW jx, NEW f \in DOMAIN jx.fileToTerms
  PROVE  GetFileGen(jx, f) = Save(jx, f).generation
BY DEF GetFileGen, FilePresent, Save

(* The worker's hands are empty again when the segment is written, and not *)
(* before, unless the disk fails: a job that is not current is not pending. *)
LEMMA WorkerJobs ==
  ASSUME TypeInv, WorkerStep, NEW f, Pending(f)
  PROVE  Pending(f)' \/ (worker.job[1].file = f /\ (WriteSegment \/ faults' = faults + 1))
<1>1. ix' = ix /\ handler' = handler
  BY DEF WorkerStep, WorkerPop, WorkerExit, WorkerReadPath, WorkerSkipStale, WorkerLock,
         OpenSegment, OpenSegmentFails, WriteSegment, WriteSegmentFails, WorkerUnchanged
<1>2. worker = [pc |-> worker.pc, job |-> worker.job, bin |-> worker.bin]
  BY DEF TypeInv, TypeOK, WorkerState
<1>3. CurrentJob(f)' = CurrentJob(f)
  BY <1>1 DEF CurrentJob
<1>4. ASSUME dirtyQueue' = dirtyQueue, worker.job # <<>> => worker'.job = worker.job
      PROVE  Pending(f)'
  BY <1>1, <1>4, StaysPending DEF At
<1>5. ASSUME dirtyQueue' = dirtyQueue, worker.job # <<CurrentJob(f)>>
      PROVE  Pending(f)'
  BY <1>1, <1>3, <1>5 DEF Pending, At
<1>6. CASE WorkerPop
  <2>1. /\ worker'.job = <<dirtyQueue[1]>> /\ dirtyQueue' = Tail(dirtyQueue) /\ dirtyQueue # <<>>
        /\ worker.job = <<>>
    BY <1>2, <1>6 DEF WorkerPop, TypeInv, TypeOK
  <2>2. ASSUME NEW i \in DOMAIN dirtyQueue, dirtyQueue[i] = CurrentJob(f)
        PROVE  Pending(f)'
    <3>1. CASE i = 1
      BY <1>3, <2>1, <2>2, <3>1 DEF Pending
    <3>2. CASE i # 1
      <4>1. dirtyQueue \in Seq(DirtyJob)
        BY DEF TypeInv, TypeOK
      <4>2. i - 1 \in DOMAIN dirtyQueue' /\ dirtyQueue'[i - 1] = dirtyQueue[i]
        BY <2>1, <3>2, <4>1
      <4>. QED
        BY <1>3, <2>2, <4>2 DEF Pending
    <3>. QED
      BY <3>1, <3>2
  <2>3. ASSUME NEW h \in Handlers, At(h, "merge"),
               \E i \in 1 .. handler[h].merged : handler[h].files[i] = f
        PROVE  Pending(f)'
    BY <1>1, <2>3 DEF Pending, At
  <2>. QED
    BY <2>1, <2>2, <2>3 DEF Pending
<1>7. CASE WorkerReadPath \/ WorkerLock \/ OpenSegment
  BY <1>2, <1>4, <1>7 DEF WorkerReadPath, WorkerLock, OpenSegment
<1>8. CASE WorkerExit
  BY <1>4, <1>8 DEF WorkerExit, TypeInv, TypeOK
<1>9. CASE WorkerSkipStale
  <2>1. worker.job # <<CurrentJob(f)>>
    BY <1>9 DEF WorkerSkipStale, JobIsStale, CurrentJob
  <2>. QED
    BY <1>5, <1>9, <2>1 DEF WorkerSkipStale
<1>10. CASE OpenSegmentFails \/ WriteSegmentFails \/ WriteSegment
  <2>1. worker.job = <<CurrentJob(f)>> => worker.job[1].file = f
    BY DEF CurrentJob
  <2>2. dirtyQueue' = dirtyQueue /\ (WriteSegment \/ faults' = faults + 1)
    BY <1>10 DEF OpenSegmentFails, WriteSegmentFails, WriteSegment
  <2>. QED
    BY <1>5, <2>1, <2>2
<1>. QED
  BY <1>6, <1>7, <1>8, <1>9, <1>10 DEF WorkerStep

(* A file that is indexed is pending until its job is queued, and then     *)
(* because of it; any other file is left as it was.                        *)
LEMMA RequestJobs ==
  ASSUME TypeInv, DataInv, NEW h \in Handlers, RequestStep(h), NEW f \in DOMAIN ix'.fileToTerms
  PROVE  \/ Pending(f)'
         \/ f \in DOMAIN ix.fileToTerms /\ ~Pending(f) /\ Save(ix', f) = Save(ix, f)
<1>1. /\ worker' = worker
      /\ \A g \in Handlers : g # h => handler'[g] = handler[g]
  BY RequestControl
<1>2. IsIndex(ix) /\ CoherentIndex(ix) /\ dirtyQueue \in Seq(DirtyJob)
  BY DEF TypeInv, TypeOK, DataInv, Coherent
<1>3. ASSUME f \in DOMAIN ix.fileToTerms, Save(ix', f) = Save(ix, f), dirtyQueue' = dirtyQueue,
             At(h, "merge") => /\ handler'[h].pc = "merge" /\ handler'[h].files = handler[h].files
                               /\ 1 .. handler[h].merged \subseteq 1 .. handler'[h].merged
      PROVE  Pending(f) => Pending(f)'
  <2>1. GetFileGen(ix', f) = GetFileGen(ix, f)
    BY <1>3, SavedGeneration
  <2>2. \A g \in Handlers : At(g, "merge") =>
          /\ handler'[g].pc = "merge" /\ handler'[g].files = handler[g].files
          /\ 1 .. handler[g].merged \subseteq 1 .. handler'[g].merged
    <3>1. ASSUME NEW g \in Handlers, g # h
          PROVE  handler'[g] = handler[g]
      BY <1>1, <3>1
    <3>. QED
      BY <1>3, <3>1 DEF At
  <2>. QED
    BY <1>1, <1>3, <2>1, <2>2, StaysPending
<1>4. ASSUME NEW text \in Texts, MergeFile(h, text)
      PROVE  \/ Pending(f)'
             \/ f \in DOMAIN ix.fileToTerms /\ ~Pending(f) /\ Save(ix', f) = Save(ix, f)
  <2> DEFINE next == handler[h].merged + 1
             g == handler[h].files[next]
  <2>1. /\ handler[h].files \in Seq(Files) /\ handler[h].merged \in Nat
        /\ handler[h] = [handler[h] EXCEPT !.pc = "merge"]
    BY <1>4 DEF MergeFile, TypeInv, TypeOK, HandlerState
  <2>2. g \in Files /\ ix' = BuildIndex(ix, g, text) /\ dirtyQueue' = dirtyQueue
    BY <1>4, <2>1 DEF MergeFile
  <2>3. /\ handler'[h].pc = "merge" /\ handler'[h].files = handler[h].files
        /\ handler'[h].merged = next
    BY <1>4 DEF MergeFile, TypeInv, TypeOK, HandlerState
  <2>4. next \in 1 .. handler'[h].merged /\ 1 .. handler[h].merged \subseteq 1 .. handler'[h].merged
    BY <2>1, <2>3
  <2>5. f = g => Pending(f)'
    BY <2>3, <2>4 DEF Pending, At
  <2> HIDE DEF g
  <2>6. text \in Seq(Terms)
    BY DocumentsAssumption
  <2>7. /\ DOMAIN ix'.fileToTerms = DOMAIN ix.fileToTerms \cup {g}
        /\ \A k \in DOMAIN ix.fileToTerms \ {g} : Save(ix', k) = Save(ix, k)
    BY <1>2, <2>2, <2>6, BuildSound, BuildKeeps
  <2>8. f # g => f \in DOMAIN ix.fileToTerms /\ Save(ix', f) = Save(ix, f)
    BY <2>7
  <2>. QED
    BY <1>3, <2>2, <2>3, <2>4, <2>5, <2>8
<1>5. ASSUME NEW file \in Files, LockForDelete(h, file)
      PROVE  \/ Pending(f)'
             \/ f \in DOMAIN ix.fileToTerms /\ ~Pending(f) /\ Save(ix', f) = Save(ix, f)
  <2>1. ix' = RemoveFileFromIndex(ix, file) /\ dirtyQueue' = dirtyQueue /\ ~At(h, "merge")
    BY <1>5, NobodyExclusive DEF LockForDelete, MutexFree, At
  <2>2. f \in DOMAIN ix.fileToTerms /\ Save(ix', f) = Save(ix, f)
    BY <1>2, <2>1, RemoveKeeps
  <2>. QED
    BY <1>3, <2>1, <2>2
<1>6. ASSUME FinishIndex(h)
      PROVE  ix' = ix /\ (Pending(f) => Pending(f)')
  <2> DEFINE files == handler[h].files
             jobs == [i \in 1 .. Len(files) |->
                        [file |-> files[i], generation |-> GetFileGen(ix, files[i])]]
  <2>1. /\ dirtyQueue' = dirtyQueue \o jobs /\ ix' = ix
        /\ At(h, "merge") /\ handler[h].merged = Len(files)
    BY <1>6 DEF FinishIndex, At
  <2>2. files \in Seq(Files)
    BY DEF TypeInv, TypeOK, HandlerState
  <2>3. jobs \in Seq([file : Files, generation : {GetFileGen(ix, g) : g \in Files}])
        /\ Len(jobs) = Len(files)
    BY <2>2
  <2>4. \A i \in 1 .. Len(files) : jobs[i] = CurrentJob(files[i])
    BY DEF CurrentJob
  <2> HIDE DEF jobs
  <2>5. /\ \A i \in DOMAIN dirtyQueue : i \in DOMAIN dirtyQueue' /\ dirtyQueue'[i] = dirtyQueue[i]
        /\ \A i \in 1 .. Len(files) :
             /\ Len(dirtyQueue) + i \in DOMAIN dirtyQueue'
             /\ dirtyQueue'[Len(dirtyQueue) + i] = jobs[i]
    BY <1>2, <2>1, <2>2, <2>3
  <2>6. ASSUME Pending(f)
        PROVE  Pending(f)'
    <3>1. CurrentJob(f)' = CurrentJob(f)
      BY <2>1 DEF CurrentJob
    <3>2. CASE \E i \in DOMAIN dirtyQueue : dirtyQueue[i] = CurrentJob(f)
      BY <2>5, <3>1, <3>2 DEF Pending
    <3>3. CASE worker.job = <<CurrentJob(f)>>
      BY <1>1, <3>1, <3>3 DEF Pending
    <3>4. ASSUME NEW i \in 1 .. handler[h].merged, files[i] = f
          PROVE  Pending(f)'
      BY <2>1, <2>4, <2>5, <3>1, <3>4 DEF Pending
    <3>5. ASSUME NEW g \in Handlers, g # h, At(g, "merge"),
                 \E i \in 1 .. handler[g].merged : handler[g].files[i] = f
          PROVE  Pending(f)'
      BY <1>1, <3>5 DEF Pending, At
    <3>. QED
      BY <2>6, <3>2, <3>3, <3>4, <3>5 DEF Pending
  <2>. QED
    BY <2>1, <2>6
<1>7. CASE (\E batch \in Batches : LockForIndex(h, batch)) \/ DeleteSegment(h)
           \/ DeleteSegmentFails(h) \/ BeginSearch(h) \/ EndSearch(h)
  <2>1. Idle.pc = "idle"
    BY DEF Idle
  <2>2. ix' = ix /\ dirtyQueue' = dirtyQueue /\ ~At(h, "merge")
    BY <1>7, <2>1, NobodyExclusive
    DEF LockForIndex, MutexFree, DeleteSegment, DeleteSegmentFails, EndDelete, BeginSearch, EndSearch,
        Accepts, At
  <2>. QED
    BY <1>3, <2>2
<1>. QED
  BY <1>4, <1>5, <1>6, <1>7 DEF RequestStep

(* What is loaded is on the shelf.                                         *)
LEMMA ProcessForgets ==
  ASSUME Stationary, StoreInv, FewLost, ProcessStep
  PROVE  FewLost'
<1> USE DEF StoreInv
<1>0. SUFFICES Lost' \subseteq Lost
  BY FaultsGrow, StillAtMost DEF FewLost
<1>1. ASSUME ProcessEnds
      PROVE  Lost' \subseteq Lost
  BY <1>1 DEF ProcessEnds, EmptyIndex, EmptyMap, Lost
<1>2. ASSUME NEW d \in Dirs, NEW n \in Names, LoadSegment(d, n)
      PROVE  Lost' \subseteq Lost
  <2> DEFINE doc == segments[d][n]
  <2>1. /\ <<d, n>> \in toLoad /\ phase = "loading" /\ doc # Unreadable
        /\ ix' = MergePartialLoadIndexThreadWorkers(ix, PartialLoadIndexThreadWorkers(doc))
        /\ dirtyQueue' = dirtyQueue /\ worker' = worker /\ handler' = handler
        /\ segments' = segments
    BY <1>2 DEF LoadSegment, disk
  <2>2. d = DefaultDir /\ n \in DOMAIN segments[d] /\ ~FilePresent(ix, doc.filePath)
    BY <2>1 DEF DataInv, LoadInv, Settled
  <2>3. doc \in Segments /\ IsIndex(ix)
    BY <2>1, <2>2 DEF TypeInv, TypeOK, IsMap, Contents
  <2>4. Whole(doc) /\ CoherentIndex(ix) /\ BinName[doc.filePath] = n
    BY <2>1, <2>2 DEF DataInv, SegmentsSound, Coherent
  <2>5. segments'[DefaultDir][n] = doc /\ n \in DOMAIN segments'[DefaultDir]
    BY <2>1, <2>2
  <2> HIDE DEF doc
  <2>6. /\ DOMAIN ix'.fileToTerms = DOMAIN ix.fileToTerms \cup {doc.filePath}
        /\ Save(ix', doc.filePath) = doc
        /\ \A g \in DOMAIN ix.fileToTerms : Save(ix', g) = Save(ix, g)
    BY <2>1, <2>2, <2>3, <2>4, LoadSound, LoadRestores
  <2>7. ASSUME NEW g, g = doc.filePath
        PROVE  Shelved(g)'
    BY <2>4, <2>5, <2>6, <2>7 DEF Shelved
  <2>8. ASSUME NEW g \in DOMAIN ix.fileToTerms, Pending(g) \/ Shelved(g)
        PROVE  (Pending(g) \/ Shelved(g))'
    <3>1. GetFileGen(ix', g) = GetFileGen(ix, g)
      BY <2>6, SavedGeneration
    <3>2. Pending(g) => Pending(g)'
      BY <2>1, <3>1, StaysPending DEF At
    <3>3. Shelved(g) => Shelved(g)'
      BY <2>1, <2>6 DEF Shelved
    <3>. QED
      BY <2>8, <3>2, <3>3
  <2>. QED
    BY <2>6, <2>7, <2>8 DEF Lost
<1>3. CASE LoadConfig \/ LoadConfigFails \/ LoadAborts \/ StartWorker \/ BeginShutdown
  <2>1. /\ ix' = ix /\ segments' = segments
        /\ dirtyQueue' = dirtyQueue /\ handler' = handler
    BY <1>3 DEF LoadConfig, LoadConfigFails, LoadAborts, StartWorker, BeginShutdown, disk
  <2>2. worker.job # <<>> => worker'.job = worker.job
    <3>1. CASE StartWorker
      BY <3>1 DEF StartWorker, TypeInv, TypeOK, Locking
    <3>. QED
      BY <1>3, <3>1 DEF LoadConfig, LoadConfigFails, LoadAborts, BeginShutdown
  <2>3. \A f : (Pending(f) => Pending(f)') /\ (Shelved(f) => Shelved(f)')
    BY <2>1, <2>2, StaysPending DEF Shelved, At
  <2>. QED
    BY <2>1, <2>3 DEF Lost
<1>. QED
  BY <1>1, <1>2, <1>3 DEF ProcessStep, FinishShutdown, Crash

(* A job goes from the queue to the worker to the disk, and is lost when   *)
(* the disk fails.                                                         *)
LEMMA WorkerForgets ==
  ASSUME Stationary, StoreInv, JobCurrent, FewLost, WorkerStep
  PROVE  FewLost'
<1> USE DEF StoreInv
<1>0. faults \in Nat /\ faults' \in {faults, faults + 1}
  BY FaultsGrow
<1>1. ix' = ix
  BY DEF WorkerStep, WorkerPop, WorkerExit, WorkerReadPath, WorkerSkipStale, WorkerLock,
         OpenSegment, OpenSegmentFails, WriteSegment, WriteSegmentFails, WorkerUnchanged
<1>2. worker = [pc |-> worker.pc, job |-> worker.job, bin |-> DefaultDir]
  BY DEF TypeInv, TypeOK, WorkerState, Settled
<1>3. CASE ~(OpenSegment \/ WriteSegment)
  <2>1. segments' = segments
    BY <1>3 DEF WorkerStep, WorkerPop, WorkerExit, WorkerReadPath, WorkerSkipStale, WorkerLock,
                OpenSegmentFails, WriteSegmentFails
  <2>2. \A f : Shelved(f) => Shelved(f)'
    BY <1>1, <2>1 DEF Shelved
  <2>3. \A f : Pending(f) => Pending(f)' \/ (f = worker.job[1].file /\ faults' = faults + 1)
    BY <1>3, WorkerJobs
  <2>4. CASE faults' = faults + 1
    <3>1. Lost' \subseteq Lost \cup {worker.job[1].file}
      BY <1>1, <2>2, <2>3 DEF Lost
    <3>. QED
      BY <1>0, <2>4, <3>1, OneMoreAtMost DEF FewLost
  <2>5. CASE faults' # faults + 1
    <3>1. Lost' \subseteq Lost
      BY <1>1, <2>2, <2>3, <2>5 DEF Lost
    <3>. QED
      BY <1>0, <3>1, StillAtMost DEF FewLost
  <2>. QED
    BY <2>4, <2>5
<1>4. SUFFICES ASSUME OpenSegment \/ WriteSegment,
                      NEW f \in DOMAIN ix.fileToTerms, Pending(f) \/ Shelved(f)
               PROVE  Pending(f)' \/ Shelved(f)'
  <2>1. ASSUME Lost' \subseteq Lost
        PROVE  FewLost'
    BY <1>0, <2>1, StillAtMost DEF FewLost
  <2>2. ASSUME \A f \in DOMAIN ix.fileToTerms :
                 Pending(f) \/ Shelved(f) => Pending(f)' \/ Shelved(f)'
        PROVE  Lost' \subseteq Lost
    BY <1>1, <2>2 DEF Lost
  <2>. QED
    BY <1>3, <2>1, <2>2
<1>5. faults' # faults + 1
  BY <1>0, <1>4 DEF OpenSegment, WriteSegment
<1>6. CASE OpenSegment \/ WriteSegment
  <2>0. worker.job = <<worker.job[1]>> /\ worker.job[1] \in DirtyJob
    BY <1>6 DEF OpenSegment, WriteSegment, TypeInv, TypeOK, WorkerState
  <2>1. PICK g \in Files : g = worker.job[1].file
    BY <2>0 DEF DirtyJob
  <2>2. worker.job = <<CurrentJob(g)>>
    BY <1>6, <2>0, <2>1 DEF OpenSegment, WriteSegment, JobCurrent, JobIsStale, CurrentJob, DirtyJob
  <2>3. PICK content : /\ SetSegment(DefaultDir, BinName[g], content)
                       /\ WriteSegment => content = Save(ix, g)
    BY <1>2, <1>6, <2>1 DEF OpenSegment, WriteSegment, TypeInv, JobIndexed
  <2>4. segments'[DefaultDir] = Put(segments[DefaultDir], BinName[g], content)
    BY <2>3, DirsAssumption DEF SetSegment, TypeInv, TypeOK
  <2>5. CASE f = g
    <3>1. OpenSegment => Pending(f)'
      <4>1. Pending(f) /\ (OpenSegment => ~WriteSegment)
        BY <2>2, <2>5 DEF Pending, OpenSegment, WriteSegment
      <4>. QED
        BY <1>5, <4>1, WorkerJobs
    <3>2. WriteSegment => Shelved(f)'
      BY <1>1, <2>3, <2>4, <2>5 DEF Put, Shelved
    <3>. QED
      BY <1>6, <3>1, <3>2
  <2>6. CASE f # g
    <3>1. BinName[f] # BinName[g]
      BY <2>6 DEF Stationary, OwnNames, TypeInv, TypeOK, IsIndex, IsMap
    <3>2. Shelved(f) => Shelved(f)'
      BY <1>1, <2>4, <3>1 DEF Put, Shelved
    <3>3. Pending(f) => Pending(f)'
      BY <1>5, <2>1, <2>6, WorkerJobs
    <3>. QED
      BY <1>4, <3>2, <3>3
  <2>. QED
    BY <2>5, <2>6
<1>. QED
  BY <1>4, <1>6

(* A batch keeps its files until their jobs are queued, and a deletion     *)
(* unlinks the segment of a file that is not indexed.                      *)
LEMMA RequestForgets ==
  ASSUME Stationary, StoreInv, FewLost, NEW h \in Handlers, RequestStep(h)
  PROVE  FewLost'
<1> USE DEF StoreInv
<1>1. SUFFICES Lost' \subseteq Lost
  BY FaultsGrow, StillAtMost DEF FewLost
<1>2. SUFFICES ASSUME NEW f \in DOMAIN ix.fileToTerms, Save(ix', f) = Save(ix, f), Shelved(f)
               PROVE  Shelved(f)'
  BY RequestJobs DEF Lost
<1>3. CASE DeleteSegment(h)
  <2> DEFINE g == handler[h].files[1]
  <2>1. handler[h].pc = "unlink"
        /\ segments' = [segments EXCEPT ![DefaultDir] = Without(@, BinName[g])]
    BY <1>3 DEF DeleteSegment, EndDelete, Settled
  <2>2. g \in Files /\ g \notin DOMAIN ix.fileToTerms
    BY <2>1 DEF TypeInv, TypeOK, HandlerState, Settled, FilePresent
  <2> HIDE DEF g
  <2>3. segments'[DefaultDir] = Without(segments[DefaultDir], BinName[g])
    BY <2>1, DirsAssumption DEF TypeInv, TypeOK
  <2>4. BinName[f] # BinName[g]
    BY <2>2 DEF Stationary, OwnNames, TypeInv, TypeOK, IsIndex, IsMap
  <2>. QED
    BY <1>2, <2>3, <2>4 DEF Shelved, Without, Restrict
<1>4. CASE ~DeleteSegment(h)
  <2>1. segments' = segments
    BY <1>4 DEF RequestStep, LockForIndex, MergeFile, FinishIndex, LockForDelete,
                DeleteSegmentFails, BeginSearch, EndSearch, disk
  <2>. QED
    BY <1>2, <2>1 DEF Shelved
<1>. QED
  BY <1>3, <1>4

-----------------------------------------------------------------------------
(* The invariant.                                                          *)

(* An engine with nothing in memory and nothing on disk owes nothing.      *)
LEMMA InitRestore == Init => RestoreInv
<1> SUFFICES ASSUME Init PROVE RestoreInv
  OBVIOUS
<1>1. Lost = {} /\ faults = 0
  BY DEF Init, Lost, EmptyIndex, EmptyMap
<1>2. FewLost
  BY <1>1, NoneAtMost DEF FewLost
<1>. QED
  BY <1>2 DEF Init, RestoreInv, FewOrphans, JobCurrent, Drained, WorkerAt

(* Every step keeps what memory and disk owe each other.                   *)
LEMMA RestoreStep ==
  ASSUME Stationary, StoreInv, RestoreInv, [Next]_vars
  PROVE  RestoreInv'
<1> USE DEF RestoreInv
<1>1. CASE UNCHANGED vars
  BY <1>1
  DEF vars, memory, disk, FewLost, Lost, FewOrphans, Orphans, JobCurrent, Drained, Pending,
      Shelved, Accounted, At, CurrentJob, JobIsStale
<1>2. ASSUME NEW h \in Handlers, RequestStep(h) \/ ModifyStep(h)
      PROVE  RestoreInv'
  <2>1. RequestStep(h)
    BY <1>2, NobodyModifies DEF StoreInv
  <2>. QED
    BY <2>1, RequestForgets, RequestLeft, RequestCurrent, RequestDrained DEF StoreInv
<1>3. CASE ProcessStep
  BY <1>3, ProcessForgets, ProcessLeft, ProcessCurrent, ProcessDrained DEF StoreInv
<1>4. CASE WorkerStep
  BY <1>4, WorkerForgets, WorkerLeft, WorkerCurrent, WorkerDrained DEF StoreInv
<1>. QED
  BY <1>1, <1>2, <1>3, <1>4 DEF Next

(* What memory and disk owe each other, in every reachable state.          *)
THEOREM RestoreInvariance ==
  ASSUME Stationary
  PROVE  Spec => [](StoreInv /\ RestoreInv)
<1>1. Init => RestoreInv
  BY InitRestore
<1>2. StoreInv /\ RestoreInv /\ [Next]_vars => RestoreInv'
  BY RestoreStep
<1>3. Spec => []StoreInv
  BY StoreInvariance
<1>. QED
  BY <1>1, <1>2, <1>3, PTL DEF Spec

(* Every indexed file has its current contents in a segment, or a job for  *)
(* it that the worker will not find stale, except for at most one file per *)
(* disk fault (Engine.cpp:59-107).                                         *)
THEOREM LossesTheorem ==
  ASSUME Stationary
  PROVE  Spec => []LossesCounted
<1>1. StoreInv /\ RestoreInv => LossesCounted
  <2> SUFFICES ASSUME StoreInv, RestoreInv PROVE LossesCounted
    OBVIOUS
  <2>1. DefaultDir \in Homes
    BY DirsAssumption DEF Homes, StoreInv, Settled
  <2>2. \A f : Shelved(f) => Persisted(f)
    BY <2>1 DEF Shelved, Persisted
  <2>3. {f \in DOMAIN ix.fileToTerms : ~(Pending(f) \/ Persisted(f))} \subseteq Lost
    BY <2>2 DEF Lost
  <2>4. faults \in Nat
    BY DEF StoreInv, TypeInv, TypeOK
  <2>. QED
    BY <2>3, <2>4, StillAtMost DEF RestoreInv, FewLost, AtMost, LossesCounted
<1>. QED
  BY <1>1, RestoreInvariance, PTL

(* In particular, as long as the disk works none is lost.                  *)
THEOREM PendingTheorem ==
  ASSUME Stationary
  PROVE  Spec => []PendingOrPersisted
<1>1. StoreInv /\ RestoreInv => PendingOrPersisted
  <2> SUFFICES ASSUME StoreInv, RestoreInv, faults = 0, NEW f \in DOMAIN ix.fileToTerms
               PROVE  Pending(f) \/ Persisted(f)
    BY DEF PendingOrPersisted
  <2>1. DefaultDir \in Homes
    BY DirsAssumption DEF Homes, StoreInv, Settled
  <2>2. Lost = {}
    BY AtMostNone DEF RestoreInv, FewLost
  <2>. QED
    BY <2>1, <2>2 DEF Lost, Shelved, Persisted
<1>. QED
  BY <1>1, RestoreInvariance, PTL

(* A deleted document has no segment that would bring it back, except for  *)
(* at most one per disk fault (Engine.cpp:162-166).                        *)
THEOREM NoOrphanTheorem ==
  ASSUME Stationary
  PROVE  Spec => []OrphansCounted
<1>1. StoreInv /\ RestoreInv => OrphansCounted
  <2> SUFFICES ASSUME StoreInv, RestoreInv, phase = "serving", loadOk
               PROVE  Cardinality({n \in DOMAIN segments[indexBin] : ~Owned(n)}) <= faults
    BY DEF OrphansCounted
  <2>1. {n \in DOMAIN segments[indexBin] : ~Owned(n)} = Orphans
    BY DEF Orphans, Accounted, Owned, StoreInv, Settled
  <2>. QED
    BY <2>1 DEF RestoreInv, FewOrphans, AtMost
<1>. QED
  BY <1>1, RestoreInvariance, PTL

(* Only the join ends the process between two crashes.                     *)
LEMMA CleanEnd ==
  ASSUME TypeInv, [Next]_vars, phase = "stopping", phase' = "down", crashes' = crashes,
         \A h \in Handlers : ~RequestStep(h) /\ ~ModifyStep(h)
  PROVE  FinishShutdown
<1>1. ~WorkerStep
  BY DEF WorkerStep, WorkerPop, WorkerExit, WorkerReadPath, WorkerSkipStale, WorkerLock,
         OpenSegment, OpenSegmentFails, WriteSegment, WriteSegmentFails, WorkerUnchanged
<1>2. ~Crash
  BY DEF Crash, TypeInv, TypeOK
<1>3. ~UNCHANGED vars
  BY DEF vars
<1>. QED
  BY <1>1, <1>2, <1>3
  DEF Next, ProcessStep, LoadConfig, LoadConfigFails, LoadSegment, LoadAborts, StartWorker, BeginShutdown

(* A directory with the current segment of every indexed file, and no      *)
(* other segment, restores the index.                                      *)
LEMMA ScanRestores ==
  ASSUME Flat, NEW d \in Dirs, ConfiguredDir = d,
         \A f \in DOMAIN ix.fileToTerms :
           BinName[f] \in DOMAIN segments[d] /\ segments[d][BinName[f]] = Save(ix, f),
         \A n \in DOMAIN segments[d] : \E f \in DOMAIN ix.fileToTerms : BinName[f] = n
  PROVE  RestoresIndex
<1>1. Scan(ConfiguredDir) = {<<d, n>> : n \in DOMAIN segments[d]}
  BY DEF Scan, Flat
<1>2. {segments[s[1]][s[2]] : s \in Scan(ConfiguredDir)} = {segments[d][n] : n \in DOMAIN segments[d]}
  <2>1. ASSUME NEW s \in Scan(ConfiguredDir)
        PROVE  \E n \in DOMAIN segments[d] : segments[s[1]][s[2]] = segments[d][n]
    <3>1. PICK n \in DOMAIN segments[d] : s = <<d, n>>
      BY <1>1
    <3>. QED
      BY <3>1
  <2>2. ASSUME NEW n \in DOMAIN segments[d]
        PROVE  \E s \in Scan(ConfiguredDir) : segments[s[1]][s[2]] = segments[d][n]
    <3> DEFINE s == <<d, n>>
    <3>1. s \in Scan(ConfiguredDir)
      BY <1>1
    <3>2. segments[s[1]][s[2]] = segments[d][n]
      OBVIOUS
    <3>. QED
      BY <3>1, <3>2
  <2>. QED
    BY <2>1, <2>2
<1>3. {segments[d][n] : n \in DOMAIN segments[d]} = {Save(ix, f) : f \in DOMAIN ix.fileToTerms}
  OBVIOUS
<1>. QED
  BY <1>2, <1>3 DEF RestoresIndex

(* A clean shutdown drains the queue (Engine.cpp:30-36, 66-69): on disk    *)
(* are then the current documents of exactly the indexed files.            *)
THEOREM ShutdownTheorem ==
  ASSUME Stationary
  PROVE  Spec => CleanShutdownKeepsIndex
<1>1. StoreInv /\ RestoreInv /\ [Next]_vars =>
        [(phase = "stopping" /\ phase' = "down" /\ crashes' = crashes /\ loadOk /\ faults = 0)
           => RestoresIndex]_vars
  <2> SUFFICES ASSUME StoreInv, RestoreInv, [Next]_vars, phase = "stopping", phase' = "down",
                      crashes' = crashes, loadOk, faults = 0
               PROVE  RestoresIndex
    OBVIOUS
  <2> USE DEF StoreInv, RestoreInv
  <2>1. FinishShutdown
    BY RequestServing, NobodyModifies, CleanEnd
  <2>2. worker.pc = "exited" /\ dirtyQueue = <<>> /\ worker.job = <<>>
        /\ \A h \in Handlers : handler[h].pc = "idle"
    BY <2>1 DEF FinishShutdown, Drained, TypeInv, TypeOK, Idle
  <2>3. \A f \in DOMAIN ix.fileToTerms : Shelved(f)
    <3>1. Lost = {}
      BY AtMostNone DEF FewLost
    <3>. QED
      BY <2>2, <3>1 DEF Lost, Pending, At
  <2>4. \A n \in DOMAIN segments[DefaultDir] : \E f \in DOMAIN ix.fileToTerms : BinName[f] = n
    <3>1. Orphans = {}
      BY AtMostNone DEF FewOrphans
    <3>. QED
      BY <2>2, <3>1 DEF Orphans, Accounted, At
  <2>5. ConfiguredDir = DefaultDir
    BY DEF ConfiguredDir, Settled
  <2>. QED
    BY <2>3, <2>4, <2>5, DirsAssumption, ScanRestores DEF Shelved, Stationary
<1>. QED
  BY <1>1, RestoreInvariance, PTL DEF Spec, CleanShutdownKeepsIndex
=============================================================================
