---------------------------- MODULE EngineTheorems ----------------------------
(***************************************************************************)
(* Theorems about Engine, for any files, terms, documents, directories,    *)
(* threads, requests and bounds.                                           *)
(***************************************************************************)
EXTENDS Engine, IndexTheorems

(* Who holds engineMutex, and when nobody can: a writer excludes every     *)
(* reader, an index or a deletion in progress holds it exclusively and a   *)
(* segment being written shared, and before the worker starts no thread    *)
(* but the loading one runs.                                               *)
Locking ==
  /\ readers # {} => writer = "none"
  /\ \A h \in Handlers : handler[h].pc \in {"merge", "unlink"} => writer = h
  /\ worker.pc \in {"open", "write"} => "serializer" \in readers
  /\ phase \in {"down", "loading"} =>
       readers = {} /\ worker.pc = "none" /\ \A h \in Handlers : handler[h] = Idle
  /\ phase = "down" => ix = EmptyIndex

(* What has been merged of a batch is indexed when its jobs are queued.    *)
BatchIndexed ==
  \A h \in Handlers : handler[h].pc = "merge" =>
    /\ handler[h].merged <= Len(handler[h].files)
    /\ \A i \in 1 .. handler[h].merged : FilePresent(ix, handler[h].files[i])

(* The file whose segment is being written is indexed.                     *)
JobIndexed ==
  worker.pc \in {"open", "write"} => FilePresent(ix, worker.job[1].file)

(* A segment found by the scan is still there when it is read.             *)
ListedExist ==
  phase = "loading" => \A s \in toLoad : s[2] \in DOMAIN segments[s[1]]

TypeInv == TypeOK /\ Locking /\ BatchIndexed /\ JobIndexed /\ ListedExist

(* No directory of the instance lies beneath another: a recursive scan of  *)
(* indexBin finds what a migration left there and nothing else.            *)
Flat == \A d \in Dirs : Beneath[d] = {d}

SoundContent(name, content) ==
  content # Unreadable => BinName[content.filePath] = name /\ Whole(content)

(* What a migration holds in its hands may be put down.                    *)
MovingSound ==
  \A h \in Handlers : handler[h].pc \in {"copy", "copied"} =>
    SoundContent(handler[h].moving[1].name, handler[h].moving[1].content)

(* The segments still to load are of files not yet loaded.                 *)
LoadInv ==
  phase = "loading" => \A s \in toLoad :
    /\ s[1] = indexBin /\ s[2] \in DOMAIN segments[indexBin]
    /\ segments[indexBin][s[2]] # Unreadable =>
         ~FilePresent(ix, segments[indexBin][s[2]].filePath)

DataInv == Coherent /\ SegmentsSound /\ MovingSound /\ LoadInv

-----------------------------------------------------------------------------
(* A handler thread between two requests has the type of its state.        *)
LEMMA IdleType == Idle \in HandlerState
BY DirsAssumption DEF Idle, HandlerState, HandlerPcs

(* So has the serializer thread without a job.                             *)
LEMMA WorkerAtType ==
  ASSUME NEW pc \in WorkerPcs
  PROVE  WorkerAt(pc) \in WorkerState
BY DirsAssumption DEF WorkerAt, WorkerState

(* Types and locks in the initial states.                                  *)
LEMMA InitType == Init => TypeInv
<1> SUFFICES ASSUME Init PROVE TypeInv
  OBVIOUS
<1>1. DOMAIN segments = Dirs /\ \A d \in Dirs : IsMap(segments[d], Names, Contents)
  BY EmptyMapType DEF Init
<1>2. worker \in WorkerState /\ worker.pc = "none" /\ worker.job = <<>>
  BY WorkerAtType DEF Init, WorkerAt, WorkerPcs
<1>3. handler \in [Handlers -> HandlerState] /\ \A h \in Handlers : handler[h] = Idle
  BY IdleType DEF Init
<1>4. Idle.pc = "idle"
  BY DEF Idle
<1>5. TypeOK
  <2>1. stopWorker \in BOOLEAN /\ loadOk \in BOOLEAN
    BY DEF Init
  <2>. QED
    BY <1>1, <1>2, <1>3, <1>4, <2>1, EmptyIndexType, DirsAssumption DEF Init, TypeOK
<1>6. Locking /\ BatchIndexed /\ JobIndexed /\ ListedExist
  BY <1>2, <1>3, <1>4 DEF Init, Locking, BatchIndexed, JobIndexed, ListedExist
<1>. QED
  BY <1>5, <1>6 DEF TypeInv

(* Loading, starting, stopping and crashing keep types and locks.          *)
LEMMA ProcessType == TypeInv /\ ProcessStep => TypeInv'
<1> SUFFICES ASSUME TypeInv, ProcessStep PROVE TypeInv'
  OBVIOUS
<1> USE DEF TypeInv
<1>1. ASSUME ProcessEnds, UNCHANGED disk, crashes' \in Nat, faults' \in Nat
      PROVE  TypeInv'
  <2>1. worker' \in WorkerState /\ worker'.pc = "none" /\ worker'.job = <<>>
    BY <1>1, WorkerAtType DEF ProcessEnds, WorkerAt, WorkerPcs
  <2>2. handler' \in [Handlers -> HandlerState] /\ \A h \in Handlers : handler'[h] = Idle
    BY <1>1, IdleType DEF ProcessEnds
  <2>3. Idle.pc = "idle"
    BY DEF Idle
  <2>4. stopWorker' \in BOOLEAN /\ loadOk' \in BOOLEAN
    BY <1>1 DEF ProcessEnds
  <2>5. TypeOK'
    BY <1>1, <2>1, <2>2, <2>3, <2>4, EmptyIndexType, DirsAssumption DEF ProcessEnds, disk, TypeOK
  <2>6. Locking' /\ BatchIndexed' /\ JobIndexed' /\ ListedExist'
    BY <1>1, <2>1, <2>2, <2>3 DEF ProcessEnds, Locking, BatchIndexed, JobIndexed, ListedExist
  <2>. QED
    BY <2>5, <2>6
<1>2. CASE LoadConfig \/ LoadConfigFails
  <2>1. ConfiguredDir \in Dirs /\ DefaultDir \in Dirs
    BY DirsAssumption DEF ConfiguredDir, TypeOK
  <2>2. \A dir \in Dirs : Scan(dir) \subseteq Dirs \X Names
    BY DirsAssumption DEF Scan, TypeOK, IsMap
  <2>3. \A dir : \A s \in Scan(dir) : s[2] \in DOMAIN segments[s[1]]
    BY DEF Scan
  <2>. QED
    BY <1>2, <2>1, <2>2, <2>3
    DEF LoadConfig, LoadConfigFails, disk, TypeOK, Locking, BatchIndexed, JobIndexed, ListedExist
<1>3. ASSUME NEW d \in Dirs, NEW n \in Names, LoadSegment(d, n)
      PROVE  TypeInv'
  <2>1. segments[d][n] \in Segments
    BY <1>3 DEF LoadSegment, ListedExist, TypeOK, IsMap, Contents
  <2>2. IsIndex(ix')
    BY <1>3, <2>1, LoadSound DEF LoadSegment, TypeOK
  <2>3. TypeOK'
    BY <1>3, <2>2 DEF LoadSegment, disk, TypeOK
  <2>4. Locking' /\ BatchIndexed' /\ JobIndexed' /\ ListedExist'
    <3>1. /\ phase = "loading" /\ toLoad' \subseteq toLoad
          /\ UNCHANGED <<phase, readers, worker, handler, segments>>
      BY <1>3 DEF LoadSegment, disk
    <3>2. \A h \in Handlers : handler[h].pc = "idle"
      BY <3>1 DEF Locking, Idle
    <3>. QED
      BY <3>1, <3>2 DEF Locking, BatchIndexed, JobIndexed, ListedExist
  <2>. QED
    BY <2>3, <2>4
<1>4. CASE LoadAborts
  BY <1>4 DEF LoadAborts, disk, TypeOK, Locking, BatchIndexed, JobIndexed, ListedExist
<1>5. CASE StartWorker
  BY <1>5, WorkerAtType
     DEF StartWorker, disk, TypeOK, Locking, BatchIndexed, JobIndexed, ListedExist,
          WorkerAt, WorkerPcs
<1>6. CASE BeginShutdown
  BY <1>6 DEF BeginShutdown, disk, TypeOK, Locking, BatchIndexed, JobIndexed, ListedExist
<1>7. CASE FinishShutdown
  BY <1>1, <1>7 DEF FinishShutdown, TypeOK
<1>8. CASE Crash
  BY <1>1, <1>8 DEF Crash, TypeOK
<1>. QED
  BY <1>2, <1>3, <1>4, <1>5, <1>6, <1>7, <1>8 DEF ProcessStep

(* Writing and removing one segment keeps the type of all of them.         *)
LEMMA SetSegmentType ==
  ASSUME TypeOK, NEW d \in Dirs, NEW n \in Names, NEW content \in Contents,
         SetSegment(d, n, content)
  PROVE  DOMAIN segments' = Dirs /\ \A e \in Dirs : IsMap(segments'[e], Names, Contents)
<1>1. IsMap(Put(segments[d], n, content), Names, Contents)
  BY PutType DEF TypeOK
<1>2. segments' = [segments EXCEPT ![d] = Put(segments[d], n, content)]
  BY DEF SetSegment
<1>. QED
  BY <1>1, <1>2 DEF TypeOK

(* Removing a segment keeps the type of all of them.                       *)
LEMMA DropSegmentType ==
  ASSUME TypeOK, NEW d \in Dirs, NEW n, segments' = [segments EXCEPT ![d] = Without(@, n)]
  PROVE  DOMAIN segments' = Dirs /\ \A e \in Dirs : IsMap(segments'[e], Names, Contents)
<1>1. IsMap(Without(segments[d], n), Names, Contents)
  BY WithoutType DEF TypeOK
<1>2. segments' = [segments EXCEPT ![d] = Without(segments[d], n)]
  OBVIOUS
<1>. QED
  BY <1>1, <1>2 DEF TypeOK

(* Every step of serializerLoop and save keeps types and locks.            *)
LEMMA WorkerType == TypeInv /\ WorkerStep => TypeInv'
<1> SUFFICES ASSUME TypeInv, WorkerStep PROVE TypeInv'
  OBVIOUS
<1> USE DEF TypeInv, WorkerUnchanged
<1>1. CASE WorkerPop
  <2>1. Head(dirtyQueue) \in DirtyJob /\ dirtyQueue' \in Seq(DirtyJob)
    BY <1>1 DEF WorkerPop, TypeOK
  <2> DEFINE job == Head(dirtyQueue)
  <2>2. /\ worker' = [worker EXCEPT !.pc = "path", !.job = <<job>>]
        /\ <<job>> \in Seq(DirtyJob) /\ Len(<<job>>) = 1
    BY <1>1, <2>1 DEF WorkerPop
  <2> HIDE DEF job
  <2>3. worker' \in WorkerState /\ worker'.pc = "path" /\ Len(worker'.job) = 1
    BY <2>2 DEF TypeOK, WorkerState, WorkerPcs
  <2>. QED
    BY <1>1, <2>1, <2>3 DEF WorkerPop, TypeOK, Locking, BatchIndexed, JobIndexed, ListedExist
<1>2. CASE WorkerExit
  BY <1>2, WorkerAtType
  DEF WorkerExit, WorkerAt, TypeOK, WorkerPcs, Locking, BatchIndexed, JobIndexed, ListedExist
<1>3. CASE WorkerReadPath
  BY <1>3
  DEF WorkerReadPath, TypeOK, WorkerState, WorkerPcs, Locking, BatchIndexed, JobIndexed, ListedExist
<1>4. CASE WorkerSkipStale
  BY <1>4, WorkerAtType
  DEF WorkerSkipStale, WorkerAt, TypeOK, WorkerPcs, Locking, BatchIndexed, JobIndexed, ListedExist
<1>5. CASE WorkerLock
  <2>1. FilePresent(ix, worker.job[1].file)
    <3>1. worker.job[1] \in DirtyJob
      BY <1>5 DEF WorkerLock, TypeOK, WorkerState
    <3>. QED
      BY <1>5, <3>1 DEF WorkerLock, JobIsStale, GetFileGen, DirtyJob
  <2>. QED
    BY <1>5, <2>1
    DEF WorkerLock, TypeOK, WorkerState, WorkerPcs, Locking, BatchIndexed, JobIndexed, ListedExist
<1>6. ASSUME worker.pc \in {"open", "write"}
      PROVE  /\ worker.job[1].file \in Files /\ worker.bin \in Dirs
             /\ BinName[worker.job[1].file] \in Names
             /\ FilePresent(ix, worker.job[1].file)
             /\ phase \notin {"down", "loading"}
  <2>1. worker.job[1] \in DirtyJob /\ worker.bin \in Dirs
    BY <1>6 DEF TypeOK, WorkerState
  <2>2. phase \notin {"down", "loading"}
    BY <1>6 DEF Locking
  <2>. QED
    BY <1>6, <2>1, <2>2, BinNameAssumption DEF JobIndexed, DirtyJob
<1>7. ASSUME worker.pc \in {"open", "write"}, WorkerUnlock, WorkerUnchanged, UNCHANGED dirtyQueue,
             faults' \in Nat,
             DOMAIN segments' = Dirs, \A e \in Dirs : IsMap(segments'[e], Names, Contents)
      PROVE  TypeInv'
  <2>1. worker' \in WorkerState /\ worker'.pc = "wait" /\ worker'.job = <<>>
    BY <1>7, WorkerAtType DEF WorkerUnlock, WorkerAt, WorkerPcs
  <2>2. TypeOK'
    BY <1>7, <2>1 DEF WorkerUnlock, TypeOK
  <2>. QED
    BY <1>6, <1>7, <2>1, <2>2
    DEF WorkerUnlock, Locking, BatchIndexed, JobIndexed, ListedExist
<1>8. CASE OpenSegment
  <2>1. Unreadable \in Contents
    BY DEF Contents
  <2>2. DOMAIN segments' = Dirs /\ \A e \in Dirs : IsMap(segments'[e], Names, Contents)
    BY <1>6, <1>8, <2>1, SetSegmentType DEF OpenSegment
  <2>3. TypeOK'
    BY <1>8, <2>2 DEF OpenSegment, TypeOK, WorkerState, WorkerPcs
  <2>. QED
    BY <1>6, <1>8, <2>3
    DEF OpenSegment, TypeOK, WorkerState, Locking, BatchIndexed, JobIndexed, ListedExist
<1>9. CASE OpenSegmentFails
  BY <1>7, <1>9 DEF OpenSegmentFails, TypeOK
<1>10. CASE WriteSegment
  <2> DEFINE file == worker.job[1].file
             content == IF FilePresent(ix, file) THEN Save(ix, file) ELSE Unreadable
  <2>1. content \in Contents
    BY SaveSound DEF Contents, TypeOK
  <2>2. worker.pc = "write" /\ SetSegment(worker.bin, BinName[file], content)
    BY <1>10 DEF WriteSegment
  <2> HIDE DEF content
  <2>3. DOMAIN segments' = Dirs /\ \A e \in Dirs : IsMap(segments'[e], Names, Contents)
    BY <1>6, <2>1, <2>2, SetSegmentType
  <2>. QED
    BY <1>7, <1>10, <2>3 DEF WriteSegment, TypeOK
<1>11. CASE WriteSegmentFails
  BY <1>7, <1>11 DEF WriteSegmentFails, TypeOK
<1>. QED
  BY <1>1, <1>2, <1>3, <1>4, <1>5, <1>8, <1>9, <1>10, <1>11 DEF WorkerStep

-----------------------------------------------------------------------------
(* A handler is busy only once the server is up.                           *)
LEMMA IdleOrServing ==
  ASSUME TypeInv, NEW h \in Handlers, handler[h].pc # "idle"
  PROVE  phase \notin {"down", "loading"}
BY DEF TypeInv, Locking, Idle

(* What a handler's step does to the states of the handlers.               *)
LEMMA HandlerGoes ==
  ASSUME TypeOK, NEW h \in Handlers, NEW state \in HandlerState,
         handler' = [handler EXCEPT ![h] = state]
  PROVE  /\ handler' \in [Handlers -> HandlerState]
         /\ handler'[h] = state
         /\ \A g \in Handlers : g # h => handler'[g] = handler[g]
BY DEF TypeOK

(* The handler that takes the mutex exclusively was and is the only one.   *)
LEMMA NobodyExclusive ==
  ASSUME TypeInv, writer = "none"
  PROVE  \A g \in Handlers : handler[g].pc \notin {"merge", "unlink"}
BY ThreadsAssumption DEF TypeInv, Locking

(* Every step of indexing, deletion and search keeps types and locks.      *)
LEMMA RequestType ==
  ASSUME TypeInv, NEW h \in Handlers, RequestStep(h)
  PROVE  TypeInv'
<1> USE DEF TypeInv, HandlerUnchanged
<1>1. ASSUME NEW batch \in Batches, LockForIndex(h, batch)
      PROVE  TypeInv'
  <2> DEFINE state == [Idle EXCEPT !.pc = "merge", !.files = batch]
  <2>1. batch \in Seq(Files)
    BY DocumentsAssumption
  <2>2. /\ state \in HandlerState /\ state.pc = "merge"
        /\ state.files = batch /\ state.merged = 0
    BY <2>1, IdleType DEF Idle, HandlerState, HandlerPcs
  <2>3. handler' = [handler EXCEPT ![h] = state]
    BY <1>1 DEF LockForIndex
  <2> HIDE DEF state
  <2>4. /\ handler' \in [Handlers -> HandlerState] /\ handler'[h] = state
        /\ \A g \in Handlers : g # h => handler'[g] = handler[g]
    BY <2>2, <2>3, HandlerGoes
  <2>5. phase \notin {"down", "loading"}
    BY <1>1, IdleOrServing DEF LockForIndex, Accepts
  <2>6. \A g \in Handlers : handler[g].pc \notin {"merge", "unlink"}
    BY <1>1, NobodyExclusive DEF LockForIndex, MutexFree
  <2>7. TypeOK'
    BY <1>1, <2>2, <2>4 DEF LockForIndex, disk, TypeOK
  <2>8. Locking' /\ JobIndexed' /\ ListedExist'
    BY <1>1, <2>4, <2>5, <2>6 DEF LockForIndex, MutexFree, Locking, JobIndexed, ListedExist
  <2>9. BatchIndexed'
    BY <1>1, <2>1, <2>2, <2>4, <2>6 DEF BatchIndexed
  <2>. QED
    BY <2>7, <2>8, <2>9
<1>2. ASSUME NEW text \in Texts, MergeFile(h, text)
      PROVE  TypeInv'
  <2> DEFINE files == handler[h].files
             merged == handler[h].merged
             state == [handler[h] EXCEPT !.merged = merged + 1]
  <2>1. files \in Seq(Files) /\ merged \in Nat /\ handler[h] \in HandlerState
    BY DEF TypeOK, HandlerState
  <2>2. /\ state \in HandlerState /\ state.pc = "merge"
        /\ state.files = files /\ state.merged = merged + 1
    <3> DEFINE next == merged + 1
    <3>1. next \in Nat /\ handler[h].pc = "merge"
      BY <1>2, <2>1 DEF MergeFile
    <3> HIDE DEF next
    <3>2. [handler[h] EXCEPT !.merged = next] \in HandlerState
      BY <2>1, <3>1 DEF HandlerState
    <3>3. /\ [handler[h] EXCEPT !.merged = next].pc = "merge"
          /\ [handler[h] EXCEPT !.merged = next].files = files
          /\ [handler[h] EXCEPT !.merged = next].merged = next
      BY <2>1, <3>1 DEF HandlerState
    <3>. QED
      BY <3>2, <3>3 DEF next
  <2>3. handler' = [handler EXCEPT ![h] = state]
    BY <1>2 DEF MergeFile
  <2> HIDE DEF state
  <2>4. /\ handler' \in [Handlers -> HandlerState] /\ handler'[h] = state
        /\ \A g \in Handlers : g # h => handler'[g] = handler[g]
    BY <2>2, <2>3, HandlerGoes
  <2>5. /\ merged < Len(files) /\ files[merged + 1] \in Files
        /\ ix' = BuildIndex(ix, files[merged + 1], text)
    BY <1>2, <2>1 DEF MergeFile
  <2>6. /\ IsIndex(ix')
        /\ DOMAIN ix'.fileToTerms = DOMAIN ix.fileToTerms \cup {files[merged + 1]}
    BY <2>5, BuildSound, DocumentsAssumption DEF TypeOK
  <2>7. phase \notin {"down", "loading"} /\ writer = h /\ readers = {}
    BY <1>2, IdleOrServing, ThreadsAssumption DEF MergeFile, Locking
  <2>8. TypeOK'
    BY <1>2, <2>2, <2>4, <2>6 DEF MergeFile, disk, TypeOK
  <2>9. Locking' /\ JobIndexed' /\ ListedExist'
    BY <1>2, <2>2, <2>4, <2>7 DEF MergeFile, Locking, JobIndexed, ListedExist
  <2>10. BatchIndexed'
    <3>1. \A i \in 1 .. merged + 1 : i \in 1 .. merged \/ i = merged + 1
      BY <2>1
    <3>2. \A i \in 1 .. merged + 1 : FilePresent(ix', files[i])
      BY <1>2, <2>6, <3>1 DEF MergeFile, BatchIndexed, FilePresent
    <3>3. merged + 1 <= Len(files)
      BY <2>1, <2>5
    <3>. QED
      BY <2>2, <2>4, <2>6, <3>2, <3>3 DEF BatchIndexed, FilePresent
  <2>. QED
    BY <2>8, <2>9, <2>10
<1>3. ASSUME handler[h].pc \in {"merge", "unlink"},
             writer' = "none", handler' = [handler EXCEPT ![h] = Idle],
             UNCHANGED <<ix, readers, stopWorker, worker, indexBin, phase, toLoad, loadOk,
                         configFile, crashes>>,
             dirtyQueue' \in Seq(DirtyJob), faults' \in Nat,
             DOMAIN segments' = Dirs, \A d \in Dirs : IsMap(segments'[d], Names, Contents)
      PROVE  TypeInv'
  <2>1. /\ handler' \in [Handlers -> HandlerState] /\ handler'[h] = Idle
        /\ \A g \in Handlers : g # h => handler'[g] = handler[g]
    BY <1>3, IdleType, HandlerGoes
  <2>2. Idle.pc = "idle"
    BY DEF Idle
  <2>3. phase \notin {"down", "loading"} /\ writer = h
    BY <1>3, IdleOrServing DEF Locking
  <2>4. TypeOK'
    BY <1>3, <2>1, <2>2 DEF TypeOK
  <2>. QED
    BY <1>3, <2>1, <2>2, <2>3, <2>4 DEF Locking, BatchIndexed, JobIndexed, ListedExist
<1>4. CASE FinishIndex(h)
  <2> DEFINE files == handler[h].files
             jobs == [i \in 1 .. Len(files) |->
                        [file |-> files[i], generation |-> GetFileGen(ix, files[i])]]
  <2>1. files \in Seq(Files)
    BY DEF TypeOK, HandlerState
  <2>2. ASSUME NEW i \in 1 .. Len(files)
        PROVE  [file |-> files[i], generation |-> GetFileGen(ix, files[i])] \in DirtyJob
    <3>1. FilePresent(ix, files[i]) /\ files[i] \in Files
      BY <1>4, <2>1 DEF FinishIndex, BatchIndexed
    <3>2. GetFileGen(ix, files[i]) \in Nat \ {0}
      BY <3>1 DEF GetFileGen, FilePresent, TypeOK, IsIndex, IsMap, FileMetadata
    <3>. QED
      BY <3>1, <3>2 DEF DirtyJob
  <2>3. jobs \in Seq(DirtyJob)
    BY <2>1, <2>2
  <2>4. dirtyQueue' = dirtyQueue \o jobs
    BY <1>4 DEF FinishIndex
  <2> HIDE DEF jobs
  <2>5. dirtyQueue' \in Seq(DirtyJob)
    BY <2>3, <2>4 DEF TypeOK
  <2>. QED
    BY <1>3, <1>4, <2>5 DEF FinishIndex, disk, TypeOK
<1>5. ASSUME NEW file \in Files, LockForDelete(h, file)
      PROVE  TypeInv'
  <2> DEFINE state == [Idle EXCEPT !.pc = "unlink", !.files = <<file>>]
  <2>1. /\ state \in HandlerState /\ state.pc = "unlink"
        /\ state.files = <<file>> /\ Len(state.files) = 1
    <3>1. <<file>> \in Seq(Files) /\ Len(<<file>>) = 1
      OBVIOUS
    <3>. QED
      BY <3>1, IdleType DEF Idle, HandlerState, HandlerPcs
  <2>2. handler' = [handler EXCEPT ![h] = state]
    BY <1>5 DEF LockForDelete
  <2> HIDE DEF state
  <2>3. /\ handler' \in [Handlers -> HandlerState] /\ handler'[h] = state
        /\ \A g \in Handlers : g # h => handler'[g] = handler[g]
    BY <2>1, <2>2, HandlerGoes
  <2>4. \A g \in Handlers : handler[g].pc \notin {"merge", "unlink"}
    BY <1>5, NobodyExclusive DEF LockForDelete, MutexFree
  <2>5. IsIndex(ix')
    BY <1>5, RemoveType DEF LockForDelete, TypeOK
  <2>6. TypeOK'
    BY <1>5, <2>1, <2>3, <2>5 DEF LockForDelete, disk, TypeOK
  <2>. QED
    BY <1>5, <2>1, <2>3, <2>4, <2>6
    DEF LockForDelete, Accepts, MutexFree, Locking, BatchIndexed, JobIndexed, ListedExist
<1>6. CASE DeleteSegment(h)
  <2>1. DOMAIN segments' = Dirs /\ \A d \in Dirs : IsMap(segments'[d], Names, Contents)
    BY <1>6, DropSegmentType DEF DeleteSegment, TypeOK
  <2>. QED
    BY <1>3, <1>6, <2>1 DEF DeleteSegment, EndDelete, TypeOK
<1>7. CASE DeleteSegmentFails(h)
  BY <1>3, <1>7 DEF DeleteSegmentFails, EndDelete, TypeOK
<1>8. CASE BeginSearch(h)
  <2> DEFINE state == [Idle EXCEPT !.pc = "search"]
  <2>1. state \in HandlerState /\ state.pc = "search"
    BY IdleType DEF Idle, HandlerState, HandlerPcs
  <2>2. handler' = [handler EXCEPT ![h] = state]
    BY <1>8 DEF BeginSearch
  <2> HIDE DEF state
  <2>3. /\ handler' \in [Handlers -> HandlerState] /\ handler'[h] = state
        /\ \A g \in Handlers : g # h => handler'[g] = handler[g]
    BY <2>1, <2>2, HandlerGoes
  <2>4. TypeOK'
    BY <1>8, <2>1, <2>3 DEF BeginSearch, disk, TypeOK
  <2>. QED
    BY <1>8, <2>1, <2>3, <2>4
    DEF BeginSearch, Accepts, Locking, BatchIndexed, JobIndexed, ListedExist
<1>9. CASE EndSearch(h)
  <2>1. /\ handler' \in [Handlers -> HandlerState] /\ handler'[h] = Idle
        /\ \A g \in Handlers : g # h => handler'[g] = handler[g]
    BY <1>9, IdleType, HandlerGoes DEF EndSearch
  <2>2. Idle.pc = "idle"
    BY DEF Idle
  <2>3. phase \notin {"down", "loading"} /\ h # "serializer"
    BY <1>9, IdleOrServing, ThreadsAssumption DEF EndSearch
  <2>4. TypeOK'
    BY <1>9, <2>1, <2>2 DEF EndSearch, disk, TypeOK
  <2>. QED
    BY <1>9, <2>1, <2>2, <2>3, <2>4 DEF EndSearch, Locking, BatchIndexed, JobIndexed, ListedExist
<1>. QED
  BY <1>1, <1>2, <1>4, <1>5, <1>6, <1>7, <1>8, <1>9 DEF RequestStep

-----------------------------------------------------------------------------
(* What a step of a reconfiguration has to respect.                        *)
LEMMA ModifyFrame ==
  ASSUME TypeInv, ModifyUnchanged, phase \notin {"down", "loading"},
         NEW h \in Handlers, NEW state \in HandlerState,
         handler' = [handler EXCEPT ![h] = state],
         state.pc \notin {"merge", "unlink"},
         state.pc \in {"copy", "copied"} => Len(state.moving) = 1,
         worker' \in {worker, WorkerAt("none"), WorkerAt("wait")},
         stopWorker' \in BOOLEAN, indexBin' \in Dirs, configFile' \in Dirs \cup {Unreadable},
         DOMAIN segments' = Dirs, \A d \in Dirs : IsMap(segments'[d], Names, Contents),
         faults' \in Nat
  PROVE  TypeInv'
<1> USE DEF TypeInv, ModifyUnchanged, HandlerUnchanged
<1>1. /\ handler' \in [Handlers -> HandlerState] /\ handler'[h] = state
      /\ \A g \in Handlers : g # h => handler'[g] = handler[g]
  BY HandlerGoes
<1>2. \/ worker' = worker
      \/ worker' \in WorkerState /\ worker'.pc \in {"none", "wait"} /\ worker'.job = <<>>
  BY WorkerAtType DEF WorkerAt, WorkerPcs
<1>3. TypeOK'
  BY <1>1, <1>2 DEF TypeOK
<1>. QED
  BY <1>1, <1>2, <1>3 DEF Locking, BatchIndexed, JobIndexed, ListedExist

(* Moving on to another pc keeps the rest of the request.                  *)
LEMMA GotoType ==
  ASSUME NEW s \in HandlerState, NEW pc \in HandlerPcs
  PROVE  /\ [s EXCEPT !.pc = pc] \in HandlerState
         /\ [s EXCEPT !.pc = pc].pc = pc
         /\ [s EXCEPT !.pc = pc].moving = s.moving
BY DEF HandlerState

(* Every step of modifyIndexBinPath and saveConfig keeps types and locks.  *)
LEMMA ModifyType ==
  ASSUME TypeInv, NEW h \in Handlers, ModifyStep(h)
  PROVE  TypeInv'
<1> USE DEF TypeInv
<1> DEFINE s == handler[h]
<1>1. s \in HandlerState
  BY DEF TypeOK
<1>2. /\ DOMAIN segments = Dirs /\ \A d \in Dirs : IsMap(segments[d], Names, Contents)
      /\ stopWorker \in BOOLEAN /\ indexBin \in Dirs /\ configFile \in Dirs \cup {Unreadable}
      /\ faults \in Nat /\ faults + 1 \in Nat
  BY DEF TypeOK
<1>3. s.pc # "idle" => phase \notin {"down", "loading"}
  BY IdleOrServing
<1> USE DEF At
<1>4. ASSUME NEW dir \in Dirs, NEW files \in Batches \cup {<<>>}, BeginModify(h, dir, files)
      PROVE  TypeInv'
  <2> DEFINE state == [Idle EXCEPT !.pc = "join", !.dir = dir, !.files = files]
  <2>1. files \in Seq(Files)
    <3>1. Batches \subseteq Seq(Files)
      BY DocumentsAssumption
    <3>2. <<>> \in Seq(Files)
      OBVIOUS
    <3>. QED
      BY <3>1, <3>2
  <2>2. state \in HandlerState /\ state.pc = "join"
    BY <2>1, IdleType DEF Idle, HandlerState, HandlerPcs
  <2>3. handler' = [handler EXCEPT ![h] = state] /\ phase = "serving"
    BY <1>4 DEF BeginModify, Accepts
  <2> HIDE DEF state
  <2>. QED
    BY <1>2, <1>4, <2>2, <2>3, ModifyFrame DEF BeginModify, disk
<1>5. CASE JoinWorker(h)
  <2> DEFINE listed == DOMAIN segments[indexBin]
             state == [s EXCEPT !.pc = "move", !.old = indexBin, !.left = listed]
  <2>1. listed \in SUBSET Names
    BY <1>2 DEF IsMap
  <2>2. handler' = [handler EXCEPT ![h] = state]
    BY <1>5 DEF JoinWorker, ListSegments
  <2> HIDE DEF listed, s
  <2>3. state \in HandlerState /\ state.pc = "move"
    BY <1>1, <1>2, <2>1 DEF HandlerState, HandlerPcs
  <2> HIDE DEF state
  <2>4. phase \notin {"down", "loading"}
    BY <1>3, <1>5 DEF JoinWorker, s
  <2>. QED
    BY <1>2, <1>5, <2>2, <2>3, <2>4, ModifyFrame DEF JoinWorker, disk
<1>6. ASSUME NEW n \in Names, MoveSegment(h, n)
      PROVE  TypeInv'
  <2> DEFINE state == [s EXCEPT !.left = @ \ {n}]
  <2>1. handler' = [handler EXCEPT ![h] = state]
    BY <1>6 DEF MoveSegment
  <2>2. s.pc = "move" /\ s.dir \in Dirs /\ s.old \in Dirs
    BY <1>1, <1>6 DEF MoveSegment, Entry, HandlerState
  <2>3. DOMAIN segments' = Dirs /\ \A d \in Dirs : IsMap(segments'[d], Names, Contents)
    <3> DEFINE moved == Put(segments[s.dir], n, segments[s.old][n])
               rest == Without(segments[s.old], n)
    <3>1. IsMap(rest, Names, Contents)
      BY <1>2, <2>2, WithoutType
    <3>2. segments[s.old][n] \in Contents
      BY <1>2, <1>6, <2>2 DEF MoveSegment, Entry, IsMap
    <3>3. IsMap(moved, Names, Contents)
      BY <1>2, <2>2, <3>2, PutType
    <3>4. \/ segments' = segments
          \/ s.dir # s.old /\ segments' = [segments EXCEPT ![s.dir] = moved, ![s.old] = rest]
      BY <1>6 DEF MoveSegment
    <3> HIDE DEF moved, rest, s
    <3>. QED
      BY <1>2, <2>2, <3>1, <3>3, <3>4
  <2> HIDE DEF s
  <2>4. state \in HandlerState /\ state.pc = "move"
    BY <1>1, <2>2 DEF HandlerState
  <2> HIDE DEF state
  <2>. QED
    BY <1>2, <1>3, <1>6, <2>1, <2>2, <2>3, <2>4, ModifyFrame DEF MoveSegment
<1>7. ASSUME NEW n \in Names, OpenCopy(h, n)
      PROVE  TypeInv'
  <2> DEFINE moving == [name |-> n, content |-> segments[s.old][n]]
             state == [s EXCEPT !.pc = "copy", !.moving = <<moving>>]
  <2>1. handler' = [handler EXCEPT ![h] = state]
    BY <1>7 DEF OpenCopy
  <2>2. s.pc = "move" /\ s.dir \in Dirs /\ s.old \in Dirs
    BY <1>1, <1>7 DEF OpenCopy, Entry, HandlerState
  <2>3. segments[s.old][n] \in Contents /\ Unreadable \in Contents
    BY <1>2, <1>7, <2>2 DEF OpenCopy, Entry, IsMap, Contents
  <2>4. DOMAIN segments' = Dirs /\ \A d \in Dirs : IsMap(segments'[d], Names, Contents)
    BY <1>7, <2>2, <2>3, SetSegmentType DEF OpenCopy
  <2>5. moving \in [name : Names, content : Contents]
    BY <2>3
  <2> HIDE DEF s, moving
  <2>6. <<moving>> \in Seq([name : Names, content : Contents]) /\ Len(<<moving>>) = 1
    BY <2>5
  <2>7. state \in HandlerState /\ state.pc = "copy" /\ Len(state.moving) = 1
    BY <1>1, <2>6 DEF HandlerState, HandlerPcs
  <2> HIDE DEF state
  <2>. QED
    BY <1>2, <1>3, <1>7, <2>1, <2>2, <2>4, <2>7, ModifyFrame DEF OpenCopy
<1>8. ASSUME s.pc \in {"copy", "copied"}
      PROVE  /\ s.dir \in Dirs /\ s.old \in Dirs
             /\ s.moving[1].name \in Names /\ s.moving[1].content \in Contents
  <2> DEFINE Moving == [name : Names, content : Contents]
  <2>1. Len(s.moving) = 1
    BY <1>8 DEF TypeOK
  <2>2. s.moving \in Seq(Moving) /\ s.dir \in Dirs /\ s.old \in Dirs
    BY <1>1 DEF HandlerState
  <2>3. s.moving[1] \in Moving
    <3> HIDE DEF Moving, s
    <3>. QED
      BY <2>1, <2>2
  <2>. QED
    BY <2>2, <2>3
<1>9. CASE FinishCopy(h)
  <2> DEFINE state == [s EXCEPT !.pc = "copied"]
  <2>1. handler' = [handler EXCEPT ![h] = state] /\ s.pc = "copy"
    BY <1>9 DEF FinishCopy, Goto
  <2>2. DOMAIN segments' = Dirs /\ \A d \in Dirs : IsMap(segments'[d], Names, Contents)
    BY <1>8, <1>9, <2>1, SetSegmentType DEF FinishCopy
  <2>3. state \in HandlerState /\ state.pc = "copied" /\ state.moving = s.moving
    BY <1>1, GotoType DEF HandlerPcs
  <2>4. Len(s.moving) = 1
    BY <2>1 DEF TypeOK
  <2> HIDE DEF s, state
  <2>. QED
    BY <1>2, <1>3, <1>9, <2>1, <2>2, <2>3, <2>4, ModifyFrame DEF FinishCopy
<1>10. CASE RemoveOriginal(h)
  <2> DEFINE n == s.moving[1].name
             state == [s EXCEPT !.pc = "move", !.left = @ \ {n}, !.moving = <<>>]
  <2>1. handler' = [handler EXCEPT ![h] = state] /\ s.pc = "copied"
    BY <1>10 DEF RemoveOriginal
  <2>2. segments' = [segments EXCEPT ![s.old] = Without(@, n)]
    BY <1>10 DEF RemoveOriginal
  <2>3. DOMAIN segments' = Dirs /\ \A d \in Dirs : IsMap(segments'[d], Names, Contents)
    BY <1>8, <2>1, <2>2, DropSegmentType
  <2>4. <<>> \in Seq([name : Names, content : Contents])
    OBVIOUS
  <2> HIDE DEF s, n
  <2>5. state \in HandlerState /\ state.pc = "move"
    BY <1>1, <2>4 DEF HandlerState, HandlerPcs
  <2> HIDE DEF state
  <2>. QED
    BY <1>2, <1>3, <1>10, <2>1, <2>3, <2>5, ModifyFrame DEF RemoveOriginal
<1>11. CASE SkipGoneSegment(h)
  <2>1. PICK n \in GoneSegments(h) : handler' = [handler EXCEPT ![h] = [s EXCEPT !.left = @ \ {n}]]
    BY <1>11 DEF SkipGoneSegment
  <2> DEFINE state == [s EXCEPT !.left = @ \ {n}]
  <2>2. handler' = [handler EXCEPT ![h] = state] /\ s.pc = "move"
    BY <1>11, <2>1 DEF SkipGoneSegment
  <2> HIDE DEF s
  <2>3. state \in HandlerState /\ state.pc = "move"
    BY <1>1, <2>2 DEF HandlerState
  <2> HIDE DEF state
  <2>. QED
    BY <1>2, <1>3, <1>11, <2>2, <2>3, ModifyFrame DEF SkipGoneSegment, disk
<1>12. CASE ModifyFails(h)
  <2>1. s.pc # "idle" /\ faults' \in Nat
    BY <1>2, <1>12 DEF ModifyFails
  <2>2. Idle \in HandlerState /\ Idle.pc = "idle"
    BY IdleType DEF Idle
  <2>. QED
    BY <1>2, <1>3, <1>12, <2>1, <2>2, ModifyFrame DEF ModifyFails, disk
<1>13. ASSUME NEW pc \in HandlerPcs \ {"merge", "unlink", "copy", "copied"}, s.pc # "idle",
              Goto(h, pc), ModifyUnchanged, UNCHANGED <<stopWorker, segments>>,
              worker' \in {worker, WorkerAt("none"), WorkerAt("wait")},
              indexBin' \in Dirs, configFile' \in Dirs \cup {Unreadable}, faults' \in Nat
       PROVE  TypeInv'
  <2> DEFINE state == [s EXCEPT !.pc = pc]
  <2>1. handler' = [handler EXCEPT ![h] = state]
    BY <1>13 DEF Goto
  <2>2. state \in HandlerState /\ state.pc = pc
    BY <1>1, GotoType
  <2> HIDE DEF state
  <2>. QED
    BY <1>2, <1>3, <1>13, <2>1, <2>2, ModifyFrame
<1>20. CASE ClearStop(h)
  <2> DEFINE state == [s EXCEPT !.pc = "restart"]
  <2>1. handler' = [handler EXCEPT ![h] = state] /\ s.pc = "resume" /\ stopWorker' \in BOOLEAN
    BY <1>20 DEF ClearStop, Goto
  <2>2. state \in HandlerState /\ state.pc = "restart"
    BY <1>1, GotoType DEF HandlerPcs
  <2> HIDE DEF s, state
  <2>. QED
    BY <1>2, <1>3, <1>20, <2>1, <2>2, ModifyFrame DEF ClearStop, disk, s
<1>14. CASE SetIndexBin(h)
  <2>1. s.dir \in Dirs
    BY <1>1 DEF HandlerState
  <2>. QED
    BY <1>2, <1>13, <1>14, <2>1 DEF SetIndexBin, HandlerPcs, disk
<1>15. CASE RestartWorker(h)
  <2>1. s.files \in Seq(Files)
    BY <1>1 DEF HandlerState
  <2> DEFINE state == AfterRestart(s.files)
  <2>2. state \in HandlerState /\ state.pc \in {"idle", "saveConfig"}
    BY <2>1, IdleType DEF AfterRestart, Idle, HandlerState, HandlerPcs
  <2>3. handler' = [handler EXCEPT ![h] = state]
    BY <1>15 DEF RestartWorker
  <2> HIDE DEF state
  <2>. QED
    BY <1>2, <1>3, <1>15, <2>2, <2>3, ModifyFrame DEF RestartWorker, disk
<1>16. CASE OpenConfig(h)
  BY <1>2, <1>13, <1>16 DEF OpenConfig, HandlerPcs
<1>17. CASE WriteConfig(h)
  BY <1>2, <1>13, <1>17 DEF WriteConfig, HandlerPcs
<1>18. CASE SaveConfigFails(h)
  BY <1>2, <1>13, <1>18 DEF SaveConfigFails, HandlerPcs, disk
<1>19. CASE BuildFindsNoFiles(h)
  <2>1. Idle \in HandlerState /\ Idle.pc = "idle"
    BY IdleType DEF Idle
  <2>. QED
    BY <1>2, <1>3, <1>19, <2>1, ModifyFrame DEF BuildFindsNoFiles, disk
<1>. QED
  BY <1>4, <1>5, <1>6, <1>7, <1>9, <1>10, <1>11, <1>12, <1>14, <1>15, <1>16,
     <1>17, <1>18, <1>19, <1>20
  DEF ModifyStep

(* TypeInv is inductive.                                                   *)
LEMMA TypeStep == TypeInv /\ [Next]_vars => TypeInv'
<1> SUFFICES ASSUME TypeInv, [Next]_vars PROVE TypeInv'
  OBVIOUS
<1>1. CASE UNCHANGED vars
  BY <1>1 DEF vars, memory, disk, TypeInv, TypeOK, Locking, BatchIndexed, JobIndexed, ListedExist
<1>2. CASE ProcessStep
  BY <1>2, ProcessType
<1>3. CASE WorkerStep
  BY <1>3, WorkerType
<1>4. ASSUME NEW h \in Handlers, RequestStep(h) \/ ModifyStep(h)
      PROVE  TypeInv'
  BY <1>4, RequestType, ModifyType
<1>. QED
  BY <1>1, <1>2, <1>3, <1>4 DEF Next

(* Every state has its types, and the engine mutex is held as Locking      *)
(* says: Engine.h:24-35 with every function of Engine.cpp.                 *)
THEOREM TypeInvariance == Spec => []TypeInv
<1>1. Init => TypeInv
  BY InitType
<1>2. TypeInv /\ [Next]_vars => TypeInv'
  BY TypeStep
<1>. QED
  BY <1>1, <1>2, PTL DEF Spec

(* Type correctness, for any number of handlers, files, terms, directories *)
(* and any bounds.                                                         *)
THEOREM TypeCorrect == Spec => []TypeOK
<1>1. TypeInv => TypeOK
  BY DEF TypeInv
<1>. QED
  BY <1>1, TypeInvariance, PTL

-----------------------------------------------------------------------------
(* While anybody reads under the shared lock (Engine.cpp:79, 168) no step  *)
(* of anybody else changes the index.                                      *)
THEOREM ReadersTheorem == Spec => ReadersSeeOneIndex
<1>1. ASSUME TypeInv, [Next]_vars, readers # {}, phase' # "down"
      PROVE  ix' = ix
  <2> USE <1>1 DEF TypeInv
  <2>1. phase \notin {"down", "loading"} /\ writer = "none"
    BY DEF Locking
  <2>2. CASE UNCHANGED vars
    BY <2>2 DEF vars, memory
  <2>3. CASE ProcessStep
    BY <2>1, <2>3
    DEF ProcessStep, LoadConfig, LoadConfigFails, LoadSegment, LoadAborts, StartWorker, BeginShutdown,
        FinishShutdown, Crash, ProcessEnds
  <2>4. CASE WorkerStep
    BY <2>4
    DEF WorkerStep, WorkerPop, WorkerExit, WorkerReadPath, WorkerSkipStale, WorkerLock, OpenSegment,
        OpenSegmentFails, WriteSegment, WriteSegmentFails, WorkerUnchanged
  <2>5. ASSUME NEW h \in Handlers, RequestStep(h)
        PROVE  ix' = ix
    <3>1. handler[h].pc # "merge"
      BY <2>1, ThreadsAssumption DEF Locking
    <3>. QED
      BY <2>5, <3>1
      DEF RequestStep, LockForIndex, MergeFile, FinishIndex, LockForDelete, DeleteSegment,
          DeleteSegmentFails, EndDelete, BeginSearch, EndSearch, MutexFree
  <2>6. ASSUME NEW h \in Handlers, ModifyStep(h)
        PROVE  ix' = ix
    BY <2>6
    DEF ModifyStep, BeginModify, JoinWorker, MoveSegment, OpenCopy, FinishCopy, RemoveOriginal,
        SkipGoneSegment, ModifyFails, SetIndexBin, ClearStop, RestartWorker, OpenConfig, WriteConfig,
        SaveConfigFails, BuildFindsNoFiles, ModifyUnchanged
  <2>. QED
    BY <2>2, <2>3, <2>4, <2>5, <2>6 DEF Next
<1>2. TypeInv /\ [Next]_vars => [readers # {} /\ phase' # "down" => ix' = ix]_vars
  BY <1>1
<1>. QED
  BY <1>2, TypeInvariance, PTL DEF Spec, ReadersSeeOneIndex

-----------------------------------------------------------------------------
(* Putting down a sound content and removing a segment keep all sound.     *)
LEMMA SetSegmentSound ==
  ASSUME TypeOK, SegmentsSound, NEW d \in Dirs, NEW n, NEW content, SoundContent(n, content),
         SetSegment(d, n, content)
  PROVE  SegmentsSound'
<1>1. segments' = [segments EXCEPT ![d] = Put(segments[d], n, content)]
  BY DEF SetSegment
<1>2. \A m \in DOMAIN Put(segments[d], n, content) :
        SoundContent(m, Put(segments[d], n, content)[m])
  BY DEF Put, SegmentsSound, SoundContent
<1>3. \A e \in Dirs : \A m \in DOMAIN segments'[e] : SoundContent(m, segments'[e][m])
  BY <1>1, <1>2 DEF SegmentsSound, SoundContent, TypeOK
<1>. QED
  BY <1>3 DEF SegmentsSound, SoundContent

(* Removing one keeps the others sound.                                    *)
LEMMA DropSegmentSound ==
  ASSUME TypeOK, SegmentsSound, NEW d \in Dirs, NEW n,
         segments' = [segments EXCEPT ![d] = Without(@, n)]
  PROVE  SegmentsSound'
<1>1. \A m \in DOMAIN Without(segments[d], n) :
        m \in DOMAIN segments[d] /\ Without(segments[d], n)[m] = segments[d][m]
  BY DEF Without, Restrict
<1>2. \A e \in Dirs : \A m \in DOMAIN segments'[e] :
        m \in DOMAIN segments[e] /\ segments'[e][m] = segments[e][m]
  BY <1>1 DEF TypeOK
<1>. QED
  BY <1>2 DEF SegmentsSound

(* The data invariant holds of an empty index on an empty disk.            *)
LEMMA InitData == Init => DataInv
<1> SUFFICES ASSUME Init PROVE DataInv
  OBVIOUS
<1>1. Coherent
  BY EmptyIndexType DEF Init, Coherent
<1>2. SegmentsSound
  BY DEF Init, SegmentsSound, EmptyMap
<1>3. MovingSound /\ LoadInv
  BY DEF Init, MovingSound, LoadInv, Idle
<1>. QED
  BY <1>1, <1>2, <1>3 DEF DataInv

(* A load merges each segment of a file once, since a directory holds one  *)
(* segment of a name: the index stays coherent. A process that ends leaves *)
(* the disk sound.                                                         *)
LEMMA ProcessData ==
  ASSUME Flat, TypeInv, DataInv, ProcessStep
  PROVE  DataInv'
<1> USE DEF DataInv
<1>1. ASSUME ProcessEnds, UNCHANGED disk
      PROVE  DataInv'
  <2>1. Coherent'
    BY <1>1, EmptyIndexType DEF ProcessEnds, Coherent
  <2>. QED
    BY <1>1, <2>1 DEF ProcessEnds, disk, SegmentsSound, MovingSound, LoadInv, Idle
<1>2. CASE LoadConfig \/ LoadConfigFails
  <2>1. ConfiguredDir \in Dirs /\ DefaultDir \in Dirs
    BY DirsAssumption DEF ConfiguredDir, TypeInv, TypeOK
  <2>2. \A dir \in Dirs : Beneath[dir] = {dir}
    BY DEF Flat
  <2>3. \A dir \in Dirs : \A s \in Scan(dir) : s[1] = dir /\ s[2] \in DOMAIN segments[dir]
    BY <2>2 DEF Scan
  <2>4. \A f : ~FilePresent(ix, f)
    BY <1>2 DEF LoadConfig, LoadConfigFails, TypeInv, Locking, EmptyIndex, EmptyMap, FilePresent
  <2>5. /\ indexBin' \in Dirs /\ toLoad' = Scan(indexBin')
        /\ UNCHANGED <<ix, handler, segments>>
    BY <1>2, <2>1 DEF LoadConfig, LoadConfigFails, disk, Scan
  <2>. QED
    BY <2>3, <2>4, <2>5 DEF Coherent, SegmentsSound, MovingSound, LoadInv
<1>3. ASSUME NEW d \in Dirs, NEW n \in Names, LoadSegment(d, n)
      PROVE  DataInv'
  <2> DEFINE segment == segments[d][n]
  <2>1. /\ <<d, n>> \in toLoad /\ phase = "loading" /\ segment # Unreadable
        /\ toLoad' = toLoad \ {<<d, n>>}
        /\ ix' = MergePartialLoadIndexThreadWorkers(ix, PartialLoadIndexThreadWorkers(segment))
        /\ UNCHANGED <<phase, indexBin, handler, segments>>
    BY <1>3 DEF LoadSegment, disk
  <2>2. d = indexBin /\ n \in DOMAIN segments[d] /\ ~FilePresent(ix, segment.filePath)
    BY <2>1 DEF LoadInv
  <2>3. segment \in Segments /\ IsIndex(ix)
    BY <2>1, <2>2 DEF TypeInv, TypeOK, IsMap, Contents
  <2>4. BinName[segment.filePath] = n /\ Whole(segment)
    BY <2>1, <2>2 DEF SegmentsSound
  <2>5. /\ Coherent'
        /\ DOMAIN ix'.fileToTerms = DOMAIN ix.fileToTerms \cup {segment.filePath}
    BY <2>1, <2>2, <2>3, <2>4, LoadSound DEF Coherent
  <2> HIDE DEF segment
  <2>6. LoadInv'
    <3> SUFFICES ASSUME NEW s \in toLoad'
                 PROVE  /\ s[1] = indexBin /\ s[2] \in DOMAIN segments[indexBin]
                        /\ segments[indexBin][s[2]] # Unreadable =>
                             segments[indexBin][s[2]].filePath \notin DOMAIN ix'.fileToTerms
      BY <2>1 DEF LoadInv, FilePresent
    <3>1. s \in Dirs \X Names /\ s \in toLoad /\ s # <<d, n>>
      BY <2>1 DEF TypeInv, TypeOK
    <3>2. /\ s[1] = indexBin /\ s[2] \in DOMAIN segments[indexBin]
          /\ segments[indexBin][s[2]] # Unreadable =>
               segments[indexBin][s[2]].filePath \notin DOMAIN ix.fileToTerms
      BY <2>1, <3>1 DEF LoadInv, FilePresent
    <3>3. s[2] # n
      BY <2>2, <3>1, <3>2
    <3>4. segments[indexBin][s[2]] # Unreadable =>
            BinName[segments[indexBin][s[2]].filePath] = s[2]
      BY <2>2, <3>2 DEF SegmentsSound
    <3>. QED
      BY <2>4, <2>5, <3>2, <3>3, <3>4
  <2>. QED
    BY <2>1, <2>5, <2>6 DEF SegmentsSound, MovingSound
<1>4. CASE LoadAborts
  BY <1>4 DEF LoadAborts, disk, Coherent, SegmentsSound, MovingSound, LoadInv
<1>5. CASE StartWorker
  BY <1>5 DEF StartWorker, disk, Coherent, SegmentsSound, MovingSound, LoadInv
<1>6. CASE BeginShutdown
  BY <1>6 DEF BeginShutdown, disk, Coherent, SegmentsSound, MovingSound, LoadInv
<1>7. CASE FinishShutdown
  BY <1>1, <1>7 DEF FinishShutdown
<1>8. CASE Crash
  BY <1>1, <1>8 DEF Crash
<1>. QED
  BY <1>2, <1>3, <1>4, <1>5, <1>6, <1>7, <1>8 DEF ProcessStep

(* The serializer leaves the index alone and writes whole segments.        *)
LEMMA WorkerData ==
  ASSUME TypeInv, DataInv, WorkerStep
  PROVE  DataInv'
<1> USE DEF DataInv
<1>1. /\ worker.pc # "none" /\ phase # "loading"
      /\ UNCHANGED <<ix, indexBin, handler, phase, toLoad>>
  <2>1. worker.pc # "none"
    BY DEF WorkerStep, WorkerPop, WorkerExit, WorkerReadPath, WorkerSkipStale, WorkerLock,
           OpenSegment, OpenSegmentFails, WriteSegment, WriteSegmentFails
  <2>2. WorkerUnchanged
    BY DEF WorkerStep, WorkerPop, WorkerExit, WorkerReadPath, WorkerSkipStale, WorkerLock,
           OpenSegment, OpenSegmentFails, WriteSegment, WriteSegmentFails
  <2>3. UNCHANGED toLoad
    BY <2>2 DEF WorkerUnchanged
  <2>. QED
    BY <2>1, <2>2, <2>3 DEF WorkerUnchanged, TypeInv, Locking
<1>2. Coherent' /\ MovingSound' /\ LoadInv'
  BY <1>1 DEF Coherent, MovingSound, LoadInv
<1>3. worker.pc \in {"open", "write"} => worker.bin \in Dirs
  BY DEF TypeInv, TypeOK, WorkerState
<1>4. CASE OpenSegment
  <2>1. SoundContent(BinName[worker.job[1].file], Unreadable)
    BY DEF SoundContent
  <2>. QED
    BY <1>2, <1>3, <1>4, <2>1, SetSegmentSound DEF OpenSegment, TypeInv
<1>5. CASE WriteSegment
  <2> DEFINE file == worker.job[1].file
             content == IF FilePresent(ix, file) THEN Save(ix, file) ELSE Unreadable
  <2>1. SoundContent(BinName[file], content)
    BY SaveSound DEF SoundContent, TypeInv, TypeOK, Coherent
  <2>2. worker.pc = "write" /\ SetSegment(worker.bin, BinName[file], content)
    BY <1>5 DEF WriteSegment
  <2> HIDE DEF content
  <2>. QED
    BY <1>2, <1>3, <2>1, <2>2, SetSegmentSound DEF TypeInv
<1>6. CASE UNCHANGED segments
  BY <1>2, <1>6 DEF SegmentsSound
<1>. QED
  BY <1>4, <1>5, <1>6
  DEF WorkerStep, WorkerPop, WorkerExit, WorkerReadPath, WorkerSkipStale, WorkerLock,
      OpenSegmentFails, WriteSegmentFails

(* A request leaves the worker and the other handlers alone and ends in no *)
(* state of a reconfiguration.                                             *)
LEMMA RequestControl ==
  ASSUME TypeInv, NEW h \in Handlers, RequestStep(h)
  PROVE  /\ \A g \in Handlers : g # h => handler'[g] = handler[g]
         /\ handler'[h].pc \in {"idle", "merge", "unlink", "search"}
         /\ worker' = worker
<1>1. /\ \A g \in Handlers : g # h => handler'[g] = handler[g]
      /\ worker' = worker
  BY DEF RequestStep, LockForIndex, MergeFile, FinishIndex, LockForDelete, DeleteSegment,
         DeleteSegmentFails, EndDelete, BeginSearch, EndSearch, TypeInv, TypeOK
<1>2. ASSUME NEW state, handler' = [handler EXCEPT ![h] = state]
      PROVE  handler'[h] = state
  BY <1>2 DEF TypeInv, TypeOK
<1>3. ASSUME NEW text \in Texts, MergeFile(h, text)
      PROVE  handler'[h].pc = "merge"
  <2>1. handler[h] \in HandlerState /\ handler[h].pc = "merge"
    BY <1>3 DEF MergeFile, TypeInv, TypeOK
  <2>2. [handler[h] EXCEPT !.merged = @ + 1].pc = "merge"
    BY <2>1 DEF HandlerState
  <2>3. handler' = [handler EXCEPT ![h] = [handler[h] EXCEPT !.merged = @ + 1]]
    BY <1>3 DEF MergeFile
  <2>. QED
    BY <1>2, <2>2, <2>3
<1>4. ASSUME NEW batch \in Batches, LockForIndex(h, batch)
      PROVE  handler'[h].pc = "merge"
  BY <1>2, <1>4 DEF LockForIndex, Idle
<1>5. ASSUME NEW file \in Files, LockForDelete(h, file)
      PROVE  handler'[h].pc = "unlink"
  BY <1>2, <1>5 DEF LockForDelete, Idle
<1>6. BeginSearch(h) => handler'[h].pc = "search"
  BY <1>2 DEF BeginSearch, Idle
<1>7. FinishIndex(h) \/ DeleteSegment(h) \/ DeleteSegmentFails(h) \/ EndSearch(h)
        => handler'[h].pc = "idle"
  <2>1. FinishIndex(h) \/ DeleteSegment(h) \/ DeleteSegmentFails(h) \/ EndSearch(h)
          => handler' = [handler EXCEPT ![h] = Idle]
    BY DEF FinishIndex, DeleteSegment, DeleteSegmentFails, EndDelete, EndSearch
  <2>2. Idle.pc = "idle"
    BY DEF Idle
  <2>. QED
    BY <1>2, <2>1, <2>2
<1>. QED
  BY <1>1, <1>3, <1>4, <1>5, <1>6, <1>7 DEF RequestStep

(* Indexing and deletion keep the index coherent and the segments sound.   *)
LEMMA RequestData ==
  ASSUME TypeInv, DataInv, NEW h \in Handlers, RequestStep(h)
  PROVE  DataInv'
<1> USE DEF DataInv
<1>1. phase # "loading" /\ UNCHANGED phase
  BY IdleOrServing
  DEF RequestStep, LockForIndex, MergeFile, FinishIndex, LockForDelete, DeleteSegment,
      DeleteSegmentFails, EndDelete, BeginSearch, EndSearch, Accepts, HandlerUnchanged
<1>2. LoadInv'
  BY <1>1 DEF LoadInv
<1>3. MovingSound'
  BY RequestControl DEF MovingSound
<1>4. ASSUME NEW text \in Texts, MergeFile(h, text)
      PROVE  Coherent' /\ SegmentsSound'
  <2> DEFINE file == handler[h].files[handler[h].merged + 1]
  <2>1. handler[h].files \in Seq(Files) /\ handler[h].merged \in Nat
    BY DEF TypeInv, TypeOK, HandlerState
  <2>2. file \in Files /\ ix' = BuildIndex(ix, file, text) /\ UNCHANGED segments
    BY <1>4, <2>1 DEF MergeFile, disk
  <2> HIDE DEF file
  <2>3. Coherent'
    BY <2>2, BuildSound, DocumentsAssumption DEF TypeInv, TypeOK, Coherent
  <2>. QED
    BY <2>2, <2>3 DEF SegmentsSound
<1>5. ASSUME NEW file \in Files, LockForDelete(h, file)
      PROVE  Coherent' /\ SegmentsSound'
  BY <1>5, RemoveCoherent DEF LockForDelete, disk, TypeInv, TypeOK, Coherent, SegmentsSound
<1>6. CASE DeleteSegment(h)
  <2>1. SegmentsSound'
    BY <1>6, DropSegmentSound DEF DeleteSegment, TypeInv, TypeOK
  <2>. QED
    BY <1>2, <1>3, <1>6, <2>1 DEF DeleteSegment, EndDelete, Coherent
<1>7. ASSUME UNCHANGED <<ix, segments>>
      PROVE  Coherent' /\ SegmentsSound'
  BY <1>7 DEF Coherent, SegmentsSound
<1>. QED
  BY <1>2, <1>3, <1>4, <1>5, <1>6, <1>7
  DEF RequestStep, LockForIndex, FinishIndex, DeleteSegmentFails, EndDelete, BeginSearch,
      EndSearch, disk

(* A migration moves sound segments only.                                  *)
LEMMA ModifyData ==
  ASSUME TypeInv, DataInv, NEW h \in Handlers, ModifyStep(h)
  PROVE  DataInv'
<1> USE DEF DataInv
<1> DEFINE s == handler[h]
<1>1. /\ phase # "loading" /\ ModifyUnchanged
      /\ \A g \in Handlers : g # h => handler'[g] = handler[g]
  BY IdleOrServing
  DEF ModifyStep, BeginModify, JoinWorker, ListSegments, MoveSegment, OpenCopy, FinishCopy,
      RemoveOriginal, SkipGoneSegment, ModifyFails, SetIndexBin, ClearStop, RestartWorker, OpenConfig,
      WriteConfig, SaveConfigFails, BuildFindsNoFiles, At, Goto, Entry, Accepts, TypeInv, TypeOK
<1>2. Coherent' /\ LoadInv'
  BY <1>1 DEF ModifyUnchanged, HandlerUnchanged, Coherent, LoadInv
<1>3. s \in HandlerState /\ s.dir \in Dirs /\ s.old \in Dirs
  BY DEF TypeInv, TypeOK, HandlerState
<1>4. ASSUME NEW state, handler' = [handler EXCEPT ![h] = state]
      PROVE  handler'[h] = state
  BY <1>4 DEF TypeInv, TypeOK
<1>5. ASSUME handler'[h].pc \notin {"copy", "copied"}
      PROVE  MovingSound'
  BY <1>1, <1>5 DEF MovingSound
<1>6. ASSUME NEW n \in Names, MoveSegment(h, n)
      PROVE  SegmentsSound' /\ MovingSound'
  <2>1. s.pc = "move" /\ n \in DOMAIN segments[s.old]
    BY <1>6 DEF MoveSegment, Entry, At
  <2>2. handler'[h].pc = "move"
    <3>1. handler' = [handler EXCEPT ![h] = [s EXCEPT !.left = @ \ {n}]]
      BY <1>6 DEF MoveSegment
    <3> HIDE DEF s
    <3>2. [s EXCEPT !.left = @ \ {n}].pc = "move"
      BY <1>3, <2>1 DEF HandlerState
    <3>. QED
      BY <1>4, <3>1, <3>2
  <2>3. SegmentsSound'
    <3> DEFINE moved == Put(segments[s.dir], n, segments[s.old][n])
               rest == Without(segments[s.old], n)
    <3>1. \A m \in DOMAIN moved : SoundContent(m, moved[m])
      BY <1>3, <2>1 DEF Put, SegmentsSound, SoundContent
    <3>2. \A m \in DOMAIN rest : SoundContent(m, rest[m])
      BY <1>3 DEF Without, Restrict, SegmentsSound, SoundContent
    <3>3. \A d \in Dirs : \A m \in DOMAIN segments[d] : SoundContent(m, segments[d][m])
      BY DEF SegmentsSound, SoundContent
    <3>4. \/ segments' = segments
          \/ s.dir # s.old /\ segments' = [segments EXCEPT ![s.dir] = moved, ![s.old] = rest]
      BY <1>6 DEF MoveSegment
    <3> HIDE DEF moved, rest, s
    <3>5. \A d \in Dirs : \A m \in DOMAIN segments'[d] : SoundContent(m, segments'[d][m])
      BY <1>3, <3>1, <3>2, <3>3, <3>4 DEF TypeInv, TypeOK
    <3>. QED
      BY <3>5 DEF SegmentsSound, SoundContent
  <2>. QED
    BY <1>5, <2>2, <2>3
<1>7. ASSUME NEW n \in Names, OpenCopy(h, n)
      PROVE  SegmentsSound' /\ MovingSound'
  <2> DEFINE content == segments[s.old][n]
             moving == <<[name |-> n, content |-> content]>>
  <2>1. s.pc = "move" /\ n \in DOMAIN segments[s.old] /\ SetSegment(s.dir, n, Unreadable)
    BY <1>7 DEF OpenCopy, Entry, At
  <2>2. SoundContent(n, Unreadable) /\ SoundContent(n, content)
    BY <1>3, <2>1 DEF SoundContent, SegmentsSound
  <2>3. SegmentsSound'
    BY <1>3, <2>1, <2>2, SetSegmentSound DEF TypeInv
  <2>4. handler' = [handler EXCEPT ![h] = [s EXCEPT !.pc = "copy", !.moving = moving]]
    BY <1>7 DEF OpenCopy
  <2>5. moving[1].name = n /\ moving[1].content = content
    OBVIOUS
  <2> HIDE DEF s, moving, content
  <2>6. [s EXCEPT !.pc = "copy", !.moving = moving].moving = moving
    BY <1>3 DEF HandlerState
  <2>7. handler'[h].moving = moving
    BY <1>4, <2>4, <2>6
  <2>. QED
    BY <1>1, <2>2, <2>3, <2>5, <2>7 DEF MovingSound
<1>8. CASE FinishCopy(h)
  <2>1. /\ s.pc = "copy" /\ handler' = [handler EXCEPT ![h] = [s EXCEPT !.pc = "copied"]]
        /\ SetSegment(s.dir, s.moving[1].name, s.moving[1].content)
    BY <1>8 DEF FinishCopy, At, Goto
  <2>2. SoundContent(s.moving[1].name, s.moving[1].content)
    BY <2>1 DEF MovingSound
  <2>3. SegmentsSound'
    BY <1>3, <2>1, <2>2, SetSegmentSound DEF TypeInv
  <2>4. [s EXCEPT !.pc = "copied"].moving = s.moving
    BY <1>3, GotoType DEF HandlerPcs
  <2>5. handler'[h].moving = s.moving
    BY <1>4, <2>1, <2>4
  <2>. QED
    BY <1>1, <1>2, <2>2, <2>3, <2>5 DEF MovingSound
<1>9. CASE RemoveOriginal(h)
  <2> DEFINE n == s.moving[1].name
             state == [s EXCEPT !.pc = "move", !.left = @ \ {n}, !.moving = <<>>]
  <2>1. segments' = [segments EXCEPT ![s.old] = Without(@, n)]
    BY <1>9 DEF RemoveOriginal
  <2>2. handler' = [handler EXCEPT ![h] = state]
    BY <1>9 DEF RemoveOriginal
  <2>3. SegmentsSound'
    BY <1>3, <2>1, DropSegmentSound DEF TypeInv
  <2> HIDE DEF s, n
  <2>4. state.pc = "move"
    BY <1>3 DEF HandlerState
  <2>5. handler'[h].pc = "move"
    BY <1>4, <2>2, <2>4
  <2>. QED
    BY <1>2, <1>5, <2>3, <2>5
<1>10. ASSUME UNCHANGED segments, handler'[h].pc \notin {"copy", "copied"}
       PROVE  SegmentsSound' /\ MovingSound'
  BY <1>5, <1>10 DEF SegmentsSound
<1>11. ASSUME NEW pc \in HandlerPcs, Goto(h, pc)
       PROVE  handler'[h].pc = pc
  <2>1. handler' = [handler EXCEPT ![h] = [s EXCEPT !.pc = pc]]
    BY <1>11 DEF Goto
  <2>2. [s EXCEPT !.pc = pc].pc = pc
    BY <1>3, GotoType
  <2>. QED
    BY <1>4, <2>1, <2>2
<1>12. ASSUME SetIndexBin(h) \/ ClearStop(h) \/ OpenConfig(h) \/ WriteConfig(h) \/ SaveConfigFails(h)
       PROVE  UNCHANGED segments /\ handler'[h].pc \notin {"copy", "copied"}
  BY <1>11, <1>12 DEF SetIndexBin, ClearStop, OpenConfig, WriteConfig, SaveConfigFails, HandlerPcs, disk
<1>13. ASSUME NEW dir, NEW files, BeginModify(h, dir, files)
       PROVE  UNCHANGED segments /\ handler'[h].pc \notin {"copy", "copied"}
  <2> DEFINE state == [Idle EXCEPT !.pc = "join", !.dir = dir, !.files = files]
  <2>1. handler' = [handler EXCEPT ![h] = state] /\ UNCHANGED segments
    BY <1>13 DEF BeginModify, disk
  <2>2. state.pc = "join"
    BY DEF Idle
  <2> HIDE DEF state
  <2>. QED
    BY <1>4, <2>1, <2>2
<1>14. CASE JoinWorker(h)
  <2> DEFINE listed == DOMAIN segments[indexBin]
             state == [s EXCEPT !.pc = "move", !.old = indexBin, !.left = listed]
  <2>1. handler' = [handler EXCEPT ![h] = state] /\ UNCHANGED segments
    BY <1>14 DEF JoinWorker, ListSegments, disk
  <2> HIDE DEF listed, s
  <2>2. state.pc = "move"
    BY <1>3 DEF HandlerState
  <2>3. handler'[h].pc = "move"
    BY <1>4, <2>1, <2>2
  <2>. QED
    BY <1>2, <1>10, <2>1, <2>3
<1>15. CASE SkipGoneSegment(h)
  <2>1. s.pc = "move" /\ UNCHANGED segments
    BY <1>15 DEF SkipGoneSegment, At, disk
  <2>2. PICK n \in GoneSegments(h) : handler' = [handler EXCEPT ![h] = [s EXCEPT !.left = @ \ {n}]]
    BY <1>15 DEF SkipGoneSegment
  <2> HIDE DEF s
  <2>3. [s EXCEPT !.left = @ \ {n}].pc = "move"
    BY <1>3, <2>1 DEF HandlerState
  <2>4. handler'[h].pc = "move"
    BY <1>4, <2>2, <2>3
  <2>. QED
    BY <1>2, <1>10, <2>1, <2>4
<1>16. ASSUME ModifyFails(h) \/ RestartWorker(h) \/ BuildFindsNoFiles(h)
       PROVE  UNCHANGED segments /\ handler'[h].pc \notin {"copy", "copied"}
  <2>1. /\ UNCHANGED segments
        /\ \/ handler' = [handler EXCEPT ![h] = Idle]
           \/ handler' = [handler EXCEPT ![h] = AfterRestart(s.files)]
    BY <1>16 DEF ModifyFails, RestartWorker, BuildFindsNoFiles, disk
  <2>2. Idle.pc = "idle" /\ AfterRestart(s.files).pc \in {"idle", "saveConfig"}
    BY DEF AfterRestart, Idle
  <2>. QED
    BY <1>4, <2>1, <2>2
<1>. QED
  BY <1>2, <1>6, <1>7, <1>8, <1>9, <1>10, <1>12, <1>13, <1>14, <1>15, <1>16 DEF ModifyStep

(* DataInv is inductive, given the types and locks.                        *)
LEMMA DataStep == Flat /\ TypeInv /\ DataInv /\ [Next]_vars => DataInv'
<1> SUFFICES ASSUME Flat, TypeInv, DataInv, [Next]_vars PROVE DataInv'
  OBVIOUS
<1>1. CASE UNCHANGED vars
  BY <1>1 DEF vars, memory, disk, DataInv, Coherent, SegmentsSound, MovingSound, LoadInv
<1>2. CASE ProcessStep
  BY <1>2, ProcessData
<1>3. CASE WorkerStep
  BY <1>3, WorkerData
<1>4. ASSUME NEW h \in Handlers, RequestStep(h) \/ ModifyStep(h)
      PROVE  DataInv'
  BY <1>4, RequestData, ModifyData
<1>. QED
  BY <1>1, <1>2, <1>3, <1>4 DEF Next

(* Every reachable state satisfies both invariants, when no directory of   *)
(* the instance lies beneath another.                                      *)
THEOREM DataInvariance ==
  ASSUME Flat
  PROVE  Spec => [](TypeInv /\ DataInv)
<1>1. Init => DataInv
  BY InitData
<1>2. TypeInv /\ DataInv /\ [Next]_vars => DataInv'
  BY DataStep
<1>. QED
  BY <1>1, <1>2, TypeInvariance, PTL DEF Spec

(* When no directory lies beneath another, index, metadata and tree agree  *)
(* after every history of requests, loads, crashes and faults.             *)
THEOREM CoherentTheorem ==
  ASSUME Flat
  PROVE  Spec => []Coherent
<1>1. TypeInv /\ DataInv => Coherent
  BY DEF DataInv
<1>. QED
  BY <1>1, DataInvariance, PTL

(* And every readable segment is one whole document under its own name.    *)
THEOREM SegmentsTheorem ==
  ASSUME Flat
  PROVE  Spec => []SegmentsSound
<1>1. TypeInv /\ DataInv => SegmentsSound
  BY DEF DataInv
<1>. QED
  BY <1>1, DataInvariance, PTL

(* save finds the file of its job and every term of it, from the           *)
(* generation check to the last byte: the assertion of                     *)
(* IndexSerializer.cpp:86 never fails.                                     *)
THEOREM SaveTheorem ==
  ASSUME Flat
  PROVE  Spec => []SaveFindsEveryTerm
<1>1. TypeInv /\ DataInv => SaveFindsEveryTerm
  BY SaveSound DEF TypeInv, TypeOK, JobIndexed, DataInv, Coherent, SaveFindsEveryTerm
<1>. QED
  BY <1>1, DataInvariance, PTL

-----------------------------------------------------------------------------
(* The steps of a reconfiguration, which only a mover takes; from its join *)
(* to its restart there is no worker.                                      *)
Stopped ==
  \A h \in Handlers :
    /\ handler[h].pc \in {"join", "move", "copy", "copied", "resume", "restart"} => h \in Movers
    /\ handler[h].pc \in {"move", "copy", "copied", "resume", "restart"} => worker.pc = "none"

(* Where each step of a reconfiguration leads.                             *)
LEMMA ModifyControl ==
  ASSUME TypeInv, NEW h \in Handlers, ModifyStep(h)
  PROVE  LET pc == handler[h].pc
             next == handler'[h].pc
         IN  /\ \A g \in Handlers : g # h => handler'[g] = handler[g]
             /\ \/ h \in Movers /\ next = "join" /\ worker' = worker
                \/ pc = "join" /\ next = "move" /\ worker'.pc = "none"
                \/ /\ pc \in {"move", "copy", "copied"}
                   /\ next \in {"move", "copy", "copied", "resume", "idle"}
                   /\ worker' = worker
                \/ pc = "resume" /\ next = "restart" /\ worker' = worker
                \/ pc = "restart" /\ next \in {"idle", "saveConfig"}
                \/ /\ pc \in {"saveConfig", "writeConfig", "build"}
                   /\ next \in {"writeConfig", "build", "idle"} /\ worker' = worker
<1> DEFINE s == handler[h]
<1>1. s \in HandlerState
  BY DEF TypeInv, TypeOK
<1>2. ASSUME NEW state, handler' = [handler EXCEPT ![h] = state]
      PROVE  /\ handler'[h] = state
             /\ \A g \in Handlers : g # h => handler'[g] = handler[g]
  BY <1>2 DEF TypeInv, TypeOK
<1>3. ASSUME NEW pc \in HandlerPcs, Goto(h, pc)
      PROVE  /\ handler'[h].pc = pc
             /\ \A g \in Handlers : g # h => handler'[g] = handler[g]
  <2>1. handler' = [handler EXCEPT ![h] = [s EXCEPT !.pc = pc]]
    BY <1>3 DEF Goto
  <2>2. [s EXCEPT !.pc = pc].pc = pc
    BY <1>1, GotoType
  <2>. QED
    BY <1>2, <2>1, <2>2
<1>4. ASSUME NEW dir, NEW files, BeginModify(h, dir, files)
      PROVE  /\ h \in Movers /\ handler'[h].pc = "join" /\ worker' = worker
             /\ \A g \in Handlers : g # h => handler'[g] = handler[g]
  <2> DEFINE state == [Idle EXCEPT !.pc = "join", !.dir = dir, !.files = files]
  <2>1. handler' = [handler EXCEPT ![h] = state] /\ worker' = worker /\ h \in Movers
    BY <1>4 DEF BeginModify
  <2>2. state.pc = "join"
    BY DEF Idle
  <2> HIDE DEF state
  <2>. QED
    BY <1>2, <2>1, <2>2
<1>5. ASSUME JoinWorker(h)
      PROVE  /\ s.pc = "join" /\ handler'[h].pc = "move" /\ worker'.pc = "none"
             /\ \A g \in Handlers : g # h => handler'[g] = handler[g]
  <2> DEFINE listed == DOMAIN segments[indexBin]
             state == [s EXCEPT !.pc = "move", !.old = indexBin, !.left = listed]
  <2>1. handler' = [handler EXCEPT ![h] = state] /\ s.pc = "join" /\ worker'.pc = "none"
    BY <1>5 DEF JoinWorker, ListSegments, At, WorkerAt
  <2> HIDE DEF listed, s
  <2>2. state.pc = "move"
    BY <1>1 DEF HandlerState
  <2>. QED
    BY <1>2, <2>1, <2>2
<1>6. ASSUME \/ \E n \in Names : MoveSegment(h, n) \/ OpenCopy(h, n)
             \/ FinishCopy(h) \/ RemoveOriginal(h) \/ SkipGoneSegment(h)
      PROVE  /\ s.pc \in {"move", "copy", "copied"}
             /\ handler'[h].pc \in {"move", "copy", "copied"} /\ worker' = worker
             /\ \A g \in Handlers : g # h => handler'[g] = handler[g]
  <2>1. /\ s.pc \in {"move", "copy", "copied"} /\ worker' = worker
        /\ \E state : /\ handler' = [handler EXCEPT ![h] = state]
                       /\ state.pc \in {"move", "copy", "copied"}
    <3>1. CASE \E n \in Names : MoveSegment(h, n)
      <4>1. PICK n \in Names : MoveSegment(h, n)
        BY <3>1
      <4>2. /\ s.pc = "move" /\ worker' = worker
            /\ handler' = [handler EXCEPT ![h] = [s EXCEPT !.left = @ \ {n}]]
        BY <4>1 DEF MoveSegment, Entry, At
      <4> HIDE DEF s
      <4>3. [s EXCEPT !.left = @ \ {n}].pc = "move"
        BY <1>1, <4>2 DEF HandlerState
      <4>. QED
        BY <4>2, <4>3
    <3>2. CASE \E n \in Names : OpenCopy(h, n)
      <4>1. PICK n \in Names : OpenCopy(h, n)
        BY <3>2
      <4> DEFINE moving == <<[name |-> n, content |-> segments[s.old][n]]>>
      <4>2. /\ s.pc = "move" /\ worker' = worker
            /\ handler' = [handler EXCEPT ![h] = [s EXCEPT !.pc = "copy", !.moving = moving]]
        BY <4>1 DEF OpenCopy, Entry, At
      <4> HIDE DEF s, moving
      <4>3. [s EXCEPT !.pc = "copy", !.moving = moving].pc = "copy"
        BY <1>1 DEF HandlerState
      <4>. QED
        BY <4>2, <4>3
    <3>3. CASE FinishCopy(h)
      <4>1. /\ s.pc = "copy" /\ worker' = worker
            /\ handler' = [handler EXCEPT ![h] = [s EXCEPT !.pc = "copied"]]
        BY <3>3 DEF FinishCopy, At, Goto
      <4>2. [s EXCEPT !.pc = "copied"].pc = "copied"
        BY <1>1, GotoType DEF HandlerPcs
      <4>. QED
        BY <4>1, <4>2
    <3>4. CASE RemoveOriginal(h)
      <4> DEFINE n == s.moving[1].name
                 state == [s EXCEPT !.pc = "move", !.left = @ \ {n}, !.moving = <<>>]
      <4>1. s.pc = "copied" /\ worker' = worker /\ handler' = [handler EXCEPT ![h] = state]
        BY <3>4 DEF RemoveOriginal, At
      <4> HIDE DEF s, n
      <4>2. state.pc = "move"
        BY <1>1 DEF HandlerState
      <4>. QED
        BY <4>1, <4>2
    <3>5. CASE SkipGoneSegment(h)
      <4>1. s.pc = "move" /\ worker' = worker
        BY <3>5 DEF SkipGoneSegment, At
      <4>2. PICK n : handler' = [handler EXCEPT ![h] = [s EXCEPT !.left = @ \ {n}]]
        BY <3>5 DEF SkipGoneSegment
      <4> HIDE DEF s
      <4>3. [s EXCEPT !.left = @ \ {n}].pc = "move"
        BY <1>1, <4>1 DEF HandlerState
      <4>. QED
        BY <4>1, <4>2, <4>3
    <3>. QED
      BY <1>6, <3>1, <3>2, <3>3, <3>4, <3>5
  <2>. QED
    BY <1>2, <2>1
<1>7. ASSUME ModifyFails(h)
      PROVE  /\ s.pc \in {"move", "copy", "copied"} /\ handler'[h].pc = "idle" /\ worker' = worker
             /\ \A g \in Handlers : g # h => handler'[g] = handler[g]
  <2>1. /\ s.pc \in {"move", "copy", "copied"} /\ worker' = worker
        /\ handler' = [handler EXCEPT ![h] = Idle]
    BY <1>7 DEF ModifyFails, At
  <2>2. Idle.pc = "idle"
    BY DEF Idle
  <2>. QED
    BY <1>2, <2>1, <2>2
<1>8. ASSUME SetIndexBin(h)
      PROVE  /\ s.pc = "move" /\ handler'[h].pc = "resume" /\ worker' = worker
             /\ \A g \in Handlers : g # h => handler'[g] = handler[g]
  BY <1>3, <1>8 DEF SetIndexBin, At, HandlerPcs
<1>11. ASSUME ClearStop(h)
      PROVE  /\ s.pc = "resume" /\ handler'[h].pc = "restart" /\ worker' = worker
             /\ \A g \in Handlers : g # h => handler'[g] = handler[g]
  BY <1>3, <1>11 DEF ClearStop, At, HandlerPcs
<1>9. ASSUME RestartWorker(h)
      PROVE  /\ s.pc = "restart" /\ handler'[h].pc \in {"idle", "saveConfig"}
             /\ \A g \in Handlers : g # h => handler'[g] = handler[g]
  <2>1. s.pc = "restart" /\ handler' = [handler EXCEPT ![h] = AfterRestart(s.files)]
    BY <1>9 DEF RestartWorker, At
  <2>2. AfterRestart(s.files).pc \in {"idle", "saveConfig"}
    BY DEF AfterRestart, Idle
  <2>. QED
    BY <1>2, <2>1, <2>2
<1>10. ASSUME OpenConfig(h) \/ WriteConfig(h) \/ SaveConfigFails(h) \/ BuildFindsNoFiles(h)
       PROVE  /\ s.pc \in {"saveConfig", "writeConfig", "build"} /\ worker' = worker
              /\ handler'[h].pc \in {"writeConfig", "build", "idle"}
              /\ \A g \in Handlers : g # h => handler'[g] = handler[g]
  <2>1. CASE OpenConfig(h) \/ WriteConfig(h) \/ SaveConfigFails(h)
    BY <1>3, <2>1 DEF OpenConfig, WriteConfig, SaveConfigFails, At, HandlerPcs
  <2>2. CASE BuildFindsNoFiles(h)
    <3>1. s.pc = "build" /\ worker' = worker /\ handler' = [handler EXCEPT ![h] = Idle]
      BY <2>2 DEF BuildFindsNoFiles, At
    <3>2. Idle.pc = "idle"
      BY DEF Idle
    <3>. QED
      BY <1>2, <3>1, <3>2
  <2>. QED
    BY <1>10, <2>1, <2>2
<1> HIDE DEF s
<1>. QED
  BY <1>4, <1>5, <1>6, <1>7, <1>8, <1>9, <1>10, <1>11 DEF ModifyStep, s

(* If at most one thread reconfigures at a time, no worker is ever         *)
(* assigned over another (Engine.cpp:154); MCterminate shows what two do.  *)
THEOREM NeverTerminatesTheorem ==
  ASSUME \A g, h \in Movers : g = h
  PROVE  Spec => []NeverTerminates
<1>1. Init => Stopped
  BY DEF Init, Stopped, Idle
<1>2. TypeInv /\ Stopped /\ [Next]_vars => Stopped'
  <2> SUFFICES ASSUME TypeInv, Stopped, [Next]_vars PROVE Stopped'
    OBVIOUS
  <2>1. CASE UNCHANGED vars
    BY <2>1 DEF vars, memory, Stopped
  <2>2. CASE ProcessStep
    <3>1. ASSUME \A h \in Handlers : handler'[h].pc = "idle"
          PROVE  Stopped'
      BY <3>1 DEF Stopped
    <3>2. CASE UNCHANGED <<handler, worker>>
      BY <3>2 DEF Stopped
    <3>3. CASE StartWorker
      BY <3>1, <3>3 DEF StartWorker, TypeInv, Locking, Idle
    <3>4. CASE FinishShutdown \/ Crash
      BY <3>1, <3>4 DEF FinishShutdown, Crash, ProcessEnds, Idle
    <3>. QED
      BY <2>2, <3>2, <3>3, <3>4
      DEF ProcessStep, LoadConfig, LoadConfigFails, LoadSegment, LoadAborts, BeginShutdown
  <2>3. CASE WorkerStep
    <3>1. worker.pc # "none" /\ handler' = handler
      BY <2>3 DEF WorkerStep, WorkerPop, WorkerExit, WorkerReadPath, WorkerSkipStale, WorkerLock,
                  OpenSegment, OpenSegmentFails, WriteSegment, WriteSegmentFails, WorkerUnchanged
    <3>. QED
      BY <3>1 DEF Stopped
  <2>4. ASSUME NEW h \in Handlers, RequestStep(h)
        PROVE  Stopped'
    BY <2>4, RequestControl DEF Stopped
  <2>5. ASSUME NEW h \in Handlers, ModifyStep(h)
        PROVE  Stopped'
    BY <2>5, ModifyControl DEF Stopped
  <2>. QED
    BY <2>1, <2>2, <2>3, <2>4, <2>5 DEF Next
<1>3. Stopped => NeverTerminates
  BY DEF Stopped, NeverTerminates, At
<1>. QED
  BY <1>1, <1>2, <1>3, TypeInvariance, PTL DEF Spec

-----------------------------------------------------------------------------
(* Nothing but an index operation changes the index.                       *)
LEMMA SummedStep ==
  ASSUME Flat, TypeInv, DataInv, Summed(ix), [Next]_vars
  PROVE  Summed(ix')
<1>1. IsIndex(ix)
  BY DEF TypeInv, TypeOK
<1>2. ASSUME ProcessEnds PROVE Summed(ix')
  BY <1>2, SummedEmpty DEF ProcessEnds
<1>3. CASE ProcessStep
  <2>1. ASSUME NEW d \in Dirs, NEW n \in Names, LoadSegment(d, n)
        PROVE  Summed(ix')
    <3> DEFINE segment == segments[d][n]
               partial == PartialLoadIndexThreadWorkers(segment)
    <3>1. <<d, n>> \in toLoad /\ phase = "loading" /\ segment # Unreadable
      BY <2>1 DEF LoadSegment
    <3>2. d = indexBin /\ n \in DOMAIN segments[d] /\ ~FilePresent(ix, segment.filePath)
      BY <3>1 DEF DataInv, LoadInv
    <3>3. segment \in Segments
      BY <3>1, <3>2 DEF TypeInv, TypeOK, IsMap, Contents
    <3>4. /\ partial.filePath = segment.filePath
          /\ partial.localFileToTerms.tokenCount \in Int
      BY <3>3 DEF PartialLoadIndexThreadWorkers, Segments
    <3>5. ix' = Register(InsertPostings(ix, partial.filePath, partial.localIndex),
                         partial.filePath, partial.localFileToTerms)
      BY <2>1 DEF LoadSegment, MergePartialLoadIndexThreadWorkers
    <3> HIDE DEF partial, segment
    <3>. QED
      BY <1>1, <3>2, <3>4, <3>5, RegisterSummed
  <2>2. CASE LoadConfig \/ LoadConfigFails \/ LoadAborts \/ StartWorker \/ BeginShutdown
    BY <2>2 DEF LoadConfig, LoadConfigFails, LoadAborts, StartWorker, BeginShutdown
  <2>3. CASE FinishShutdown \/ Crash
    BY <1>2, <2>3 DEF FinishShutdown, Crash
  <2>. QED
    BY <1>3, <2>1, <2>2, <2>3 DEF ProcessStep
<1>4. CASE WorkerStep
  BY <1>4
  DEF WorkerStep, WorkerUnchanged, WorkerPop, WorkerExit, WorkerReadPath, WorkerSkipStale,
      WorkerLock, OpenSegment, OpenSegmentFails, WriteSegment, WriteSegmentFails
<1>5. ASSUME NEW h \in Handlers, RequestStep(h) PROVE Summed(ix')
  <2>1. ASSUME NEW text \in Texts, MergeFile(h, text) PROVE Summed(ix')
    <3>1. handler[h].files[handler[h].merged + 1] \in Files
      <4>1. /\ handler[h].files \in Seq(Files) /\ handler[h].merged \in Nat
            /\ handler[h].merged < Len(handler[h].files)
        BY <2>1 DEF MergeFile, TypeInv, TypeOK, HandlerState
      <4>. QED
        BY <4>1
    <3>. QED
      BY <1>1, <2>1, <3>1, BuildSummed, DocumentsAssumption DEF MergeFile
  <2>2. ASSUME NEW file \in Files, LockForDelete(h, file) PROVE Summed(ix')
    BY <1>1, <2>2, RemoveSummed DEF LockForDelete
  <2>3. ASSUME ~(\E text \in Texts : MergeFile(h, text)),
               ~(\E file \in Files : LockForDelete(h, file))
        PROVE  ix' = ix
    BY <1>5, <2>3 DEF RequestStep, LockForIndex, FinishIndex, DeleteSegment, DeleteSegmentFails,
                      EndDelete, BeginSearch, EndSearch
  <2>. QED
    BY <2>1, <2>2, <2>3
<1>6. ASSUME NEW h \in Handlers, ModifyStep(h) PROVE Summed(ix')
  <2>1. ix' = ix
    BY <1>6 DEF ModifyStep, ModifyUnchanged, BeginModify, JoinWorker, MoveSegment, OpenCopy,
                FinishCopy, RemoveOriginal, SkipGoneSegment, ModifyFails, SetIndexBin,
                ClearStop, RestartWorker, OpenConfig, WriteConfig, SaveConfigFails, BuildFindsNoFiles
  <2>. QED
    BY <2>1
<1>7. CASE UNCHANGED vars
  BY <1>7 DEF vars, memory
<1>. QED
  BY <1>3, <1>4, <1>5, <1>6, <1>7 DEF Next

(* The token total BM25 averages over is the sum over the indexed files,   *)
(* after every history of requests, loads, migrations, crashes and faults. *)
THEOREM TotalTheorem == ASSUME Flat PROVE Spec => []TotalIsSum
<1>1. Init => Summed(ix)
  BY SummedEmpty DEF Init
<1>2. TypeInv /\ DataInv /\ Summed(ix) /\ [Next]_vars => Summed(ix)'
  BY SummedStep
<1>3. Summed(ix) => TotalIsSum
  BY DEF Summed, TotalIsSum
<1>. QED
  BY <1>1, <1>2, <1>3, TypeInvariance, DataInvariance, PTL DEF Spec
=============================================================================
