-------------------------------- MODULE Engine --------------------------------
(***************************************************************************)
(* The Engine (src/src/Engine.cpp) as the HTTP handlers drive it           *)
(* (src/src/ApiServer.cpp): indexing, deletion, search and reconfiguration *)
(* requests on the threads of the Crow server, one serializer thread that  *)
(* writes a segment per indexed file behind their back, the segment        *)
(* directories and config.json, and the process that loads the segments,   *)
(* shuts down cleanly or crashes, and starts again.                        *)
(*                                                                         *)
(* A critical section of dirtyMutex or pathMutex is one step.  engineMutex *)
(* is held over several: writer and readers say by whom.                   *)
(***************************************************************************)
EXTENDS IndexSerializer

CONSTANTS Dirs,       \* directories indexBin may name
          DefaultDir, \* EngineConfig's initial indexBin
          Beneath,    \* Beneath[d]: the directories a recursive scan of d visits
          Device,     \* Device[d]: rename works between directories of one device
          Handlers,   \* request-handling threads of the server
          Movers,     \* the handlers that issue reconfigurations
          Requests,   \* the kinds of request that are issued
          Batches,    \* the file lists an indexing request comes with
          Texts,      \* the contents a source file may have when it is read
          MaxGeneration, MaxQueue, MaxCrashes, MaxFaults  \* bounds

ASSUME DirsAssumption ==
  /\ DefaultDir \in Dirs
  /\ Unreadable \notin Dirs
  /\ Beneath \in [Dirs -> SUBSET Dirs]
  /\ \A d \in Dirs : d \in Beneath[d]

ASSUME ThreadsAssumption ==
  /\ {"none", "serializer"} \cap Handlers = {}
  /\ Movers \subseteq Handlers

ASSUME RequestsAssumption ==
  Requests \subseteq {"index", "delete", "search", "config", "build"}

ASSUME DocumentsAssumption ==
  Texts \subseteq Seq(Terms) /\ Batches \subseteq Seq(Files) \ {<<>>}

ASSUME BoundsAssumption ==
  MaxGeneration \in Nat /\ MaxQueue \in Nat /\ MaxCrashes \in Nat /\ MaxFaults \in Nat

VARIABLES
  ix,         \* indexer and tst
  writer,     \* the handler holding engineMutex exclusively, or "none"
  readers,    \* the threads holding it shared
  dirtyQueue, \* jobs for the serializer
  stopWorker,
  worker,     \* the serializer thread
  indexBin,   \* config.indexBin
  handler,    \* the request each handler thread is in the middle of
  phase,      \* of the process
  toLoad,     \* segments found by the scan of indexBin and not loaded yet
  loadOk,     \* what IndexSerializer::load returned; the caller ignores it
  segments,   \* on disk: directory -> name -> segment
  configFile, \* on disk: the directory config/config.json names
  crashes, faults  \* so far

memory == <<ix, writer, readers, dirtyQueue, stopWorker, worker, indexBin,
            handler, toLoad, loadOk>>
disk   == <<segments, configFile>>
vars   == <<memory, phase, disk, crashes, faults>>

DirtyJob == [file : Files, generation : Nat \ {0}]

(* "none" is a std::thread that is not joinable; "exited" has returned     *)
(* from serializerLoop and is still to be joined.                          *)
WorkerPcs == {"none", "wait", "path", "lock", "open", "write", "exited"}

(* job is the popped job, as a sequence of at most one; bin the indexBin   *)
(* read for it.                                                            *)
WorkerState == [pc : WorkerPcs, job : Seq(DirtyJob), bin : Dirs]

WorkerAt(pc) == [pc |-> pc, job |-> <<>>, bin |-> DefaultDir]

HandlerPcs == {"idle", "merge", "unlink", "search", "join", "move", "copy", "copied",
               "resume", "restart", "saveConfig", "writeConfig", "build"}

(* files: the files of the request; merged: how many are in the index;     *)
(* old, dir: the directories a migration goes from and to; left: the names *)
(* still to migrate; moving: the one being copied, with what was read.     *)
HandlerState == [pc : HandlerPcs, files : Seq(Files), merged : Nat,
                 old : Dirs, dir : Dirs, left : SUBSET Names,
                 moving : Seq([name : Names, content : Contents])]

Idle == [pc |-> "idle", files |-> <<>>, merged |-> 0,
         old |-> DefaultDir, dir |-> DefaultDir, left |-> {}, moving |-> <<>>]

(***************************************************************************)
(* Starting, stopping, crashing                                            *)
(***************************************************************************)
(* The process is gone; its memory will be fresh.                          *)
ProcessEnds ==
  /\ phase' = "down"
  /\ ix' = EmptyIndex /\ writer' = "none" /\ readers' = {} /\ dirtyQueue' = <<>>
  /\ stopWorker' = FALSE /\ worker' = WorkerAt("none") /\ indexBin' = DefaultDir
  /\ handler' = [h \in Handlers |-> Idle] /\ toLoad' = {} /\ loadOk' = TRUE

Init ==
  /\ phase = "down"
  /\ ix = EmptyIndex /\ writer = "none" /\ readers = {} /\ dirtyQueue = <<>>
  /\ stopWorker = FALSE /\ worker = WorkerAt("none") /\ indexBin = DefaultDir
  /\ handler = [h \in Handlers |-> Idle] /\ toLoad = {} /\ loadOk = TRUE
  /\ segments = [d \in Dirs |-> EmptyMap]
  /\ configFile = Unreadable
  /\ crashes = 0 /\ faults = 0

(* A missing or unreadable config.json leaves the default in place.        *)
ConfiguredDir == IF configFile = Unreadable THEN DefaultDir ELSE configFile

(* The .bin files a recursive scan of dir finds.                           *)
Scan(dir) == UNION {{<<d, n>> : n \in DOMAIN segments[d]} : d \in Beneath[dir]}

(* The constructor: the configuration, then the scan of indexBin.  If      *)
(* indexBin cannot be created it throws, main ends, and the process stays  *)
(* down.                                                                   *)
LoadConfig ==
  /\ phase = "down"
  /\ phase' = "loading"
  /\ indexBin' = ConfiguredDir
  /\ toLoad' = Scan(ConfiguredDir)
  /\ UNCHANGED <<ix, writer, readers, dirtyQueue, stopWorker, worker, handler,
                 loadOk, disk, crashes, faults>>

(* The directory config.json names cannot be created: loadConfig returns   *)
(* false with the default in place, and nobody looks.                      *)
LoadConfigFails ==
  /\ phase = "down"
  /\ configFile # Unreadable
  /\ faults < MaxFaults /\ faults' = faults + 1
  /\ phase' = "loading"
  /\ indexBin' = DefaultDir
  /\ toLoad' = Scan(DefaultDir)
  /\ UNCHANGED <<ix, writer, readers, dirtyQueue, stopWorker, worker, handler,
                 loadOk, disk, crashes>>

(* Segments are read in parallel and merged one by one, in the unspecified *)
(* order of the directory iteration.                                       *)
LoadSegment(d, n) ==
  /\ phase = "loading"
  /\ <<d, n>> \in toLoad
  /\ segments[d][n] # Unreadable
  /\ ix' = MergePartialLoadIndexThreadWorkers(
             ix, PartialLoadIndexThreadWorkers(segments[d][n]))
  /\ toLoad' = toLoad \ {<<d, n>>}
  /\ UNCHANGED <<writer, readers, dirtyQueue, stopWorker, worker, indexBin, handler,
                 loadOk, phase, disk, crashes, faults>>

(* The first unreadable segment ends the load: what was merged stays, the  *)
(* rest is not loaded, and the constructor goes on.                        *)
LoadAborts ==
  /\ phase = "loading"
  /\ \E s \in toLoad : segments[s[1]][s[2]] = Unreadable
  /\ toLoad' = {}
  /\ loadOk' = FALSE
  /\ UNCHANGED <<ix, writer, readers, dirtyQueue, stopWorker, worker, indexBin,
                 handler, phase, disk, crashes, faults>>

(* The serializer thread starts, and the server accepts requests.          *)
StartWorker ==
  /\ phase = "loading"
  /\ toLoad = {}
  /\ phase' = "serving"
  /\ worker' = WorkerAt("wait")
  /\ UNCHANGED <<ix, writer, readers, dirtyQueue, stopWorker, indexBin, handler,
                 toLoad, loadOk, disk, crashes, faults>>

(* A plausible bug: the destructor joins without raising the flag.         *)
BeginShutdownUnflagged ==
  /\ phase = "serving"
  /\ \A h \in Handlers : handler[h] = Idle
  /\ phase' = "stopping"
  /\ UNCHANGED <<ix, writer, readers, dirtyQueue, stopWorker, worker, indexBin,
                 handler, toLoad, loadOk, disk, crashes, faults>>

(* SIGINT or SIGTERM: Crow returns from run() once the handlers have, and  *)
(* the destructor stops the worker.                                        *)
BeginShutdown ==
  /\ phase = "serving"
  /\ \A h \in Handlers : handler[h] = Idle
  /\ phase' = "stopping"
  /\ stopWorker' = TRUE
  /\ UNCHANGED <<ix, writer, readers, dirtyQueue, worker, indexBin, handler,
                 toLoad, loadOk, disk, crashes, faults>>

(* A plausible bug: the destructor does not wait for the worker.           *)
FinishShutdownUnjoined ==
  /\ phase = "stopping"
  /\ ProcessEnds
  /\ UNCHANGED <<disk, crashes, faults>>

(* The join returns, or there is no thread to join.                        *)
FinishShutdown ==
  /\ phase = "stopping"
  /\ worker.pc \in {"none", "exited"}
  /\ ProcessEnds
  /\ UNCHANGED <<disk, crashes, faults>>

(* The process dies between any two steps; the files stay as they are.     *)
Crash ==
  /\ phase # "down"
  /\ crashes < MaxCrashes
  /\ crashes' = crashes + 1
  /\ ProcessEnds
  /\ UNCHANGED <<disk, faults>>

(***************************************************************************)
(* The serializer thread                                                   *)
(***************************************************************************)
WorkerUnchanged == UNCHANGED <<ix, writer, stopWorker, indexBin, handler, phase,
                               toLoad, loadOk, configFile, crashes>>

WorkerPop ==
  /\ worker.pc = "wait"
  /\ dirtyQueue # <<>>
  /\ worker' = [worker EXCEPT !.pc = "path", !.job = <<Head(dirtyQueue)>>]
  /\ dirtyQueue' = Tail(dirtyQueue)
  /\ WorkerUnchanged /\ UNCHANGED <<readers, segments, faults>>

(* A plausible bug: the stop flag alone ends the loop.                     *)
WorkerExitUndrained ==
  /\ worker.pc = "wait"
  /\ stopWorker
  /\ worker' = WorkerAt("exited")
  /\ WorkerUnchanged /\ UNCHANGED <<readers, dirtyQueue, segments, faults>>

(* It stops only when the queue is drained.                                *)
WorkerExit ==
  /\ worker.pc = "wait"
  /\ stopWorker /\ dirtyQueue = <<>>
  /\ worker' = WorkerAt("exited")
  /\ WorkerUnchanged /\ UNCHANGED <<readers, dirtyQueue, segments, faults>>

WorkerReadPath ==
  /\ worker.pc = "path"
  /\ worker' = [worker EXCEPT !.pc = "lock", !.bin = indexBin]
  /\ WorkerUnchanged /\ UNCHANGED <<readers, dirtyQueue, segments, faults>>

JobIsStale == worker.job[1].generation # GetFileGen(ix, worker.job[1].file)

WorkerSkipStale ==
  /\ worker.pc = "lock"
  /\ writer = "none"
  /\ JobIsStale
  /\ worker' = WorkerAt("wait")
  /\ WorkerUnchanged /\ UNCHANGED <<readers, dirtyQueue, segments, faults>>

(* A plausible bug: no generation check.                                   *)
WorkerLockUnchecked ==
  /\ worker.pc = "lock"
  /\ writer = "none"
  /\ readers' = readers \cup {"serializer"}
  /\ worker' = [worker EXCEPT !.pc = "open"]
  /\ WorkerUnchanged /\ UNCHANGED <<dirtyQueue, segments, faults>>

(* A plausible bug: the check holds the lock and save does not.            *)
WorkerLockReleased ==
  /\ worker.pc = "lock"
  /\ writer = "none"
  /\ ~JobIsStale
  /\ worker' = [worker EXCEPT !.pc = "open"]
  /\ WorkerUnchanged /\ UNCHANGED <<readers, dirtyQueue, segments, faults>>

WorkerLock ==
  /\ worker.pc = "lock"
  /\ writer = "none"
  /\ ~JobIsStale
  /\ readers' = readers \cup {"serializer"}
  /\ worker' = [worker EXCEPT !.pc = "open"]
  /\ WorkerUnchanged /\ UNCHANGED <<dirtyQueue, segments, faults>>

SetSegment(d, n, content) == segments' = [segments EXCEPT ![d] = Put(@, n, content)]

WorkerUnlock == readers' = readers \ {"serializer"} /\ worker' = WorkerAt("wait")

(* save opens the output for writing, which truncates it.                  *)
OpenSegment ==
  /\ worker.pc = "open"
  /\ SetSegment(worker.bin, BinName[worker.job[1].file], Unreadable)
  /\ worker' = [worker EXCEPT !.pc = "write"]
  /\ WorkerUnchanged /\ UNCHANGED <<readers, dirtyQueue, faults>>

(* save returns false and nobody looks: the job is gone.                   *)
OpenSegmentFails ==
  /\ worker.pc = "open"
  /\ faults < MaxFaults /\ faults' = faults + 1
  /\ WorkerUnlock
  /\ WorkerUnchanged /\ UNCHANGED <<dirtyQueue, segments>>

(* Of a file the index does not know, nothing is written.                  *)
WriteSegment ==
  LET file == worker.job[1].file
  IN  /\ worker.pc = "write"
      /\ SetSegment(worker.bin, BinName[file],
                    IF FilePresent(ix, file) THEN Save(ix, file) ELSE Unreadable)
      /\ WorkerUnlock
      /\ WorkerUnchanged /\ UNCHANGED <<dirtyQueue, faults>>

(* The disk fills up: the segment stays cut short.                         *)
WriteSegmentFails ==
  /\ worker.pc = "write"
  /\ faults < MaxFaults /\ faults' = faults + 1
  /\ WorkerUnlock
  /\ WorkerUnchanged /\ UNCHANGED <<dirtyQueue, segments>>

WorkerStep ==
  \/ WorkerPop \/ WorkerExit \/ WorkerReadPath \/ WorkerSkipStale \/ WorkerLock
  \/ OpenSegment \/ OpenSegmentFails \/ WriteSegment \/ WriteSegmentFails

(***************************************************************************)
(* Requests                                                                *)
(***************************************************************************)
HandlerUnchanged == UNCHANGED <<phase, toLoad, loadOk, crashes>>

(* h may start a request of this kind.                                     *)
Accepts(h, kind) == phase = "serving" /\ kind \in Requests /\ handler[h] = Idle

MutexFree == writer = "none" /\ readers = {}

(* The bounds: room in the queue, and no generation beyond the last.       *)
WithinBounds(batch) ==
  /\ Len(dirtyQueue) + Len(batch) <= MaxQueue
  /\ \A f \in Files :
       GetFileGen(ix, f) + Cardinality({i \in DOMAIN batch : batch[i] = f}) <= MaxGeneration

(* A plausible bug: indexing takes the lock shared.                        *)
LockForIndexShared(h, batch) ==
  /\ \/ Accepts(h, "index") /\ batch \in Batches
     \/ handler[h].pc = "build" /\ batch = handler[h].files
  /\ writer = "none"
  /\ WithinBounds(batch)
  /\ writer' = h
  /\ handler' = [handler EXCEPT ![h] = [Idle EXCEPT !.pc = "merge", !.files = batch]]
  /\ HandlerUnchanged
  /\ UNCHANGED <<ix, readers, dirtyQueue, stopWorker, worker, indexBin, disk, faults>>

(* indexFiles and indexFile: engineMutex is held from here to FinishIndex. *)
(* An /index/build request that came with an indexBin is at "build".       *)
LockForIndex(h, batch) ==
  /\ \/ Accepts(h, "index") /\ batch \in Batches
     \/ handler[h].pc = "build" /\ batch = handler[h].files
  /\ MutexFree
  /\ WithinBounds(batch)
  /\ writer' = h
  /\ handler' = [handler EXCEPT ![h] = [Idle EXCEPT !.pc = "merge", !.files = batch]]
  /\ HandlerUnchanged
  /\ UNCHANGED <<ix, readers, dirtyQueue, stopWorker, worker, indexBin, disk, faults>>

(* The next file of the batch, with the contents it had when it was read.  *)
MergeFile(h, text) ==
  /\ handler[h].pc = "merge"
  /\ handler[h].merged < Len(handler[h].files)
  /\ ix' = BuildIndex(ix, handler[h].files[handler[h].merged + 1], text)
  /\ handler' = [handler EXCEPT ![h].merged = @ + 1]
  /\ HandlerUnchanged
  /\ UNCHANGED <<writer, readers, dirtyQueue, stopWorker, worker, indexBin, disk, faults>>

(* A plausible bug: the queue gets one job, for the batch's first file.    *)
FinishIndexFirstOnly(h) ==
  /\ handler[h].pc = "merge"
  /\ handler[h].merged = Len(handler[h].files)
  /\ dirtyQueue' = Append(dirtyQueue, [file |-> handler[h].files[1],
                                       generation |-> GetFileGen(ix, handler[h].files[1])])
  /\ writer' = "none"
  /\ handler' = [handler EXCEPT ![h] = Idle]
  /\ HandlerUnchanged
  /\ UNCHANGED <<ix, readers, stopWorker, worker, indexBin, disk, faults>>

(* A job per file, with the generation it has by now; then the unlock.     *)
FinishIndex(h) ==
  LET files == handler[h].files
  IN  /\ handler[h].pc = "merge"
      /\ handler[h].merged = Len(files)
      /\ dirtyQueue' = dirtyQueue \o
           [i \in 1 .. Len(files) |-> [file |-> files[i], generation |-> GetFileGen(ix, files[i])]]
      /\ writer' = "none"
      /\ handler' = [handler EXCEPT ![h] = Idle]
      /\ HandlerUnchanged
      /\ UNCHANGED <<ix, readers, stopWorker, worker, indexBin, disk, faults>>

(* deleteFileFromIndex under the exclusive lock: first the index, which    *)
(* may not know the file,                                                  *)
LockForDelete(h, file) ==
  /\ Accepts(h, "delete")
  /\ MutexFree
  /\ ix' = RemoveFileFromIndex(ix, file)
  /\ writer' = h
  /\ handler' = [handler EXCEPT ![h] = [Idle EXCEPT !.pc = "unlink", !.files = <<file>>]]
  /\ HandlerUnchanged
  /\ UNCHANGED <<readers, dirtyQueue, stopWorker, worker, indexBin, disk, faults>>

EndDelete(h) ==
  /\ handler[h].pc = "unlink"
  /\ writer' = "none"
  /\ handler' = [handler EXCEPT ![h] = Idle]
  /\ HandlerUnchanged
  /\ UNCHANGED <<ix, readers, dirtyQueue, stopWorker, worker, indexBin, configFile>>

(* A plausible bug: the segment is left for the next load.                 *)
DeleteSegmentForgotten(h) == EndDelete(h) /\ UNCHANGED <<segments, faults>>

(* then the segment of its name, if there is one.                          *)
DeleteSegment(h) ==
  /\ EndDelete(h)
  /\ segments' = [segments EXCEPT ![indexBin] = Without(@, BinName[handler[h].files[1]])]
  /\ UNCHANGED faults

(* modifyIndexBinPath is about to assign config.indexBin, or assigns it.    *)
IndexBinChanging == \E g \in Handlers : handler[g].pc = "move" /\ handler[g].left = {}

(* deleteFile returns false and nobody looks: the disk refuses, or         *)
(* config.indexBin, read without pathMutex while it is assigned, names     *)
(* neither directory and no file is found.                                 *)
DeleteSegmentFails(h) ==
  /\ EndDelete(h)
  /\ BinName[handler[h].files[1]] \in DOMAIN segments[indexBin]
  /\ \/ faults < MaxFaults /\ faults' = faults + 1
     \/ IndexBinChanging /\ UNCHANGED faults
  /\ UNCHANGED segments

BeginSearch(h) ==
  /\ Accepts(h, "search")
  /\ writer = "none"
  /\ readers' = readers \cup {h}
  /\ handler' = [handler EXCEPT ![h] = [Idle EXCEPT !.pc = "search"]]
  /\ HandlerUnchanged
  /\ UNCHANGED <<ix, writer, dirtyQueue, stopWorker, worker, indexBin, disk, faults>>

EndSearch(h) ==
  /\ handler[h].pc = "search"
  /\ readers' = readers \ {h}
  /\ handler' = [handler EXCEPT ![h] = Idle]
  /\ HandlerUnchanged
  /\ UNCHANGED <<ix, writer, dirtyQueue, stopWorker, worker, indexBin, disk, faults>>

(***************************************************************************)
(* modifyIndexBinPath and saveConfig.  Neither takes engineMutex.  A path  *)
(* that is empty, a root or not a directory is refused before anything     *)
(* changes and is left out.                                                *)
(***************************************************************************)
At(h, pc) == handler[h].pc = pc

Goto(h, pc) == handler' = [handler EXCEPT ![h].pc = pc]

ModifyUnchanged == HandlerUnchanged /\ UNCHANGED <<ix, writer, readers, dirtyQueue>>

(* POST /config/indexBin carries a directory, POST /index/build may carry  *)
(* one with the files to index afterwards.                                 *)
BeginModify(h, dir, files) ==
  /\ h \in Movers
  /\ \/ Accepts(h, "config") /\ files = <<>>
     \/ Accepts(h, "build") /\ files \in Batches
  /\ stopWorker' = TRUE
  /\ handler' = [handler EXCEPT ![h] = [Idle EXCEPT !.pc = "join", !.dir = dir, !.files = files]]
  /\ ModifyUnchanged /\ UNCHANGED <<worker, indexBin, disk, faults>>

ListSegments(h) ==
  handler' = [handler EXCEPT ![h].pc = "move", ![h].old = indexBin,
                             ![h].left = DOMAIN segments[indexBin]]

(* A plausible bug: the segments move while the worker may be writing one. *)
JoinWorkerSkipped(h) ==
  /\ At(h, "join")
  /\ ListSegments(h)
  /\ ModifyUnchanged /\ UNCHANGED <<stopWorker, worker, indexBin, disk, faults>>

(* The worker has drained the queue and returned, or there is none; then   *)
(* the directory is listed, without its subdirectories.                    *)
JoinWorker(h) ==
  /\ At(h, "join")
  /\ worker.pc \in {"none", "exited"}
  /\ worker' = WorkerAt("none")
  /\ ListSegments(h)
  /\ ModifyUnchanged /\ UNCHANGED <<stopWorker, indexBin, disk, faults>>

(* The next entry of the listing, if it is still there.                    *)
Entry(h, n) == At(h, "move") /\ n \in handler[h].left \cap DOMAIN segments[handler[h].old]

(* rename replaces a file of that name in the new directory.               *)
MoveSegment(h, n) ==
  LET old == handler[h].old
      dir == handler[h].dir
  IN  /\ Entry(h, n)
      /\ Device[dir] = Device[old]
      /\ segments' = IF dir = old THEN segments
                     ELSE [segments EXCEPT ![dir] = Put(@, n, segments[old][n]),
                                           ![old] = Without(@, n)]
      /\ handler' = [handler EXCEPT ![h].left = @ \ {n}]
      /\ ModifyUnchanged /\ UNCHANGED <<stopWorker, worker, indexBin, configFile, faults>>

(* Across devices rename throws and the file is copied, then removed.      *)
OpenCopy(h, n) ==
  LET old == handler[h].old
      dir == handler[h].dir
  IN  /\ Entry(h, n)
      /\ Device[dir] # Device[old]
      /\ SetSegment(dir, n, Unreadable)
      /\ handler' = [handler EXCEPT ![h].pc = "copy",
                                    ![h].moving = <<[name |-> n, content |-> segments[old][n]]>>]
      /\ ModifyUnchanged /\ UNCHANGED <<stopWorker, worker, indexBin, configFile, faults>>

FinishCopy(h) ==
  /\ At(h, "copy")
  /\ SetSegment(handler[h].dir, handler[h].moving[1].name, handler[h].moving[1].content)
  /\ Goto(h, "copied")
  /\ ModifyUnchanged /\ UNCHANGED <<stopWorker, worker, indexBin, configFile, faults>>

RemoveOriginal(h) ==
  LET n == handler[h].moving[1].name
  IN  /\ At(h, "copied")
      /\ segments' = [segments EXCEPT ![handler[h].old] = Without(@, n)]
      /\ handler' = [handler EXCEPT ![h].pc = "move", ![h].left = @ \ {n},
                                    ![h].moving = <<>>]
      /\ ModifyUnchanged /\ UNCHANGED <<stopWorker, worker, indexBin, configFile, faults>>

GoneSegments(h) == handler[h].left \ DOMAIN segments[handler[h].old]

(* The listing was made before a concurrent deletion: the iterator may not *)
(* yield the entry any more,                                               *)
SkipGoneSegment(h) ==
  /\ At(h, "move")
  /\ \E n \in GoneSegments(h) : handler' = [handler EXCEPT ![h].left = @ \ {n}]
  /\ ModifyUnchanged /\ UNCHANGED <<stopWorker, worker, indexBin, disk, faults>>

(* or it does, and neither rename nor copy_file finds the file.  That, or  *)
(* the disk refusing to list, rename, copy or remove, leaves the loop with *)
(* a filesystem_error: the caller gets false, stopWorker stays set and no  *)
(* worker is started.                                                      *)
ModifyFails(h) ==
  /\ \/ At(h, "move") /\ GoneSegments(h) # {} /\ UNCHANGED faults
     \/ /\ handler[h].pc \in {"move", "copy", "copied"}
        /\ faults < MaxFaults /\ faults' = faults + 1
  /\ handler' = [handler EXCEPT ![h] = Idle]
  /\ ModifyUnchanged /\ UNCHANGED <<stopWorker, worker, indexBin, disk>>

SetIndexBin(h) ==
  /\ At(h, "move")
  /\ handler[h].left = {}
  /\ indexBin' = handler[h].dir
  /\ Goto(h, "resume")
  /\ ModifyUnchanged /\ UNCHANGED <<stopWorker, worker, disk, faults>>

(* A plausible bug: stopWorker is not cleared, so the new worker exits as  *)
(* soon as it finds the queue empty.                                       *)
ClearStopForgotten(h) ==
  /\ At(h, "resume")
  /\ Goto(h, "restart")
  /\ ModifyUnchanged /\ UNCHANGED <<stopWorker, worker, indexBin, disk, faults>>

ClearStop(h) ==
  /\ At(h, "resume")
  /\ stopWorker' = FALSE
  /\ Goto(h, "restart")
  /\ ModifyUnchanged /\ UNCHANGED <<worker, indexBin, disk, faults>>

(* A mere reconfiguration is done; a build goes on to save the new path.   *)
AfterRestart(files) ==
  IF files = <<>> THEN Idle ELSE [Idle EXCEPT !.pc = "saveConfig", !.files = files]

(* Assigning to a joinable std::thread would terminate the process; see    *)
(* NeverTerminates.                                                        *)
RestartWorker(h) ==
  /\ At(h, "restart")
  /\ worker.pc = "none"
  /\ worker' = WorkerAt("wait")
  /\ handler' = [handler EXCEPT ![h] = AfterRestart(@.files)]
  /\ ModifyUnchanged /\ UNCHANGED <<stopWorker, indexBin, disk, faults>>

(* Only /index/build saves the configuration: open truncates config.json,  *)
OpenConfig(h) ==
  /\ At(h, "saveConfig")
  /\ configFile' = Unreadable
  /\ Goto(h, "writeConfig")
  /\ ModifyUnchanged /\ UNCHANGED <<stopWorker, worker, indexBin, segments, faults>>

(* then the directory is written, and the build goes on.                   *)
WriteConfig(h) ==
  /\ At(h, "writeConfig")
  /\ configFile' = indexBin
  /\ Goto(h, "build")
  /\ ModifyUnchanged /\ UNCHANGED <<stopWorker, worker, indexBin, segments, faults>>

(* saveConfig returns false and nobody looks.                              *)
SaveConfigFails(h) ==
  /\ handler[h].pc \in {"saveConfig", "writeConfig"}
  /\ faults < MaxFaults /\ faults' = faults + 1
  /\ Goto(h, "build")
  /\ ModifyUnchanged /\ UNCHANGED <<stopWorker, worker, indexBin, disk>>

(* buildInitialIndex returns false when the path has no .txt or .md file.  *)
BuildFindsNoFiles(h) ==
  /\ At(h, "build")
  /\ handler' = [handler EXCEPT ![h] = Idle]
  /\ ModifyUnchanged /\ UNCHANGED <<stopWorker, worker, indexBin, disk, faults>>

-----------------------------------------------------------------------------
ModifyStep(h) ==
  \/ \E dir \in Dirs, files \in Batches \cup {<<>>} : BeginModify(h, dir, files)
  \/ JoinWorker(h)
  \/ \E n \in Names : MoveSegment(h, n) \/ OpenCopy(h, n)
  \/ FinishCopy(h) \/ RemoveOriginal(h) \/ SkipGoneSegment(h) \/ ModifyFails(h)
  \/ SetIndexBin(h) \/ ClearStop(h) \/ RestartWorker(h)
  \/ OpenConfig(h) \/ WriteConfig(h) \/ SaveConfigFails(h) \/ BuildFindsNoFiles(h)

RequestStep(h) ==
  \/ \E batch \in Batches : LockForIndex(h, batch)
  \/ \E text \in Texts : MergeFile(h, text)
  \/ FinishIndex(h)
  \/ \E file \in Files : LockForDelete(h, file)
  \/ DeleteSegment(h) \/ DeleteSegmentFails(h)
  \/ BeginSearch(h) \/ EndSearch(h)

ProcessStep ==
  \/ LoadConfig \/ LoadConfigFails
  \/ (\E d \in Dirs, n \in Names : LoadSegment(d, n)) \/ LoadAborts
  \/ StartWorker \/ BeginShutdown \/ FinishShutdown \/ Crash

Next ==
  \/ ProcessStep
  \/ WorkerStep
  \/ \E h \in Handlers : RequestStep(h) \/ ModifyStep(h)

Spec == Init /\ [][Next]_vars

(***************************************************************************)
(* Fairness.  A thread that can run does.  The serializer waits for        *)
(* engineMutex in shared mode while writers come and go: the rwlock lets a *)
(* waiting reader in when a writer unlocks, hence SF for that step alone.  *)
(* Requests and shutdowns need never arrive, and nothing is asked of a     *)
(* build that waits for engineMutex.                                       *)
(***************************************************************************)
HandlerProgress(h) ==
  handler[h].pc \notin {"idle", "build"} /\ (RequestStep(h) \/ ModifyStep(h))

FairSpec ==
  /\ Spec
  /\ WF_vars(WorkerStep)
  /\ SF_vars(WorkerLock \/ WorkerSkipStale)
  /\ \A h \in Handlers : WF_vars(HandlerProgress(h))
  /\ WF_vars(FinishShutdown)

(***************************************************************************)
(* Properties                                                              *)
(***************************************************************************)

(* Every variable has its type; the worker holds a job exactly from        *)
(* WorkerPop until it waits again, a migration a name exactly while it     *)
(* copies, and no job has the generation 0 that getFileGen                 *)
(* (Indexer.cpp:138) reports for an unknown file.                          *)
TypeOK ==
  /\ IsIndex(ix)
  /\ writer \in Handlers \cup {"none"}
  /\ readers \subseteq Handlers \cup {"serializer"}
  /\ dirtyQueue \in Seq(DirtyJob)
  /\ stopWorker \in BOOLEAN
  /\ worker \in WorkerState
  /\ IF worker.pc \in {"path", "lock", "open", "write"} THEN Len(worker.job) = 1
                                                       ELSE worker.job = <<>>
  /\ indexBin \in Dirs
  /\ handler \in [Handlers -> HandlerState]
  /\ \A h \in Handlers :
       /\ handler[h].pc = "unlink" => Len(handler[h].files) = 1
       /\ handler[h].pc \in {"copy", "copied"} => Len(handler[h].moving) = 1
  /\ phase \in {"down", "loading", "serving", "stopping"}
  /\ toLoad \subseteq Dirs \X Names
  /\ loadOk \in BOOLEAN
  /\ DOMAIN segments = Dirs /\ \A d \in Dirs : IsMap(segments[d], Names, Contents)
  /\ configFile \in Dirs \cup {Unreadable}
  /\ crashes \in Nat /\ faults \in Nat

(* Whatever is indexed, reindexed, deleted, loaded or abandoned half-way,  *)
(* the inverted index, the per-file metadata and the tree agree: search    *)
(* and computeScore (Indexer.cpp:147), which look files up with at(),      *)
(* never miss, and a document's postings tile it exactly once.             *)
Coherent == CoherentIndex(ix)

(* Every segment that can be read, in whatever directory, is one whole     *)
(* document under the name of its file: whatever was truncated, moved,     *)
(* copied or left behind on the way (IndexSerializer.cpp:39-88,            *)
(* Engine.cpp:132-144), what load will merge tiles the document.           *)
SegmentsSound ==
  \A d \in Dirs : \A n \in DOMAIN segments[d] :
    segments[d][n] # Unreadable =>
      BinName[segments[d][n].filePath] = n /\ Whole(segments[d][n])

(* The token total BM25 averages over is the sum over the indexed files    *)
(* (Indexer.cpp:100, 120; IndexSerializer.cpp:199).                        *)
TotalIsSum ==
  ix.totalTokensInIndex = TokenTotal(ix.fileToTerms)

(* From the generation check to the last byte the file of the job stays    *)
(* indexed and every term it lists is found: save neither truncates a      *)
(* segment it cannot fill (IndexSerializer.cpp:45) nor trips its assertion *)
(* (line 86).                                                              *)
SaveFindsEveryTerm ==
  worker.pc \in {"open", "write"} =>
    LET file == worker.job[1].file
    IN  FilePresent(ix, file) /\ WrittenTerms(ix, file) = ix.fileToTerms[file].uniqueTerms

CurrentJob(f) == [file |-> f, generation |-> GetFileGen(ix, f)]

Migrating == {h \in Handlers : handler[h].pc \in {"move", "copy", "copied", "resume", "restart"}}

(* The directories a current segment may be in.                            *)
Homes == Beneath[indexBin] \cup {handler[h].dir : h \in Migrating}

Persisted(f) ==
  \E d \in Homes : BinName[f] \in DOMAIN segments[d] /\ segments[d][BinName[f]] = Save(ix, f)

Pending(f) ==
  \/ \E i \in DOMAIN dirtyQueue : dirtyQueue[i] = CurrentJob(f)
  \/ worker.job = <<CurrentJob(f)>>
  \/ \E h \in Handlers : At(h, "merge") /\ \E i \in 1 .. handler[h].merged : handler[h].files[i] = f

(* No update is forgotten: as long as the disk works, an indexed file has  *)
(* its current contents in a segment, or a job of its current generation   *)
(* is queued, about to be queued or in the worker's hands - however index, *)
(* delete, stale jobs, loads and migrations interleave (Engine.cpp:59-107).*)
PendingOrPersisted ==
  faults = 0 => \A f \in DOMAIN ix.fileToTerms : Pending(f) \/ Persisted(f)

(* A disk fault costs at most the update it hits: with n of them so far,   *)
(* at most n indexed files are neither on their way to the disk nor there. *)
(* The job that failed is gone, but not its neighbours in the queue, and a *)
(* crash or a restart adds none (Engine.cpp:81, IndexSerializer.cpp:40).   *)
LossesCounted ==
  Cardinality({f \in DOMAIN ix.fileToTerms : ~(Pending(f) \/ Persisted(f))}) <= faults

(* A segment of the current indexBin whose file is indexed, or being       *)
(* deleted.                                                                *)
Owned(n) ==
  \/ \E f \in DOMAIN ix.fileToTerms : BinName[f] = n
  \/ \E h \in Handlers : At(h, "unlink") /\ BinName[handler[h].files[1]] = n

(* Deleted is deleted: while the engine serves an index it loaded, only a  *)
(* disk fault leaves a segment of a deleted file, which a restart would    *)
(* bring back, and each fault at most one (Engine.cpp:162-166,             *)
(* IndexSerializer.cpp:203-223).                                           *)
OrphansCounted ==
  (phase = "serving" /\ loadOk) =>
    Cardinality({n \in DOMAIN segments[indexBin] : ~Owned(n)}) <= faults

(* The segments being rewritten, copied, or copied and not yet removed.    *)
InFlight(d, n) ==
  \/ worker.pc = "write" /\ d = worker.bin /\ n = BinName[worker.job[1].file]
  \/ \E h \in Handlers :
       /\ handler[h].pc \in {"copy", "copied"}
       /\ n = handler[h].moving[1].name
       /\ d = IF At(h, "copy") THEN handler[h].dir ELSE handler[h].old

(* Truncating a segment before writing it (IndexSerializer.cpp:40), and    *)
(* copying across devices (Engine.cpp:141), ruin a segment only where a    *)
(* disk fault or a crash cuts them short, and each of these ruins at most  *)
(* one: later saves, deletions, migrations and shutdowns ruin no other.    *)
TornCounted ==
  Cardinality({s \in Dirs \X Names :
      /\ s[2] \in DOMAIN segments[s[1]] /\ segments[s[1]][s[2]] = Unreadable
      /\ ~InFlight(s[1], s[2])}) <= faults + crashes

(* While anybody holds engineMutex shared - a search between two lookups,  *)
(* the serializer in the middle of a segment - the index does not change.  *)
ReadersSeeOneIndex == [][readers # {} /\ phase' # "down" => ix' = ix]_vars

(* A clean shutdown loses nothing: what the next start will scan is the    *)
(* segments of exactly the indexed files, as they were last indexed.       *)
RestoresIndex ==
  {segments[s[1]][s[2]] : s \in Scan(ConfiguredDir)} = {Save(ix, f) : f \in DOMAIN ix.fileToTerms}

CleanShutdownKeepsIndex ==
  [][(phase = "stopping" /\ phase' = "down" /\ crashes' = crashes /\ loadOk /\ faults = 0)
       => RestoresIndex]_vars

(* A thread is never assigned over a joinable one, which would terminate   *)
(* the process (Engine.cpp:154).                                           *)
NeverTerminates == \A h \in Handlers : At(h, "restart") => worker.pc = "none"

(* A segment that can be read is loaded whatever other segments look like. *)
LoadKeepsReadable ==
  (phase = "loading" /\ toLoad = {}) =>
    \A s \in Scan(indexBin) :
      segments[s[1]][s[2]] # Unreadable => FilePresent(ix, segments[s[1]][s[2]].filePath)

(* A file found through the index is one computeScore knows: search never  *)
(* looks up a file with at() in vain (Indexer.cpp:147-152).                *)
ScoreFindsFile == \A t \in DOMAIN ix.index : DOMAIN ix.index[t] \subseteq DOMAIN ix.fileToTerms

(* The engine seen as a DocumentStore: what it would save of each file,    *)
(* and what can be read on disk, in any directory.                         *)
Memory == [f \in DOMAIN ix.fileToTerms |-> Save(ix, f)]

Stored(segs) == UNION {Range(segs[d]) : d \in Dirs}

Shelf == Stored(segments) \ {Unreadable}

Writing == IF worker.pc = "write" THEN {worker.job[1].file} ELSE {}

Store == INSTANCE DocumentStore WITH
  Documents <- Segments, memory <- Memory, shelf <- Shelf, writing <- Writing

(* Only current documents are put on disk, none changes while it is being  *)
(* written, one leaves the disk only to be rewritten or once its file is   *)
(* deleted, and what a process loads is what an earlier one had stored     *)
(* (Engine.cpp:73-107, IndexSerializer.cpp:39-88).                         *)
ImplementsDocumentStore == Store!Spec

(* An indexed generation of a file reaches its segment unless a newer one  *)
(* or a deletion overtakes it, or the process ends.                        *)
EventuallySaved ==
  \A f \in Files, g \in 1 .. MaxGeneration :
    (phase = "serving" /\ GetFileGen(ix, f) = g)
      ~> (GetFileGen(ix, f) # g \/ Persisted(f) \/ phase = "down")

(* The destructor's join returns: the queue is drained in finite time.     *)
ShutdownCompletes == (phase = "stopping") ~> (phase = "down")
=============================================================================
