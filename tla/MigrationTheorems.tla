-------------------------- MODULE MigrationTheorems --------------------------
(***************************************************************************)
(* One thread reconfigures the engine while others index and search.  The  *)
(* worker is stopped, the segments go to the new directory one by one, by  *)
(* renaming or by copying, and the worker starts again there: for any      *)
(* files, directories, devices, threads and bounds, no step of it forgets  *)
(* a document, and a clean shutdown still leaves on disk what it had in    *)
(* memory.                                                                 *)
(***************************************************************************)
EXTENDS StoreTheorems

(* What the theorems take for granted: no directory lies in another, no    *)
(* two files share a segment, one thread reconfigures, and nothing is      *)
(* deleted, since a deletion does race with a migration.                   *)
OneMover ==
  /\ Flat
  /\ OwnNames
  /\ \A g, h \in Movers : g = h
  /\ "delete" \notin Requests

MovingPcs  == {"move", "copy", "copied"}
StoppedPcs == MovingPcs \cup {"resume", "restart"}
ModifyPcs  == StoppedPcs \cup {"join", "saveConfig", "writeConfig", "build"}

Moving(h) == handler[h].pc \in MovingPcs

(* The reconfiguring thread works while there is no worker.                *)
Mover ==
  \A h \in Handlers :
    /\ handler[h].pc # "unlink"
    /\ handler[h].pc \in ModifyPcs => h \in Movers
    /\ handler[h].pc \in StoppedPcs => worker.pc = "none"
    /\ Moving(h) => handler[h].old = indexBin

(* A worker that saves does so in the current directory.                   *)
WorkerHome == worker.pc \in {"lock", "open", "write"} => worker.bin = indexBin

(* What is still to move is in the current directory, and nothing else is  *)
(* once the directories differ; what is being copied is in both.           *)
Listed(h) ==
  LET s == handler[h]
  IN  /\ s.left \subseteq DOMAIN segments[indexBin]
      /\ s.dir # indexBin => DOMAIN segments[indexBin] \subseteq s.left
      /\ s.pc \in {"copy", "copied"} =>
           /\ s.dir # indexBin /\ s.moving[1].name \in s.left
           /\ s.moving[1].content = segments[indexBin][s.moving[1].name]
      /\ s.pc = "copied" =>
           /\ s.moving[1].name \in DOMAIN segments[s.dir]
           /\ segments[s.dir][s.moving[1].name] = s.moving[1].content

Listing == \A h \in Handlers : Moving(h) => Listed(h)

ControlInv == TypeInv /\ DataInv /\ Mover /\ WorkerHome /\ Listing

-----------------------------------------------------------------------------
(* The steps of a migration.                                               *)

(* The migration goes on with one entry less.                              *)
Advances(h, n) == handler'[h].pc = "move" /\ handler'[h].left = handler[h].left \ {n}

Passes(h, n) == handler[h].dir = indexBin /\ segments' = segments /\ Advances(h, n)

Shifts(h, n) ==
  /\ handler[h].dir # indexBin
  /\ segments' = [segments EXCEPT ![handler[h].dir] = Put(@, n, segments[indexBin][n]),
                                  ![indexBin] = Without(@, n)]
  /\ Advances(h, n)

Copies(h, n) ==
  /\ handler[h].dir # indexBin
  /\ handler'[h].left = handler[h].left
  /\ handler'[h].moving = <<[name |-> n, content |-> segments[indexBin][n]]>>
  /\ \E content \in {Unreadable, segments[indexBin][n]} :
       /\ SetSegment(handler[h].dir, n, content)
       /\ handler'[h].pc = "copy" \/ (handler'[h].pc = "copied" /\ content = segments[indexBin][n])

(* A step with one entry, which changes no path.                           *)
Migrates(h) ==
  /\ indexBin' = indexBin /\ faults' = faults
  /\ handler'[h].old = handler[h].old /\ handler'[h].dir = handler[h].dir
  /\ handler'[h].files = handler[h].files
  /\ \E n \in handler[h].left : Passes(h, n) \/ Shifts(h, n) \/ Copies(h, n)

(* The last step: the path is changed.                                     *)
Arrives(h) ==
  /\ handler[h].left = {} /\ indexBin' = handler[h].dir
  /\ segments' = segments /\ faults' = faults
  /\ handler'[h].pc = "resume" /\ handler'[h].files = handler[h].files

(* Or the disk refuses.                                                    *)
Breaks(h) ==
  /\ handler'[h] = Idle /\ faults' # 0
  /\ segments' = segments /\ indexBin' = indexBin

(* Before and after: the request, the listing, the new worker, and what a  *)
(* build does then.                                                        *)
Begins(h) ==
  /\ phase = "serving" /\ handler[h].pc = "idle" /\ h \in Movers
  /\ handler'[h].pc = "join" /\ stopWorker'
  /\ handler'[h].files # <<>> \/ "config" \in Requests
  /\ UNCHANGED <<worker, configFile, faults>>

Lists(h) ==
  /\ handler[h].pc = "join" /\ worker.pc \in {"none", "exited"}
  /\ worker' = WorkerAt("none")
  /\ handler'[h].pc = "move" /\ handler'[h].old = indexBin
  /\ handler'[h].left = DOMAIN segments[indexBin]
  /\ handler'[h].dir = handler[h].dir /\ handler'[h].files = handler[h].files
  /\ UNCHANGED <<stopWorker, configFile, faults>>

Clears(h) ==
  /\ handler[h].pc = "resume" /\ handler'[h].pc = "restart" /\ ~stopWorker'
  /\ handler'[h].files = handler[h].files
  /\ UNCHANGED <<worker, configFile, faults>>

Restarts(h) ==
  /\ handler[h].pc = "restart" /\ worker.pc = "none" /\ worker' = WorkerAt("wait")
  /\ handler'[h].pc = IF handler[h].files = <<>> THEN "idle" ELSE "saveConfig"
  /\ UNCHANGED <<stopWorker, configFile, faults>>

Saves(h) ==
  /\ UNCHANGED <<worker, stopWorker>>
  /\ \/ handler[h].pc = "saveConfig" /\ handler'[h].pc = "writeConfig" /\ faults' = faults
     \/ handler[h].pc = "writeConfig" /\ handler'[h].pc = "build" /\ faults' = faults
          /\ configFile' = indexBin
     \/ handler[h].pc \in {"saveConfig", "writeConfig"} /\ handler'[h].pc = "build" /\ faults' # 0
     \/ handler[h].pc = "build" /\ handler'[h].pc = "idle"
          /\ configFile' = configFile /\ faults' = faults

(* Putting what is there changes nothing.                                  *)
LEMMA PutAgain ==
  ASSUME NEW S, NEW T, NEW map, IsMap(map, S, T), NEW key \in DOMAIN map
  PROVE  Put(map, key, map[key]) = map
BY DEF Put, IsMap

(* A sequence of one.                                                      *)
LEMMA Single ==
  ASSUME NEW R, NEW q \in Seq(R), Len(q) = 1
  PROVE  q[1] \in R /\ q = <<q[1]>>
<1>1. q[1] \in R
  OBVIOUS
<1>2. q = <<q[1]>>
  OBVIOUS
<1>. QED
  BY <1>1, <1>2

(* A migration meets every entry it listed: no step skips one, and none    *)
(* fails for want of one.                                                  *)
LEMMA MovingSteps ==
  ASSUME ControlInv, NEW h \in Handlers, Moving(h), ModifyStep(h)
  PROVE  /\ UNCHANGED <<stopWorker, worker, configFile>>
         /\ Migrates(h) \/ Arrives(h) \/ Breaks(h)
<1> DEFINE s == handler[h]
<1>1. /\ s \in HandlerState /\ s.pc \in MovingPcs /\ s.old = indexBin
      /\ s.left \subseteq DOMAIN segments[indexBin] /\ s.left \subseteq Names
      /\ indexBin \in Dirs /\ s.dir \in Dirs /\ DOMAIN segments = Dirs
      /\ \A d \in Dirs : IsMap(segments[d], Names, Contents)
  BY DEF ControlInv, TypeInv, TypeOK, Mover, Listing, Listed, Moving, HandlerState
<1>2. s.pc \in {"copy", "copied"} =>
        /\ s.moving = <<[name |-> s.moving[1].name, content |-> s.moving[1].content]>>
        /\ s.dir # indexBin /\ s.moving[1].name \in s.left
        /\ s.moving[1].content = segments[indexBin][s.moving[1].name]
  <2> SUFFICES ASSUME s.pc \in {"copy", "copied"}
               PROVE  /\ s.moving = <<[name |-> s.moving[1].name, content |-> s.moving[1].content]>>
                      /\ s.dir # indexBin /\ s.moving[1].name \in s.left
                      /\ s.moving[1].content = segments[indexBin][s.moving[1].name]
    OBVIOUS
  <2>1. Len(s.moving) = 1 /\ s.moving \in Seq([name : Names, content : Contents])
    BY DEF ControlInv, TypeInv, TypeOK, HandlerState
  <2>2. s.moving = <<s.moving[1]>> /\ s.moving[1] \in [name : Names, content : Contents]
    BY <2>1, Single
  <2>3. Listed(h)
    BY DEF ControlInv, Listing
  <2>. QED
    BY <2>2, <2>3 DEF Listed
<1>3. ASSUME NEW state, handler' = [handler EXCEPT ![h] = state]
      PROVE  handler'[h] = state
  BY <1>3 DEF ControlInv, TypeInv, TypeOK
<1> HIDE DEF s
<1>4. ASSUME NEW n \in Names, MoveSegment(h, n)
      PROVE  UNCHANGED <<stopWorker, worker, configFile>> /\ Migrates(h)
  <2>1. /\ n \in s.left /\ UNCHANGED <<stopWorker, worker, indexBin, configFile, faults>>
        /\ handler'[h] = [s EXCEPT !.left = @ \ {n}] /\ s.pc = "move"
        /\ segments' = IF s.dir = indexBin THEN segments
                       ELSE [segments EXCEPT ![s.dir] = Put(@, n, segments[indexBin][n]),
                                             ![indexBin] = Without(@, n)]
    BY <1>1, <1>4 DEF MoveSegment, Entry, At, s, ControlInv, TypeInv, TypeOK
  <2>2. /\ handler'[h].pc = "move" /\ handler'[h].left = s.left \ {n}
        /\ handler'[h].old = s.old /\ handler'[h].dir = s.dir /\ handler'[h].files = s.files
    BY <1>1, <2>1 DEF HandlerState
  <2>. QED
    BY <2>1, <2>2 DEF Migrates, Passes, Shifts, Advances, s
<1>5. ASSUME NEW n \in Names, OpenCopy(h, n)
      PROVE  UNCHANGED <<stopWorker, worker, configFile>> /\ Migrates(h)
  <2>1. /\ n \in s.left /\ UNCHANGED <<stopWorker, worker, indexBin, configFile, faults>>
        /\ s.dir # indexBin
        /\ handler'[h] = [s EXCEPT !.pc = "copy",
                                   !.moving = <<[name |-> n, content |-> segments[indexBin][n]]>>]
        /\ SetSegment(s.dir, n, Unreadable)
    BY <1>1, <1>5 DEF OpenCopy, Entry, s, ControlInv, TypeInv, TypeOK
  <2>2. /\ handler'[h].pc = "copy" /\ handler'[h].left = s.left
        /\ handler'[h].moving = <<[name |-> n, content |-> segments[indexBin][n]]>>
        /\ handler'[h].old = s.old /\ handler'[h].dir = s.dir /\ handler'[h].files = s.files
    BY <1>1, <2>1 DEF HandlerState
  <2>. QED
    BY <2>1, <2>2 DEF Migrates, Copies, s
<1>6. CASE FinishCopy(h)
  <2>1. PICK n \in s.left : n = s.moving[1].name
    BY <1>2, <1>6 DEF FinishCopy, At, s
  <2>2. /\ UNCHANGED <<stopWorker, worker, indexBin, configFile, faults>>
        /\ s.dir # indexBin
        /\ handler'[h] = [s EXCEPT !.pc = "copied"]
        /\ s.moving = <<[name |-> n, content |-> segments[indexBin][n]]>>
        /\ SetSegment(s.dir, n, segments[indexBin][n])
    BY <1>1, <1>2, <1>6, <2>1 DEF FinishCopy, Goto, At, s, ControlInv, TypeInv, TypeOK
  <2>3. /\ handler'[h].pc = "copied" /\ handler'[h].left = s.left
        /\ handler'[h].moving = s.moving
        /\ handler'[h].old = s.old /\ handler'[h].dir = s.dir /\ handler'[h].files = s.files
    BY <1>1, <2>2 DEF HandlerState
  <2>. QED
    BY <2>1, <2>2, <2>3 DEF Migrates, Copies, s
<1>7. CASE RemoveOriginal(h)
  <2>1. PICK n \in s.left : n = s.moving[1].name
    BY <1>2, <1>7 DEF RemoveOriginal, At, s
  <2>2. /\ UNCHANGED <<stopWorker, worker, indexBin, configFile, faults>>
        /\ s.dir # indexBin /\ s.pc = "copied"
        /\ handler'[h] = [s EXCEPT !.pc = "move", !.left = @ \ {n}, !.moving = <<>>]
        /\ segments' = [segments EXCEPT ![indexBin] = Without(@, n)]
    BY <1>1, <1>2, <1>7, <2>1 DEF RemoveOriginal, At, s, ControlInv, TypeInv, TypeOK
  <2>3. /\ handler'[h].pc = "move" /\ handler'[h].left = s.left \ {n}
        /\ handler'[h].old = s.old /\ handler'[h].dir = s.dir /\ handler'[h].files = s.files
    BY <1>1, <2>2 DEF HandlerState
  <2>4. n \in DOMAIN segments[s.dir] /\ segments[s.dir][n] = segments[indexBin][n]
    BY <1>1, <1>2, <2>1, <2>2 DEF ControlInv, Listing, Listed, Moving, s
  <2>5. Put(segments[s.dir], n, segments[indexBin][n]) = segments[s.dir]
    BY <1>1, <2>4, PutAgain
  <2>6. segments' = [segments EXCEPT ![s.dir] = Put(@, n, segments[indexBin][n]),
                                     ![indexBin] = Without(@, n)]
    BY <1>1, <2>2, <2>5
  <2>. QED
    BY <2>1, <2>2, <2>3, <2>6 DEF Migrates, Shifts, Advances, s
<1>8. GoneSegments(h) = {}
  BY <1>1 DEF GoneSegments, s
<1>9. CASE ModifyFails(h)
  BY <1>3, <1>8, <1>9 DEF ModifyFails, Breaks, disk, ControlInv, TypeInv, TypeOK
<1>10. CASE SetIndexBin(h)
  <2>1. /\ UNCHANGED <<stopWorker, worker, configFile, segments, faults>>
        /\ s.left = {} /\ indexBin' = s.dir /\ handler'[h] = [s EXCEPT !.pc = "resume"]
    BY <1>10 DEF SetIndexBin, Goto, disk, s, ControlInv, TypeInv, TypeOK
  <2>2. handler'[h].pc = "resume" /\ handler'[h].files = s.files
    BY <1>1, <2>1 DEF HandlerState
  <2>. QED
    BY <2>1, <2>2 DEF Arrives, s
<1>11. ~SkipGoneSegment(h)
  BY <1>8 DEF SkipGoneSegment
<1>12. ~\E dir \in Dirs, files \in Batches \cup {<<>>} : BeginModify(h, dir, files)
  <2>1. Idle.pc = "idle"
    BY DEF Idle
  <2>. QED
    BY <1>1, <2>1 DEF BeginModify, Accepts, MovingPcs, s
<1>. QED
  BY <1>1, <1>4, <1>5, <1>6, <1>7, <1>9, <1>10, <1>11, <1>12
  DEF ModifyStep, JoinWorker, ClearStop, RestartWorker, OpenConfig, WriteConfig, SaveConfigFails,
      BuildFindsNoFiles, At, MovingPcs, s

(* A reconfiguration leaves the index and its jobs alone.                  *)
LEMMA ModifyLeaves ==
  ASSUME TypeInv, NEW h \in Handlers, ModifyStep(h)
  PROVE  /\ UNCHANGED <<ix, dirtyQueue, phase, toLoad, loadOk, crashes>>
         /\ \A g \in Handlers : g # h => handler'[g] = handler[g]
<1>1. UNCHANGED <<ix, dirtyQueue, phase, toLoad, loadOk, crashes>>
  BY DEF ModifyStep, BeginModify, JoinWorker, MoveSegment, OpenCopy, FinishCopy, RemoveOriginal,
         SkipGoneSegment, ModifyFails, SetIndexBin, ClearStop, RestartWorker, OpenConfig, WriteConfig,
         SaveConfigFails, BuildFindsNoFiles, ModifyUnchanged, HandlerUnchanged
<1>. QED
  BY <1>1, ModifyControl

(* Outside the migration it touches no segment.                            *)
LEMMA RestingSteps ==
  ASSUME TypeInv, NEW h \in Handlers, ~Moving(h), ModifyStep(h)
  PROVE  /\ UNCHANGED <<segments, indexBin>>
         /\ Begins(h) \/ Lists(h) \/ Clears(h) \/ Restarts(h) \/ Saves(h)
<1> DEFINE s == handler[h]
<1>1. s \in HandlerState
  BY DEF TypeInv, TypeOK
<1>2. ASSUME NEW state, handler' = [handler EXCEPT ![h] = state]
      PROVE  handler'[h] = state
  BY <1>2 DEF TypeInv, TypeOK
<1>3. Idle.pc = "idle"
  BY DEF Idle
<1>4. ASSUME NEW dir \in Dirs, NEW files \in Batches \cup {<<>>}, BeginModify(h, dir, files)
      PROVE  UNCHANGED <<segments, indexBin>> /\ Begins(h)
  <2>1. handler'[h] = [Idle EXCEPT !.pc = "join", !.dir = dir, !.files = files]
    BY <1>2, <1>4 DEF BeginModify
  <2>2. handler'[h].pc = "join" /\ handler'[h].files = files
    BY <2>1 DEF Idle
  <2>. QED
    BY <1>3, <1>4, <2>2, DocumentsAssumption DEF BeginModify, Accepts, Begins, disk
<1>5. CASE JoinWorker(h)
  <2>1. handler'[h] = [s EXCEPT !.pc = "move", !.old = indexBin, !.left = DOMAIN segments[indexBin]]
    BY <1>5 DEF JoinWorker, ListSegments, TypeInv, TypeOK
  <2> HIDE DEF s
  <2>2. /\ handler'[h].pc = "move" /\ handler'[h].old = indexBin
        /\ handler'[h].left = DOMAIN segments[indexBin]
        /\ handler'[h].dir = s.dir /\ handler'[h].files = s.files
    BY <1>1, <2>1 DEF HandlerState
  <2>. QED
    BY <1>5, <2>2 DEF JoinWorker, At, Lists, disk, s
<1>6. CASE RestartWorker(h)
  <2>1. handler'[h] = AfterRestart(s.files)
    BY <1>6 DEF RestartWorker, TypeInv, TypeOK
  <2>2. handler'[h].pc = IF s.files = <<>> THEN "idle" ELSE "saveConfig"
    BY <2>1 DEF AfterRestart, Idle
  <2>. QED
    BY <1>6, <2>2 DEF RestartWorker, At, Restarts, disk
<1>7. ASSUME NEW pc \in HandlerPcs, Goto(h, pc)
      PROVE  handler'[h].pc = pc
  <2>1. handler'[h] = [s EXCEPT !.pc = pc]
    BY <1>7 DEF Goto, TypeInv, TypeOK
  <2> HIDE DEF s
  <2>. QED
    BY <1>1, <2>1 DEF HandlerState
<1>9. CASE ClearStop(h)
  <2>1. handler'[h] = [s EXCEPT !.pc = "restart"]
    BY <1>9 DEF ClearStop, Goto, TypeInv, TypeOK
  <2> HIDE DEF s
  <2>2. handler'[h].pc = "restart" /\ handler'[h].files = s.files
    BY <1>1, <2>1 DEF HandlerState
  <2>. QED
    BY <1>9, <2>2 DEF ClearStop, At, Clears, disk, s
<1>8. CASE OpenConfig(h) \/ WriteConfig(h) \/ SaveConfigFails(h) \/ BuildFindsNoFiles(h)
  <2>1. CASE OpenConfig(h)
    BY <1>7, <2>1 DEF OpenConfig, HandlerPcs, At, Saves
  <2>2. CASE WriteConfig(h)
    BY <1>7, <2>2 DEF WriteConfig, HandlerPcs, At, Saves
  <2>3. CASE SaveConfigFails(h)
    BY <1>7, <2>3 DEF SaveConfigFails, HandlerPcs, Saves, disk, TypeInv, TypeOK
  <2>4. CASE BuildFindsNoFiles(h)
    BY <1>2, <1>3, <2>4 DEF BuildFindsNoFiles, At, Saves, disk
  <2>. QED
    BY <1>8, <2>1, <2>2, <2>3, <2>4
<1>. QED
  BY <1>4, <1>5, <1>6, <1>8, <1>9
  DEF ModifyStep, MoveSegment, OpenCopy, Entry, FinishCopy, RemoveOriginal, SkipGoneSegment,
      ModifyFails, SetIndexBin, At, MovingPcs, Moving

(* An indexing or a search leaves the segments and the paths alone, and    *)
(* takes no file from the index.                                           *)
LEMMA RequestLeaves ==
  ASSUME OneMover, ControlInv, NEW h \in Handlers, RequestStep(h)
  PROVE  /\ UNCHANGED <<segments, indexBin, configFile, stopWorker, worker, phase, toLoad, loadOk,
                        crashes, faults>>
         /\ DOMAIN ix.fileToTerms \subseteq DOMAIN ix'.fileToTerms
         /\ \A g \in Handlers : g # h => handler'[g] = handler[g]
         /\ handler[h].pc \in {"idle", "merge", "search", "build"}
         /\ handler'[h].pc \in {"idle", "merge", "search"}
         /\ handler[h].pc = "idle" => phase = "serving"
<1>1. \/ \E batch \in Batches : LockForIndex(h, batch)
      \/ \E text \in Texts : MergeFile(h, text)
      \/ FinishIndex(h) \/ BeginSearch(h) \/ EndSearch(h)
  BY DEF RequestStep, LockForDelete, DeleteSegment, DeleteSegmentFails, EndDelete, Accepts, OneMover,
         ControlInv, Mover
<1>2. Idle.pc = "idle"
  BY DEF Idle
<1>3. /\ UNCHANGED <<segments, indexBin, configFile, stopWorker, worker, phase, toLoad, loadOk,
                     crashes, faults>>
      /\ handler[h].pc \in {"idle", "merge", "search", "build"}
      /\ handler[h].pc = "idle" => phase = "serving"
  BY <1>1, <1>2 DEF LockForIndex, MergeFile, FinishIndex, BeginSearch, EndSearch, Accepts,
                    HandlerUnchanged, disk
<1>4. DOMAIN ix.fileToTerms \subseteq DOMAIN ix'.fileToTerms
  <2>1. ASSUME NEW text \in Texts, MergeFile(h, text)
        PROVE  DOMAIN ix.fileToTerms \subseteq DOMAIN ix'.fileToTerms
    <3> DEFINE f == handler[h].files[handler[h].merged + 1]
    <3>1. handler[h].files \in Seq(Files) /\ handler[h].merged \in Nat /\ IsIndex(ix)
      BY DEF ControlInv, TypeInv, TypeOK, HandlerState
    <3>2. f \in Files /\ ix' = BuildIndex(ix, f, text)
      BY <2>1, <3>1 DEF MergeFile
    <3> HIDE DEF f
    <3>3. text \in Seq(Terms)
      BY DocumentsAssumption
    <3>. QED
      BY <3>1, <3>2, <3>3, BuildSound
  <2>. QED
    BY <1>1, <2>1 DEF LockForIndex, FinishIndex, BeginSearch, EndSearch
<1>5. /\ \A g \in Handlers : g # h => handler'[g] = handler[g]
      /\ handler'[h].pc \in {"idle", "merge", "unlink", "search"}
  BY RequestControl DEF ControlInv
<1>6. handler'[h].pc # "unlink"
  <2>1. ASSUME NEW batch \in Batches, LockForIndex(h, batch)
        PROVE  handler'[h].pc # "unlink"
    <3>1. handler'[h] = [Idle EXCEPT !.pc = "merge", !.files = batch]
      BY <2>1 DEF LockForIndex, ControlInv, TypeInv, TypeOK
    <3>. QED
      BY <3>1 DEF Idle
  <2>2. ASSUME NEW text \in Texts, MergeFile(h, text)
        PROVE  handler'[h].pc # "unlink"
    BY <2>2 DEF MergeFile, ControlInv, TypeInv, TypeOK, HandlerState
  <2>3. CASE FinishIndex(h) \/ EndSearch(h)
    BY <1>2, <2>3 DEF FinishIndex, EndSearch, ControlInv, TypeInv, TypeOK
  <2>4. CASE BeginSearch(h)
    <3>1. handler'[h] = [Idle EXCEPT !.pc = "search"]
      BY <2>4 DEF BeginSearch, ControlInv, TypeInv, TypeOK
    <3>. QED
      BY <3>1 DEF Idle
  <2>. QED
    BY <1>1, <2>1, <2>2, <2>3, <2>4
<1>. QED
  BY <1>3, <1>4, <1>5, <1>6

(* The worker works while nobody migrates, and writes, if anything, a      *)
(* segment of an indexed file in the current directory.                    *)
LEMMA WorkerLeaves ==
  ASSUME ControlInv, WorkerStep
  PROVE  /\ UNCHANGED <<ix, handler, indexBin, configFile, stopWorker, phase, toLoad, loadOk, crashes>>
         /\ faults' = 0 => faults = 0
         /\ \A h \in Handlers : handler[h].pc \notin StoppedPcs
         /\ worker'.pc # "none"
         /\ worker'.pc = "exited" => stopWorker /\ dirtyQueue' = <<>>
         /\ OpenSegment \/ WriteSegment \/ segments' = segments
<1> USE DEF WorkerUnchanged, WorkerUnlock
<1>1. /\ UNCHANGED <<ix, handler, indexBin, configFile, stopWorker, phase, toLoad, loadOk, crashes>>
      /\ faults' = 0 => faults = 0
      /\ OpenSegment \/ WriteSegment \/ segments' = segments
  BY DEF WorkerStep, WorkerPop, WorkerExit, WorkerReadPath, WorkerSkipStale, WorkerLock,
         OpenSegment, OpenSegmentFails, WriteSegment, WriteSegmentFails, ControlInv, TypeInv, TypeOK
<1>2. worker.pc # "none"
  BY DEF WorkerStep, WorkerPop, WorkerExit, WorkerReadPath, WorkerSkipStale, WorkerLock,
         OpenSegment, OpenSegmentFails, WriteSegment, WriteSegmentFails
<1>3. worker = [pc |-> worker.pc, job |-> worker.job, bin |-> worker.bin]
  BY DEF ControlInv, TypeInv, TypeOK, WorkerState
<1>4. CASE WorkerExit
  BY <1>1, <1>2, <1>4 DEF WorkerExit, WorkerAt, ControlInv, Mover
<1>5. ASSUME ~WorkerExit
      PROVE  worker'.pc \in {"path", "lock", "open", "write", "wait"}
  <2>1. CASE WorkerPop \/ WorkerReadPath \/ WorkerLock \/ OpenSegment
    BY <1>3, <2>1 DEF WorkerPop, WorkerReadPath, WorkerLock, OpenSegment
  <2>2. CASE WorkerSkipStale \/ OpenSegmentFails \/ WriteSegment \/ WriteSegmentFails
    BY <2>2 DEF WorkerSkipStale, OpenSegmentFails, WriteSegment, WriteSegmentFails, WorkerAt
  <2>. QED
    BY <1>5, <2>1, <2>2 DEF WorkerStep
<1>. QED
  BY <1>1, <1>2, <1>4, <1>5 DEF ControlInv, Mover

-----------------------------------------------------------------------------
(* Who does what, and what is listed.                                      *)

(* One migration at a time.                                                *)
LEMMA OneMoving ==
  ASSUME OneMover, Mover, NEW g \in Handlers, NEW h \in Handlers,
         handler[g].pc \in ModifyPcs, h \in Movers
  PROVE  g = h
BY DEF OneMover, Mover

(* A listing stands while the segments do.                                 *)
LEMMA ListingStands ==
  ASSUME Listing, NEW h \in Handlers, Moving(h), handler'[h] = handler[h],
         segments' = segments, indexBin' = indexBin
  PROVE  Listed(h)'
BY DEF Listing, Listed

(* A process starts and ends with nobody reconfiguring.                    *)
LEMMA ProcessControl ==
  ASSUME ControlInv, ProcessStep
  PROVE  (Mover /\ WorkerHome /\ Listing)'
<1>1. Idle.pc = "idle"
  BY DEF Idle
<1>2. ASSUME ProcessEnds
      PROVE  (Mover /\ WorkerHome /\ Listing)'
  BY <1>1, <1>2 DEF ProcessEnds, WorkerAt, Mover, WorkerHome, Listing, Moving, MovingPcs, StoppedPcs,
                    ModifyPcs
<1>3. ASSUME \A h \in Handlers : handler'[h] = Idle, worker'.pc \in {"none", "wait"}
      PROVE  (Mover /\ WorkerHome /\ Listing)'
  BY <1>1, <1>3 DEF Mover, WorkerHome, Listing, Moving, MovingPcs, StoppedPcs, ModifyPcs
<1>4. CASE LoadConfig \/ LoadConfigFails \/ (\E d \in Dirs, n \in Names : LoadSegment(d, n)) \/ LoadAborts \/ StartWorker
  <2>1. phase \in {"down", "loading"} /\ handler' = handler /\ worker' \in {worker, WorkerAt("wait")}
    BY <1>4 DEF LoadConfig, LoadConfigFails, LoadSegment, LoadAborts, StartWorker
  <2>2. worker.pc = "none" /\ \A h \in Handlers : handler[h] = Idle
    BY <2>1 DEF ControlInv, TypeInv, Locking
  <2>. QED
    BY <1>3, <2>1, <2>2 DEF WorkerAt
<1>5. CASE BeginShutdown
  BY <1>3, <1>5 DEF BeginShutdown, ControlInv, Mover, WorkerHome, Listing, Moving, Listed, disk
<1>. QED
  BY <1>2, <1>4, <1>5 DEF ProcessStep, FinishShutdown, Crash

(* The worker reads the directory anew for every job, and nobody changes   *)
(* it while the worker is there.                                           *)
LEMMA WorkerControl ==
  ASSUME ControlInv, WorkerStep
  PROVE  (Mover /\ WorkerHome /\ Listing)'
<1>1. /\ UNCHANGED <<handler, indexBin>>
      /\ \A h \in Handlers : handler[h].pc \notin StoppedPcs
  BY WorkerLeaves
<1>2. Mover' /\ Listing'
  BY <1>1 DEF ControlInv, Mover, Listing, Moving, StoppedPcs
<1>3. worker = [pc |-> worker.pc, job |-> worker.job, bin |-> worker.bin]
  BY DEF ControlInv, TypeInv, TypeOK, WorkerState
<1>4. WorkerHome'
  <2>1. CASE WorkerReadPath
    BY <1>1, <1>3, <2>1 DEF WorkerReadPath, WorkerHome
  <2>2. CASE WorkerPop \/ WorkerLock \/ OpenSegment
    BY <1>1, <1>3, <2>2 DEF WorkerPop, WorkerLock, OpenSegment, WorkerHome, ControlInv
  <2>3. CASE WorkerExit \/ WorkerSkipStale \/ OpenSegmentFails \/ WriteSegment \/ WriteSegmentFails
    BY <2>3 DEF WorkerExit, WorkerSkipStale, OpenSegmentFails, WriteSegment, WriteSegmentFails,
                WorkerUnlock, WorkerAt, WorkerHome
  <2>. QED
    BY <2>1, <2>2, <2>3 DEF WorkerStep
<1>. QED
  BY <1>2, <1>4

(* An indexing or a search is not the migration.                           *)
LEMMA RequestMover ==
  ASSUME OneMover, ControlInv, NEW h \in Handlers, RequestStep(h)
  PROVE  (Mover /\ WorkerHome /\ Listing)'
<1>1. /\ UNCHANGED <<segments, indexBin, worker>>
      /\ \A g \in Handlers : g # h => handler'[g] = handler[g]
      /\ handler'[h].pc \in {"idle", "merge", "search"}
  BY RequestLeaves
<1>2. Mover' /\ WorkerHome'
  BY <1>1 DEF ControlInv, Mover, WorkerHome, Moving, MovingPcs, StoppedPcs, ModifyPcs
<1>3. ASSUME NEW g \in Handlers, Moving(g)'
      PROVE  Listed(g)'
  <2>1. handler'[g] = handler[g] /\ Moving(g)
    BY <1>1, <1>3 DEF Moving, MovingPcs
  <2>. QED
    BY <1>1, <2>1, ListingStands DEF ControlInv
<1>. QED
  BY <1>2, <1>3 DEF Listing

(* A name that has moved is in the new directory and no longer in the old. *)
LEMMA ShiftedSegments ==
  ASSUME TypeOK, NEW h \in Handlers, NEW n, Shifts(h, n)
  PROVE  /\ segments'[indexBin] = Without(segments[indexBin], n)
         /\ segments'[handler[h].dir] = Put(segments[handler[h].dir], n, segments[indexBin][n])
         /\ \A d \in Dirs \ {indexBin, handler[h].dir} : segments'[d] = segments[d]
<1>1. handler[h].dir \in Dirs /\ indexBin \in Dirs /\ DOMAIN segments = Dirs
  BY DEF TypeOK, HandlerState
<1>. QED
  BY <1>1 DEF Shifts, TypeOK

(* A name that is being copied has come to the new directory.              *)
LEMMA CopiedSegments ==
  ASSUME TypeOK, NEW h \in Handlers, NEW n, Copies(h, n)
  PROVE  \E content \in {Unreadable, segments[indexBin][n]} :
           /\ segments'[handler[h].dir] = Put(segments[handler[h].dir], n, content)
           /\ \A d \in Dirs \ {handler[h].dir} : segments'[d] = segments[d]
           /\ handler'[h].pc = "copied" => content = segments[indexBin][n]
<1>1. handler[h].dir \in Dirs /\ indexBin \in Dirs /\ DOMAIN segments = Dirs
  BY DEF TypeOK, HandlerState
<1>. QED
  BY <1>1 DEF Copies, SetSegment, TypeOK

(* The migration keeps its books.                                          *)
LEMMA ModifyKeepsBooks ==
  ASSUME OneMover, ControlInv, NEW h \in Handlers, ModifyStep(h)
  PROVE  (Mover /\ WorkerHome /\ Listing)'
<1> USE DEF ControlInv, MovingPcs, StoppedPcs, ModifyPcs
<1>1. \A g \in Handlers : g # h => handler'[g] = handler[g]
  BY ModifyLeaves
<1>2. Idle.pc = "idle"
  BY DEF Idle
<1>3. CASE ~Moving(h)
  <2>1. UNCHANGED <<segments, indexBin>> /\ (Begins(h) \/ Lists(h) \/ Clears(h) \/ Restarts(h) \/ Saves(h))
    BY <1>3, RestingSteps
  <2>2. h \in Movers
    BY <2>1 DEF Begins, Lists, Clears, Restarts, Saves, Mover
  <2>3. \A g \in Handlers : handler[g].pc \in ModifyPcs => g = h
    BY <2>2, OneMoving
  <2>4. Mover' /\ WorkerHome'
    BY <1>1, <2>1, <2>2, <2>3 DEF Begins, Lists, Clears, Restarts, Saves, Mover, WorkerHome, Moving, WorkerAt
  <2>5. Lists(h) => Listed(h)'
    BY <2>1 DEF Lists, Listed
  <2>6. Moving(h)' => Lists(h)
    BY <2>1 DEF Begins, Clears, Restarts, Saves, Moving
  <2>7. ASSUME NEW g \in Handlers, Moving(g)'
        PROVE  g = h
    BY <1>1, <2>3, <2>7 DEF Moving
  <2>. QED
    BY <2>4, <2>5, <2>6, <2>7 DEF Listing
<1>4. CASE Moving(h)
  <2>1. worker' = worker /\ (Migrates(h) \/ Arrives(h) \/ Breaks(h))
    BY <1>4, MovingSteps
  <2>2. h \in Movers /\ worker.pc = "none"
    BY <1>4 DEF Moving, Mover
  <2>3. \A g \in Handlers : handler[g].pc \in ModifyPcs => g = h
    BY <2>2, OneMoving
  <2>4. /\ handler'[h].pc \in {"move", "copy", "copied", "resume", "idle"}
        /\ Moving(h)' => Migrates(h)
    BY <1>2, <2>1 DEF Migrates, Passes, Shifts, Copies, Advances, Arrives, Breaks, Moving
  <2>5. Moving(h)' => handler'[h].old = indexBin'
    BY <1>4, <2>4 DEF Migrates, Mover
  <2>6. Mover' /\ WorkerHome'
    BY <1>1, <2>1, <2>2, <2>3, <2>4, <2>5 DEF Mover, WorkerHome, Moving
  <2>7. ASSUME NEW g \in Handlers, Moving(g)'
        PROVE  g = h
    BY <1>1, <2>3, <2>7 DEF Moving
  <2>8. /\ handler[h].left \subseteq DOMAIN segments[indexBin]
        /\ handler[h].dir # indexBin => DOMAIN segments[indexBin] \subseteq handler[h].left
        /\ TypeOK /\ indexBin \in Dirs /\ handler[h].dir \in Dirs
    BY <1>4 DEF Listing, Listed, TypeInv, TypeOK, HandlerState
  <2>9. ASSUME Migrates(h), NEW n \in handler[h].left, Passes(h, n)
        PROVE  Listed(h)'
    BY <2>8, <2>9 DEF Migrates, Passes, Advances, Listed
  <2>10. ASSUME Migrates(h), NEW n \in handler[h].left, Shifts(h, n)
         PROVE  Listed(h)'
    <3>1. DOMAIN segments'[indexBin] = DOMAIN segments[indexBin] \ {n}
      BY <2>8, <2>10, ShiftedSegments DEF Without, Restrict
    <3>. QED
      BY <2>8, <2>10, <3>1 DEF Migrates, Shifts, Advances, Listed
  <2>11. ASSUME Migrates(h), NEW n \in handler[h].left, Copies(h, n)
         PROVE  Listed(h)'
    <3>1. PICK content :
            /\ segments'[handler[h].dir] = Put(segments[handler[h].dir], n, content)
            /\ \A d \in Dirs \ {handler[h].dir} : segments'[d] = segments[d]
            /\ handler'[h].pc = "copied" => content = segments[indexBin][n]
      BY <2>8, <2>11, CopiedSegments
    <3>2. /\ n \in DOMAIN segments'[handler[h].dir]
          /\ handler'[h].pc = "copied" => segments'[handler[h].dir][n] = segments[indexBin][n]
      BY <3>1 DEF Put
    <3>3. segments'[indexBin] = segments[indexBin]
      BY <2>8, <2>11, <3>1 DEF Copies
    <3>4. handler'[h].moving[1].name = n /\ handler'[h].moving[1].content = segments[indexBin][n]
      BY <2>11 DEF Copies
    <3>. QED
      BY <2>8, <2>11, <3>2, <3>3, <3>4 DEF Migrates, Copies, Listed
  <2>. QED
    BY <2>4, <2>6, <2>7, <2>9, <2>10, <2>11 DEF Listing, Migrates
<1>. QED
  BY <1>3, <1>4

(* In every reachable state.                                               *)
THEOREM ControlInvariance ==
  ASSUME OneMover
  PROVE  Spec => []ControlInv
<1>1. Init => Mover /\ WorkerHome /\ Listing
  <2>1. Idle.pc = "idle"
    BY DEF Idle
  <2>. QED
    BY <2>1 DEF Init, WorkerAt, Mover, WorkerHome, Listing, Moving, MovingPcs, StoppedPcs, ModifyPcs
<1>2. ControlInv /\ [Next]_vars => (Mover /\ WorkerHome /\ Listing)'
  <2> SUFFICES ASSUME ControlInv, [Next]_vars
               PROVE  (Mover /\ WorkerHome /\ Listing)'
    OBVIOUS
  <2>1. CASE UNCHANGED vars
    BY <2>1 DEF vars, memory, disk, ControlInv, Mover, WorkerHome, Listing, Listed, Moving
  <2>. QED
    BY <2>1, ProcessControl, WorkerControl, RequestMover, ModifyKeepsBooks DEF Next
<1>3. Spec => [](TypeInv /\ DataInv)
  BY DataInvariance DEF OneMover
<1>. QED
  BY <1>1, <1>2, <1>3, PTL DEF Spec, ControlInv

-----------------------------------------------------------------------------
(* Nothing forgotten.                                                      *)

Moved(h, n) == Moving(h) /\ n \notin handler[h].left

HeldIn(d, f) == BinName[f] \in DOMAIN segments[d] /\ segments[d][BinName[f]] = Save(ix, f)

(* Persisted, in the one directory that counts: the new one for what has   *)
(* moved, the current one otherwise.                                       *)
Kept(f) ==
  \/ HeldIn(indexBin, f) /\ \A h \in Handlers : ~Moved(h, BinName[f])
  \/ \E h \in Handlers : Moved(h, BinName[f]) /\ HeldIn(handler[h].dir, f)

NoneLost == faults = 0 => \A f \in DOMAIN ix.fileToTerms : Pending(f) \/ Kept(f)

(* A file stays where it is while no segment changes and nobody moves.     *)
LEMMA StaysKept ==
  ASSUME NEW f, Kept(f), Save(ix', f) = Save(ix, f), UNCHANGED <<segments, indexBin>>,
         \A h \in Handlers : Moving(h) \/ Moving(h)' => handler'[h] = handler[h]
  PROVE  Kept(f)'
<1>1. \A h \in Handlers : Moved(h, BinName[f])' <=> Moved(h, BinName[f])
  BY DEF Moved, Moving
<1>2. HeldIn(indexBin, f) => HeldIn(indexBin, f)'
  BY DEF HeldIn
<1>3. ASSUME NEW h \in Handlers, Moved(h, BinName[f]), HeldIn(handler[h].dir, f)
      PROVE  HeldIn(handler[h].dir, f)'
  BY <1>3 DEF HeldIn, Moved
<1>. QED
  BY <1>1, <1>2, <1>3 DEF Kept

(* What is loaded is in the directory it was loaded from.                  *)
LEMMA ProcessLoses ==
  ASSUME OneMover, ControlInv, NoneLost, ProcessStep
  PROVE  NoneLost'
<1> USE DEF ControlInv
<1>1. ASSUME ProcessEnds
      PROVE  NoneLost'
  BY <1>1 DEF ProcessEnds, EmptyIndex, EmptyMap, NoneLost
<1>2. CASE LoadConfig \/ LoadConfigFails
  BY <1>2 DEF LoadConfig, LoadConfigFails, TypeInv, Locking, EmptyIndex, EmptyMap, NoneLost
<1>3. Idle.pc = "idle"
  BY DEF Idle
<1>4. ASSUME NEW d \in Dirs, NEW n \in Names, LoadSegment(d, n)
      PROVE  NoneLost'
  <2> DEFINE doc == segments[d][n]
  <2>1. /\ <<d, n>> \in toLoad /\ phase = "loading" /\ doc # Unreadable
        /\ ix' = MergePartialLoadIndexThreadWorkers(ix, PartialLoadIndexThreadWorkers(doc))
        /\ UNCHANGED <<dirtyQueue, worker, handler, segments, indexBin, faults>>
    BY <1>4 DEF LoadSegment, disk
  <2>2. d = indexBin /\ n \in DOMAIN segments[d] /\ ~FilePresent(ix, doc.filePath)
    BY <2>1 DEF DataInv, LoadInv
  <2>3. doc \in Segments /\ IsIndex(ix)
    BY <2>1, <2>2 DEF TypeInv, TypeOK, IsMap, Contents
  <2>4. Whole(doc) /\ CoherentIndex(ix) /\ BinName[doc.filePath] = n
    BY <2>1, <2>2 DEF DataInv, SegmentsSound, Coherent
  <2>5. segments'[indexBin'][n] = doc /\ n \in DOMAIN segments'[indexBin']
    BY <2>1, <2>2
  <2>6. \A h \in Handlers : ~Moving(h) /\ ~Moving(h)'
    BY <1>3, <2>1 DEF TypeInv, Locking, Moving, MovingPcs
  <2> HIDE DEF doc
  <2>7. /\ DOMAIN ix'.fileToTerms = DOMAIN ix.fileToTerms \cup {doc.filePath}
        /\ Save(ix', doc.filePath) = doc
        /\ \A g \in DOMAIN ix.fileToTerms : Save(ix', g) = Save(ix, g)
    BY <2>1, <2>2, <2>3, <2>4, LoadSound, LoadRestores
  <2>8. ASSUME NEW g, g = doc.filePath
        PROVE  Kept(g)'
    BY <2>4, <2>5, <2>6, <2>7, <2>8 DEF Kept, HeldIn, Moved
  <2>9. ASSUME NEW g \in DOMAIN ix.fileToTerms, Pending(g) \/ Kept(g)
        PROVE  (Pending(g) \/ Kept(g))'
    <3>1. GetFileGen(ix', g) = GetFileGen(ix, g)
      BY <2>7, SavedGeneration
    <3>2. Pending(g) => Pending(g)'
      BY <2>1, <3>1, StaysPending DEF At
    <3>3. Kept(g) => Kept(g)'
      BY <2>1, <2>6, <2>7, StaysKept
    <3>. QED
      BY <2>9, <3>2, <3>3
  <2>. QED
    BY <2>1, <2>7, <2>8, <2>9 DEF NoneLost
<1>5. CASE LoadAborts \/ StartWorker \/ BeginShutdown
  <2>1. UNCHANGED <<ix, segments, indexBin, faults, dirtyQueue, handler>>
    BY <1>5 DEF LoadAborts, StartWorker, BeginShutdown, disk
  <2>2. worker.job # <<>> => worker'.job = worker.job
    <3>1. CASE StartWorker
      BY <3>1 DEF StartWorker, TypeInv, TypeOK, Locking
    <3>. QED
      BY <1>5, <3>1 DEF LoadAborts, BeginShutdown
  <2>3. \A f : (Pending(f) => Pending(f)') /\ (Kept(f) => Kept(f)')
    BY <2>1, <2>2, StaysPending, StaysKept DEF At
  <2>. QED
    BY <2>1, <2>3 DEF NoneLost
<1>. QED
  BY <1>1, <1>2, <1>4, <1>5 DEF ProcessStep, FinishShutdown, Crash

(* The segment the worker makes, of a file of the index.                   *)
LEMMA WorkerSegment ==
  ASSUME OneMover, ControlInv, JobCurrent, OpenSegment \/ WriteSegment
  PROVE  \E g \in DOMAIN ix.fileToTerms :
           /\ worker.job = <<CurrentJob(g)>> /\ g \in Files
           /\ worker.bin = indexBin
           /\ OpenSegment => segments'[indexBin] = Put(segments[indexBin], BinName[g], Unreadable)
           /\ WriteSegment => segments'[indexBin] = Put(segments[indexBin], BinName[g], Save(ix, g))
           /\ \A d \in Dirs \ {indexBin} : segments'[d] = segments[d]
<1> USE DEF ControlInv
<1>1. worker.job = <<worker.job[1]>> /\ worker.job[1] \in DirtyJob
  BY DEF OpenSegment, WriteSegment, TypeInv, TypeOK, WorkerState
<1>2. PICK g \in Files : g = worker.job[1].file
  BY <1>1 DEF DirtyJob
<1>3. worker.job = <<CurrentJob(g)>> /\ g \in DOMAIN ix.fileToTerms
  BY <1>1, <1>2
  DEF OpenSegment, WriteSegment, JobCurrent, JobIsStale, CurrentJob, DirtyJob, TypeInv, JobIndexed,
      FilePresent
<1>4. worker.bin = indexBin /\ indexBin \in Dirs /\ DOMAIN segments = Dirs
  BY DEF OpenSegment, WriteSegment, WorkerHome, TypeInv, TypeOK
<1>5. OpenSegment => SetSegment(indexBin, BinName[g], Unreadable)
  BY <1>2, <1>4 DEF OpenSegment
<1>6. WriteSegment => SetSegment(indexBin, BinName[g], Save(ix, g))
  BY <1>2, <1>3, <1>4 DEF WriteSegment, FilePresent
<1>. QED
  BY <1>2, <1>3, <1>4, <1>5, <1>6 DEF SetSegment

(* A job goes from the queue to the worker to the current directory.       *)
LEMMA WorkerLoses ==
  ASSUME OneMover, ControlInv, JobCurrent, NoneLost, WorkerStep
  PROVE  NoneLost'
<1> USE DEF ControlInv
<1>1. /\ UNCHANGED <<ix, handler, indexBin>> /\ (faults' = 0 => faults = 0)
      /\ OpenSegment \/ WriteSegment \/ segments' = segments
      /\ \A h \in Handlers : ~Moving(h) /\ ~Moving(h)'
  BY WorkerLeaves DEF Moving, StoppedPcs
<1>2. SUFFICES ASSUME faults' = 0, NEW f \in DOMAIN ix.fileToTerms, Pending(f) \/ Kept(f)
               PROVE  Pending(f)' \/ Kept(f)'
  BY <1>1 DEF NoneLost
<1>0. ~(faults' = faults + 1)
  BY <1>2 DEF TypeInv, TypeOK
<1>3. CASE ~(OpenSegment \/ WriteSegment)
  BY <1>0, <1>1, <1>2, <1>3, WorkerJobs, StaysKept
<1>4. CASE OpenSegment \/ WriteSegment
  <2>1. PICK g \in DOMAIN ix.fileToTerms :
          /\ worker.job = <<CurrentJob(g)>> /\ g \in Files
          /\ OpenSegment => segments'[indexBin] = Put(segments[indexBin], BinName[g], Unreadable)
          /\ WriteSegment => segments'[indexBin] = Put(segments[indexBin], BinName[g], Save(ix, g))
    BY <1>4, WorkerSegment
  <2>2. worker.job[1].file = g
    BY <2>1 DEF CurrentJob
  <2>3. CASE f = g
    <3>1. OpenSegment => Pending(f)'
      <4>1. Pending(f) /\ (OpenSegment => ~WriteSegment)
        BY <2>1, <2>3 DEF Pending, OpenSegment, WriteSegment
      <4>. QED
        BY <1>0, <4>1, WorkerJobs
    <3>2. WriteSegment => Kept(f)'
      BY <1>1, <2>1, <2>3 DEF Put, Kept, HeldIn, Moved
    <3>. QED
      BY <1>4, <3>1, <3>2
  <2>4. CASE f # g
    <3>1. BinName[f] # BinName[g]
      BY <2>1, <2>4 DEF OneMover, OwnNames, TypeInv, TypeOK, IsIndex, IsMap
    <3>2. Kept(f) => Kept(f)'
      <4>1. Kept(f) => HeldIn(indexBin, f)
        BY <1>1 DEF Kept, Moved
      <4>2. HeldIn(indexBin, f) => HeldIn(indexBin, f)'
        BY <1>1, <1>4, <2>1, <3>1 DEF HeldIn, Put
      <4>. QED
        BY <1>1, <4>1, <4>2 DEF Kept, Moved
    <3>3. Pending(f) => Pending(f)'
      BY <1>0, <2>2, <2>4, WorkerJobs
    <3>. QED
      BY <1>2, <3>2, <3>3
  <2>. QED
    BY <2>3, <2>4
<1>. QED
  BY <1>3, <1>4

(* A batch keeps its files until their jobs are queued.                    *)
LEMMA RequestLoses ==
  ASSUME OneMover, ControlInv, NoneLost, NEW h \in Handlers, RequestStep(h)
  PROVE  NoneLost'
<1>1. /\ UNCHANGED <<segments, indexBin, faults>>
      /\ \A g \in Handlers : g # h => handler'[g] = handler[g]
      /\ ~Moving(h) /\ ~Moving(h)'
  BY RequestLeaves DEF Moving, MovingPcs
<1>2. ASSUME faults = 0, NEW f \in DOMAIN ix'.fileToTerms, ~Pending(f)'
      PROVE  Kept(f)'
  <2>1. f \in DOMAIN ix.fileToTerms /\ ~Pending(f) /\ Save(ix', f) = Save(ix, f)
    BY <1>2, RequestJobs DEF ControlInv
  <2>2. Kept(f)
    BY <1>2, <2>1 DEF NoneLost
  <2>. QED
    BY <1>1, <2>1, <2>2, StaysKept
<1>. QED
  BY <1>1, <1>2 DEF NoneLost

(* A reconfiguration takes no job from anybody.                            *)
LEMMA ModifyJobs ==
  ASSUME TypeInv, NEW h \in Handlers, ModifyStep(h), NEW f, Pending(f)
  PROVE  Pending(f)'
<1>1. /\ UNCHANGED <<ix, dirtyQueue>>
      /\ \A g \in Handlers : g # h => handler'[g] = handler[g]
  BY ModifyLeaves
<1>2. ~At(h, "merge")
  <2>1. Idle.pc = "idle"
    BY DEF Idle
  <2>. QED
    BY <2>1
    DEF ModifyStep, BeginModify, Accepts, JoinWorker, MoveSegment, OpenCopy, Entry, FinishCopy,
        RemoveOriginal, SkipGoneSegment, ModifyFails, SetIndexBin, ClearStop, RestartWorker, OpenConfig,
        WriteConfig, SaveConfigFails, BuildFindsNoFiles, At
<1>3. worker' = worker \/ worker.pc \in {"none", "exited"}
  BY DEF ModifyStep, BeginModify, JoinWorker, MoveSegment, OpenCopy, FinishCopy,
         RemoveOriginal, SkipGoneSegment, ModifyFails, SetIndexBin, ClearStop, RestartWorker, OpenConfig,
         WriteConfig, SaveConfigFails, BuildFindsNoFiles
<1>4. worker.job # <<>> => worker'.job = worker.job
  BY <1>3 DEF TypeInv, TypeOK
<1>. QED
  BY <1>1, <1>2, <1>4, StaysPending DEF At

(* Every entry is in the old directory until it is in the new one.         *)
LEMMA ModifyKeeps ==
  ASSUME OneMover, ControlInv, NEW h \in Handlers, ModifyStep(h), faults' = 0,
         NEW f, BinName[f] \in Names, Kept(f)
  PROVE  Kept(f)'
<1> USE DEF ControlInv
<1> DEFINE m == BinName[f]
<1>1. /\ ix' = ix
      /\ \A g \in Handlers : g # h => handler'[g] = handler[g]
  BY ModifyLeaves
<1>2. handler[h].pc \in ModifyPcs \/ Begins(h)
  BY RestingSteps DEF Lists, Clears, Restarts, Saves, Moving, ModifyPcs, StoppedPcs
<1>3. \A g \in Handlers : g # h => ~Moving(g) /\ ~Moving(g)'
  <2>1. h \in Movers
    BY <1>2 DEF Begins, Mover
  <2>2. \A g \in Handlers : g # h => ~Moving(g)
    BY <2>1, OneMoving DEF Moving, ModifyPcs, StoppedPcs
  <2>. QED
    BY <1>1, <2>2 DEF Moving
<1>4. CASE ~Moving(h)
  <2>1. UNCHANGED <<segments, indexBin>> /\ (Begins(h) \/ Lists(h) \/ Clears(h) \/ Restarts(h) \/ Saves(h))
    BY <1>4, RestingSteps
  <2>2. HeldIn(indexBin, f)
    BY <1>3, <1>4 DEF Kept, Moved
  <2>3. ~Moved(h, m)'
    BY <2>1, <2>2 DEF Begins, Lists, Clears, Restarts, Saves, Moved, Moving, MovingPcs, HeldIn
  <2>. QED
    BY <1>1, <1>3, <2>1, <2>2, <2>3 DEF Kept, Moved, HeldIn
<1>5. CASE Moving(h)
  <2>1. Migrates(h) \/ Arrives(h)
    BY <1>5, MovingSteps DEF Breaks
  <2>2. IF m \in handler[h].left THEN HeldIn(indexBin, f) ELSE HeldIn(handler[h].dir, f)
    BY <1>3, <1>5 DEF Kept, Moved
  <2>3. TypeOK /\ indexBin \in Dirs /\ handler[h].dir \in Dirs
    BY DEF TypeInv, TypeOK, HandlerState
  <2>4. CASE Arrives(h)
    <3>1. ~Moving(h)'
      BY <2>4 DEF Arrives, Moving, MovingPcs
    <3>2. HeldIn(indexBin, f)'
      BY <1>1, <2>2, <2>4 DEF Arrives, HeldIn
    <3>. QED
      BY <1>3, <3>1, <3>2 DEF Kept, Moved
  <2>5. CASE Migrates(h)
    <3>1. PICK n \in handler[h].left : Passes(h, n) \/ Shifts(h, n) \/ Copies(h, n)
      BY <2>5 DEF Migrates
    <3>2. Moving(h)' /\ indexBin' = indexBin /\ handler'[h].dir = handler[h].dir
      BY <2>5, <3>1 DEF Migrates, Passes, Shifts, Copies, Advances, Moving, MovingPcs
    <3>3. SUFFICES IF m \in handler'[h].left THEN HeldIn(indexBin, f)' ELSE HeldIn(handler[h].dir, f)'
      BY <1>3, <3>2 DEF Kept, Moved, HeldIn
    <3>4. CASE Passes(h, n)
      BY <1>1, <2>2, <3>2, <3>4 DEF Passes, Advances, HeldIn
    <3>5. CASE Shifts(h, n)
      <4>1. /\ segments'[indexBin] = Without(segments[indexBin], n)
            /\ segments'[handler[h].dir] = Put(segments[handler[h].dir], n, segments[indexBin][n])
            /\ handler'[h].left = handler[h].left \ {n}
        BY <2>3, <3>5, ShiftedSegments DEF Shifts, Advances
      <4>2. CASE m = n
        BY <1>1, <2>2, <3>1, <3>2, <4>1, <4>2 DEF HeldIn, Put
      <4>3. CASE m # n
        BY <1>1, <2>2, <3>2, <4>1, <4>3 DEF HeldIn, Put, Without, Restrict
      <4>. QED
        BY <4>2, <4>3
    <3>6. CASE Copies(h, n)
      <4>1. PICK content :
              /\ segments'[handler[h].dir] = Put(segments[handler[h].dir], n, content)
              /\ \A d \in Dirs \ {handler[h].dir} : segments'[d] = segments[d]
        BY <2>3, <3>6, CopiedSegments
      <4>2. handler'[h].left = handler[h].left /\ handler[h].dir # indexBin
        BY <3>6 DEF Copies
      <4>3. CASE m \in handler[h].left
        BY <1>1, <2>2, <2>3, <3>2, <4>1, <4>2, <4>3 DEF HeldIn
      <4>4. CASE m \notin handler[h].left
        BY <1>1, <2>2, <3>1, <3>2, <4>1, <4>2, <4>4 DEF HeldIn, Put
      <4>. QED
        BY <4>3, <4>4
    <3>. QED
      BY <3>1, <3>4, <3>5, <3>6
  <2>. QED
    BY <2>1, <2>4, <2>5
<1>. QED
  BY <1>4, <1>5

(* A disk that has failed has failed.                                      *)
LEMMA ModifyFaults ==
  ASSUME ControlInv, NEW h \in Handlers, ModifyStep(h), faults' = 0
  PROVE  faults = 0
<1>1. faults' = faults \/ faults' = faults + 1
  BY DEF ModifyStep, BeginModify, JoinWorker, MoveSegment, OpenCopy, FinishCopy, RemoveOriginal,
         SkipGoneSegment, ModifyFails, SetIndexBin, ClearStop, RestartWorker, OpenConfig, WriteConfig,
         SaveConfigFails, BuildFindsNoFiles
<1>. QED
  BY <1>1 DEF ControlInv, TypeInv, TypeOK

(* With a job or on disk, whatever the step.                               *)
LEMMA LosesNothing ==
  ASSUME OneMover, ControlInv, JobCurrent, NoneLost, [Next]_vars
  PROVE  (JobCurrent /\ NoneLost)'
<1> USE DEF ControlInv
<1>1. CASE UNCHANGED vars
  BY <1>1 DEF vars, memory, disk, JobCurrent, JobIsStale, NoneLost, Pending, CurrentJob, At, Kept, HeldIn,
              Moved, Moving
<1>2. CASE ProcessStep
  BY <1>2, ProcessCurrent, ProcessLoses
<1>3. CASE WorkerStep
  BY <1>3, WorkerCurrent, WorkerLoses
<1>4. ASSUME NEW h \in Handlers, RequestStep(h)
      PROVE  (JobCurrent /\ NoneLost)'
  BY <1>4, RequestCurrent, RequestLoses
<1>5. ASSUME NEW h \in Handlers, ModifyStep(h)
      PROVE  (JobCurrent /\ NoneLost)'
  <2>1. UNCHANGED ix
    BY <1>5, ModifyLeaves
  <2>2. worker'.pc \in {"open", "write"} => worker' = worker
    <3>1. worker' \in {worker, WorkerAt("none"), WorkerAt("wait")}
      BY <1>5, MovingSteps, RestingSteps DEF Begins, Lists, Clears, Restarts, Saves
    <3>. QED
      BY <3>1 DEF WorkerAt
  <2>3. JobCurrent'
    BY <2>1, <2>2, StaysCurrent
  <2>4. faults' = 0 => faults = 0
    BY <1>5, ModifyFaults
  <2>5. \A f \in DOMAIN ix.fileToTerms : BinName[f] \in Names
    BY BinNameAssumption DEF TypeInv, TypeOK, IsIndex, IsMap
  <2>. QED
    BY <1>5, <2>1, <2>3, <2>4, <2>5, ModifyJobs, ModifyKeeps DEF NoneLost
<1>. QED
  BY <1>1, <1>2, <1>3, <1>4, <1>5 DEF Next

(* In every reachable state.                                               *)
THEOREM KeptInvariance ==
  ASSUME OneMover
  PROVE  Spec => [](ControlInv /\ JobCurrent /\ NoneLost)
<1>1. Init => JobCurrent /\ NoneLost
  BY DEF Init, WorkerAt, JobCurrent, NoneLost, EmptyIndex, EmptyMap
<1>2. ControlInv /\ JobCurrent /\ NoneLost /\ [Next]_vars => (JobCurrent /\ NoneLost)'
  BY LosesNothing
<1>. QED
  BY <1>1, <1>2, ControlInvariance, PTL DEF Spec

(* However a migration, its copies, the requests and the worker interleave *)
(* and wherever the process crashes: as long as the disk works, an indexed *)
(* file has its current contents in a segment of the current or the new    *)
(* directory, or a job that will put them there (Engine.cpp:59-159).       *)
THEOREM MigrationPendingTheorem ==
  ASSUME OneMover
  PROVE  Spec => []PendingOrPersisted
<1>1. ControlInv /\ NoneLost => PendingOrPersisted
  <2> SUFFICES ASSUME ControlInv, NoneLost PROVE PendingOrPersisted
    OBVIOUS
  <2>1. indexBin \in Homes
    BY DirsAssumption DEF Homes, ControlInv, TypeInv, TypeOK
  <2>2. \A h \in Handlers : Moving(h) => handler[h].dir \in Homes
    BY DEF Homes, Migrating, Moving, MovingPcs
  <2>3. \A f : Kept(f) => Persisted(f)
    BY <2>1, <2>2 DEF Kept, Moved, HeldIn, Persisted
  <2>. QED
    BY <2>3 DEF NoneLost, PendingOrPersisted
<1>. QED
  BY <1>1, KeptInvariance, PTL

-----------------------------------------------------------------------------
(* The end of the queue, with a worker that stops and starts again.        *)

(* While the disk works, whoever stops the worker starts it again: a clean *)
(* shutdown finds one, and it has emptied the queue.                       *)
WorkerReturns ==
  /\ phase = "stopping" => \A h \in Handlers : handler[h] = Idle
  /\ phase \in {"down", "loading"} => ~stopWorker
  /\ worker.pc = "exited" => stopWorker
  /\ \A h \in Handlers : handler[h].pc = "restart" => ~stopWorker
  /\ faults = 0 =>
       /\ phase = "serving" /\ stopWorker =>
            \E h \in Handlers : handler[h].pc \in StoppedPcs \cup {"join"}
       /\ phase \in {"serving", "stopping"} /\ worker.pc = "none" =>
            \E h \in Handlers : handler[h].pc \in StoppedPcs
       /\ phase = "stopping" /\ worker.pc = "exited" => dirtyQueue = <<>>

(* Starting, loading, raising the flag.                                    *)
LEMMA ProcessReturns ==
  ASSUME ControlInv, WorkerReturns, ProcessStep
  PROVE  WorkerReturns'
<1> USE DEF WorkerReturns
<1>1. Idle.pc = "idle"
  BY DEF Idle
<1>2. ASSUME ProcessEnds
      PROVE  WorkerReturns'
  BY <1>2 DEF ProcessEnds, WorkerAt
<1>3. CASE LoadConfig \/ LoadConfigFails \/ (\E d \in Dirs, n \in Names : LoadSegment(d, n)) \/ LoadAborts
  <2>1. phase \in {"down", "loading"} /\ phase' = "loading" /\ UNCHANGED <<stopWorker, worker>>
    BY <1>3 DEF LoadConfig, LoadConfigFails, LoadSegment, LoadAborts
  <2>2. worker.pc = "none"
    BY <2>1 DEF ControlInv, TypeInv, Locking
  <2>. QED
    BY <2>1, <2>2
<1>4. CASE StartWorker
  BY <1>4 DEF StartWorker, WorkerAt
<1>5. CASE BeginShutdown
  <2>1. /\ phase = "serving" /\ phase' = "stopping" /\ stopWorker'
        /\ UNCHANGED <<worker, handler, dirtyQueue, faults>>
        /\ \A h \in Handlers : handler[h] = Idle
    BY <1>5 DEF BeginShutdown
  <2>2. faults = 0 => worker.pc \notin {"none", "exited"}
    BY <1>1, <2>1 DEF StoppedPcs, MovingPcs
  <2>. QED
    BY <1>1, <2>1, <2>2
<1>. QED
  BY <1>2, <1>3, <1>4, <1>5 DEF ProcessStep, FinishShutdown, Crash

(* A worker that exits found the flag raised and the queue empty.          *)
LEMMA WorkerReturnsStep ==
  ASSUME ControlInv, WorkerReturns, WorkerStep
  PROVE  WorkerReturns'
BY WorkerLeaves DEF WorkerReturns

(* Nobody is served once the flag is raised for good.                      *)
LEMMA ServedBeforeStopping ==
  ASSUME OneMover, ControlInv, WorkerReturns, NEW h \in Handlers, RequestStep(h) \/ ModifyStep(h)
  PROVE  phase = "serving"
<1>1. phase = "serving" \/ handler[h].pc # "idle"
  <2>1. CASE RequestStep(h)
    BY <2>1, RequestLeaves
  <2>2. CASE ModifyStep(h) /\ ~Moving(h)
    BY <2>2, RestingSteps DEF ControlInv, Begins, Lists, Clears, Restarts, Saves
  <2>. QED
    BY <2>1, <2>2 DEF Moving, MovingPcs
<1>2. Idle.pc = "idle"
  BY DEF Idle
<1>. QED
  BY <1>1, <1>2 DEF WorkerReturns, ControlInv, TypeInv, TypeOK, Locking

(* An indexing or a search stops no worker.                                *)
LEMMA RequestReturns ==
  ASSUME OneMover, ControlInv, WorkerReturns, NEW h \in Handlers, RequestStep(h)
  PROVE  WorkerReturns'
<1>1. /\ UNCHANGED <<stopWorker, worker, phase, faults>> /\ phase = "serving"
      /\ \A g \in Handlers : g # h => handler'[g] = handler[g]
      /\ handler[h].pc \notin StoppedPcs \cup {"join"} /\ handler'[h].pc # "restart"
  BY RequestLeaves, ServedBeforeStopping DEF StoppedPcs, MovingPcs
<1>. QED
  BY <1>1 DEF WorkerReturns

(* The reconfiguration that stopped the worker is still there, until it    *)
(* has started a new one and cleared the flag.                             *)
LEMMA ModifyReturns ==
  ASSUME OneMover, ControlInv, WorkerReturns, NEW h \in Handlers, ModifyStep(h)
  PROVE  WorkerReturns'
<1> USE DEF MovingPcs, StoppedPcs
<1>1. /\ phase = "serving" /\ phase' = phase
      /\ \A g \in Handlers : g # h => handler'[g] = handler[g]
  BY ModifyLeaves, ServedBeforeStopping DEF ControlInv
<1>2. CASE ~Moving(h)
  <2>1. Begins(h) \/ Lists(h) \/ Clears(h) \/ Restarts(h) \/ Saves(h)
    BY <1>2, RestingSteps DEF ControlInv
  <2>2. CASE Begins(h)
    <3>1. \A g \in Handlers : g # h => handler[g].pc # "restart"
      BY <2>2, OneMoving DEF Begins, ControlInv, Mover, ModifyPcs
    <3>. QED
      BY <1>1, <2>2, <3>1 DEF Begins, WorkerReturns
  <2>6. CASE Clears(h)
    <3>1. worker.pc = "none"
      BY <2>6 DEF Clears, ControlInv, Mover
    <3>. QED
      BY <1>1, <2>6, <3>1 DEF Clears, WorkerReturns
  <2>3. CASE Lists(h)
    BY <1>1, <2>3 DEF Lists, WorkerReturns, WorkerAt
  <2>4. CASE Restarts(h)
    BY <1>1, <2>4 DEF Restarts, WorkerReturns, WorkerAt
  <2>5. CASE Saves(h)
    <3>1. /\ UNCHANGED <<worker, stopWorker>> /\ (faults' = 0 => faults = 0)
          /\ handler[h].pc \in {"saveConfig", "writeConfig", "build"} /\ handler'[h].pc # "restart"
      BY <2>5, ModifyFaults DEF Saves
    <3>. QED
      BY <1>1, <3>1 DEF WorkerReturns
  <2>. QED
    BY <2>1, <2>2, <2>3, <2>4, <2>5, <2>6
<1>3. CASE Moving(h)
  <2>1. UNCHANGED <<stopWorker, worker>> /\ (Migrates(h) \/ Arrives(h) \/ Breaks(h))
    BY <1>3, MovingSteps
  <2>2. /\ faults' = 0 => faults = 0 /\ handler'[h].pc \in StoppedPcs
        /\ handler'[h].pc # "restart"
    <3>1. Idle.pc # "restart"
      BY DEF Idle
    <3>. QED
      BY <2>1, <3>1 DEF Migrates, Passes, Shifts, Copies, Advances, Arrives, Breaks
  <2>. QED
    BY <1>1, <2>1, <2>2 DEF WorkerReturns
<1>. QED
  BY <1>2, <1>3

-----------------------------------------------------------------------------
(* The directory a restart reads, and what is in the others.               *)

(* Every reconfiguration is part of a build, which saves the new path, and *)
(* nobody kills the process on the way.                                    *)
Uninterrupted == OneMover /\ "config" \notin Requests /\ MaxCrashes = 0

SavingPcs == {"resume", "restart", "saveConfig", "writeConfig"}

(* config.json names the current directory except while a build is about   *)
(* to write it.                                                            *)
ConfigKept ==
  faults = 0 =>
    /\ phase # "down" /\ (\A h \in Handlers : handler[h].pc \notin SavingPcs) =>
         ConfiguredDir = indexBin
    /\ \A h \in Handlers : handler[h].pc \in StoppedPcs \cup {"join"} => handler[h].files # <<>>

CurrentDir == IF phase = "down" THEN ConfiguredDir ELSE indexBin

(* All segments are in the current directory or on their way from it, and  *)
(* of what is still to move the new directory has at most a copy.          *)
Alone ==
  faults = 0 =>
    /\ \A d \in Dirs : DOMAIN segments[d] # {} =>
         d = CurrentDir \/ \E h \in Handlers : Moving(h) /\ d = handler[h].dir
    /\ \A h \in Handlers : Moving(h) /\ handler[h].dir # indexBin =>
         \A n \in handler[h].left \cap DOMAIN segments[handler[h].dir] :
           segments[handler[h].dir][n] \in {Unreadable, segments[indexBin][n]}

(* And all are of indexed files, or about to be loaded.                    *)
Known(n) ==
  \/ \E f \in DOMAIN ix.fileToTerms : BinName[f] = n
  \/ phase = "loading" /\ <<indexBin, n>> \in toLoad

AllKnown ==
  (phase # "down" /\ loadOk /\ faults = 0) => \A d \in Dirs : \A n \in DOMAIN segments[d] : Known(n)

TidyInv == ConfigKept /\ Alone /\ AllKnown

(* Nothing changes for the disk when nobody moves and no file leaves the   *)
(* index.                                                                  *)
LEMMA StaysTidy ==
  ASSUME TidyInv, UNCHANGED <<segments, configFile, indexBin, phase, toLoad, loadOk, faults>>,
         DOMAIN ix.fileToTerms \subseteq DOMAIN ix'.fileToTerms,
         \A h \in Handlers :
           handler'[h] = handler[h] \/ {handler[h].pc, handler'[h].pc} \cap (ModifyPcs \ {"build"}) = {}
  PROVE  TidyInv'
<1> USE DEF TidyInv, ModifyPcs, StoppedPcs, MovingPcs, SavingPcs
<1>1. ConfigKept'
  BY DEF ConfigKept, ConfiguredDir
<1>2. \A h \in Handlers : Moving(h) \/ Moving(h)' => handler'[h] = handler[h]
  BY DEF Moving
<1>3. CurrentDir' = CurrentDir /\ \A h \in Handlers : Moving(h)' <=> Moving(h)
  BY <1>2 DEF CurrentDir, ConfiguredDir, Moving
<1>4. Alone'
  BY <1>2, <1>3 DEF Alone
<1>5. AllKnown'
  BY DEF AllKnown, Known
<1>. QED
  BY <1>1, <1>4, <1>5

(* The process ends cleanly, reads the path back, and takes all it finds.  *)
LEMMA ProcessTidy ==
  ASSUME Uninterrupted, ControlInv, WorkerReturns, TidyInv, ProcessStep
  PROVE  TidyInv'
<1> USE DEF ControlInv
<1>1. Idle.pc \notin ModifyPcs
  BY DEF Idle, ModifyPcs, StoppedPcs, MovingPcs
<1>2. ~Crash
  BY DEF Crash, Uninterrupted, TypeInv, TypeOK
<1>3. CASE FinishShutdown
  <2>1. /\ phase = "stopping" /\ phase' = "down" /\ UNCHANGED <<segments, configFile, faults>>
        /\ \A h \in Handlers : handler[h] = Idle /\ handler'[h] = Idle
    BY <1>3 DEF FinishShutdown, ProcessEnds, WorkerReturns, disk
  <2>2. faults = 0 => CurrentDir' = CurrentDir
    BY <1>1, <2>1 DEF CurrentDir, ConfiguredDir, TidyInv, ConfigKept, SavingPcs, ModifyPcs, StoppedPcs
  <2>3. \A h \in Handlers : ~Moving(h) /\ ~Moving(h)' /\ handler'[h].pc \notin StoppedPcs \cup {"join"}
    BY <1>1, <2>1 DEF Moving, ModifyPcs, StoppedPcs
  <2>. QED
    BY <2>1, <2>2, <2>3 DEF TidyInv, ConfigKept, Alone, AllKnown
<1>4. ASSUME phase \in {"down", "loading"}, handler' = handler
      PROVE  \A h \in Handlers : handler'[h].pc \notin ModifyPcs /\ ~Moving(h) /\ ~Moving(h)'
  BY <1>1, <1>4 DEF TypeInv, Locking, Moving, ModifyPcs, StoppedPcs
<1>5. CASE LoadConfig
  <2>1. /\ phase = "down" /\ phase' = "loading" /\ UNCHANGED <<segments, configFile, faults, handler>>
        /\ indexBin' = ConfiguredDir /\ toLoad' = Scan(ConfiguredDir)
    BY <1>5 DEF LoadConfig, disk
  <2>2. ConfiguredDir' = ConfiguredDir /\ CurrentDir' = CurrentDir /\ CurrentDir = ConfiguredDir
    BY <2>1 DEF ConfiguredDir, CurrentDir
  <2>3. \A h \in Handlers : handler'[h].pc \notin ModifyPcs /\ ~Moving(h) /\ ~Moving(h)'
    BY <1>4, <2>1
  <2>4. ConfigKept' /\ Alone'
    BY <2>1, <2>2, <2>3 DEF TidyInv, ConfigKept, Alone, ModifyPcs, StoppedPcs
  <2>5. ConfiguredDir \in Dirs
    BY DirsAssumption DEF ConfiguredDir, TypeInv, TypeOK
  <2>6. \A n \in DOMAIN segments[ConfiguredDir] : <<ConfiguredDir, n>> \in toLoad'
    BY <2>1, <2>5 DEF Scan, Uninterrupted, OneMover, Flat
  <2>7. faults = 0 => \A d \in Dirs : DOMAIN segments[d] # {} => d = ConfiguredDir
    BY <2>2, <2>3 DEF TidyInv, Alone
  <2>8. AllKnown'
    BY <2>1, <2>6, <2>7 DEF AllKnown, Known
  <2>. QED
    BY <2>4, <2>8 DEF TidyInv
<1>11. CASE LoadConfigFails
  BY <1>11 DEF LoadConfigFails, TypeInv, TypeOK, TidyInv, ConfigKept, Alone, AllKnown
<1>6. ASSUME phase = "loading", phase' # "down",
             UNCHANGED <<segments, configFile, indexBin, faults, handler>>
      PROVE  ConfigKept' /\ Alone'
  <2>1. ConfiguredDir' = ConfiguredDir /\ CurrentDir' = CurrentDir
    BY <1>6 DEF ConfiguredDir, CurrentDir
  <2>. QED
    BY <1>6, <2>1 DEF TidyInv, ConfigKept, Alone, Moving
<1>7. ASSUME NEW d \in Dirs, NEW m \in Names, LoadSegment(d, m)
      PROVE  TidyInv'
  <2> DEFINE doc == segments[d][m]
  <2>1. /\ <<d, m>> \in toLoad /\ phase = "loading" /\ doc # Unreadable
        /\ ix' = MergePartialLoadIndexThreadWorkers(ix, PartialLoadIndexThreadWorkers(doc))
        /\ toLoad' = toLoad \ {<<d, m>>}
        /\ UNCHANGED <<phase, segments, configFile, indexBin, loadOk, faults, handler>>
    BY <1>7 DEF LoadSegment, disk
  <2>2. d = indexBin /\ m \in DOMAIN segments[d]
    BY <2>1 DEF DataInv, LoadInv
  <2>3. doc \in Segments /\ IsIndex(ix) /\ BinName[doc.filePath] = m
    BY <2>1, <2>2 DEF TypeInv, TypeOK, IsMap, Contents, DataInv, SegmentsSound
  <2> HIDE DEF doc
  <2>4. DOMAIN ix'.fileToTerms = DOMAIN ix.fileToTerms \cup {doc.filePath}
    BY <2>1, <2>3, LoadSound
  <2>5. \A n : Known(n) => Known(n)'
    BY <2>1, <2>2, <2>3, <2>4 DEF Known
  <2>6. AllKnown'
    BY <2>1, <2>5 DEF TidyInv, AllKnown
  <2>. QED
    BY <1>6, <2>1, <2>6 DEF TidyInv
<1>8. CASE LoadAborts
  BY <1>6, <1>8 DEF LoadAborts, TidyInv, AllKnown, disk
<1>9. CASE StartWorker
  <2>1. /\ phase = "loading" /\ phase' = "serving" /\ toLoad = {}
        /\ UNCHANGED <<ix, segments, configFile, indexBin, faults, handler, loadOk>>
    BY <1>9 DEF StartWorker, disk
  <2>2. AllKnown'
    BY <2>1 DEF TidyInv, AllKnown, Known
  <2>. QED
    BY <1>6, <2>1, <2>2 DEF TidyInv
<1>10. CASE BeginShutdown
  <2>1. /\ phase = "serving" /\ phase' = "stopping"
        /\ UNCHANGED <<ix, segments, configFile, indexBin, faults, handler, loadOk>>
    BY <1>10 DEF BeginShutdown, disk
  <2>2. ConfiguredDir' = ConfiguredDir /\ CurrentDir' = CurrentDir
    BY <2>1 DEF ConfiguredDir, CurrentDir
  <2>. QED
    BY <2>1, <2>2 DEF TidyInv, ConfigKept, Alone, AllKnown, Known, Moving
<1>. QED
  BY <1>2, <1>3, <1>5, <1>7, <1>8, <1>9, <1>10, <1>11 DEF ProcessStep

(* The worker writes in the current directory, of what is indexed.         *)
LEMMA WorkerTidy ==
  ASSUME Uninterrupted, ControlInv, JobCurrent, TidyInv, WorkerStep
  PROVE  TidyInv'
<1> USE DEF ControlInv
<1>1. /\ UNCHANGED <<ix, handler, indexBin, configFile, phase, toLoad, loadOk>>
      /\ faults' = 0 => faults = 0
      /\ \A h \in Handlers : ~Moving(h) /\ ~Moving(h)'
      /\ OpenSegment \/ WriteSegment \/ segments' = segments
  BY WorkerLeaves DEF Moving, StoppedPcs
<1>2. ConfigKept'
  BY <1>1 DEF TidyInv, ConfigKept, ConfiguredDir
<1>3. CASE segments' = segments
  BY <1>1, <1>2, <1>3 DEF TidyInv, Alone, AllKnown, Known, CurrentDir, ConfiguredDir
<1>4. CASE OpenSegment \/ WriteSegment
  <2>1. PICK g \in DOMAIN ix.fileToTerms :
          /\ OpenSegment => segments'[indexBin] = Put(segments[indexBin], BinName[g], Unreadable)
          /\ WriteSegment => segments'[indexBin] = Put(segments[indexBin], BinName[g], Save(ix, g))
          /\ \A d \in Dirs \ {indexBin} : segments'[d] = segments[d]
    BY <1>4, WorkerSegment DEF Uninterrupted
  <2>2. /\ DOMAIN segments'[indexBin] = DOMAIN segments[indexBin] \cup {BinName[g]}
        /\ \A d \in Dirs \ {indexBin} : segments'[d] = segments[d]
    BY <1>4, <2>1 DEF Put
  <2>3. phase # "down"
    BY <1>4 DEF OpenSegment, WriteSegment, TypeInv, Locking
  <2>4. Alone'
    BY <1>1, <2>2, <2>3 DEF TidyInv, Alone, CurrentDir
  <2>5. Known(BinName[g])' /\ \A n : Known(n) => Known(n)'
    BY <1>1 DEF Known
  <2>6. AllKnown'
    BY <1>1, <2>2, <2>5 DEF TidyInv, AllKnown
  <2>. QED
    BY <1>2, <2>4, <2>6 DEF TidyInv
<1>. QED
  BY <1>1, <1>3, <1>4

(* The requests add to the index at most.                                  *)
LEMMA RequestTidy ==
  ASSUME Uninterrupted, ControlInv, TidyInv, NEW h \in Handlers, RequestStep(h)
  PROVE  TidyInv'
<1>1. \A g \in Handlers :
        handler'[g] = handler[g] \/ {handler[g].pc, handler'[g].pc} \cap (ModifyPcs \ {"build"}) = {}
  BY RequestLeaves DEF Uninterrupted, ModifyPcs, StoppedPcs, MovingPcs
<1>. QED
  BY <1>1, RequestLeaves, StaysTidy DEF Uninterrupted

(* A migration keeps the segments together, and the build saves where they *)
(* are.                                                                    *)
LEMMA ModifyTidy ==
  ASSUME Uninterrupted, ControlInv, WorkerReturns, TidyInv, NEW h \in Handlers, ModifyStep(h)
  PROVE  TidyInv'
<1> USE DEF ControlInv, StoppedPcs, MovingPcs, SavingPcs
<1>1. /\ phase = "serving" /\ UNCHANGED <<ix, phase, toLoad, loadOk>>
      /\ \A g \in Handlers : g # h => handler'[g] = handler[g]
  BY ModifyLeaves, ServedBeforeStopping DEF Uninterrupted
<1>2. CurrentDir = indexBin /\ CurrentDir' = indexBin'
  BY <1>1 DEF CurrentDir
<1>3. faults' = 0 => faults = 0
  BY ModifyFaults
<1>4. h \in Movers
  <2>1. handler[h].pc \in ModifyPcs \/ Begins(h)
    BY RestingSteps DEF Lists, Clears, Restarts, Saves, Moving, ModifyPcs
  <2>. QED
    BY <2>1 DEF Begins, Mover
<1>5. \A g \in Handlers : g # h => handler[g].pc \notin ModifyPcs
  BY <1>4, OneMoving DEF Uninterrupted
<1>6. \A g \in Handlers : g # h => ~Moving(g) /\ ~Moving(g)'
  BY <1>1, <1>5 DEF Moving, ModifyPcs
<1>7. TypeOK /\ indexBin \in Dirs /\ handler[h].dir \in Dirs
  BY DEF TypeInv, TypeOK, HandlerState
<1>8. CASE ~Moving(h)
  <2>1. UNCHANGED <<segments, indexBin>> /\ (Begins(h) \/ Lists(h) \/ Clears(h) \/ Restarts(h) \/ Saves(h))
    BY <1>8, RestingSteps
  <2>2. AllKnown'
    BY <1>1, <1>3, <2>1 DEF TidyInv, AllKnown, Known
  <2>3. ASSUME faults' = 0, NEW d \in Dirs, DOMAIN segments[d] # {}
        PROVE  d = indexBin
    BY <1>2, <1>3, <1>6, <1>8, <2>3 DEF TidyInv, Alone
  <2>4. Alone'
    <3>1. Moving(h)' => handler'[h].dir = handler[h].dir
      BY <2>1 DEF Begins, Lists, Clears, Restarts, Saves, Moving
    <3>. QED
      BY <1>2, <1>6, <1>7, <2>1, <2>3, <3>1 DEF Alone
  <2>5. ConfigKept'
    <3>1. CASE Begins(h)
      BY <1>1, <2>1, <3>1 DEF Begins, TidyInv, ConfigKept, ConfiguredDir, Uninterrupted
    <3>2. CASE Lists(h)
      BY <1>1, <2>1, <3>2 DEF Lists, TidyInv, ConfigKept, ConfiguredDir
    <3>5. CASE Clears(h)
      BY <1>1, <2>1, <3>5 DEF Clears, TidyInv, ConfigKept, ConfiguredDir
    <3>3. CASE Restarts(h)
      BY <1>1, <2>1, <3>3 DEF Restarts, TidyInv, ConfigKept, ConfiguredDir
    <3>4. CASE Saves(h)
      <4>1. configFile' = indexBin => ConfiguredDir' = indexBin
        BY <1>7, DirsAssumption DEF ConfiguredDir
      <4>2. configFile' = configFile => ConfiguredDir' = ConfiguredDir
        BY DEF ConfiguredDir
      <4>. QED
        BY <1>1, <1>3, <2>1, <3>4, <4>1, <4>2 DEF Saves, TidyInv, ConfigKept
    <3>. QED
      BY <2>1, <3>1, <3>2, <3>3, <3>4, <3>5
  <2>. QED
    BY <2>2, <2>4, <2>5 DEF TidyInv
<1>9. CASE Moving(h)
  <2>1. UNCHANGED <<worker, configFile>> /\ (Migrates(h) \/ Arrives(h) \/ Breaks(h))
    BY <1>9, MovingSteps
  <2>2. CASE Breaks(h)
    BY <2>2 DEF Breaks, TidyInv, ConfigKept, Alone, AllKnown
  <2>3. ConfiguredDir' = ConfiguredDir
    BY <2>1 DEF ConfiguredDir
  <2>4. Listed(h)
    BY <1>9 DEF Listing
  <2>5. faults = 0 => \A d \in Dirs : DOMAIN segments[d] # {} => d = indexBin \/ d = handler[h].dir
    BY <1>2, <1>6 DEF TidyInv, Alone
  <2>6. CASE Arrives(h)
    <3>1. ConfigKept'
      BY <1>1, <1>9, <2>6 DEF Arrives, TidyInv, ConfigKept, Moving
    <3>2. \A g \in Handlers : ~Moving(g)'
      BY <1>6, <2>6 DEF Arrives, Moving
    <3>3. DOMAIN segments[indexBin] # {} => handler[h].dir = indexBin
      BY <2>4, <2>6 DEF Arrives, Listed
    <3>4. Alone'
      BY <1>2, <2>5, <2>6, <3>2, <3>3 DEF Arrives, Alone
    <3>5. AllKnown'
      BY <1>1, <2>6 DEF Arrives, TidyInv, AllKnown, Known
    <3>. QED
      BY <3>1, <3>4, <3>5 DEF TidyInv
  <2>7. CASE Migrates(h)
    <3>1. PICK n \in handler[h].left : Passes(h, n) \/ Shifts(h, n) \/ Copies(h, n)
      BY <2>7 DEF Migrates
    <3>2. /\ Moving(h)' /\ UNCHANGED <<indexBin, faults>>
          /\ handler'[h].dir = handler[h].dir /\ handler'[h].files = handler[h].files
      BY <2>7, <3>1 DEF Migrates, Passes, Shifts, Copies, Advances, Moving
    <3>3. ConfigKept'
      BY <1>1, <1>9, <2>3, <3>2 DEF TidyInv, ConfigKept, Moving
    <3>4. n \in DOMAIN segments[indexBin]
      BY <2>4, <3>1 DEF Listed
    <3>5. ASSUME faults = 0, NEW d \in Dirs, NEW m \in DOMAIN segments'[d]
          PROVE  (d = indexBin \/ d = handler[h].dir) /\ \E e \in Dirs : m \in DOMAIN segments[e]
      <4>1. CASE Passes(h, n)
        BY <2>5, <3>5, <4>1 DEF Passes
      <4>2. CASE Shifts(h, n)
        <5>1. /\ DOMAIN segments'[indexBin] = DOMAIN segments[indexBin] \ {n}
              /\ DOMAIN segments'[handler[h].dir] = DOMAIN segments[handler[h].dir] \cup {n}
              /\ \A e \in Dirs \ {indexBin, handler[h].dir} : segments'[e] = segments[e]
          <6>1. /\ segments'[indexBin] = Without(segments[indexBin], n)
                /\ segments'[handler[h].dir] = Put(segments[handler[h].dir], n, segments[indexBin][n])
                /\ \A e \in Dirs \ {indexBin, handler[h].dir} : segments'[e] = segments[e]
            BY <1>7, <4>2, ShiftedSegments
          <6>. QED
            BY <6>1 DEF Put, Without, Restrict
        <5>. QED
          BY <1>7, <2>5, <3>4, <3>5, <5>1
      <4>3. CASE Copies(h, n)
        <5>1. /\ DOMAIN segments'[handler[h].dir] = DOMAIN segments[handler[h].dir] \cup {n}
              /\ \A e \in Dirs \ {handler[h].dir} : segments'[e] = segments[e]
          <6>1. PICK content :
                  /\ segments'[handler[h].dir] = Put(segments[handler[h].dir], n, content)
                  /\ \A e \in Dirs \ {handler[h].dir} : segments'[e] = segments[e]
            BY <1>7, <4>3, CopiedSegments
          <6>. QED
            BY <6>1 DEF Put
        <5>. QED
          BY <1>7, <2>5, <3>4, <3>5, <5>1
      <4>. QED
        BY <3>1, <4>1, <4>2, <4>3
    <3>6. AllKnown'
      BY <1>1, <3>2, <3>5 DEF TidyInv, AllKnown, Known
    <3>7. ASSUME faults = 0, handler[h].dir # indexBin,
                 NEW m \in handler'[h].left \cap DOMAIN segments'[handler[h].dir]
          PROVE  segments'[handler[h].dir][m] \in {Unreadable, segments'[indexBin][m]}
      <4>1. \A k \in handler[h].left \cap DOMAIN segments[handler[h].dir] :
              segments[handler[h].dir][k] \in {Unreadable, segments[indexBin][k]}
        BY <1>9, <3>7 DEF TidyInv, Alone
      <4>2. \A k \in handler[h].left : k \in DOMAIN segments[indexBin]
        BY <2>4 DEF Listed
      <4>3. CASE Shifts(h, n)
        <5>1. /\ segments'[indexBin] = Without(segments[indexBin], n)
              /\ segments'[handler[h].dir] = Put(segments[handler[h].dir], n, segments[indexBin][n])
          BY <1>7, <4>3, ShiftedSegments
        <5>2. m \in handler[h].left /\ m # n
          BY <3>7, <4>3 DEF Shifts, Advances
        <5>3. /\ m \in DOMAIN segments[handler[h].dir]
              /\ segments'[handler[h].dir][m] = segments[handler[h].dir][m]
              /\ segments'[indexBin][m] = segments[indexBin][m]
          BY <3>7, <4>2, <5>1, <5>2 DEF Put, Without, Restrict
        <5>. QED
          BY <4>1, <5>2, <5>3
      <4>4. CASE Copies(h, n)
        <5>1. PICK content \in {Unreadable, segments[indexBin][n]} :
                /\ segments'[handler[h].dir] = Put(segments[handler[h].dir], n, content)
                /\ \A e \in Dirs \ {handler[h].dir} : segments'[e] = segments[e]
          BY <1>7, <4>4, CopiedSegments
        <5>2. m \in handler[h].left /\ segments'[indexBin] = segments[indexBin]
          BY <1>7, <3>7, <4>4, <5>1 DEF Copies
        <5>3. m = n => segments'[handler[h].dir][m] = content
          BY <5>1 DEF Put
        <5>4. m # n => /\ m \in DOMAIN segments[handler[h].dir]
                       /\ segments'[handler[h].dir][m] = segments[handler[h].dir][m]
          BY <3>7, <5>1 DEF Put
        <5>. QED
          BY <4>1, <5>1, <5>2, <5>3, <5>4
      <4>. QED
        BY <3>1, <3>7, <4>3, <4>4 DEF Passes
    <3>8. Alone'
      BY <1>2, <1>6, <3>2, <3>5, <3>7 DEF Alone
    <3>. QED
      BY <3>3, <3>6, <3>8 DEF TidyInv
  <2>. QED
    BY <2>1, <2>2, <2>6, <2>7
<1>. QED
  BY <1>8, <1>9

(* In every reachable state.                                               *)
THEOREM TidyInvariance ==
  ASSUME Uninterrupted
  PROVE  Spec => [](ControlInv /\ JobCurrent /\ NoneLost /\ WorkerReturns /\ TidyInv)
<1>1. Init => WorkerReturns /\ TidyInv
  <2>1. Idle.pc = "idle"
    BY DEF Idle
  <2>. QED
    BY <2>1, DirsAssumption
    DEF Init, WorkerAt, WorkerReturns, TidyInv, ConfigKept, Alone, AllKnown, Moving, EmptyMap,
        StoppedPcs, MovingPcs
<1>2. ControlInv /\ JobCurrent /\ WorkerReturns /\ TidyInv /\ [Next]_vars =>
        WorkerReturns' /\ TidyInv'
  <2> SUFFICES ASSUME ControlInv, JobCurrent, WorkerReturns, TidyInv, [Next]_vars
               PROVE  WorkerReturns' /\ TidyInv'
    OBVIOUS
  <2>1. OneMover
    BY DEF Uninterrupted
  <2>2. CASE UNCHANGED vars
    BY <2>2, StaysTidy DEF vars, memory, disk, WorkerReturns
  <2>3. CASE ProcessStep
    BY <2>3, ProcessReturns, ProcessTidy
  <2>4. CASE WorkerStep
    BY <2>4, WorkerReturnsStep, WorkerTidy
  <2>5. ASSUME NEW h \in Handlers, RequestStep(h)
        PROVE  WorkerReturns' /\ TidyInv'
    BY <2>1, <2>5, RequestReturns, RequestTidy
  <2>6. ASSUME NEW h \in Handlers, ModifyStep(h)
        PROVE  WorkerReturns' /\ TidyInv'
    BY <2>1, <2>6, ModifyReturns, ModifyTidy
  <2>. QED
    BY <2>2, <2>3, <2>4, <2>5, <2>6 DEF Next
<1>3. Spec => [](ControlInv /\ JobCurrent /\ NoneLost)
  BY KeptInvariance DEF Uninterrupted
<1>. QED
  BY <1>1, <1>2, <1>3, PTL DEF Spec

(* Builds may move the segments while others index and search, any number  *)
(* of times and across restarts: a clean shutdown leaves, in the directory *)
(* the next start reads, the current documents of exactly the indexed      *)
(* files (Engine.cpp:30-36, 109-159; main.cpp).                            *)
THEOREM MigrationShutdownTheorem ==
  ASSUME Uninterrupted
  PROVE  Spec => CleanShutdownKeepsIndex
<1>1. ControlInv /\ JobCurrent /\ NoneLost /\ WorkerReturns /\ TidyInv /\ [Next]_vars =>
        [(phase = "stopping" /\ phase' = "down" /\ crashes' = crashes /\ loadOk /\ faults = 0)
           => RestoresIndex]_vars
  <2> SUFFICES ASSUME ControlInv, NoneLost, WorkerReturns, TidyInv, [Next]_vars,
                      phase = "stopping", phase' = "down", crashes' = crashes, loadOk, faults = 0
               PROVE  RestoresIndex
    OBVIOUS
  <2> USE DEF ControlInv
  <2>1. FinishShutdown
    BY ServedBeforeStopping, CleanEnd DEF Uninterrupted
  <2>2. \A h \in Handlers : handler[h].pc = "idle"
    BY DEF WorkerReturns, Idle
  <2>3. worker.pc = "exited" /\ dirtyQueue = <<>> /\ worker.job = <<>>
    BY <2>1, <2>2 DEF FinishShutdown, WorkerReturns, TypeInv, TypeOK, StoppedPcs, MovingPcs
  <2>4. indexBin \in Dirs /\ ConfiguredDir = indexBin
    BY <2>2 DEF TidyInv, ConfigKept, SavingPcs, TypeInv, TypeOK
  <2>5. \A f \in DOMAIN ix.fileToTerms : HeldIn(indexBin, f)
    BY <2>2, <2>3 DEF NoneLost, Pending, At, Kept, Moved, Moving, MovingPcs
  <2>6. \A n \in DOMAIN segments[indexBin] : \E f \in DOMAIN ix.fileToTerms : BinName[f] = n
    BY <2>4 DEF TidyInv, AllKnown, Known
  <2>. QED
    BY <2>4, <2>5, <2>6, ScanRestores DEF HeldIn, Uninterrupted, OneMover
<1>. QED
  BY <1>1, TidyInvariance, PTL DEF Spec, CleanShutdownKeepsIndex

-----------------------------------------------------------------------------
(* A migration as nothing at all.                                          *)

NoFault == faults = 0

(* A disk that never fails.                                                *)
LEMMA NeverFails ==
  ASSUME TypeInv, MaxFaults = 0, NoFault, [Next]_vars
  PROVE  NoFault'
<1> USE DEF NoFault
<1>1. ASSUME NEW h \in Handlers, RequestStep(h)
      PROVE  faults' = faults \/ (faults < MaxFaults /\ faults' = faults + 1)
  BY <1>1 DEF RequestStep, LockForIndex, MergeFile, FinishIndex, LockForDelete, DeleteSegment,
         DeleteSegmentFails, EndDelete, BeginSearch, EndSearch
<1>2. ASSUME NEW h \in Handlers, ModifyStep(h)
      PROVE  faults' = faults \/ (faults < MaxFaults /\ faults' = faults + 1)
  BY <1>2 DEF ModifyStep, BeginModify, JoinWorker, MoveSegment, OpenCopy, FinishCopy, RemoveOriginal,
         SkipGoneSegment, ModifyFails, SetIndexBin, ClearStop, RestartWorker, OpenConfig, WriteConfig,
         SaveConfigFails, BuildFindsNoFiles
<1>3. WorkerStep => faults' = faults
  BY DEF WorkerStep, WorkerPop, WorkerExit, WorkerReadPath, WorkerSkipStale, WorkerLock,
         OpenSegment, OpenSegmentFails, WriteSegment, WriteSegmentFails, WorkerUnchanged
<1>4. ProcessStep => faults' = faults \/ (faults < MaxFaults /\ faults' = faults + 1)
  BY DEF ProcessStep, LoadConfig, LoadConfigFails, LoadSegment, LoadAborts, StartWorker, BeginShutdown,
         FinishShutdown, Crash, disk
<1>5. UNCHANGED vars => faults' = faults
  BY DEF vars
<1>. QED
  BY <1>1, <1>2, <1>3, <1>4, <1>5 DEF Next

(* What can be read is what can be read somewhere.                         *)
LEMMA OnShelf ==
  ASSUME NEW segs, NEW doc
  PROVE  doc \in Stored(segs) <=> \E d \in Dirs : \E n \in DOMAIN segs[d] : segs[d][n] = doc
BY DEF Stored, Range

(* Each step of a migration leaves the same documents to be read, in one   *)
(* directory or the other.                                                 *)
LEMMA MigrationKeepsShelf ==
  ASSUME Uninterrupted, ControlInv, Alone, faults = 0, NEW h \in Handlers, Moving(h), Migrates(h)
  PROVE  Shelf' = Shelf
<1> DEFINE dir == handler[h].dir
<1>1. TypeOK /\ indexBin \in Dirs /\ dir \in Dirs
  BY DEF ControlInv, TypeInv, TypeOK, HandlerState
<1>2. PICK n \in handler[h].left : Passes(h, n) \/ Shifts(h, n) \/ Copies(h, n)
  BY DEF Migrates
<1>3. n \in DOMAIN segments[indexBin]
  BY <1>2 DEF ControlInv, Listing, Listed
<1>4. dir # indexBin /\ n \in DOMAIN segments[dir] =>
        segments[dir][n] \in {Unreadable, segments[indexBin][n]}
  BY <1>2 DEF Alone
<1> HIDE DEF dir
<1>5. ASSUME NEW doc, doc # Unreadable
      PROVE  doc \in Stored(segments') <=> doc \in Stored(segments)
  <2> DEFINE Before == \E d \in Dirs : \E m \in DOMAIN segments[d] : segments[d][m] = doc
             After  == \E d \in Dirs : \E m \in DOMAIN segments'[d] : segments'[d][m] = doc
  <2>1. CASE Passes(h, n)
    BY <2>1 DEF Passes
  <2>2. CASE Shifts(h, n)
    <3>1. /\ segments'[indexBin] = Without(segments[indexBin], n)
          /\ segments'[dir] = Put(segments[dir], n, segments[indexBin][n])
          /\ \A d \in Dirs \ {indexBin, dir} : segments'[d] = segments[d]
          /\ dir # indexBin
      BY <1>1, <2>2, ShiftedSegments DEF Shifts, dir
    <3>2. ASSUME NEW d \in Dirs, NEW m \in DOMAIN segments[d], segments[d][m] = doc
          PROVE  After
      <4>1. CASE m = n /\ d \in {indexBin, dir}
        <5>1. doc = segments[indexBin][n]
          BY <1>4, <1>5, <3>1, <3>2, <4>1
        <5>. QED
          BY <1>1, <3>1, <5>1 DEF Put
      <4>2. CASE m # n \/ d \notin {indexBin, dir}
        BY <3>1, <3>2, <4>2 DEF Put, Without, Restrict
      <4>. QED
        BY <4>1, <4>2
    <3>3. ASSUME NEW d \in Dirs, NEW m \in DOMAIN segments'[d], segments'[d][m] = doc
          PROVE  Before
      <4>1. CASE d = dir /\ m = n
        BY <1>1, <1>3, <3>1, <3>3, <4>1 DEF Put
      <4>2. CASE d # dir \/ m # n
        <5>1. m \in DOMAIN segments[d] /\ segments[d][m] = doc
          BY <3>1, <3>3, <4>2 DEF Put, Without, Restrict
        <5>. QED
          BY <5>1
      <4>. QED
        BY <4>1, <4>2
    <3>. QED
      BY <3>2, <3>3, OnShelf
  <2>3. CASE Copies(h, n)
    <3>1. PICK content \in {Unreadable, segments[indexBin][n]} :
            /\ segments'[dir] = Put(segments[dir], n, content)
            /\ \A d \in Dirs \ {dir} : segments'[d] = segments[d]
      BY <1>1, <2>3, CopiedSegments DEF dir
    <3>2. dir # indexBin
      BY <2>3 DEF Copies, dir
    <3>3. ASSUME NEW d \in Dirs, NEW m \in DOMAIN segments[d], segments[d][m] = doc
          PROVE  After
      <4>1. CASE m = n /\ d = dir
        <5>1. doc = segments'[indexBin][n] /\ n \in DOMAIN segments'[indexBin]
          BY <1>1, <1>3, <1>4, <1>5, <3>1, <3>2, <3>3, <4>1
        <5>. QED
          BY <1>1, <5>1
      <4>2. CASE m # n \/ d # dir
        BY <3>1, <3>3, <4>2 DEF Put
      <4>. QED
        BY <4>1, <4>2
    <3>4. ASSUME NEW d \in Dirs, NEW m \in DOMAIN segments'[d], segments'[d][m] = doc
          PROVE  Before
      <4>1. CASE d = dir /\ m = n
        BY <1>1, <1>3, <1>5, <3>1, <3>4, <4>1 DEF Put
      <4>2. CASE d # dir \/ m # n
        <5>1. m \in DOMAIN segments[d] /\ segments[d][m] = doc
          BY <3>1, <3>4, <4>2 DEF Put
        <5>. QED
          BY <5>1
      <4>. QED
        BY <4>1, <4>2
    <3>. QED
      BY <3>3, <3>4, OnShelf
  <2>. QED
    BY <1>2, <2>1, <2>2, <2>3
<1>. QED
  BY <1>5 DEF Shelf

(* So a reconfiguration is no step of the store.                           *)
LEMMA ModifyRefines ==
  ASSUME Uninterrupted, ControlInv, Alone, faults = 0, faults' = 0, NEW h \in Handlers, ModifyStep(h)
  PROVE  UNCHANGED Store!vars
<1>1. ix' = ix
  BY ModifyLeaves DEF ControlInv
<1>2. Writing' = Writing
  <2>1. worker' = worker \/ (worker.pc \in {"none", "exited"} /\ worker'.pc \in {"none", "wait"})
    BY MovingSteps, RestingSteps DEF ControlInv, Begins, Lists, Clears, Restarts, Saves, WorkerAt
  <2>. QED
    BY <2>1 DEF Writing
<1>3. Shelf' = Shelf
  <2>1. CASE Moving(h)
    <3>1. Migrates(h) \/ segments' = segments
      BY <2>1, MovingSteps DEF Arrives, Breaks
    <3>. QED
      BY <2>1, <3>1, MigrationKeepsShelf DEF Shelf
  <2>2. CASE ~Moving(h)
    BY <2>2, RestingSteps DEF ControlInv, Shelf
  <2>. QED
    BY <2>1, <2>2
<1>4. Memory' = Memory
  BY <1>1 DEF Memory
<1>. QED
  BY <1>2, <1>3, <1>4 DEF Store!vars

(* Seen from outside, builds that move the segments to another directory   *)
(* or device do nothing to the documents: the engine still implements the  *)
(* document store (Engine.cpp:73-159, IndexSerializer.cpp:39-88).          *)
THEOREM MigrationStoreTheorem ==
  ASSUME Uninterrupted, MaxFaults = 0
  PROVE  Spec => ImplementsDocumentStore
<1>1. Init => Store!Init /\ NoFault
  BY DEF NoFault, Init, EmptyIndex, EmptyMap, WorkerAt, Memory, Shelf, Stored, Range, Writing, Store!Init
<1>2. ControlInv /\ NoFault /\ [Next]_vars => NoFault'
  BY NeverFails DEF ControlInv
<1>3. ControlInv /\ TidyInv /\ NoFault /\ NoFault' /\ [Next]_vars => [Store!Next]_(Store!vars)
  <2> SUFFICES ASSUME ControlInv, TidyInv, faults = 0, faults' = 0, [Next]_vars
               PROVE  [Store!Next]_(Store!vars)
    BY DEF NoFault
  <2> USE DEF ControlInv
  <2>1. CASE UNCHANGED vars
    BY <2>1, Stutters DEF vars, memory, disk, Writing
  <2>2. CASE ProcessStep
    BY <2>2, ProcessRefines
  <2>3. CASE WorkerStep
    <3>1. worker.pc \in {"open", "write"} => \A d \in Dirs \ {worker.bin} : DOMAIN segments[d] = {}
      <4>1. \A h \in Handlers : ~Moving(h)
        BY <2>3, WorkerLeaves DEF Moving, StoppedPcs
      <4>. QED
        BY <4>1 DEF TidyInv, Alone, CurrentDir, WorkerHome, TypeInv, Locking
    <3>. QED
      BY <2>3, <3>1, WorkerRefines DEF Uninterrupted, OneMover
  <2>4. ASSUME NEW h \in Handlers, RequestStep(h)
        PROVE  [Store!Next]_(Store!vars)
    <3>1. UNCHANGED <<segments, worker>>
      BY <2>4, RequestLeaves DEF Uninterrupted
    <3>2. ASSUME ix' = ix
          PROVE  UNCHANGED Store!vars
      BY <3>1, <3>2, Stutters DEF Writing
    <3>3. ix' = ix \/ \E text \in Texts : MergeFile(h, text)
      BY <2>4
      DEF RequestStep, LockForIndex, FinishIndex, LockForDelete, Accepts, DeleteSegment,
          DeleteSegmentFails, EndDelete, BeginSearch, EndSearch, Uninterrupted, OneMover
    <3>. QED
      BY <3>2, <3>3, MergeRefines
  <2>5. ASSUME NEW h \in Handlers, ModifyStep(h)
        PROVE  [Store!Next]_(Store!vars)
    BY <2>5, ModifyRefines DEF TidyInv
  <2>. QED
    BY <2>1, <2>2, <2>3, <2>4, <2>5 DEF Next
<1>. QED
  BY <1>1, <1>2, <1>3, TidyInvariance, PTL DEF Spec, ImplementsDocumentStore, Store!Spec
=============================================================================
