---------------------------- MODULE DocumentStore ----------------------------
(***************************************************************************)
(* What Engine promises about the documents it is given, whatever threads, *)
(* locks, queues and files are behind it: each indexed file has one        *)
(* current document in memory, documents are put on a shelf that outlives  *)
(* the process, and only the current document of a file ever gets there.   *)
(***************************************************************************)
EXTENDS Naturals, Functions

CONSTANTS Files, Documents  \* a document has a filePath and a generation

VARIABLES memory,  \* file -> its current document
          shelf,   \* the documents a later process can load
          writing  \* the file whose document is being replaced on the shelf

vars == <<memory, shelf, writing>>

Init == memory = [f \in {} |-> {}] /\ shelf = {} /\ writing = {}

Of(f) == {doc \in shelf : doc.filePath = f}

(* Nothing in memory or on the shelf changes except for f.                 *)
Others(f) ==
  /\ \A g \in DOMAIN memory \ {f} : g \in DOMAIN memory' /\ memory'[g] = memory[g]
  /\ DOMAIN memory' \ {f} \subseteq DOMAIN memory

Generation(f) == IF f \in DOMAIN memory THEN memory[f].generation ELSE 0

(* A new version; none while the shelf is being written.                   *)
Index(f) ==
  /\ writing = {}
  /\ f \in DOMAIN memory'
  /\ memory'[f] \in Documents
  /\ memory'[f].filePath = f
  /\ memory'[f].generation = Generation(f) + 1
  /\ Others(f)
  /\ UNCHANGED <<shelf, writing>>

Forget(f) ==
  /\ writing = {}
  /\ memory' = Restrict(memory, DOMAIN memory \ {f})
  /\ UNCHANGED <<shelf, writing>>

(* What is forgotten may be taken off the shelf, nothing else.             *)
Remove(f) ==
  /\ writing = {}
  /\ f \notin DOMAIN memory
  /\ shelf' = shelf \ Of(f)
  /\ UNCHANGED <<memory, writing>>

(* The shelved document gives way before its successor is there.           *)
BeginWrite(f) ==
  /\ writing = {}
  /\ f \in DOMAIN memory
  /\ shelf' = shelf \ Of(f)
  /\ writing' = {f}
  /\ UNCHANGED memory

EndWrite(f) ==
  /\ writing = {f}
  /\ shelf' = (shelf \ Of(f)) \cup {memory[f]}
  /\ writing' = {}
  /\ UNCHANGED memory

AbandonWrite ==
  /\ writing' = {}
  /\ UNCHANGED <<memory, shelf>>

(* A new process loads shelved documents of files it does not know.        *)
Load(doc) ==
  /\ writing = {}
  /\ doc.filePath \notin DOMAIN memory
  /\ doc.filePath \in DOMAIN memory'
  /\ memory'[doc.filePath] = doc
  /\ Others(doc.filePath)
  /\ UNCHANGED <<shelf, writing>>

ProcessEnds ==
  /\ memory' = [f \in {} |-> {}]
  /\ writing' = {}
  /\ UNCHANGED shelf

Next ==
  \/ \E f \in Files :
       Index(f) \/ Forget(f) \/ Remove(f) \/ BeginWrite(f) \/ EndWrite(f)
  \/ \E doc \in shelf : Load(doc)
  \/ AbandonWrite \/ ProcessEnds

Spec == Init /\ [][Next]_vars
=============================================================================
