# A TLA+ model of Document-Search-Engine

Document-Search-Engine is a C++ full-text search server. It keeps an inverted
index in memory, answers exact, prefix and phrase queries ranked with BM25,
and persists the index in the background, one binary segment per indexed file.
This directory holds TLA+ modules that model the program, configurations that
check them with TLC, and theorems checked with TLAPS. Paths below are relative
to the repository root; module comments name source files without their
directory.

1. [The system](#the-system)
2. [Modules and how they correspond to the code](#modules-and-how-they-correspond-to-the-code)
3. [What is checked](#what-is-checked)
4. [Fairness](#fairness)
5. [What is proved](#what-is-proved)
6. [Where the code and its documentation disagree](#where-the-code-and-its-documentation-disagree)
7. [What is not modelled](#what-is-not-modelled)
8. [Plan](#plan)

## The system

| Component | State | Operations | Correct when |
|---|---|---|---|
| `Tokenizer` (src/Tokenizer.cpp) | none | `tokenize`, `simpleTokenize` (`getTotalTokens` and `isolateLastToken` have no caller in the program) | document and query tokens are the same maximal runs, positions are consecutive |
| `TernarySearchTree` (src/TernarySearchTree.cpp) | linked nodes with marks | `insert`, `deleteTerm`, `prefixSearch`, `countWords` | it is the set of inserted and not deleted words; a deletion frees no node another word needs |
| `Indexer` (src/Indexer.cpp) | `index`, `fileToTerms`, `totalTokensInIndex`; drives the tree | `buildIndex` (one file, batch), `removeFileFromIndex`, `getFileGen`, `computeScore` | the three maps and the tree agree; a document's postings tile it; generations tell reindexings apart |
| `IndexSerializer` (src/IndexSerializer.cpp) | the `.bin` segments on disk | `save`, `load`, `deleteFile` | a segment that can be read is one whole document, and loading gives back what was indexed |
| `Searcher` (src/Searcher.cpp) | references to index and tree | `search`, positional intersection | the matches of a phrase are its occurrences |
| `Engine` (src/Engine.cpp) | the above, `engineMutex` (shared), `dirtyQueue` with its mutex and condition variable, `stopWorker`, the serializer thread, `config.indexBin` with `pathMutex`, `config/config.json` | constructor and destructor, `indexFile(s)`, `deleteFileFromIndex`, `search`, `modifyIndexBinPath`, `saveConfig`, `loadConfig` | no reader sees the index change; no update and no deletion is lost on disk; a clean restart restores the index; every job is done or overtaken |
| `ApiServer`, `main` (src/ApiServer.cpp, src/main.cpp) | one `Engine` | HTTP routes, concurrent on Crow's threads | each route makes the calls the README describes |
| Crow and Asio (include/) | – | vendored HTTP server | – |

How they interact. Crow runs the route handlers concurrently
(`multithreaded()`, ApiServer.cpp:90). An indexing request takes
`engineMutex` exclusively, merges its files, pushes one dirty job per file
with the generation the file now has, and unlocks. The serializer thread pops
a job, reads `indexBin`, takes `engineMutex` shared, compares generations and
writes the segment with the lock held. A deletion takes the mutex exclusively,
removes the file from the index, and unlinks its segment. A search holds the
mutex shared. A reconfiguration takes `engineMutex` never: it raises
`stopWorker`, joins the serializer thread (which drains the queue first), moves
every segment, switches `indexBin` and starts a new thread;
`POST /index/build` then saves the configuration and indexes. At start-up the
constructor reads the configuration and loads every segment below `indexBin`.

What is hard to test here: the orders in which handlers and the serializer
meet; a job acted on after its file was reindexed, deleted, or deleted and
indexed again (generations restart at 1); the drain at shutdown and at a
reconfiguration; a crash between the truncation of a segment and its contents,
or in the middle of a migration; results of `save`, `load` and `deleteFile`
that nobody looks at; and a failed migration, which leaves the process without
a serializer thread. `PROJECT.json` lists each hazard with its line.

## Modules and how they correspond to the code

**`Indexer`** has no variables: the in-memory index is one record `ix`, and
each operation is an operator from index to index.

| Model | Code |
|---|---|
| `ix.index`, `ix.fileToTerms`, `ix.totalTokensInIndex` | the members of `Indexer` |
| `ix.tst` | the set of words marked in the ternary search tree |
| `PartialIndexThreadWorkers`, `MergePartialIndexThreadWorkers` | the functions of those names |
| `BuildIndex` | `buildIndex(file)`, and one iteration of the merge loop of `buildIndex(files)` |
| `RemoveFileFromIndex`, `GetFileGen`, `FilePresent` | the functions of those names |

A document is the sequence of its tokens. The vector of a posting list is the
set of its token positions, which determines it because the tokenizer emits
positions in increasing order and nothing reorders them. The `std::async`
workers of a batch share nothing and their results are merged in the batch's
order by the thread that holds the lock, so a batch is a sequence of merges.
"Key absent" and "key with an empty map" are different, as in the code.

**`IndexSerializer`** adds the segments: `Save` (what `save` writes, for the
terms it finds), `PartialLoadIndexThreadWorkers` and
`MergePartialLoadIndexThreadWorkers` (which, unlike the merge of a built
index, does not remove what the index holds of the file). A segment cut short
anywhere, or empty, is the value `Unreadable`: the reader throws on all of
them. `BinName` maps a file to its segment's name, and need not be injective.

**`Engine`** is the state machine. Its variables are the members of `Engine`,
the program counters of its threads, and the disk.

| Model | Code |
|---|---|
| `writer`, `readers` | who holds `engineMutex` exclusively / shared |
| `dirtyQueue`, `stopWorker` | the same; a critical section of `dirtyMutex` is one step |
| `worker` | the serializer thread: where it is in `serializerLoop`, its job, the path it read; `"none"`: not joinable, `"exited"`: to be joined |
| `handler[h]` | the request thread `h` is in the middle of, with its locals |
| `phase`, `toLoad`, `loadOk` | the process: down, in the constructor, serving, in the destructor |
| `segments`, `configFile` | on disk; a crash leaves them alone |
| `LoadConfig`, `LoadConfigFails`, `LoadSegment`, `LoadAborts`, `StartWorker` | the constructor |
| `WorkerPop` … `WriteSegment` | `serializerLoop` and `save`; open (which truncates) and write are two steps |
| `LockForIndex`, `MergeFile`, `FinishIndex` | `indexFiles`, `indexFile` |
| `LockForDelete`, `DeleteSegment`, `DeleteSegmentFails` | `deleteFileFromIndex` |
| `BeginSearch`, `EndSearch` | `search` |
| `BeginModify`, `JoinWorker`, `MoveSegment`, `OpenCopy`, `FinishCopy`, `RemoveOriginal`, `SkipGoneSegment`, `ModifyFails`, `SetIndexBin`, `ClearStop`, `RestartWorker` | `modifyIndexBinPath` |
| `OpenConfig`, `WriteConfig`, `SaveConfigFails`, `BuildFindsNoFiles` | the rest of `POST /index/build` |
| `BeginShutdown`, `FinishShutdown` | the return of Crow's `run` and the destructor |
| `Crash` | the process dies between any two steps |

Actions whose name ends in `Fails` are the disk refusing an operation, with
what the code makes of it: usually it ignores the result. Definitions whose
comment begins "A plausible bug" are used by no action; they are mutations that
show that a property can fail. Undefined behaviour: the unsynchronised read of
`config.indexBin` by a deletion may find neither directory while the path is
being assigned (`DeleteSegmentFails`). Assigning over a joinable thread and
joining one thread twice are reported by `NeverTerminates` and not followed
further.

**`DocumentStore`** is what all this promises, without threads, locks, queues
or files: `memory` maps each indexed file to its current document, `shelf` is
the set of documents a later process can load, `writing` the file whose
document is being replaced there. A file gets a next version or is forgotten
only while nothing is being written; only the current document of a file is
put on the shelf; a document leaves the shelf only to be rewritten or once its
file is forgotten; a new process loads what is on the shelf. `Engine`
implements it under the mapping

| `DocumentStore` | `Engine` |
|---|---|
| `memory` | `Memory`: of each indexed file, what `save` would write |
| `shelf` | `Shelf`: the readable segments of all directories |
| `writing` | `Writing`: the file of the serializer's job between open and write |

(`Store == INSTANCE DocumentStore WITH ...`, `ImplementsDocumentStore ==
Store!Spec`). Everything else `Engine` does, a migration included, is a step
that a reader of the store does not see.

**`Tokenizer`**, **`TernarySearchTree`** and **`Searcher`** are pure: each
function of the source is an operator of its name.

| Model | Code |
|---|---|
| a path of `"lChild"`, `"mChild"`, `"rChild"` | a `TreeNode*`: no operation links an existing node anew, so the links from the root to a node never change while it lives |
| `tree`, a function from paths to `[data, marked]` | the nodes; a path outside its domain is `nullptr`, and a freed node has left the domain |
| `Descent(at, rest)` | `node` and what is left of the key from `index` on (`curr`, `keyIndex`) |
| `DescentStep`, `Descend` | one pass of the loop of `prefixSearch`, and the loop; `insertHelper` and `deleteHelper` choose the child in the same way |
| `Insert` | `insert` and `insertHelper`: the nodes made from the first `nullptr` on, and the mark |
| `FreeIfUnused`, `FreeUpwards` | the end of one call of `deleteHelper`, and its returns from the deepest one up |
| `PrefixHelper`, `TraverseTSTCount` | the recursions of those names, a value for each pointer |
| `SimpleStep`, `ScanStep` | one pass of the loops of `simpleTokenize` and `tokenize`, over byte values |
| `SimpleScan`, `Scan` | the loops: the variables after each byte, the tokens so far with their position and byte offset among them |
| `skip` | the bytes that `i += 2` still passes over |
| `PointersStep`, `TwoPointers` | one pass of the loop of `positionalIntersect`, and the loop: the positions ahead of each pointer and those found |
| `Follow` | the loop over the files of two words |
| `ChainStep`, `Chain` | one pass of the loop over the tokens of a query, and the loop: the word the phrase so far ends in and where, or the results it was left with |
| `completions` | what `prefixSearch` answers for the tokens that are not indexed |

Text is a sequence of byte values, since the three bytes of a curly quotation
mark are what the scanners are about. The loops and recursions are recursive
functions, over the bytes, the passes, the tokens and the paths, so that they
can be proved about.

**`DocumentIndex`** composes `Tokenizer`, `Indexer` and `Searcher`: source files that
change on disk behind the server's back (`Edit`, `Erase`), and the requests of
ApiServer.cpp:97-144 that index one file (`AddFileToIndex`), index the
files below a directory in any order they may be listed (`BuildInitialIndex`,
`Listings`), and delete a file
(`DeleteFileFromIndex`), each with the guard that the file is there. The index
holds the words `Tokenize` finds in the bytes of the file. A request is one
step, because `Engine` already shows what `engineMutex` makes of concurrent
ones. `indexed` remembers the text each file had when it was read, for the
properties to compare with. A query is answered from the index and, in place of
the tree, from `Completions`: for each token that is not indexed the indexed
words it starts, in any order. The properties of the searcher hold for every
such order.

**`DocumentSearch`** adds the linked tree: each request is the
one of `DocumentIndex` together with what it does to the nodes (`AddFile`,
`Build`, `DeleteFile`). An action's result is the set of trees that any order
of insertions and deletions of words leads to, since they come from unordered
containers. Leaving out `tree`, its steps are those of `DocumentIndex`, whose
theorems therefore hold here too (`SearchImplementsIndex`).
`PrefixSearchExact` says that what the tree answers is one of the
`Completions`, namely the sorted one, and `AnswersExact` says of the answers
that come from the tree (`FromTree`) what is said there of all completions.

**`MCEngine`** and **`MCDocumentSearch`** instantiate the two state machines
for TLC. The proofs: **`IndexTheorems`** (the operators on the index),
**`EngineTheorems`** on top of it, on that **`StoreTheorems`**, and on that
**`MigrationTheorems`**; **`TokenizerTheorems`**, on it **`SearcherTheorems`**
and **`TreeTheorems`**, and **`DocumentTheorems`** on these two and on
`IndexTheorems`.

## What is checked

`search` and `phrase` are on `MCDocumentSearch`, all others on `MCEngine`.

| Run | Instance | Properties |
|---|---|---|
| `core` | two files and two handlers; index (single files and pairs, also one file twice), delete, search; one crash, one disk fault | `Coherent`, `TotalIsSum`, `SaveFindsEveryTerm`, `LossesCounted`, `OrphansCounted`, `ImplementsDocumentStore`, `ReadersSeeOneIndex`, `CleanShutdownKeepsIndex` |
| `reconfig` | two files; builds that move the segments to another device and back while the other handler indexes or searches; no crash or fault; fair | `PendingOrPersisted`, `NeverTerminates`, `ImplementsDocumentStore`, `CleanShutdownKeepsIndex`, `EventuallySaved`, `ShutdownCompletes` |
| `everything` | one file, an empty and a non-empty text, every request but search, two directories on two devices, one crash, one fault | `TypeOK`, `Coherent`, `SegmentsSound`, `SaveFindsEveryTerm`, `TornCounted` |
| `search` | two files, five texts (empty, upper case, a repeated word around one it starts with, quotation marks inside and at the end, a hyphen and a quotation mark cut off), 25 queries of none to three tokens | `TypeOK`, `TreeWellFormed`, `PrefixSearchExact`, `HealthCountsAgree`, `TokenizersAgree`, `WordsAreMaximalRuns`, `PostingsAreTokens`, `WordsFoundWhereTheyAre`, `ExactPhrases`, `SearchNeverInvents`, `AnswersExact` |
| `collision`, `configLost`, `terminate`, `stalled`, `undeleted`, `partialLoad`, `nested`, `phrase` | the smallest instance that shows it | one each, violated: see [below](#where-the-code-and-its-documentation-disagree) |

What the properties say:

- `Coherent`: index, metadata and tree agree. The tree's words are the index's
  terms, no term is without a posting, a posting has metadata that lists it and
  the reverse (so the `at()` calls of `search` and `computeScore` never throw),
  and the postings of a file tile its positions.
- `TotalIsSum`: the total BM25 averages over is the sum over the files.
- `SegmentsSound`: a readable segment, in any directory, is one whole document
  under the name of its file.
- `SaveFindsEveryTerm`: from the generation check to the last byte, the file
  and its terms are there; the assertion at IndexSerializer.cpp:86 holds.
- `PendingOrPersisted`: as long as the disk works, an indexed file has its
  current contents in a segment, or a job of its current generation is on its
  way. `LossesCounted`: of how many files this is not so is bounded by the
  number of disk faults so far, through crashes and restarts.
- `OrphansCounted`: each disk fault leaves at most one segment of a deleted
  file in `indexBin`, and nothing else leaves any. Violated in `undeleted`.
- `TornCounted`: each crash or disk fault ruins at most one segment, besides
  those that are being rewritten or copied.
- `ReadersSeeOneIndex`: no step changes the index while a search or a save
  reads it.
- `CleanShutdownKeepsIndex`: what the next start scans after a clean shutdown
  is exactly the indexed files, as last indexed.
- `NeverTerminates`: `std::thread` is never assigned over a joinable one.
- `EventuallySaved`: an indexed generation is saved, overtaken by a newer one
  or a deletion, or the process ends. `ShutdownCompletes`: the join in the
  destructor returns.
- `ImplementsDocumentStore`: every step is a step of `DocumentStore`, or one
  it does not see. With migrations (`reconfig`) this says that whatever
  directory a segment is in, and while it is copied from one to the other,
  what can be read is what was stored.
- `ScoreFindsFile` (violated in `nested`): a file found through the index has
  metadata.
- `TreeWellFormed`: sibling links form a binary search tree, no node is left
  that roots no word, and the marked nodes spell the indexed words.
  `PrefixSearchExact`: a prefix finds exactly the
  indexed words it starts, in lexicographic order, whatever was inserted and
  freed before. `HealthCountsAgree`: the two counts of `/index/Health` agree
  between requests.
- `TokenizersAgree`: `simpleTokenize` and `tokenize` cut every text, every
  prefix and suffix of one (so also inside a quotation mark) and every query
  into the same words. `WordsAreMaximalRuns`: the tokens with a letter or digit
  are the maximal runs of word bytes that have one, in their order and at their
  offsets. Of the others it says only that they take positions and offsets in
  order, because the code has others: see [below](#where-the-code-and-its-documentation-disagree).
- `PostingsAreTokens`: the posting lists say of every word at which positions
  the texts, as last read, have it, and nothing else: no posting of an earlier
  text is left, none of another file is lost.
- `WordsFoundWhereTheyAre`: searching a word finds all the places where the
  texts have it, as last read, and no other.
- `ExactPhrases`: a phrase whose words before the last have at most one
  expansion is found at all its occurrences and nowhere else.
  `SearchNeverInvents`: any hit at all ends an occurrence of the query, or of
  its part up to a word with several expansions, which is where the code stops.
  Both, and `WordsFoundWhereTheyAre`, whichever order the completions come in.
  `AnswersExact`: both with the completions the nodes of the tree give.
  `PhraseSearchComplete` (violated in `phrase`): the same as `ExactPhrases`
  for all queries.

Every property of a passing run has a mutation of a modelled definition that
breaks it (`PROJECT.json`, "mutants").

Bounds. `MaxGeneration` 2 (a file is indexed, reindexed, and, after a deletion
or a restart, starts again at 1 while older jobs are queued), `MaxQueue` 2 (a
stale and a current job, or two files), `MaxCrashes` and `MaxFaults` at most 1
(a crash is followed by a load, which is where its traces show; a fault can
meet the crash). Two files are needed for batches, for two segments with one
of them unreadable, and for a queue with jobs of different files; two handlers
for a request beside another. The texts share a term between files and repeat
one inside a document, so that removal both empties terms and leaves them;
`reconfig` has one text, as generations already tell the contents apart. The
texts of `search` put every branch of the scanners, of the tree (words that
are prefixes of others, siblings on both sides, deletions that free a chain
and deletions that must not) and of the chain over a query within a few bytes;
with two files and two generations a word is emptied, kept by the other file,
and comes back. The
bounds on generation and queue are conditions of `LockForIndex` only: other
actions are never held back. `core` has no migration and `everything` has one
file because the product of both is beyond a few minutes; `reconfig` covers
two files with migration. `core`, `search`, `phrase` and most violated safety runs use symmetry, the
runs with liveness do not. Deadlock is checked everywhere.

The code ignores the results of `save`, `load` and `deleteFile`. What a fault
may therefore cost is counted (`LossesCounted`, `OrphansCounted`,
`TornCounted`); `PendingOrPersisted` and `CleanShutdownKeepsIndex` are stated
for a disk without faults (`faults = 0`), and the properties that compare disk
and memory for a load that ended well (`loadOk`). The others hold with faults
and crashes.

## Fairness

Used by `reconfig` and `stalled` only (`FairSpec`).

- Weak fairness of the serializer's steps, of each handler's steps inside a
  request (`HandlerProgress`), and of the end of the destructor: threads run,
  and a blocking call that can return does. It is one condition for all steps a
  handler may take next, failing ones included: the handler goes on, but a
  fault is never what it has to go on with. Requests, shutdowns and crashes are
  never forced.
- Strong fairness of the serializer's acquisition of `engineMutex` in shared
  mode. Handlers take the mutex again and again, so it is free only from time
  to time; a rwlock that lets a waiting reader in after an unlock gives this,
  and a lock that starves readers for ever does not. `EventuallySaved` would
  then fail in the code.

Starting a request has no fairness, nor has a build that waits for
`engineMutex` in exclusive mode (`"build"`): whoever asks may wait.

## What is proved

`tlapm` checks every step. The proofs hold for all files, terms, texts,
directories, threads, requests and bounds.

| Theorem | States | Assumes |
|---|---|---|
| `TypeCorrect` | `Spec => []TypeOK` | the modules' assumptions |
| `ReadersTheorem` | `Spec => ReadersSeeOneIndex` | the modules' assumptions |
| `CoherentTheorem` | `Spec => []Coherent` | `Flat` |
| `TotalTheorem` | `Spec => []TotalIsSum` | `Flat` |
| `SegmentsTheorem` | `Spec => []SegmentsSound` | `Flat` |
| `SaveTheorem` | `Spec => []SaveFindsEveryTerm` | `Flat` |
| `NeverTerminatesTheorem` | `Spec => []NeverTerminates` | at most one handler reconfigures |
| `StoreTheorem` | `Spec => ImplementsDocumentStore` | `Stationary` |
| `PendingTheorem` | `Spec => []PendingOrPersisted` | `Stationary` |
| `LossesTheorem` | `Spec => []LossesCounted` | `Stationary` |
| `NoOrphanTheorem` | `Spec => []OrphansCounted` | `Stationary` |
| `ShutdownTheorem` | `Spec => CleanShutdownKeepsIndex` | `Stationary` |
| `MigrationPendingTheorem` | `Spec => []PendingOrPersisted` | `OneMover` |
| `MigrationShutdownTheorem` | `Spec => CleanShutdownKeepsIndex` | `Uninterrupted` |
| `MigrationStoreTheorem` | `Spec => ImplementsDocumentStore` | `Uninterrupted`, no disk fault |
| `ScannersAgree` | `simpleTokenize` returns the words of `tokenize` | any text |
| `TokensAreRuns` | `tokenize` cuts the text into its maximal runs, with or without a letter or digit | any text |
| `TokensAreWords` | the tokens with a letter or digit are the runs that have one (`CutsIntoWords`) | any text |
| `DocumentTypeTheorem` | `IndexSpec => []TypeOK` | the modules' assumptions |
| `TokenizersAgreeTheorem` | `IndexSpec => []TokenizersAgree` | the modules' assumptions |
| `MaximalRunsTheorem` | `IndexSpec => []WordsAreMaximalRuns` | the modules' assumptions |
| `PostingsTheorem` | `IndexSpec => []PostingsAreTokens` | the modules' assumptions |
| `IntersectExact` | `positionalIntersect` returns the positions of the second list that follow one of the first | any two finite sets of positions |
| `SearchTheorem` | `ExactPhrase` and `HitsOccur` of any query | any index of finite posting lists, completions that are the indexed words a token starts, each once |
| `ExactPhrasesTheorem` | `IndexSpec => []ExactPhrases` | the modules' assumptions |
| `NeverInventsTheorem` | `IndexSpec => []SearchNeverInvents` | the modules' assumptions |
| `WordsFoundTheorem` | `IndexSpec => []WordsFoundWhereTheyAre` | the modules' assumptions |
| `InsertSound`, `DeleteSound` | inserting and deleting a word leaves a ternary search tree that spells the words there were, with it and without it | any tree of that kind, any word but the empty one |
| `SearchTreeWellFormed` | `SearchTree(tree) => WellFormed(tree)` | any tree |
| `TraversalsSound`, `PrefixSearchSound` | `prefixHelper` and `countWords` find the words the nodes spell; `prefixSearch` those a prefix starts, in order | any ternary search tree, any prefix but the empty one |
| `SearchImplementsIndex` | `Spec => IndexSpec` of `DocumentSearch` | the modules' assumptions |
| `TreeTheorem` | `Spec => []TreeWellFormed` | the modules' assumptions |
| `PrefixSearchTheorem` | `Spec => []PrefixSearchExact` | the modules' assumptions |
| `HealthCountsTheorem` | `Spec => []HealthCountsAgree` | the modules' assumptions |
| `AnswersTheorem` | `Spec => []AnswersExact` | the modules' assumptions |
| `IndexTheoremsHold` | `Spec => []` of the properties proved of `IndexSpec` | the modules' assumptions |

The assumptions are real ones, and a run shows what happens without each.

- `Flat`: no directory of the instance lies beneath another. The load scans
  recursively while migration and deletion work in one directory, so with
  nested directories two segments of one file can be loaded, and
  `MergePartialLoadIndexThreadWorkers` mixes them (run `nested`).
- `Stationary`: `Flat`, `OwnNames` (no two files with the same last path
  component: run `collision`) and no reconfiguring thread. Crashes, restarts,
  disk faults and any number of handlers, files and queued jobs are covered.
- `OneMover`: `Flat`, `OwnNames`, at most one reconfiguring thread (run
  `terminate`), and no request deletes: a deletion beside a migration can make
  it fail and leave the process without a serializer (run `stalled`), or miss
  the segment (run `undeleted`). The mover may migrate between any directories and devices, any
  number of times, while the others index and search; crashes at any step and
  restarts are covered.
- `Uninterrupted`: `OneMover`, every reconfiguration is part of a
  `POST /index/build`, which saves the new path (run `configLost` shows the
  other route), and no crash: a process killed in the middle of a migration
  leaves segments in two directories, of which the next start reads one.

`DocumentIndex` assumes that texts, queries and the members of `Terms` are
sequences of bytes and that `Terms` contains the words of the texts.

### The index and the engine

`IndexTheorems` proves, for the pure operators, that indexing
(`BuildSound`), removal (`RemoveCoherent`), loading a whole segment of a file
not yet present (`LoadSound`) and saving (`SaveSound`) preserve types and
coherence, and what they leave of other files. `EngineTheorems` lifts this with
two inductive invariants:

- `TypeInv` = `TypeOK` with `Locking` (a writer excludes readers; who is in a
  critical section holds the lock; nothing runs before the worker starts),
  `BatchIndexed` and `JobIndexed` (what has been merged, and what is being
  saved, is indexed: without it the type of a dirty job, whose generation is
  not 0, is not inductive) and `ListedExist`.
- `DataInv` = `Coherent`, `SegmentsSound`, and two facts about what is in
  flight: `MovingSound` (a copied segment was sound when it was read) and
  `LoadInv` (segments not loaded yet are of files not loaded yet). `Coherent`
  alone is not inductive, since a load takes its input from the segments, and
  they take theirs from the index.

`NeverTerminatesTheorem` has its own invariant `Stopped`: between join and
restart there is no worker, and only a reconfiguring thread is there.

`TotalTheorem` is about a sum. A fold is defined by recursion over the subsets
of its domain, so what it computes needs an induction over a finite set. The
library's induction rules take a predicate as a parameter, which the provers
cannot instantiate; `SubsetInduction` takes the set of the subsets that satisfy
the predicate instead, and gets its step from the well-foundedness of the
subset ordering. With it `FoldIsSum` (`IndexTheorems`) says that the fold is 0 on the empty
function and grows by the summand of each element, from which the effect of
registering and removing a file on the total follows. The invariant adds to
`DataInv` that finitely many files are indexed.

### The document store and persistence

`StoreTheorems` proves the refinement on top of these. Its invariant
`StoreInv` adds `Settled` (everything stays in the default directory, and the
file of a deletion is out of the index until its segment is gone, so removing
the segment is the store's `Remove`). `SameSave`, `RemoveKeeps`, `BuildKeeps`
and `LoadRestores` say what an operation leaves of the documents of other
files; `ShelfPut` and `ShelfDrop` what a write or an unlink does to the shelf,
which is where `BinName` must be injective. Each of the three groups of
actions is then shown, action by action, to be a step of the store or none
(`RequestRefines`, `WorkerRefines`, `ProcessRefines`).

It also proves the persistence properties, with `RestoreInv`:

- `FewLost`: `LossesCounted` in the default directory. A step whose disk
  access fails loses at most the file of its job and costs a fault; no other
  step loses any (`StillAtMost`, `OneMoreAtMost`).
- `FewOrphans`: but for one for each fault, a segment belongs to an indexed
  file, to a deletion under way, or to a load under way. The last is what makes
  it hold through restarts; it is dropped once a load fails, as
  `OrphansCounted` is.
- `JobCurrent`: from the generation check to the last byte the job's
  generation is the file's. The shared lock makes it so, and without it the
  write that ends a pending job could be of an older one.
- `Drained`: the stop flag is raised only when no request is active, and a
  worker that has left, left an empty queue.

At the end of a clean shutdown `Drained` leaves nothing pending, so on a disk
without faults `FewLost` and `FewOrphans`, with nothing to count
(`AtMostNone`), give the two halves of `RestoresIndex`.

### Migrations

`MigrationTheorems` replaces `Settled` by what holds while one thread moves the
segments. `ControlInvariance` proves the invariant about control:

- `Mover`: a thread between join and restart is the one that reconfigures, and
  there is no worker meanwhile; the directory it moves from is `indexBin`.
- `WorkerHome`: a worker that saves does so in the current directory. The path
  it read before is still the current one, because it was joined before the
  path changed.
- `Listing`: what is still to move is in the current directory and, when the
  two directories differ, everything in the current directory is still to move;
  what is being copied is in both, byte for byte.

`KeptInvariance` adds `NoneLost`: the current document of a file that is not
pending is in the one directory that counts, the new one if its segment has
been moved and the current one otherwise, and `JobCurrent` from above. This is
`MigrationPendingTheorem`. For the shutdown, `WorkerReturns` says that whoever
stopped the worker is still on the way to start it again, so that the
destructor finds a worker and an empty queue; and `TidyInv` (`TidyInvariance`)
that `config.json` names the current directory except while a build is about to
write it (`ConfigKept`), that the other directories are empty except for what
is being moved (`Alone`), and that every segment is of an indexed file or about
to be loaded (`AllKnown`). From `Alone` it also follows that a copy adds to the
shelf only what is already there, so that a migration is no step of the store
at all (`MigrationKeepsShelf`).

### From bytes to postings

`TokenizerTheorems` is about every text. A loop is a recursive function over
the bytes; `LoopExists` shows that its equation has a solution, and
`SimpleScanUnrolls` and `ScanUnrolls` that the loops satisfy it, one byte at a
time. `Counting` is the induction over numbers, again with a set in the place
of a predicate.

- `ScannersAgree`: the two loops have the same word, the same words so far and
  the same bytes to pass over after each byte (`LoopsAgree`), although they
  treat a quotation mark in different places.
- `TokensAreRuns`: after each byte (`ScanInv`) the tokens pushed are the
  maximal runs that have ended, in order and at their offsets; the current word
  spells the run that is open, which starts at `wordStart`; and the bytes to
  pass over are the rest of a quotation mark. `NormalisedGrows` says how the
  spelling of a run grows with its last byte, `OneEnds` and `NoneEnds` which
  run ends at a byte. `TokensAreWords` follows: a token has a letter or digit
  if and only if its run has one (`RunHasAlnum`).

`DocumentTheorems` composes this with `IndexTheorems`. `BuildReplaces`:
indexing a file gives it the postings of its text and leaves those of all
others alone; `BatchKeeps`: so does a batch, whose files may repeat, by
induction over its length. `IndexInv` is `TypeOK`, coherence, finitely many
source and indexed files, and `IndexedAsRead`: the postings of an indexed file
are those of the text that was read. Coherence is needed in it: a removal walks the terms
that the metadata lists, so a posting that no metadata lists would outlive it.

### From a query to its hits

`SearcherTheorems` is about every index, every answer of the tree and every
query.

- `IntersectExact`: the invariant of the loop (`PointersInv`) is that a
  position found follows one of the first list, and that a pair of adjacent
  positions is either found or still ahead of both pointers. Each pass moves at
  least one pointer, so after as many passes as both lists have positions one
  list is used up, and no pair can be ahead any more.
- `ChainSettles`: as long as the loop over the tokens goes on
  (`FollowingInv`), the positions in hand are ends of the tokens so far, and
  all of them if none of these is ambiguous; where it was left (`LeftInv`), the
  hits end the tokens up to there, of which the last is ambiguous if there is
  any hit, and they are all if none before it is. A phrase that does not end at
  a token ends at no later one (`EndsEarlier`), so a loop left without a hit
  has missed nothing. The first token is different: of its completions only the
  first is followed, which is why all hits can be claimed only when it is
  unambiguous.
- `SearchTheorem` puts the three ways through `chainedPositionalIntersect`
  together (`Settled`).

`DocumentTheorems` applies this to every state of `DocumentIndex`.
`PostingsFinite` takes the posting lists from the tokens of the texts, which
makes them finite, and the words of the index finitely many (finitely many
files are indexed: that is part of `IndexInv` for this reason);
`CompletionsAreExact` says that every member of `Completions` is an answer
`SearchTheorem` covers. For `WordsFoundTheorem` the words themselves matter: a
query of one word must be cut into just that word, which holds of the words of
the index since the scanner has put them in lower case (`IndexHasWords`,
`WordIsItself`).

### The tree

`WellFormed`, what the run checks, is about pairs of nodes at any distance, and
is not inductive: it does not say that a word in the wrong place cannot be
inserted again. `TreeTheorems` proves a stronger thing about single nodes.

- `Way(tree, w, q)`: at every node on the path to `q` the word `w` turns as the
  descent would, by comparing its next letter with the node's. `Spells(tree, q,
  w)`: the way of `w` goes to `q` and ends there. `HasWords` says that every
  node ends a word, `Live` that every node is marked or has a child, `IsTree`
  that the nodes are finitely many and each is linked to. The three are
  `SearchTree`, and `WordsIn` is the set of the words marked nodes end.
- The order of siblings at any depth follows (`SearchTreeWellFormed`): the word
  of the lower node turned at the upper one.
- The way of a word is unique (`WayForks`, `WayEnds`), so the descent
  (`DescentFinds`, by the invariant `DescentInv` of its loop) ends at the node
  of the word, or at the only `nullptr` where the word may be added.
- `InsertSound`: the chain of new nodes spells the rest of the word
  (`ChainSpells`), and the words of the other nodes do not change since no
  node's letter does (`SpellsFrame`).
- `DeleteSound`: after each return (`FreedInv`) only marked nodes and nodes
  above one are left, except that the next node up may be unused. A node is
  freed when nothing hangs below it, so no other word loses a node.
- `TraversalsSound`, `PrefixSearchSound`: what is listed below a pointer
  (`Listed`) is sorted and has exactly the words that end under it, without the
  letters above, and the count is its length. The induction is over the height
  of a pointer (`UpwardInduction`), since the recursion is over the nodes below.

`DocumentTheorems` lifts this to histories. `SearchInv` is `IndexInv` and
`Holds(tree, ix.tst)`: the nodes are a `SearchTree` whose words are the words
the index has put in its tree. A request adds and removes words in an order
that nobody knows (`InsertsSound`, `DeletesSound` hold for each), and
`TreesSound` goes through the files of a batch: the words nobody else has go,
then the words nobody had come. That an insertion is never of the empty word,
which the code ignores, comes from the scanner (`BatchHasKeys`). Coherence of
the index (`TreeMatchesIndex`) makes the words of the nodes those of the index,
which gives the four properties; `TreeAnswers` says that `FromTree` is among
the answers `SearchTheorem` covers.

### Only model-checked

- `TornCounted`, and the counts of losses with a reconfiguring thread.
- Liveness (`EventuallySaved`, `ShutdownCompletes`): the prover has no rules
  for fairness and ENABLED. `reconfig` checks it without deletions, beside
  which a migration may leave no serializer (`stalled`).
- Deletions beside a reconfiguration: the persistence properties do not hold
  then, see `stalled` and `undeleted`. What is proved with both is `CoherentTheorem`,
  `TotalTheorem`, `SegmentsTheorem`, `SaveTheorem`, `ReadersTheorem` and
  `NeverTerminatesTheorem`.

## Where the code and its documentation disagree

Each is a run that ends in a violation, with a finding in `PROJECT.json` that
quotes the text.

| Run | Code | Text |
|---|---|---|
| `collision` | a segment is named by the last path component (Engine.cpp:76) | each file has its own `.bin` (README.md:245) |
| `configLost` | `POST /config/indexBin` does not save the configuration (ApiServer.cpp:84) | it persists `config/config.json` (README.md:262-265) |
| `terminate` | `modifyIndexBinPath` takes no lock; two of them assign over a joinable thread (Engine.cpp:154) | reconfiguration takes the exclusive lock (README.md:212-213) |
| `stalled` | a migration that meets a deleted entry fails, with no serializer left (Engine.cpp:158) | the serializer is restarted (README.md:263-265) and deletion excludes reconfiguration (README.md:212-213) |
| `undeleted` | a deletion reads `config.indexBin` without a lock while a migration moves the segment (Engine.cpp:165): the segment stays | deleting a file removes its segment (README.md:247-248) and deletion excludes reconfiguration (README.md:212-213) |
| `partialLoad` | one unreadable segment ends the load (IndexSerializer.cpp:108) | the load should go on (tests/TestIndexSerializer.cpp:271-273) |
| `nested` | the merge of a loaded segment removes nothing, and the scan is recursive (IndexSerializer.cpp:94, 198): two segments of one file leave postings that no metadata lists, and a search throws | it never throws (tests/TestIndexer.cpp:332-333) |
| `phrase` | of the completions of a phrase's first word only one is followed (Searcher.cpp:62) | tokens are expanded by prefix, then intersected (README.md:106-108) |

One disagreement has no run. Tokenizer.cpp:5 says that `tokenize` "extracts
only alphanumeric words", but a hyphen or an apostrophe starts a word like a
letter does (Tokenizer.cpp:70, and line 19 in `simpleTokenize`): between blanks
it becomes a token of its own, is indexed, put in the tree, and takes up a
position between the words of a phrase. The disabled test at
tests/TestTokenizer.cpp:144-152 lists it as a bug. The model does what the code
does, the texts of `search` have such tokens, and `WordsAreMaximalRuns` is
therefore stated for the tokens with a letter or digit.

## What is not modelled

- The BM25 formula and the ranking by it (floating point), the grouping of
  hits by file for the answer, JSON, HTTP status codes, logging, and the byte
  layout of a segment.
- Dead code: `getTotalTokens`, `isolateLastToken`, `printTST`; and the tree's
  destructor, after which nobody looks.
- That a route refuses a source file that is not text or Markdown, and that
  `modifyIndexBinPath` refuses an empty path, a root or a file: nothing changes
  then. `DocumentSearch` has the guard that the file exists; `Engine` lets any
  file be indexed or deleted, which adds behaviours and removes none.
- `/index/Health` beside a request: one of its counts walks the tree without a
  lock (Engine.cpp:215) while nodes are freed. What it then prints, or whether
  it survives, is undefined; `HealthCountsAgree` is about the time between
  requests.
- A start at which `indexBin` itself cannot be created (the constructor throws,
  `main` ends, and the process stays down) or listed (`load` returns false with
  nothing loaded, as after `LoadAborts` on a first segment that is unreadable).
- Reordering below the file system interface: a crash of the machine may lose
  writes that a crash of the process does not (the code never syncs). The
  model's crash keeps what was written.
- The exceptions that leave a handler (a build over a path that does not exist
  throws in `recursive_directory_iterator` and Crow answers 500): the state is
  that of `BuildFindsNoFiles`.
- Crow and Asio: vendored in src/include, about a hundred times the size of
  the program itself, and used only as a pool of threads. Tests, benchmarks
  and sample data.

## Plan

Done: `Indexer`, `IndexSerializer`, `Engine` and their runs, since the
persistence protocol is what a test reaches least; `DocumentStore` and the
refinement; the tree, the scanners, the searcher and `DocumentSearch`; nested
directories; and the theorems above, those with a reconfiguring thread, the sum,
the scanners, the searcher and the tree included.

Left: deletions beside a reconfiguration, for which the properties that do
survive (run `stalled` shows which do not) would have to be stated first; and
the grouping and ranking of hits, once the formula is abstracted to an order.
