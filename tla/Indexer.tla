------------------------------- MODULE Indexer -------------------------------
(***************************************************************************)
(* The in-memory inverted index (src/src/Indexer.cpp) as operators on one  *)
(* record ix:                                                              *)
(*                                                                         *)
(*   ix.index               term -> (file -> token positions)              *)
(*   ix.fileToTerms         file -> [tokenCount, uniqueTerms, generation]  *)
(*   ix.totalTokensInIndex  the token count BM25 averages over             *)
(*   ix.tst                 the words marked in the ternary search tree    *)
(*                                                                         *)
(* unordered_maps are partial functions; "key absent" and "key mapped to   *)
(* an empty map" are different states, as in the code.  A document is the  *)
(* sequence of its tokens.  A posting vector<WordLocation> is the set of   *)
(* its token positions: the tokenizer emits them in increasing order and   *)
(* nothing reorders them, so the set determines the vector.                *)
(***************************************************************************)
EXTENDS Integers, Sequences, FiniteSets, Functions

CONSTANTS Files,  \* canonical source paths
          Terms   \* tokens

(* The contents of an unordered_map: a partial function from S to T.       *)
IsMap(map, S, T) == DOMAIN map \subseteq S /\ map \in [DOMAIN map -> T]

(* operator[] assignment.                                                  *)
Put(map, key, value) ==
  [x \in DOMAIN map \cup {key} |-> IF x = key THEN value ELSE map[x]]

Without(map, key) == Restrict(map, DOMAIN map \ {key})

EmptyMap == [x \in {} |-> {}]

FileMetadata == [tokenCount : Nat, uniqueTerms : SUBSET Terms, generation : Nat \ {0}]

IsIndex(ix) ==
  /\ ix = [index |-> ix.index, fileToTerms |-> ix.fileToTerms,
           totalTokensInIndex |-> ix.totalTokensInIndex, tst |-> ix.tst]
  /\ DOMAIN ix.index \subseteq Terms
  /\ \A t \in DOMAIN ix.index : IsMap(ix.index[t], Files, SUBSET Nat)
  /\ IsMap(ix.fileToTerms, Files, FileMetadata)
  /\ ix.totalTokensInIndex \in Int
  /\ ix.tst \subseteq Terms

EmptyIndex == [index |-> EmptyMap, fileToTerms |-> EmptyMap,
               totalTokensInIndex |-> 0, tst |-> {}]

-----------------------------------------------------------------------------
(* A plausible bug: token positions counted from 1.                        *)
PartialIndexFromOne(file, text) ==
  LET tokens == {text[i] : i \in 1 .. Len(text)}
  IN  [filePath |-> file,
       localIndex |-> [t \in tokens |-> {p \in 1 .. Len(text) : text[p] = t}],
       localFileToTerms |->
         [tokenCount |-> Len(text), uniqueTerms |-> tokens, generation |-> 0]]

(* One document read and tokenized on its own, sharing nothing.            *)
PartialIndexThreadWorkers(file, text) ==
  LET tokens == {text[i] : i \in 1 .. Len(text)}
  IN  [filePath |-> file,
       localIndex |-> [t \in tokens |-> {p \in 0 .. Len(text) - 1 : text[p + 1] = t}],
       localFileToTerms |->
         [tokenCount |-> Len(text), uniqueTerms |-> tokens, generation |-> 0]]

FilePresent(ix, file) == file \in DOMAIN ix.fileToTerms

GetFileGen(ix, file) ==
  IF FilePresent(ix, file) THEN ix.fileToTerms[file].generation ELSE 0

(* try_emplace each term, a term new to the index going to the tree too,   *)
(* then the file's posting list.                                           *)
InsertPostings(ix, file, localIndex) ==
  LET Docs(t) == IF t \in DOMAIN ix.index THEN ix.index[t] ELSE EmptyMap
  IN  [index |-> [t \in DOMAIN ix.index \cup DOMAIN localIndex |->
                    IF t \in DOMAIN localIndex
                    THEN Put(Docs(t), file, localIndex[t]) ELSE ix.index[t]],
       tst |-> ix.tst \cup (DOMAIN localIndex \ DOMAIN ix.index),
       fileToTerms |-> ix.fileToTerms,
       totalTokensInIndex |-> ix.totalTokensInIndex]

(* The metadata of a file whose postings are in; the total grows by it.    *)
Register(ix, file, metadata) ==
  [index |-> ix.index, tst |-> ix.tst,
   fileToTerms |-> Put(ix.fileToTerms, file, metadata),
   totalTokensInIndex |-> ix.totalTokensInIndex + metadata.tokenCount]

-----------------------------------------------------------------------------
(* A plausible bug: a term whose last posting goes keeps its empty map and *)
(* its word in the tree.                                                   *)
RemoveKeepsEmptyTerms(ix, file) ==
  IF ~FilePresent(ix, file) THEN ix
  ELSE [ix EXCEPT
         !.index = [t \in DOMAIN @ |-> Without(@[t], file)],
         !.totalTokensInIndex = @ - ix.fileToTerms[file].tokenCount,
         !.fileToTerms = Without(@, file)]

(* A plausible bug: the token count is left in the total.                  *)
RemoveKeepsTotal(ix, file) ==
  LET emptied == {t \in DOMAIN ix.index : DOMAIN ix.index[t] = {file}}
  IN  [ix EXCEPT
        !.index = [t \in DOMAIN @ \ emptied |-> Without(@[t], file)],
        !.tst = @ \ emptied,
        !.fileToTerms = Without(@, file)]

(* removeFileFromIndex walks the terms the metadata lists: what it does    *)
(* not list, it does not remove.                                           *)
RemoveFileFromIndex(ix, file) ==
  IF ~FilePresent(ix, file) THEN ix
  ELSE LET terms == ix.fileToTerms[file].uniqueTerms
           Left(t) == IF t \in terms THEN Without(ix.index[t], file) ELSE ix.index[t]
           emptied == {t \in terms \cap DOMAIN ix.index : DOMAIN Left(t) = {}}
       IN  [index |-> [t \in DOMAIN ix.index \ emptied |-> Left(t)],
            tst |-> ix.tst \ emptied,
            fileToTerms |-> Without(ix.fileToTerms, file),
            totalTokensInIndex |->
              ix.totalTokensInIndex - ix.fileToTerms[file].tokenCount]

(* A plausible bug: reindexing merges over the old postings.               *)
MergeOverOldPostings(ix, partial) ==
  LET file == partial.filePath
  IN  Register(InsertPostings(ix, file, partial.localIndex), file,
               [partial.localFileToTerms EXCEPT !.generation = GetFileGen(ix, file) + 1])

(* A plausible bug: the generation is carried over, not bumped.            *)
MergeKeepsGeneration(ix, partial) ==
  LET file == partial.filePath
  IN  Register(InsertPostings(RemoveFileFromIndex(ix, file), file, partial.localIndex), file,
               [partial.localFileToTerms EXCEPT !.generation = GetFileGen(ix, file)])

(* The next generation is read before the removal erases it.               *)
MergePartialIndexThreadWorkers(ix, partial) ==
  LET file == partial.filePath
      nextGeneration == GetFileGen(ix, file) + 1
      removed == RemoveFileFromIndex(ix, file)
  IN  Register(InsertPostings(removed, file, partial.localIndex), file,
               [partial.localFileToTerms EXCEPT !.generation = nextGeneration])

(* buildIndex of one file does inline what the batch does with a partial   *)
(* result.  text = <<>> also stands for a file that could not be read: the *)
(* exception is swallowed and the file indexed with no tokens.             *)
BuildIndex(ix, file, text) ==
  MergePartialIndexThreadWorkers(ix, PartialIndexThreadWorkers(file, text))

-----------------------------------------------------------------------------
(* The parts of the index that must agree.                                 *)

(* The tree holds the words of the index (/index/Health prints both).      *)
TreeMatchesIndex(ix) == ix.tst = DOMAIN ix.index

NoEmptyTerm(ix) == \A t \in DOMAIN ix.index : DOMAIN ix.index[t] # {}

(* A posting has metadata: search and computeScore look both up with at(). *)
PostingsHaveMetadata(ix) ==
  \A t \in DOMAIN ix.index : \A f \in DOMAIN ix.index[t] :
    FilePresent(ix, f) /\ t \in ix.fileToTerms[f].uniqueTerms

MetadataHasPostings(ix) ==
  \A f \in DOMAIN ix.fileToTerms : \A t \in ix.fileToTerms[f].uniqueTerms :
    t \in DOMAIN ix.index /\ f \in DOMAIN ix.index[t]

(* The sum of the token counts of the files a map of metadata knows.       *)
TokenTotal(fileToTerms) == FoldFunction(LAMBDA m, sum : m.tokenCount + sum, 0, fileToTerms)

(* A document with these postings has n tokens: every position holds       *)
(* exactly one term, and a term with a posting occurs.                     *)
Tiles(postings, n) ==
  /\ \A t \in DOMAIN postings : postings[t] # {} /\ postings[t] \subseteq 0 .. n - 1
  /\ \A p \in 0 .. n - 1 : \E t \in DOMAIN postings : p \in postings[t]
  /\ \A t, u \in DOMAIN postings : t # u => postings[t] \cap postings[u] = {}

(* The posting lists of one file, by term.                                 *)
PostingsOf(ix, file) ==
  [t \in {u \in DOMAIN ix.index : file \in DOMAIN ix.index[u]} |-> ix.index[t][file]]

PositionsTile(ix) ==
  \A f \in DOMAIN ix.fileToTerms : Tiles(PostingsOf(ix, f), ix.fileToTerms[f].tokenCount)

CoherentIndex(ix) ==
  /\ TreeMatchesIndex(ix)
  /\ NoEmptyTerm(ix)
  /\ PostingsHaveMetadata(ix)
  /\ MetadataHasPostings(ix)
  /\ PositionsTile(ix)
=============================================================================
