--------------------------- MODULE IndexSerializer ---------------------------
(***************************************************************************)
(* The binary segments (src/src/IndexSerializer.cpp): one file's postings  *)
(* and metadata as save writes them, and how load puts them back.  The     *)
(* byte layout is left out; a segment cut short is the value Unreadable,   *)
(* since the reader throws "Buffer underrun" on it whatever the cut.       *)
(***************************************************************************)
EXTENDS Indexer

CONSTANTS Names,      \* names of segment files inside one directory
          BinName,    \* BinName[file]: the last path component plus ".bin"
          Unreadable  \* an empty or partly written file

(* postings[t] = {} for a term the segment does not list.                  *)
Segments == [filePath : Files, tokenCount : Nat, generation : Nat \ {0},
             postings : [Terms -> SUBSET Nat]]

Contents == Segments \cup {Unreadable}

ASSUME UnreadableAssumption == Unreadable \notin Segments

(* Paths with the same last component share a name: BinName need not be    *)
(* injective.                                                              *)
ASSUME BinNameAssumption == BinName \in [Files -> Names]

(* The listed terms save finds in the index; it counts them as             *)
(* writtenTerms and asserts that they are all of uniqueTerms.              *)
WrittenTerms(ix, file) ==
  {t \in ix.fileToTerms[file].uniqueTerms :
     t \in DOMAIN ix.index /\ file \in DOMAIN ix.index[t]}

Save(ix, file) ==
  [filePath |-> file,
   tokenCount |-> ix.fileToTerms[file].tokenCount,
   generation |-> ix.fileToTerms[file].generation,
   postings |-> [t \in Terms |-> IF t \in WrittenTerms(ix, file) THEN ix.index[t][file] ELSE {}]]

ListedTerms(segment) == {t \in Terms : segment.postings[t] # {}}

(* A segment of one whole document.                                        *)
Whole(segment) ==
  Tiles(Restrict(segment.postings, ListedTerms(segment)), segment.tokenCount)

PartialLoadIndexThreadWorkers(segment) ==
  LET terms == ListedTerms(segment)
  IN  [filePath |-> segment.filePath,
       localIndex |-> Restrict(segment.postings, terms),
       localFileToTerms |-> [tokenCount |-> segment.tokenCount, uniqueTerms |-> terms,
                             generation |-> segment.generation]]

(* Unlike the merge of a built index, this one does not remove what the    *)
(* index already holds of the file.                                        *)
MergePartialLoadIndexThreadWorkers(ix, partial) ==
  Register(InsertPostings(ix, partial.filePath, partial.localIndex),
           partial.filePath, partial.localFileToTerms)
=============================================================================
