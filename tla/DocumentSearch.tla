---------------------------- MODULE DocumentSearch ----------------------------
(***************************************************************************)
(* DocumentIndex with the nodes of the ternary search tree, which every    *)
(* request that changes the index changes too, and the searcher: from the  *)
(* bytes of the source files to the answer of a query.                     *)
(***************************************************************************)
EXTENDS DocumentIndex, TernarySearchTree

VARIABLE tree  \* tst

vars == <<source, indexed, ix, tree>>

Init == IndexInit /\ tree = EmptyTree

EditFile(f, text) == Edit(f, text) /\ UNCHANGED tree

EraseFile(f) == Erase(f) /\ UNCHANGED tree

-----------------------------------------------------------------------------
(* The tree after each of some words has been added or removed.            *)
Inserts(root, words) ==
  LET after[n \in 0 .. Len(words)] ==
        IF n = 0 THEN root ELSE Insert(after[n - 1], words[n])
  IN  after

Deletes(root, words) ==
  LET after[n \in 0 .. Len(words)] ==
        IF n = 0 THEN root ELSE DeleteTerm(after[n - 1], words[n])
  IN  after

(* The trees any order may lead to: the words come from unordered          *)
(* containers.                                                             *)
AfterInserts(root, words) == {Inserts(root, order)[Len(order)] : order \in SetToSeqs(words)}

AfterDeletes(root, words) == {Deletes(root, order)[Len(order)] : order \in SetToSeqs(words)}

(* What the tree may be after indexing f: the words nobody else has go,    *)
(* the words nobody has come.                                              *)
Merged(before, after, f, root) ==
  LET removed == RemoveFileFromIndex(before, f)
  IN  UNION {AfterInserts(r, after.tst \ removed.tst) :
               r \in AfterDeletes(root, before.tst \ removed.tst)}

(* And after each file of a batch.                                         *)
TreesAfter(files) ==
  LET after[n \in 0 .. Len(files)] ==
        IF n = 0 THEN {tree}
        ELSE UNION {Merged(Batch(files)[n - 1], Batch(files)[n], files[n], root) :
                      root \in after[n - 1]}
  IN  after[Len(files)]

AddFile(f) == AddFileToIndex(f) /\ tree' \in TreesAfter(<<f>>)

Build(files) == BuildInitialIndex(files) /\ tree' \in TreesAfter(files)

DeleteFile(f) == DeleteFileFromIndex(f) /\ tree' \in AfterDeletes(tree, ix.tst \ ix'.tst)

(* Without the tree, a step of DocumentIndex.                              *)
Next ==
  \/ \E f \in Files :
       \/ \E text \in Texts : EditFile(f, text)
       \/ EraseFile(f) \/ AddFile(f) \/ DeleteFile(f)
  \/ \E files \in Listings : Build(files)

Spec == Init /\ [][Next]_vars

(* What prefixSearch answers the searcher for the tokens of a query.       *)
FromTree(query) == [token \in ToSet(SimpleTokenize(query)) |-> PrefixSearch(tree, token)]

Answer(query) == Search(ix.index, FromTree(query), query)

-----------------------------------------------------------------------------
(* The nodes stay a ternary search tree without dead weight, and spell the *)
(* indexed words, whatever was inserted and freed in whatever order        *)
(* (TernarySearchTree.cpp:121-138).                                        *)
TreeWellFormed ==
  /\ WellFormed(tree)
  /\ ToSet(PrefixHelper(tree)[<<>>]) = DOMAIN ix.index

(* A prefix finds the indexed words it starts, each once and in            *)
(* lexicographic order, whichever words came and went before, so that the  *)
(* first completion, which Searcher.cpp:62 follows, does not depend on the *)
(* history (TernarySearchTree.cpp:27-90).                                  *)
PrefixSearchExact ==
  \A prefix \in ((UNION {Prefixes(w) : w \in Terms}) \ {<<>>})
                 \cup UNION {ToSet(SimpleTokenize(query)) : query \in Queries} :
    LET found == PrefixSearch(tree, prefix)
    IN  /\ ToSet(found) = {w \in DOMAIN ix.index : IsPrefix(prefix, w)}
        /\ \A i, j \in DOMAIN found : i < j => Before(found[i], found[j])

(* The two counts /index/Health prints agree when no request is under way. *)
HealthCountsAgree == CountWords(tree) = Cardinality(DOMAIN ix.index)

(* What the tree answers for the tokens of a query is enough for the       *)
(* searcher: a phrase whose words but the last are unambiguous is found    *)
(* wherever it occurs and nowhere else, and no hit is invented             *)
(* (Searcher.cpp:16-31, 51-70; TernarySearchTree.cpp:60-90).               *)
AnswersExact ==
  \A query \in Queries :
    ExactPhrase(ix.index, FromTree(query), query) /\ HitsOccur(ix.index, FromTree(query), query)

(* A query finds exactly the adjacent occurrences of its tokens, each one  *)
(* exact or expanded by prefix: README.md:104-108.                         *)
PhraseSearchComplete ==
  \A query \in Queries :
    LET tokens == SimpleTokenize(query)
    IN  tokens # <<>> => Hits(Answer(query)) = Occurrences(ix.index, tokens)
=============================================================================
