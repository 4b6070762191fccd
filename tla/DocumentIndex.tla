---------------------------- MODULE DocumentIndex ----------------------------
(***************************************************************************)
(* From the bytes of the source files to the inverted index and the answer *)
(* of a query: the requests of src/src/ApiServer.cpp that index and delete *)
(* files, with the tokenizer, the index and the searcher put together.  A  *)
(* request is one step: Engine models how engineMutex keeps requests       *)
(* apart.                                                                  *)
(*                                                                         *)
(* Words are sequences of byte values: Terms is a set of them.  A posting  *)
(* is a token position here too; its byte offset is the one the token had  *)
(* in the text that was indexed.                                           *)
(***************************************************************************)
EXTENDS Indexer, Searcher

CONSTANTS Texts,         \* the contents a .txt or .md file may have, in bytes
          Queries,       \* the queries GET /search may come with, in bytes
          MaxGeneration  \* bound

Bytes == 0 .. 255

ASSUME TextsAssumption == Texts \subseteq Seq(Bytes) /\ Queries \subseteq Seq(Bytes)

(* Every word of a document is a term.                                     *)
ASSUME WordsAssumption ==
  Terms \subseteq Seq(Bytes) /\ \A text \in Texts : WordsOf(Tokenize(text)) \in Seq(Terms)

VARIABLES source,  \* on disk: regular .txt and .md file -> text
          indexed, \* indexed file -> the text it had when it was read
          ix       \* indexer

documents == <<source, indexed, ix>>

IndexInit == source = EmptyMap /\ indexed = EmptyMap /\ ix = EmptyIndex

(* Files come, change and go without the server noticing.                  *)
Edit(f, text) ==
  /\ source' = Put(source, f, text)
  /\ UNCHANGED <<indexed, ix>>

Erase(f) ==
  /\ f \in DOMAIN source
  /\ source' = Without(source, f)
  /\ UNCHANGED <<indexed, ix>>

(* The index after each file of a batch.                                   *)
Batch(files) ==
  LET after[n \in 0 .. Len(files)] ==
        IF n = 0 THEN ix
        ELSE BuildIndex(after[n - 1], files[n], WordsOf(Tokenize(source[files[n]])))
  IN  after

IndexFiles(files) ==
  /\ \A n \in DOMAIN files : GetFileGen(ix, files[n]) < MaxGeneration
  /\ ix' = Batch(files)[Len(files)]
  /\ indexed' = [f \in DOMAIN indexed \cup ToSet(files) |->
                   IF f \in ToSet(files) THEN source[f] ELSE indexed[f]]
  /\ UNCHANGED source

(* POST /index/file.                                                       *)
AddFileToIndex(f) ==
  /\ f \in DOMAIN source
  /\ IndexFiles(<<f>>)

(* The files below a path, in the order a listing may have them.           *)
Listings == UNION {SetToSeqs(below) : below \in SUBSET DOMAIN source}

(* POST /index/build, refused for a path without files.  Files that are    *)
(* gone stay indexed.                                                      *)
BuildInitialIndex(files) ==
  /\ files \in Listings
  /\ files # <<>>
  /\ IndexFiles(files)

(* DELETE /index/file, refused when the file is gone.                      *)
DeleteFileFromIndex(f) ==
  /\ f \in DOMAIN source
  /\ ix' = RemoveFileFromIndex(ix, f)
  /\ indexed' = Without(indexed, f)
  /\ UNCHANGED source

IndexNext ==
  \/ \E f \in Files :
       \/ \E text \in Texts : Edit(f, text)
       \/ Erase(f) \/ AddFileToIndex(f) \/ DeleteFileFromIndex(f)
  \/ \E files \in Listings : BuildInitialIndex(files)

IndexSpec == IndexInit /\ [][IndexNext]_documents

(* What a tree of the indexed words may answer for the tokens of a query   *)
(* that are not indexed: DocumentSearch models the tree.                   *)
Completions(query) ==
  LET words == [token \in ToSet(SimpleTokenize(query)) \ DOMAIN ix.index |->
                  {w \in DOMAIN ix.index : IsPrefix(token, w)}]
  IN  {completions \in [DOMAIN words -> UNION {SetToSeqs(words[token]) : token \in DOMAIN words}] :
         \A token \in DOMAIN words : completions[token] \in SetToSeqs(words[token])}

-----------------------------------------------------------------------------
TypeOK ==
  /\ IsMap(source, Files, Texts)
  /\ IsMap(indexed, Files, Texts)
  /\ DOMAIN indexed = DOMAIN ix.fileToTerms
  /\ IsIndex(ix)

(* What is on disk, cut off at any byte, even inside a quotation mark, and *)
(* the queries.                                                            *)
TextsRead == UNION {Prefixes(source[f]) \cup Suffixes(source[f]) : f \in DOMAIN source}

(* Queries and documents are cut into the same words (Tokenizer.cpp:11-31, *)
(* 52-93): otherwise a document is not found by its own text.              *)
TokenizersAgree ==
  \A text \in TextsRead \cup Queries : SimpleTokenize(text) = WordsOf(Tokenize(text))

(* The words of a text, its runs of word bytes with a letter or digit, are *)
(* the tokens that have one, from first to last, and each offset is the    *)
(* first byte of its run, before and after a three-byte quotation mark:    *)
(* the highlighting of a hit starts where the word does.                   *)
WordsAreMaximalRuns == \A text \in TextsRead : CutsIntoWords(text, Tokenize(text))

(* The posting lists say of every word at which token positions the texts, *)
(* as they were last read, have it, and nothing else: indexing, reindexing *)
(* and deleting in any order leave no posting of an earlier text and lose  *)
(* none of another file (Indexer.cpp:36-51, 104-122).                      *)
PostingsAreTokens ==
  \A f \in Files :
    LET tokens == IF f \in DOMAIN indexed THEN ToSet(Tokenize(indexed[f])) ELSE {}
    IN  \A w \in Terms :
          (IF w \in DOMAIN ix.index /\ f \in DOMAIN ix.index[w] THEN ix.index[w][f] ELSE {})
            = {token.tokenPos : token \in {t \in tokens : t.word = w}}

(* Searching for a word finds every place where the texts, as they were    *)
(* last indexed, have it, and no other: nothing of an earlier text or of a *)
(* deleted file is left, nothing is lost to another file, and the token    *)
(* position of a hit is the one its offset belongs to.                     *)
WordsFoundWhereTheyAre ==
  LET tokens == [f \in DOMAIN indexed |-> ToSet(Tokenize(indexed[f]))]
      words  == UNION {{token.word : token \in tokens[f]} : f \in DOMAIN tokens}
  IN  \A w \in DOMAIN ix.index \cup words : \A completions \in Completions(w) :
        {<<hit[2], hit[3]>> : hit \in {h \in Hits(Search(ix.index, completions, w)) : h[1] = w}}
          = UNION {{<<f, token.tokenPos>> : token \in {t \in tokens[f] : t.word = w}} :
                     f \in DOMAIN tokens}

(* A phrase whose words but the last are unambiguous is found wherever it  *)
(* occurs and nowhere else, repeated words included: the two pointers skip *)
(* no occurrence (Searcher.cpp:16-31).                                     *)
ExactPhrases ==
  \A query \in Queries : \A completions \in Completions(query) :
    ExactPhrase(ix.index, completions, query)

(* Whatever the ambiguities, a hit ends an occurrence of the whole query   *)
(* or of the part of it up to a word with several completions, and which   *)
(* completion comes first makes no difference to that.                     *)
SearchNeverInvents ==
  \A query \in Queries : \A completions \in Completions(query) :
    HitsOccur(ix.index, completions, query)
=============================================================================
