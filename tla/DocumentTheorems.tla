---------------------------- MODULE DocumentTheorems ----------------------------
(***************************************************************************)
(* From the bytes of the files to the postings of the index, the nodes of  *)
(* the tree and the answers of queries, for any files, texts and queries,  *)
(* through every history of requests.                                      *)
(***************************************************************************)
EXTENDS DocumentSearch, IndexTheorems, SearcherTheorems, TreeTheorems

(* The posting lists a text should have.                                   *)
WordPositions(f, text) == PartialIndexThreadWorkers(f, WordsOf(Tokenize(text))).localIndex

(* Indexing a file replaces its postings, and touches no other file        *)
(* (Indexer.cpp:78-102).                                                   *)
LEMMA BuildReplaces ==
  ASSUME NEW kx, IsIndex(kx), CoherentIndex(kx), NEW file \in Files, NEW words \in Seq(Terms)
  PROVE  LET jx == BuildIndex(kx, file, words)
         IN  /\ PostingsOf(jx, file) = PartialIndexThreadWorkers(file, words).localIndex
             /\ \A g \in DOMAIN kx.fileToTerms \ {file} : PostingsOf(jx, g) = PostingsOf(kx, g)
<1> DEFINE partial == PartialIndexThreadWorkers(file, words)
           metadata == [partial.localFileToTerms EXCEPT !.generation = GetFileGen(kx, file) + 1]
           removed == RemoveFileFromIndex(kx, file)
           jx == Register(InsertPostings(removed, file, partial.localIndex), file, metadata)
<1>1. /\ IsPartial(partial)
      /\ partial.filePath = file
      /\ partial.localFileToTerms =
           [tokenCount |-> partial.localFileToTerms.tokenCount,
            uniqueTerms |-> partial.localFileToTerms.uniqueTerms, generation |-> 0]
  BY PartialSound
<1>2. BuildIndex(kx, file, words) = jx
  BY <1>1 DEF BuildIndex, MergePartialIndexThreadWorkers
<1>3. PartialIndexThreadWorkers(file, words).localIndex = partial.localIndex
  OBVIOUS
<1> HIDE DEF partial
<1>4. /\ metadata.tokenCount = partial.localFileToTerms.tokenCount
      /\ metadata.uniqueTerms = DOMAIN partial.localIndex
  BY <1>1 DEF IsPartial
<1>5. /\ Tiles(partial.localIndex, metadata.tokenCount)
      /\ partial.localIndex = [t \in DOMAIN partial.localIndex |-> partial.localIndex[t]]
  BY <1>1, <1>4 DEF IsPartial, IsMap
<1> HIDE DEF metadata
<1>6. /\ IsIndex(removed) /\ CoherentIndex(removed) /\ ~FilePresent(removed, file)
      /\ DOMAIN removed.fileToTerms = DOMAIN kx.fileToTerms \ {file}
      /\ \A g \in DOMAIN removed.fileToTerms : PostingsOf(removed, g) = PostingsOf(kx, g)
  BY RemoveType, RemoveCoherent
<1> HIDE DEF removed
<1>7. /\ PostingsOf(jx, file) = partial.localIndex
      /\ \A g \in DOMAIN removed.fileToTerms : PostingsOf(jx, g) = PostingsOf(removed, g)
  BY <1>4, <1>5, <1>6, InsertCoherent
<1>. QED
  BY <1>2, <1>3, <1>6, <1>7

-----------------------------------------------------------------------------
(* A batch is what its files make of the index one after the other.        *)
LEMMA BatchUnrolls ==
  ASSUME NEW files, Len(files) \in Nat
  PROVE  /\ Batch(files)[0] = ix
         /\ \A n \in 1 .. Len(files) :
              Batch(files)[n]
                = BuildIndex(Batch(files)[n - 1], files[n], WordsOf(Tokenize(source[files[n]])))
<1> DEFINE m == Len(files)
           Step(kx, n) == BuildIndex(kx, files[n], WordsOf(Tokenize(source[files[n]])))
           Eq(g, n) == [i \in 0 .. n |-> IF i = 0 THEN ix ELSE Step(g[i - 1], i)]
           batch == CHOOSE g : g = Eq(g, m)
           P == {n \in 0 .. m : \E g : g = Eq(g, n)}
<1>1. Batch(files) = batch
  BY DEF Batch
<1> HIDE DEF Step
<1>2. 0 \in P
  <2> DEFINE g == [i \in 0 .. 0 |-> ix]
  <2>1. g = Eq(g, 0)
    OBVIOUS
  <2>2. 0 \in 0 .. m
    OBVIOUS
  <2> HIDE DEF g
  <2>. QED
    BY <2>1, <2>2
<1>3. ASSUME NEW n \in 1 .. m, n - 1 \in P
      PROVE  n \in P
  <2>1. PICK g : g = Eq(g, n - 1)
    BY <1>3
  <2> DEFINE more == [i \in 0 .. n |-> IF i = n THEN Step(g[n - 1], n) ELSE g[i]]
  <2>2. ASSUME NEW i \in 0 .. n
        PROVE  more[i] = Eq(more, n)[i]
    <3>1. CASE i = 0
      BY <2>1, <3>1
    <3>2. CASE i # 0
      <4>1. i - 1 \in 0 .. n /\ i - 1 # n /\ more[i - 1] = g[i - 1]
        BY <3>2
      <4>2. CASE i = n
        BY <3>2, <4>1, <4>2
      <4>3. CASE i # n
        <5>1. i \in 0 .. n - 1 /\ g[i] = Step(g[i - 1], i)
          BY <2>1, <3>2, <4>3
        <5>. QED
          BY <3>2, <4>1, <4>3, <5>1
      <4>. QED
        BY <4>2, <4>3
    <3>. QED
      BY <3>1, <3>2
  <2>3. more = Eq(more, n)
    BY <2>2
  <2> HIDE DEF more
  <2>. QED
    BY <2>3
<1>4. 0 .. m \subseteq P
  <2> HIDE DEF P, m
  <2>1. m \in Nat
    BY DEF m
  <2>. QED
    BY <1>2, <1>3, <2>1, Counting
<1>5. \E g : g = Eq(g, m)
  BY <1>4
<1>6. batch = Eq(batch, m)
  BY <1>5
<1> HIDE DEF batch
<1>. QED
  BY <1>1, <1>6 DEF Step

(* The files of a batch have the postings of their texts, and the others   *)
(* keep theirs.                                                            *)
BatchSound(files, n) ==
  LET jx   == Batch(files)[n]
      done == {files[k] : k \in 1 .. n}
  IN  /\ IsIndex(jx) /\ CoherentIndex(jx)
      /\ DOMAIN jx.fileToTerms = DOMAIN ix.fileToTerms \cup done
      /\ \A f \in done : PostingsOf(jx, f) = WordPositions(f, source[f])
      /\ \A f \in DOMAIN ix.fileToTerms \ done : PostingsOf(jx, f) = PostingsOf(ix, f)

(* Every file the worker indexes keeps what the batch has established for  *)
(* the files before it.                                                    *)
LEMMA BatchKeeps ==
  ASSUME TypeOK, CoherentIndex(ix), NEW files \in Seq(DOMAIN source), NEW n \in 0 .. Len(files)
  PROVE  BatchSound(files, n)
<1> DEFINE m == Len(files)
           P == {k \in 0 .. m : BatchSound(files, k)}
<1>1. /\ m \in Nat /\ Batch(files)[0] = ix
      /\ \A k \in 1 .. m : Batch(files)[k]
           = BuildIndex(Batch(files)[k - 1], files[k], WordsOf(Tokenize(source[files[k]])))
  BY BatchUnrolls
<1>2. 0 \in P
  <2>1. {files[k] : k \in 1 .. 0} = {}
    OBVIOUS
  <2>. QED
    BY <1>1, <2>1 DEF BatchSound, TypeOK
<1>3. ASSUME NEW k \in 1 .. m, k - 1 \in P
      PROVE  k \in P
  <2> DEFINE kx == Batch(files)[k - 1]
             jx == Batch(files)[k]
             f == files[k]
             words == WordsOf(Tokenize(source[f]))
             before == {files[i] : i \in 1 .. k - 1}
  <2>1. f \in DOMAIN source /\ f \in Files /\ source[f] \in Texts
    BY DEF TypeOK, IsMap
  <2>2. words \in Seq(Terms)
    BY <2>1, WordsAssumption
  <2>3. /\ IsIndex(kx) /\ CoherentIndex(kx)
        /\ DOMAIN kx.fileToTerms = DOMAIN ix.fileToTerms \cup before
        /\ \A g \in before : PostingsOf(kx, g) = WordPositions(g, source[g])
        /\ \A g \in DOMAIN ix.fileToTerms \ before : PostingsOf(kx, g) = PostingsOf(ix, g)
    BY <1>3 DEF BatchSound
  <2>4. jx = BuildIndex(kx, f, words)
    BY <1>1
  <2>5. {files[i] : i \in 1 .. k} = before \cup {f}
    <3>1. 1 .. k = (1 .. k - 1) \cup {k}
      OBVIOUS
    <3>. QED
      BY <3>1
  <2>6. PartialIndexThreadWorkers(f, words).localIndex = WordPositions(f, source[f])
    BY DEF WordPositions
  <2> HIDE DEF kx, jx, f, words, before
  <2>7. /\ IsIndex(jx) /\ CoherentIndex(jx)
        /\ DOMAIN jx.fileToTerms = DOMAIN kx.fileToTerms \cup {f}
    BY <2>1, <2>2, <2>3, <2>4, BuildSound
  <2>8. /\ PostingsOf(jx, f) = WordPositions(f, source[f])
        /\ \A g \in DOMAIN kx.fileToTerms \ {f} : PostingsOf(jx, g) = PostingsOf(kx, g)
    BY <2>1, <2>2, <2>3, <2>4, <2>6, BuildReplaces
  <2>9. \A g \in before \cup {f} : PostingsOf(jx, g) = WordPositions(g, source[g])
    BY <2>3, <2>8
  <2>10. \A g \in DOMAIN ix.fileToTerms \ (before \cup {f}) : PostingsOf(jx, g) = PostingsOf(ix, g)
    BY <2>3, <2>8
  <2>11. DOMAIN jx.fileToTerms = DOMAIN ix.fileToTerms \cup (before \cup {f})
    BY <2>3, <2>7
  <2>12. BatchSound(files, k)
    BY <2>5, <2>7, <2>9, <2>10, <2>11 DEF BatchSound, jx
  <2>. QED
    BY <2>12
<1>4. 0 .. m \subseteq P
  <2> HIDE DEF P, m
  <2>. QED
    BY <1>1, <1>2, <1>3, Counting
<1>. QED
  BY <1>4

-----------------------------------------------------------------------------
(* The postings of a file are those of the text that was read.             *)
IndexedAsRead == \A f \in DOMAIN indexed : PostingsOf(ix, f) = WordPositions(f, indexed[f])

IndexInv ==
  /\ TypeOK
  /\ IsFiniteSet(DOMAIN source) /\ IsFiniteSet(DOMAIN indexed)
  /\ CoherentIndex(ix)
  /\ IndexedAsRead

(* A request that indexes keeps it.                                        *)
LEMMA IndexFilesKeeps ==
  ASSUME IndexInv, NEW files \in Seq(DOMAIN source), IndexFiles(files)
  PROVE  IndexInv'
<1> DEFINE done == ToSet(files)
           m == Len(files)
<1>1. /\ ix' = Batch(files)[m] /\ UNCHANGED source
      /\ indexed' = [f \in DOMAIN indexed \cup done |-> IF f \in done THEN source[f] ELSE indexed[f]]
  BY DEF IndexFiles
<1>2. done = {files[k] : k \in 1 .. m} /\ done \subseteq DOMAIN source
  BY DEF ToSet
<1>3. BatchSound(files, m)
  <2>1. m \in 0 .. Len(files)
    OBVIOUS
  <2> HIDE DEF m
  <2>. QED
    BY <2>1, BatchKeeps DEF IndexInv
<1> HIDE DEF done, m
<1>4. /\ IsIndex(ix') /\ CoherentIndex(ix')
      /\ DOMAIN ix'.fileToTerms = DOMAIN ix.fileToTerms \cup done
      /\ \A f \in done : PostingsOf(ix', f) = WordPositions(f, source[f])
      /\ \A f \in DOMAIN ix.fileToTerms \ done : PostingsOf(ix', f) = PostingsOf(ix, f)
  BY <1>1, <1>2, <1>3 DEF BatchSound
<1>5. TypeOK'
  <2>1. IsMap(indexed', Files, Texts)
    BY <1>1, <1>2 DEF IndexInv, TypeOK, IsMap
  <2>2. DOMAIN indexed' = DOMAIN ix'.fileToTerms
    BY <1>1, <1>4 DEF IndexInv, TypeOK
  <2>. QED
    BY <1>1, <1>4, <2>1, <2>2 DEF IndexInv, TypeOK
<1>6. IndexedAsRead'
  <2> SUFFICES ASSUME NEW f \in DOMAIN indexed' PROVE PostingsOf(ix', f) = WordPositions(f, indexed'[f])
    BY DEF IndexedAsRead
  <2>1. CASE f \in done
    BY <1>1, <1>4, <2>1
  <2>2. CASE f \notin done
    BY <1>1, <1>4, <2>2 DEF IndexInv, IndexedAsRead, TypeOK
  <2>. QED
    BY <2>1, <2>2
<1>7. IsFiniteSet(DOMAIN indexed')
  <2>1. IsFiniteSet(done)
    BY <1>2, FS_Subset DEF IndexInv
  <2>. QED
    BY <1>1, <2>1, FS_Union DEF IndexInv
<1>. QED
  BY <1>1, <1>4, <1>5, <1>6, <1>7 DEF IndexInv

(* A deletion keeps it (Indexer.cpp:104-122).                              *)
LEMMA DeleteKeeps ==
  ASSUME IndexInv, NEW f, DeleteFileFromIndex(f)
  PROVE  IndexInv'
<1>1. ix' = RemoveFileFromIndex(ix, f) /\ indexed' = Without(indexed, f) /\ UNCHANGED source
  BY DEF DeleteFileFromIndex
<1>2. IsIndex(ix) /\ CoherentIndex(ix) /\ DOMAIN indexed = DOMAIN ix.fileToTerms
  BY DEF IndexInv, TypeOK
<1>3. IsIndex(ix')
  BY <1>1, <1>2, RemoveType
<1>4. /\ CoherentIndex(ix')
      /\ DOMAIN ix'.fileToTerms = DOMAIN ix.fileToTerms \ {f}
      /\ \A g \in DOMAIN ix'.fileToTerms : PostingsOf(ix', g) = PostingsOf(ix, g)
  BY <1>1, <1>2, RemoveCoherent
<1>5. DOMAIN indexed' = DOMAIN indexed \ {f} /\ \A g \in DOMAIN indexed' : indexed'[g] = indexed[g]
  BY <1>1 DEF Without, Restrict
<1>6. IsMap(indexed', Files, Texts)
  BY <1>1, WithoutType DEF IndexInv, TypeOK
<1>7. TypeOK'
  BY <1>1, <1>2, <1>3, <1>4, <1>5, <1>6 DEF IndexInv, TypeOK
<1>8. IndexedAsRead'
  BY <1>2, <1>4, <1>5 DEF IndexInv, IndexedAsRead
<1>9. IsFiniteSet(DOMAIN indexed')
  BY <1>5, FS_RemoveElement DEF IndexInv
<1>. QED
  BY <1>1, <1>4, <1>7, <1>8, <1>9 DEF IndexInv

(* And so do changes of the source files.                                  *)
LEMMA SourceKeeps ==
  ASSUME IndexInv, NEW f \in Files, (\E text \in Texts : Edit(f, text)) \/ Erase(f)
  PROVE  IndexInv'
<1>1. UNCHANGED <<indexed, ix>>
  BY DEF Edit, Erase
<1>2. IsMap(source', Files, Texts) /\ IsFiniteSet(DOMAIN source')
  <2>1. IsMap(source, Files, Texts) /\ IsFiniteSet(DOMAIN source)
    BY DEF IndexInv, TypeOK
  <2>2. ASSUME NEW text \in Texts, source' = Put(source, f, text)
        PROVE  IsMap(source', Files, Texts) /\ IsFiniteSet(DOMAIN source')
    <3>1. DOMAIN source' = DOMAIN source \cup {f}
      BY <2>2 DEF Put
    <3>. QED
      BY <2>1, <2>2, <3>1, PutType, FS_AddElement
  <2>3. ASSUME source' = Without(source, f)
        PROVE  IsMap(source', Files, Texts) /\ IsFiniteSet(DOMAIN source')
    <3>1. DOMAIN source' = DOMAIN source \ {f}
      BY <2>3 DEF Without, Restrict
    <3>. QED
      BY <2>1, <2>3, <3>1, WithoutType, FS_RemoveElement
  <2>. QED
    BY <2>2, <2>3 DEF Edit, Erase
<1>. QED
  BY <1>1, <1>2 DEF IndexInv, TypeOK, IndexedAsRead

(* A listing names source files.                                           *)
LEMMA ListedAreSources ==
  ASSUME IsFiniteSet(DOMAIN source), NEW files \in Listings
  PROVE  files \in Seq(DOMAIN source)
<1>1. PICK below \in SUBSET DOMAIN source : files \in SetToSeqs(below)
  BY DEF Listings
<1> DEFINE n == Cardinality(below)
<1>2. n \in Nat
  BY FS_Subset, FS_CardinalityType
<1>3. files \in [1 .. n -> below]
  BY <1>1 DEF SetToSeqs
<1> HIDE DEF n
<1>4. files \in Seq(below)
  BY <1>2, <1>3
<1>. QED
  BY <1>4

(* Types, coherence and the postings of every text hold in every history.  *)
THEOREM IndexInvariance == IndexSpec => []IndexInv
<1>1. IndexInit => IndexInv
  <2> SUFFICES ASSUME IndexInit PROVE IndexInv
    OBVIOUS
  <2>1. DOMAIN EmptyMap = {} /\ IsMap(EmptyMap, Files, Texts)
    BY EmptyMapType DEF EmptyMap
  <2>2. IsIndex(EmptyIndex) /\ CoherentIndex(EmptyIndex) /\ DOMAIN EmptyIndex.fileToTerms = {}
    BY EmptyIndexType, <2>1 DEF EmptyIndex
  <2>. QED
    BY <2>1, <2>2, FS_EmptySet DEF IndexInit, IndexInv, TypeOK, IndexedAsRead
<1>2. IndexInv /\ [IndexNext]_documents => IndexInv'
  <2> SUFFICES ASSUME IndexInv, [IndexNext]_documents PROVE IndexInv'
    OBVIOUS
  <2>1. ASSUME NEW f \in Files, (\E text \in Texts : Edit(f, text)) \/ Erase(f)
        PROVE  IndexInv'
    BY <2>1, SourceKeeps
  <2>2. ASSUME NEW f \in Files, AddFileToIndex(f)
        PROVE  IndexInv'
    <3>1. <<f>> \in Seq(DOMAIN source) /\ IndexFiles(<<f>>)
      BY <2>2 DEF AddFileToIndex
    <3>. QED
      BY <3>1, IndexFilesKeeps
  <2>3. ASSUME NEW f \in Files, DeleteFileFromIndex(f)
        PROVE  IndexInv'
    BY <2>3, DeleteKeeps
  <2>4. ASSUME NEW files \in Listings, BuildInitialIndex(files)
        PROVE  IndexInv'
    <3>1. files \in Seq(DOMAIN source)
      BY ListedAreSources DEF IndexInv
    <3>2. IndexFiles(files)
      BY <2>4 DEF BuildInitialIndex
    <3>. QED
      BY <3>1, <3>2, IndexFilesKeeps
  <2>5. CASE UNCHANGED documents
    BY <2>5 DEF documents, IndexInv, TypeOK, IndexedAsRead
  <2>. QED
    BY <2>1, <2>2, <2>3, <2>4, <2>5 DEF IndexNext
<1>. QED
  BY <1>1, <1>2, PTL DEF IndexSpec

(* Metadata, postings and the bookkeeping of the requests keep their       *)
(* types.                                                                  *)
THEOREM DocumentTypeTheorem == IndexSpec => []TypeOK
<1>1. IndexInv => TypeOK
  BY DEF IndexInv
<1>. QED
  BY <1>1, IndexInvariance, PTL

-----------------------------------------------------------------------------
(* The scanners are proved over numbers.                                   *)
LEMMA BytesAreNumbers == Seq(Bytes) \subseteq Seq(Nat)
<1>1. ASSUME NEW s \in Seq(Bytes)
      PROVE  s \in Seq(Nat)
  <2>1. Len(s) \in Nat /\ \A i \in 1 .. Len(s) : s[i] \in Bytes
    OBVIOUS
  <2>2. \A b \in Bytes : b \in Nat
    BY DEF Bytes
  <2>3. s = [i \in 1 .. Len(s) |-> s[i]]
    OBVIOUS
  <2>. QED
    BY <2>1, <2>2, <2>3
<1>. QED
  BY <1>1

(* A text cut off anywhere is a text.                                      *)
LEMMA CutsAreTexts ==
  ASSUME NEW text \in Seq(Nat)
  PROVE  Prefixes(text) \subseteq Seq(Nat) /\ Suffixes(text) \subseteq Seq(Nat)
<1>1. \A m \in 0 .. Len(text) : SubSeq(text, 1, m) \in Seq(Nat)
  OBVIOUS
<1>2. \A m \in 1 .. Len(text) : SubSeq(text, m, Len(text)) \in Seq(Nat)
  OBVIOUS
<1>3. Prefixes(text) \subseteq Seq(Nat)
  BY <1>1, Zenon DEF Prefixes
<1>4. <<>> \in Seq(Nat)
  OBVIOUS
<1>5. Suffixes(text) \subseteq Seq(Nat)
  BY <1>2, <1>4, Zenon DEF Suffixes
<1>. QED
  BY <1>3, <1>5

(* So is everything that is scanned.                                       *)
LEMMA TextsAreBytes ==
  ASSUME TypeOK
  PROVE  TextsRead \subseteq Seq(Nat) /\ Queries \subseteq Seq(Nat)
<1>1. Seq(Bytes) \subseteq Seq(Nat)
  BY BytesAreNumbers
<1>2. \A f \in DOMAIN source : source[f] \in Seq(Nat)
  BY <1>1, TextsAssumption DEF TypeOK, IsMap
<1>. QED
  BY <1>1, <1>2, CutsAreTexts, TextsAssumption DEF TextsRead

(* Queries and documents, whole or cut off at any byte, are cut into the   *)
(* same words.                                                             *)
THEOREM TokenizersAgreeTheorem == IndexSpec => []TokenizersAgree
<1>1. TypeOK => TokenizersAgree
  BY TextsAreBytes, ScannersAgree DEF TokenizersAgree
<1>. QED
  BY <1>1, DocumentTypeTheorem, PTL

(* The words of every file on disk are tokens, in order, each at its first *)
(* byte.                                                                   *)
THEOREM MaximalRunsTheorem == IndexSpec => []WordsAreMaximalRuns
<1>1. TypeOK => WordsAreMaximalRuns
  BY TextsAreBytes, TokensAreWords DEF WordsAreMaximalRuns
<1>. QED
  BY <1>1, DocumentTypeTheorem, PTL

-----------------------------------------------------------------------------
(* The posting list of a word is the positions of its tokens.              *)
LEMMA PositionsOfTokens ==
  ASSUME NEW text \in Seq(Nat), NEW f, NEW w
  PROVE  LET postings == WordPositions(f, text)
             tokens   == Tokenize(text)
         IN  (IF w \in DOMAIN postings THEN postings[w] ELSE {})
               = {token.tokenPos : token \in {t \in ToSet(tokens) : t.word = w}}
<1> DEFINE tokens == Tokenize(text)
           words == WordsOf(tokens)
           n == Len(tokens)
           positions == {p \in 0 .. n - 1 : words[p + 1] = w}
<1>1. /\ tokens \in Seq(TokenRecord)
      /\ \A k \in DOMAIN tokens : tokens[k].tokenPos = k - 1
  BY TokensAreRuns DEF CutsIntoRuns
<1>2. WordPositions(f, text) = [t \in {words[i] : i \in 1 .. Len(words)} |->
                                  {p \in 0 .. Len(words) - 1 : words[p + 1] = t}]
  BY DEF WordPositions, PartialIndexThreadWorkers
<1> HIDE DEF tokens
<1>3. n \in Nat /\ DOMAIN tokens = 1 .. n
  BY <1>1
<1>4. Len(words) = n /\ \A k \in 1 .. n : words[k] = tokens[k].word
  BY <1>3 DEF WordsOf
<1> HIDE DEF words
<1>5. {token.tokenPos : token \in {t \in ToSet(tokens) : t.word = w}} = positions
  <2>1. ASSUME NEW p \in positions
        PROVE  \E k \in 1 .. n : tokens[k].word = w /\ tokens[k].tokenPos = p
    <3>1. p + 1 \in 1 .. n /\ (p + 1) - 1 = p
      BY <1>3
    <3>. QED
      BY <1>1, <1>3, <1>4, <3>1
  <2>2. ASSUME NEW k \in 1 .. n, tokens[k].word = w
        PROVE  tokens[k].tokenPos \in positions
    <3>1. k - 1 \in 0 .. n - 1 /\ (k - 1) + 1 = k
      BY <1>3
    <3>. QED
      BY <1>1, <1>3, <1>4, <2>2, <3>1
  <2>3. {t \in ToSet(tokens) : t.word = w} = {t \in {tokens[k] : k \in 1 .. n} : t.word = w}
    BY <1>3 DEF ToSet
  <2> HIDE DEF positions
  <2>4. \A p \in positions : p \in {token.tokenPos : token \in {t \in ToSet(tokens) : t.word = w}}
    BY <2>1, <2>3
  <2>5. \A token \in {t \in ToSet(tokens) : t.word = w} : token.tokenPos \in positions
    BY <2>2, <2>3
  <2>. QED
    BY <2>4, <2>5
<1>6. w \notin {words[i] : i \in 1 .. n} => positions = {}
  <2>1. \A p \in 0 .. n - 1 : p + 1 \in 1 .. n
    BY <1>3
  <2>. QED
    BY <2>1
<1>7. (IF w \in DOMAIN WordPositions(f, text) THEN WordPositions(f, text)[w] ELSE {}) = positions
  BY <1>2, <1>4, <1>6
<1>. QED
  BY <1>5, <1>7 DEF tokens

(* Whatever is edited, erased, indexed, rebuilt and deleted, in any order, *)
(* the postings are those of the texts as they were last read              *)
(* (Indexer.cpp:36-51, 104-122).                                           *)
THEOREM PostingsTheorem == IndexSpec => []PostingsAreTokens
<1>1. IndexInv => PostingsAreTokens
  <2> SUFFICES ASSUME IndexInv, NEW f \in Files, NEW w \in Terms
               PROVE  (IF w \in DOMAIN ix.index /\ f \in DOMAIN ix.index[w] THEN ix.index[w][f] ELSE {})
                        = {token.tokenPos : token \in {t \in
                             IF f \in DOMAIN indexed THEN ToSet(Tokenize(indexed[f])) ELSE {} : t.word = w}}
    BY DEF PostingsAreTokens
  <2> DEFINE posted == IF w \in DOMAIN ix.index /\ f \in DOMAIN ix.index[w] THEN ix.index[w][f] ELSE {}
  <2>1. posted = IF w \in DOMAIN PostingsOf(ix, f) THEN PostingsOf(ix, f)[w] ELSE {}
    BY DEF PostingsOf
  <2>2. CASE f \in DOMAIN indexed
    <3>1. PostingsOf(ix, f) = WordPositions(f, indexed[f])
      BY <2>2 DEF IndexInv, IndexedAsRead
    <3>2. indexed[f] \in Seq(Nat)
      <4>1. indexed[f] \in Seq(Bytes)
        BY <2>2, TextsAssumption DEF IndexInv, TypeOK, IsMap
      <4>. QED
        BY <4>1, BytesAreNumbers
    <3>. QED
      BY <2>1, <2>2, <3>1, <3>2, PositionsOfTokens
  <2>3. CASE f \notin DOMAIN indexed
    <3>1. posted = {}
      BY <2>3 DEF IndexInv, TypeOK, CoherentIndex, PostingsHaveMetadata, FilePresent
    <3>. QED
      BY <2>3, <3>1
  <2>. QED
    BY <2>2, <2>3
<1>. QED
  BY <1>1, IndexInvariance, PTL

-----------------------------------------------------------------------------
(* Every posting list comes from a text, and there are finitely many.      *)
LEMMA PostingsFinite ==
  ASSUME IndexInv
  PROVE  IsPostings(ix.index) /\ IsFiniteSet(DOMAIN ix.index)
<1>1. /\ IsIndex(ix) /\ CoherentIndex(ix) /\ DOMAIN indexed = DOMAIN ix.fileToTerms
      /\ \A f \in DOMAIN indexed : indexed[f] \in Texts /\ PostingsOf(ix, f) = WordPositions(f, indexed[f])
  BY DEF IndexInv, TypeOK, IsMap, IndexedAsRead
<1>2. \A w \in DOMAIN ix.index : \A f \in DOMAIN ix.index[w] :
        /\ f \in DOMAIN indexed /\ w \in DOMAIN PostingsOf(ix, f)
        /\ PostingsOf(ix, f)[w] = ix.index[w][f]
  BY <1>1 DEF CoherentIndex, PostingsHaveMetadata, FilePresent, PostingsOf
<1>3. IsPostings(ix.index)
  <2> SUFFICES ASSUME NEW w \in DOMAIN ix.index, NEW f \in DOMAIN ix.index[w]
               PROVE  IsFiniteSet(ix.index[w][f]) /\ ix.index[w][f] \subseteq Nat
    BY DEF IsPostings
  <2> DEFINE postings == PostingsOf(ix, f)
             n == ix.fileToTerms[f].tokenCount
  <2>1. f \in DOMAIN ix.fileToTerms /\ w \in DOMAIN postings /\ postings[w] = ix.index[w][f]
    BY <1>1, <1>2
  <2>2. Tiles(postings, n) /\ n \in Nat
    BY <1>1, <2>1 DEF CoherentIndex, PositionsTile, IsIndex, IsMap, FileMetadata
  <2> HIDE DEF postings, n
  <2>3. postings[w] \subseteq 0 .. n - 1
    BY <2>1, <2>2 DEF Tiles
  <2>4. IsFiniteSet(0 .. n - 1)
    BY <2>2, FS_Interval
  <2>. QED
    BY <2>1, <2>2, <2>3, <2>4, FS_Subset
<1>4. \A f \in DOMAIN indexed : IsFiniteSet(DOMAIN PostingsOf(ix, f))
  <2> SUFFICES ASSUME NEW f \in DOMAIN indexed PROVE IsFiniteSet(DOMAIN PostingsOf(ix, f))
    OBVIOUS
  <2> DEFINE words == WordsOf(Tokenize(indexed[f]))
             n == Len(words)
             S == {words[i] : i \in 1 .. n}
  <2>1. words \in Seq(Terms) /\ n \in Nat
    BY <1>1, WordsAssumption
  <2>2. DOMAIN PostingsOf(ix, f) = S
    BY <1>1 DEF WordPositions, PartialIndexThreadWorkers
  <2> HIDE DEF words
  <2>3. [i \in 1 .. n |-> words[i]] \in Surjection(1 .. n, S)
    BY DEF Surjection
  <2> HIDE DEF n, S
  <2>4. IsFiniteSet(S)
    BY <2>1, <2>3, FS_Interval, FS_Surjection
  <2>. QED
    BY <2>2, <2>4
<1>5. IsFiniteSet(DOMAIN ix.index)
  <2> DEFINE g == [f \in DOMAIN indexed |-> DOMAIN PostingsOf(ix, f)]
             S == {g[f] : f \in DOMAIN indexed}
  <2>1. g \in Surjection(DOMAIN indexed, S)
    BY DEF Surjection
  <2>2. \A f \in DOMAIN indexed : g[f] = DOMAIN PostingsOf(ix, f)
    OBVIOUS
  <2> HIDE DEF g
  <2>3. \A T \in S : IsFiniteSet(T)
    BY <1>4, <2>2
  <2>4. DOMAIN ix.index \subseteq UNION S
    <3>1. ASSUME NEW w \in DOMAIN ix.index
          PROVE  w \in UNION S
      <4>1. PICK f : f \in DOMAIN ix.index[w]
        BY <1>1 DEF CoherentIndex, NoEmptyTerm
      <4>. QED
        BY <1>2, <2>2, <4>1
    <3>. QED
      BY <3>1
  <2> HIDE DEF S
  <2>5. IsFiniteSet(S)
    BY <2>1, FS_Surjection DEF IndexInv
  <2>6. IsFiniteSet(UNION S)
    BY <2>3, <2>5, FS_UNION
  <2>. QED
    BY <2>4, <2>6, FS_Subset
<1>. QED
  BY <1>3, <1>5

(* An order of finitely many words has each of them.                       *)
LEMMA OrdersOfWords ==
  ASSUME NEW words, IsFiniteSet(words), NEW order \in SetToSeqs(words)
  PROVE  order \in Seq(words) /\ IsInjective(order) /\ ToSet(order) = words
<1> DEFINE n == Cardinality(words)
<1>1. n \in Nat
  BY FS_CardinalityType
<1>2. order \in [1 .. n -> words] /\ \A i, k \in 1 .. n : i # k => order[i] # order[k]
  BY DEF SetToSeqs
<1> HIDE DEF n
<1>3. IsInjective(order)
  BY <1>2 DEF IsInjective
<1>4. order \in Surjection(1 .. n, words)
  <2>1. order \in Injection(1 .. n, words)
    BY <1>2, <1>3 DEF Injection, IsInjective
  <2>2. IsFiniteSet(1 .. n) /\ Cardinality(1 .. n) = n
    BY <1>1, FS_Interval
  <2>. QED
    BY <1>1, <2>1, <2>2, FS_Injection DEF n
<1>5. ToSet(order) = words
  BY <1>2, <1>4 DEF ToSet, Surjection
<1>6. order \in Seq(words)
  BY <1>1, <1>2
<1>. QED
  BY <1>3, <1>5, <1>6

(* Completions are exact in whatever order they come.                      *)
LEMMA CompletionsAreExact ==
  ASSUME IndexInv, NEW query, NEW completions \in Completions(query)
  PROVE  CompletionsExact(ix.index, completions, SimpleTokenize(query))
<1> SUFFICES ASSUME NEW token \in ToSet(SimpleTokenize(query)) \ DOMAIN ix.index
             PROVE  /\ completions[token] \in Seq(DOMAIN ix.index)
                    /\ IsInjective(completions[token])
                    /\ ToSet(completions[token]) = {w \in DOMAIN ix.index : IsPrefix(token, w)}
  BY DEF CompletionsExact
<1> DEFINE words == {w \in DOMAIN ix.index : IsPrefix(token, w)}
           order == completions[token]
<1>1. order \in SetToSeqs(words)
  BY DEF Completions
<1>2. IsFiniteSet(words)
  BY PostingsFinite, FS_Subset
<1>3. words \subseteq DOMAIN ix.index
  OBVIOUS
<1> HIDE DEF words, order
<1>4. order \in Seq(words) /\ IsInjective(order) /\ ToSet(order) = words
  BY <1>1, <1>2, OrdersOfWords
<1>. QED
  BY <1>3, <1>4 DEF order, words

(* What a query may answer, in every state.                                *)
LEMMA QueriesAnswered ==
  ASSUME IndexInv, NEW query \in Queries, NEW completions \in Completions(query)
  PROVE  ExactPhrase(ix.index, completions, query) /\ HitsOccur(ix.index, completions, query)
<1>1. query \in Seq(Nat)
  BY BytesAreNumbers, TextsAssumption
<1>. QED
  BY <1>1, PostingsFinite, CompletionsAreExact, SearchTheorem

(* Through every history of requests, a phrase whose words but the last    *)
(* are unambiguous is found wherever it occurs and nowhere else.           *)
THEOREM ExactPhrasesTheorem == IndexSpec => []ExactPhrases
<1>1. IndexInv => ExactPhrases
  BY QueriesAnswered DEF ExactPhrases
<1>. QED
  BY <1>1, IndexInvariance, PTL

(* And every hit of a query ends an occurrence of it, or of its part up to *)
(* an ambiguous word.                                                      *)
THEOREM NeverInventsTheorem == IndexSpec => []SearchNeverInvents
<1>1. IndexInv => SearchNeverInvents
  BY QueriesAnswered DEF SearchNeverInvents
<1>. QED
  BY <1>1, IndexInvariance, PTL

-----------------------------------------------------------------------------
(* The index has the words of the texts, in lower case, and only them.     *)
LEMMA IndexHasWords ==
  ASSUME IndexInv
  PROVE  /\ \A w \in DOMAIN ix.index : IsWord(w) /\ w \in Terms
         /\ \A f \in DOMAIN indexed : \A token \in ToSet(Tokenize(indexed[f])) :
              token.word \in DOMAIN ix.index
<1>1. /\ IsIndex(ix) /\ CoherentIndex(ix) /\ DOMAIN indexed = DOMAIN ix.fileToTerms
      /\ \A f \in DOMAIN indexed : indexed[f] \in Texts /\ PostingsOf(ix, f) = WordPositions(f, indexed[f])
  BY DEF IndexInv, TypeOK, IsMap, IndexedAsRead
<1>2. ASSUME NEW f \in DOMAIN indexed
      PROVE  /\ indexed[f] \in Seq(Nat)
             /\ LET words == WordsOf(Tokenize(indexed[f]))
                IN  {t \in DOMAIN ix.index : f \in DOMAIN ix.index[t]} = {words[i] : i \in 1 .. Len(words)}
  <2>1. indexed[f] \in Seq(Nat)
    BY <1>1, BytesAreNumbers, TextsAssumption
  <2>2. DOMAIN PostingsOf(ix, f) = {t \in DOMAIN ix.index : f \in DOMAIN ix.index[t]}
    BY DEF PostingsOf
  <2> DEFINE words == WordsOf(Tokenize(indexed[f]))
  <2>3. DOMAIN WordPositions(f, indexed[f]) = {words[i] : i \in 1 .. Len(words)}
    BY DEF WordPositions, PartialIndexThreadWorkers
  <2>. QED
    BY <1>1, <2>1, <2>2, <2>3
<1>3. ASSUME NEW w \in DOMAIN ix.index
      PROVE  IsWord(w) /\ w \in Terms
  <2>1. PICK f : f \in DOMAIN ix.index[w]
    BY <1>1 DEF CoherentIndex, NoEmptyTerm
  <2>2. f \in DOMAIN indexed
    BY <1>1, <2>1 DEF CoherentIndex, PostingsHaveMetadata, FilePresent
  <2> DEFINE text == indexed[f]
             words == WordsOf(Tokenize(text))
  <2>3. text \in Seq(Nat) /\ w \in {words[i] : i \in 1 .. Len(words)}
    BY <1>2, <2>1, <2>2
  <2>4. words = SimpleTokenize(text)
    BY <2>3, ScannersAgree
  <2>5. words \in Seq(Terms)
    BY <1>1, <2>2, WordsAssumption
  <2> HIDE DEF words, text
  <2>6. PICK i \in 1 .. Len(words) : w = words[i]
    BY <2>3
  <2>7. i \in DOMAIN words
    BY <2>5
  <2>. QED
    BY <2>3, <2>4, <2>5, <2>6, <2>7, TokensIndexed
<1>4. ASSUME NEW f \in DOMAIN indexed, NEW token \in ToSet(Tokenize(indexed[f]))
      PROVE  token.word \in DOMAIN ix.index
  <2> DEFINE tokens == Tokenize(indexed[f])
             words == WordsOf(tokens)
  <2>1. tokens \in Seq(TokenRecord)
    BY <1>2, TokensAreRuns
  <2>2. \A t \in {words[i] : i \in 1 .. Len(words)} : t \in DOMAIN ix.index
    BY <1>2
  <2> HIDE DEF tokens
  <2>3. PICK k \in DOMAIN tokens : token = tokens[k]
    BY <1>4 DEF ToSet, tokens
  <2>4. k \in 1 .. Len(words) /\ words[k] = token.word
    BY <2>1, <2>3 DEF WordsOf
  <2>. QED
    BY <2>2, <2>4
<1>. QED
  BY <1>3, <1>4

(* A query of one indexed word answers with its posting lists.             *)
LEMMA WordAnswered ==
  ASSUME NEW index, NEW completions, NEW w \in DOMAIN index, IsWord(w)
  PROVE  Search(index, completions, w) = [v \in {w} |-> index[v]]
<1>1. SimpleTokenize(w) = <<w>> /\ <<w>> # <<>> /\ Len(<<w>>) = 1 /\ <<w>>[1] = w /\ ToSet(<<w>>) = {w}
  BY WordIsItself DEF ToSet
<1>2. Search(index, completions, w) = ChainedPositionalIntersect(index, completions, <<w>>)
  BY <1>1 DEF Search
<1>3. Matches(index, completions, <<w>>[1]) = <<w>>
  BY <1>1 DEF Matches
<1>. QED
  BY <1>1, <1>2, <1>3 DEF ChainedPositionalIntersect

(* A word is found wherever a text, as it was last read, has it, through   *)
(* every history of requests, and nowhere else: tokenizers, index and      *)
(* searcher together.                                                      *)
THEOREM WordsFoundTheorem == IndexSpec => []WordsFoundWhereTheyAre
<1> DEFINE tokens == [f \in DOMAIN indexed |-> ToSet(Tokenize(indexed[f]))]
           words == UNION {{token.word : token \in tokens[f]} : f \in DOMAIN tokens}
           Places(completions, w) ==
             {<<hit[2], hit[3]>> : hit \in {h \in Hits(Search(ix.index, completions, w)) : h[1] = w}}
           There(w) == UNION {{<<f, token.tokenPos>> : token \in {t \in tokens[f] : t.word = w}} :
                                f \in DOMAIN tokens}
<1>1. ASSUME IndexInv, PostingsAreTokens, NEW w \in DOMAIN ix.index \cup words, NEW completions
      PROVE  Places(completions, w) = There(w)
  <2>1. w \in DOMAIN ix.index /\ IsWord(w) /\ w \in Terms
    BY <1>1, IndexHasWords
  <2> DEFINE docs == ix.index[w]
             answer == Search(ix.index, completions, w)
  <2>2. DOMAIN answer = {w} /\ answer[w] = docs
    BY <2>1, WordAnswered
  <2>3. DOMAIN docs \subseteq DOMAIN indexed /\ DOMAIN indexed \subseteq Files
    BY <1>1, <2>1
    DEF IndexInv, TypeOK, IsMap, CoherentIndex, PostingsHaveMetadata, FilePresent
  <2>4. ASSUME NEW f \in DOMAIN indexed
        PROVE  (IF f \in DOMAIN docs THEN docs[f] ELSE {})
                 = {token.tokenPos : token \in {t \in tokens[f] : t.word = w}}
    BY <1>1, <2>1, <2>3 DEF PostingsAreTokens
  <2> HIDE DEF docs, answer, tokens
  <2>5. \A hit : hit \in Hits(answer) <=> \E f \in DOMAIN docs : \E p \in docs[f] : hit = <<w, f, p>>
    BY <2>2, HitsAre
  <2>6. DOMAIN tokens = DOMAIN indexed
    BY DEF tokens
  <2>7. ASSUME NEW pair \in Places(completions, w)
        PROVE  pair \in There(w)
    <3>1. PICK f, p : f \in DOMAIN docs /\ p \in docs[f] /\ pair = <<f, p>>
      BY <2>5, <2>7 DEF answer
    <3>2. f \in DOMAIN indexed /\ p \in {token.tokenPos : token \in {t \in tokens[f] : t.word = w}}
      BY <2>3, <2>4, <3>1
    <3>. QED
      BY <2>6, <3>1, <3>2
  <2>8. ASSUME NEW pair \in There(w)
        PROVE  pair \in Places(completions, w)
    <3>1. PICK f \in DOMAIN indexed :
            pair \in {<<f, token.tokenPos>> : token \in {t \in tokens[f] : t.word = w}}
      BY <2>6, <2>8
    <3>2. PICK token \in {t \in tokens[f] : t.word = w} : pair = <<f, token.tokenPos>>
      BY <3>1
    <3> DEFINE p == token.tokenPos
    <3>3. f \in DOMAIN docs /\ p \in docs[f]
      BY <2>4, <3>1, <3>2
    <3> HIDE DEF p
    <3>4. <<w, f, p>> \in Hits(answer)
      BY <2>5, <3>3
    <3>. QED
      BY <3>2, <3>4 DEF answer, p
  <2>. QED
    BY <2>7, <2>8
<1>2. IndexInv /\ PostingsAreTokens => WordsFoundWhereTheyAre
  BY <1>1 DEF WordsFoundWhereTheyAre
<1>. QED
  BY <1>2, IndexInvariance, PostingsTheorem, PTL

-----------------------------------------------------------------------------
(* The words the tree is asked to add and to remove.                       *)
Keys == Word \ {<<>>}

(* The tree after each word is what the word makes of the one before.      *)
LEMMA InsertsUnroll ==
  ASSUME NEW root, NEW words, Len(words) \in Nat
  PROVE  /\ Inserts(root, words)[0] = root
         /\ \A n \in 1 .. Len(words) :
              Inserts(root, words)[n] = Insert(Inserts(root, words)[n - 1], words[n])
<1> DEFINE m == Len(words)
           Step(t, n) == Insert(t, words[n])
           Eq(g, n) == [i \in 0 .. n |-> IF i = 0 THEN root ELSE Step(g[i - 1], i)]
           after == CHOOSE g : g = Eq(g, m)
           P == {n \in 0 .. m : \E g : g = Eq(g, n)}
<1>1. Inserts(root, words) = after
  BY DEF Inserts
<1> HIDE DEF Step
<1>2. 0 \in P
  <2> DEFINE g == [i \in 0 .. 0 |-> root]
  <2>1. g = Eq(g, 0) /\ 0 \in 0 .. m
    OBVIOUS
  <2> HIDE DEF g
  <2>. QED
    BY <2>1
<1>3. ASSUME NEW n \in 1 .. m, n - 1 \in P
      PROVE  n \in P
  <2>1. PICK g : g = Eq(g, n - 1)
    BY <1>3
  <2> DEFINE more == [i \in 0 .. n |-> IF i = n THEN Step(g[n - 1], n) ELSE g[i]]
  <2>2. ASSUME NEW i \in 0 .. n
        PROVE  more[i] = Eq(more, n)[i]
    <3>1. CASE i = 0
      BY <2>1, <3>1
    <3>2. CASE i # 0
      <4>1. i - 1 \in 0 .. n /\ i - 1 # n /\ more[i - 1] = g[i - 1]
        BY <3>2
      <4>2. CASE i = n
        BY <3>2, <4>1, <4>2
      <4>3. CASE i # n
        <5>1. i \in 0 .. n - 1 /\ g[i] = Step(g[i - 1], i)
          BY <2>1, <3>2, <4>3
        <5>. QED
          BY <3>2, <4>1, <4>3, <5>1
      <4>. QED
        BY <4>2, <4>3
    <3>. QED
      BY <3>1, <3>2
  <2>3. more = Eq(more, n)
    BY <2>2
  <2> HIDE DEF more
  <2>. QED
    BY <2>3
<1>4. 0 .. m \subseteq P
  <2> HIDE DEF P, m
  <2>1. m \in Nat
    BY DEF m
  <2>. QED
    BY <1>2, <1>3, <2>1, Counting
<1>5. \E g : g = Eq(g, m)
  BY <1>4
<1>6. after = Eq(after, m)
  BY <1>5
<1> HIDE DEF after
<1>. QED
  BY <1>1, <1>6 DEF Step

(* Deletes is defined by its recursion: each word is deleted from the      *)
(* tree the words before it left.                                          *)
LEMMA DeletesUnroll ==
  ASSUME NEW root, NEW words, Len(words) \in Nat
  PROVE  /\ Deletes(root, words)[0] = root
         /\ \A n \in 1 .. Len(words) :
              Deletes(root, words)[n] = DeleteTerm(Deletes(root, words)[n - 1], words[n])
<1> DEFINE m == Len(words)
           Step(t, n) == DeleteTerm(t, words[n])
           Eq(g, n) == [i \in 0 .. n |-> IF i = 0 THEN root ELSE Step(g[i - 1], i)]
           after == CHOOSE g : g = Eq(g, m)
           P == {n \in 0 .. m : \E g : g = Eq(g, n)}
<1>1. Deletes(root, words) = after
  BY DEF Deletes
<1> HIDE DEF Step
<1>2. 0 \in P
  <2> DEFINE g == [i \in 0 .. 0 |-> root]
  <2>1. g = Eq(g, 0) /\ 0 \in 0 .. m
    OBVIOUS
  <2> HIDE DEF g
  <2>. QED
    BY <2>1
<1>3. ASSUME NEW n \in 1 .. m, n - 1 \in P
      PROVE  n \in P
  <2>1. PICK g : g = Eq(g, n - 1)
    BY <1>3
  <2> DEFINE more == [i \in 0 .. n |-> IF i = n THEN Step(g[n - 1], n) ELSE g[i]]
  <2>2. ASSUME NEW i \in 0 .. n
        PROVE  more[i] = Eq(more, n)[i]
    <3>1. CASE i = 0
      BY <2>1, <3>1
    <3>2. CASE i # 0
      <4>1. i - 1 \in 0 .. n /\ i - 1 # n /\ more[i - 1] = g[i - 1]
        BY <3>2
      <4>2. CASE i = n
        BY <3>2, <4>1, <4>2
      <4>3. CASE i # n
        <5>1. i \in 0 .. n - 1 /\ g[i] = Step(g[i - 1], i)
          BY <2>1, <3>2, <4>3
        <5>. QED
          BY <3>2, <4>1, <4>3, <5>1
      <4>. QED
        BY <4>2, <4>3
    <3>. QED
      BY <3>1, <3>2
  <2>3. more = Eq(more, n)
    BY <2>2
  <2> HIDE DEF more
  <2>. QED
    BY <2>3
<1>4. 0 .. m \subseteq P
  <2> HIDE DEF P, m
  <2>1. m \in Nat
    BY DEF m
  <2>. QED
    BY <1>2, <1>3, <2>1, Counting
<1>5. \E g : g = Eq(g, m)
  BY <1>4
<1>6. after = Eq(after, m)
  BY <1>5
<1> HIDE DEF after
<1>. QED
  BY <1>1, <1>6 DEF Step

-----------------------------------------------------------------------------
(* Words added one after the other, in any order, become words of the      *)
(* tree.                                                                   *)
LEMMA InsertsSound ==
  ASSUME NEW root, SearchTree(root), NEW words \in Seq(Keys)
  PROVE  LET new == Inserts(root, words)[Len(words)]
         IN  SearchTree(new) /\ WordsIn(new) = WordsIn(root) \cup ToSet(words)
<1> DEFINE m == Len(words)
           after == Inserts(root, words)
           done(n) == {words[k] : k \in 1 .. n}
           Sound(n) == SearchTree(after[n]) /\ WordsIn(after[n]) = WordsIn(root) \cup done(n)
           P == {n \in 0 .. m : Sound(n)}
<1>1. /\ m \in Nat /\ after[0] = root
      /\ \A n \in 1 .. m : after[n] = Insert(after[n - 1], words[n])
  BY InsertsUnroll
<1> HIDE DEF after
<1>2. 0 \in P
  <2>1. done(0) = {}
    OBVIOUS
  <2> HIDE DEF done
  <2>. QED
    BY <1>1, <2>1
<1>3. ASSUME NEW n \in 1 .. m, n - 1 \in P
      PROVE  n \in P
  <2>1. words[n] \in Word /\ words[n] # <<>>
    BY DEF Keys
  <2>2. SearchTree(after[n - 1]) /\ WordsIn(after[n - 1]) = WordsIn(root) \cup done(n - 1)
    BY <1>3
  <2>3. after[n] = Insert(after[n - 1], words[n])
    BY <1>1
  <2>4. done(n) = done(n - 1) \cup {words[n]}
    <3>1. 1 .. n = (1 .. n - 1) \cup {n}
      OBVIOUS
    <3>. QED
      BY <3>1
  <2> HIDE DEF done
  <2>5. /\ SearchTree(Insert(after[n - 1], words[n]))
        /\ WordsIn(Insert(after[n - 1], words[n])) = WordsIn(after[n - 1]) \cup {words[n]}
    BY <2>1, <2>2, InsertSound
  <2>. QED
    BY <2>2, <2>3, <2>4, <2>5
<1>4. 0 .. m \subseteq P
  <2> HIDE DEF P, m
  <2>. QED
    BY <1>1, <1>2, <1>3, Counting
<1>5. ToSet(words) = done(m)
  BY DEF ToSet
<1> HIDE DEF done
<1>6. m \in 0 .. m
  BY <1>1
<1>7. Sound(m)
  BY <1>4, <1>6
<1>. QED
  BY <1>5, <1>7 DEF after

(* And words removed one after the other are no longer.                    *)
LEMMA DeletesSound ==
  ASSUME NEW root, SearchTree(root), NEW words \in Seq(Keys)
  PROVE  LET new == Deletes(root, words)[Len(words)]
         IN  SearchTree(new) /\ WordsIn(new) = WordsIn(root) \ ToSet(words)
<1> DEFINE m == Len(words)
           after == Deletes(root, words)
           done(n) == {words[k] : k \in 1 .. n}
           Sound(n) == SearchTree(after[n]) /\ WordsIn(after[n]) = WordsIn(root) \ done(n)
           P == {n \in 0 .. m : Sound(n)}
<1>1. /\ m \in Nat /\ after[0] = root
      /\ \A n \in 1 .. m : after[n] = DeleteTerm(after[n - 1], words[n])
  BY DeletesUnroll
<1> HIDE DEF after
<1>2. 0 \in P
  <2>1. done(0) = {}
    OBVIOUS
  <2> HIDE DEF done
  <2>. QED
    BY <1>1, <2>1
<1>3. ASSUME NEW n \in 1 .. m, n - 1 \in P
      PROVE  n \in P
  <2>1. words[n] \in Word /\ words[n] # <<>>
    BY DEF Keys
  <2>2. SearchTree(after[n - 1]) /\ WordsIn(after[n - 1]) = WordsIn(root) \ done(n - 1)
    BY <1>3
  <2>3. after[n] = DeleteTerm(after[n - 1], words[n])
    BY <1>1
  <2>4. done(n) = done(n - 1) \cup {words[n]}
    <3>1. 1 .. n = (1 .. n - 1) \cup {n}
      OBVIOUS
    <3>. QED
      BY <3>1
  <2> HIDE DEF done
  <2>5. /\ SearchTree(DeleteTerm(after[n - 1], words[n]))
        /\ WordsIn(DeleteTerm(after[n - 1], words[n])) = WordsIn(after[n - 1]) \ {words[n]}
    BY <2>1, <2>2, DeleteSound
  <2>. QED
    BY <2>2, <2>3, <2>4, <2>5
<1>4. 0 .. m \subseteq P
  <2> HIDE DEF P, m
  <2>. QED
    BY <1>1, <1>2, <1>3, Counting
<1>5. ToSet(words) = done(m)
  BY DEF ToSet
<1> HIDE DEF done
<1>6. m \in 0 .. m
  BY <1>1
<1>7. Sound(m)
  BY <1>4, <1>6
<1>. QED
  BY <1>5, <1>7 DEF after

-----------------------------------------------------------------------------
(* Whatever order the words of a container come in.                        *)
LEMMA AfterInsertsSound ==
  ASSUME NEW root, SearchTree(root), NEW words \in SUBSET Keys, IsFiniteSet(words),
         NEW new \in AfterInserts(root, words)
  PROVE  SearchTree(new) /\ WordsIn(new) = WordsIn(root) \cup words
<1>1. PICK order \in SetToSeqs(words) : new = Inserts(root, order)[Len(order)]
  BY DEF AfterInserts
<1>2. order \in Seq(Keys) /\ ToSet(order) = words
  BY OrdersOfWords
<1>. QED
  BY <1>1, <1>2, InsertsSound

(* In whatever order the set is walked, the tree loses exactly the words   *)
(* of the set.                                                             *)
LEMMA AfterDeletesSound ==
  ASSUME NEW root, SearchTree(root), NEW words \in SUBSET Keys, IsFiniteSet(words),
         NEW new \in AfterDeletes(root, words)
  PROVE  SearchTree(new) /\ WordsIn(new) = WordsIn(root) \ words
<1>1. PICK order \in SetToSeqs(words) : new = Deletes(root, order)[Len(order)]
  BY DEF AfterDeletes
<1>2. order \in Seq(Keys) /\ ToSet(order) = words
  BY OrdersOfWords
<1>. QED
  BY <1>1, <1>2, DeletesSound

(* The tree spells the words.                                              *)
Holds(root, words) == SearchTree(root) /\ WordsIn(root) = words

(* Finitely many words, none of them empty.                                *)
AreKeys(words) == words \subseteq Keys /\ IsFiniteSet(words)

(* Indexing a file takes words from the index and brings those of the text.*)
LEMMA BuildTerms ==
  ASSUME NEW kx, NEW f, NEW text
  PROVE  LET removed == RemoveFileFromIndex(kx, f)
             come == {text[i] : i \in 1 .. Len(text)}
         IN  /\ removed.tst \subseteq kx.tst
             /\ BuildIndex(kx, f, text).tst = removed.tst \cup (come \ DOMAIN removed.index)
<1> DEFINE partial == PartialIndexThreadWorkers(f, text)
           left == RemoveFileFromIndex(kx, f)
           jx == BuildIndex(kx, f, text)
<1>1. left.tst \subseteq kx.tst
  <2>1. CASE ~FilePresent(kx, f)
    BY <2>1 DEF RemoveFileFromIndex
  <2>2. CASE FilePresent(kx, f)
    BY <2>2 DEF RemoveFileFromIndex
  <2>. QED
    BY <2>1, <2>2
<1>2. partial.filePath = f /\ DOMAIN partial.localIndex = {text[i] : i \in 1 .. Len(text)}
  BY DEF PartialIndexThreadWorkers
<1> HIDE DEF partial
<1>3. jx.tst = InsertPostings(left, f, partial.localIndex).tst
  BY <1>2 DEF BuildIndex, MergePartialIndexThreadWorkers, Register, partial
<1>4. jx.tst = left.tst \cup (DOMAIN partial.localIndex \ DOMAIN left.index)
  BY <1>3 DEF InsertPostings
<1>. QED
  BY <1>1, <1>2, <1>4

(* A file indexed again: the words nobody else has go, then the words      *)
(* nobody has come (Indexer.cpp:78-102, 104-122).                          *)
LEMMA MergedSound ==
  ASSUME NEW kx, NEW jx, NEW f, NEW root, Holds(root, kx.tst), AreKeys(kx.tst), AreKeys(jx.tst),
         RemoveFileFromIndex(kx, f).tst \subseteq kx.tst,
         RemoveFileFromIndex(kx, f).tst \subseteq jx.tst,
         NEW new \in Merged(kx, jx, f, root)
  PROVE  Holds(new, jx.tst)
<1> DEFINE removed == RemoveFileFromIndex(kx, f)
           gone == kx.tst \ removed.tst
           come == jx.tst \ removed.tst
<1>1. PICK r \in AfterDeletes(root, gone) : new \in AfterInserts(r, come)
  BY DEF Merged
<1>2. gone \in SUBSET Keys /\ IsFiniteSet(gone) /\ come \in SUBSET Keys /\ IsFiniteSet(come)
  BY FS_Subset DEF AreKeys
<1> HIDE DEF removed
<1>3. SearchTree(root) /\ WordsIn(root) = kx.tst
  BY DEF Holds
<1> HIDE DEF gone, come
<1>4. SearchTree(r) /\ WordsIn(r) = WordsIn(root) \ gone
  BY <1>1, <1>2, <1>3, AfterDeletesSound
<1>5. SearchTree(new) /\ WordsIn(new) = WordsIn(r) \cup come
  BY <1>1, <1>2, <1>4, AfterInsertsSound
<1>. QED
  BY <1>3, <1>4, <1>5 DEF Holds, gone, come, removed

-----------------------------------------------------------------------------
(* The words of a text are few, and not empty.                             *)
LEMMA TextHasKeys ==
  ASSUME NEW text \in Seq(Nat)
  PROVE  LET words == WordsOf(Tokenize(text))
         IN  AreKeys({words[i] : i \in 1 .. Len(words)})
<1> DEFINE words == WordsOf(Tokenize(text))
           n == Len(words)
           S == {words[i] : i \in 1 .. n}
<1>1. words = SimpleTokenize(text) /\ n \in Nat /\ DOMAIN words = 1 .. n
  <2>1. Tokenize(text) \in Seq(TokenRecord)
    BY TokensAreRuns
  <2>. QED
    BY <2>1, ScannersAgree DEF WordsOf
<1>2. \A i \in 1 .. n : words[i] \in Keys
  BY <1>1, TokensIndexed DEF IsWord, Keys
<1> HIDE DEF words
<1>3. [i \in 1 .. n |-> words[i]] \in Surjection(1 .. n, S)
  BY DEF Surjection
<1>4. S \subseteq Keys
  BY <1>2
<1> HIDE DEF n, S
<1>5. IsFiniteSet(S)
  BY <1>1, <1>3, FS_Interval, FS_Surjection
<1>. QED
  BY <1>4, <1>5 DEF AreKeys, S, n, words

(* The words of the index are too.                                         *)
LEMMA IndexHasKeys ==
  ASSUME IndexInv
  PROVE  AreKeys(ix.tst) /\ ix.tst = DOMAIN ix.index
<1>1. ix.tst = DOMAIN ix.index
  BY DEF IndexInv, CoherentIndex, TreeMatchesIndex
<1>2. IsFiniteSet(DOMAIN ix.index) /\ \A w \in DOMAIN ix.index : IsWord(w)
  BY PostingsFinite, IndexHasWords
<1>. QED
  BY <1>1, <1>2 DEF AreKeys, Keys, IsWord

(* And so they are after each file of a batch.                             *)
LEMMA BatchHasKeys ==
  ASSUME IndexInv, NEW files \in Seq(DOMAIN source), NEW n \in 0 .. Len(files)
  PROVE  AreKeys(Batch(files)[n].tst)
<1> DEFINE m == Len(files)
           P == {k \in 0 .. m : AreKeys(Batch(files)[k].tst)}
<1>1. /\ m \in Nat /\ Batch(files)[0] = ix
      /\ \A k \in 1 .. m : Batch(files)[k]
           = BuildIndex(Batch(files)[k - 1], files[k], WordsOf(Tokenize(source[files[k]])))
  BY BatchUnrolls
<1>2. 0 \in P
  BY <1>1, IndexHasKeys
<1>3. ASSUME NEW k \in 1 .. m, k - 1 \in P
      PROVE  k \in P
  <2> DEFINE f == files[k]
             words == WordsOf(Tokenize(source[f]))
             before == Batch(files)[k - 1].tst
             come == {words[i] : i \in 1 .. Len(words)}
  <2>1. f \in Files /\ source[f] \in Seq(Nat)
    BY BytesAreNumbers, TextsAssumption DEF IndexInv, TypeOK, IsMap
  <2>2. AreKeys(come)
    BY <2>1, TextHasKeys
  <2>3. Batch(files)[k].tst \subseteq before \cup come
    <3> DEFINE kx == Batch(files)[k - 1]
    <3>1. Batch(files)[k] = BuildIndex(kx, f, words)
      BY <1>1
    <3> HIDE DEF f, words, kx
    <3>2. /\ RemoveFileFromIndex(kx, f).tst \subseteq kx.tst
          /\ BuildIndex(kx, f, words).tst
               = RemoveFileFromIndex(kx, f).tst \cup (come \ DOMAIN RemoveFileFromIndex(kx, f).index)
      BY BuildTerms
    <3> HIDE DEF come
    <3>. QED
      BY <3>1, <3>2 DEF kx
  <2>4. AreKeys(before)
    BY <1>3
  <2> HIDE DEF before, come
  <2>5. AreKeys(before \cup come)
    BY <2>2, <2>4, FS_Union DEF AreKeys
  <2>6. AreKeys(Batch(files)[k].tst)
    BY <2>3, <2>5, FS_Subset DEF AreKeys
  <2>. QED
    BY <2>6
<1>4. 0 .. m \subseteq P
  <2> HIDE DEF P, m
  <2>. QED
    BY <1>1, <1>2, <1>3, Counting
<1>. QED
  BY <1>4

-----------------------------------------------------------------------------
(* The trees after the nth file.                                           *)
FileTrees(files, n, trees) ==
  UNION {Merged(Batch(files)[n - 1], Batch(files)[n], files[n], root) : root \in trees}

(* TreesAfter is defined by its recursion: each file is merged into a      *)
(* tree the files before it left.                                          *)
LEMMA TreesUnroll ==
  ASSUME NEW files, Len(files) \in Nat
  PROVE  \E after :
           /\ TreesAfter(files) = after[Len(files)] /\ after[0] = {tree}
           /\ \A n \in 1 .. Len(files) : after[n] = FileTrees(files, n, after[n - 1])
<1> DEFINE m == Len(files)
           start == {tree}
           Step(trees, n) ==
             UNION {Merged(Batch(files)[n - 1], Batch(files)[n], files[n], root) : root \in trees}
           Eq(g, n) == [i \in 0 .. n |-> IF i = 0 THEN start ELSE Step(g[i - 1], i)]
           after == CHOOSE g : g = Eq(g, m)
           P == {n \in 0 .. m : \E g : g = Eq(g, n)}
<1>1. TreesAfter(files) = after[m]
  BY DEF TreesAfter
<1> HIDE DEF Step, start
<1>2. 0 \in P
  <2> DEFINE g == [i \in 0 .. 0 |-> start]
  <2>1. g = Eq(g, 0) /\ 0 \in 0 .. m
    OBVIOUS
  <2> HIDE DEF g
  <2>. QED
    BY <2>1
<1>3. ASSUME NEW n \in 1 .. m, n - 1 \in P
      PROVE  n \in P
  <2>1. PICK g : g = Eq(g, n - 1)
    BY <1>3
  <2> DEFINE more == [i \in 0 .. n |-> IF i = n THEN Step(g[n - 1], n) ELSE g[i]]
  <2>2. ASSUME NEW i \in 0 .. n
        PROVE  more[i] = Eq(more, n)[i]
    <3>1. CASE i = 0
      BY <2>1, <3>1
    <3>2. CASE i # 0
      <4>1. i - 1 \in 0 .. n /\ i - 1 # n /\ more[i - 1] = g[i - 1]
        BY <3>2
      <4>2. CASE i = n
        BY <3>2, <4>1, <4>2
      <4>3. CASE i # n
        <5>1. i \in 0 .. n - 1 /\ g[i] = Step(g[i - 1], i)
          BY <2>1, <3>2, <4>3
        <5>. QED
          BY <3>2, <4>1, <4>3, <5>1
      <4>. QED
        BY <4>2, <4>3
    <3>. QED
      BY <3>1, <3>2
  <2>3. more = Eq(more, n)
    BY <2>2
  <2> HIDE DEF more
  <2>. QED
    BY <2>3
<1>4. 0 .. m \subseteq P
  <2> HIDE DEF P, m
  <2>1. m \in Nat
    BY DEF m
  <2>. QED
    BY <1>2, <1>3, <2>1, Counting
<1>5. \E g : g = Eq(g, m)
  BY <1>4
<1>6. after = Eq(after, m)
  BY <1>5
<1> HIDE DEF after
<1>7. m \in Nat
  OBVIOUS
<1> HIDE DEF m
<1>8. after[0] = start /\ \A n \in 1 .. m : after[n] = Step(after[n - 1], n)
  BY <1>6, <1>7
<1>. QED
  BY <1>1, <1>8 DEF Step, FileTrees, start, m

(* The trees a batch may lead to.                                          *)
LEMMA TreesSound ==
  ASSUME IndexInv, Holds(tree, ix.tst), NEW files \in Seq(DOMAIN source),
         NEW new \in TreesAfter(files)
  PROVE  Holds(new, Batch(files)[Len(files)].tst)
<1>1. PICK after :
        /\ TreesAfter(files) = after[Len(files)] /\ after[0] = {tree}
        /\ \A n \in 1 .. Len(files) : after[n] = FileTrees(files, n, after[n - 1])
  <2>1. Len(files) \in Nat
    OBVIOUS
  <2>. QED
    BY <2>1, TreesUnroll
<1> DEFINE m == Len(files)
<1>2. /\ m \in Nat /\ Batch(files)[0] = ix
      /\ \A k \in 1 .. m : Batch(files)[k]
           = BuildIndex(Batch(files)[k - 1], files[k], WordsOf(Tokenize(source[files[k]])))
  BY BatchUnrolls
<1> DEFINE Q == {n \in 0 .. m : \A t \in after[n] : Holds(t, Batch(files)[n].tst)}
<1>3. 0 \in Q
  BY <1>1, <1>2
<1>4. ASSUME NEW n \in 1 .. m, n - 1 \in Q
       PROVE  n \in Q
  <2> DEFINE kx == Batch(files)[n - 1]
             jx == Batch(files)[n]
             f == files[n]
  <2> SUFFICES ASSUME NEW t \in after[n] PROVE Holds(t, jx.tst)
    OBVIOUS
  <2>1. PICK root \in after[n - 1] : t \in Merged(kx, jx, f, root)
    BY <1>1 DEF FileTrees
  <2>2. Holds(root, kx.tst)
    BY <1>4
  <2>3. AreKeys(kx.tst) /\ AreKeys(jx.tst)
    <3>1. n - 1 \in 0 .. Len(files) /\ n \in 0 .. Len(files)
      BY <1>2
    <3>. QED
      BY <3>1, BatchHasKeys
  <2>4. f \in Files /\ jx = BuildIndex(kx, f, WordsOf(Tokenize(source[f])))
    BY <1>2 DEF IndexInv, TypeOK, IsMap
  <2> HIDE DEF kx, jx, f
  <2>5. RemoveFileFromIndex(kx, f).tst \subseteq kx.tst /\ RemoveFileFromIndex(kx, f).tst \subseteq jx.tst
    BY <2>4, BuildTerms
  <2>. QED
    BY <2>1, <2>2, <2>3, <2>5, MergedSound
<1>5. 0 .. m \subseteq Q
  <2> HIDE DEF Q, m
  <2>. QED
    BY <1>2, <1>3, <1>4, Counting DEF m
<1>6. m \in 0 .. m
  BY <1>2
<1>. QED
  BY <1>1, <1>5, <1>6

-----------------------------------------------------------------------------
(* The nodes of the tree spell the words of the index, and no others.      *)
SearchInv == IndexInv /\ Holds(tree, ix.tst)

(* Without the tree, a step is a step of DocumentIndex.                    *)
LEMMA StepImplements ==
  ASSUME [Next]_vars
  PROVE  [IndexNext]_documents
BY DEF Next, vars, IndexNext, documents, EditFile, EraseFile, AddFile, DeleteFile, Build

(* The requests through the tree implement the requests on the index.      *)
THEOREM SearchImplementsIndex == Spec => IndexSpec
<1>1. Init => IndexInit
  BY DEF Init
<1>2. [Next]_vars => [IndexNext]_documents
  BY StepImplements
<1>. QED
  BY <1>1, <1>2, PTL DEF Spec, IndexSpec

(* A request that indexes leaves a tree of the words of the index.         *)
LEMMA IndexFilesHolds ==
  ASSUME SearchInv, NEW files \in Seq(DOMAIN source), IndexFiles(files), tree' \in TreesAfter(files)
  PROVE  Holds(tree', ix'.tst)
<1>1. ix' = Batch(files)[Len(files)]
  BY DEF IndexFiles
<1>2. Holds(tree', Batch(files)[Len(files)].tst)
  BY TreesSound DEF SearchInv
<1>. QED
  BY <1>1, <1>2

(* And so does a deletion: the words that go are those the index loses.    *)
LEMMA DeleteHolds ==
  ASSUME SearchInv, NEW f, DeleteFile(f)
  PROVE  Holds(tree', ix'.tst)
<1> DEFINE gone == ix.tst \ ix'.tst
<1>1. ix' = RemoveFileFromIndex(ix, f) /\ tree' \in AfterDeletes(tree, gone)
  BY DEF DeleteFile, DeleteFileFromIndex
<1>2. ix'.tst \subseteq ix.tst
  BY <1>1, BuildTerms
<1>3. AreKeys(ix.tst) /\ SearchTree(tree) /\ WordsIn(tree) = ix.tst
  BY IndexHasKeys DEF SearchInv, Holds
<1>4. gone \in SUBSET Keys /\ IsFiniteSet(gone)
  BY <1>3, FS_Subset DEF AreKeys
<1> HIDE DEF gone
<1>5. SearchTree(tree') /\ WordsIn(tree') = WordsIn(tree) \ gone
  BY <1>1, <1>3, <1>4, AfterDeletesSound
<1>. QED
  BY <1>2, <1>3, <1>5 DEF Holds, gone

(* Through every history the nodes are a ternary search tree of the words  *)
(* of the index, and the postings those of the texts.                      *)
THEOREM SearchInvariance == Spec => []SearchInv
<1>1. Init => Holds(tree, ix.tst)
  <2>1. EmptyIndex.tst = {}
    BY DEF EmptyIndex
  <2>. QED
    BY <2>1, EmptyIsSearchTree DEF Init, IndexInit, Holds
<1>2. SearchInv /\ [Next]_vars => Holds(tree, ix.tst)'
  <2> SUFFICES ASSUME SearchInv, [Next]_vars PROVE Holds(tree', ix'.tst)
    OBVIOUS
  <2>1. Holds(tree, ix.tst)
    BY DEF SearchInv
  <2>2. ASSUME NEW f \in Files, (\E text \in Texts : EditFile(f, text)) \/ EraseFile(f)
        PROVE  Holds(tree', ix'.tst)
    <3>1. tree' = tree /\ ix' = ix
      BY <2>2 DEF EditFile, EraseFile, Edit, Erase
    <3>. QED
      BY <2>1, <3>1
  <2>3. ASSUME NEW f \in Files, AddFile(f)
        PROVE  Holds(tree', ix'.tst)
    <3>1. <<f>> \in Seq(DOMAIN source) /\ IndexFiles(<<f>>) /\ tree' \in TreesAfter(<<f>>)
      BY <2>3 DEF AddFile, AddFileToIndex
    <3>. QED
      BY <3>1, IndexFilesHolds
  <2>4. ASSUME NEW f \in Files, DeleteFile(f)
        PROVE  Holds(tree', ix'.tst)
    BY <2>4, DeleteHolds
  <2>5. ASSUME NEW files \in Listings, Build(files)
        PROVE  Holds(tree', ix'.tst)
    <3>1. files \in Seq(DOMAIN source)
      BY ListedAreSources DEF SearchInv, IndexInv
    <3>2. IndexFiles(files) /\ tree' \in TreesAfter(files)
      BY <2>5 DEF Build, BuildInitialIndex
    <3>. QED
      BY <3>1, <3>2, IndexFilesHolds
  <2>6. CASE UNCHANGED vars
    BY <2>1, <2>6 DEF vars
  <2>. QED
    BY <2>2, <2>3, <2>4, <2>5, <2>6 DEF Next
<1>3. SearchInv <=> IndexInv /\ Holds(tree, ix.tst)
  BY DEF SearchInv
<1>. QED
  BY <1>1, <1>2, <1>3, SearchImplementsIndex, IndexInvariance, PTL DEF Spec

-----------------------------------------------------------------------------
(* The nodes stay a ternary search tree without dead weight, and spell the *)
(* indexed words (TernarySearchTree.cpp:121-138).                          *)
THEOREM TreeTheorem == Spec => []TreeWellFormed
<1>1. SearchInv => TreeWellFormed
  <2> SUFFICES ASSUME SearchInv PROVE TreeWellFormed
    OBVIOUS
  <2>1. SearchTree(tree) /\ WordsIn(tree) = DOMAIN ix.index
    BY IndexHasKeys DEF SearchInv, Holds
  <2>2. WellFormed(tree) /\ ToSet(PrefixHelper(tree)[<<>>]) = WordsIn(tree)
    BY <2>1, SearchTreeWellFormed, TraversalsSound
  <2>. QED
    BY <2>1, <2>2 DEF TreeWellFormed
<1>. QED
  BY <1>1, SearchInvariance, PTL

(* The two counts of /index/Health agree.                                  *)
THEOREM HealthCountsTheorem == Spec => []HealthCountsAgree
<1>1. SearchInv => HealthCountsAgree
  <2> SUFFICES ASSUME SearchInv PROVE HealthCountsAgree
    OBVIOUS
  <2>1. SearchTree(tree) /\ WordsIn(tree) = DOMAIN ix.index
    BY IndexHasKeys DEF SearchInv, Holds
  <2>2. CountWords(tree) = Cardinality(WordsIn(tree))
    BY <2>1, TraversalsSound
  <2>. QED
    BY <2>1, <2>2 DEF HealthCountsAgree
<1>. QED
  BY <1>1, SearchInvariance, PTL

(* What a prefix of any word finds.                                        *)
LEMMA TreeAnswers ==
  ASSUME SearchInv, NEW prefix \in Keys
  PROVE  LET found == PrefixSearch(tree, prefix)
         IN  /\ found \in Seq(DOMAIN ix.index) /\ IsInjective(found)
             /\ ToSet(found) = {w \in DOMAIN ix.index : IsPrefix(prefix, w)}
             /\ \A i, j \in DOMAIN found : i < j => Before(found[i], found[j])
<1> DEFINE found == PrefixSearch(tree, prefix)
<1>1. SearchTree(tree) /\ WordsIn(tree) = DOMAIN ix.index
  BY IndexHasKeys DEF SearchInv, Holds
<1>2. prefix \in Word /\ prefix # <<>>
  BY DEF Keys
<1>3. found \in Seq(Word) /\ Sorted(found) /\ ToSet(found) = {w \in WordsIn(tree) : IsPrefix(prefix, w)}
  BY <1>1, <1>2, PrefixSearchSound
<1> HIDE DEF found
<1>4. \A i \in DOMAIN found : found[i] \in DOMAIN ix.index /\ found[i] \in Word
  BY <1>1, <1>3 DEF ToSet
<1>5. found \in Seq(DOMAIN ix.index)
  <2>1. Len(found) \in Nat /\ DOMAIN found = 1 .. Len(found) /\ found = [i \in 1 .. Len(found) |-> found[i]]
    BY <1>3
  <2>2. found \in [1 .. Len(found) -> DOMAIN ix.index]
    BY <1>4, <2>1
  <2>. QED
    BY <2>1, <2>2
<1>6. IsInjective(found)
  <2> SUFFICES ASSUME NEW i \in DOMAIN found, NEW j \in DOMAIN found, found[i] = found[j], i # j
               PROVE  FALSE
    BY DEF IsInjective
  <2>1. i \in Nat /\ j \in Nat
    BY <1>3
  <2>2. i < j \/ j < i
    BY <2>1
  <2>3. Before(found[i], found[j]) \/ Before(found[j], found[i])
    BY <1>3, <2>2 DEF Sorted
  <2>. QED
    BY <1>4, <2>3, NotBeforeItself
<1>7. ToSet(found) = {w \in DOMAIN ix.index : IsPrefix(prefix, w)}
  BY <1>1, <1>3
<1>. QED
  BY <1>3, <1>5, <1>6, <1>7 DEF Sorted, found

(* The tokens of a query are words.                                        *)
LEMMA QueriesHaveKeys ==
  ASSUME NEW query \in Queries, NEW token \in ToSet(SimpleTokenize(query))
  PROVE  token \in Keys
<1>1. query \in Seq(Nat)
  BY BytesAreNumbers, TextsAssumption
<1>2. PICK k \in DOMAIN SimpleTokenize(query) : token = SimpleTokenize(query)[k]
  BY DEF ToSet
<1>. QED
  BY <1>1, <1>2, TokensIndexed DEF IsWord, Keys

(* A prefix finds the indexed words it starts, each once and in order      *)
(* (TernarySearchTree.cpp:27-90).                                          *)
THEOREM PrefixSearchTheorem == Spec => []PrefixSearchExact
<1>1. ASSUME NEW w \in Terms, NEW prefix \in Prefixes(w)
      PROVE  prefix \in Word
  BY WordsAssumption, BytesAreNumbers, CutsAreTexts DEF Word
<1>2. SearchInv => PrefixSearchExact
  <2> SUFFICES ASSUME SearchInv,
                      NEW prefix \in ((UNION {Prefixes(w) : w \in Terms}) \ {<<>>})
                                       \cup UNION {ToSet(SimpleTokenize(query)) : query \in Queries}
               PROVE  LET found == PrefixSearch(tree, prefix)
                      IN  /\ ToSet(found) = {w \in DOMAIN ix.index : IsPrefix(prefix, w)}
                          /\ \A i, j \in DOMAIN found : i < j => Before(found[i], found[j])
    BY DEF PrefixSearchExact
  <2>1. CASE prefix # <<>> /\ \E w \in Terms : prefix \in Prefixes(w)
    <3>1. prefix \in Word
      BY <1>1, <2>1
    <3>2. prefix \in Keys
      BY <2>1, <3>1 DEF Keys
    <3>. QED
      BY <3>2, TreeAnswers
  <2>2. CASE \E query \in Queries : prefix \in ToSet(SimpleTokenize(query))
    BY <2>2, QueriesHaveKeys, TreeAnswers
  <2>3. \/ prefix # <<>> /\ \E w \in Terms : prefix \in Prefixes(w)
        \/ \E query \in Queries : prefix \in ToSet(SimpleTokenize(query))
    OBVIOUS
  <2>. QED
    BY <2>1, <2>2, <2>3
<1>. QED
  BY <1>2, SearchInvariance, PTL

(* From the bytes of the files to the answer the tree gives the searcher:  *)
(* through every history of requests, an unambiguous phrase is found       *)
(* wherever it occurs, and no hit is invented.                             *)
THEOREM AnswersTheorem == Spec => []AnswersExact
<1>1. SearchInv => AnswersExact
  <2> SUFFICES ASSUME SearchInv, NEW query \in Queries
               PROVE  /\ ExactPhrase(ix.index, FromTree(query), query)
                      /\ HitsOccur(ix.index, FromTree(query), query)
    BY DEF AnswersExact
  <2>1. query \in Seq(Nat)
    BY BytesAreNumbers, TextsAssumption
  <2>2. IsPostings(ix.index) /\ IsFiniteSet(DOMAIN ix.index)
    BY PostingsFinite DEF SearchInv
  <2>3. CompletionsExact(ix.index, FromTree(query), SimpleTokenize(query))
    <3> SUFFICES ASSUME NEW token \in ToSet(SimpleTokenize(query)) \ DOMAIN ix.index
                 PROVE  /\ FromTree(query)[token] \in Seq(DOMAIN ix.index)
                        /\ IsInjective(FromTree(query)[token])
                        /\ ToSet(FromTree(query)[token]) = {w \in DOMAIN ix.index : IsPrefix(token, w)}
      BY DEF CompletionsExact
    <3>1. FromTree(query)[token] = PrefixSearch(tree, token)
      BY DEF FromTree
    <3>2. token \in Keys
      BY QueriesHaveKeys
    <3>. QED
      BY <3>1, <3>2, TreeAnswers
  <2>. QED
    BY <2>1, <2>2, <2>3, SearchTheorem
<1>. QED
  BY <1>1, SearchInvariance, PTL

(* What is proved of the requests on the index holds of those that change  *)
(* the tree as well.                                                       *)
THEOREM IndexTheoremsHold ==
  Spec => [](/\ TypeOK /\ TokenizersAgree /\ WordsAreMaximalRuns /\ PostingsAreTokens
             /\ WordsFoundWhereTheyAre /\ ExactPhrases /\ SearchNeverInvents)
<1>. QED
  BY SearchImplementsIndex, DocumentTypeTheorem, TokenizersAgreeTheorem, MaximalRunsTheorem,
     PostingsTheorem, WordsFoundTheorem, ExactPhrasesTheorem, NeverInventsTheorem, PTL
=============================================================================
