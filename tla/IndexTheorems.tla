---------------------------- MODULE IndexTheorems ----------------------------
(***************************************************************************)
(* What the operations on the index preserve, for any files, terms and     *)
(* documents.                                                              *)
(***************************************************************************)
EXTENDS IndexSerializer, FiniteSetTheorems, WellFoundedInduction, TLAPS

(* Assignment to a map of the index (operator[]) keeps its type.           *)
LEMMA PutType ==
  ASSUME NEW S, NEW T, NEW map, IsMap(map, S, T), NEW key \in S, NEW value \in T
  PROVE  IsMap(Put(map, key, value), S, T)
BY DEF IsMap, Put

(* Erasing a key keeps it.                                                 *)
LEMMA WithoutType ==
  ASSUME NEW S, NEW T, NEW map, IsMap(map, S, T), NEW key
  PROVE  IsMap(Without(map, key), S, T)
BY DEF IsMap, Without, Restrict

(* A fresh unordered_map has any map type.                                 *)
LEMMA EmptyMapType ==
  ASSUME NEW S, NEW T
  PROVE  IsMap(EmptyMap, S, T)
BY DEF IsMap, EmptyMap

(* The index of a fresh Engine is typed and in agreement.                  *)
LEMMA EmptyIndexType == IsIndex(EmptyIndex) /\ CoherentIndex(EmptyIndex)
BY EmptyMapType DEF IsIndex, EmptyIndex, EmptyMap, CoherentIndex, TreeMatchesIndex, NoEmptyTerm,
     PostingsHaveMetadata, MetadataHasPostings, PositionsTile

(* Merging postings (the loops of Indexer.cpp:40-45 and                    *)
(* IndexSerializer.cpp:192-197) yields a typed index.                      *)
LEMMA InsertType ==
  ASSUME NEW ix, IsIndex(ix), NEW file \in Files,
         NEW localIndex, IsMap(localIndex, Terms, SUBSET Nat)
  PROVE  IsIndex(InsertPostings(ix, file, localIndex))
<1> DEFINE jx == InsertPostings(ix, file, localIndex)
           Docs(t) == IF t \in DOMAIN ix.index THEN ix.index[t] ELSE EmptyMap
<1>1. ASSUME NEW t \in DOMAIN localIndex
      PROVE  IsMap(Put(Docs(t), file, localIndex[t]), Files, SUBSET Nat)
  <2>1. IsMap(Docs(t), Files, SUBSET Nat)
    BY EmptyMapType DEF IsIndex
  <2>2. localIndex[t] \in SUBSET Nat
    BY DEF IsMap
  <2>. QED
    BY <2>1, <2>2, PutType
<1>2. jx.index = [t \in DOMAIN ix.index \cup DOMAIN localIndex |->
                    IF t \in DOMAIN localIndex
                    THEN Put(Docs(t), file, localIndex[t]) ELSE ix.index[t]]
  BY DEF InsertPostings
<1>3. \A t \in DOMAIN jx.index : IsMap(jx.index[t], Files, SUBSET Nat)
  BY <1>1, <1>2 DEF IsIndex
<1>4. DOMAIN jx.index \subseteq Terms
  BY <1>2 DEF IsIndex, IsMap
<1>5. /\ jx = [index |-> jx.index, fileToTerms |-> jx.fileToTerms,
               totalTokensInIndex |-> jx.totalTokensInIndex, tst |-> jx.tst]
      /\ jx.fileToTerms = ix.fileToTerms
      /\ jx.totalTokensInIndex = ix.totalTokensInIndex
      /\ jx.tst \subseteq Terms
  BY DEF InsertPostings, IsIndex, IsMap
<1>. QED
  BY <1>3, <1>4, <1>5 DEF IsIndex

(* So does recording the metadata of a file,                               *)
LEMMA RegisterType ==
  ASSUME NEW ix, IsIndex(ix), NEW file \in Files, NEW metadata \in FileMetadata
  PROVE  IsIndex(Register(ix, file, metadata))
<1>1. metadata.tokenCount \in Int
  BY DEF FileMetadata
<1>2. IsMap(Put(ix.fileToTerms, file, metadata), Files, FileMetadata)
  BY PutType DEF IsIndex
<1>. QED
  BY <1>1, <1>2 DEF IsIndex, Register

(* and removeFileFromIndex (Indexer.cpp:104-122), of a file the index      *)
(* knows or not.                                                           *)
LEMMA RemoveType ==
  ASSUME NEW ix, IsIndex(ix), NEW file
  PROVE  IsIndex(RemoveFileFromIndex(ix, file))
<1> DEFINE jx == RemoveFileFromIndex(ix, file)
           terms == ix.fileToTerms[file].uniqueTerms
           Left(t) == IF t \in terms THEN Without(ix.index[t], file) ELSE ix.index[t]
           emptied == {t \in terms \cap DOMAIN ix.index : DOMAIN Left(t) = {}}
<1>1. CASE ~FilePresent(ix, file)
  BY <1>1 DEF RemoveFileFromIndex
<1>2. CASE FilePresent(ix, file)
  <2>1. /\ jx = [index |-> jx.index, fileToTerms |-> jx.fileToTerms,
                 totalTokensInIndex |-> jx.totalTokensInIndex, tst |-> jx.tst]
        /\ jx.index = [t \in DOMAIN ix.index \ emptied |-> Left(t)]
        /\ jx.fileToTerms = Without(ix.fileToTerms, file)
        /\ jx.totalTokensInIndex = ix.totalTokensInIndex - ix.fileToTerms[file].tokenCount
        /\ jx.tst = ix.tst \ emptied
    BY <1>2 DEF RemoveFileFromIndex
  <2>2. \A t \in DOMAIN jx.index : IsMap(jx.index[t], Files, SUBSET Nat)
    BY <2>1, WithoutType DEF IsIndex
  <2>3. ix.fileToTerms[file].tokenCount \in Nat
    BY <1>2 DEF FilePresent, IsIndex, IsMap, FileMetadata
  <2>4. IsMap(jx.fileToTerms, Files, FileMetadata)
    BY <2>1, WithoutType DEF IsIndex
  <2>5. jx.totalTokensInIndex \in Int
    BY <2>1, <2>3 DEF IsIndex
  <2>6. DOMAIN jx.index \subseteq Terms /\ jx.tst \subseteq Terms
    BY <2>1 DEF IsIndex
  <2>. QED
    BY <2>1, <2>2, <2>4, <2>5, <2>6 DEF IsIndex
<1>. QED
  BY <1>1, <1>2

(* A partial result is typed, lists the terms it holds, and its postings   *)
(* tile the document: what tokenizing and loading both produce.            *)
IsPartial(partial) ==
  /\ partial.filePath \in Files
  /\ IsMap(partial.localIndex, Terms, SUBSET Nat)
  /\ partial.localFileToTerms.tokenCount \in Nat
  /\ partial.localFileToTerms.uniqueTerms = DOMAIN partial.localIndex
  /\ Tiles(partial.localIndex, partial.localFileToTerms.tokenCount)

(* Tokenizing any document (Indexer.cpp:16-35) yields a partial result     *)
(* whose postings tile it.                                                 *)
LEMMA PartialSound ==
  ASSUME NEW file \in Files, NEW text \in Seq(Terms)
  PROVE  LET partial == PartialIndexThreadWorkers(file, text)
         IN  /\ IsPartial(partial)
             /\ partial.filePath = file
             /\ partial.localFileToTerms =
                  [tokenCount |-> partial.localFileToTerms.tokenCount,
                   uniqueTerms |-> partial.localFileToTerms.uniqueTerms, generation |-> 0]
<1> DEFINE partial == PartialIndexThreadWorkers(file, text)
           tokens == {text[i] : i \in 1 .. Len(text)}
           n == Len(text)
<1>1. /\ partial.filePath = file
      /\ partial.localIndex = [t \in tokens |-> {p \in 0 .. n - 1 : text[p + 1] = t}]
      /\ partial.localFileToTerms = [tokenCount |-> n, uniqueTerms |-> tokens, generation |-> 0]
  BY DEF PartialIndexThreadWorkers
<1>2. n \in Nat /\ tokens \subseteq Terms
  OBVIOUS
<1>3. IsMap(partial.localIndex, Terms, SUBSET Nat)
  BY <1>1, <1>2 DEF IsMap
<1>4. Tiles(partial.localIndex, n)
  <2>1. ASSUME NEW t \in tokens
        PROVE  /\ partial.localIndex[t] # {}
               /\ partial.localIndex[t] \subseteq 0 .. n - 1
    <3>1. PICK i \in 1 .. n : text[i] = t
      OBVIOUS
    <3>2. i - 1 \in 0 .. n - 1 /\ (i - 1) + 1 = i
      BY <1>2
    <3>. QED
      BY <1>1, <3>1, <3>2
  <2>2. ASSUME NEW p \in 0 .. n - 1
        PROVE  \E t \in tokens : p \in partial.localIndex[t]
    <3>1. p + 1 \in 1 .. n
      BY <1>2
    <3>2. text[p + 1] \in tokens
      BY <3>1
    <3>. QED
      BY <1>1, <3>2
  <2>3. ASSUME NEW t \in tokens, NEW u \in tokens, t # u
        PROVE  partial.localIndex[t] \cap partial.localIndex[u] = {}
    BY <1>1, <2>3
  <2>4. DOMAIN partial.localIndex = tokens
    BY <1>1
  <2>. QED
    BY <2>1, <2>2, <2>3, <2>4 DEF Tiles
<1>. QED
  BY <1>1, <1>2, <1>3, <1>4 DEF IsPartial

-----------------------------------------------------------------------------
(* Removing a file keeps the parts of the index in agreement and touches   *)
(* no other file.                                                          *)
LEMMA RemoveCoherent ==
  ASSUME NEW ix, IsIndex(ix), CoherentIndex(ix), NEW file
  PROVE  LET jx == RemoveFileFromIndex(ix, file)
         IN  /\ CoherentIndex(jx)
             /\ ~FilePresent(jx, file)
             /\ DOMAIN jx.fileToTerms = DOMAIN ix.fileToTerms \ {file}
             /\ \A g \in DOMAIN jx.fileToTerms :
                  /\ jx.fileToTerms[g] = ix.fileToTerms[g]
                  /\ PostingsOf(jx, g) = PostingsOf(ix, g)
<1> DEFINE jx == RemoveFileFromIndex(ix, file)
           terms == ix.fileToTerms[file].uniqueTerms
           Left(t) == IF t \in terms THEN Without(ix.index[t], file) ELSE ix.index[t]
           emptied == {t \in terms \cap DOMAIN ix.index : DOMAIN Left(t) = {}}
<1>1. CASE ~FilePresent(ix, file)
  <2>1. jx = ix
    BY <1>1 DEF RemoveFileFromIndex
  <2>. QED
    BY <1>1, <2>1 DEF FilePresent
<1>2. CASE FilePresent(ix, file)
  <2>1. /\ jx.index = [t \in DOMAIN ix.index \ emptied |-> Left(t)]
        /\ jx.fileToTerms = Without(ix.fileToTerms, file)
        /\ jx.tst = ix.tst \ emptied
    BY <1>2 DEF RemoveFileFromIndex
  <2>2. ASSUME NEW t \in DOMAIN ix.index
        PROVE  t \in terms <=> file \in DOMAIN ix.index[t]
    BY <1>2 DEF CoherentIndex, PostingsHaveMetadata, MetadataHasPostings, FilePresent
  <2>3. ASSUME NEW t \in DOMAIN ix.index
        PROVE  /\ DOMAIN Left(t) = DOMAIN ix.index[t] \ {file}
               /\ \A g \in DOMAIN Left(t) : Left(t)[g] = ix.index[t][g]
    BY <2>2 DEF Without, Restrict
  <2>4. emptied = {t \in DOMAIN ix.index : DOMAIN Left(t) = {}}
    BY DEF CoherentIndex, NoEmptyTerm
  <2> HIDE DEF jx, Left, emptied
  <2>5. /\ DOMAIN jx.fileToTerms = DOMAIN ix.fileToTerms \ {file}
        /\ \A g \in DOMAIN jx.fileToTerms : jx.fileToTerms[g] = ix.fileToTerms[g]
    BY <2>1 DEF Without, Restrict
  <2>6. \A g \in DOMAIN jx.fileToTerms : PostingsOf(jx, g) = PostingsOf(ix, g)
    <3> SUFFICES ASSUME NEW g, g # file
                 PROVE  PostingsOf(jx, g) = PostingsOf(ix, g)
      BY <2>5
    <3>1. {t \in DOMAIN jx.index : g \in DOMAIN jx.index[t]}
            = {t \in DOMAIN ix.index : g \in DOMAIN ix.index[t]}
      BY <2>1, <2>3, <2>4
    <3>2. ASSUME NEW t \in DOMAIN jx.index, g \in DOMAIN jx.index[t]
          PROVE  jx.index[t][g] = ix.index[t][g]
      BY <2>1, <2>3, <3>2
    <3>. QED
      BY <3>1, <3>2 DEF PostingsOf
  <2>7. TreeMatchesIndex(jx) /\ NoEmptyTerm(jx)
    BY <2>1, <2>4 DEF CoherentIndex, TreeMatchesIndex, NoEmptyTerm
  <2>8. PostingsHaveMetadata(jx)
    <3> SUFFICES ASSUME NEW t \in DOMAIN jx.index, NEW g \in DOMAIN jx.index[t]
                 PROVE  FilePresent(jx, g) /\ t \in jx.fileToTerms[g].uniqueTerms
      BY DEF PostingsHaveMetadata
    <3>1. t \in DOMAIN ix.index /\ g \in DOMAIN ix.index[t] /\ g # file
      BY <2>1, <2>3
    <3>. QED
      BY <3>1, <2>5 DEF CoherentIndex, PostingsHaveMetadata, FilePresent
  <2>9. MetadataHasPostings(jx)
    <3> SUFFICES ASSUME NEW g \in DOMAIN jx.fileToTerms, NEW t \in jx.fileToTerms[g].uniqueTerms
                 PROVE  t \in DOMAIN jx.index /\ g \in DOMAIN jx.index[t]
      BY DEF MetadataHasPostings
    <3>1. t \in DOMAIN ix.index /\ g \in DOMAIN ix.index[t] /\ g # file
      BY <2>5 DEF CoherentIndex, MetadataHasPostings
    <3>. QED
      BY <3>1, <2>1, <2>3, <2>4
  <2>10. PositionsTile(jx)
    BY <2>5, <2>6 DEF CoherentIndex, PositionsTile
  <2>11. ~FilePresent(jx, file)
    BY <2>5 DEF FilePresent
  <2>. QED
    BY <2>5, <2>6, <2>7, <2>8, <2>9, <2>10, <2>11 DEF CoherentIndex, jx
<1>. QED
  BY <1>1, <1>2

(* Putting in the postings and the metadata of a file the index does not   *)
(* know keeps them in agreement and touches no other file.                 *)
LEMMA InsertCoherent ==
  ASSUME NEW ix, IsIndex(ix), CoherentIndex(ix), NEW file, ~FilePresent(ix, file),
         NEW localIndex, NEW metadata,
         metadata.uniqueTerms = DOMAIN localIndex, Tiles(localIndex, metadata.tokenCount),
         localIndex = [t \in DOMAIN localIndex |-> localIndex[t]]
  PROVE  LET jx == Register(InsertPostings(ix, file, localIndex), file, metadata)
         IN  /\ CoherentIndex(jx)
             /\ DOMAIN jx.fileToTerms = DOMAIN ix.fileToTerms \cup {file}
             /\ jx.fileToTerms[file] = metadata
             /\ PostingsOf(jx, file) = localIndex
             /\ \A g \in DOMAIN ix.fileToTerms :
                  /\ jx.fileToTerms[g] = ix.fileToTerms[g]
                  /\ PostingsOf(jx, g) = PostingsOf(ix, g)
<1> DEFINE jx == Register(InsertPostings(ix, file, localIndex), file, metadata)
           Docs(t) == IF t \in DOMAIN ix.index THEN ix.index[t] ELSE EmptyMap
<1>1. /\ jx.index = [t \in DOMAIN ix.index \cup DOMAIN localIndex |->
                       IF t \in DOMAIN localIndex
                       THEN Put(Docs(t), file, localIndex[t]) ELSE ix.index[t]]
      /\ jx.tst = ix.tst \cup (DOMAIN localIndex \ DOMAIN ix.index)
      /\ jx.fileToTerms = Put(ix.fileToTerms, file, metadata)
  BY DEF Register, InsertPostings
<1>2. ASSUME NEW t \in DOMAIN localIndex
      PROVE  /\ DOMAIN jx.index[t] = DOMAIN Docs(t) \cup {file}
             /\ jx.index[t][file] = localIndex[t]
             /\ \A g \in DOMAIN Docs(t) : g # file => jx.index[t][g] = Docs(t)[g]
  BY <1>1 DEF Put
<1>3. ASSUME NEW t \in DOMAIN ix.index, t \notin DOMAIN localIndex
      PROVE  jx.index[t] = ix.index[t]
  BY <1>1, <1>3
<1>4. DOMAIN jx.index = DOMAIN ix.index \cup DOMAIN localIndex
  BY <1>1
<1>5. /\ DOMAIN jx.fileToTerms = DOMAIN ix.fileToTerms \cup {file}
      /\ jx.fileToTerms[file] = metadata
      /\ \A g \in DOMAIN ix.fileToTerms : jx.fileToTerms[g] = ix.fileToTerms[g]
  BY <1>1 DEF Put, FilePresent
<1>6. \A t \in DOMAIN ix.index : file \notin DOMAIN ix.index[t]
  BY DEF CoherentIndex, PostingsHaveMetadata
<1>7. \A t : t \notin DOMAIN ix.index => DOMAIN Docs(t) = {}
  BY DEF EmptyMap
<1>8. \A t \in DOMAIN ix.index : Docs(t) = ix.index[t]
  OBVIOUS
<1> HIDE DEF jx, Docs
<1>9. PostingsOf(jx, file) = localIndex
  <2>1. {t \in DOMAIN jx.index : file \in DOMAIN jx.index[t]} = DOMAIN localIndex
    BY <1>2, <1>3, <1>4, <1>6
  <2>. QED
    BY <2>1, <1>2 DEF PostingsOf
<1>10. ASSUME NEW g \in DOMAIN ix.fileToTerms
       PROVE  PostingsOf(jx, g) = PostingsOf(ix, g)
  <2>1. g # file
    BY DEF FilePresent
  <2>2. {t \in DOMAIN jx.index : g \in DOMAIN jx.index[t]}
          = {t \in DOMAIN ix.index : g \in DOMAIN ix.index[t]}
    BY <1>2, <1>3, <1>4, <1>7, <1>8, <2>1
  <2>3. ASSUME NEW t \in DOMAIN ix.index, g \in DOMAIN ix.index[t]
        PROVE  jx.index[t][g] = ix.index[t][g]
    BY <1>2, <1>3, <1>8, <2>1, <2>3
  <2>. QED
    BY <2>2, <2>3 DEF PostingsOf
<1>11. TreeMatchesIndex(jx)
  BY <1>1, <1>4 DEF CoherentIndex, TreeMatchesIndex
<1>12. NoEmptyTerm(jx)
  BY <1>2, <1>3, <1>4 DEF CoherentIndex, NoEmptyTerm
<1>13. PostingsHaveMetadata(jx)
  <2> SUFFICES ASSUME NEW t \in DOMAIN jx.index, NEW g \in DOMAIN jx.index[t]
               PROVE  FilePresent(jx, g) /\ t \in jx.fileToTerms[g].uniqueTerms
    BY DEF PostingsHaveMetadata
  <2>1. CASE g = file
    <3>1. t \in DOMAIN localIndex
      BY <2>1, <1>3, <1>4, <1>6
    <3>. QED
      BY <3>1, <2>1, <1>5 DEF FilePresent
  <2>2. CASE g # file
    <3>1. t \in DOMAIN ix.index /\ g \in DOMAIN ix.index[t]
      BY <2>2, <1>2, <1>3, <1>4, <1>7, <1>8
    <3>2. g \in DOMAIN ix.fileToTerms /\ t \in ix.fileToTerms[g].uniqueTerms
      BY <3>1 DEF CoherentIndex, PostingsHaveMetadata, FilePresent
    <3>. QED
      BY <3>2, <1>5 DEF FilePresent
  <2>. QED
    BY <2>1, <2>2
<1>14. MetadataHasPostings(jx)
  <2> SUFFICES ASSUME NEW g \in DOMAIN jx.fileToTerms, NEW t \in jx.fileToTerms[g].uniqueTerms
               PROVE  t \in DOMAIN jx.index /\ g \in DOMAIN jx.index[t]
    BY DEF MetadataHasPostings
  <2>1. CASE g = file
    BY <2>1, <1>2, <1>4, <1>5
  <2>2. CASE g # file
    <3>1. t \in DOMAIN ix.index /\ g \in DOMAIN ix.index[t]
      BY <2>2, <1>5 DEF CoherentIndex, MetadataHasPostings
    <3>. QED
      BY <3>1, <1>2, <1>3, <1>4, <1>8
  <2>. QED
    BY <2>1, <2>2
<1>15. PositionsTile(jx)
  BY <1>5, <1>9, <1>10 DEF CoherentIndex, PositionsTile
<1>. QED
  BY <1>5, <1>9, <1>10, <1>11, <1>12, <1>13, <1>14, <1>15 DEF CoherentIndex, jx

-----------------------------------------------------------------------------
(* Merging a partial result: the file is there with its postings and the   *)
(* next generation, and everything still agrees.                           *)
LEMMA BuildSound ==
  ASSUME NEW ix, IsIndex(ix), NEW file \in Files, NEW text \in Seq(Terms)
  PROVE  LET jx == BuildIndex(ix, file, text)
         IN  /\ IsIndex(jx)
             /\ DOMAIN jx.fileToTerms = DOMAIN ix.fileToTerms \cup {file}
             /\ jx.fileToTerms[file].generation = GetFileGen(ix, file) + 1
             /\ CoherentIndex(ix) => CoherentIndex(jx)
<1> DEFINE partial == PartialIndexThreadWorkers(file, text)
           nextGeneration == GetFileGen(ix, file) + 1
           metadata == [partial.localFileToTerms EXCEPT !.generation = nextGeneration]
           removed == RemoveFileFromIndex(ix, file)
           inserted == InsertPostings(removed, file, partial.localIndex)
           jx == Register(inserted, file, metadata)
<1>1. /\ IsPartial(partial)
      /\ partial.filePath = file
      /\ partial.localFileToTerms =
           [tokenCount |-> partial.localFileToTerms.tokenCount,
            uniqueTerms |-> partial.localFileToTerms.uniqueTerms, generation |-> 0]
  BY PartialSound
<1>2. BuildIndex(ix, file, text) = jx
  BY <1>1 DEF BuildIndex, MergePartialIndexThreadWorkers
<1> HIDE DEF partial
<1>3. nextGeneration \in Nat \ {0}
  BY DEF GetFileGen, FilePresent, IsIndex, IsMap, FileMetadata
<1>4. /\ metadata \in FileMetadata
      /\ metadata.generation = nextGeneration
      /\ metadata.tokenCount = partial.localFileToTerms.tokenCount
      /\ metadata.uniqueTerms = DOMAIN partial.localIndex
  <2>1. metadata = [tokenCount |-> partial.localFileToTerms.tokenCount,
                    uniqueTerms |-> DOMAIN partial.localIndex, generation |-> nextGeneration]
    BY <1>1 DEF IsPartial
  <2>. QED
    BY <2>1, <1>1, <1>3 DEF IsPartial, FileMetadata, IsMap
<1> HIDE DEF metadata, nextGeneration
<1>5. IsIndex(removed)
  BY RemoveType
<1>6. IsIndex(inserted)
  BY <1>1, <1>5, InsertType DEF IsPartial
<1>7. IsIndex(jx)
  BY <1>4, <1>6, RegisterType
<1>8. DOMAIN removed.fileToTerms = DOMAIN ix.fileToTerms \ {file}
  BY DEF RemoveFileFromIndex, FilePresent, Without, Restrict
<1>9. jx.fileToTerms = Put(removed.fileToTerms, file, metadata)
  BY DEF Register, InsertPostings
<1>10. /\ DOMAIN jx.fileToTerms = DOMAIN ix.fileToTerms \cup {file}
       /\ jx.fileToTerms[file].generation = nextGeneration
  BY <1>4, <1>8, <1>9 DEF Put
<1>11. ASSUME CoherentIndex(ix)
       PROVE  CoherentIndex(jx)
  <2>1. CoherentIndex(removed) /\ ~FilePresent(removed, file)
    BY <1>11, RemoveCoherent
  <2>2. Tiles(partial.localIndex, metadata.tokenCount)
    BY <1>1, <1>4 DEF IsPartial
  <2>3. partial.localIndex = [t \in DOMAIN partial.localIndex |-> partial.localIndex[t]]
    BY <1>1 DEF IsPartial, IsMap
  <2>4. metadata.uniqueTerms = DOMAIN partial.localIndex
    BY <1>4
  <2> HIDE DEF removed
  <2>. QED
    BY <1>5, <2>1, <2>2, <2>3, <2>4, InsertCoherent
<1>. QED
  BY <1>2, <1>7, <1>10, <1>11 DEF nextGeneration

(* Loading a whole segment of a file the index does not hold.              *)
LEMMA LoadSound ==
  ASSUME NEW ix, IsIndex(ix), NEW segment \in Segments
  PROVE  LET jx == MergePartialLoadIndexThreadWorkers(ix, PartialLoadIndexThreadWorkers(segment))
         IN  /\ IsIndex(jx)
             /\ DOMAIN jx.fileToTerms = DOMAIN ix.fileToTerms \cup {segment.filePath}
             /\ (CoherentIndex(ix) /\ Whole(segment) /\ ~FilePresent(ix, segment.filePath))
                  => CoherentIndex(jx)
<1> DEFINE file == segment.filePath
           localIndex == Restrict(segment.postings, ListedTerms(segment))
           metadata == [tokenCount |-> segment.tokenCount, uniqueTerms |-> ListedTerms(segment),
                        generation |-> segment.generation]
           inserted == InsertPostings(ix, file, localIndex)
           jx == Register(inserted, file, metadata)
<1>1. MergePartialLoadIndexThreadWorkers(ix, PartialLoadIndexThreadWorkers(segment)) = jx
  BY DEF MergePartialLoadIndexThreadWorkers, PartialLoadIndexThreadWorkers
<1>2. /\ file \in Files /\ metadata \in FileMetadata
      /\ IsMap(localIndex, Terms, SUBSET Nat)
      /\ DOMAIN localIndex = ListedTerms(segment)
      /\ localIndex = [t \in DOMAIN localIndex |-> localIndex[t]]
  BY DEF Segments, FileMetadata, ListedTerms, IsMap, Restrict
<1>3. metadata.uniqueTerms = DOMAIN localIndex /\ metadata.tokenCount = segment.tokenCount
  BY <1>2
<1>4. Whole(segment) => Tiles(localIndex, metadata.tokenCount)
  BY DEF Whole
<1> HIDE DEF file, localIndex, metadata
<1>5. IsIndex(jx)
  BY <1>2, InsertType, RegisterType
<1>6. DOMAIN jx.fileToTerms = DOMAIN ix.fileToTerms \cup {file}
  BY DEF Register, InsertPostings, Put
<1>7. (CoherentIndex(ix) /\ Whole(segment) /\ ~FilePresent(ix, file)) => CoherentIndex(jx)
  BY <1>2, <1>3, <1>4, InsertCoherent
<1>. QED
  BY <1>1, <1>5, <1>6, <1>7 DEF file

(* What save writes of an indexed file is a segment, and whole.            *)
LEMMA SaveSound ==
  ASSUME NEW ix, IsIndex(ix), NEW file, FilePresent(ix, file)
  PROVE  /\ Save(ix, file) \in Segments
         /\ Save(ix, file).filePath = file
         /\ CoherentIndex(ix) => /\ Whole(Save(ix, file))
                                 /\ WrittenTerms(ix, file) = ix.fileToTerms[file].uniqueTerms
<1> DEFINE segment == Save(ix, file)
           written == WrittenTerms(ix, file)
           metadata == ix.fileToTerms[file]
<1>1. segment = [filePath |-> file, tokenCount |-> metadata.tokenCount,
                 generation |-> metadata.generation,
                 postings |-> [t \in Terms |-> IF t \in written THEN ix.index[t][file] ELSE {}]]
  BY DEF Save
<1>2. file \in Files /\ metadata \in FileMetadata
  BY DEF FilePresent, IsIndex, IsMap
<1>3. \A t \in written : t \in DOMAIN ix.index /\ file \in DOMAIN ix.index[t] /\ t \in Terms
  BY DEF WrittenTerms, IsIndex
<1>4. \A t \in written : ix.index[t][file] \in SUBSET Nat
  BY <1>3 DEF IsIndex, IsMap
<1> HIDE DEF segment, written, metadata
<1>5. segment.postings \in [Terms -> SUBSET Nat]
  BY <1>1, <1>4
<1>6. segment \in Segments /\ segment.filePath = file
  BY <1>1, <1>2, <1>5 DEF Segments, FileMetadata
<1>7. ASSUME CoherentIndex(ix)
      PROVE  Whole(segment) /\ written = metadata.uniqueTerms
  <2>1. written = metadata.uniqueTerms
    BY <1>7 DEF CoherentIndex, MetadataHasPostings, FilePresent, WrittenTerms, written, metadata
  <2>2. Tiles(PostingsOf(ix, file), metadata.tokenCount)
    BY <1>7 DEF CoherentIndex, PositionsTile, FilePresent, metadata
  <2>3. written = {t \in DOMAIN ix.index : file \in DOMAIN ix.index[t]}
    BY <1>7, <1>3, <2>1 DEF CoherentIndex, PostingsHaveMetadata, metadata
  <2>4. PostingsOf(ix, file) = [t \in written |-> ix.index[t][file]]
    BY <2>3 DEF PostingsOf
  <2>5. \A t \in written : ix.index[t][file] # {}
    BY <2>2, <2>4 DEF Tiles
  <2>6. ListedTerms(segment) = written
    BY <1>1, <1>3, <2>5 DEF ListedTerms
  <2>7. Restrict(segment.postings, written) = PostingsOf(ix, file)
    BY <1>1, <1>3, <2>4 DEF Restrict
  <2>. QED
    BY <1>1, <2>1, <2>2, <2>6, <2>7 DEF Whole
<1>. QED
  BY <1>6, <1>7 DEF segment, written, metadata

-----------------------------------------------------------------------------
(* The token total of the index is a sum over a finite map, a recursive    *)
(* definition: what it computes is shown by induction over the subsets of  *)
(* the map's domain.                                                       *)

(* Induction over a finite set, with a set P in the place of a predicate:  *)
(* a smallest subset outside of P would be a counterexample to the step.   *)
LEMMA SubsetInduction ==
  ASSUME NEW S, IsFiniteSet(S), NEW P,
         {} \in P,
         \A T \in SUBSET S : T # {} /\ (\A x \in T : T \ {x} \in P) => T \in P
  PROVE  SUBSET S \subseteq P
<1> DEFINE bad == {T \in SUBSET S : T \notin P}
<1>1. SUFFICES ASSUME bad # {} PROVE FALSE
  OBVIOUS
<1>2. IsWellFoundedOn(StrictSubsetOrdering(S), SUBSET S)
  BY FS_StrictSubsetOrderingWellFounded, FS_FiniteSubsetsOfFinite
<1>3. bad \subseteq SUBSET S
  OBVIOUS
<1>4. PICK T \in bad : \A U \in bad : ~(<<U, T>> \in StrictSubsetOrdering(S))
  <2> HIDE DEF bad
  <2>. QED
    BY <1>1, <1>2, <1>3, WFMin
<1>5. \A x \in T : T \ {x} \in SUBSET S /\ <<T \ {x}, T>> \in StrictSubsetOrdering(S)
  BY DEF StrictSubsetOrdering
<1>6. \A x \in T : T \ {x} \in P
  BY <1>4, <1>5
<1>. QED
  BY <1>6

-----------------------------------------------------------------------------
(* A finite map of records with a token count.                             *)
IsCounted(map) ==
  /\ map = [k \in DOMAIN map |-> map[k]]
  /\ IsFiniteSet(DOMAIN map)
  /\ \A k \in DOMAIN map : map[k].tokenCount \in Int

(* sum[s] is the sum over the keys in s, whatever key is taken first.      *)
Additive(S, map, sum) ==
  /\ sum \in [SUBSET S -> Int]
  /\ sum[{}] = 0
  /\ \A s \in SUBSET S : \A x \in s : sum[s] = map[x].tokenCount + sum[s \ {x}]

(* The equation of the fold, which takes the keys in the order of CHOOSE.  *)
Iterate(map, sum) ==
  [s \in SUBSET DOMAIN map |->
     IF s = {} THEN 0
     ELSE LET x == CHOOSE x \in s : TRUE IN map[x].tokenCount + sum[s \ {x}]]

(* TokenTotal is what some solution of that equation gives the whole map.  *)
LEMMA FoldUnfolds ==
  ASSUME NEW map
  PROVE  TokenTotal(map) = (CHOOSE sum : sum = Iterate(map, sum))[DOMAIN map]
BY DEF TokenTotal, FoldFunction, FoldFunctionOnSet, MapThenFoldSet, Iterate

(* There is such a sum,                                                    *)
LEMMA AdditiveExists ==
  ASSUME NEW map, IsCounted(map)
  PROVE  \E sum : Additive(DOMAIN map, map, sum)
<1> DEFINE S == DOMAIN map
           P == {T \in SUBSET S : \E sum : Additive(T, map, sum)}
<1>1. {} \in P
  <2> DEFINE zero == [s \in SUBSET {} |-> 0]
  <2>1. Additive({}, map, zero)
    BY DEF Additive
  <2>. QED
    BY <2>1
<1>2. ASSUME NEW T \in SUBSET S, T # {}, \A x \in T : T \ {x} \in P
      PROVE  T \in P
  <2>1. PICK x \in T : TRUE
    BY <1>2
  <2>2. PICK sum : Additive(T \ {x}, map, sum)
    BY <1>2
  <2> DEFINE n == map[x].tokenCount
             more == [s \in SUBSET T |-> IF x \in s THEN n + sum[s \ {x}] ELSE sum[s]]
  <2>3. n \in Int
    BY DEF IsCounted
  <2>4. \A s \in SUBSET T : s \ {x} \in SUBSET (T \ {x})
    OBVIOUS
  <2>5. \A s \in SUBSET (T \ {x}) : sum[s] \in Int
    BY <2>2 DEF Additive
  <2> HIDE DEF n
  <2>6. more \in [SUBSET T -> Int]
    <3>1. ASSUME NEW s \in SUBSET T PROVE more[s] \in Int
      <4>1. CASE x \in s
        BY <2>3, <2>4, <2>5, <4>1
      <4>2. CASE x \notin s
        <5>1. s \in SUBSET (T \ {x})
          BY <4>2
        <5>. QED
          BY <2>5, <4>2, <5>1
      <4>. QED
        BY <4>1, <4>2
    <3>. QED
      BY <3>1
  <2>7. more[{}] = 0
    BY <2>2 DEF Additive
  <2>8. ASSUME NEW s \in SUBSET T, NEW y \in s
        PROVE  more[s] = map[y].tokenCount + more[s \ {y}]
    <3>1. s \ {y} \in SUBSET T
      OBVIOUS
    <3>2. CASE x \notin s
      <4>1. s \in SUBSET (T \ {x}) /\ x \notin s \ {y}
        BY <3>2
      <4>. QED
        BY <2>2, <3>1, <3>2, <4>1 DEF Additive
    <3>3. CASE x \in s /\ y = x
      BY <3>1, <3>3 DEF n
    <3>4. CASE x \in s /\ y # x
      <4> DEFINE rest == s \ {x}
      <4>1. rest \in SUBSET (T \ {x}) /\ y \in rest
        BY <3>4
      <4>2. sum[rest] = map[y].tokenCount + sum[rest \ {y}]
        BY <2>2, <4>1 DEF Additive
      <4>3. more[s] = n + sum[rest]
        BY <3>4
      <4>4. more[s \ {y}] = n + sum[rest \ {y}]
        <5>1. (s \ {y}) \ {x} = rest \ {y} /\ x \in s \ {y}
          BY <3>4
        <5>. QED
          BY <3>1, <5>1
      <4>5. map[y].tokenCount \in Int /\ sum[rest \ {y}] \in Int
        <5>1. y \in S /\ rest \ {y} \in SUBSET (T \ {x})
          BY <4>1
        <5>. QED
          BY <2>5, <5>1 DEF IsCounted
      <4> HIDE DEF rest, more
      <4>. QED
        BY <2>3, <4>2, <4>3, <4>4, <4>5
    <3>. QED
      BY <3>2, <3>3, <3>4
  <2> HIDE DEF more
  <2>. QED
    BY <2>6, <2>7, <2>8 DEF Additive
<1>3. IsFiniteSet(S)
  BY DEF IsCounted
<1>4. SUBSET S \subseteq P
  <2> HIDE DEF P, S
  <2>. QED
    BY <1>1, <1>2, <1>3, SubsetInduction
<1>. QED
  BY <1>4

(* and the fold is one.                                                    *)
LEMMA FoldIsSum ==
  ASSUME NEW map, IsCounted(map), NEW sum, Additive(DOMAIN map, map, sum)
  PROVE  TokenTotal(map) = sum[DOMAIN map]
<1> DEFINE S == DOMAIN map
           fold == CHOOSE g : g = Iterate(map, g)
           P == {T \in SUBSET S : fold[T] = sum[T]}
<1>1. \A T \in SUBSET S : T # {} => (CHOOSE x \in T : TRUE) \in T
  OBVIOUS
<1>2. sum = Iterate(map, sum)
  <2>1. \A T \in SUBSET S : Iterate(map, sum)[T] = sum[T]
    BY <1>1 DEF Iterate, Additive
  <2>2. DOMAIN Iterate(map, sum) = SUBSET S /\ DOMAIN sum = SUBSET S
    BY DEF Iterate, Additive
  <2>. QED
    BY <2>1, <2>2 DEF Iterate, Additive
<1>3. fold = Iterate(map, fold)
  BY <1>2
<1> HIDE DEF fold
<1>4. {} \in P
  BY <1>3 DEF Iterate, Additive
<1>5. ASSUME NEW T \in SUBSET S, T # {}, \A x \in T : T \ {x} \in P
      PROVE  T \in P
  <2> DEFINE x == CHOOSE x \in T : TRUE
  <2>1. x \in T
    BY <1>1, <1>5
  <2>2. fold[T] = map[x].tokenCount + fold[T \ {x}]
    BY <1>3, <1>5 DEF Iterate
  <2> HIDE DEF x
  <2>3. sum[T] = map[x].tokenCount + sum[T \ {x}]
    BY <2>1 DEF Additive
  <2>4. fold[T \ {x}] = sum[T \ {x}]
    BY <1>5, <2>1
  <2>. QED
    BY <2>2, <2>3, <2>4
<1>6. IsFiniteSet(S)
  BY DEF IsCounted
<1>7. SUBSET S \subseteq P
  <2> HIDE DEF P, S
  <2>. QED
    BY <1>4, <1>5, <1>6, SubsetInduction
<1>8. fold[S] = sum[S]
  BY <1>7
<1>. QED
  BY <1>8, FoldUnfolds DEF fold

-----------------------------------------------------------------------------
(* An index without files has no tokens.                                   *)
LEMMA SumEmpty == TokenTotal(EmptyMap) = 0
<1>1. IsCounted(EmptyMap)
  BY FS_EmptySet DEF IsCounted, EmptyMap
<1>2. PICK sum : Additive(DOMAIN EmptyMap, EmptyMap, sum)
  BY <1>1, AdditiveExists
<1>. QED
  BY <1>1, <1>2, FoldIsSum DEF Additive, EmptyMap

(* A key that goes takes its tokens with it,                               *)
LEMMA SumWithout ==
  ASSUME NEW map, IsCounted(map), NEW key \in DOMAIN map
  PROVE  /\ IsCounted(Without(map, key))
         /\ TokenTotal(map) \in Int
         /\ TokenTotal(Without(map, key)) = TokenTotal(map) - map[key].tokenCount
<1> DEFINE less == Without(map, key)
           S == DOMAIN map \ {key}
<1>1. DOMAIN less = S /\ less = [k \in S |-> map[k]]
  BY DEF Without, Restrict
<1>2. IsCounted(less)
  BY <1>1, FS_RemoveElement DEF IsCounted
<1>3. PICK sum : Additive(DOMAIN map, map, sum)
  BY AdditiveExists
<1> DEFINE rest == [s \in SUBSET S |-> sum[s]]
<1>4. Additive(DOMAIN less, less, rest)
  <2>1. rest \in [SUBSET S -> Int] /\ rest[{}] = 0
    BY <1>3 DEF Additive
  <2>2. ASSUME NEW s \in SUBSET S, NEW x \in s
        PROVE  rest[s] = less[x].tokenCount + rest[s \ {x}]
    <3>1. s \ {x} \in SUBSET S /\ s \in SUBSET DOMAIN map /\ x \in S
      OBVIOUS
    <3>2. sum[s] = map[x].tokenCount + sum[s \ {x}]
      BY <1>3, <3>1 DEF Additive
    <3>. QED
      BY <1>1, <3>1, <3>2
  <2> HIDE DEF rest
  <2>. QED
    BY <1>1, <2>1, <2>2 DEF Additive
<1>5. TokenTotal(less) = sum[S]
  <2>1. TokenTotal(less) = rest[S]
    BY <1>1, <1>2, <1>4, FoldIsSum
  <2>. QED
    BY <2>1
<1>6. TokenTotal(map) = sum[DOMAIN map]
  BY <1>3, FoldIsSum
<1>7. /\ sum[DOMAIN map] = map[key].tokenCount + sum[S]
      /\ sum[DOMAIN map] \in Int /\ sum[S] \in Int
  BY <1>3 DEF Additive
<1>8. map[key].tokenCount \in Int
  BY DEF IsCounted
<1>. QED
  BY <1>2, <1>5, <1>6, <1>7, <1>8

(* and one that comes brings its own.                                      *)
LEMMA SumPut ==
  ASSUME NEW map, IsCounted(map), NEW key, key \notin DOMAIN map,
         NEW value, value.tokenCount \in Int
  PROVE  /\ IsCounted(Put(map, key, value))
         /\ TokenTotal(Put(map, key, value)) = TokenTotal(map) + value.tokenCount
<1> DEFINE more == Put(map, key, value)
<1>1. /\ DOMAIN more = DOMAIN map \cup {key} /\ more[key] = value
      /\ more = [k \in DOMAIN more |-> more[k]]
      /\ \A k \in DOMAIN map : more[k] = map[k]
  BY DEF Put
<1> HIDE DEF more
<1>2. IsCounted(more)
  BY <1>1, FS_AddElement DEF IsCounted
<1>3. Without(more, key) = map
  <2>1. DOMAIN more \ {key} = DOMAIN map
    BY <1>1
  <2>2. Without(more, key) = [k \in DOMAIN map |-> more[k]]
    BY <2>1 DEF Without, Restrict
  <2>. QED
    BY <1>1, <2>2 DEF IsCounted
<1>4. TokenTotal(map) = TokenTotal(more) - value.tokenCount /\ TokenTotal(more) \in Int
  BY <1>1, <1>2, <1>3, SumWithout
<1>. QED
  BY <1>2, <1>4 DEF more

-----------------------------------------------------------------------------
(* The total is right in an index with finitely many files.                *)
Summed(jx) ==
  /\ jx.totalTokensInIndex = TokenTotal(jx.fileToTerms)
  /\ IsFiniteSet(DOMAIN jx.fileToTerms)

(* The metadata of such an index can be summed.                            *)
LEMMA MetadataCounted ==
  ASSUME NEW jx, IsIndex(jx), Summed(jx)
  PROVE  IsCounted(jx.fileToTerms)
BY DEF IsIndex, IsMap, FileMetadata, Summed, IsCounted

(* A process starts with nothing to sum.                                   *)
LEMMA SummedEmpty == Summed(EmptyIndex)
BY SumEmpty, FS_EmptySet DEF Summed, EmptyIndex, EmptyMap

(* Removing a file (Indexer.cpp:120) keeps the total right,                *)
LEMMA RemoveSummed ==
  ASSUME NEW jx, IsIndex(jx), Summed(jx), NEW file
  PROVE  Summed(RemoveFileFromIndex(jx, file))
<1>1. CASE ~FilePresent(jx, file)
  BY <1>1 DEF RemoveFileFromIndex
<1>2. CASE FilePresent(jx, file)
  <2> DEFINE map == jx.fileToTerms
             rx == RemoveFileFromIndex(jx, file)
  <2>1. IsCounted(map) /\ file \in DOMAIN map
    BY <1>2, MetadataCounted DEF FilePresent
  <2>2. /\ rx.fileToTerms = Without(map, file)
        /\ rx.totalTokensInIndex = jx.totalTokensInIndex - map[file].tokenCount
    BY <1>2 DEF RemoveFileFromIndex
  <2> HIDE DEF rx
  <2>3. IsCounted(rx.fileToTerms) /\ rx.totalTokensInIndex = TokenTotal(rx.fileToTerms)
    <3>1. jx.totalTokensInIndex = TokenTotal(map)
      BY DEF Summed
    <3> HIDE DEF map
    <3>. QED
      BY <2>1, <2>2, <3>1, SumWithout
  <2>. QED
    BY <2>3 DEF Summed, IsCounted, rx
<1>. QED
  BY <1>1, <1>2

(* registering one that is not there (Indexer.cpp:50, 100,                 *)
(* IndexSerializer.cpp:199) does,                                          *)
LEMMA RegisterSummed ==
  ASSUME NEW jx, IsIndex(jx), Summed(jx), NEW file, ~FilePresent(jx, file),
         NEW localIndex, NEW metadata, metadata.tokenCount \in Int
  PROVE  Summed(Register(InsertPostings(jx, file, localIndex), file, metadata))
<1> DEFINE map == jx.fileToTerms
           rx == Register(InsertPostings(jx, file, localIndex), file, metadata)
<1>1. /\ rx.fileToTerms = Put(map, file, metadata)
      /\ rx.totalTokensInIndex = jx.totalTokensInIndex + metadata.tokenCount
  BY DEF Register, InsertPostings
<1> HIDE DEF rx
<1>2. IsCounted(map) /\ file \notin DOMAIN map /\ jx.totalTokensInIndex = TokenTotal(map)
  BY MetadataCounted DEF FilePresent, Summed
<1>3. IsCounted(rx.fileToTerms) /\ rx.totalTokensInIndex = TokenTotal(rx.fileToTerms)
  <2> HIDE DEF map
  <2>. QED
    BY <1>1, <1>2, SumPut
<1>. QED
  BY <1>3 DEF Summed, IsCounted, rx

(* and so does indexing a file, which removes what was there of it first.  *)
LEMMA BuildSummed ==
  ASSUME NEW jx, IsIndex(jx), Summed(jx), NEW file \in Files, NEW text \in Seq(Terms)
  PROVE  Summed(BuildIndex(jx, file, text))
<1> DEFINE rx == RemoveFileFromIndex(jx, file)
           partial == PartialIndexThreadWorkers(file, text)
           metadata == [partial.localFileToTerms EXCEPT !.generation = GetFileGen(jx, file) + 1]
<1>1. IsIndex(rx) /\ Summed(rx) /\ ~FilePresent(rx, file)
  <2>1. ~FilePresent(rx, file)
    BY DEF FilePresent, RemoveFileFromIndex, Without, Restrict
  <2>. QED
    BY <2>1, RemoveType, RemoveSummed
<1>2. metadata.tokenCount \in Int
  <2>1. metadata.tokenCount = Len(text)
    BY DEF PartialIndexThreadWorkers
  <2>. QED
    BY <2>1
<1>3. BuildIndex(jx, file, text)
        = Register(InsertPostings(rx, file, partial.localIndex), file, metadata)
  BY DEF BuildIndex, MergePartialIndexThreadWorkers, PartialIndexThreadWorkers
<1> HIDE DEF rx, partial, metadata
<1>. QED
  BY <1>1, <1>2, <1>3, RegisterSummed
=============================================================================
