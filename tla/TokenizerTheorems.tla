-------------------------- MODULE TokenizerTheorems --------------------------
(***************************************************************************)
(* The scanners, for texts of any length: a loop is a function of the      *)
(* number of bytes read, and what it computes is shown by counting them.   *)
(***************************************************************************)
EXTENDS Tokenizer, FiniteSetTheorems, WellFoundedInduction, TLAPS

(* Induction up to n, with a set P in the place of a predicate: the        *)
(* shortest interval that ends outside of P would contradict the step.     *)
LEMMA Counting ==
  ASSUME NEW n \in Nat, NEW P, 0 \in P, \A i \in 1 .. n : i - 1 \in P => i \in P
  PROVE  0 .. n \subseteq P
<1> DEFINE bad == {T \in SUBSET (0 .. n) : \E i \in 0 .. n : T = 0 .. i /\ i \notin P}
<1>1. SUFFICES ASSUME bad # {} PROVE FALSE
  <2>1. \A i \in 0 .. n : 0 .. i \in SUBSET (0 .. n)
    OBVIOUS
  <2>. QED
    BY <2>1
<1>2. IsWellFoundedOn(StrictSubsetOrdering(0 .. n), SUBSET (0 .. n))
  <2>1. IsFiniteSet(0 .. n)
    BY FS_Interval
  <2>. QED
    BY <2>1, FS_StrictSubsetOrderingWellFounded, FS_FiniteSubsetsOfFinite
<1>3. bad \subseteq SUBSET (0 .. n)
  OBVIOUS
<1>4. PICK T \in bad : \A U \in bad : ~(<<U, T>> \in StrictSubsetOrdering(0 .. n))
  <2> HIDE DEF bad
  <2>. QED
    BY <1>1, <1>2, <1>3, WFMin
<1>5. PICK i \in 0 .. n : T = 0 .. i /\ i \notin P
  OBVIOUS
<1>6. i \in 1 .. n /\ i - 1 \in 0 .. n
  <2>1. i # 0
    BY <1>5
  <2>. QED
    BY <2>1
<1>7. 0 .. i - 1 \in bad
  BY <1>5, <1>6
<1>8. <<0 .. i - 1, T>> \in StrictSubsetOrdering(0 .. n)
  BY <1>5, <1>6 DEF StrictSubsetOrdering
<1>. QED
  BY <1>4, <1>7, <1>8

(* g is what n steps make of a start.                                      *)
Unrolls(g, n, start, step) ==
  /\ g = [i \in 0 .. n |-> g[i]]
  /\ g[0] = start
  /\ \A i \in 1 .. n : g[i] = step[i][g[i - 1]]

(* A loop of n steps on states in S computes something.                    *)
LEMMA LoopExists ==
  ASSUME NEW n \in Nat, NEW S, NEW start \in S, NEW step \in [1 .. n -> [S -> S]]
  PROVE  \E g \in [0 .. n -> S] : Unrolls(g, n, start, step)
<1> USE DEF Unrolls
<1> DEFINE P == {m \in 0 .. n : \E g \in [0 .. m -> S] : Unrolls(g, m, start, step)}
<1>1. 0 \in P
  <2> DEFINE g == [i \in 0 .. 0 |-> start]
  <2>1. g \in [0 .. 0 -> S]
    OBVIOUS
  <2>2. Unrolls(g, 0, start, step)
    OBVIOUS
  <2>3. 0 \in 0 .. n
    OBVIOUS
  <2> HIDE DEF g
  <2>. QED
    BY <2>1, <2>2, <2>3
<1>2. ASSUME NEW m \in 1 .. n, m - 1 \in P
      PROVE  m \in P
  <2>1. PICK g \in [0 .. m - 1 -> S] : Unrolls(g, m - 1, start, step)
    BY <1>2
  <2> DEFINE more == [i \in 0 .. m |-> IF i = m THEN step[m][g[m - 1]] ELSE g[i]]
  <2>2. \A i \in 0 .. m : i # m => i \in 0 .. m - 1
    OBVIOUS
  <2>3. m - 1 \in 0 .. m - 1 /\ g[m - 1] \in S /\ step[m] \in [S -> S]
    OBVIOUS
  <2>4. more \in [0 .. m -> S]
    BY <2>2, <2>3
  <2>5. \A i \in 1 .. m : more[i] = step[i][more[i - 1]]
    <3> SUFFICES ASSUME NEW i \in 1 .. m PROVE more[i] = step[i][more[i - 1]]
      OBVIOUS
    <3>1. more[i - 1] = g[i - 1]
      OBVIOUS
    <3>2. CASE i = m
      BY <3>1, <3>2
    <3>3. CASE i # m
      <4>1. i \in 1 .. m - 1 /\ more[i] = g[i]
        BY <3>3
      <4>2. g[i] = step[i][g[i - 1]]
        BY <2>1, <4>1
      <4> HIDE DEF more
      <4>. QED
        BY <3>1, <4>1, <4>2
    <3>. QED
      BY <3>2, <3>3
  <2>6. more[0] = start
    BY <2>1
  <2> HIDE DEF more
  <2>. QED
    BY <2>4, <2>5, <2>6
<1>3. 0 .. n \subseteq P
  <2> HIDE DEF P
  <2>. QED
    BY <1>1, <1>2, Counting
<1>. QED
  BY <1>3

-----------------------------------------------------------------------------
(* What the variables of the two loops may hold.                           *)
Word == Seq(Nat)

SimpleStates == [skip : Nat, word : Word, tokens : Seq(Word)]

TokenRecord == [word : Word, tokenPos : Nat, byteOffset : Nat]

ScanStates == [skip : Nat, word : Word, wordStart : Nat, tokens : Seq(TokenRecord)]

(* A byte keeps them there (Tokenizer.cpp:14-28).                          *)
LEMMA SimpleStepType ==
  ASSUME NEW text \in Seq(Nat), NEW i \in 1 .. Len(text), NEW s \in SimpleStates
  PROVE  SimpleStep(text, i, s) \in SimpleStates
<1> USE DEF Word
<1>1. text[i] \in Nat /\ Apostrophe \in Nat
  BY DEF Apostrophe
<1>2. \A c \in Nat : ToLower(c) \in Nat
  BY DEF ToLower, IsUpper
<1>3. s.skip \in Nat /\ s.word \in Seq(Nat) /\ s.tokens \in Seq(Seq(Nat))
  BY DEF SimpleStates
<1>4. Flush(s.word, s.tokens) \in Seq(Seq(Nat))
  BY <1>3 DEF Flush
<1>5. \A c \in Nat : Append(s.word, ToLower(c)) \in Seq(Nat)
  <2>1. \A c \in Nat : Append(s.word, c) \in Seq(Nat)
    BY <1>3
  <2>. QED
    BY <1>2, <2>1
<1>6. <<>> \in Seq(Nat)
  OBVIOUS
<1>7. s.skip > 0 => s.skip - 1 \in Nat
  BY <1>3
<1>. QED
  BY <1>1, <1>3, <1>4, <1>5, <1>6, <1>7 DEF SimpleStep, SimpleStates

(* And so it does in the other loop (Tokenizer.cpp:58-88).                 *)
LEMMA ScanStepType ==
  ASSUME NEW text \in Seq(Nat), NEW i \in 1 .. Len(text), NEW s \in ScanStates
  PROVE  ScanStep(text, i, s) \in ScanStates
<1> USE DEF Word
<1>1. text[i] \in Nat /\ Apostrophe \in Nat
  BY DEF Apostrophe
<1>2. \A c \in Nat : ToLower(c) \in Nat
  BY DEF ToLower, IsUpper
<1>3. /\ s.skip \in Nat /\ s.word \in Seq(Nat) /\ s.wordStart \in Nat
      /\ s.tokens \in Seq(TokenRecord)
  BY DEF ScanStates
<1>4. FlushToken(s.word, s.wordStart, s.tokens) \in Seq(TokenRecord)
  <2>1. Len(s.tokens) \in Nat
    BY <1>3
  <2>2. Token(s.word, Len(s.tokens), s.wordStart) \in TokenRecord
    BY <1>3, <2>1 DEF Token, TokenRecord
  <2>. QED
    BY <1>3, <2>2 DEF FlushToken
<1>5. \A c \in Nat : Append(s.word, c) \in Seq(Nat)
  BY <1>3
<1>6. <<>> \in Seq(Nat) /\ i - 1 \in Nat /\ (s.skip > 0 => s.skip - 1 \in Nat)
  BY <1>3
<1>. QED
  BY <1>1, <1>2, <1>3, <1>4, <1>5, <1>6 DEF ScanStep, ScanState, ScanStates

(* simpleTokenize's loop, unrolled.                                        *)
LEMMA SimpleScanUnrolls ==
  ASSUME NEW text \in Seq(Nat)
  PROVE  /\ SimpleScan(text) \in [0 .. Len(text) -> SimpleStates]
         /\ SimpleScan(text)[0] = SimpleStart
         /\ \A i \in 1 .. Len(text) : SimpleScan(text)[i] = SimpleStep(text, i, SimpleScan(text)[i - 1])
<1> DEFINE n == Len(text)
           step == [i \in 1 .. n |-> [s \in SimpleStates |-> SimpleStep(text, i, s)]]
           Eq(g) == [i \in 0 .. n |-> IF i = 0 THEN SimpleStart ELSE SimpleStep(text, i, g[i - 1])]
           scan == CHOOSE g : g = Eq(g)
<1>1. SimpleScan(text) = scan
  BY DEF SimpleScan
<1>2. n \in Nat /\ SimpleStart \in SimpleStates
  BY DEF SimpleStart, SimpleStates, Word
<1>3. step \in [1 .. n -> [SimpleStates -> SimpleStates]]
  BY SimpleStepType
<1>4. PICK g \in [0 .. n -> SimpleStates] : Unrolls(g, n, SimpleStart, step)
  <2> HIDE DEF n, step
  <2>. QED
    BY <1>2, <1>3, LoopExists
<1>5. \A i \in 1 .. n : g[i - 1] \in SimpleStates
  OBVIOUS
<1>6. g = Eq(g)
  <2>1. \A i \in 0 .. n : i # 0 => i \in 1 .. n
    BY <1>2
  <2>2. \A i \in 1 .. n : step[i][g[i - 1]] = SimpleStep(text, i, g[i - 1])
    BY <1>5
  <2>3. \A i \in 0 .. n : g[i] = Eq(g)[i]
    BY <1>4, <2>1, <2>2 DEF Unrolls
  <2>. QED
    BY <1>4, <2>3 DEF Unrolls
<1>7. scan = Eq(scan)
  BY <1>6
<1> HIDE DEF scan
<1>8. /\ scan[0] = SimpleStart
      /\ \A i \in 1 .. n : scan[i] = SimpleStep(text, i, scan[i - 1])
  BY <1>7
<1>9. 0 .. n \subseteq {i \in 0 .. n : scan[i] \in SimpleStates}
  <2> DEFINE P == {i \in 0 .. n : scan[i] \in SimpleStates}
  <2>1. 0 \in P
    BY <1>2, <1>8
  <2>2. \A i \in 1 .. n : i - 1 \in P => i \in P
    BY <1>8, SimpleStepType
  <2>3. 0 .. n \subseteq P
    <3> HIDE DEF P, n
    <3>. QED
      BY <1>2, <2>1, <2>2, Counting
  <2>. QED
    BY <2>3
<1>10. scan \in [0 .. n -> SimpleStates]
  BY <1>7, <1>9
<1>. QED
  BY <1>1, <1>8, <1>10

(* tokenize's loop, unrolled.                                              *)
LEMMA ScanUnrolls ==
  ASSUME NEW text \in Seq(Nat)
  PROVE  /\ Scan(text) \in [0 .. Len(text) -> ScanStates]
         /\ Scan(text)[0] = ScanState(0, <<>>, 0, <<>>)
         /\ \A i \in 1 .. Len(text) : Scan(text)[i] = ScanStep(text, i, Scan(text)[i - 1])
<1> DEFINE n == Len(text)
           step == [i \in 1 .. n |-> [s \in ScanStates |-> ScanStep(text, i, s)]]
           Eq(g) == [i \in 0 .. n |-> IF i = 0 THEN ScanState(0, <<>>, 0, <<>>) ELSE ScanStep(text, i, g[i - 1])]
           scan == CHOOSE g : g = Eq(g)
<1>1. Scan(text) = scan
  BY DEF Scan
<1>2. n \in Nat /\ ScanState(0, <<>>, 0, <<>>) \in ScanStates
  BY DEF ScanState, ScanStates, Word
<1>3. step \in [1 .. n -> [ScanStates -> ScanStates]]
  BY ScanStepType
<1>4. PICK g \in [0 .. n -> ScanStates] : Unrolls(g, n, ScanState(0, <<>>, 0, <<>>), step)
  <2> HIDE DEF n, step
  <2>. QED
    BY <1>2, <1>3, LoopExists
<1>5. \A i \in 1 .. n : g[i - 1] \in ScanStates
  OBVIOUS
<1>6. g = Eq(g)
  <2>1. \A i \in 0 .. n : i # 0 => i \in 1 .. n
    BY <1>2
  <2>2. \A i \in 1 .. n : step[i][g[i - 1]] = ScanStep(text, i, g[i - 1])
    BY <1>5
  <2>3. \A i \in 0 .. n : g[i] = Eq(g)[i]
    BY <1>4, <2>1, <2>2 DEF Unrolls
  <2>. QED
    BY <1>4, <2>3 DEF Unrolls
<1>7. scan = Eq(scan)
  BY <1>6
<1> HIDE DEF scan
<1>8. /\ scan[0] = ScanState(0, <<>>, 0, <<>>)
      /\ \A i \in 1 .. n : scan[i] = ScanStep(text, i, scan[i - 1])
  BY <1>7
<1>9. 0 .. n \subseteq {i \in 0 .. n : scan[i] \in ScanStates}
  <2> DEFINE P == {i \in 0 .. n : scan[i] \in ScanStates}
  <2>1. 0 \in P
    BY <1>2, <1>8
  <2>2. \A i \in 1 .. n : i - 1 \in P => i \in P
    BY <1>8, ScanStepType
  <2>3. 0 .. n \subseteq P
    <3> HIDE DEF P, n
    <3>. QED
      BY <1>2, <2>1, <2>2, Counting
  <2>. QED
    BY <2>3
<1>10. scan \in [0 .. n -> ScanStates]
  BY <1>7, <1>9
<1>. QED
  BY <1>1, <1>8, <1>10

-----------------------------------------------------------------------------
(* The words the loops push are the same, if they were so far.             *)
LEMMA FlushesAgree ==
  ASSUME NEW s \in SimpleStates, NEW t \in ScanStates,
         s.word = t.word, s.tokens = WordsOf(t.tokens)
  PROVE  Flush(s.word, s.tokens) = WordsOf(FlushToken(t.word, t.wordStart, t.tokens))
<1>1. CASE t.word = <<>>
  BY <1>1 DEF Flush, FlushToken
<1>2. CASE t.word # <<>>
  <2> DEFINE token == Token(t.word, Len(t.tokens), t.wordStart)
  <2>1. t.tokens \in Seq(TokenRecord) /\ s.tokens \in Seq(Word) /\ t.word \in Word
    BY DEF ScanStates, SimpleStates
  <2>2. token \in TokenRecord /\ token.word = t.word
    <3>1. t.wordStart \in Nat
      BY DEF ScanStates
    <3>. QED
      BY <2>1, <3>1 DEF Token, TokenRecord
  <2> HIDE DEF token
  <2>3. Append(s.tokens, s.word) = WordsOf(Append(t.tokens, token))
    <3>1. Len(s.tokens) = Len(t.tokens) /\ \A j \in 1 .. Len(t.tokens) : s.tokens[j] = t.tokens[j].word
      BY <2>1 DEF WordsOf
    <3>. QED
      BY <2>1, <2>2, <3>1 DEF WordsOf
  <2>. QED
    BY <1>2, <2>3 DEF Flush, FlushToken, token
<1>. QED
  BY <1>1, <1>2

(* After every byte the two loops have the same word and the same words.   *)
LEMMA LoopsAgree ==
  ASSUME NEW text \in Seq(Nat), NEW i \in 0 .. Len(text)
  PROVE  LET a == SimpleScan(text)[i]
             b == Scan(text)[i]
         IN  a.skip = b.skip /\ a.word = b.word /\ a.tokens = WordsOf(b.tokens)
<1> DEFINE A(k) == SimpleScan(text)[k]
           B(k) == Scan(text)[k]
           Same(k) == A(k).skip = B(k).skip /\ A(k).word = B(k).word /\ A(k).tokens = WordsOf(B(k).tokens)
           P == {k \in 0 .. Len(text) : Same(k)}
<1>1. 0 \in P
  BY SimpleScanUnrolls, ScanUnrolls DEF SimpleStart, ScanState, WordsOf
<1>2. ASSUME NEW k \in 1 .. Len(text), k - 1 \in P
      PROVE  k \in P
  <2> DEFINE s == A(k - 1)
             t == B(k - 1)
  <2>1. s \in SimpleStates /\ t \in ScanStates
    BY SimpleScanUnrolls, ScanUnrolls
  <2>2. A(k) = SimpleStep(text, k, s) /\ B(k) = ScanStep(text, k, t)
    BY SimpleScanUnrolls, ScanUnrolls
  <2>3. s.skip = t.skip /\ s.word = t.word /\ s.tokens = WordsOf(t.tokens)
    BY <1>2
  <2> HIDE DEF s, t, A, B
  <2>4. Flush(s.word, s.tokens) = WordsOf(FlushToken(t.word, t.wordStart, t.tokens))
    BY <2>1, <2>3, FlushesAgree
  <2>5. ToLower(Apostrophe) = Apostrophe /\ IsTokenChar(Apostrophe)
    BY DEF ToLower, IsUpper, Apostrophe, IsTokenChar
  <2>6. Same(k)
    <3>1. CASE s.skip > 0
      BY <2>2, <2>3, <3>1 DEF SimpleStep, ScanStep, ScanState
    <3>2. CASE ~(s.skip > 0) /\ IsCurly(text, k)
      <4>1. SimpleStep(text, k, s) = [skip |-> 2, word |-> Append(s.word, Apostrophe), tokens |-> s.tokens]
        BY <2>5, <3>2 DEF SimpleStep
      <4>2. ~IsTokenChar(text[k])
        BY <3>2 DEF IsCurly, IsTokenChar, IsAlnum, IsUpper, Apostrophe, Hyphen
      <4>3. \E start : ScanStep(text, k, t) = ScanState(2, Append(t.word, Apostrophe), start, t.tokens)
        BY <2>3, <3>2, <4>2 DEF ScanStep
      <4>. QED
        BY <2>2, <2>3, <4>1, <4>3 DEF ScanState
    <3>3. CASE ~(s.skip > 0) /\ ~IsCurly(text, k)
      BY <2>2, <2>3, <2>4, <3>3 DEF SimpleStep, ScanStep, ScanState
    <3>. QED
      BY <3>1, <3>2, <3>3
  <2>. QED
    BY <2>6
<1>3. 0 .. Len(text) \subseteq P
  <2>1. Len(text) \in Nat
    OBVIOUS
  <2> HIDE DEF P
  <2>. QED
    BY <1>1, <1>2, <2>1, Counting
<1>. QED
  BY <1>3

(* Queries and documents are cut into the same words, whatever their       *)
(* bytes (Tokenizer.cpp:11-31, 52-93).                                     *)
THEOREM ScannersAgree ==
  ASSUME NEW text \in Seq(Nat)
  PROVE  SimpleTokenize(text) = WordsOf(Tokenize(text))
<1> DEFINE s == SimpleScan(text)[Len(text)]
           t == Scan(text)[Len(text)]
<1>1. Len(text) \in 0 .. Len(text)
  OBVIOUS
<1>2. s \in SimpleStates /\ t \in ScanStates
  BY <1>1, SimpleScanUnrolls, ScanUnrolls
<1>3. s.word = t.word /\ s.tokens = WordsOf(t.tokens)
  BY <1>1, LoopsAgree
<1> HIDE DEF s, t
<1>4. Flush(s.word, s.tokens) = WordsOf(FlushToken(t.word, t.wordStart, t.tokens))
  BY <1>2, <1>3, FlushesAgree
<1>. QED
  BY <1>4 DEF SimpleTokenize, Tokenize, s, t

-----------------------------------------------------------------------------
(* What a run of bytes says, byte by byte.                                 *)
Letters(text, first, last) ==
  {i \in first .. last : IsCurly(text, i) \/ IsTokenChar(text[i])}

Letter(text, i) == IF IsCurly(text, i) THEN Apostrophe ELSE ToLower(text[i])

Rank(S, n) == Cardinality({m \in S : m < n})

(* The k-th element of S.                                                  *)
Nth(S, k) == CHOOSE n \in S : Rank(S, n) = k - 1

Spelled(text, S) == [k \in 1 .. Cardinality(S) |-> Letter(text, Nth(S, k))]

(* The normalised word is spelled by its letters, in their order.          *)
LEMMA NormalisedLetters ==
  ASSUME NEW text, NEW first, NEW last
  PROVE  Normalised(text, <<first, last>>) = Spelled(text, Letters(text, first, last))
BY DEF Normalised, Letters, Letter, Rank, Nth, Spelled

(* A number beyond a finite set comes last, and moves no other.            *)
LEMMA RankGrows ==
  ASSUME NEW S, IsFiniteSet(S), S \subseteq Int, NEW i \in Int, \A n \in S : n < i
  PROVE  LET T == S \cup {i}
         IN  /\ Cardinality(T) = Cardinality(S) + 1
             /\ \A k \in 1 .. Cardinality(S) : Nth(T, k) = Nth(S, k)
             /\ Nth(T, Cardinality(S) + 1) = i
<1> DEFINE T == S \cup {i}
           c == Cardinality(S)
<1>1. c \in Nat /\ Cardinality(T) = c + 1
  BY FS_CardinalityType, FS_AddElement
<1>2. Rank(T, i) = c
  <2>1. ~(i < i)
    OBVIOUS
  <2>2. {m \in T : m < i} = S
    BY <2>1
  <2>. QED
    BY <2>2 DEF Rank
<1>3. ASSUME NEW n \in S
      PROVE  Rank(T, n) = Rank(S, n) /\ Rank(S, n) \in Nat /\ Rank(S, n) < c
  <2> DEFINE below == {m \in S : m < n}
  <2>1. {m \in T : m < n} = below
    BY <1>3
  <2>2. below \in SUBSET S /\ below # S
    OBVIOUS
  <2> HIDE DEF below
  <2>3. IsFiniteSet(below) /\ Cardinality(below) <= c /\ Cardinality(below) # c
    BY <2>2, FS_Subset
  <2>4. Cardinality(below) \in Nat
    BY <2>3, FS_CardinalityType
  <2>5. Rank(T, n) = Cardinality(below) /\ Rank(S, n) = Cardinality(below)
    BY <2>1 DEF Rank, below
  <2>. QED
    BY <1>1, <2>3, <2>4, <2>5
<1>4. i \notin S
  OBVIOUS
<1>5. ASSUME NEW k \in 1 .. c
      PROVE  Nth(T, k) = Nth(S, k)
  <2>1. \A n : (n \in T /\ Rank(T, n) = k - 1) <=> (n \in S /\ Rank(S, n) = k - 1)
    <3>1. Rank(T, i) # k - 1
      BY <1>1, <1>2
    <3>. QED
      BY <1>3, <3>1
  <2> HIDE DEF T
  <2>. QED
    BY <2>1, Zenon DEF Nth
<1>6. Nth(T, c + 1) = i
  <2>1. \A n \in T : Rank(T, n) = (c + 1) - 1 <=> n = i
    BY <1>1, <1>2, <1>3
  <2>2. i \in T
    OBVIOUS
  <2> HIDE DEF T, c
  <2>. QED
    BY <2>1, <2>2, Zenon DEF Nth
<1>. QED
  BY <1>1, <1>5, <1>6

(* Each byte of a run that is no continuation of a quotation mark adds its *)
(* letter.                                                                 *)
LEMMA NormalisedGrows ==
  ASSUME NEW text \in Seq(Nat), NEW first \in 1 .. Len(text), NEW i \in first .. Len(text)
  PROVE  Normalised(text, <<first, i>>) =
           IF IsCurly(text, i) \/ IsTokenChar(text[i])
           THEN Append(Normalised(text, <<first, i - 1>>), Letter(text, i))
           ELSE Normalised(text, <<first, i - 1>>)
<1> DEFINE S == Letters(text, first, i - 1)
           T == Letters(text, first, i)
<1>1. Normalised(text, <<first, i - 1>>) = Spelled(text, S) /\ Normalised(text, <<first, i>>) = Spelled(text, T)
  BY NormalisedLetters
<1>2. CASE ~(IsCurly(text, i) \/ IsTokenChar(text[i]))
  <2>1. S = T
    <3>1. \A j \in first .. i : j \in first .. i - 1 \/ j = i
      OBVIOUS
    <3>2. first .. i - 1 \subseteq first .. i
      OBVIOUS
    <3>. QED
      BY <1>2, <3>1, <3>2 DEF Letters
  <2>. QED
    BY <1>1, <1>2, <2>1
<1>3. CASE IsCurly(text, i) \/ IsTokenChar(text[i])
  <2>1. T = S \cup {i}
    <3>1. \A j \in first .. i : j \in first .. i - 1 \/ j = i
      OBVIOUS
    <3>2. first .. i - 1 \subseteq first .. i /\ i \in first .. i
      OBVIOUS
    <3>. QED
      BY <1>3, <3>1, <3>2 DEF Letters
  <2>2. IsFiniteSet(S) /\ S \subseteq Int /\ \A n \in S : n < i
    <3>1. IsFiniteSet(first .. i - 1)
      BY FS_Interval
    <3>2. S \in SUBSET (first .. i - 1)
      BY DEF Letters
    <3>3. IsFiniteSet(S)
      BY <3>1, <3>2, FS_Subset
    <3>. QED
      BY <3>2, <3>3
  <2>3. i \in Int
    OBVIOUS
  <2> HIDE DEF S, T
  <2> DEFINE c == Cardinality(S)
             u == Spelled(text, S)
             v == Spelled(text, T)
  <2>4. c \in Nat
    BY <2>2, FS_CardinalityType
  <2>5. Cardinality(T) = c + 1 /\ (\A k \in 1 .. c : Nth(T, k) = Nth(S, k)) /\ Nth(T, c + 1) = i
    BY <2>1, <2>2, <2>3, RankGrows
  <2>6. u = [k \in 1 .. c |-> Letter(text, Nth(S, k))] /\ v = [k \in 1 .. c + 1 |-> Letter(text, Nth(T, k))]
    BY <2>5 DEF Spelled
  <2> HIDE DEF c, u, v
  <2> DEFINE V == {Letter(text, Nth(S, k)) : k \in 1 .. c}
  <2>7. u \in Seq(V) /\ Len(u) = c
    <3>1. u \in [1 .. c -> V]
      BY <2>6
    <3> HIDE DEF V
    <3>. QED
      BY <2>4, <3>1
  <2>8. v = Append(u, Letter(text, i))
    BY <2>4, <2>5, <2>6, <2>7
  <2>. QED
    BY <1>1, <1>3, <2>8 DEF u, v
<1>. QED
  BY <1>2, <1>3

(* A run without bytes has no letters.                                     *)
LEMMA NormalisedEmpty ==
  ASSUME NEW text, NEW i \in Int
  PROVE  Normalised(text, <<i, i - 1>>) = <<>>
<1>1. i .. i - 1 = {}
  OBVIOUS
<1>2. Letters(text, i, i - 1) = {}
  BY <1>1 DEF Letters
<1>3. Cardinality({}) = 0
  BY FS_EmptySet
<1>4. Normalised(text, <<i, i - 1>>) = Spelled(text, {})
  BY <1>2, NormalisedLetters
<1>5. Spelled(text, {}) = <<>>
  <2> DEFINE L(k) == Letter(text, Nth({}, k))
  <2>1. Spelled(text, {}) = [k \in 1 .. 0 |-> L(k)]
    BY <1>3 DEF Spelled
  <2> HIDE DEF L
  <2>2. [k \in 1 .. 0 |-> L(k)] = <<>>
    OBVIOUS
  <2>. QED
    BY <2>1, <2>2
<1>. QED
  BY <1>4, <1>5

(* The bytes of a quotation mark are no letters, and only the first starts *)
(* one.                                                                    *)
LEMMA CurlyBytes ==
  ASSUME NEW text \in Seq(Nat), NEW i \in 1 .. Len(text), IsCurly(text, i)
  PROVE  /\ i + 2 <= Len(text)
         /\ \A j \in {i + 1, i + 2} : ~IsCurly(text, j) /\ ~IsTokenChar(text[j])
         /\ \A j \in {i, i + 1, i + 2} : InWord(text, j)
<1>1. i + 2 <= Len(text) /\ text[i + 1] = 128 /\ text[i + 2] \in {152, 153}
  BY DEF IsCurly
<1>2. \A j \in {i + 1, i + 2} : ~IsCurly(text, j) /\ ~IsTokenChar(text[j])
  <2> SUFFICES ASSUME NEW j \in {i + 1, i + 2} PROVE ~IsCurly(text, j) /\ ~IsTokenChar(text[j])
    OBVIOUS
  <2>1. text[j] \in {128, 152, 153}
    BY <1>1
  <2>2. ~IsCurly(text, j)
    BY <2>1 DEF IsCurly
  <2>3. \A c \in {128, 152, 153} : ~IsTokenChar(c)
    BY DEF IsTokenChar, IsAlnum, IsUpper, Apostrophe, Hyphen
  <2>. QED
    BY <2>1, <2>2, <2>3
<1>3. ASSUME NEW j \in {i, i + 1, i + 2}
      PROVE  InWord(text, j)
  <2>1. j \in DOMAIN text
    BY <1>1
  <2>2. i \in {j - 2, j - 1, j} /\ i >= 1
    BY <1>3
  <2>. QED
    BY <2>1, <2>2 DEF InWord
<1>. QED
  BY <1>1, <1>2, <1>3

-----------------------------------------------------------------------------
(* How many bytes of a quotation mark are left after byte i.               *)
Skips(text, i) ==
  IF i >= 1 /\ IsCurly(text, i) THEN 2
  ELSE IF i >= 2 /\ IsCurly(text, i - 1) THEN 1 ELSE 0

(* The word so far is that of the run byte i is in.                        *)
Open(text, i, s) ==
  /\ s.wordStart + 1 \in 1 .. i
  /\ \A j \in s.wordStart + 1 .. i : InWord(text, j)
  /\ ~InWord(text, s.wordStart)
  /\ s.word = Normalised(text, <<s.wordStart + 1, i>>)

Ended(text, i) == {run \in MaximalRuns(text) : run[2] < i}

(* The tokens pushed are the runs that ended before byte i.                *)
Pushed(text, i, tokens) ==
  /\ {<<tokens[k].byteOffset, tokens[k].word>> : k \in DOMAIN tokens}
       = {<<run[1] - 1, Normalised(text, run)>> : run \in Ended(text, i)}
  /\ \A k \in DOMAIN tokens : tokens[k].tokenPos = k - 1
  /\ \A k, m \in DOMAIN tokens : k < m => tokens[k].byteOffset < tokens[m].byteOffset

(* The loop invariant of tokenize.                                         *)
ScanInv(text, i, s) ==
  /\ s \in ScanStates
  /\ s.skip = Skips(text, i)
  /\ InWord(text, i) <=> s.word # <<>>
  /\ s.word # <<>> => Open(text, i, s)
  /\ Pushed(text, i, s.tokens)

(* No run ends right before a byte of a word, or after one of none.        *)
LEMMA NoneEnds ==
  ASSUME NEW text \in Seq(Nat), NEW i \in 1 .. Len(text) + 1, InWord(text, i) \/ ~InWord(text, i - 1)
  PROVE  Ended(text, i) = Ended(text, i - 1)
<1>1. ASSUME NEW run \in MaximalRuns(text), run[2] = i - 1
      PROVE  FALSE
  <2>1. run[1] \in DOMAIN text /\ run[2] \in DOMAIN text /\ run[1] <= run[2]
    BY DEF MaximalRuns
  <2>2. run[2] \in run[1] .. run[2]
    BY <2>1
  <2>3. InWord(text, run[2]) /\ ~InWord(text, run[2] + 1)
    BY <2>2 DEF MaximalRuns
  <2>. QED
    BY <1>1, <2>1, <2>3
<1>2. \A run \in MaximalRuns(text) : run[2] \in Int
  BY DEF MaximalRuns
<1>3. \A run \in MaximalRuns(text) : run[2] < i <=> run[2] < i - 1
  BY <1>1, <1>2
<1>. QED
  BY <1>3 DEF Ended

(* The run of the word so far ends before a byte of none, and no other     *)
(* does.                                                                   *)
LEMMA OneEnds ==
  ASSUME NEW text \in Seq(Nat), NEW i \in 1 .. Len(text) + 1, ~InWord(text, i),
         NEW s \in ScanStates, Open(text, i - 1, s)
  PROVE  Ended(text, i) = Ended(text, i - 1) \cup {<<s.wordStart + 1, i - 1>>}
<1> DEFINE b == s.wordStart + 1
           last == <<b, i - 1>>
<1>1. b \in Nat /\ b \in 1 .. i - 1 /\ s.wordStart = b - 1
  BY DEF Open, ScanStates
<1>2. (\A j \in b .. i - 1 : InWord(text, j)) /\ ~InWord(text, b - 1)
  BY <1>1 DEF Open
<1> HIDE DEF b
<1>3. last \in MaximalRuns(text) /\ last[2] = i - 1
  <2>1. last \in (DOMAIN text) \X (DOMAIN text)
    BY <1>1
  <2>2. last[1] = b /\ last[2] = i - 1
    OBVIOUS
  <2> HIDE DEF last
  <2>. QED
    BY <1>1, <1>2, <2>1, <2>2 DEF MaximalRuns
<1>4. ASSUME NEW run \in MaximalRuns(text), run[2] = i - 1
      PROVE  run = last
  <2>1. run \in (DOMAIN text) \X (DOMAIN text) /\ run[1] <= run[2]
    BY DEF MaximalRuns
  <2>2. (\A j \in run[1] .. run[2] : InWord(text, j)) /\ ~InWord(text, run[1] - 1)
    BY DEF MaximalRuns
  <2>3. run[1] \in Nat /\ run[1] >= 1 /\ run[1] <= i - 1
    BY <1>4, <2>1
  <2>4. ~(run[1] < b)
    <3>1. run[1] < b => b - 1 \in run[1] .. run[2]
      BY <1>1, <1>4, <2>3
    <3>. QED
      BY <1>2, <2>2, <3>1
  <2>5. ~(b < run[1])
    <3>1. b < run[1] => run[1] - 1 \in b .. i - 1
      BY <1>1, <2>3
    <3>. QED
      BY <1>2, <2>2, <3>1
  <2>6. run[1] = b
    BY <1>1, <2>3, <2>4, <2>5
  <2>. QED
    BY <1>4, <2>1, <2>6
<1>5. \A run \in MaximalRuns(text) : run[2] \in Int
  BY DEF MaximalRuns
<1>6. \A run \in MaximalRuns(text) : run[2] < i <=> run[2] < i - 1 \/ run[2] = i - 1
  BY <1>5
<1>. QED
  BY <1>3, <1>4, <1>6 DEF Ended, b

(* What is pushed at a byte of no word is the run that ended before it.    *)
LEMMA FlushPushes ==
  ASSUME NEW text \in Seq(Nat), NEW i \in 1 .. Len(text) + 1, ~InWord(text, i),
         NEW s, ScanInv(text, i - 1, s)
  PROVE  Pushed(text, i, FlushToken(s.word, s.wordStart, s.tokens))
<1>1. s \in ScanStates /\ s.tokens \in Seq(TokenRecord) /\ s.word \in Word /\ s.wordStart \in Nat
  BY DEF ScanInv, ScanStates
<1>2. CASE s.word = <<>>
  <2>1. Ended(text, i) = Ended(text, i - 1)
    BY <1>2, NoneEnds DEF ScanInv
  <2>. QED
    BY <1>2, <2>1 DEF FlushToken, Pushed, ScanInv
<1>3. CASE s.word # <<>>
  <2> DEFINE old == s.tokens
             n == Len(old)
             last == <<s.wordStart + 1, i - 1>>
             token == Token(s.word, n, s.wordStart)
             new == Append(old, token)
  <2>1. FlushToken(s.word, s.wordStart, s.tokens) = new
    BY <1>3 DEF FlushToken
  <2>2. Open(text, i - 1, s) /\ Pushed(text, i - 1, old)
    BY <1>3 DEF ScanInv
  <2>3. Ended(text, i) = Ended(text, i - 1) \cup {last}
    BY <1>1, <2>2, OneEnds
  <2>4. /\ token.word = s.word /\ token.tokenPos = n /\ token.byteOffset = s.wordStart
        /\ token \in TokenRecord
    BY <1>1 DEF Token, TokenRecord
  <2>5. /\ n \in Nat /\ DOMAIN old = 1 .. n /\ DOMAIN new = 1 .. n + 1 /\ new[n + 1] = token
        /\ \A k \in 1 .. n : new[k] = old[k] /\ k # n + 1
    BY <1>1, <2>4
  <2>6. last[1] - 1 = s.wordStart /\ Normalised(text, last) = s.word
    BY <1>1, <2>2 DEF Open
  <2>7. \A k \in 1 .. n : old[k].byteOffset < s.wordStart
    <3> SUFFICES ASSUME NEW k \in 1 .. n PROVE old[k].byteOffset < s.wordStart
      OBVIOUS
    <3>1. PICK run \in Ended(text, i - 1) : old[k].byteOffset = run[1] - 1
      <4>1. <<old[k].byteOffset, old[k].word>> \in
               {<<run[1] - 1, Normalised(text, run)>> : run \in Ended(text, i - 1)}
        BY <2>2, <2>5 DEF Pushed
      <4>. QED
        BY <4>1
    <3>2. /\ run[1] \in Nat /\ run[2] \in Nat /\ run[1] <= run[2] /\ run[2] < i - 1
          /\ ~InWord(text, run[2] + 1)
      BY DEF Ended, MaximalRuns
    <3>3. \A j \in s.wordStart + 1 .. i - 1 : InWord(text, j)
      BY <2>2 DEF Open
    <3>4. run[2] < s.wordStart
      <4>1. run[2] >= s.wordStart => run[2] + 1 \in s.wordStart + 1 .. i - 1
        BY <1>1, <3>2
      <4>. QED
        BY <1>1, <3>2, <3>3, <4>1
    <3>. QED
      BY <1>1, <3>1, <3>2, <3>4
  <2> DEFINE Pair(t) == <<t.byteOffset, t.word>>
             Run(run) == <<run[1] - 1, Normalised(text, run)>>
  <2>8. {Pair(new[k]) : k \in DOMAIN new} = {Run(run) : run \in Ended(text, i)}
    <3>1. {Pair(old[k]) : k \in 1 .. n} = {Run(run) : run \in Ended(text, i - 1)}
      BY <2>2, <2>5 DEF Pushed
    <3>2. Pair(token) = Run(last)
      BY <2>4, <2>6
    <3>3. {Pair(new[k]) : k \in 1 .. n + 1} = {Pair(old[k]) : k \in 1 .. n} \cup {Pair(token)}
      <4>1. 1 .. n + 1 = (1 .. n) \cup {n + 1}
        BY <2>5
      <4> HIDE DEF Pair, new, old, token, n
      <4>. QED
        BY <2>5, <4>1
    <3> HIDE DEF Pair, Run, new, old, token, n, last
    <3>. QED
      BY <2>3, <2>5, <3>1, <3>2, <3>3
  <2>9. \A k \in DOMAIN new : new[k].tokenPos = k - 1
    <3>1. \A k \in 1 .. n : old[k].tokenPos = k - 1
      BY <2>2, <2>5 DEF Pushed
    <3> HIDE DEF new, old, token, n
    <3>. QED
      BY <2>4, <2>5, <3>1
  <2>10. \A k, m \in DOMAIN new : k < m => new[k].byteOffset < new[m].byteOffset
    <3>1. \A k, m \in 1 .. n : k < m => old[k].byteOffset < old[m].byteOffset
      BY <2>2, <2>5 DEF Pushed
    <3> HIDE DEF new, old, token, n
    <3>. QED
      BY <2>4, <2>5, <2>7, <3>1
  <2> HIDE DEF new
  <2>. QED
    BY <2>1, <2>8, <2>9, <2>10 DEF Pushed
<1>. QED
  BY <1>2, <1>3

(* A byte of a word that starts no letter: the rest of a quotation mark.   *)
LEMMA SkipKeeps ==
  ASSUME NEW text \in Seq(Nat), NEW i \in 1 .. Len(text), NEW s, ScanInv(text, i - 1, s), s.skip > 0
  PROVE  ScanInv(text, i, ScanStep(text, i, s))
<1> DEFINE t == ScanStep(text, i, s)
<1>1. /\ t = ScanState(s.skip - 1, s.word, s.wordStart, s.tokens)
      /\ t.skip = s.skip - 1 /\ t.word = s.word /\ t.wordStart = s.wordStart /\ t.tokens = s.tokens
  BY DEF ScanStep, ScanState
<1>2. t \in ScanStates
  BY ScanStepType DEF ScanInv
<1>3. PICK c \in {i - 1, i - 2} : c >= 1 /\ IsCurly(text, c) /\ s.skip = c + 3 - i
  BY DEF ScanInv, Skips
<1>4. c \in 1 .. Len(text)
  BY <1>3
<1>5. /\ i <= Len(text) /\ ~IsCurly(text, i) /\ ~IsTokenChar(text[i])
      /\ InWord(text, i) /\ InWord(text, i - 1) /\ (c = i - 2 => ~IsCurly(text, i - 1))
  BY <1>3, <1>4, CurlyBytes
<1> HIDE DEF t
<1>6. t.skip = Skips(text, i)
  BY <1>1, <1>3, <1>5 DEF Skips
<1>7. s.word # <<>> /\ Open(text, i - 1, s) /\ Pushed(text, i - 1, s.tokens) /\ s.wordStart \in Nat
  BY <1>5 DEF ScanInv, ScanStates
<1>8. Open(text, i, t)
  <2> DEFINE b == s.wordStart + 1
  <2>1. b \in 1 .. i - 1
    BY <1>7 DEF Open
  <2>2. Normalised(text, <<b, i>>) = Normalised(text, <<b, i - 1>>)
    <3>1. b \in 1 .. Len(text) /\ i \in b .. Len(text)
      BY <2>1
    <3> HIDE DEF b
    <3>. QED
      BY <1>5, <3>1, NormalisedGrows
  <2>3. \A j \in b .. i : j \in b .. i - 1 \/ j = i
    BY <2>1
  <2>4. /\ \A j \in b .. i - 1 : InWord(text, j)
        /\ ~InWord(text, s.wordStart) /\ s.word = Normalised(text, <<b, i - 1>>)
    BY <1>7 DEF Open
  <2>5. t.wordStart + 1 = b /\ t.wordStart = s.wordStart /\ t.word = s.word
    BY <1>1
  <2> HIDE DEF b
  <2>6. b \in 1 .. i /\ \A j \in b .. i : InWord(text, j)
    BY <1>5, <2>1, <2>3, <2>4
  <2>. QED
    BY <2>2, <2>4, <2>5, <2>6 DEF Open
<1>9. Pushed(text, i, t.tokens)
  <2>1. Ended(text, i) = Ended(text, i - 1)
    BY <1>5, NoneEnds
  <2>2. t.tokens = s.tokens
    BY <1>1
  <2>. QED
    BY <1>7, <2>1, <2>2 DEF Pushed
<1>. QED
  BY <1>1, <1>2, <1>5, <1>6, <1>7, <1>8, <1>9 DEF ScanInv, t

(* A byte that starts a letter: the word grows by it.                      *)
LEMMA LetterKeeps ==
  ASSUME NEW text \in Seq(Nat), NEW i \in 1 .. Len(text), NEW s, ScanInv(text, i - 1, s), s.skip = 0,
         IsCurly(text, i) \/ IsTokenChar(text[i])
  PROVE  ScanInv(text, i, ScanStep(text, i, s))
<1> DEFINE t == ScanStep(text, i, s)
           start == IF s.word = <<>> THEN i - 1 ELSE s.wordStart
<1>1. t = ScanState(IF IsCurly(text, i) THEN 2 ELSE 0, Append(s.word, Letter(text, i)), start, s.tokens)
  <2>1. CASE IsCurly(text, i)
    <3>1. ~IsTokenChar(text[i])
      BY <2>1 DEF IsCurly, IsTokenChar, IsAlnum, IsUpper, Apostrophe, Hyphen
    <3>. QED
      BY <2>1, <3>1 DEF ScanStep, Letter
  <2>2. CASE ~IsCurly(text, i)
    BY <2>2 DEF ScanStep, Letter
  <2>. QED
    BY <2>1, <2>2
<1>2. t \in ScanStates
  BY ScanStepType DEF ScanInv
<1>3. /\ t.skip = (IF IsCurly(text, i) THEN 2 ELSE 0) /\ t.word = Append(s.word, Letter(text, i))
      /\ t.wordStart = start /\ t.tokens = s.tokens
  BY <1>1 DEF ScanState
<1>4. s.word \in Seq(Nat) /\ s.wordStart \in Nat /\ Letter(text, i) \in Nat
  <2>1. s.word \in Seq(Nat) /\ s.wordStart \in Nat
    BY DEF ScanInv, ScanStates, Word
  <2>2. text[i] \in Nat
    OBVIOUS
  <2>. QED
    BY <2>1, <2>2 DEF Letter, ToLower, IsUpper, Apostrophe
<1> HIDE DEF t
<1>5. t.word # <<>>
  <2> DEFINE c == Letter(text, i)
             word == s.word
  <2> HIDE DEF c, word
  <2>1. word \in Seq(Nat) /\ c \in Nat
    BY <1>4 DEF c, word
  <2>2. Append(word, c) # <<>>
    <3> DEFINE v == Append(word, c)
    <3>1. Len(v) = Len(word) + 1 /\ Len(word) \in Nat
      BY <2>1
    <3> HIDE DEF v
    <3>2. v # <<>>
      BY <3>1
    <3>. QED
      BY <3>2 DEF v
  <2>. QED
    BY <1>3, <2>2 DEF c, word
<1>6. InWord(text, i)
  BY DEF InWord
<1>7. t.skip = Skips(text, i)
  <2>1. i >= 2 => ~IsCurly(text, i - 1)
    BY DEF ScanInv, Skips
  <2>. QED
    BY <1>3, <2>1 DEF Skips
<1>8. Pushed(text, i, t.tokens)
  BY <1>3, <1>6, NoneEnds DEF Pushed, ScanInv
<1>9. Open(text, i, t)
  <2> DEFINE b == start + 1
  <2>1. b \in 1 .. i /\ t.wordStart = b - 1
    BY <1>3, <1>4 DEF ScanInv, Open
  <2>2. s.word = Normalised(text, <<b, i - 1>>)
    <3>1. CASE s.word = <<>>
      BY <3>1, NormalisedEmpty
    <3>2. CASE s.word # <<>>
      BY <3>2 DEF ScanInv, Open
    <3>. QED
      BY <3>1, <3>2
  <2>3. (\A j \in b .. i - 1 : InWord(text, j)) /\ ~InWord(text, start)
    <3>1. CASE s.word = <<>>
      BY <3>1 DEF ScanInv
    <3>2. CASE s.word # <<>>
      BY <3>2 DEF ScanInv, Open
    <3>. QED
      BY <3>1, <3>2
  <2>4. Normalised(text, <<b, i>>) = t.word
    <3>1. b \in 1 .. Len(text) /\ i \in b .. Len(text)
      BY <2>1
    <3> HIDE DEF b
    <3>. QED
      BY <1>3, <2>2, <3>1, NormalisedGrows
  <2>5. \A j \in b .. i : j \in b .. i - 1 \/ j = i
    BY <2>1
  <2>. QED
    BY <1>3, <1>6, <2>1, <2>3, <2>4, <2>5 DEF Open
<1>. QED
  BY <1>2, <1>5, <1>6, <1>7, <1>8, <1>9 DEF ScanInv, t

(* A byte of no word: the word so far is pushed.                           *)
LEMMA OtherKeeps ==
  ASSUME NEW text \in Seq(Nat), NEW i \in 1 .. Len(text), NEW s, ScanInv(text, i - 1, s), s.skip = 0,
         ~IsCurly(text, i), ~IsTokenChar(text[i])
  PROVE  ScanInv(text, i, ScanStep(text, i, s))
<1> DEFINE t == ScanStep(text, i, s)
<1>1. t = ScanState(0, <<>>, s.wordStart, FlushToken(s.word, s.wordStart, s.tokens))
  BY DEF ScanStep
<1>2. t \in ScanStates
  BY ScanStepType DEF ScanInv
<1>3. t.skip = 0 /\ t.word = <<>> /\ t.tokens = FlushToken(s.word, s.wordStart, s.tokens)
  BY <1>1 DEF ScanState
<1> HIDE DEF t
<1>4. (i >= 2 => ~IsCurly(text, i - 1)) /\ (i >= 3 => ~IsCurly(text, i - 2))
  BY DEF ScanInv, Skips
<1>5. ~InWord(text, i)
  <2>1. \A k \in {i - 2, i - 1, i} : k >= 1 => ~IsCurly(text, k)
    BY <1>4
  <2>. QED
    BY <2>1 DEF InWord
<1>6. Pushed(text, i, t.tokens)
  BY <1>3, <1>5, FlushPushes
<1>7. t.skip = Skips(text, i)
  BY <1>3, <1>4 DEF Skips
<1>. QED
  BY <1>2, <1>3, <1>5, <1>6, <1>7 DEF ScanInv, t

(* The loop invariant holds after every byte.                              *)
LEMMA ScanInvariance ==
  ASSUME NEW text \in Seq(Nat), NEW i \in 0 .. Len(text)
  PROVE  ScanInv(text, i, Scan(text)[i])
<1> DEFINE P == {k \in 0 .. Len(text) : ScanInv(text, k, Scan(text)[k])}
<1>1. 0 \in P
  <2> DEFINE s == Scan(text)[0]
  <2>1. s \in ScanStates /\ s = ScanState(0, <<>>, 0, <<>>)
    <3>1. 0 \in 0 .. Len(text)
      OBVIOUS
    <3>. QED
      BY <3>1, ScanUnrolls
  <2>2. s.skip = 0 /\ s.word = <<>> /\ s.tokens = <<>>
    BY <2>1 DEF ScanState
  <2> HIDE DEF s
  <2>3. Skips(text, 0) = 0
    BY DEF Skips
  <2>4. ~InWord(text, 0)
    BY DEF InWord
  <2>5. Ended(text, 0) = {}
    BY DEF Ended, MaximalRuns
  <2>6. Pushed(text, 0, s.tokens)
    BY <2>2, <2>5 DEF Pushed
  <2>7. ScanInv(text, 0, s)
    BY <2>1, <2>2, <2>3, <2>4, <2>6 DEF ScanInv
  <2>. QED
    BY <2>7 DEF s
<1>2. ASSUME NEW k \in 1 .. Len(text), k - 1 \in P
      PROVE  k \in P
  <2> DEFINE s == Scan(text)[k - 1]
  <2>1. ScanInv(text, k - 1, s) /\ Scan(text)[k] = ScanStep(text, k, s)
    BY <1>2, ScanUnrolls
  <2> HIDE DEF s
  <2>2. s.skip \in Nat
    BY <2>1 DEF ScanInv, ScanStates
  <2>3. ScanInv(text, k, ScanStep(text, k, s))
    <3>1. CASE s.skip > 0
      BY <2>1, <3>1, SkipKeeps
    <3>2. CASE s.skip = 0 /\ (IsCurly(text, k) \/ IsTokenChar(text[k]))
      BY <2>1, <3>2, LetterKeeps
    <3>3. CASE s.skip = 0 /\ ~IsCurly(text, k) /\ ~IsTokenChar(text[k])
      BY <2>1, <3>3, OtherKeeps
    <3>. QED
      BY <2>2, <3>1, <3>2, <3>3
  <2>. QED
    BY <2>1, <2>3
<1>3. 0 .. Len(text) \subseteq P
  <2>1. Len(text) \in Nat
    OBVIOUS
  <2> HIDE DEF P
  <2>. QED
    BY <1>1, <1>2, <2>1, Counting
<1>. QED
  BY <1>3

(* The tokens are the maximal runs from first to last, each where its run  *)
(* starts, whether there is a letter or digit in it or not.                *)
CutsIntoRuns(text, tokens) ==
  /\ {<<tokens[k].byteOffset, tokens[k].word>> : k \in DOMAIN tokens}
       = {<<run[1] - 1, Normalised(text, run)>> : run \in MaximalRuns(text)}
  /\ \A k \in DOMAIN tokens : tokens[k].tokenPos = k - 1
  /\ \A k, m \in DOMAIN tokens : k < m => tokens[k].byteOffset < tokens[m].byteOffset

(* tokenize returns the maximal runs of word bytes in their order, each    *)
(* with the offset of its first byte and the next position, whatever the   *)
(* bytes of the text (Tokenizer.cpp:52-93).                                *)
THEOREM TokensAreRuns ==
  ASSUME NEW text \in Seq(Nat)
  PROVE  Tokenize(text) \in Seq(TokenRecord) /\ CutsIntoRuns(text, Tokenize(text))
<1> DEFINE n == Len(text)
           s == Scan(text)[n]
           i == n + 1
           tokens == FlushToken(s.word, s.wordStart, s.tokens)
<1>1. n \in 0 .. n /\ i \in 1 .. Len(text) + 1 /\ i - 1 = n
  OBVIOUS
<1>2. ScanInv(text, i - 1, s)
  BY <1>1, ScanInvariance
<1>3. ~InWord(text, i)
  BY DEF InWord
<1>4. Tokenize(text) = tokens
  BY DEF Tokenize
<1> HIDE DEF s
<1>5. tokens \in Seq(TokenRecord)
  <2>1. s.tokens \in Seq(TokenRecord) /\ s.word \in Word /\ s.wordStart \in Nat
    BY <1>2 DEF ScanInv, ScanStates
  <2>2. Token(s.word, Len(s.tokens), s.wordStart) \in TokenRecord
    BY <2>1 DEF Token, TokenRecord
  <2>. QED
    BY <2>1, <2>2 DEF FlushToken
<1>6. Pushed(text, i, tokens)
  <2> HIDE DEF i
  <2>. QED
    BY <1>1, <1>2, <1>3, FlushPushes
<1>7. Ended(text, i) = MaximalRuns(text)
  <2>1. \A run \in MaximalRuns(text) : run[2] \in 1 .. n
    BY DEF MaximalRuns
  <2>. QED
    BY <2>1 DEF Ended
<1> HIDE DEF tokens, i
<1>. QED
  BY <1>4, <1>5, <1>6, <1>7 DEF Pushed, CutsIntoRuns

(* A letter or digit of a run is one of its word, and the other way round. *)
LEMMA RunHasAlnum ==
  ASSUME NEW text \in Seq(Nat), NEW first \in 1 .. Len(text), NEW last \in first .. Len(text)
  PROVE  HasAlnum(Normalised(text, <<first, last>>)) <=> \E i \in first .. last : IsAlnum(text[i])
<1> DEFINE W(i) == Normalised(text, <<first, i>>)
           Has(i) == \E j \in first .. i : IsAlnum(text[j])
           Good(i) == W(i) \in Seq(Nat) /\ (HasAlnum(W(i)) <=> Has(i))
           n == last - first + 1
           P == {k \in 0 .. n : Good(first + k - 1)}
<1>1. n \in Nat /\ first + n - 1 = last /\ first + 0 - 1 = first - 1
  OBVIOUS
<1>2. Good(first - 1)
  <2>1. W(first - 1) = <<>>
    BY NormalisedEmpty
  <2>2. ~HasAlnum(<<>>) /\ <<>> \in Seq(Nat)
    BY DEF HasAlnum
  <2>3. ~Has(first - 1)
    OBVIOUS
  <2> HIDE DEF W, Has
  <2>. QED
    BY <2>1, <2>2, <2>3
<1>3. ASSUME NEW i \in first .. Len(text), Good(i - 1)
      PROVE  Good(i)
  <2>1. i \in 1 .. Len(text)
    OBVIOUS
  <2>2. W(i) = IF IsCurly(text, i) \/ IsTokenChar(text[i]) THEN Append(W(i - 1), Letter(text, i))
                                                           ELSE W(i - 1)
    BY NormalisedGrows
  <2>3. Has(i) <=> Has(i - 1) \/ IsAlnum(text[i])
    <3>1. \A j : j \in first .. i <=> j \in first .. i - 1 \/ j = i
      BY <2>1
    <3>. QED
      BY <3>1
  <2>4. text[i] \in Nat /\ Letter(text, i) \in Nat
    BY <2>1 DEF Letter, ToLower, IsUpper, Apostrophe
  <2> DEFINE c == Letter(text, i)
             u == W(i - 1)
  <2>5. u \in Seq(Nat) /\ (HasAlnum(u) <=> Has(i - 1))
    BY <1>3
  <2>6. CASE ~(IsCurly(text, i) \/ IsTokenChar(text[i]))
    <3>1. W(i) = u /\ ~IsAlnum(text[i])
      BY <2>2, <2>6 DEF IsTokenChar
    <3> HIDE DEF W, Has
    <3>. QED
      BY <2>3, <2>5, <3>1
  <2>7. CASE IsCurly(text, i) \/ IsTokenChar(text[i])
    <3>1. IsAlnum(c) <=> IsAlnum(text[i])
      <4>1. \A d \in Nat : IsAlnum(ToLower(d)) <=> IsAlnum(d)
        BY DEF ToLower, IsAlnum, IsUpper
      <4>2. IsCurly(text, i) => ~IsAlnum(text[i]) /\ c = Apostrophe
        BY DEF IsCurly, IsAlnum, IsUpper, Letter
      <4>3. ~IsAlnum(Apostrophe)
        BY DEF Apostrophe, IsAlnum, IsUpper
      <4>4. ~IsCurly(text, i) => c = ToLower(text[i])
        BY DEF Letter
      <4> HIDE DEF c
      <4>. QED
        BY <2>4, <4>1, <4>2, <4>3, <4>4
    <3>2. W(i) = Append(u, c)
      BY <2>2, <2>7
    <3> HIDE DEF W, Has, c, u
    <3>3. c \in Nat /\ u \in Seq(Nat)
      BY <2>4, <2>5 DEF c
    <3>4. Append(u, c) \in Seq(Nat) /\ (HasAlnum(Append(u, c)) <=> HasAlnum(u) \/ IsAlnum(c))
      <4> DEFINE m == Len(u)
                 v == Append(u, c)
      <4>1. /\ v \in Seq(Nat) /\ m \in Nat /\ DOMAIN u = 1 .. m /\ DOMAIN v = 1 .. m + 1
            /\ v[m + 1] = c /\ \A k \in 1 .. m : v[k] = u[k]
        BY <3>3
      <4>2. \A k : k \in 1 .. m + 1 <=> k \in 1 .. m \/ k = m + 1
        BY <4>1
      <4> HIDE DEF m, v
      <4>3. HasAlnum(v) <=> HasAlnum(u) \/ IsAlnum(c)
        BY <4>1, <4>2 DEF HasAlnum
      <4>. QED
        BY <4>1, <4>3 DEF v
    <3>. QED
      BY <2>3, <2>5, <3>1, <3>2, <3>4
  <2>. QED
    BY <2>6, <2>7
<1> HIDE DEF Good
<1>4. 0 \in P
  BY <1>1, <1>2
<1>5. ASSUME NEW k \in 1 .. n, k - 1 \in P
      PROVE  k \in P
  <2>1. first + k - 1 \in first .. Len(text) /\ first + (k - 1) - 1 = (first + k - 1) - 1
    OBVIOUS
  <2>2. Good((first + k - 1) - 1)
    BY <1>5, <2>1
  <2>3. Good(first + k - 1)
    BY <1>3, <2>1, <2>2
  <2>. QED
    BY <2>3
<1>6. 0 .. n \subseteq P
  <2> HIDE DEF P, n
  <2>. QED
    BY <1>1, <1>4, <1>5, Counting
<1>7. Good(last)
  <2>1. n \in 0 .. n
    BY <1>1
  <2>2. n \in P
    BY <1>6, <2>1
  <2>. QED
    BY <1>1, <2>2
<1>. QED
  BY <1>7 DEF Good

(* The tokens with a letter or digit are the words of the text, the runs   *)
(* of word bytes with a letter or digit, in their order, each at its first *)
(* byte (Tokenizer.cpp:52-93).                                             *)
THEOREM TokensAreWords ==
  ASSUME NEW text \in Seq(Nat)
  PROVE  CutsIntoWords(text, Tokenize(text))
<1> DEFINE tokens == Tokenize(text)
           A == {<<tokens[k].byteOffset, tokens[k].word>> : k \in DOMAIN tokens}
           B == {<<run[1] - 1, Normalised(text, run)>> : run \in MaximalRuns(text)}
<1>1. CutsIntoRuns(text, tokens)
  BY TokensAreRuns
<1> HIDE DEF tokens
<1>2. A = B
  BY <1>1 DEF CutsIntoRuns
<1>3. {p \in A : HasAlnum(p[2])}
        = {<<tokens[k].byteOffset, tokens[k].word>> : k \in {n \in DOMAIN tokens : HasAlnum(tokens[n].word)}}
  OBVIOUS
<1>4. {p \in B : HasAlnum(p[2])} = {<<run[1] - 1, Normalised(text, run)>> : run \in WordRuns(text)}
  <2>1. ASSUME NEW run \in MaximalRuns(text)
        PROVE  HasAlnum(Normalised(text, run)) <=> run \in WordRuns(text)
    <3>1. run = <<run[1], run[2]>> /\ run[1] \in 1 .. Len(text) /\ run[2] \in run[1] .. Len(text)
      BY DEF MaximalRuns
    <3>2. HasAlnum(Normalised(text, <<run[1], run[2]>>)) <=> \E i \in run[1] .. run[2] : IsAlnum(text[i])
      BY <3>1, RunHasAlnum
    <3>. QED
      BY <3>1, <3>2 DEF WordRuns
  <2>2. WordRuns(text) \subseteq MaximalRuns(text)
    BY DEF WordRuns
  <2>. QED
    BY <2>1, <2>2
<1>. QED
  BY <1>1, <1>2, <1>3, <1>4 DEF CutsIntoRuns, CutsIntoWords, tokens

-----------------------------------------------------------------------------
(* A word in lower case, as the index has it.                              *)
IsLetters(w) == \A i \in DOMAIN w : IsTokenChar(w[i]) /\ ~IsUpper(w[i])

IsWord(w) == w \in Word /\ w # <<>> /\ IsLetters(w)

(* Lower-casing keeps a letter a token character, leaves no capital, and   *)
(* never makes the first byte of the apostrophe.                           *)
LEMMA LowerCase ==
  ASSUME NEW c \in Nat, IsTokenChar(c)
  PROVE  /\ ToLower(c) \in Nat /\ IsTokenChar(ToLower(c)) /\ ~IsUpper(ToLower(c))
         /\ ~IsUpper(c) => ToLower(c) = c
         /\ c # 226
BY DEF ToLower, IsTokenChar, IsAlnum, IsUpper, Apostrophe, Hyphen

(* The end of a word pushes it.                                            *)
LEMMA FlushIndexed ==
  ASSUME NEW word \in Word, IsLetters(word),
         NEW tokens \in Seq(Word), \A k \in DOMAIN tokens : IsWord(tokens[k])
  PROVE  /\ Flush(word, tokens) \in Seq(Word)
         /\ \A k \in DOMAIN Flush(word, tokens) : IsWord(Flush(word, tokens)[k])
<1>1. CASE word = <<>>
  BY <1>1 DEF Flush
<1>2. CASE word # <<>>
  <2> DEFINE n == Len(tokens)
             more == Append(tokens, word)
  <2>1. /\ Flush(word, tokens) = more
        /\ more \in Seq(Word) /\ DOMAIN more = 1 .. n + 1 /\ n \in Nat /\ DOMAIN tokens = 1 .. n
        /\ more[n + 1] = word /\ \A k \in 1 .. n : more[k] = tokens[k]
    BY <1>2 DEF Flush
  <2>2. IsWord(word)
    BY <1>2 DEF IsWord
  <2> HIDE DEF n, more
  <2>3. \A k \in 1 .. n + 1 : k = n + 1 \/ k \in 1 .. n
    BY <2>1
  <2>. QED
    BY <2>1, <2>2, <2>3
<1>. QED
  BY <1>1, <1>2

(* Whatever is tokenized, the tokens are words in lower case.              *)
LEMMA TokensIndexed ==
  ASSUME NEW text \in Seq(Nat)
  PROVE  \A k \in DOMAIN SimpleTokenize(text) : IsWord(SimpleTokenize(text)[k])
<1> DEFINE n == Len(text)
           scan == SimpleScan(text)
           Good(s) == /\ s \in SimpleStates
                      /\ IsLetters(s.word)
                      /\ \A k \in DOMAIN s.tokens : IsWord(s.tokens[k])
           P == {i \in 0 .. n : Good(scan[i])}
<1>1. /\ n \in Nat
      /\ scan[0] = SimpleStart
      /\ \A i \in 0 .. n : scan[i] \in SimpleStates
      /\ \A i \in 1 .. n : scan[i] = SimpleStep(text, i, scan[i - 1])
  <2>1. n \in Nat
    OBVIOUS
  <2>2. scan \in [0 .. n -> SimpleStates] /\ scan[0] = SimpleStart
    BY SimpleScanUnrolls
  <2>3. \A i \in 1 .. n : scan[i] = SimpleStep(text, i, scan[i - 1])
    BY SimpleScanUnrolls
  <2> HIDE DEF scan, n
  <2>. QED
    BY <2>1, <2>2, <2>3
<1> HIDE DEF scan
<1>2. 0 \in P
  <2>1. 0 \in 0 .. n
    BY <1>1
  <2>2. Good(SimpleStart)
    BY <1>1, <2>1 DEF SimpleStart, IsLetters
  <2>. QED
    BY <1>1, <2>1, <2>2
<1>3. ASSUME NEW i \in 1 .. n, i - 1 \in P
      PROVE  i \in P
  <2> DEFINE s == scan[i - 1]
             t == scan[i]
             c == IF IsCurly(text, i) THEN Apostrophe ELSE text[i]
  <2>1. Good(s) /\ i \in 0 .. n /\ t \in SimpleStates /\ t = SimpleStep(text, i, s)
    BY <1>1, <1>3
  <2>2. c \in Nat
    BY DEF Apostrophe
  <2>3. \/ t.word = s.word /\ t.tokens = s.tokens
        \/ IsTokenChar(c) /\ t.word = Append(s.word, ToLower(c)) /\ t.tokens = s.tokens
        \/ t.word = <<>> /\ t.tokens = Flush(s.word, s.tokens)
    BY <2>1 DEF SimpleStep
  <2> HIDE DEF s, t, c
  <2>4. s.word \in Word /\ s.tokens \in Seq(Word)
    BY <2>1 DEF SimpleStates
  <2>5. CASE t.word = s.word /\ t.tokens = s.tokens
    BY <2>1, <2>5 DEF t
  <2>6. CASE IsTokenChar(c) /\ t.word = Append(s.word, ToLower(c)) /\ t.tokens = s.tokens
    <3> DEFINE word == s.word
               m == Len(word)
               d == ToLower(c)
    <3>1. d \in Nat /\ IsTokenChar(d) /\ ~IsUpper(d)
      BY <2>2, <2>6, LowerCase
    <3>2. IsLetters(word) /\ word \in Seq(Nat)
      BY <2>1, <2>4 DEF Word
    <3> HIDE DEF d, word
    <3>3. IsLetters(Append(word, d))
      <4>1. /\ m \in Nat /\ DOMAIN word = 1 .. m /\ DOMAIN Append(word, d) = 1 .. m + 1
            /\ Append(word, d)[m + 1] = d /\ \A k \in 1 .. m : Append(word, d)[k] = word[k]
        BY <3>1, <3>2
      <4>2. \A k \in 1 .. m + 1 : k = m + 1 \/ k \in 1 .. m
        BY <4>1
      <4>. QED
        BY <3>1, <3>2, <4>1, <4>2 DEF IsLetters
    <3>. QED
      BY <2>1, <2>6, <3>3 DEF t, d, word
  <2>7. CASE t.word = <<>> /\ t.tokens = Flush(s.word, s.tokens)
    <3>1. IsLetters(t.word)
      BY <2>7 DEF IsLetters
    <3>2. \A k \in DOMAIN t.tokens : IsWord(t.tokens[k])
      BY <2>1, <2>4, <2>7, FlushIndexed
    <3>. QED
      BY <2>1, <3>1, <3>2 DEF t
  <2>. QED
    BY <2>3, <2>5, <2>6, <2>7
<1>4. 0 .. n \subseteq P
  <2> HIDE DEF P, n
  <2>. QED
    BY <1>1, <1>2, <1>3, Counting
<1>5. Good(scan[n])
  <2>1. n \in 0 .. n
    BY <1>1
  <2>. QED
    BY <1>4, <2>1
<1>6. SimpleTokenize(text) = Flush(scan[n].word, scan[n].tokens)
  BY DEF SimpleTokenize, scan
<1>7. scan[n].word \in Word /\ scan[n].tokens \in Seq(Word)
  BY <1>5 DEF SimpleStates
<1>. QED
  BY <1>5, <1>6, <1>7, FlushIndexed

(* A query that is such a word is cut into just this word.                 *)
LEMMA WordIsItself ==
  ASSUME NEW w, IsWord(w)
  PROVE  SimpleTokenize(w) = <<w>>
<1> DEFINE n == Len(w)
           scan == SimpleScan(w)
           At(i) == [skip |-> 0, word |-> SubSeq(w, 1, i), tokens |-> <<>>]
           P == {i \in 0 .. n : scan[i] = At(i)}
<1>1. w \in Seq(Nat) /\ w # <<>> /\ \A i \in 1 .. Len(w) : IsTokenChar(w[i]) /\ ~IsUpper(w[i]) /\ w[i] \in Nat
  BY DEF IsWord, IsLetters, Word
<1>2. /\ n \in Nat
      /\ scan[0] = SimpleStart
      /\ \A i \in 1 .. n : scan[i] = SimpleStep(w, i, scan[i - 1])
  BY <1>1, SimpleScanUnrolls
<1> HIDE DEF scan
<1>3. 0 \in P
  <2>1. SubSeq(w, 1, 0) = <<>> /\ 0 \in 0 .. n
    BY <1>1
  <2>. QED
    BY <1>2, <2>1 DEF SimpleStart
<1>4. ASSUME NEW i \in 1 .. n, i - 1 \in P
      PROVE  i \in P
  <2>1. scan[i - 1] = At(i - 1) /\ i \in 0 .. n /\ scan[i] = SimpleStep(w, i, scan[i - 1])
    BY <1>2, <1>4
  <2>2. IsTokenChar(w[i]) /\ ToLower(w[i]) = w[i] /\ w[i] # 226
    BY <1>1, LowerCase
  <2>3. ~IsCurly(w, i)
    BY <2>2 DEF IsCurly
  <2>4. Append(SubSeq(w, 1, i - 1), w[i]) = SubSeq(w, 1, i)
    BY <1>1
  <2> DEFINE s == At(i - 1)
  <2>5. s.skip = 0 /\ s.word = SubSeq(w, 1, i - 1) /\ s.tokens = <<>>
    OBVIOUS
  <2> HIDE DEF s
  <2>6. SimpleStep(w, i, s) = [skip |-> 0, word |-> Append(s.word, w[i]), tokens |-> <<>>]
    BY <2>2, <2>3, <2>5 DEF SimpleStep
  <2>. QED
    BY <2>1, <2>4, <2>5, <2>6 DEF s
<1>5. 0 .. n \subseteq P
  <2> HIDE DEF P, n
  <2>. QED
    BY <1>2, <1>3, <1>4, Counting
<1>6. scan[n] = At(n)
  <2>1. n \in 0 .. n
    BY <1>2
  <2>. QED
    BY <1>5, <2>1
<1>7. SubSeq(w, 1, n) = w
  BY <1>1
<1>. QED
  BY <1>1, <1>6, <1>7 DEF SimpleTokenize, Flush, scan
=============================================================================
