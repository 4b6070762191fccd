--------------------------- MODULE SearcherTheorems ---------------------------
(***************************************************************************)
(* What a query finds, for any index, any completions that a tree may      *)
(* answer with, and any query.                                             *)
(***************************************************************************)
EXTENDS Searcher, TokenizerTheorems

(* A list that has not come to its end has a next position.                *)
LEMMA MinExists ==
  ASSUME NEW S, S \subseteq Nat, S # {}
  PROVE  Min(S) \in S /\ \A p \in S : Min(S) <= p
<1>1. PICK m \in S : TRUE
  OBVIOUS
<1>2. SUFFICES ASSUME \A p \in S : \E q \in S : q < p PROVE FALSE
  <2>1. PICK p \in S : \A q \in S : ~(q < p)
    BY <1>2
  <2>2. \A q \in S : p <= q
    BY <2>1
  <2>. QED
    BY <2>2 DEF Min
<1> DEFINE P == {n \in 0 .. m : \A k \in 0 .. n : k \notin S}
<1>3. m \in Nat
  BY <1>1
<1>4. 0 \in P
  <2>1. 0 \notin S
    BY <1>2
  <2>. QED
    BY <1>3, <2>1
<1>5. ASSUME NEW i \in 1 .. m, i - 1 \in P
      PROVE  i \in P
  <2>1. \A k \in 0 .. i - 1 : k \notin S
    BY <1>5
  <2>2. i \notin S
    <3>1. ASSUME i \in S
          PROVE  FALSE
      <4>1. PICK q \in S : q < i
        BY <1>2, <3>1
      <4>2. q \in 0 .. i - 1
        BY <4>1
      <4>. QED
        BY <2>1, <4>2
    <3>. QED
      BY <3>1
  <2>3. \A k \in 0 .. i : k \in 0 .. i - 1 \/ k = i
    OBVIOUS
  <2>. QED
    BY <2>1, <2>2, <2>3
<1>6. 0 .. m \subseteq P
  <2> HIDE DEF P
  <2>. QED
    BY <1>3, <1>4, <1>5, Counting
<1>7. m \in P /\ m \in 0 .. m
  BY <1>3, <1>6
<1>. QED
  BY <1>1, <1>7

(* The loop of positionalIntersect, one pass after the other.              *)
LEMMA PointersUnroll ==
  ASSUME NEW pos1, NEW pos2, Cardinality(pos1) + Cardinality(pos2) \in Nat
  PROVE  /\ TwoPointers(pos1, pos2)[0] = Pointers(pos1, pos2, {})
         /\ \A n \in 1 .. Cardinality(pos1) + Cardinality(pos2) :
              TwoPointers(pos1, pos2)[n] = PointersStep(TwoPointers(pos1, pos2)[n - 1])
<1> DEFINE m == Cardinality(pos1) + Cardinality(pos2)
           start == Pointers(pos1, pos2, {})
           Eq(g, n) == [i \in 0 .. n |-> IF i = 0 THEN start ELSE PointersStep(g[i - 1])]
           loop == CHOOSE g : g = Eq(g, m)
           P == {n \in 0 .. m : \E g : g = Eq(g, n)}
<1>1. TwoPointers(pos1, pos2) = loop
  BY DEF TwoPointers
<1> HIDE DEF start
<1>2. 0 \in P
  <2> DEFINE g == [i \in 0 .. 0 |-> start]
  <2>1. g = Eq(g, 0)
    OBVIOUS
  <2>2. 0 \in 0 .. m
    OBVIOUS
  <2> HIDE DEF g
  <2>. QED
    BY <2>1, <2>2
<1>3. ASSUME NEW n \in 1 .. m, n - 1 \in P
      PROVE  n \in P
  <2>1. PICK g : g = Eq(g, n - 1)
    BY <1>3
  <2> DEFINE more == [i \in 0 .. n |-> IF i = n THEN PointersStep(g[n - 1]) ELSE g[i]]
  <2>2. ASSUME NEW i \in 0 .. n
        PROVE  more[i] = Eq(more, n)[i]
    <3>1. CASE i = 0
      BY <2>1, <3>1
    <3>2. CASE i # 0
      <4>1. i - 1 \in 0 .. n /\ i - 1 # n /\ more[i - 1] = g[i - 1]
        BY <3>2
      <4>2. CASE i = n
        BY <3>2, <4>1, <4>2
      <4>3. CASE i # n
        <5>1. i \in 0 .. n - 1 /\ g[i] = PointersStep(g[i - 1])
          BY <2>1, <3>2, <4>3
        <5>. QED
          BY <3>2, <4>1, <4>3, <5>1
      <4>. QED
        BY <4>2, <4>3
    <3>. QED
      BY <3>1, <3>2
  <2>3. more = Eq(more, n)
    BY <2>2
  <2> HIDE DEF more
  <2>. QED
    BY <2>3
<1>4. 0 .. m \subseteq P
  <2> HIDE DEF P, m
  <2>1. m \in Nat
    BY DEF m
  <2>. QED
    BY <1>2, <1>3, <2>1, Counting
<1>5. \E g : g = Eq(g, m)
  BY <1>4
<1>6. loop = Eq(loop, m)
  BY <1>5
<1> HIDE DEF loop
<1>. QED
  BY <1>1, <1>6 DEF start

(* After k passes: what was found is adjacent, an adjacent pair has been   *)
(* found or is still ahead of both pointers, and each pass has moved one   *)
(* of them.                                                                *)
PointersInv(pos1, pos2, k, s) ==
  /\ s.ahead1 \subseteq pos1 /\ s.ahead2 \subseteq pos2
  /\ \A p \in s.result : p \in pos2 /\ p - 1 \in pos1
  /\ \A p \in pos2 : p - 1 \in pos1 => p \in s.result \/ (p - 1 \in s.ahead1 /\ p \in s.ahead2)
  /\ \/ s.ahead1 = {} \/ s.ahead2 = {}
     \/ Cardinality(s.ahead1) + Cardinality(s.ahead2) + k <= Cardinality(pos1) + Cardinality(pos2)

(* A step of the two pointers keeps their invariant: no pair of            *)
(* neighbours is lost, and the sets ahead shrink.                          *)
LEMMA PointersKeep ==
  ASSUME NEW pos1, IsFiniteSet(pos1), pos1 \subseteq Nat,
         NEW pos2, IsFiniteSet(pos2), pos2 \subseteq Nat,
         NEW k \in Nat \ {0}, NEW s, PointersInv(pos1, pos2, k - 1, s)
  PROVE  PointersInv(pos1, pos2, k, PointersStep(s))
<1> DEFINE p1 == Min(s.ahead1)
           p2 == Min(s.ahead2)
           t == PointersStep(s)
<1>1. /\ s.ahead1 \subseteq pos1 /\ s.ahead2 \subseteq pos2
      /\ \A p \in s.result : p \in pos2 /\ p - 1 \in pos1
      /\ \A p \in pos2 : p - 1 \in pos1 => p \in s.result \/ (p - 1 \in s.ahead1 /\ p \in s.ahead2)
  BY DEF PointersInv
<1>2. CASE s.ahead1 = {} \/ s.ahead2 = {}
  BY <1>1, <1>2 DEF PointersStep, PointersInv
<1>3. CASE s.ahead1 # {} /\ s.ahead2 # {}
  <2>1. p1 \in s.ahead1 /\ p1 \in Nat /\ \A p \in s.ahead1 : p1 <= p
    BY <1>1, <1>3, MinExists
  <2>2. p2 \in s.ahead2 /\ p2 \in Nat /\ \A p \in s.ahead2 : p2 <= p
    BY <1>1, <1>3, MinExists
  <2>3. t = CASE p1 + 1 = p2 -> Pointers(s.ahead1 \ {p1}, s.ahead2 \ {p2}, s.result \cup {p2})
              [] p1 + 1 < p2 -> Pointers(s.ahead1 \ {p1}, s.ahead2, s.result)
              [] OTHER -> Pointers(s.ahead1, s.ahead2 \ {p2}, s.result)
    BY <1>3 DEF PointersStep
  <2>4. /\ IsFiniteSet(s.ahead1) /\ IsFiniteSet(s.ahead2)
        /\ Cardinality(s.ahead1) \in Nat /\ Cardinality(s.ahead2) \in Nat
        /\ Cardinality(pos1) \in Nat /\ Cardinality(pos2) \in Nat
    BY <1>1, FS_Subset, FS_CardinalityType
  <2>5. /\ Cardinality(s.ahead1 \ {p1}) = Cardinality(s.ahead1) - 1
        /\ Cardinality(s.ahead2 \ {p2}) = Cardinality(s.ahead2) - 1
    BY <2>1, <2>2, <2>4, FS_RemoveElement
  <2>6. Cardinality(s.ahead1) + Cardinality(s.ahead2) + (k - 1) <= Cardinality(pos1) + Cardinality(pos2)
    BY <1>3 DEF PointersInv
  <2> HIDE DEF p1, p2, t
  <2>7. CASE p1 + 1 = p2
    <3>1. t = Pointers(s.ahead1 \ {p1}, s.ahead2 \ {p2}, s.result \cup {p2})
      BY <2>1, <2>2, <2>3, <2>7
    <3>2. \A p \in pos2 : p - 1 \in pos1 =>
            p \in s.result \cup {p2} \/ (p - 1 \in s.ahead1 \ {p1} /\ p \in s.ahead2 \ {p2})
      BY <1>1, <2>1, <2>2, <2>7
    <3>3. p2 \in pos2 /\ p2 - 1 \in pos1
      BY <1>1, <2>1, <2>2, <2>7
    <3>4. Cardinality(s.ahead1 \ {p1}) + Cardinality(s.ahead2 \ {p2}) + k
            <= Cardinality(pos1) + Cardinality(pos2)
      BY <2>4, <2>5, <2>6
    <3>. QED
      BY <1>1, <3>1, <3>2, <3>3, <3>4 DEF Pointers, PointersInv, t
  <2>8. CASE p1 + 1 < p2
    <3>1. t = Pointers(s.ahead1 \ {p1}, s.ahead2, s.result)
      BY <2>1, <2>2, <2>3, <2>8
    <3>2. \A p \in pos2 : p - 1 \in pos1 =>
            p \in s.result \/ (p - 1 \in s.ahead1 \ {p1} /\ p \in s.ahead2)
      <4>1. ASSUME NEW p \in s.ahead2
            PROVE  p - 1 # p1
        <5>1. p \in Nat /\ p2 <= p
          BY <1>1, <2>2
        <5>. QED
          BY <2>1, <2>2, <2>8, <5>1
      <4>. QED
        BY <1>1, <4>1
    <3>3. Cardinality(s.ahead1 \ {p1}) + Cardinality(s.ahead2) + k
            <= Cardinality(pos1) + Cardinality(pos2)
      BY <2>4, <2>5, <2>6
    <3>. QED
      BY <1>1, <3>1, <3>2, <3>3 DEF Pointers, PointersInv, t
  <2>9. CASE p1 + 1 > p2
    <3>1. t = Pointers(s.ahead1, s.ahead2 \ {p2}, s.result)
      BY <2>1, <2>2, <2>3, <2>9
    <3>2. \A p \in pos2 : p - 1 \in pos1 =>
            p \in s.result \/ (p - 1 \in s.ahead1 /\ p \in s.ahead2 \ {p2})
      BY <1>1, <2>1, <2>2, <2>9
    <3>3. Cardinality(s.ahead1) + Cardinality(s.ahead2 \ {p2}) + k
            <= Cardinality(pos1) + Cardinality(pos2)
      BY <2>4, <2>5, <2>6
    <3>. QED
      BY <1>1, <3>1, <3>2, <3>3 DEF Pointers, PointersInv, t
  <2>. QED
    BY <2>1, <2>2, <2>7, <2>8, <2>9
<1>. QED
  BY <1>2, <1>3

(* Of two posting lists the second one's positions that follow one of the  *)
(* first are found, all of them and nothing else (Searcher.cpp:16-31).     *)
THEOREM IntersectExact ==
  ASSUME NEW pos1, IsFiniteSet(pos1), pos1 \subseteq Nat,
         NEW pos2, IsFiniteSet(pos2), pos2 \subseteq Nat
  PROVE  PositionalIntersect(pos1, pos2) = {p \in pos2 : p - 1 \in pos1}
<1> DEFINE m == Cardinality(pos1) + Cardinality(pos2)
           S(k) == TwoPointers(pos1, pos2)[k]
           P == {k \in 0 .. m : PointersInv(pos1, pos2, k, S(k))}
<1>1. Cardinality(pos1) \in Nat /\ Cardinality(pos2) \in Nat
  BY FS_CardinalityType
<1>2. m \in Nat
  BY <1>1
<1>3. S(0) = Pointers(pos1, pos2, {}) /\ \A k \in 1 .. m : S(k) = PointersStep(S(k - 1))
  BY <1>2, PointersUnroll
<1>4. 0 \in P
  <2>1. 0 \in 0 .. m
    BY <1>2
  <2>2. PointersInv(pos1, pos2, 0, S(0))
    BY <1>1, <1>3 DEF Pointers, PointersInv
  <2>. QED
    BY <2>1, <2>2
<1>5. ASSUME NEW k \in 1 .. m, k - 1 \in P
      PROVE  k \in P
  <2>1. k \in Nat \ {0} /\ PointersInv(pos1, pos2, k - 1, S(k - 1))
    BY <1>5
  <2> HIDE DEF m
  <2>2. PointersInv(pos1, pos2, k, PointersStep(S(k - 1)))
    BY <2>1, PointersKeep
  <2>. QED
    BY <1>3, <2>2
<1>6. 0 .. m \subseteq P
  <2> HIDE DEF P, m
  <2>. QED
    BY <1>2, <1>4, <1>5, Counting
<1>7. PointersInv(pos1, pos2, m, S(m))
  <2>1. m \in 0 .. m
    BY <1>2
  <2>. QED
    BY <1>6, <2>1
<1> DEFINE s == S(m)
<1>8. PositionalIntersect(pos1, pos2) = s.result
  BY DEF PositionalIntersect
<1> HIDE DEF s
<1>9. PointersInv(pos1, pos2, m, s)
  BY <1>7 DEF s
<1>10. s.ahead1 = {} \/ s.ahead2 = {}
  <2>1. /\ IsFiniteSet(s.ahead1) /\ IsFiniteSet(s.ahead2)
        /\ Cardinality(s.ahead1) \in Nat /\ Cardinality(s.ahead2) \in Nat
    BY <1>9, FS_Subset, FS_CardinalityType DEF PointersInv
  <2>2. Cardinality(s.ahead1) = 0 \/ s.ahead1 = {} \/ s.ahead2 = {}
    BY <1>1, <1>9, <2>1 DEF PointersInv
  <2>. QED
    BY <2>1, <2>2, FS_EmptySet
<1>. QED
  BY <1>8, <1>9, <1>10 DEF PointersInv

-----------------------------------------------------------------------------
(* Word w is at position p of file f.                                      *)
At(index, w, f, p) == f \in DOMAIN index[w] /\ p \in index[w][f]

IsPostings(index) ==
  \A w \in DOMAIN index : \A f \in DOMAIN index[w] :
    IsFiniteSet(index[w][f]) /\ index[w][f] \subseteq Nat

(* What a tree that spells the indexed words answers for a token that is   *)
(* not one of them.                                                        *)
CompletionsExact(index, completions, tokens) ==
  \A token \in ToSet(tokens) \ DOMAIN index :
    /\ completions[token] \in Seq(DOMAIN index)
    /\ IsInjective(completions[token])
    /\ ToSet(completions[token]) = {w \in DOMAIN index : IsPrefix(token, w)}

(* A token is looked for as each of its expansions, once.                  *)
LEMMA MatchesExact ==
  ASSUME NEW index, NEW completions, NEW tokens, CompletionsExact(index, completions, tokens),
         NEW token \in ToSet(tokens)
  PROVE  LET targets == Matches(index, completions, token)
         IN  /\ targets \in Seq(DOMAIN index)
             /\ {targets[k] : k \in 1 .. Len(targets)} = Expansions(index, token)
             /\ Len(targets) = Cardinality(Expansions(index, token))
<1>1. CASE token \in DOMAIN index
  <2>1. Matches(index, completions, token) = <<token>> /\ Expansions(index, token) = {token}
    BY <1>1 DEF Matches, Expansions
  <2>2. Cardinality({token}) = 1
    BY FS_Singleton
  <2>. QED
    BY <1>1, <2>1, <2>2
<1>2. CASE token \notin DOMAIN index
  <2> DEFINE targets == completions[token]
  <2>1. /\ Matches(index, completions, token) = targets
        /\ targets \in Seq(DOMAIN index) /\ IsInjective(targets)
        /\ ToSet(targets) = Expansions(index, token)
    BY <1>2 DEF Matches, Expansions, CompletionsExact
  <2>2. ToSet(targets) = {targets[k] : k \in 1 .. Len(targets)} /\ Len(targets) \in Nat
    BY <2>1 DEF ToSet
  <2>3. \A i, k \in 1 .. Len(targets) : targets[i] = targets[k] => i = k
    BY <2>1 DEF IsInjective
  <2> HIDE DEF targets
  <2>4. ExistsBijection(1 .. Len(targets), Expansions(index, token))
    <3>1. targets \in [1 .. Len(targets) -> Expansions(index, token)]
      BY <2>1, <2>2
    <3>2. targets \in Bijection(1 .. Len(targets), Expansions(index, token))
      BY <2>1, <2>2, <2>3, <3>1 DEF Bijection, Injection, Surjection, IsInjective
    <3>. QED
      BY <3>2 DEF ExistsBijection
  <2>5. Cardinality(Expansions(index, token)) = Len(targets)
    BY <2>2, <2>4, FS_CountingElements
  <2>. QED
    BY <2>1, <2>2, <2>5
<1>. QED
  BY <1>1, <1>2

(* Expansions are indexed words, and an unambiguous token has one at most. *)
LEMMA ExpansionsIndexed ==
  ASSUME NEW index, NEW completions, NEW tokens, CompletionsExact(index, completions, tokens),
         NEW token \in ToSet(tokens)
  PROVE  /\ Expansions(index, token) \subseteq DOMAIN index
         /\ \A w \in Expansions(index, token) :
              ~Ambiguous(index, token) <=> Expansions(index, token) = {w}
<1>1. Expansions(index, token) \subseteq DOMAIN index
  BY DEF Expansions
<1> DEFINE targets == Matches(index, completions, token)
           n == Len(targets)
           S == Expansions(index, token)
<1>2. n \in Nat /\ S = {targets[k] : k \in 1 .. n} /\ Cardinality(S) = n
  BY MatchesExact
<1> HIDE DEF targets, n, S
<1>3. ASSUME NEW w \in S
      PROVE  Cardinality(S) <= 1 <=> S = {w}
  <2>1. ASSUME Cardinality(S) <= 1
        PROVE  S = {w}
    <3>1. PICK k \in 1 .. n : w = targets[k]
      BY <1>2, <1>3
    <3>2. n <= 1
      BY <1>2, <2>1
    <3>3. ASSUME NEW v \in S
          PROVE  v = w
      <4>1. PICK j \in 1 .. n : v = targets[j]
        BY <1>2
      <4>2. j = 1 /\ k = 1
        BY <1>2, <3>2
      <4>. QED
        BY <3>1, <4>1, <4>2
    <3>. QED
      BY <1>3, <3>3
  <2>2. ASSUME S = {w}
        PROVE  Cardinality(S) <= 1
    <3>1. Cardinality({w}) = 1
      BY FS_Singleton, Zenon
    <3>2. Cardinality(S) = 1
      BY <2>2, <3>1
    <3>. QED
      BY <3>2
  <2>. QED
    BY <2>1, <2>2
<1>4. ~Ambiguous(index, token) <=> Cardinality(S) <= 1
  <2>1. Cardinality(S) \in Nat
    BY <1>2
  <2>2. Ambiguous(index, token) <=> Cardinality(S) > 1
    BY DEF Ambiguous, S
  <2>. QED
    BY <2>1, <2>2
<1>. QED
  BY <1>1, <1>3, <1>4 DEF S

(* One word after another: the positions of the second that follow one of  *)
(* the first, in the files that have any.                                  *)
LEMMA FollowExact ==
  ASSUME NEW docs, \A f \in DOMAIN docs : IsFiniteSet(docs[f]) /\ docs[f] \subseteq Nat,
         NEW next, \A f \in DOMAIN next : IsFiniteSet(next[f]) /\ next[f] \subseteq Nat
  PROVE  LET found == Follow(docs, next)
         IN  /\ DOMAIN found \subseteq DOMAIN next
             /\ \A f \in DOMAIN found : found[f] \subseteq next[f] /\ found[f] # {}
             /\ \A f : \A p : (f \in DOMAIN found /\ p \in found[f])
                  <=> (f \in DOMAIN docs /\ f \in DOMAIN next /\ p \in next[f] /\ p - 1 \in docs[f])
<1> DEFINE both == DOMAIN docs \cap DOMAIN next
           after == [f \in both |-> PositionalIntersect(docs[f], next[f])]
           found == Follow(docs, next)
<1>1. \A f \in both : after[f] = {p \in next[f] : p - 1 \in docs[f]}
  BY IntersectExact
<1>2. found = [f \in {g \in both : after[g] # {}} |-> after[f]]
  BY DEF Follow, Restrict
<1> HIDE DEF after, found
<1>3. DOMAIN found = {g \in both : after[g] # {}} /\ \A f \in DOMAIN found : found[f] = after[f]
  BY <1>2
<1>4. /\ DOMAIN found \subseteq DOMAIN next
      /\ \A f \in DOMAIN found : found[f] \subseteq next[f] /\ found[f] # {}
  BY <1>1, <1>3
<1>5. ASSUME NEW f, NEW p
      PROVE  (f \in DOMAIN found /\ p \in found[f])
               <=> (f \in DOMAIN docs /\ f \in DOMAIN next /\ p \in next[f] /\ p - 1 \in docs[f])
  <2>1. CASE f \in both
    BY <1>1, <1>3, <2>1
  <2>2. CASE f \notin both
    BY <1>3, <2>2
  <2>. QED
    BY <2>1, <2>2
<1>. QED
  BY <1>4, <1>5 DEF found

-----------------------------------------------------------------------------
(* The first n tokens end at position p of f, the last of them as word w.  *)
Occurs(index, tokens, n, w, f, p) ==
  /\ w \in Expansions(index, tokens[n]) /\ At(index, w, f, p)
  /\ EndsAt(index, tokens, n, f, p)

(* A hit is a word, a file and a position of the result.                   *)
LEMMA HitsAre ==
  ASSUME NEW results, NEW hit
  PROVE  hit \in Hits(results)
           <=> \E w \in DOMAIN results : \E f \in DOMAIN results[w] : \E p \in results[w][f] :
                 hit = <<w, f, p>>
BY DEF Hits

(* An occurrence of the first n tokens adds one position to one of the     *)
(* tokens before.                                                          *)
LEMMA EndsNext ==
  ASSUME NEW index, NEW tokens, NEW n \in Nat \ {0}, NEW f, NEW p \in Int
  PROVE  EndsAt(index, tokens, n + 1, f, p)
           <=> /\ EndsAt(index, tokens, n, f, p - 1)
               /\ \E w \in Expansions(index, tokens[n + 1]) : At(index, w, f, p)
<1> DEFINE Here(i, q) == \E w \in Expansions(index, tokens[i]) : At(index, w, f, q)
<1>1. EndsAt(index, tokens, n + 1, f, p) <=> \A i \in 1 .. n + 1 : Here(i, p - (n + 1 - i))
  BY DEF EndsAt, At
<1>2. EndsAt(index, tokens, n, f, p - 1) <=> \A i \in 1 .. n : Here(i, p - 1 - (n - i))
  BY DEF EndsAt, At
<1>3. (\E w \in Expansions(index, tokens[n + 1]) : At(index, w, f, p)) <=> Here(n + 1, p)
  OBVIOUS
<1>4. 1 .. n + 1 = (1 .. n) \cup {n + 1}
  OBVIOUS
<1>5. (\A i \in 1 .. n : p - (n + 1 - i) = p - 1 - (n - i)) /\ p - (n + 1 - (n + 1)) = p
  OBVIOUS
<1> HIDE DEF Here
<1>6. (\A i \in 1 .. n + 1 : Here(i, p - (n + 1 - i)))
        <=> (\A i \in 1 .. n : Here(i, p - (n + 1 - i))) /\ Here(n + 1, p - (n + 1 - (n + 1)))
  BY <1>4
<1>7. (\A i \in 1 .. n : Here(i, p - (n + 1 - i))) <=> \A i \in 1 .. n : Here(i, p - 1 - (n - i))
  BY <1>5
<1>8. Here(n + 1, p - (n + 1 - (n + 1))) <=> Here(n + 1, p)
  BY <1>5
<1>. QED
  BY <1>1, <1>2, <1>3, <1>6, <1>7, <1>8

(* A phrase of one token ends where a word it expands to stands.           *)
LEMMA EndsFirst ==
  ASSUME NEW index, NEW tokens, NEW f, NEW p \in Int
  PROVE  EndsAt(index, tokens, 1, f, p)
           <=> \E w \in Expansions(index, tokens[1]) : At(index, w, f, p)
<1>1. 1 .. 1 = {1} /\ p - (1 - 1) = p
  OBVIOUS
<1>. QED
  BY <1>1 DEF EndsAt, At

(* Where a phrase ends, each of its beginnings has ended before.           *)
LEMMA EndsEarlier ==
  ASSUME NEW index, NEW tokens, NEW n \in Nat, NEW m \in 1 .. n, NEW f, NEW p \in Int,
         EndsAt(index, tokens, n, f, p)
  PROVE  \E w : Occurs(index, tokens, m, w, f, p - (n - m))
<1> DEFINE q == p - (n - m)
<1>1. \A i \in 1 .. m : i \in 1 .. n /\ q - (m - i) = p - (n - i)
  OBVIOUS
<1>2. \A i \in 1 .. n : \E w \in Expansions(index, tokens[i]) : At(index, w, f, p - (n - i))
  BY DEF EndsAt, At
<1> HIDE DEF q
<1>3. \A i \in 1 .. m : \E w \in Expansions(index, tokens[i]) : At(index, w, f, q - (m - i))
  BY <1>1, <1>2
<1>4. EndsAt(index, tokens, m, f, q)
  BY <1>3 DEF EndsAt, At
<1>5. m \in 1 .. n
  OBVIOUS
<1>6. \E w \in Expansions(index, tokens[m]) : At(index, w, f, q)
  BY <1>2, <1>5 DEF q
<1>. QED
  BY <1>4, <1>6 DEF Occurs, q

(* The reference answer for the first n tokens, hit by hit.                *)
LEMMA OccurrencesAre ==
  ASSUME NEW index, NEW tokens, Len(tokens) \in Nat, NEW n \in 1 .. Len(tokens), NEW hit,
         Expansions(index, tokens[n]) \subseteq DOMAIN index
  PROVE  hit \in Occurrences(index, SubSeq(tokens, 1, n))
           <=> \E w, f, p : hit = <<w, f, p>> /\ Occurs(index, tokens, n, w, f, p)
<1> DEFINE part == SubSeq(tokens, 1, n)
<1>1. part = [i \in 1 .. n |-> tokens[i]] /\ Len(part) = n
  OBVIOUS
<1> HIDE DEF part
<1>2. \A f, p : EndsAt(index, part, n, f, p) <=> EndsAt(index, tokens, n, f, p)
  BY <1>1 DEF EndsAt
<1>3. part[n] = tokens[n]
  BY <1>1
<1>4. hit \in Occurrences(index, part)
        <=> /\ hit \in Hits(index)
            /\ hit[1] \in Expansions(index, tokens[n])
            /\ EndsAt(index, tokens, n, hit[2], hit[3])
  BY <1>1, <1>2, <1>3 DEF Occurrences
<1>5. hit \in Hits(index) <=> \E w \in DOMAIN index : \E f, p : At(index, w, f, p) /\ hit = <<w, f, p>>
  BY HitsAre DEF At
<1>6. ASSUME hit \in Occurrences(index, part)
      PROVE  \E w, f, p : hit = <<w, f, p>> /\ Occurs(index, tokens, n, w, f, p)
  BY <1>4, <1>5, <1>6 DEF Occurs
<1>7. ASSUME NEW w, NEW f, NEW p, hit = <<w, f, p>>, Occurs(index, tokens, n, w, f, p)
      PROVE  hit \in Occurrences(index, part)
  BY <1>4, <1>5, <1>7 DEF Occurs
<1>. QED
  BY <1>6, <1>7 DEF part

(* The loop over the tokens, one after the other.                          *)
LEMMA ChainUnrolls ==
  ASSUME NEW index, NEW completions, NEW tokens, Len(tokens) \in Nat \ {0}, NEW word
  PROVE  LET chain == Chain(index, completions, tokens, word)
         IN  /\ chain[1] = Following(word, index[word])
             /\ \A i \in 2 .. Len(tokens) :
                  chain[i] = ChainStep(index, completions, tokens[i], chain[i - 1])
<1> DEFINE m == Len(tokens)
           start == Following(word, index[word])
           Step(s, i) == ChainStep(index, completions, tokens[i], s)
           Eq(g, n) == [i \in 1 .. n |-> IF i = 1 THEN start ELSE Step(g[i - 1], i)]
           chain == CHOOSE g : g = Eq(g, m)
           P == {n \in 0 .. m : \E g : g = Eq(g, n)}
<1>1. Chain(index, completions, tokens, word) = chain
  BY DEF Chain
<1> HIDE DEF start, Step
<1>2. 0 \in P
  <2> DEFINE g == [i \in 1 .. 0 |-> start]
  <2>1. g = Eq(g, 0)
    OBVIOUS
  <2>2. 0 \in 0 .. m
    OBVIOUS
  <2> HIDE DEF g
  <2>. QED
    BY <2>1, <2>2
<1>3. ASSUME NEW n \in 1 .. m, n - 1 \in P
      PROVE  n \in P
  <2>1. PICK g : g = Eq(g, n - 1)
    BY <1>3
  <2> DEFINE last == IF n = 1 THEN start ELSE Step(g[n - 1], n)
             more == [i \in 1 .. n |-> IF i = n THEN last ELSE g[i]]
  <2>2. ASSUME NEW i \in 1 .. n
        PROVE  more[i] = Eq(more, n)[i]
    <3>1. CASE i = 1 /\ n = 1
      BY <3>1
    <3>2. CASE i = 1 /\ n # 1
      <4>1. i \in 1 .. n - 1 /\ g[i] = start
        BY <2>1, <3>2
      <4>. QED
        BY <3>2, <4>1
    <3>3. CASE i # 1
      <4>1. i - 1 \in 1 .. n /\ i - 1 # n /\ more[i - 1] = g[i - 1]
        BY <3>3
      <4>2. CASE i = n
        BY <3>3, <4>1, <4>2
      <4>3. CASE i # n
        <5>1. i \in 1 .. n - 1 /\ g[i] = Step(g[i - 1], i)
          BY <2>1, <3>3, <4>3
        <5>. QED
          BY <3>3, <4>1, <4>3, <5>1
      <4>. QED
        BY <4>2, <4>3
    <3>. QED
      BY <3>1, <3>2, <3>3
  <2>3. more = Eq(more, n)
    BY <2>2
  <2> HIDE DEF more
  <2>. QED
    BY <2>3
<1>4. 0 .. m \subseteq P
  <2> HIDE DEF P, m
  <2>1. m \in Nat
    BY DEF m
  <2>. QED
    BY <1>2, <1>3, <2>1, Counting
<1>5. \E g : g = Eq(g, m)
  BY <1>4
<1>6. chain = Eq(chain, m)
  BY <1>5
<1> HIDE DEF chain
<1>. QED
  BY <1>1, <1>6 DEF start, Step

-----------------------------------------------------------------------------
(* No ambiguity up to token n.                                             *)
Clear(index, tokens, n) == \A k \in 1 .. n : ~Ambiguous(index, tokens[k])

(* Inside the loop: docs are the positions where the tokens so far end.    *)
FollowingInv(index, tokens, i, word, docs) ==
  /\ word \in Expansions(index, tokens[i])
  /\ i >= 2 => ~Ambiguous(index, tokens[i])
  /\ \A f \in DOMAIN docs : IsFiniteSet(docs[f]) /\ docs[f] \subseteq Nat
  /\ \A f \in DOMAIN docs : \A p \in docs[f] : Occurs(index, tokens, i, word, f, p)
  /\ Clear(index, tokens, i) =>
       \A f, p : Occurs(index, tokens, i, word, f, p) => f \in DOMAIN docs /\ p \in docs[f]

(* Left at token m: the results are where the first m tokens end, and the  *)
(* last of them is ambiguous if there are any.                             *)
LeftInv(index, tokens, m, results) ==
  /\ \A w \in DOMAIN results : \A f \in DOMAIN results[w] : \A p \in results[w][f] :
       Ambiguous(index, tokens[m]) /\ Occurs(index, tokens, m, w, f, p)
  /\ Clear(index, tokens, m - 1) =>
       \A w, f, p : Occurs(index, tokens, m, w, f, p) => <<w, f, p>> \in Hits(results)

ChainInv(index, tokens, i, s) ==
  IF s.ended THEN \E m \in 2 .. i : LeftInv(index, tokens, m, s.results)
  ELSE FollowingInv(index, tokens, i, s.word, s.docs)

(* The next token is found after the tokens before it, wherever it is and  *)
(* nowhere else.                                                           *)
LEMMA NextFound ==
  ASSUME NEW index, IsPostings(index), NEW completions, NEW tokens, Len(tokens) \in Nat,
         CompletionsExact(index, completions, tokens),
         NEW i \in 2 .. Len(tokens), NEW word, NEW docs,
         FollowingInv(index, tokens, i - 1, word, docs),
         NEW w \in Expansions(index, tokens[i])
  PROVE  LET found == Follow(docs, index[w])
         IN  /\ \A f \in DOMAIN found : IsFiniteSet(found[f]) /\ found[f] \subseteq Nat /\ found[f] # {}
             /\ \A f \in DOMAIN found : \A p \in found[f] : Occurs(index, tokens, i, w, f, p)
             /\ Clear(index, tokens, i - 1) =>
                  \A f, p : Occurs(index, tokens, i, w, f, p) => f \in DOMAIN found /\ p \in found[f]
<1> DEFINE found == Follow(docs, index[w])
<1>1. i \in DOMAIN tokens /\ i - 1 \in DOMAIN tokens /\ i - 1 \in Nat \ {0}
  OBVIOUS
<1>2. tokens[i] \in ToSet(tokens) /\ tokens[i - 1] \in ToSet(tokens)
  BY <1>1 DEF ToSet
<1>3. w \in DOMAIN index /\ \A f \in DOMAIN index[w] : IsFiniteSet(index[w][f]) /\ index[w][f] \subseteq Nat
  BY <1>2, ExpansionsIndexed DEF IsPostings
<1>4. /\ DOMAIN found \subseteq DOMAIN index[w]
      /\ \A f \in DOMAIN found : found[f] \subseteq index[w][f] /\ found[f] # {}
      /\ \A f, p : (f \in DOMAIN found /\ p \in found[f])
           <=> (f \in DOMAIN docs /\ At(index, w, f, p) /\ p - 1 \in docs[f])
  BY <1>3, FollowExact DEF FollowingInv, At
<1> HIDE DEF found
<1>5. \A f \in DOMAIN found : IsFiniteSet(found[f]) /\ found[f] \subseteq Nat /\ found[f] # {}
  BY <1>3, <1>4, FS_Subset
<1>6. \A f : \A p \in Int :
        EndsAt(index, tokens, i, f, p)
          <=> /\ EndsAt(index, tokens, i - 1, f, p - 1)
              /\ \E v \in Expansions(index, tokens[i]) : At(index, v, f, p)
  <2>1. (i - 1) + 1 = i
    OBVIOUS
  <2>. QED
    BY <1>1, <2>1, EndsNext
<1>7. ASSUME NEW f \in DOMAIN found, NEW p \in found[f]
      PROVE  Occurs(index, tokens, i, w, f, p)
  <2>1. f \in DOMAIN docs /\ At(index, w, f, p) /\ p - 1 \in docs[f] /\ p \in Nat
    BY <1>4, <1>5
  <2>2. Occurs(index, tokens, i - 1, word, f, p - 1)
    BY <2>1 DEF FollowingInv
  <2>. QED
    BY <1>6, <2>1, <2>2 DEF Occurs
<1>8. ASSUME Clear(index, tokens, i - 1), NEW f, NEW p, Occurs(index, tokens, i, w, f, p)
      PROVE  f \in DOMAIN found /\ p \in found[f]
  <2>1. At(index, w, f, p) /\ EndsAt(index, tokens, i, f, p)
    BY <1>8 DEF Occurs
  <2>2. p \in Nat
    BY <1>3, <2>1 DEF At
  <2>3. EndsAt(index, tokens, i - 1, f, p - 1)
    BY <1>6, <2>1, <2>2
  <2>4. PICK v : Occurs(index, tokens, i - 1, v, f, p - 1)
    <3>1. i - 1 \in 1 .. i - 1 /\ p - 1 \in Int /\ p - 1 - ((i - 1) - (i - 1)) = p - 1
      BY <2>2
    <3>. QED
      BY <1>1, <2>3, <3>1, EndsEarlier
  <2>5. v = word
    <3>1. ~Ambiguous(index, tokens[i - 1])
      BY <1>1, <1>8 DEF Clear
    <3>2. Expansions(index, tokens[i - 1]) = {word}
      BY <1>2, <3>1, ExpansionsIndexed DEF FollowingInv
    <3>. QED
      BY <2>4, <3>2 DEF Occurs
  <2>6. f \in DOMAIN docs /\ p - 1 \in docs[f]
    BY <1>8, <2>4, <2>5 DEF FollowingInv
  <2>. QED
    BY <1>4, <2>1, <2>6
<1>. QED
  BY <1>5, <1>7, <1>8 DEF found

(* One pass of the loop.                                                   *)
LEMMA ChainStepKeeps ==
  ASSUME NEW index, IsPostings(index), NEW completions, NEW tokens, Len(tokens) \in Nat,
         CompletionsExact(index, completions, tokens),
         NEW i \in 2 .. Len(tokens), NEW s, ChainInv(index, tokens, i - 1, s)
  PROVE  ChainInv(index, tokens, i, ChainStep(index, completions, tokens[i], s))
<1>1. CASE s.ended
  <2>1. PICK m \in 2 .. i - 1 : LeftInv(index, tokens, m, s.results)
    BY <1>1 DEF ChainInv
  <2>2. m \in 2 .. i /\ ChainStep(index, completions, tokens[i], s) = s
    BY <1>1 DEF ChainStep
  <2>. QED
    BY <1>1, <2>1, <2>2 DEF ChainInv
<1>2. CASE ~s.ended
  <2> DEFINE targets == Matches(index, completions, tokens[i])
             n == Len(targets)
             words == Expansions(index, tokens[i])
             found == [w \in ToSet(targets) \cap DOMAIN index |-> Follow(s.docs, index[w])]
             hits == Restrict(found, {w \in DOMAIN found : DOMAIN found[w] # {}})
  <2>1. tokens[i] \in ToSet(tokens)
    BY DEF ToSet
  <2>2. FollowingInv(index, tokens, i - 1, s.word, s.docs)
    BY <1>2 DEF ChainInv
  <2>3. /\ n \in Nat /\ words = {targets[k] : k \in 1 .. n} /\ words = ToSet(targets)
        /\ n = Cardinality(words) /\ words \subseteq DOMAIN index
        /\ \A w \in words : ~Ambiguous(index, tokens[i]) <=> words = {w}
    BY <2>1, MatchesExact, ExpansionsIndexed DEF ToSet
  <2>4. ChainStep(index, completions, tokens[i], s)
          = IF DOMAIN hits # {} /\ n = 1 THEN Following(targets[1], hits[targets[1]]) ELSE Left(hits)
    BY <1>2 DEF ChainStep
  <2>5. DOMAIN found = words /\ \A w \in words : found[w] = Follow(s.docs, index[w])
    BY <2>3
  <2>6. /\ DOMAIN hits = {w \in words : DOMAIN found[w] # {}}
        /\ \A w \in DOMAIN hits : hits[w] = found[w]
    BY <2>5 DEF Restrict
  <2> HIDE DEF targets, n, words, found, hits
  <2>7. ASSUME NEW w \in words
        PROVE  /\ \A f \in DOMAIN found[w] :
                    IsFiniteSet(found[w][f]) /\ found[w][f] \subseteq Nat /\ found[w][f] # {}
               /\ \A f \in DOMAIN found[w] : \A p \in found[w][f] : Occurs(index, tokens, i, w, f, p)
               /\ Clear(index, tokens, i - 1) =>
                    \A f, p : Occurs(index, tokens, i, w, f, p)
                      => f \in DOMAIN found[w] /\ p \in found[w][f]
    <3> DEFINE next == Follow(s.docs, index[w])
    <3>1. found[w] = next
      BY <2>5
    <3>2. w \in Expansions(index, tokens[i])
      BY DEF words
    <3>3. /\ \A f \in DOMAIN next : IsFiniteSet(next[f]) /\ next[f] \subseteq Nat /\ next[f] # {}
          /\ \A f \in DOMAIN next : \A p \in next[f] : Occurs(index, tokens, i, w, f, p)
          /\ Clear(index, tokens, i - 1) =>
               \A f, p : Occurs(index, tokens, i, w, f, p) => f \in DOMAIN next /\ p \in next[f]
      BY <2>2, <3>2, NextFound
    <3> HIDE DEF next
    <3>. QED
      BY <3>1, <3>3
  <2>8. CASE DOMAIN hits # {} /\ n = 1
    <3> DEFINE w == targets[1]
               docs == hits[w]
    <3>1. words = {w}
      BY <2>3, <2>8
    <3>2. w \in DOMAIN hits /\ docs = found[w]
      BY <2>6, <2>8, <3>1
    <3>3. ChainStep(index, completions, tokens[i], s) = Following(w, docs)
      BY <2>4, <2>8
    <3> HIDE DEF w, docs
    <3>4. ~Ambiguous(index, tokens[i])
      BY <2>3, <3>1
    <3>5. Clear(index, tokens, i) => Clear(index, tokens, i - 1)
      BY DEF Clear
    <3>6. FollowingInv(index, tokens, i, w, docs)
      BY <2>7, <3>1, <3>2, <3>4, <3>5 DEF FollowingInv, words
    <3>. QED
      BY <3>3, <3>6 DEF ChainInv, Following
  <2>9. CASE ~(DOMAIN hits # {} /\ n = 1)
    <3>1. ChainStep(index, completions, tokens[i], s) = Left(hits)
      BY <2>4, <2>9
    <3>2. ASSUME NEW w \in DOMAIN hits, NEW f \in DOMAIN hits[w], NEW p \in hits[w][f]
          PROVE  Ambiguous(index, tokens[i]) /\ Occurs(index, tokens, i, w, f, p)
      <4>1. w \in words /\ hits[w] = found[w]
        BY <2>6, <3>2
      <4>2. n # 1
        BY <2>9, <3>2
      <4>3. words # {w}
        BY <2>3, <4>2, FS_Singleton
      <4>. QED
        BY <2>3, <2>7, <3>2, <4>1, <4>3
    <3>3. ASSUME Clear(index, tokens, i - 1), NEW w, NEW f, NEW p, Occurs(index, tokens, i, w, f, p)
          PROVE  <<w, f, p>> \in Hits(hits)
      <4>1. w \in words
        BY <3>3 DEF Occurs, words
      <4>2. f \in DOMAIN found[w] /\ p \in found[w][f]
        BY <2>7, <3>3, <4>1
      <4>3. w \in DOMAIN hits /\ hits[w] = found[w]
        BY <2>6, <4>1, <4>2
      <4>. QED
        BY <4>2, <4>3, HitsAre
    <3>4. LeftInv(index, tokens, i, hits)
      BY <3>2, <3>3 DEF LeftInv
    <3>5. i \in 2 .. i
      OBVIOUS
    <3>. QED
      BY <3>1, <3>4, <3>5 DEF ChainInv, Left
  <2>. QED
    BY <2>8, <2>9
<1>. QED
  BY <1>1, <1>2

(* The answer is settled by the first m tokens: all of them, or those up   *)
(* to an ambiguous one.                                                    *)
Settled(index, tokens, m, results) ==
  /\ \A w \in DOMAIN results : \A f \in DOMAIN results[w] : \A p \in results[w][f] :
       /\ m = Len(tokens) \/ Ambiguous(index, tokens[m])
       /\ Occurs(index, tokens, m, w, f, p)
  /\ Clear(index, tokens, m - 1) =>
       \A w, f, p : Occurs(index, tokens, m, w, f, p) => <<w, f, p>> \in Hits(results)

(* From each word of the first token, the loop over the rest ends with a   *)
(* settled answer for some number of tokens.                               *)
LEMMA ChainSettles ==
  ASSUME NEW index, IsPostings(index), NEW completions, NEW tokens, Len(tokens) \in Nat,
         CompletionsExact(index, completions, tokens),
         Len(tokens) >= 2, NEW word \in Expansions(index, tokens[1])
  PROVE  LET end == Chain(index, completions, tokens, word)[Len(tokens)]
         IN  \E m \in 1 .. Len(tokens) :
               Settled(index, tokens, m, IF end.ended THEN end.results ELSE [w \in {end.word} |-> end.docs])
<1> DEFINE n == Len(tokens)
           chain == Chain(index, completions, tokens, word)
           end == chain[n]
           P == {i \in 0 .. n : i = 0 \/ ChainInv(index, tokens, i, chain[i])}
<1>1. /\ chain[1] = Following(word, index[word])
      /\ \A i \in 2 .. n : chain[i] = ChainStep(index, completions, tokens[i], chain[i - 1])
  BY ChainUnrolls
<1>2. \A i \in 1 .. n : tokens[i] \in ToSet(tokens)
  BY DEF ToSet
<1>3. ChainInv(index, tokens, 1, chain[1])
  <2>1. word \in DOMAIN index /\ 1 \in 1 .. n
    BY <1>2, ExpansionsIndexed
  <2>2. \A f \in DOMAIN index[word] : IsFiniteSet(index[word][f]) /\ index[word][f] \subseteq Nat
    BY <2>1 DEF IsPostings
  <2>3. ASSUME NEW f \in DOMAIN index[word], NEW p \in index[word][f]
        PROVE  Occurs(index, tokens, 1, word, f, p)
    <3>1. p \in Int /\ At(index, word, f, p)
      BY <2>2 DEF At
    <3>. QED
      BY <3>1, EndsFirst DEF Occurs
  <2>4. \A f, p : Occurs(index, tokens, 1, word, f, p) => f \in DOMAIN index[word] /\ p \in index[word][f]
    BY DEF Occurs, At
  <2>5. FollowingInv(index, tokens, 1, word, index[word])
    BY <2>2, <2>3, <2>4 DEF FollowingInv
  <2>. QED
    BY <1>1, <2>5 DEF ChainInv, Following
<1> HIDE DEF chain, n
<1>4. n \in Nat /\ n >= 2
  BY DEF n
<1>5. 0 \in P
  BY <1>4
<1>6. ASSUME NEW i \in 1 .. n, i - 1 \in P
      PROVE  i \in P
  <2>1. CASE i = 1
    BY <1>3, <2>1
  <2>2. CASE i # 1
    <3>1. i \in 2 .. n /\ ChainInv(index, tokens, i - 1, chain[i - 1])
      BY <1>6, <2>2
    <3>2. ChainInv(index, tokens, i, ChainStep(index, completions, tokens[i], chain[i - 1]))
      BY <3>1, ChainStepKeeps DEF n
    <3>. QED
      BY <1>1, <3>1, <3>2
  <2>. QED
    BY <2>1, <2>2
<1>7. 0 .. n \subseteq P
  <2> HIDE DEF P
  <2>. QED
    BY <1>4, <1>5, <1>6, Counting
<1>8. ChainInv(index, tokens, n, end)
  <2>1. n \in 0 .. n /\ n # 0
    BY <1>4
  <2>. QED
    BY <1>7, <2>1
<1> HIDE DEF end
<1>9. CASE end.ended
  <2>1. PICK m \in 2 .. n : LeftInv(index, tokens, m, end.results)
    BY <1>8, <1>9 DEF ChainInv
  <2>2. m \in 1 .. n /\ Settled(index, tokens, m, end.results)
    BY <2>1 DEF LeftInv, Settled
  <2>. QED
    BY <1>9, <2>2 DEF end, chain, n
<1>10. CASE ~end.ended
  <2> DEFINE w == end.word
             docs == end.docs
             results == [v \in {w} |-> docs]
  <2>1. FollowingInv(index, tokens, n, w, docs)
    BY <1>8, <1>10 DEF ChainInv
  <2>2. ~Ambiguous(index, tokens[n])
    BY <1>4, <2>1 DEF FollowingInv
  <2>3. Expansions(index, tokens[n]) = {w}
    <3>1. n \in 1 .. n
      BY <1>4
    <3>2. tokens[n] \in ToSet(tokens)
      BY <1>2, <3>1
    <3>. QED
      BY <2>1, <2>2, <3>2, ExpansionsIndexed DEF FollowingInv
  <2> HIDE DEF w, docs
  <2>4. DOMAIN results = {w} /\ results[w] = docs
    OBVIOUS
  <2> HIDE DEF results
  <2>5. \A v \in DOMAIN results : \A f \in DOMAIN results[v] : \A p \in results[v][f] :
          Occurs(index, tokens, n, v, f, p)
    BY <2>1, <2>4 DEF FollowingInv
  <2>6. ASSUME Clear(index, tokens, n - 1), NEW v, NEW f, NEW p, Occurs(index, tokens, n, v, f, p)
        PROVE  <<v, f, p>> \in Hits(results)
    <3>1. Clear(index, tokens, n)
      <4>1. 1 .. n = (1 .. n - 1) \cup {n}
        BY <1>4
      <4>. QED
        BY <2>2, <2>6, <4>1 DEF Clear
    <3>2. v = w
      BY <2>3, <2>6 DEF Occurs
    <3>3. f \in DOMAIN docs /\ p \in docs[f]
      BY <2>1, <2>6, <3>1, <3>2 DEF FollowingInv
    <3>. QED
      BY <2>4, <3>2, <3>3, HitsAre
  <2>7. Settled(index, tokens, n, results)
    BY <2>5, <2>6 DEF Settled, n
  <2>8. n \in 1 .. n
    BY <1>4
  <2>. QED
    BY <1>10, <2>7, <2>8 DEF results, w, docs, end, chain, n
<1>. QED
  BY <1>9, <1>10

(* The whole query gives a settled answer for some number of tokens.       *)
LEMMA AnswerSettles ==
  ASSUME NEW index, IsPostings(index), NEW completions, NEW tokens, Len(tokens) \in Nat \ {0},
         CompletionsExact(index, completions, tokens)
  PROVE  \E m \in 1 .. Len(tokens) :
           Settled(index, tokens, m, ChainedPositionalIntersect(index, completions, tokens))
<1> DEFINE first == Matches(index, completions, tokens[1])
           size == Len(first)
           words == Expansions(index, tokens[1])
           places == {k \in DOMAIN first : first[k] \in DOMAIN index}
           results == ChainedPositionalIntersect(index, completions, tokens)
<1>1. 1 \in 1 .. Len(tokens) /\ tokens[1] \in ToSet(tokens)
  BY DEF ToSet
<1>2. /\ DOMAIN first = 1 .. size /\ size \in Nat
      /\ words = {first[k] : k \in 1 .. size} /\ words \subseteq DOMAIN index
      /\ ToSet(first) = words
  BY <1>1, MatchesExact, ExpansionsIndexed DEF ToSet
<1>3. places = 1 .. size
  BY <1>2
<1>4. CASE Len(tokens) = 1
  <2>1. results = [w \in words |-> index[w]]
    BY <1>2, <1>4 DEF ChainedPositionalIntersect
  <2> HIDE DEF first, size, words, places, results
  <2>2. DOMAIN results = words /\ \A w \in words : results[w] = index[w]
    BY <2>1
  <2>3. ASSUME NEW w \in DOMAIN results, NEW f \in DOMAIN results[w], NEW p \in results[w][f]
        PROVE  Occurs(index, tokens, 1, w, f, p)
    <3>1. w \in words /\ At(index, w, f, p)
      BY <2>2, <2>3 DEF At
    <3>2. p \in Int
      BY <1>2, <3>1 DEF At, IsPostings
    <3>. QED
      BY <3>1, <3>2, EndsFirst DEF Occurs, words
  <2>4. ASSUME NEW w, NEW f, NEW p, Occurs(index, tokens, 1, w, f, p)
        PROVE  <<w, f, p>> \in Hits(results)
    <3>1. w \in words /\ f \in DOMAIN index[w] /\ p \in index[w][f]
      BY <2>4 DEF Occurs, At, words
    <3>. QED
      BY <2>2, <3>1, HitsAre
  <2>5. Settled(index, tokens, 1, results)
    BY <1>4, <2>3, <2>4 DEF Settled
  <2>. QED
    BY <1>1, <2>5 DEF results
<1>5. CASE Len(tokens) # 1 /\ places = {}
  <2>1. results = NoHits /\ DOMAIN NoHits = {}
    BY <1>5 DEF ChainedPositionalIntersect, NoHits
  <2>2. words = {}
    BY <1>2, <1>3, <1>5
  <2> HIDE DEF first, size, words, places, results
  <2>3. \A w, f, p : ~Occurs(index, tokens, 1, w, f, p)
    BY <2>2 DEF Occurs, words
  <2>4. Settled(index, tokens, 1, results)
    BY <2>1, <2>3 DEF Settled
  <2>. QED
    BY <1>1, <2>4 DEF results
<1>6. CASE Len(tokens) # 1 /\ places # {}
  <2> DEFINE word == first[Min(places)]
             end == Chain(index, completions, tokens, word)[Len(tokens)]
  <2>1. word \in words
    <3> HIDE DEF places
    <3>1. places \subseteq Nat
      BY <1>2, <1>3
    <3>2. Min(places) \in places
      BY <1>6, <3>1, MinExists
    <3>. QED
      BY <1>2, <1>3, <3>2
  <2>2. results = IF end.ended THEN end.results ELSE [w \in {end.word} |-> end.docs]
    BY <1>6 DEF ChainedPositionalIntersect
  <2> HIDE DEF first, size, places, results, word
  <2>3. Len(tokens) >= 2 /\ Len(tokens) \in Nat
    <3> DEFINE n == Len(tokens)
    <3>1. n \in Nat \ {0} /\ n # 1
      BY <1>6
    <3> HIDE DEF n
    <3>2. n >= 2 /\ n \in Nat
      BY <3>1
    <3>. QED
      BY <3>2 DEF n
  <2>4. \E m \in 1 .. Len(tokens) :
          Settled(index, tokens, m, IF end.ended THEN end.results ELSE [w \in {end.word} |-> end.docs])
    BY <2>1, <2>3, ChainSettles
  <2> HIDE DEF end
  <2>. QED
    BY <2>2, <2>4 DEF results
<1>. QED
  BY <1>4, <1>5, <1>6

(* What is found of a query, by an answer that is settled.                 *)
LEMMA SettledExact ==
  ASSUME NEW index, NEW completions, NEW tokens \in Seq(Word), tokens # <<>>, IsPostings(index),
         CompletionsExact(index, completions, tokens),
         NEW m \in 1 .. Len(tokens), NEW results, Settled(index, tokens, m, results)
  PROVE  /\ Clear(index, tokens, Len(tokens) - 1) => Hits(results) = Occurrences(index, tokens)
         /\ \A hit \in Hits(results) :
              /\ m = Len(tokens) \/ Ambiguous(index, tokens[m])
              /\ hit \in Occurrences(index, SubSeq(tokens, 1, m))
<1> DEFINE n == Len(tokens)
<1>1. /\ n \in Nat \ {0} /\ n \in 1 .. n
      /\ \A i \in 1 .. n : tokens[i] \in ToSet(tokens)
      /\ SubSeq(tokens, 1, n) = tokens
  BY DEF ToSet
<1>2. \A i \in 1 .. n : Expansions(index, tokens[i]) \subseteq DOMAIN index
  BY <1>1, ExpansionsIndexed
<1>3. \A i \in 1 .. n : \A hit :
        hit \in Occurrences(index, SubSeq(tokens, 1, i))
          <=> \E w, f, p : hit = <<w, f, p>> /\ Occurs(index, tokens, i, w, f, p)
  BY <1>1, <1>2, OccurrencesAre
<1>4. ASSUME NEW hit \in Hits(results)
      PROVE  /\ m = n \/ Ambiguous(index, tokens[m])
             /\ hit \in Occurrences(index, SubSeq(tokens, 1, m))
  <2>1. PICK w \in DOMAIN results : \E f \in DOMAIN results[w] : \E p \in results[w][f] : hit = <<w, f, p>>
    BY <1>4, HitsAre
  <2>. QED
    BY <1>3, <2>1 DEF Settled
<1>5. ASSUME Clear(index, tokens, n - 1)
      PROVE  Hits(results) = Occurrences(index, tokens)
  <2>1. Clear(index, tokens, m - 1)
    BY <1>5 DEF Clear
  <2>2. CASE m = n
    <3>1. ASSUME NEW hit \in Occurrences(index, tokens)
          PROVE  hit \in Hits(results)
      <4>1. PICK w, f, p : hit = <<w, f, p>> /\ Occurs(index, tokens, n, w, f, p)
        BY <1>1, <1>3, <3>1
      <4>. QED
        BY <2>1, <2>2, <4>1 DEF Settled
    <3>2. Hits(results) \subseteq Occurrences(index, tokens)
      BY <1>1, <1>4, <2>2
    <3>. QED
      BY <3>1, <3>2
  <2>3. CASE m # n
    <3>1. ~Ambiguous(index, tokens[m])
      BY <1>5, <2>3 DEF Clear
    <3>2. Hits(results) = {}
      BY <1>4, <2>3, <3>1
    <3>3. ASSUME NEW hit \in Occurrences(index, tokens)
          PROVE  FALSE
      <4>1. PICK w, f, p : hit = <<w, f, p>> /\ Occurs(index, tokens, n, w, f, p)
        BY <1>1, <1>3, <3>3
      <4>2. w \in DOMAIN index /\ f \in DOMAIN index[w] /\ p \in index[w][f] /\ EndsAt(index, tokens, n, f, p)
        BY <1>1, <1>2, <4>1 DEF Occurs, At
      <4>3. p \in Int
        BY <4>2 DEF IsPostings
      <4>4. PICK v : Occurs(index, tokens, m, v, f, p - (n - m))
        BY <1>1, <4>2, <4>3, EndsEarlier
      <4>. QED
        BY <2>1, <3>2, <4>4 DEF Settled
    <3>. QED
      BY <3>2, <3>3
  <2>. QED
    BY <2>2, <2>3
<1>. QED
  BY <1>4, <1>5

(* Over any index, with completions that are exact, a phrase whose words   *)
(* but the last are unambiguous is found wherever it occurs and nowhere    *)
(* else, and whatever the ambiguities every hit ends an occurrence of the  *)
(* query or of its part up to an ambiguous word (Searcher.cpp:32-115).     *)
THEOREM SearchTheorem ==
  ASSUME NEW index, IsPostings(index), NEW completions, NEW query \in Seq(Nat),
         CompletionsExact(index, completions, SimpleTokenize(query))
  PROVE  ExactPhrase(index, completions, query) /\ HitsOccur(index, completions, query)
<1> DEFINE tokens == SimpleTokenize(query)
           results == Search(index, completions, query)
<1>1. tokens \in Seq(Word)
  <2> DEFINE end == SimpleScan(query)[Len(query)]
  <2>1. end \in SimpleStates
    BY SimpleScanUnrolls
  <2>2. tokens = Flush(end.word, end.tokens)
    BY DEF SimpleTokenize
  <2> HIDE DEF end, tokens
  <2>3. end.word \in Word /\ end.tokens \in Seq(Word)
    BY <2>1 DEF SimpleStates
  <2>. QED
    BY <2>2, <2>3 DEF Flush
<1>2. results = IF tokens = <<>> THEN NoHits ELSE ChainedPositionalIntersect(index, completions, tokens)
  BY DEF Search
<1>3. ExactPhrase(index, completions, query)
        <=> ((tokens # <<>> /\ Clear(index, tokens, Len(tokens) - 1))
               => Hits(results) = Occurrences(index, tokens))
  BY DEF ExactPhrase, Clear
<1>4. HitsOccur(index, completions, query)
        <=> \A hit \in Hits(results) : \E n \in DOMAIN tokens :
              /\ n = Len(tokens) \/ Ambiguous(index, tokens[n])
              /\ hit \in Occurrences(index, SubSeq(tokens, 1, n))
  BY DEF HitsOccur
<1> HIDE DEF tokens, results
<1>5. CASE tokens = <<>>
  <2>1. Hits(results) = {}
    BY <1>2, <1>5, HitsAre DEF NoHits
  <2>. QED
    BY <1>3, <1>4, <1>5, <2>1
<1>6. CASE tokens # <<>>
  <2>1. Len(tokens) \in Nat \ {0} /\ DOMAIN tokens = 1 .. Len(tokens)
    BY <1>1, <1>6
  <2>2. CompletionsExact(index, completions, tokens)
    BY DEF tokens
  <2>3. PICK m \in 1 .. Len(tokens) : Settled(index, tokens, m, results)
    BY <1>2, <1>6, <2>1, <2>2, AnswerSettles
  <2>4. /\ Clear(index, tokens, Len(tokens) - 1) => Hits(results) = Occurrences(index, tokens)
        /\ \A hit \in Hits(results) :
             /\ m = Len(tokens) \/ Ambiguous(index, tokens[m])
             /\ hit \in Occurrences(index, SubSeq(tokens, 1, m))
    BY <1>1, <1>6, <2>2, <2>3, SettledExact
  <2>. QED
    BY <1>3, <1>4, <2>1, <2>4
<1>. QED
  BY <1>5, <1>6
=============================================================================
