----------------------------- MODULE TreeTheorems -----------------------------
(***************************************************************************)
(* The ternary search tree, for trees of any shape and any words: what the *)
(* way down for a key finds, that insertion and deletion keep a search     *)
(* tree and change one word, what the traversals list and count.           *)
(***************************************************************************)
EXTENDS TernarySearchTree, TokenizerTheorems, SequenceTheorems

-----------------------------------------------------------------------------
(* The first n of a path or a word.                                        *)
Cut(s, n) == SubSeq(s, 1, n)

(* The first n members of a sequence: how many, and which.                 *)
LEMMA CutProperties ==
  ASSUME NEW S, NEW s \in Seq(S), NEW n \in 0 .. Len(s)
  PROVE  /\ Cut(s, n) \in Seq(S) /\ Len(Cut(s, n)) = n
         /\ \A i \in 1 .. n : Cut(s, n)[i] = s[i]
<1>1. \A i \in 1 .. n : s[i] \in S
  OBVIOUS
<1>. QED
  BY <1>1 DEF Cut

(* Sequences that agree everywhere are the same.                           *)
LEMMA SameSequence ==
  ASSUME NEW S, NEW s \in Seq(S), NEW t \in Seq(S), Len(s) = Len(t),
         \A i \in 1 .. Len(s) : s[i] = t[i]
  PROVE  s = t
OBVIOUS

(* A cut of a cut is a cut.                                                *)
LEMMA CutAgain ==
  ASSUME NEW S, NEW s \in Seq(S), NEW n \in 0 .. Len(s), NEW m \in 0 .. n
  PROVE  Cut(Cut(s, n), m) = Cut(s, m)
<1>1. m \in 0 .. Len(s)
  OBVIOUS
<1>2. /\ Cut(s, n) \in Seq(S) /\ Len(Cut(s, n)) = n
      /\ \A i \in 1 .. n : Cut(s, n)[i] = s[i]
  BY CutProperties
<1>3. /\ Cut(s, m) \in Seq(S) /\ Len(Cut(s, m)) = m
      /\ \A i \in 1 .. m : Cut(s, m)[i] = s[i]
  BY <1>1, CutProperties
<1>4. /\ Cut(Cut(s, n), m) \in Seq(S) /\ Len(Cut(Cut(s, n), m)) = m
      /\ \A i \in 1 .. m : Cut(Cut(s, n), m)[i] = Cut(s, n)[i]
  BY <1>2, CutProperties
<1>. QED
  BY <1>2, <1>3, <1>4, SameSequence

(* The cut at the full length is the sequence.                             *)
LEMMA CutAll ==
  ASSUME NEW S, NEW s \in Seq(S)
  PROVE  Cut(s, Len(s)) = s
<1>1. Len(s) \in 0 .. Len(s)
  OBVIOUS
<1>. QED
  BY <1>1, CutProperties, SameSequence

(* Sequences that agree up to n have the same cut at n.                    *)
LEMMA CutSame ==
  ASSUME NEW S, NEW s \in Seq(S), NEW t \in Seq(S), NEW n \in 0 .. Len(s), n <= Len(t),
         \A i \in 1 .. n : s[i] = t[i]
  PROVE  Cut(s, n) = Cut(t, n)
<1>1. n \in 0 .. Len(t)
  OBVIOUS
<1>2. /\ Cut(s, n) \in Seq(S) /\ Len(Cut(s, n)) = n
      /\ \A i \in 1 .. n : Cut(s, n)[i] = s[i]
  BY CutProperties
<1>3. /\ Cut(t, n) \in Seq(S) /\ Len(Cut(t, n)) = n
      /\ \A i \in 1 .. n : Cut(t, n)[i] = t[i]
  BY <1>1, CutProperties
<1>. QED
  BY <1>2, <1>3, SameSequence

(* Appending leaves the earlier cuts as they were.                         *)
LEMMA CutAppend ==
  ASSUME NEW S, NEW s \in Seq(S), NEW x \in S
  PROVE  /\ Append(s, x) \in Seq(S) /\ Len(Append(s, x)) = Len(s) + 1
         /\ Append(s, x)[Len(s) + 1] = x
         /\ \A n \in 0 .. Len(s) : Cut(Append(s, x), n) = Cut(s, n)
         /\ Cut(Append(s, x), Len(s)) = s
<1>1. /\ Append(s, x) \in Seq(S) /\ Len(Append(s, x)) = Len(s) + 1
      /\ Append(s, x)[Len(s) + 1] = x
      /\ \A i \in 1 .. Len(s) : Append(s, x)[i] = s[i]
  OBVIOUS
<1>2. ASSUME NEW n \in 0 .. Len(s)
      PROVE  Cut(Append(s, x), n) = Cut(s, n)
  <2> DEFINE t == Append(s, x)
  <2>1. t \in Seq(S) /\ n \in 0 .. Len(t) /\ n <= Len(s) /\ \A i \in 1 .. n : t[i] = s[i]
    BY <1>1
  <2> HIDE DEF t
  <2>2. Cut(t, n) = Cut(s, n)
    BY <2>1, CutSame
  <2>. QED
    BY <2>2 DEF t
<1>3. Cut(s, Len(s)) = s /\ Len(s) \in 0 .. Len(s)
  BY CutAll
<1>. QED
  BY <1>1, <1>2, <1>3

(* One more member makes the next cut.                                     *)
LEMMA CutNext ==
  ASSUME NEW S, NEW s \in Seq(S), NEW n \in 1 .. Len(s)
  PROVE  Append(Cut(s, n - 1), s[n]) = Cut(s, n)
<1>1. n - 1 \in 0 .. Len(s) /\ n \in 0 .. Len(s) /\ s[n] \in S
  OBVIOUS
<1>2. /\ Cut(s, n) \in Seq(S) /\ Len(Cut(s, n)) = n
      /\ \A i \in 1 .. n : Cut(s, n)[i] = s[i]
  BY <1>1, CutProperties
<1>3. /\ Cut(s, n - 1) \in Seq(S) /\ Len(Cut(s, n - 1)) = n - 1
      /\ \A i \in 1 .. n - 1 : Cut(s, n - 1)[i] = s[i]
  BY <1>1, CutProperties
<1> DEFINE t == Cut(s, n - 1)
<1> HIDE DEF t
<1>4. /\ Append(t, s[n]) \in Seq(S) /\ Len(Append(t, s[n])) = n
      /\ \A i \in 1 .. n : Append(t, s[n])[i] = s[i]
  BY <1>1, <1>3 DEF t
<1>5. Append(t, s[n]) = Cut(s, n)
  BY <1>2, <1>4, SameSequence
<1>. QED
  BY <1>5 DEF t

(* The parent of a node is its path cut by one link.                       *)
LEMMA FrontIsCut ==
  ASSUME NEW S, NEW s \in Seq(S), s # <<>>
  PROVE  Front(s) = Cut(s, Len(s) - 1) /\ Len(s) \in Nat \ {0}
BY DEF Front, Cut

-----------------------------------------------------------------------------
Paths == Seq(Links)

(* The middle links among the first i links of a path: the letters of the  *)
(* current that prefixHelper is called with there.                         *)
Depth(p, i) == Cardinality({j \in 1 .. i : p[j] = "mChild"})

(* No letter is consumed at the root.                                      *)
LEMMA DepthStart == ASSUME NEW p PROVE Depth(p, 0) = 0
<1>1. {j \in 1 .. 0 : p[j] = "mChild"} = {}
  OBVIOUS
<1>. QED
  BY <1>1, FS_EmptySet DEF Depth

(* Only a middle link consumes a letter.                                   *)
LEMMA DepthNext ==
  ASSUME NEW p, NEW i \in Nat
  PROVE  /\ Depth(p, i) \in Nat
         /\ Depth(p, i + 1) = Depth(p, i) + (IF p[i + 1] = "mChild" THEN 1 ELSE 0)
<1> DEFINE S == {j \in 1 .. i : p[j] = "mChild"}
<1>1. IsFiniteSet(S)
  <2>1. IsFiniteSet(1 .. i) /\ S \in SUBSET (1 .. i)
    BY FS_Interval
  <2>. QED
    BY <2>1, FS_Subset
<1>2. Depth(p, i) \in Nat /\ Depth(p, i) = Cardinality(S)
  BY <1>1, FS_CardinalityType DEF Depth
<1>3. {j \in 1 .. i + 1 : p[j] = "mChild"} = IF p[i + 1] = "mChild" THEN S \cup {i + 1} ELSE S
  OBVIOUS
<1>4. i + 1 \notin S
  OBVIOUS
<1>5. Cardinality(S \cup {i + 1}) = Cardinality(S) + 1
  <2> HIDE DEF S
  <2>. QED
    BY <1>1, <1>4, FS_AddElement
<1>6. CASE p[i + 1] = "mChild"
  BY <1>2, <1>3, <1>5, <1>6 DEF Depth
<1>7. CASE p[i + 1] # "mChild"
  BY <1>2, <1>3, <1>7 DEF Depth
<1>. QED
  BY <1>6, <1>7

(* The letters consumed never shrink on the way down.                      *)
LEMMA DepthGrows ==
  ASSUME NEW p, NEW j \in Nat, NEW i \in 0 .. j
  PROVE  Depth(p, i) \in Nat /\ Depth(p, j) \in Nat /\ Depth(p, i) <= Depth(p, j)
<1> DEFINE P == {k \in 0 .. j - i : Depth(p, i) <= Depth(p, i + k)}
<1>1. 0 \in P
  BY DepthNext
<1>2. ASSUME NEW k \in 1 .. j - i, k - 1 \in P
      PROVE  k \in P
  <2>1. i + (k - 1) \in Nat /\ (i + (k - 1)) + 1 = i + k
    OBVIOUS
  <2>2. Depth(p, i + (k - 1)) \in Nat /\ Depth(p, i + (k - 1)) <= Depth(p, i + k)
    BY <2>1, DepthNext
  <2>3. i + k \in Nat /\ i \in Nat
    OBVIOUS
  <2>4. Depth(p, i + k) \in Nat /\ Depth(p, i) \in Nat
    BY <2>3, DepthNext
  <2>. QED
    BY <1>2, <2>2, <2>4
<1>3. 0 .. j - i \subseteq P
  <2>1. j - i \in Nat
    OBVIOUS
  <2> HIDE DEF P
  <2>. QED
    BY <1>1, <1>2, <2>1, Counting
<1>4. j - i \in P /\ i + (j - i) = j
  BY <1>3
<1>. QED
  BY <1>4, DepthNext

(* The depth depends on the links above only.                              *)
LEMMA DepthSame ==
  ASSUME NEW p, NEW q, NEW i \in Nat, \A j \in 1 .. i : p[j] = q[j]
  PROVE  Depth(p, i) = Depth(q, i)
<1>1. {j \in 1 .. i : p[j] = "mChild"} = {j \in 1 .. i : q[j] = "mChild"}
  OBVIOUS
<1>. QED
  BY <1>1 DEF Depth

(* Every letter of the current was appended at some middle link.           *)
LEMMA TurnExists ==
  ASSUME NEW p, NEW n \in Nat, NEW k \in 0 .. Depth(p, n) - 1
  PROVE  \E i \in 0 .. n - 1 : Depth(p, i) = k /\ p[i + 1] = "mChild"
<1> DEFINE P == {m \in 0 .. n : k < Depth(p, m) =>
                   \E i \in 0 .. m - 1 : Depth(p, i) = k /\ p[i + 1] = "mChild"}
<1>1. 0 \in P
  <2>1. k \in Nat
    BY DepthNext
  <2>2. Depth(p, 0) = 0
    BY DepthStart
  <2>. QED
    BY <2>1, <2>2
<1>2. ASSUME NEW m \in 1 .. n, m - 1 \in P
      PROVE  m \in P
  <2>1. SUFFICES ASSUME k < Depth(p, m)
                 PROVE  \E i \in 0 .. m - 1 : Depth(p, i) = k /\ p[i + 1] = "mChild"
    OBVIOUS
  <2>2. m - 1 \in Nat /\ (m - 1) + 1 = m
    OBVIOUS
  <2>3. /\ Depth(p, m - 1) \in Nat
        /\ Depth(p, m) = Depth(p, m - 1) + (IF p[m] = "mChild" THEN 1 ELSE 0)
    BY <2>2, DepthNext
  <2>4. CASE k < Depth(p, m - 1)
    <3>1. PICK i \in 0 .. m - 1 - 1 : Depth(p, i) = k /\ p[i + 1] = "mChild"
      BY <1>2, <2>4
    <3>2. i \in 0 .. m - 1
      OBVIOUS
    <3>. QED
      BY <3>1, <3>2
  <2>5. CASE ~(k < Depth(p, m - 1))
    <3>1. k \in Int
      BY DepthNext
    <3>2. p[m] = "mChild" /\ k = Depth(p, m - 1)
      BY <2>1, <2>3, <2>5, <3>1
    <3>3. m - 1 \in 0 .. m - 1 /\ p[(m - 1) + 1] = "mChild"
      BY <2>2, <3>2
    <3>. QED
      BY <3>2, <3>3
  <2>. QED
    BY <2>4, <2>5
<1>3. 0 .. n \subseteq P
  <2> HIDE DEF P
  <2>. QED
    BY <1>1, <1>2, Counting
<1>4. n \in P /\ k < Depth(p, n)
  <2>1. n \in 0 .. n /\ Depth(p, n) \in Nat
    BY DepthNext
  <2>. QED
    BY <1>3, <2>1
<1>. QED
  BY <1>4

(* A node on the way has the depth the way gives it there.                 *)
LEMMA DepthOfCut ==
  ASSUME NEW p \in Paths, NEW n \in 0 .. Len(p), NEW i \in 0 .. n
  PROVE  Depth(Cut(p, n), i) = Depth(p, i)
<1>1. \A j \in 1 .. i : Cut(p, n)[j] = p[j]
  BY CutProperties DEF Paths
<1>. QED
  BY <1>1, DepthSame

-----------------------------------------------------------------------------
TreeNodes == [data : Nat, marked : BOOLEAN]

IsTree(tree) ==
  /\ IsFiniteSet(DOMAIN tree) /\ DOMAIN tree \subseteq Paths
  /\ tree \in [DOMAIN tree -> TreeNodes]
  /\ \A p \in DOMAIN tree : p # <<>> => Front(p) \in DOMAIN tree

(* Every node above a node of the tree is in the tree.                     *)
LEMMA Ancestors ==
  ASSUME NEW tree, IsTree(tree), NEW p \in DOMAIN tree, NEW i \in 0 .. Len(p)
  PROVE  Cut(p, i) \in DOMAIN tree
<1> DEFINE P == {k \in 0 .. Len(p) : Cut(p, Len(p) - k) \in DOMAIN tree}
<1>1. p \in Paths /\ Len(p) \in Nat
  BY DEF IsTree, Paths
<1>2. 0 \in P
  <2>1. Cut(p, Len(p)) = p /\ Len(p) - 0 = Len(p)
    BY <1>1, CutAll DEF Paths
  <2>. QED
    BY <1>1, <2>1
<1>3. ASSUME NEW k \in 1 .. Len(p), k - 1 \in P
      PROVE  k \in P
  <2> DEFINE n == Len(p) - (k - 1)
             q == Cut(p, n)
  <2>1. n \in 1 .. Len(p) /\ n - 1 = Len(p) - k /\ q \in DOMAIN tree
    <3>1. q \in DOMAIN tree
      BY <1>3
    <3>2. n \in 1 .. Len(p) /\ n - 1 = Len(p) - k
      BY <1>1
    <3>. QED
      BY <3>1, <3>2
  <2>2. q \in Paths /\ Len(q) = n
    <3> HIDE DEF n
    <3>1. n \in 0 .. Len(p) /\ p \in Seq(Links)
      BY <1>1, <2>1 DEF Paths
    <3>. QED
      BY <3>1, CutProperties DEF Paths
  <2>3. Front(q) \in DOMAIN tree
    BY <2>1, <2>2 DEF IsTree
  <2>4. Cut(q, n - 1) = Cut(p, n - 1)
    <3>1. n \in 0 .. Len(p) /\ n - 1 \in 0 .. n
      BY <1>1, <2>1
    <3>. QED
      BY <1>1, <3>1, CutAgain DEF Paths
  <2>5. Front(q) = Cut(q, n - 1)
    <3>1. q # <<>>
      BY <2>1, <2>2
    <3>. QED
      BY <2>2, <3>1, FrontIsCut DEF Paths
  <2> HIDE DEF n, q
  <2>. QED
    BY <2>1, <2>3, <2>4, <2>5
<1>4. 0 .. Len(p) \subseteq P
  <2> HIDE DEF P
  <2>. QED
    BY <1>1, <1>2, <1>3, Counting
<1>5. Len(p) - i \in 0 .. Len(p) /\ Len(p) - (Len(p) - i) = i
  BY <1>1
<1>6. Len(p) - i \in P
  BY <1>4, <1>5
<1>. QED
  BY <1>5, <1>6

(* A pointer is reached through nodes only.                                *)
Reached(tree, q) ==
  q \in Paths /\ \A i \in 0 .. Len(q) - 1 : Cut(q, i) \in DOMAIN tree

(* The nodes above a pointer of the tree, null or not, are in the tree.    *)
LEMMA PointersReached ==
  ASSUME NEW tree, IsTree(tree), NEW q \in TreePointers(tree)
  PROVE  Reached(tree, q)
<1>1. CASE q = <<>>
  <2>1. q \in Paths /\ 0 .. Len(q) - 1 = {}
    BY <1>1 DEF Paths
  <2>. QED
    BY <2>1 DEF Reached
<1>2. ASSUME NEW p \in DOMAIN tree, NEW link \in Links, q = Append(p, link)
      PROVE  Reached(tree, q)
  <2>1. p \in Seq(Links)
    BY DEF IsTree, Paths
  <2>2. /\ q \in Seq(Links) /\ Len(q) = Len(p) + 1
        /\ \A n \in 0 .. Len(p) : Cut(q, n) = Cut(p, n)
    BY <1>2, <2>1, CutAppend
  <2>3. ASSUME NEW n \in 0 .. Len(q) - 1
        PROVE  Cut(q, n) \in DOMAIN tree
    <3>1. n \in 0 .. Len(p)
      BY <2>1, <2>2
    <3>2. Cut(p, n) \in DOMAIN tree
      BY <3>1, Ancestors
    <3>. QED
      BY <2>2, <3>1, <3>2
  <2>. QED
    BY <2>2, <2>3 DEF Reached, Paths
<1>. QED
  BY <1>1, <1>2 DEF TreePointers

(* A node of the tree is a pointer of the tree that is not null.           *)
LEMMA NodesArePointers ==
  ASSUME NEW tree, IsTree(tree), NEW p \in DOMAIN tree
  PROVE  p \in TreePointers(tree) /\ p \in Paths /\ Len(p) \in Nat
<1>1. p \in Seq(Links)
  BY DEF IsTree, Paths
<1>2. CASE p = <<>>
  BY <1>1, <1>2 DEF TreePointers, Paths
<1>3. CASE p # <<>>
  <2>1. Front(p) = Cut(p, Len(p) - 1) /\ Len(p) \in Nat \ {0}
    BY <1>1, <1>3, FrontIsCut
  <2>2. Len(p) \in 1 .. Len(p) /\ p[Len(p)] \in Links
    BY <1>1, <2>1
  <2>3. Append(Cut(p, Len(p) - 1), p[Len(p)]) = Cut(p, Len(p))
    BY <1>1, <2>2, CutNext
  <2>4. Cut(p, Len(p)) = p
    BY <1>1, CutAll
  <2>5. Front(p) \in DOMAIN tree
    BY <1>3 DEF IsTree
  <2>. QED
    BY <1>1, <2>1, <2>2, <2>3, <2>4, <2>5 DEF TreePointers, Paths
<1>. QED
  BY <1>2, <1>3

(* The prefixes of a path are different nodes, so it is not longer than    *)
(* there are nodes.                                                        *)
LEMMA PathBound ==
  ASSUME NEW tree, IsTree(tree), NEW q, Reached(tree, q)
  PROVE  Len(q) \in Nat /\ Cardinality(DOMAIN tree) \in Nat /\ Len(q) <= Cardinality(DOMAIN tree)
<1> DEFINE f == [i \in 0 .. Len(q) - 1 |-> Cut(q, i)]
<1>1. q \in Seq(Links) /\ Len(q) \in Nat
  BY DEF Reached, Paths
<1>2. f \in [0 .. Len(q) - 1 -> DOMAIN tree]
  BY DEF Reached
<1>3. ASSUME NEW i \in 0 .. Len(q) - 1, NEW j \in 0 .. Len(q) - 1, f[i] = f[j]
      PROVE  i = j
  <2>1. i \in 0 .. Len(q) /\ j \in 0 .. Len(q)
    BY <1>1
  <2>2. Len(Cut(q, i)) = i /\ Len(Cut(q, j)) = j
    BY <1>1, <2>1, CutProperties
  <2>. QED
    BY <1>3, <2>2
<1>4. f \in Injection(0 .. Len(q) - 1, DOMAIN tree)
  <2> HIDE DEF f
  <2>. QED
    BY <1>2, <1>3 DEF Injection, IsInjective
<1>5. IsFiniteSet(DOMAIN tree) /\ Cardinality(DOMAIN tree) \in Nat
  BY FS_CardinalityType DEF IsTree
<1>6. Cardinality(0 .. Len(q) - 1) <= Cardinality(DOMAIN tree)
  <2> HIDE DEF f
  <2>. QED
    BY <1>4, <1>5, FS_Injection
<1>7. Cardinality(0 .. Len(q) - 1) = Len(q)
  <2>1. 0 \in Int /\ Len(q) - 1 \in Int
    BY <1>1
  <2>2. Cardinality(0 .. Len(q) - 1) = IF 0 > Len(q) - 1 THEN 0 ELSE Len(q) - 1 - 0 + 1
    BY <2>1, FS_Interval
  <2>. QED
    BY <1>1, <2>2
<1>. QED
  BY <1>1, <1>5, <1>6, <1>7

-----------------------------------------------------------------------------
(* The i-th link of q is the one the way down for w takes.                 *)
Turn(tree, w, q, i) ==
  LET p == Cut(q, i - 1)
      c == w[Depth(q, i - 1) + 1]
  IN  /\ p \in DOMAIN tree
      /\ q[i] = "lChild" => c < tree[p].data
      /\ q[i] = "mChild" => c = tree[p].data
      /\ q[i] = "rChild" => c > tree[p].data

(* The way down for w passes q.                                            *)
Way(tree, w, q) ==
  Depth(q, Len(q)) < Len(w) /\ \A i \in 1 .. Len(q) : Turn(tree, w, q, i)

(* The word w ends at node q.                                              *)
Spells(tree, q, w) ==
  /\ q \in DOMAIN tree /\ w \in Word /\ Way(tree, w, q)
  /\ Len(w) = Depth(q, Len(q)) + 1 /\ w[Len(w)] = tree[q].data

(* The way down for a word, stopped early, is a way down for it.           *)
LEMMA WayCut ==
  ASSUME NEW tree, NEW w \in Word, NEW q \in Paths, NEW n \in 0 .. Len(q), Way(tree, w, q)
  PROVE  /\ Way(tree, w, Cut(q, n)) /\ Cut(q, n) \in Paths
         /\ Len(Cut(q, n)) = n /\ Depth(Cut(q, n), n) = Depth(q, n)
<1> DEFINE p == Cut(q, n)
<1>1. p \in Paths /\ Len(p) = n /\ \A i \in 1 .. n : p[i] = q[i]
  BY CutProperties DEF Paths
<1>2. \A i \in 0 .. n : Depth(p, i) = Depth(q, i) /\ Cut(p, i) = Cut(q, i)
  BY DepthOfCut, CutAgain DEF Paths
<1>3. ASSUME NEW i \in 1 .. n
      PROVE  Turn(tree, w, p, i)
  <2>1. i \in 1 .. Len(q) /\ i - 1 \in 0 .. n
    BY DEF Paths
  <2>2. Turn(tree, w, q, i)
    BY <2>1 DEF Way
  <2>3. p[i] = q[i] /\ Depth(p, i - 1) = Depth(q, i - 1) /\ Cut(p, i - 1) = Cut(q, i - 1)
    BY <1>1, <1>2, <2>1
  <2> HIDE DEF p
  <2>. QED
    BY <2>2, <2>3 DEF Turn
<1>4. Depth(p, n) = Depth(q, n) /\ Depth(p, n) < Len(w)
  <2>1. n \in 0 .. n /\ Len(q) \in Nat /\ Len(w) \in Nat
    BY DEF Paths, Word
  <2>2. /\ Depth(q, n) \in Nat /\ Depth(q, Len(q)) \in Nat
        /\ Depth(q, n) <= Depth(q, Len(q))
    BY <2>1, DepthGrows
  <2>3. Depth(p, n) = Depth(q, n) /\ Depth(q, Len(q)) < Len(w)
    BY <1>2, <2>1 DEF Way
  <2> HIDE DEF p
  <2>. QED
    BY <2>1, <2>2, <2>3
<1> HIDE DEF p
<1>5. Way(tree, w, p)
  BY <1>1, <1>3, <1>4 DEF Way
<1>. QED
  BY <1>1, <1>4, <1>5 DEF p

(* It is the way down for a shorter word as well, as long as that word     *)
(* has letters left.                                                       *)
LEMMA WayShorter ==
  ASSUME NEW tree, NEW w \in Word, NEW q \in Paths, Way(tree, w, q),
         NEW m \in 0 .. Len(w), Depth(q, Len(q)) < m
  PROVE  Way(tree, Cut(w, m), q)
<1>1. Len(q) \in Nat /\ Depth(q, Len(q)) \in Nat
  BY DepthNext DEF Paths
<1>2. Len(Cut(w, m)) = m /\ \A k \in 1 .. m : Cut(w, m)[k] = w[k]
  BY CutProperties DEF Word
<1>3. ASSUME NEW i \in 1 .. Len(q)
      PROVE  Turn(tree, Cut(w, m), q, i)
  <2>1. Turn(tree, w, q, i)
    BY DEF Way
  <2>2. Depth(q, i - 1) \in Nat /\ Depth(q, i - 1) <= Depth(q, Len(q))
    <3>1. i - 1 \in 0 .. Len(q)
      BY <1>1
    <3>. QED
      BY <1>1, <3>1, DepthGrows
  <2>3. Depth(q, i - 1) + 1 \in 1 .. m
    BY <1>1, <2>2
  <2>. QED
    BY <1>2, <2>1, <2>3 DEF Turn
<1>. QED
  BY <1>2, <1>3 DEF Way

(* Only the data on the way matters.                                       *)
LEMMA WayFrame ==
  ASSUME NEW tree, NEW w, NEW q \in Paths, Way(tree, w, q), NEW other,
         \A i \in 0 .. Len(q) - 1 :
           Cut(q, i) \in DOMAIN other /\ other[Cut(q, i)].data = tree[Cut(q, i)].data
  PROVE  Way(other, w, q)
<1>1. ASSUME NEW i \in 1 .. Len(q)
      PROVE  Turn(other, w, q, i)
  <2>1. Turn(tree, w, q, i) /\ i - 1 \in 0 .. Len(q) - 1
    BY DEF Way, Paths
  <2>2. Cut(q, i - 1) \in DOMAIN other /\ other[Cut(q, i - 1)].data = tree[Cut(q, i - 1)].data
    BY <2>1
  <2>. QED
    BY <2>1, <2>2 DEF Turn
<1>. QED
  BY <1>1 DEF Way

(* A link taken as the word's next letter compares continues the way.      *)
LEMMA WayNext ==
  ASSUME NEW tree, NEW w \in Word, NEW p \in Paths, Way(tree, w, p), NEW link \in Links,
         Turn(tree, w, Append(p, link), Len(p) + 1),
         link = "mChild" => Depth(p, Len(p)) + 1 < Len(w)
  PROVE  Way(tree, w, Append(p, link))
<1> DEFINE q == Append(p, link)
<1>1. /\ p \in Seq(Links) /\ q \in Seq(Links) /\ Len(p) \in Nat /\ Len(q) = Len(p) + 1
      /\ q[Len(p) + 1] = link
      /\ \A n \in 0 .. Len(p) : Cut(q, n) = Cut(p, n)
      /\ \A i \in 1 .. Len(p) : q[i] = p[i]
  BY CutAppend DEF Paths
<1>2. \A i \in 0 .. Len(p) : Depth(q, i) = Depth(p, i)
  <2> HIDE DEF q
  <2>1. \A i \in 0 .. Len(p) : \A j \in 1 .. i : q[j] = p[j]
    BY <1>1
  <2>. QED
    BY <1>1, <2>1, DepthSame
<1>3. ASSUME NEW i \in 1 .. Len(p)
      PROVE  Turn(tree, w, q, i)
  <2>1. Turn(tree, w, p, i) /\ i - 1 \in 0 .. Len(p)
    BY <1>1 DEF Way
  <2>2. Cut(q, i - 1) = Cut(p, i - 1) /\ q[i] = p[i] /\ Depth(q, i - 1) = Depth(p, i - 1)
    BY <1>1, <1>2, <2>1
  <2> HIDE DEF q
  <2>. QED
    BY <2>1, <2>2 DEF Turn
<1>4. Depth(q, Len(q)) < Len(w)
  <2> HIDE DEF q
  <2>1. /\ Depth(q, Len(p)) \in Nat
        /\ Depth(q, Len(p) + 1) = Depth(q, Len(p)) + (IF q[Len(p) + 1] = "mChild" THEN 1 ELSE 0)
    BY <1>1, DepthNext
  <2>2. Depth(q, Len(p)) = Depth(p, Len(p)) /\ Depth(p, Len(p)) < Len(w)
    BY <1>1, <1>2 DEF Way
  <2>. QED
    BY <1>1, <2>1, <2>2
<1> HIDE DEF q
<1>5. Turn(tree, w, q, Len(p) + 1)
  BY DEF q
<1>6. \A i \in 1 .. Len(q) : i \in 1 .. Len(p) \/ i = Len(p) + 1
  BY <1>1
<1>7. Way(tree, w, q)
  BY <1>3, <1>4, <1>5, <1>6 DEF Way
<1>. QED
  BY <1>7 DEF q

(* What each link of the way says of the word's letter and the node's.     *)
LEMMA TurnAt ==
  ASSUME NEW tree, NEW w, NEW q, NEW i \in Nat, Turn(tree, w, q, i + 1)
  PROVE  /\ Cut(q, i) \in DOMAIN tree
         /\ q[i + 1] = "lChild" => w[Depth(q, i) + 1] < tree[Cut(q, i)].data
         /\ q[i + 1] = "mChild" => w[Depth(q, i) + 1] = tree[Cut(q, i)].data
         /\ q[i + 1] = "rChild" => w[Depth(q, i) + 1] > tree[Cut(q, i)].data
<1>1. (i + 1) - 1 = i
  OBVIOUS
<1>. QED
  BY <1>1 DEF Turn

(* The way has a letter of the word left at every node on it.              *)
LEMMA LetterThere ==
  ASSUME NEW tree, NEW w \in Word, NEW q \in Paths, Way(tree, w, q), NEW i \in 0 .. Len(q)
  PROVE  /\ Depth(q, i) \in Nat /\ Depth(q, i) + 1 \in 1 .. Len(w)
         /\ w[Depth(q, i) + 1] \in Nat
<1>1. Len(q) \in Nat /\ Len(w) \in Nat /\ Depth(q, Len(q)) < Len(w)
  BY DEF Paths, Word, Way
<1>2. Depth(q, i) \in Nat /\ Depth(q, Len(q)) \in Nat /\ Depth(q, i) <= Depth(q, Len(q))
  BY <1>1, DepthGrows
<1>3. Depth(q, i) + 1 \in 1 .. Len(w)
  BY <1>1, <1>2
<1>. QED
  BY <1>2, <1>3 DEF Word

(* What a node holds.                                                      *)
LEMMA NodeType ==
  ASSUME NEW tree, IsTree(tree), NEW p \in DOMAIN tree
  PROVE  tree[p].data \in Nat /\ tree[p].marked \in BOOLEAN /\ p \in Paths
BY DEF IsTree, TreeNodes

(* There is one way down for a word.                                       *)
LEMMA WayForks ==
  ASSUME NEW tree, IsTree(tree), NEW w \in Word,
         NEW p \in Paths, Way(tree, w, p), NEW q \in Paths, Way(tree, w, q),
         NEW n \in 0 .. Len(p), n <= Len(q)
  PROVE  \A j \in 1 .. n : p[j] = q[j]
<1> DEFINE P == {k \in 0 .. n : \A j \in 1 .. k : p[j] = q[j]}
<1>1. Len(p) \in Nat /\ Len(q) \in Nat
  BY DEF Paths
<1>2. 0 \in P
  OBVIOUS
<1>3. ASSUME NEW k \in 1 .. n, k - 1 \in P
      PROVE  k \in P
  <2>1. \A j \in 1 .. k - 1 : p[j] = q[j]
    BY <1>3
  <2>2. /\ k - 1 \in 0 .. Len(p) /\ k - 1 <= Len(q) /\ k - 1 \in Nat
        /\ k \in 1 .. Len(p) /\ k \in 1 .. Len(q)
    BY <1>1
  <2>3. Cut(p, k - 1) = Cut(q, k - 1)
    BY <2>1, <2>2, CutSame DEF Paths
  <2>4. Depth(p, k - 1) = Depth(q, k - 1)
    BY <2>1, <2>2, DepthSame
  <2>5. Turn(tree, w, p, k) /\ Turn(tree, w, q, k)
    BY <2>2 DEF Way
  <2>6. w[Depth(p, k - 1) + 1] \in Nat
    BY <2>2, LetterThere
  <2>7. Cut(p, k - 1) \in DOMAIN tree
    BY <2>5 DEF Turn
  <2>8. tree[Cut(p, k - 1)].data \in Nat
    BY <2>7, NodeType
  <2>9. p[k] \in Links /\ q[k] \in Links
    BY <2>2 DEF Paths
  <2>10. p[k] = q[k]
    BY <2>3, <2>4, <2>5, <2>6, <2>8, <2>9 DEF Turn, Links
  <2>11. \A j \in 1 .. k : j \in 1 .. k - 1 \/ j = k
    OBVIOUS
  <2>. QED
    BY <2>1, <2>10, <2>11
<1>4. 0 .. n \subseteq P
  <2>1. n \in Nat
    OBVIOUS
  <2> HIDE DEF P
  <2>. QED
    BY <1>2, <1>3, <2>1, Counting
<1>. QED
  BY <1>4

(* And one place where it ends.                                            *)
LEMMA WayEnds ==
  ASSUME NEW tree, IsTree(tree), NEW w, NEW q, Spells(tree, q, w),
         NEW p \in Paths, Way(tree, w, p),
         p \in DOMAIN tree => Len(w) = Depth(p, Len(p)) + 1 /\ w[Len(w)] = tree[p].data
  PROVE  p = q
<1>1. /\ w \in Word /\ q \in Paths /\ q \in DOMAIN tree /\ Way(tree, w, q)
      /\ Len(w) = Depth(q, Len(q)) + 1 /\ w[Len(w)] = tree[q].data
  BY NodeType DEF Spells
<1>2. Len(p) \in Nat /\ Len(q) \in Nat
  BY <1>1 DEF Paths
<1>3. CASE Len(p) < Len(q)
  <2> DEFINE n == Len(p)
  <2>1. n \in 0 .. Len(p) /\ n \in 0 .. Len(q) /\ n <= Len(q) /\ n + 1 \in 1 .. Len(q) /\ n + 1 - 1 = n
    BY <1>2, <1>3
  <2>2. \A j \in 1 .. n : p[j] = q[j]
    BY <1>1, <2>1, WayForks
  <2>3. Cut(p, n) = Cut(q, n) /\ Cut(p, n) = p
    BY <1>1, <2>1, <2>2, CutSame, CutAll DEF Paths
  <2>4. Depth(p, n) = Depth(q, n)
    BY <1>2, <2>2, DepthSame
  <2>5. Turn(tree, w, q, n + 1)
    BY <1>1, <2>1 DEF Way
  <2>6. p \in DOMAIN tree
    BY <1>2, <2>3, <2>5, TurnAt
  <2>7. Len(w) = Depth(p, n) + 1 /\ w[Len(w)] = tree[p].data
    BY <2>6
  <2>8. Depth(q, n) \in Nat /\ Depth(q, n + 1) = Depth(q, n) + (IF q[n + 1] = "mChild" THEN 1 ELSE 0)
    BY <1>2, DepthNext
  <2>9. Depth(q, n + 1) \in Nat /\ Depth(q, Len(q)) \in Nat /\ Depth(q, n + 1) <= Depth(q, Len(q))
    <3>1. n + 1 \in 0 .. Len(q)
      BY <1>2, <1>3
    <3>. QED
      BY <1>2, <3>1, DepthGrows
  <2>10. q[n + 1] # "mChild"
    BY <1>1, <2>4, <2>7, <2>8, <2>9
  <2>11. q[n + 1] \in Links
    BY <1>1, <2>1 DEF Paths
  <2>12. tree[p].data \in Nat
    BY <2>6, NodeType
  <2>13. w[Depth(q, n) + 1] = tree[p].data /\ Cut(q, n) = p
    BY <2>3, <2>4, <2>7
  <2>14. n \in Nat
    BY <1>2
  <2> HIDE DEF n
  <2>15. /\ q[n + 1] = "lChild" => w[Depth(q, n) + 1] < tree[p].data
         /\ q[n + 1] = "rChild" => w[Depth(q, n) + 1] > tree[p].data
    BY <2>5, <2>13, <2>14, TurnAt
  <2>. QED
    BY <2>10, <2>11, <2>12, <2>13, <2>15 DEF Links
<1>4. CASE Len(q) < Len(p)
  <2> DEFINE n == Len(q)
  <2>1. n \in 0 .. Len(q) /\ n \in 0 .. Len(p) /\ n <= Len(p) /\ n + 1 \in 1 .. Len(p) /\ n + 1 - 1 = n
    BY <1>2, <1>4
  <2>2. \A j \in 1 .. n : q[j] = p[j]
    BY <1>1, <2>1, WayForks
  <2>3. Cut(q, n) = Cut(p, n) /\ Cut(q, n) = q
    BY <1>1, <2>1, <2>2, CutSame, CutAll DEF Paths
  <2>4. Depth(q, n) = Depth(p, n)
    BY <1>2, <2>2, DepthSame
  <2>5. Turn(tree, w, p, n + 1)
    BY <2>1 DEF Way
  <2>6. Depth(p, n) \in Nat /\ Depth(p, n + 1) = Depth(p, n) + (IF p[n + 1] = "mChild" THEN 1 ELSE 0)
    BY <1>2, DepthNext
  <2>7. Depth(p, n + 1) \in Nat /\ Depth(p, n + 1) + 1 \in 1 .. Len(w) /\ Len(w) \in Nat
    <3>1. n + 1 \in 0 .. Len(p) /\ Len(w) \in Nat
      BY <1>1, <1>2, <1>4 DEF Word
    <3>. QED
      BY <1>1, <3>1, LetterThere
  <2>8. p[n + 1] # "mChild"
    BY <1>1, <2>4, <2>6, <2>7
  <2>9. p[n + 1] \in Links
    BY <2>1 DEF Paths
  <2>10. tree[q].data \in Nat
    BY <1>1, NodeType
  <2> HIDE DEF n
  <2>11. w[Depth(p, n) + 1] = tree[q].data
    BY <1>1, <2>4 DEF n
  <2>12. Cut(p, n) = q /\ n \in Nat
    BY <1>2, <2>3 DEF n
  <2>13. /\ p[n + 1] = "lChild" => w[Depth(p, n) + 1] < tree[q].data
         /\ p[n + 1] = "rChild" => w[Depth(p, n) + 1] > tree[q].data
    BY <2>5, <2>12, TurnAt
  <2>. QED
    BY <2>8, <2>9, <2>10, <2>11, <2>13 DEF Links
<1>5. CASE Len(p) = Len(q)
  <2>1. \A j \in 1 .. Len(p) : p[j] = q[j]
    <3>1. Len(p) \in 0 .. Len(p) /\ Len(p) <= Len(q)
      BY <1>2, <1>5
    <3>. QED
      BY <1>1, <3>1, WayForks
  <2>. QED
    BY <1>1, <1>5, <2>1, SameSequence DEF Paths
<1>. QED
  BY <1>2, <1>3, <1>4, <1>5

(* A node ends one word.                                                   *)
LEMMA OneWord ==
  ASSUME NEW tree, IsTree(tree), NEW w, NEW v, NEW q, Spells(tree, q, w), Spells(tree, q, v)
  PROVE  w = v
<1>1. /\ q \in Paths /\ w \in Word /\ v \in Word /\ Way(tree, w, q) /\ Way(tree, v, q)
      /\ Len(w) = Depth(q, Len(q)) + 1 /\ w[Len(w)] = tree[q].data
      /\ Len(v) = Depth(q, Len(q)) + 1 /\ v[Len(v)] = tree[q].data
  BY NodeType DEF Spells
<1>2. ASSUME NEW k \in 1 .. Len(w)
      PROVE  w[k] = v[k]
  <2>1. CASE k = Len(w)
    BY <1>1, <2>1
  <2>2. CASE k # Len(w)
    <3>1. Len(q) \in Nat /\ Depth(q, Len(q)) \in Nat
      BY <1>1, DepthNext DEF Paths
    <3>2. k - 1 \in 0 .. Depth(q, Len(q)) - 1
      BY <1>1, <2>2, <3>1
    <3>3. PICK i \in 0 .. Len(q) - 1 : Depth(q, i) = k - 1 /\ q[i + 1] = "mChild"
      BY <3>1, <3>2, TurnExists
    <3>4. i + 1 \in 1 .. Len(q) /\ i + 1 - 1 = i /\ k - 1 + 1 = k
      BY <3>1
    <3>5. Turn(tree, w, q, i + 1) /\ Turn(tree, v, q, i + 1) /\ i \in Nat
      BY <1>1, <3>4 DEF Way
    <3>6. Depth(q, i) + 1 = k
      BY <3>3
    <3>7. /\ w[Depth(q, i) + 1] = tree[Cut(q, i)].data
          /\ v[Depth(q, i) + 1] = tree[Cut(q, i)].data
      BY <3>3, <3>5, TurnAt
    <3>. QED
      BY <3>6, <3>7
  <2>. QED
    BY <2>1, <2>2
<1>. QED
  BY <1>1, <1>2, SameSequence DEF Word

(* At each middle link a prefix of the word ends.                          *)
LEMMA TurnSpells ==
  ASSUME NEW tree, IsTree(tree), NEW w, NEW q, Spells(tree, q, w),
         NEW i \in 0 .. Len(q) - 1, q[i + 1] = "mChild"
  PROVE  /\ Depth(q, i) + 1 \in 1 .. Len(w) - 1
         /\ Spells(tree, Cut(q, i), Cut(w, Depth(q, i) + 1))
         /\ w[Depth(q, i) + 1] = tree[Cut(q, i)].data
<1> DEFINE m == Depth(q, i) + 1
           p == Cut(q, i)
           v == Cut(w, m)
<1>1. /\ q \in Paths /\ w \in Word /\ Way(tree, w, q) /\ Len(w) = Depth(q, Len(q)) + 1
      /\ Len(q) \in Nat /\ Len(w) \in Nat
  BY NodeType DEF Spells, Paths, Word
<1>2. i \in 0 .. Len(q) /\ i \in Nat /\ i + 1 \in 0 .. Len(q) /\ i + 1 \in 1 .. Len(q) /\ i + 1 - 1 = i
  BY <1>1
<1>3. m \in 1 .. Len(w) - 1 /\ m \in 0 .. Len(w)
  <2>1. Depth(q, i) \in Nat /\ Depth(q, i + 1) = Depth(q, i) + 1
    BY <1>2, DepthNext
  <2>2. Depth(q, Len(q)) \in Nat /\ Depth(q, i + 1) <= Depth(q, Len(q))
    BY <1>1, <1>2, DepthGrows
  <2>. QED
    BY <1>1, <2>1, <2>2
<1>4. Turn(tree, w, q, i + 1)
  BY <1>1, <1>2 DEF Way
<1>5. p \in DOMAIN tree /\ w[m] = tree[p].data
  BY <1>2, <1>4, TurnAt
<1>6. Way(tree, w, p) /\ p \in Paths /\ Len(p) = i /\ Depth(p, i) = Depth(q, i)
  BY <1>1, <1>2, WayCut
<1>7. v \in Word /\ Len(v) = m /\ v[m] = w[m]
  <2> HIDE DEF m
  <2>1. w \in Seq(Nat) /\ m \in 1 .. m
    BY <1>1, <1>3 DEF Word
  <2>2. /\ Cut(w, m) \in Seq(Nat) /\ Len(Cut(w, m)) = m
        /\ \A k \in 1 .. m : Cut(w, m)[k] = w[k]
    BY <1>3, <2>1, CutProperties
  <2>. QED
    BY <2>1, <2>2 DEF Word
<1>8. Way(tree, v, p)
  <2>1. Depth(p, Len(p)) < m
    BY <1>2, <1>6, DepthNext
  <2> HIDE DEF m, p
  <2>. QED
    BY <1>1, <1>3, <1>6, <2>1, WayShorter
<1>9. Depth(p, Len(p)) + 1 = m
  BY <1>6
<1> HIDE DEF m, p, v
<1>10. Spells(tree, p, v)
  BY <1>5, <1>6, <1>7, <1>8, <1>9 DEF Spells
<1>. QED
  BY <1>3, <1>5, <1>10 DEF m, p, v

(* Every prefix of a word ends at a node on the way to it.                 *)
LEMMA PrefixNode ==
  ASSUME NEW tree, IsTree(tree), NEW w, NEW q, Spells(tree, q, w), NEW m \in 1 .. Len(w) - 1
  PROVE  \E i \in 0 .. Len(q) - 1 :
           Spells(tree, Cut(q, i), Cut(w, m)) /\ Depth(q, i) + 1 = m /\ q[i + 1] = "mChild"
<1>1. q \in Paths /\ Len(w) = Depth(q, Len(q)) + 1 /\ Len(q) \in Nat /\ Len(w) \in Nat
  BY NodeType DEF Spells, Paths, Word
<1>2. m - 1 \in 0 .. Depth(q, Len(q)) - 1
  BY <1>1, DepthNext
<1>3. PICK i \in 0 .. Len(q) - 1 : Depth(q, i) = m - 1 /\ q[i + 1] = "mChild"
  BY <1>1, <1>2, TurnExists
<1>4. Depth(q, i) + 1 = m
  BY <1>3
<1>5. Spells(tree, Cut(q, i), Cut(w, Depth(q, i) + 1))
  BY <1>3, TurnSpells
<1>. QED
  BY <1>3, <1>4, <1>5

-----------------------------------------------------------------------------
DescentStates == [at : Paths, rest : Word \ {<<>>}]

(* A step of the walk for a key stays among the walk's states.             *)
LEMMA DescentStepType ==
  ASSUME NEW tree, IsTree(tree), NEW s \in DescentStates
  PROVE  DescentStep(tree, s) \in DescentStates
<1>1. /\ s.at \in Seq(Links) /\ s.rest \in Seq(Nat) /\ s.rest # <<>>
      /\ s = [at |-> s.at, rest |-> s.rest]
  BY DEF DescentStates, Paths, Word
<1>2. \A link \in Links : Append(s.at, link) \in Seq(Links)
  BY <1>1
<1>3. "lChild" \in Links /\ "mChild" \in Links /\ "rChild" \in Links
  BY DEF Links
<1>4. CASE AtEnd(tree, s)
  BY <1>4 DEF DescentStep
<1>5. CASE ~AtEnd(tree, s)
  <2>1. s.at \in DOMAIN tree /\ ~(Len(s.rest) = 1 /\ Head(s.rest) = tree[s.at].data)
    BY <1>5 DEF AtEnd
  <2>2. Head(s.rest) \in Nat /\ tree[s.at].data \in Nat
    BY <1>1, <2>1, NodeType
  <2>3. CASE Head(s.rest) < tree[s.at].data
    <3>1. DescentStep(tree, s) = Descent(Append(s.at, "lChild"), s.rest)
      BY <1>5, <2>2, <2>3 DEF DescentStep
    <3>. QED
      BY <1>1, <1>2, <1>3, <3>1 DEF Descent, DescentStates, Paths, Word
  <2>4. CASE Head(s.rest) > tree[s.at].data
    <3>1. DescentStep(tree, s) = Descent(Append(s.at, "rChild"), s.rest)
      BY <1>5, <2>2, <2>4 DEF DescentStep
    <3>. QED
      BY <1>1, <1>2, <1>3, <3>1 DEF Descent, DescentStates, Paths, Word
  <2>5. CASE Head(s.rest) = tree[s.at].data
    <3>1. DescentStep(tree, s) = Descent(Append(s.at, "mChild"), Tail(s.rest))
      BY <1>5, <2>2, <2>5 DEF DescentStep
    <3>2. Tail(s.rest) \in Seq(Nat) /\ Len(Tail(s.rest)) = Len(s.rest) - 1 /\ Len(s.rest) \in Nat \ {0}
      BY <1>1
    <3>3. Len(s.rest) # 1
      BY <2>1, <2>5
    <3>4. Len(Tail(s.rest)) # 0
      <4> DEFINE t == Tail(s.rest)
                 l == Len(s.rest)
      <4>1. Len(t) = l - 1 /\ l \in Nat /\ l # 1
        BY <3>2, <3>3
      <4> HIDE DEF t, l
      <4>2. Len(t) # 0
        BY <4>1
      <4>. QED
        BY <4>2 DEF t
    <3>5. Tail(s.rest) # <<>>
      <4>1. Len(<<>>) = 0
        OBVIOUS
      <4>. QED
        BY <3>4, <4>1, Zenon
    <3>. QED
      BY <1>2, <1>3, <3>1, <3>2, <3>5 DEF Descent, DescentStates, Paths, Word
  <2>. QED
    BY <2>2, <2>3, <2>4, <2>5
<1>. QED
  BY <1>4, <1>5

(* The walk is defined by its recursion, one step after the other.         *)
LEMMA DescendUnrolls ==
  ASSUME NEW tree, IsTree(tree), NEW key \in Word, key # <<>>
  PROVE  /\ Cardinality(DOMAIN tree) \in Nat
         /\ Descend(tree, key) \in [0 .. Cardinality(DOMAIN tree) -> DescentStates]
         /\ Descend(tree, key)[0] = Descent(<<>>, key)
         /\ \A k \in 1 .. Cardinality(DOMAIN tree) :
              Descend(tree, key)[k] = DescentStep(tree, Descend(tree, key)[k - 1])
<1> DEFINE n == Cardinality(DOMAIN tree)
           start == Descent(<<>>, key)
           step == [k \in 1 .. n |-> [s \in DescentStates |-> DescentStep(tree, s)]]
           Eq(g) == [k \in 0 .. n |-> IF k = 0 THEN start ELSE DescentStep(tree, g[k - 1])]
           after == CHOOSE g : g = Eq(g)
<1>1. Descend(tree, key) = after
  BY DEF Descend
<1>2. n \in Nat /\ start \in DescentStates
  BY FS_CardinalityType DEF IsTree, Descent, DescentStates, Paths
<1>3. step \in [1 .. n -> [DescentStates -> DescentStates]]
  BY DescentStepType
<1>4. PICK g \in [0 .. n -> DescentStates] : Unrolls(g, n, start, step)
  <2> HIDE DEF n, step, start
  <2>. QED
    BY <1>2, <1>3, LoopExists
<1> HIDE DEF n, start
<1>5. \A k \in 1 .. n : g[k - 1] \in DescentStates
  BY <1>2
<1>6. g = Eq(g)
  <2>1. \A k \in 0 .. n : k # 0 => k \in 1 .. n
    BY <1>2
  <2>2. \A k \in 1 .. n : step[k][g[k - 1]] = DescentStep(tree, g[k - 1])
    BY <1>5
  <2>3. \A k \in 0 .. n : g[k] = Eq(g)[k]
    BY <1>4, <2>1, <2>2 DEF Unrolls
  <2>. QED
    BY <1>4, <2>3 DEF Unrolls
<1>7. after = Eq(after)
  BY <1>6
<1> HIDE DEF after
<1>8. after[0] = start /\ \A k \in 1 .. n : after[k] = DescentStep(tree, after[k - 1])
  BY <1>2, <1>7
<1>9. 0 .. n \subseteq {k \in 0 .. n : after[k] \in DescentStates}
  <2> DEFINE P == {k \in 0 .. n : after[k] \in DescentStates}
  <2>1. 0 \in P
    BY <1>2, <1>8
  <2>2. \A k \in 1 .. n : k - 1 \in P => k \in P
    BY <1>2, <1>8, DescentStepType
  <2>3. 0 .. n \subseteq P
    <3> HIDE DEF P
    <3>. QED
      BY <1>2, <2>1, <2>2, Counting
  <2>. QED
    BY <2>3
<1>10. after \in [0 .. n -> DescentStates]
  BY <1>7, <1>9
<1>. QED
  BY <1>1, <1>2, <1>8, <1>10 DEF n, start

(* After k passes: what is left is what the way has not spelled, and the   *)
(* way has k links unless it has ended.                                    *)
DescentInv(tree, key, k, s) ==
  /\ s \in DescentStates /\ Reached(tree, s.at) /\ Way(tree, key, s.at)
  /\ Len(s.rest) = Len(key) - Depth(s.at, Len(s.at))
  /\ \A i \in 1 .. Len(s.rest) : s.rest[i] = key[Depth(s.at, Len(s.at)) + i]
  /\ AtEnd(tree, s) \/ Len(s.at) = k

(* A step of the walk keeps its invariant while it is not at its end.      *)
LEMMA DescentKeeps ==
  ASSUME NEW tree, IsTree(tree), NEW key \in Word, NEW k \in Nat \ {0}, NEW s,
         DescentInv(tree, key, k - 1, s), ~AtEnd(tree, s)
  PROVE  DescentInv(tree, key, k, DescentStep(tree, s))
<1> DEFINE at == s.at
           rest == s.rest
           n == Len(at)
           d == Depth(at, n)
           data == tree[at].data
<1>1. /\ at \in Seq(Links) /\ n \in Nat /\ n = k - 1 /\ rest \in Seq(Nat) /\ rest # <<>>
      /\ at \in DOMAIN tree /\ data \in Nat
      /\ ~(Len(rest) = 1 /\ Head(rest) = data)
  BY NodeType DEF DescentInv, DescentStates, Paths, Word, AtEnd
<1>2. /\ d \in Nat /\ Len(key) \in Nat /\ Len(rest) = Len(key) - d /\ Len(rest) \in Nat \ {0}
      /\ \A i \in 1 .. Len(rest) : rest[i] = key[d + i]
      /\ Way(tree, key, at) /\ Reached(tree, at)
  <2>1. d \in Nat
    BY <1>1, DepthNext
  <2>2. Len(rest) \in Nat \ {0}
    BY <1>1
  <2>. QED
    BY <2>1, <2>2 DEF DescentInv, Word
<1>3. Head(rest) = key[d + 1] /\ Head(rest) \in Nat
  BY <1>1, <1>2
<1>4. DescentStep(tree, s) \in DescentStates
  BY DescentStepType DEF DescentInv
<1>5. ASSUME NEW link \in Links, NEW m \in 0 .. 1,
             link = "lChild" => Head(rest) < data /\ m = 0,
             link = "mChild" => Head(rest) = data /\ m = 1,
             link = "rChild" => Head(rest) > data /\ m = 0,
             DescentStep(tree, s).at = Append(at, link),
             Len(DescentStep(tree, s).rest) = Len(rest) - m,
             \A i \in 1 .. Len(rest) - m : DescentStep(tree, s).rest[i] = rest[i + m]
      PROVE  DescentInv(tree, key, k, DescentStep(tree, s))
  <2> DEFINE q == Append(at, link)
             t == DescentStep(tree, s)
  <2>1. /\ q \in Seq(Links) /\ Len(q) = n + 1 /\ q[n + 1] = link
        /\ \A i \in 0 .. n : Cut(q, i) = Cut(at, i)
        /\ Cut(q, n) = at
        /\ \A i \in 1 .. n : q[i] = at[i]
    BY <1>1, CutAppend
  <2>2. Depth(q, n) = d
    <3> HIDE DEF q
    <3>1. Depth(q, n) = Depth(at, n)
      BY <1>1, <2>1, DepthSame
    <3>. QED
      BY <3>1
  <2>3. Depth(q, Len(q)) = d + m
    <3> HIDE DEF q
    <3>1. Depth(q, n + 1) = Depth(q, n) + (IF q[n + 1] = "mChild" THEN 1 ELSE 0)
      BY <1>1, DepthNext
    <3>. QED
      BY <1>5, <2>1, <2>2, <3>1 DEF Links
  <2>4. Turn(tree, key, q, n + 1)
    <3> HIDE DEF q, d, at, rest, data, n
    <3>1. n + 1 - 1 = n
      BY <1>1
    <3>2. Cut(q, n + 1 - 1) = at /\ Depth(q, n + 1 - 1) = d
      BY <2>1, <2>2, <3>1
    <3>. QED
      BY <1>1, <1>3, <1>5, <2>1, <3>2 DEF Turn, data
  <2>5. link = "mChild" => d + 1 < Len(key)
    BY <1>1, <1>2, <1>5
  <2>6. Way(tree, key, q)
    <3>1. Turn(tree, key, Append(at, link), Len(at) + 1)
      BY <2>4
    <3>. QED
      BY <1>1, <1>2, <2>5, <3>1, WayNext DEF Paths
  <2>7. Reached(tree, q)
    <3>1. ASSUME NEW i \in 0 .. Len(q) - 1
          PROVE  Cut(q, i) \in DOMAIN tree
      <4> HIDE DEF q
      <4>1. i \in 0 .. n /\ (i \in 0 .. n - 1 \/ i = n)
        BY <1>1, <2>1
      <4>2. CASE i = n
        BY <1>1, <2>1, <4>2
      <4>3. CASE i \in 0 .. n - 1
        BY <1>2, <2>1, <4>1, <4>3 DEF Reached
      <4>. QED
        BY <4>1, <4>2, <4>3
    <3>. QED
      BY <2>1, <3>1 DEF Reached, Paths
  <2>8. Len(t.rest) = Len(key) - (d + m)
    BY <1>2, <1>5
  <2>9. ASSUME NEW i \in 1 .. Len(t.rest)
        PROVE  t.rest[i] = key[d + m + i]
    <3> HIDE DEF d, rest, t
    <3>1. i \in 1 .. Len(rest) - m /\ i + m \in 1 .. Len(rest) /\ d + (i + m) = d + m + i
      BY <1>2, <1>5 DEF t
    <3>2. t.rest[i] = rest[i + m]
      BY <1>5, <3>1 DEF t
    <3>3. rest[i + m] = key[d + (i + m)]
      BY <1>2, <3>1
    <3>. QED
      BY <3>1, <3>2, <3>3
  <2>10. t.at = q /\ Len(q) = k
    BY <1>1, <1>5, <2>1
  <2> HIDE DEF q, t, d
  <2>. QED
    BY <1>4, <2>3, <2>6, <2>7, <2>8, <2>9, <2>10 DEF DescentInv, t
<1>6. "lChild" \in Links /\ "mChild" \in Links /\ "rChild" \in Links
  BY DEF Links
<1>7. CASE Head(rest) < data
  <2>1. DescentStep(tree, s) = Descent(Append(at, "lChild"), rest)
    BY <1>1, <1>3, <1>7 DEF DescentStep
  <2> HIDE DEF at, rest, data
  <2>2. DescentStep(tree, s).at = Append(at, "lChild") /\ DescentStep(tree, s).rest = rest
    BY <2>1 DEF Descent
  <2>3. /\ 0 \in 0 .. 1 /\ Len(DescentStep(tree, s).rest) = Len(rest) - 0
        /\ \A i \in 1 .. Len(rest) - 0 : DescentStep(tree, s).rest[i] = rest[i + 0]
    BY <1>2, <2>2
  <2>. QED
    BY <1>5, <1>6, <1>7, <2>2, <2>3
<1>8. CASE Head(rest) > data
  <2>1. DescentStep(tree, s) = Descent(Append(at, "rChild"), rest)
    BY <1>1, <1>3, <1>8 DEF DescentStep
  <2> HIDE DEF at, rest, data
  <2>2. DescentStep(tree, s).at = Append(at, "rChild") /\ DescentStep(tree, s).rest = rest
    BY <2>1 DEF Descent
  <2>3. /\ 0 \in 0 .. 1 /\ Len(DescentStep(tree, s).rest) = Len(rest) - 0
        /\ \A i \in 1 .. Len(rest) - 0 : DescentStep(tree, s).rest[i] = rest[i + 0]
    BY <1>2, <2>2
  <2>. QED
    BY <1>5, <1>6, <1>8, <2>2, <2>3
<1>9. CASE Head(rest) = data
  <2>1. DescentStep(tree, s) = Descent(Append(at, "mChild"), Tail(rest))
    BY <1>1, <1>3, <1>9 DEF DescentStep
  <2> HIDE DEF at, rest, data
  <2>2. DescentStep(tree, s).at = Append(at, "mChild") /\ DescentStep(tree, s).rest = Tail(rest)
    BY <2>1 DEF Descent
  <2>3. /\ Len(Tail(rest)) = Len(rest) - 1
        /\ \A i \in 1 .. Len(rest) - 1 : Tail(rest)[i] = rest[i + 1]
        /\ 1 \in 0 .. 1
    BY <1>1
  <2>. QED
    BY <1>5, <1>6, <1>9, <2>2, <2>3
<1>. QED
  BY <1>1, <1>3, <1>7, <1>8, <1>9

(* The walk keeps its invariant for as many steps as the tree has nodes.   *)
LEMMA DescentRuns ==
  ASSUME NEW tree, IsTree(tree), NEW key \in Word, key # <<>>,
         NEW k \in 0 .. Cardinality(DOMAIN tree)
  PROVE  DescentInv(tree, key, k, Descend(tree, key)[k])
<1> DEFINE n == Cardinality(DOMAIN tree)
           after == Descend(tree, key)
           P == {m \in 0 .. n : DescentInv(tree, key, m, after[m])}
<1>1. /\ n \in Nat /\ after \in [0 .. n -> DescentStates] /\ after[0] = Descent(<<>>, key)
      /\ \A m \in 1 .. n : after[m] = DescentStep(tree, after[m - 1])
  BY DescendUnrolls
<1>2. 0 \in P
  <2> DEFINE s == Descent(<<>>, key)
  <2>1. s.at = <<>> /\ s.rest = key /\ Len(<<>>) = 0 /\ Len(key) \in Nat \ {0}
    BY DEF Descent, Word
  <2>2. Depth(<<>>, 0) = 0
    BY DepthStart
  <2>3. Reached(tree, <<>>)
    <3>1. 0 .. Len(<<>>) - 1 = {} /\ <<>> \in Paths
      BY DEF Paths
    <3>. QED
      BY <3>1 DEF Reached
  <2>4. Way(tree, key, <<>>)
    <3>1. 1 .. Len(<<>>) = {}
      OBVIOUS
    <3>. QED
      BY <2>1, <2>2, <3>1 DEF Way
  <2>5. \A i \in 1 .. Len(key) : key[i] = key[0 + i]
    OBVIOUS
  <2>6. s \in DescentStates
    <3>1. after[0] \in DescentStates
      BY <1>1
    <3>. QED
      BY <1>1, <3>1
  <2> HIDE DEF s
  <2>7. DescentInv(tree, key, 0, s)
    BY <2>1, <2>2, <2>3, <2>4, <2>5, <2>6 DEF DescentInv
  <2>8. 0 \in 0 .. n /\ after[0] = s
    BY <1>1 DEF s
  <2>. QED
    BY <2>7, <2>8
<1>3. ASSUME NEW m \in 1 .. n, m - 1 \in P
      PROVE  m \in P
  <2> DEFINE s == after[m - 1]
  <2>1. DescentInv(tree, key, m - 1, s) /\ after[m] = DescentStep(tree, s)
    BY <1>1, <1>3
  <2> HIDE DEF s, n, after
  <2>2. m \in Nat \ {0} /\ m \in 0 .. n
    BY <1>1
  <2>3. CASE AtEnd(tree, s)
    <3>1. after[m] = s
      BY <2>1, <2>3 DEF DescentStep
    <3>2. DescentInv(tree, key, m, s)
      BY <2>1, <2>3 DEF DescentInv
    <3>. QED
      BY <2>2, <3>1, <3>2
  <2>4. CASE ~AtEnd(tree, s)
    <3>1. DescentInv(tree, key, m, after[m])
      BY <2>1, <2>2, <2>4, DescentKeeps
    <3>. QED
      BY <2>2, <3>1
  <2>. QED
    BY <2>3, <2>4
<1>4. 0 .. n \subseteq P
  <2> HIDE DEF P
  <2>. QED
    BY <1>1, <1>2, <1>3, Counting
<1>. QED
  BY <1>4

(* The way down ends at the node of the key, or at the null pointer where  *)
(* the key is missing (TernarySearchTree.cpp:64-79).                       *)
Found(tree, key, end) ==
  /\ end \in DescentStates /\ Reached(tree, end.at) /\ Way(tree, key, end.at)
  /\ Len(end.rest) = Len(key) - Depth(end.at, Len(end.at))
  /\ \A i \in 1 .. Len(end.rest) : end.rest[i] = key[Depth(end.at, Len(end.at)) + i]
  /\ end.at \in DOMAIN tree => Spells(tree, end.at, key)
  /\ \A q : Spells(tree, q, key) => q = end.at

(* So it ends at the only place where the key can be spelled.              *)
LEMMA DescentFinds ==
  ASSUME NEW tree, IsTree(tree), NEW key \in Word, key # <<>>
  PROVE  Found(tree, key, Descended(tree, key))
<1> DEFINE n == Cardinality(DOMAIN tree)
           end == Descended(tree, key)
           at == end.at
           d == Depth(at, Len(at))
<1>1. n \in Nat /\ n \in 0 .. n
  BY DescendUnrolls
<1>2. DescentInv(tree, key, n, end)
  BY <1>1, DescentRuns DEF Descended
<1> HIDE DEF end
<1>3. at \in Paths /\ Len(at) \in Nat /\ d \in Nat /\ Len(key) \in Nat /\ end.rest \in Seq(Nat)
  <2>1. end \in DescentStates
    BY <1>2 DEF DescentInv
  <2>2. at \in Seq(Links) /\ end.rest \in Seq(Nat)
    BY <2>1 DEF DescentStates, Paths, Word
  <2>3. Len(at) \in Nat /\ Len(key) \in Nat
    BY <2>2 DEF Word
  <2> HIDE DEF at
  <2>4. d \in Nat
    BY <2>3, DepthNext
  <2>. QED
    BY <2>2, <2>3, <2>4 DEF Paths
<1>4. AtEnd(tree, end)
  <2>1. SUFFICES ASSUME ~AtEnd(tree, end) PROVE FALSE
    OBVIOUS
  <2>2. at \in DOMAIN tree /\ Len(at) = n
    BY <1>2, <2>1 DEF DescentInv, AtEnd
  <2>3. Append(at, "lChild") \in TreePointers(tree)
    BY <2>2 DEF TreePointers, Links
  <2>4. Len(Append(at, "lChild")) <= n
    BY <2>3, PointersReached, PathBound
  <2>5. Len(Append(at, "lChild")) = Len(at) + 1
    <3> HIDE DEF at
    <3>1. at \in Seq(Links) /\ "lChild" \in Links
      BY <1>3 DEF Paths, Links
    <3>. QED
      BY <3>1, CutAppend
  <2> HIDE DEF n, at
  <2>. QED
    BY <1>1, <2>2, <2>4, <2>5
<1>5. at \in DOMAIN tree => Len(key) = d + 1 /\ key[Len(key)] = tree[at].data
  <2>1. SUFFICES ASSUME at \in DOMAIN tree PROVE Len(key) = d + 1 /\ key[Len(key)] = tree[at].data
    OBVIOUS
  <2>2. Len(end.rest) = 1 /\ Head(end.rest) = tree[at].data
    BY <1>4, <2>1 DEF AtEnd
  <2>3. Len(end.rest) = Len(key) - d /\ \A i \in 1 .. Len(end.rest) : end.rest[i] = key[d + i]
    BY <1>2 DEF DescentInv
  <2>4. Head(end.rest) = end.rest[1]
    BY <1>3, <2>2
  <2> HIDE DEF d, at
  <2>5. Len(key) = d + 1 /\ 1 \in 1 .. Len(end.rest)
    <3>1. Len(key) \in Nat /\ d \in Nat /\ 1 = Len(key) - d
      BY <1>3, <2>2, <2>3
    <3>2. Len(key) = d + 1
      BY <3>1
    <3>. QED
      BY <2>2, <3>2
  <2>. QED
    BY <2>2, <2>3, <2>4, <2>5
<1>6. Way(tree, key, at)
  BY <1>2 DEF DescentInv
<1>7. ASSUME NEW q, Spells(tree, q, key)
      PROVE  q = at
  <2> HIDE DEF at
  <2>. QED
    BY <1>3, <1>5, <1>6, <1>7, WayEnds DEF d
<1>8. at \in DOMAIN tree => Spells(tree, at, key)
  BY <1>5, <1>6 DEF Spells
<1>9. Found(tree, key, end)
  BY <1>2, <1>7, <1>8 DEF DescentInv, Found
<1>. QED
  BY <1>9 DEF end

-----------------------------------------------------------------------------
HasWords(tree) == \A q \in DOMAIN tree : \E w : Spells(tree, q, w)

Live(tree) == \A p \in DOMAIN tree : tree[p].marked \/ HasChildren(tree, p)

(* A word for every node is what the order of the siblings makes possible: *)
(* this is inductive, and WellFormed follows from it.                      *)
SearchTree(tree) == IsTree(tree) /\ HasWords(tree) /\ Live(tree)

WordsIn(tree) == {w \in Word : \E q \in DOMAIN tree : tree[q].marked /\ Spells(tree, q, w)}

(* In a search tree the letters to the left are smaller and those to the   *)
(* right greater.                                                          *)
LEMMA SiblingsOrdered ==
  ASSUME NEW tree, SearchTree(tree), NEW p \in DOMAIN tree, NEW q \in DOMAIN tree,
         NEW link \in {"lChild", "rChild"}, Beside(p, link, q)
  PROVE  /\ link = "lChild" => tree[q].data < tree[p].data
         /\ link = "rChild" => tree[q].data > tree[p].data
<1> DEFINE n == Len(p)
<1>1. PICK w : Spells(tree, q, w)
  BY DEF SearchTree, HasWords
<1>2. /\ p \in Paths /\ q \in Paths /\ n \in Nat /\ Len(q) \in Nat /\ n < Len(q)
      /\ \A i \in 1 .. n : q[i] = p[i]
      /\ q[n + 1] = link /\ \A i \in n + 2 .. Len(q) : q[i] # "mChild"
  BY NodeType DEF SearchTree, Beside, Paths
<1>3. Cut(q, n) = p
  <2>1. n \in 0 .. Len(q) /\ n <= Len(p)
    BY <1>2
  <2>2. Cut(q, n) = Cut(p, n) /\ Cut(p, n) = p
    BY <1>2, <2>1, CutSame, CutAll DEF Paths
  <2>. QED
    BY <2>2
<1>4. Depth(q, Len(q)) = Depth(q, n)
  <2>1. \A i \in 1 .. Len(q) : q[i] = "mChild" => i \in 1 .. n
    <3>1. \A i \in 1 .. Len(q) : i \in 1 .. n \/ i = n + 1 \/ i \in n + 2 .. Len(q)
      BY <1>2
    <3>2. q[n + 1] # "mChild"
      BY <1>2
    <3>. QED
      BY <1>2, <3>1, <3>2
  <2>2. \A i \in 1 .. n : i \in 1 .. Len(q)
    BY <1>2
  <2>3. {j \in 1 .. Len(q) : q[j] = "mChild"} = {j \in 1 .. n : q[j] = "mChild"}
    BY <2>1, <2>2
  <2>. QED
    BY <2>3 DEF Depth
<1>5. Turn(tree, w, q, n + 1)
  <2>1. n + 1 \in 1 .. Len(q)
    BY <1>2
  <2>. QED
    BY <1>1, <2>1 DEF Spells, Way
<1>6. w[Depth(q, n) + 1] = tree[q].data
  BY <1>1, <1>4 DEF Spells
<1>. QED
  BY <1>2, <1>3, <1>5, <1>6, TurnAt

(* A search tree is a ternary search tree.                                 *)
THEOREM SearchTreeWellFormed ==
  ASSUME NEW tree, SearchTree(tree)
  PROVE  WellFormed(tree)
<1>1. ASSUME NEW p \in DOMAIN tree, NEW q \in DOMAIN tree
      PROVE  /\ Beside(p, "lChild", q) => tree[q].data < tree[p].data
             /\ Beside(p, "rChild", q) => tree[q].data > tree[p].data
  <2>1. "lChild" \in {"lChild", "rChild"} /\ "rChild" \in {"lChild", "rChild"}
    OBVIOUS
  <2>. QED
    BY <2>1, SiblingsOrdered
<1>. QED
  BY <1>1 DEF SearchTree, IsTree, Live, WellFormed

(* The empty tree is a search tree and holds no word.                      *)
LEMMA EmptyIsSearchTree == SearchTree(EmptyTree) /\ WordsIn(EmptyTree) = {}
<1>1. DOMAIN EmptyTree = {} /\ EmptyTree \in [{} -> TreeNodes]
  BY DEF EmptyTree
<1>. QED
  BY <1>1, FS_EmptySet DEF SearchTree, IsTree, HasWords, Live, WordsIn

(* A word of one tree is a word of any tree with the same data on the way. *)
LEMMA SpellsFrame ==
  ASSUME NEW tree, IsTree(tree), NEW other, IsTree(other),
         \A p \in DOMAIN tree \cap DOMAIN other : other[p].data = tree[p].data,
         NEW q \in DOMAIN other, NEW w, Spells(tree, q, w)
  PROVE  Spells(other, q, w)
<1>1. q \in DOMAIN tree /\ q \in Paths /\ Way(tree, w, q)
  BY NodeType DEF Spells
<1>2. ASSUME NEW i \in 0 .. Len(q) - 1
      PROVE  Cut(q, i) \in DOMAIN other /\ other[Cut(q, i)].data = tree[Cut(q, i)].data
  <2>1. i \in 0 .. Len(q)
    BY <1>1 DEF Paths
  <2>2. Cut(q, i) \in DOMAIN tree /\ Cut(q, i) \in DOMAIN other
    BY <1>1, <2>1, Ancestors
  <2>. QED
    BY <2>2
<1>3. Way(other, w, q)
  BY <1>1, <1>2, WayFrame
<1>. QED
  BY <1>1, <1>3 DEF Spells

-----------------------------------------------------------------------------
(* The path that goes m middle links below a node.                         *)
LEMMA MiddleProperties ==
  ASSUME NEW at \in Paths, NEW m \in Nat
  PROVE  /\ Middle(at, m) \in Paths /\ Len(at) \in Nat /\ Len(Middle(at, m)) = Len(at) + m
         /\ \A i \in 1 .. Len(at) : Middle(at, m)[i] = at[i]
         /\ \A i \in Len(at) + 1 .. Len(at) + m : Middle(at, m)[i] = "mChild"
<1> DEFINE n == Len(at) + m
<1>1. at \in Seq(Links) /\ Len(at) \in Nat /\ n \in Nat /\ "mChild" \in Links
  BY DEF Paths, Links
<1>2. \A i \in 1 .. n : Middle(at, m)[i] = IF i <= Len(at) THEN at[i] ELSE "mChild"
  BY DEF Middle
<1>3. \A i \in 1 .. Len(at) : i \in 1 .. n /\ i <= Len(at) /\ at[i] \in Links
  BY <1>1
<1>4. \A i \in Len(at) + 1 .. n : i \in 1 .. n /\ ~(i <= Len(at))
  BY <1>1
<1>5. \A i \in 1 .. n : Middle(at, m)[i] \in Links
  BY <1>1, <1>2
<1>6. Middle(at, m) = [i \in 1 .. n |-> Middle(at, m)[i]]
  BY DEF Middle
<1>7. Middle(at, m) \in Seq(Links) /\ Len(Middle(at, m)) = n
  <2> DEFINE s == Middle(at, m)
  <2> HIDE DEF s, n
  <2>. QED
    BY <1>1, <1>5, <1>6
<1>. QED
  BY <1>1, <1>2, <1>3, <1>4, <1>7 DEF Paths

(* The cuts and depths of that path.                                       *)
LEMMA MiddleCut ==
  ASSUME NEW at \in Paths, NEW m \in Nat
  PROVE  /\ \A i \in 0 .. Len(at) : Cut(Middle(at, m), i) = Cut(at, i) /\ Depth(Middle(at, m), i) = Depth(at, i)
         /\ \A j \in 0 .. m : /\ Cut(Middle(at, m), Len(at) + j) = Middle(at, j)
                              /\ Depth(Middle(at, m), Len(at) + j) = Depth(at, Len(at)) + j
         /\ Middle(at, 0) = at
<1> DEFINE n == Len(at)
           p == Middle(at, m)
<1>1. /\ p \in Paths /\ n \in Nat /\ Len(p) = n + m
      /\ \A i \in 1 .. n : p[i] = at[i]
      /\ \A i \in n + 1 .. n + m : p[i] = "mChild"
  BY MiddleProperties
<1> HIDE DEF p
<1>2. ASSUME NEW i \in 0 .. n
      PROVE  Cut(p, i) = Cut(at, i) /\ Depth(p, i) = Depth(at, i)
  <2>1. \A j \in 1 .. i : p[j] = at[j]
    BY <1>1
  <2>2. i \in 0 .. Len(p) /\ i <= Len(at) /\ i \in Nat
    BY <1>1
  <2>. QED
    BY <1>1, <2>1, <2>2, CutSame, DepthSame DEF Paths
<1>3. ASSUME NEW j \in 0 .. m
      PROVE  Cut(p, n + j) = Middle(at, j)
  <2> DEFINE q == Middle(at, j)
             l == n + j
  <2>1. /\ q \in Paths /\ Len(q) = n + j
        /\ \A i \in 1 .. n : q[i] = at[i]
        /\ \A i \in n + 1 .. n + j : q[i] = "mChild"
    <3>1. j \in Nat
      OBVIOUS
    <3>. QED
      BY <3>1, MiddleProperties
  <2> HIDE DEF q
  <2>2. ASSUME NEW i \in 1 .. l, i \notin 1 .. n
        PROVE  i \in n + 1 .. n + j /\ i \in n + 1 .. n + m
    <3> HIDE DEF n
    <3>. QED
      BY <1>1, <2>2
  <2>3. \A i \in 1 .. l : p[i] = q[i]
    BY <1>1, <2>1, <2>2
  <2>4. l \in 0 .. Len(p) /\ l <= Len(q) /\ l = Len(q)
    BY <1>1, <2>1
  <2> HIDE DEF l
  <2>5. Cut(p, l) = Cut(q, l) /\ Cut(q, l) = q
    BY <1>1, <2>1, <2>3, <2>4, CutSame, CutAll DEF Paths
  <2>. QED
    BY <2>5 DEF l, q
<1>4. 0 .. m \subseteq {j \in 0 .. m : Depth(p, n + j) = Depth(at, n) + j}
  <2> DEFINE P == {j \in 0 .. m : Depth(p, n + j) = Depth(at, n) + j}
  <2>1. 0 \in P
    <3>1. Depth(p, n) = Depth(at, n) /\ Depth(at, n) \in Nat
      <4>1. n \in 0 .. n
        BY <1>1
      <4>. QED
        BY <1>1, <1>2, <4>1, DepthNext
    <3>2. n + 0 = n /\ Depth(at, n) + 0 = Depth(at, n)
      BY <1>1, <3>1
    <3>3. 0 \in 0 .. m
      OBVIOUS
    <3>. QED
      BY <3>1, <3>2, <3>3
  <2>2. ASSUME NEW j \in 1 .. m, j - 1 \in P
        PROVE  j \in P
    <3>1. n + (j - 1) \in Nat /\ n + (j - 1) + 1 = n + j /\ n + j \in n + 1 .. n + m
      BY <1>1
    <3>2. Depth(p, n + j) = Depth(p, n + (j - 1)) + 1
      BY <1>1, <3>1, DepthNext
    <3>3. Depth(at, n) \in Nat
      BY <1>1, DepthNext
    <3>. QED
      BY <2>2, <3>2, <3>3
  <2>3. 0 .. m \subseteq P
    <3> HIDE DEF P
    <3>. QED
      BY <2>1, <2>2, Counting
  <2>. QED
    BY <2>3
<1>5. Middle(at, 0) = at
  <2>1. /\ Middle(at, 0) \in Paths /\ Len(Middle(at, 0)) = Len(at) + 0
        /\ \A i \in 1 .. Len(at) : Middle(at, 0)[i] = at[i]
    BY MiddleProperties
  <2>2. Len(Middle(at, 0)) = Len(at)
    BY <1>1, <2>1
  <2>. QED
    BY <2>1, <2>2, SameSequence DEF Paths
<1>. QED
  BY <1>2, <1>3, <1>4, <1>5 DEF p

(* What insertHelper leaves: old nodes keep their data, the chain spells   *)
(* the rest of the key, and one node is marked.                            *)
Inserted(tree, key, at, n, new) ==
  LET d == Depth(at, Len(at))
  IN  /\ n \in Nat \ {0} /\ Len(key) = d + n /\ d \in Nat /\ at \in Paths
      /\ Reached(tree, at) /\ Way(tree, key, at)
      /\ DOMAIN new = DOMAIN tree \cup {Middle(at, m) : m \in 0 .. n - 1}
      /\ new \in [DOMAIN new -> TreeNodes]
      /\ \A p \in DOMAIN tree : new[p].data = tree[p].data
      /\ \A p \in DOMAIN new :
           new[p].marked <=> (p \in DOMAIN tree /\ tree[p].marked) \/ p = Middle(at, n - 1)
      /\ \A m \in 0 .. n - 1 : new[Middle(at, m)].data = key[d + m + 1]

(* Insert marks the last node of a chain of middle links where the walk    *)
(* ended, and leaves the rest.                                             *)
LEMMA InsertMakes ==
  ASSUME NEW tree, IsTree(tree), NEW key \in Word, key # <<>>
  PROVE  \E at, n : Inserted(tree, key, at, n, Insert(tree, key))
<1> DEFINE end == Descended(tree, key)
           at == end.at
           rest == end.rest
           n == Len(rest)
           d == Depth(at, Len(at))
           last == Middle(at, n - 1)
           chain == {Middle(at, m) : m \in 0 .. n - 1}
           Node(p) == IF p \in DOMAIN tree THEN tree[p]
                      ELSE [data |-> rest[Len(p) - Len(at) + 1], marked |-> FALSE]
           new == [p \in DOMAIN tree \cup chain |-> [Node(p) EXCEPT !.marked = @ \/ p = last]]
<1>1. Insert(tree, key) = new
  BY DEF Insert
<1>2. Found(tree, key, end)
  BY DescentFinds
<1> HIDE DEF end
<1>3. at \in Paths /\ rest \in Seq(Nat) /\ rest # <<>>
  BY <1>2 DEF Found, DescentStates, Word
<1>4. /\ Reached(tree, at) /\ Way(tree, key, at) /\ n = Len(key) - d
      /\ \A i \in 1 .. n : rest[i] = key[d + i]
      /\ at \in DOMAIN tree => Spells(tree, at, key)
  BY <1>2 DEF Found
<1> HIDE DEF at, rest
<1>5. /\ Len(at) \in Nat /\ d \in Nat /\ Len(key) \in Nat
  BY <1>3, DepthNext DEF Paths, Word
<1>6. n \in Nat \ {0}
  BY <1>3
<1> HIDE DEF n, d
<1>7. Len(key) = d + n
  BY <1>4, <1>5, <1>6
<1>8. ASSUME NEW m \in 0 .. n - 1
      PROVE  /\ Middle(at, m) \in Paths /\ Len(Middle(at, m)) - Len(at) + 1 = m + 1
             /\ Middle(at, m) \in DOMAIN tree => m = 0 /\ n = 1 /\ Middle(at, m) = at /\ Spells(tree, at, key)
  <2> DEFINE p == Middle(at, m)
  <2>1. m \in Nat
    BY <1>6
  <2>2. p \in Paths /\ Len(p) = Len(at) + m
    BY <1>3, <2>1, MiddleProperties
  <2>3. Cut(p, Len(at)) = Cut(at, Len(at)) /\ Cut(at, Len(at)) = at /\ Middle(at, 0) = at
    <3>1. Len(at) \in 0 .. Len(at)
      BY <1>5
    <3>. QED
      BY <1>3, <2>1, <3>1, MiddleCut, CutAll DEF Paths
  <2> HIDE DEF p
  <2>4. ASSUME p \in DOMAIN tree
        PROVE  m = 0 /\ n = 1 /\ p = at /\ Spells(tree, at, key)
    <3>1. Len(at) \in 0 .. Len(p)
      BY <1>5, <2>1, <2>2
    <3>2. at \in DOMAIN tree
      BY <2>3, <2>4, <3>1, Ancestors
    <3>3. Spells(tree, at, key)
      BY <1>4, <3>2
    <3>4. Len(key) = d + 1
      BY <3>3 DEF Spells, d
    <3>5. n = 1 /\ m = 0
      BY <1>5, <1>6, <1>7, <3>4
    <3>. QED
      BY <2>3, <3>3, <3>5 DEF p
  <2>5. Len(p) - Len(at) + 1 = m + 1
    BY <1>5, <2>1, <2>2
  <2>. QED
    BY <2>2, <2>4, <2>5 DEF p
<1>9. n - 1 \in 0 .. n - 1
  BY <1>6
<1>10. DOMAIN new = DOMAIN tree \cup chain
  OBVIOUS
<1>11. ASSUME NEW p \in DOMAIN tree
       PROVE  /\ new[p] \in TreeNodes /\ new[p].data = tree[p].data
              /\ new[p].marked <=> tree[p].marked \/ p = last
  <2>1. /\ tree[p] = [data |-> tree[p].data, marked |-> tree[p].marked]
        /\ tree[p].data \in Nat /\ tree[p].marked \in BOOLEAN
    BY DEF IsTree, TreeNodes
  <2>2. new[p] = [tree[p] EXCEPT !.marked = @ \/ p = last]
    BY <1>10
  <2> HIDE DEF new, last
  <2>3. new[p] = [data |-> tree[p].data, marked |-> tree[p].marked \/ p = last]
    BY <2>1, <2>2
  <2> DEFINE b == tree[p].marked \/ p = last
  <2>4. new[p] = [data |-> tree[p].data, marked |-> b] /\ b \in BOOLEAN
    BY <2>3
  <2> HIDE DEF b
  <2>5. new[p] \in TreeNodes
    BY <2>1, <2>4 DEF TreeNodes
  <2>6. new[p].data = tree[p].data /\ new[p].marked = b
    BY <2>4
  <2>. QED
    BY <2>5, <2>6, Zenon DEF b
<1>12. ASSUME NEW m \in 0 .. n - 1, Middle(at, m) \notin DOMAIN tree
       PROVE  /\ new[Middle(at, m)] \in TreeNodes /\ new[Middle(at, m)].data = rest[m + 1]
              /\ new[Middle(at, m)].marked <=> Middle(at, m) = last
  <2> DEFINE p == Middle(at, m)
  <2>1. p \in DOMAIN new /\ p \notin DOMAIN tree /\ Len(p) - Len(at) + 1 = m + 1
    BY <1>8, <1>12
  <2>2. new[p] = [[data |-> rest[Len(p) - Len(at) + 1], marked |-> FALSE] EXCEPT !.marked = @ \/ p = last]
    BY <2>1
  <2>3. rest[m + 1] \in Nat
    <3>1. m + 1 \in 1 .. Len(rest)
      BY <1>6 DEF n
    <3>. QED
      BY <1>3, <3>1
  <2> HIDE DEF new, last, p
  <2>4. new[p] = [data |-> rest[m + 1], marked |-> p = last]
    BY <2>1, <2>2
  <2>5. new[p] \in TreeNodes /\ new[p].data = rest[m + 1] /\ (new[p].marked <=> p = last)
    <3> DEFINE b == p = last
    <3>1. new[p] = [data |-> rest[m + 1], marked |-> b] /\ b \in BOOLEAN
      BY <2>4
    <3> HIDE DEF b
    <3>2. new[p] \in TreeNodes
      BY <2>3, <3>1 DEF TreeNodes
    <3>3. new[p].data = rest[m + 1] /\ new[p].marked = b
      BY <3>1
    <3>. QED
      BY <3>2, <3>3, Zenon DEF b
  <2>. QED
    BY <2>5 DEF p
<1> HIDE DEF new
<1>13. new \in [DOMAIN new -> TreeNodes]
  <2>1. \A p \in DOMAIN new : new[p] \in TreeNodes
    BY <1>10, <1>11, <1>12
  <2>2. new = [p \in DOMAIN new |-> new[p]]
    BY <1>10 DEF new
  <2>. QED
    BY <2>1, <2>2
<1>14. ASSUME NEW p \in DOMAIN new
       PROVE  new[p].marked <=> (p \in DOMAIN tree /\ tree[p].marked) \/ p = last
  <2>1. CASE p \in DOMAIN tree
    BY <1>11, <2>1
  <2>2. CASE p \notin DOMAIN tree
    BY <1>10, <1>12, <2>2
  <2>. QED
    BY <2>1, <2>2
<1>15. ASSUME NEW m \in 0 .. n - 1
       PROVE  new[Middle(at, m)].data = key[d + m + 1]
  <2>1. m + 1 \in 1 .. n /\ d + (m + 1) = d + m + 1
    BY <1>5, <1>6
  <2>2. rest[m + 1] = key[d + m + 1]
    BY <1>4, <2>1
  <2>3. CASE Middle(at, m) \notin DOMAIN tree
    BY <1>12, <2>2, <2>3
  <2>4. CASE Middle(at, m) \in DOMAIN tree
    <3>1. m = 0 /\ n = 1 /\ Middle(at, m) = at /\ Spells(tree, at, key)
      BY <1>8, <2>4
    <3>2. key[Len(key)] = tree[at].data /\ Len(key) = d + m + 1
      BY <1>5, <1>7, <3>1 DEF Spells
    <3>. QED
      BY <1>11, <2>4, <3>1, <3>2
  <2>. QED
    BY <2>3, <2>4
<1>16. Inserted(tree, key, at, n, new)
  BY <1>3, <1>4, <1>5, <1>6, <1>7, <1>10, <1>11, <1>13, <1>14, <1>15 DEF Inserted, d
<1>. QED
  BY <1>1, <1>16

(* The nodes of the chain end the prefixes of the key.                     *)
LEMMA ChainSpells ==
  ASSUME NEW tree, IsTree(tree), NEW key \in Word, NEW at, NEW n, NEW new,
         Inserted(tree, key, at, n, new), NEW m \in 0 .. n - 1
  PROVE  Spells(new, Middle(at, m), Cut(key, Depth(at, Len(at)) + m + 1))
<1> DEFINE d == Depth(at, Len(at))
           l == Len(at)
           p == Middle(at, m)
           k == d + m + 1
           v == Cut(key, k)
<1>1. /\ n \in Nat \ {0} /\ Len(key) = d + n /\ d \in Nat /\ at \in Paths /\ l \in Nat
      /\ Reached(tree, at) /\ Way(tree, key, at) /\ m \in Nat
      /\ DOMAIN new = DOMAIN tree \cup {Middle(at, j) : j \in 0 .. n - 1}
      /\ \A q \in DOMAIN tree : new[q].data = tree[q].data
      /\ \A j \in 0 .. n - 1 : new[Middle(at, j)].data = key[d + j + 1]
  BY DEF Inserted, Paths
<1>2. /\ p \in Paths /\ Len(p) = l + m
      /\ \A i \in 1 .. l : p[i] = at[i]
      /\ \A i \in l + 1 .. l + m : p[i] = "mChild"
  BY <1>1, MiddleProperties
<1>3. /\ \A i \in 0 .. l : Cut(p, i) = Cut(at, i) /\ Depth(p, i) = Depth(at, i)
      /\ \A j \in 0 .. m : Cut(p, l + j) = Middle(at, j) /\ Depth(p, l + j) = d + j
  BY <1>1, MiddleCut
<1>4. k \in 0 .. Len(key) /\ k \in Nat
  BY <1>1
<1>5. v \in Word /\ Len(v) = k /\ \A i \in 1 .. k : v[i] = key[i]
  <2> HIDE DEF k
  <2>. QED
    BY <1>4, CutProperties DEF Word
<1> HIDE DEF p, v
<1>6. Depth(p, Len(p)) = d + m
  <2>1. m \in 0 .. m
    BY <1>1
  <2>. QED
    BY <1>2, <1>3, <2>1
<1>7. p \in DOMAIN new /\ v[Len(v)] = new[p].data
  <2>1. p \in DOMAIN new /\ new[p].data = key[k]
    BY <1>1 DEF p
  <2>2. k \in 1 .. k
    BY <1>1
  <2> HIDE DEF k
  <2>. QED
    BY <1>5, <2>1, <2>2
<1>8. ASSUME NEW i \in 1 .. Len(p)
      PROVE  Turn(new, v, p, i)
  <2>1. CASE i \in 1 .. l
    <3>1. Turn(tree, key, at, i)
      BY <1>1, <2>1 DEF Way
    <3>2. i - 1 \in 0 .. l /\ i - 1 \in 0 .. Len(at) - 1
      BY <1>1, <2>1
    <3>3. Cut(p, i - 1) = Cut(at, i - 1) /\ Depth(p, i - 1) = Depth(at, i - 1) /\ p[i] = at[i]
      BY <1>2, <1>3, <2>1, <3>2
    <3>4. Cut(at, i - 1) \in DOMAIN tree
      BY <1>1, <3>2 DEF Reached
    <3>5. Cut(at, i - 1) \in DOMAIN new /\ new[Cut(at, i - 1)].data = tree[Cut(at, i - 1)].data
      BY <1>1, <3>4
    <3>6. Depth(at, i - 1) \in Nat /\ Depth(at, i - 1) <= d
      BY <1>1, <3>2, DepthGrows
    <3>7. Depth(at, i - 1) + 1 \in 1 .. k
      <4> HIDE DEF d
      <4>. QED
        BY <1>1, <3>6
    <3> HIDE DEF k, d, l
    <3>8. v[Depth(at, i - 1) + 1] = key[Depth(at, i - 1) + 1]
      BY <1>5, <3>7
    <3>. QED
      BY <3>1, <3>3, <3>5, <3>8 DEF Turn
  <2>2. CASE i \notin 1 .. l
    <3> DEFINE j == i - 1 - l
    <3>1. j \in 0 .. m /\ j \in 0 .. n - 1 /\ l + j = i - 1 /\ i \in l + 1 .. l + m
      BY <1>1, <1>2, <2>2
    <3> HIDE DEF j
    <3>2. Cut(p, l + j) = Middle(at, j) /\ Depth(p, l + j) = d + j
      BY <1>3, <3>1
    <3>3. Middle(at, j) \in DOMAIN new /\ new[Middle(at, j)].data = key[d + j + 1]
      BY <1>1, <3>1
    <3>4. d + j + 1 \in 1 .. k
      <4> HIDE DEF d
      <4>. QED
        BY <1>1, <3>1
    <3>5. v[d + j + 1] = key[d + j + 1]
      <4> HIDE DEF k, d
      <4>. QED
        BY <1>5, <3>4
    <3>6. p[i] = "mChild"
      BY <1>2, <3>1
    <3>7. Cut(p, i - 1) = Middle(at, j) /\ Depth(p, i - 1) = d + j
      BY <3>1, <3>2
    <3> HIDE DEF k, d, l
    <3>. QED
      BY <3>3, <3>5, <3>6, <3>7 DEF Turn
  <2>. QED
    BY <2>1, <2>2
<1>9. Way(new, v, p)
  <2>1. Depth(p, Len(p)) < Len(v)
    BY <1>1, <1>5, <1>6
  <2>. QED
    BY <1>8, <2>1 DEF Way
<1>10. Len(v) = Depth(p, Len(p)) + 1
  BY <1>1, <1>5, <1>6
<1> HIDE DEF k
<1>11. Spells(new, p, v)
  BY <1>5, <1>7, <1>9, <1>10 DEF Spells
<1>. QED
  BY <1>11 DEF p, v, k

(* The tree with the chain is a tree: no node lacks a parent.              *)
LEMMA ChainIsTree ==
  ASSUME NEW tree, IsTree(tree), NEW key \in Word, NEW at, NEW n, NEW new,
         Inserted(tree, key, at, n, new)
  PROVE  IsTree(new)
<1> DEFINE chain == {Middle(at, m) : m \in 0 .. n - 1}
<1>1. /\ n \in Nat \ {0} /\ at \in Paths /\ Len(at) \in Nat /\ Reached(tree, at)
      /\ DOMAIN new = DOMAIN tree \cup chain /\ new \in [DOMAIN new -> TreeNodes]
  BY DEF Inserted, Paths
<1>2. IsFiniteSet(chain)
  <2> DEFINE f == [m \in 0 .. n - 1 |-> Middle(at, m)]
  <2>1. f \in Surjection(0 .. n - 1, chain)
    BY DEF Surjection
  <2>2. IsFiniteSet(0 .. n - 1)
    BY <1>1, FS_Interval
  <2> HIDE DEF f, chain
  <2>. QED
    BY <2>1, <2>2, FS_Surjection
<1>3. IsFiniteSet(DOMAIN new)
  <2>1. IsFiniteSet(DOMAIN tree)
    BY DEF IsTree
  <2> HIDE DEF chain
  <2>. QED
    BY <1>1, <1>2, <2>1, FS_Union
<1>4. DOMAIN new \subseteq Paths
  <2>1. \A m \in 0 .. n - 1 : Middle(at, m) \in Paths
    BY <1>1, MiddleProperties
  <2>. QED
    BY <1>1, <2>1 DEF IsTree
<1>5. ASSUME NEW p \in DOMAIN new, p # <<>>
      PROVE  Front(p) \in DOMAIN new
  <2>1. CASE p \in DOMAIN tree
    BY <1>1, <1>5, <2>1 DEF IsTree
  <2>2. ASSUME NEW m \in 0 .. n - 1, p = Middle(at, m)
        PROVE  Front(p) \in DOMAIN new
    <3>1. p \in Seq(Links) /\ Len(p) = Len(at) + m /\ m \in Nat
      BY <1>1, <2>2, MiddleProperties DEF Paths
    <3>2. Front(p) = Cut(p, Len(p) - 1) /\ Len(p) \in Nat \ {0}
      BY <1>5, <3>1, FrontIsCut
    <3>3. CASE m = 0
      <4>1. p = at
        BY <1>1, <2>2, <3>3, MiddleCut
      <4>2. Len(at) - 1 \in 0 .. Len(at) - 1
        BY <3>2, <4>1
      <4>. QED
        BY <1>1, <3>2, <4>1, <4>2 DEF Reached
    <3>4. CASE m # 0
      <4>1. m - 1 \in 0 .. m /\ m - 1 \in 0 .. n - 1 /\ Len(at) + (m - 1) = Len(p) - 1
        BY <1>1, <3>1, <3>4
      <4>2. Cut(p, Len(at) + (m - 1)) = Middle(at, m - 1)
        BY <1>1, <2>2, <3>1, <4>1, MiddleCut
      <4>. QED
        BY <1>1, <3>2, <4>1, <4>2
    <3>. QED
      BY <3>3, <3>4
  <2>. QED
    BY <1>1, <2>1, <2>2
<1>. QED
  BY <1>1, <1>3, <1>4, <1>5 DEF IsTree

(* Inserting keeps a search tree and adds one word                         *)
(* (TernarySearchTree.cpp:27-48).                                          *)
THEOREM InsertSound ==
  ASSUME NEW tree, SearchTree(tree), NEW key \in Word, key # <<>>
  PROVE  SearchTree(Insert(tree, key)) /\ WordsIn(Insert(tree, key)) = WordsIn(tree) \cup {key}
<1> DEFINE new == Insert(tree, key)
<1>1. IsTree(tree) /\ HasWords(tree) /\ Live(tree)
  BY DEF SearchTree
<1>2. PICK at, n : Inserted(tree, key, at, n, new)
  BY <1>1, InsertMakes
<1> DEFINE d == Depth(at, Len(at))
           last == Middle(at, n - 1)
<1> HIDE DEF new, d, last
<1>3. /\ n \in Nat \ {0} /\ Len(key) = d + n /\ d \in Nat /\ at \in Paths
      /\ DOMAIN new = DOMAIN tree \cup {Middle(at, m) : m \in 0 .. n - 1}
      /\ \A p \in DOMAIN tree : new[p].data = tree[p].data
      /\ \A p \in DOMAIN new : new[p].marked <=> (p \in DOMAIN tree /\ tree[p].marked) \/ p = last
  BY <1>2 DEF Inserted, d, last
<1>4. IsTree(new)
  BY <1>1, <1>2, ChainIsTree
<1>5. \A m \in 0 .. n - 1 : Spells(new, Middle(at, m), Cut(key, d + m + 1))
  BY <1>1, <1>2, ChainSpells DEF d
<1>6. \A p \in DOMAIN tree : \A w : Spells(tree, p, w) <=> Spells(new, p, w)
  BY <1>1, <1>3, <1>4, SpellsFrame
<1>7. last \in DOMAIN new /\ Spells(new, last, key)
  <2>1. n - 1 \in 0 .. n - 1 /\ d + (n - 1) + 1 = Len(key)
    BY <1>3
  <2>2. Spells(new, last, Cut(key, Len(key)))
    BY <1>5, <2>1 DEF last
  <2>3. Cut(key, Len(key)) = key
    BY CutAll DEF Word
  <2>. QED
    BY <2>2, <2>3 DEF Spells
<1>8. HasWords(new)
  <2>1. ASSUME NEW q \in DOMAIN new
        PROVE  \E w : Spells(new, q, w)
    <3>1. CASE q \in DOMAIN tree
      BY <1>1, <1>6, <3>1 DEF HasWords
    <3>2. CASE q \notin DOMAIN tree
      BY <1>3, <1>5, <3>2
    <3>. QED
      BY <3>1, <3>2
  <2>. QED
    BY <2>1 DEF HasWords
<1>9. Live(new)
  <2>1. ASSUME NEW q \in DOMAIN tree
        PROVE  new[q].marked \/ HasChildren(new, q)
    <3>1. tree[q].marked \/ HasChildren(tree, q)
      BY <1>1 DEF Live
    <3>2. HasChildren(tree, q) => HasChildren(new, q)
      BY <1>3 DEF HasChildren
    <3>3. tree[q].marked => new[q].marked
      BY <1>3
    <3>. QED
      BY <3>1, <3>2, <3>3
  <2>2. ASSUME NEW m \in 0 .. n - 1
        PROVE  new[Middle(at, m)].marked \/ HasChildren(new, Middle(at, m))
    <3>1. CASE m = n - 1
      BY <1>3, <1>7, <3>1 DEF last
    <3>2. CASE m # n - 1
      <4> DEFINE q == Middle(at, m + 1)
      <4>1. m + 1 \in 0 .. n - 1 /\ m \in Nat /\ m + 1 \in Nat /\ m \in 0 .. m + 1
        BY <1>3, <3>2
      <4>2. /\ q \in Seq(Links) /\ Len(q) = Len(at) + (m + 1) /\ Len(at) \in Nat
            /\ \A i \in Len(at) + 1 .. Len(at) + (m + 1) : q[i] = "mChild"
        BY <1>3, <4>1, MiddleProperties DEF Paths
      <4>3. Cut(q, Len(at) + m) = Middle(at, m)
        BY <1>3, <4>1, MiddleCut
      <4>4. Len(q) \in 1 .. Len(q) /\ Len(q) - 1 = Len(at) + m /\ q[Len(q)] = "mChild"
        <5> HIDE DEF q
        <5>1. Len(q) \in 1 .. Len(q) /\ Len(q) - 1 = Len(at) + m /\ Len(q) \in Len(at) + 1 .. Len(at) + (m + 1)
          BY <4>1, <4>2
        <5>. QED
          BY <4>2, <5>1
      <4>5. q \in DOMAIN new
        BY <1>3, <4>1
      <4> HIDE DEF q
      <4>6. Append(Cut(q, Len(q) - 1), q[Len(q)]) = q
        BY <4>2, <4>4, CutNext, CutAll
      <4>7. Append(Middle(at, m), "mChild") \in DOMAIN new
        BY <4>3, <4>4, <4>5, <4>6
      <4>. QED
        BY <4>7 DEF HasChildren, Links
    <3>. QED
      BY <3>1, <3>2
  <2>. QED
    BY <1>3, <2>1, <2>2 DEF Live
<1>10. ASSUME NEW w \in WordsIn(new)
       PROVE  w \in WordsIn(tree) \cup {key}
  <2>1. PICK q \in DOMAIN new : new[q].marked /\ Spells(new, q, w)
    BY DEF WordsIn
  <2>2. CASE q = last
    BY <1>4, <1>7, <2>1, <2>2, OneWord
  <2>3. CASE q # last
    <3>1. q \in DOMAIN tree /\ tree[q].marked
      BY <1>3, <2>1, <2>3
    <3>2. Spells(tree, q, w) /\ w \in Word
      BY <1>6, <2>1, <3>1 DEF Spells
    <3>. QED
      BY <3>1, <3>2 DEF WordsIn
  <2>. QED
    BY <2>2, <2>3
<1>11. ASSUME NEW w \in WordsIn(tree)
       PROVE  w \in WordsIn(new)
  <2>1. PICK q \in DOMAIN tree : tree[q].marked /\ Spells(tree, q, w)
    BY DEF WordsIn
  <2>2. q \in DOMAIN new /\ new[q].marked /\ Spells(new, q, w) /\ w \in Word
    BY <1>3, <1>6, <2>1 DEF Spells
  <2>. QED
    BY <2>2 DEF WordsIn
<1>12. key \in WordsIn(new)
  BY <1>3, <1>7 DEF WordsIn
<1>13. SearchTree(new) /\ WordsIn(new) = WordsIn(tree) \cup {key}
  BY <1>4, <1>8, <1>9, <1>10, <1>11, <1>12 DEF SearchTree
<1>. QED
  BY <1>13 DEF new

-----------------------------------------------------------------------------
(* A path is its parent and its last link.                                 *)
LEMMA LastLink ==
  ASSUME NEW p \in Paths, p # <<>>
  PROVE  p = Append(Front(p), p[Len(p)]) /\ p[Len(p)] \in Links /\ Front(p) \in Paths
<1>1. p \in Seq(Links) /\ Front(p) = Cut(p, Len(p) - 1) /\ Len(p) \in Nat \ {0}
  BY FrontIsCut DEF Paths
<1>2. Len(p) \in 1 .. Len(p) /\ Len(p) - 1 \in 0 .. Len(p)
  BY <1>1
<1>3. Append(Cut(p, Len(p) - 1), p[Len(p)]) = Cut(p, Len(p)) /\ Cut(p, Len(p)) = p
  BY <1>1, <1>2, CutNext, CutAll
<1>4. Cut(p, Len(p) - 1) \in Seq(Links)
  BY <1>1, <1>2, CutProperties
<1>5. p[Len(p)] \in Links
  BY <1>1, <1>2
<1>. QED
  BY <1>1, <1>3, <1>4, <1>5 DEF Paths

(* What is left of a tree when some nodes are freed.                       *)
Subtrees(tree) == {Restrict(tree, T) : T \in SUBSET DOMAIN tree}

(* Freeing a node leaves a part of the tree.                               *)
LEMMA FreeType ==
  ASSUME NEW tree, NEW t \in Subtrees(tree), NEW p
  PROVE  FreeIfUnused(t, p) \in Subtrees(tree)
<1>1. PICK T \in SUBSET DOMAIN tree : t = Restrict(tree, T)
  BY DEF Subtrees
<1>2. DOMAIN t = T
  BY <1>1 DEF Restrict
<1>3. Restrict(t, DOMAIN t \ {p}) = Restrict(tree, T \ {p})
  BY <1>1, <1>2 DEF Restrict
<1>. QED
  BY <1>3 DEF FreeIfUnused, Subtrees

(* Freeing upwards is defined by its recursion, from the node to the       *)
(* root.                                                                   *)
LEMMA FreeUnrolls ==
  ASSUME NEW tree, tree = [p \in DOMAIN tree |-> tree[p]], NEW at \in Paths
  PROVE  /\ FreeUpwards(tree, at) \in [0 .. Len(at) + 1 -> Subtrees(tree)]
         /\ FreeUpwards(tree, at)[0] = tree
         /\ \A k \in 1 .. Len(at) + 1 :
              FreeUpwards(tree, at)[k] = FreeIfUnused(FreeUpwards(tree, at)[k - 1], Cut(at, Len(at) + 1 - k))
<1> DEFINE n == Len(at) + 1
           S == Subtrees(tree)
           Step(t, k) == FreeIfUnused(t, SubSeq(at, 1, Len(at) + 1 - k))
           step == [k \in 1 .. n |-> [t \in S |-> Step(t, k)]]
           Eq(g) == [k \in 0 .. n |-> IF k = 0 THEN tree ELSE Step(g[k - 1], k)]
           after == CHOOSE g : g = Eq(g)
<1>1. FreeUpwards(tree, at) = after
  BY DEF FreeUpwards
<1>2. n \in Nat /\ tree \in S
  <2>1. tree = Restrict(tree, DOMAIN tree)
    BY DEF Restrict
  <2>. QED
    BY <2>1 DEF Subtrees, Paths
<1>3. \A k \in 1 .. n : \A t \in S : Step(t, k) \in S
  BY FreeType
<1>4. step \in [1 .. n -> [S -> S]]
  BY <1>3
<1>5. PICK g \in [0 .. n -> S] : Unrolls(g, n, tree, step)
  <2> HIDE DEF n, step, S
  <2>. QED
    BY <1>2, <1>4, LoopExists
<1> HIDE DEF n, S, Step
<1>6. \A k \in 1 .. n : g[k - 1] \in S
  BY <1>2
<1>7. g = Eq(g)
  <2>1. \A k \in 0 .. n : k # 0 => k \in 1 .. n
    BY <1>2
  <2>2. \A k \in 1 .. n : step[k][g[k - 1]] = Step(g[k - 1], k)
    BY <1>6
  <2>3. \A k \in 0 .. n : g[k] = Eq(g)[k]
    BY <1>5, <2>1, <2>2 DEF Unrolls
  <2>. QED
    BY <1>5, <2>3 DEF Unrolls
<1>8. after = Eq(after)
  BY <1>7
<1> HIDE DEF after
<1>9. after[0] = tree /\ \A k \in 1 .. n : after[k] = Step(after[k - 1], k)
  BY <1>2, <1>8
<1>10. 0 .. n \subseteq {k \in 0 .. n : after[k] \in S}
  <2> DEFINE P == {k \in 0 .. n : after[k] \in S}
  <2>1. 0 \in P
    BY <1>2, <1>9
  <2>2. \A k \in 1 .. n : k - 1 \in P => k \in P
    BY <1>2, <1>3, <1>9
  <2>3. 0 .. n \subseteq P
    <3> HIDE DEF P
    <3>. QED
      BY <1>2, <2>1, <2>2, Counting
  <2>. QED
    BY <2>3
<1>11. after \in [0 .. n -> S]
  BY <1>8, <1>10
<1>. QED
  BY <1>1, <1>9, <1>11 DEF n, S, Step, Cut

(* After k returns, only the node above the last one visited may be unused.*)
FreedInv(tree, at, k, t) ==
  /\ t \in Subtrees(tree)
  /\ \A p \in DOMAIN tree : tree[p].marked => p \in DOMAIN t
  /\ \A p \in DOMAIN t : p # <<>> => Front(p) \in DOMAIN t
  /\ \A p \in DOMAIN t : \/ tree[p].marked \/ HasChildren(t, p)
                         \/ k <= Len(at) /\ p = Cut(at, Len(at) - k)

(* A part of the tree has the tree's nodes, as they were.                  *)
LEMMA SubtreeValues ==
  ASSUME NEW tree, NEW t \in Subtrees(tree)
  PROVE  /\ DOMAIN t \subseteq DOMAIN tree /\ t = [p \in DOMAIN t |-> t[p]]
         /\ \A p \in DOMAIN t : t[p] = tree[p]
<1>1. PICK T \in SUBSET DOMAIN tree : t = Restrict(tree, T)
  BY DEF Subtrees
<1>2. t = [p \in T |-> tree[p]]
  BY <1>1 DEF Restrict
<1>. QED
  BY <1>2

(* A step upwards keeps the invariant: every leaf left is marked, unless   *)
(* it is the next node looked at.                                          *)
LEMMA FreeKeeps ==
  ASSUME NEW tree, DOMAIN tree \subseteq Paths, NEW at \in Paths, NEW k \in 1 .. Len(at) + 1, NEW t,
         FreedInv(tree, at, k - 1, t)
  PROVE  FreedInv(tree, at, k, FreeIfUnused(t, Cut(at, Len(at) + 1 - k)))
<1> DEFINE l == Len(at)
           p == Cut(at, l + 1 - k)
           s == FreeIfUnused(t, p)
<1>1. /\ at \in Seq(Links) /\ l \in Nat /\ l + 1 - k \in 0 .. Len(at) /\ l - (k - 1) = l + 1 - k
      /\ k \in Nat
  BY DEF Paths
<1>2. p \in Paths /\ Len(p) = l + 1 - k
  <2> DEFINE m == l + 1 - k
  <2> HIDE DEF m
  <2>1. m \in 0 .. Len(at)
    BY <1>1 DEF m
  <2>2. Cut(at, m) \in Seq(Links) /\ Len(Cut(at, m)) = m
    BY <1>1, <2>1, CutProperties
  <2>. QED
    BY <2>2 DEF m, Paths
<1>3. /\ t \in Subtrees(tree) /\ DOMAIN t \subseteq Paths
      /\ \A q \in DOMAIN t : t[q] = tree[q]
      /\ \A q \in DOMAIN tree : tree[q].marked => q \in DOMAIN t
      /\ \A q \in DOMAIN t : q # <<>> => Front(q) \in DOMAIN t
      /\ \A q \in DOMAIN t : tree[q].marked \/ HasChildren(t, q) \/ q = p
  BY <1>1, SubtreeValues DEF FreedInv
<1>4. s \in Subtrees(tree)
  BY <1>3, FreeType
<1>5. CASE p \in DOMAIN t /\ ~t[p].marked /\ ~HasChildren(t, p)
  <2>1. DOMAIN s = DOMAIN t \ {p}
    BY <1>5 DEF FreeIfUnused, Restrict
  <2> HIDE DEF s
  <2>2. \A q \in DOMAIN tree : tree[q].marked => q \in DOMAIN s
    BY <1>3, <1>5, <2>1
  <2>3. ASSUME NEW q \in DOMAIN s, q # <<>>
        PROVE  Front(q) \in DOMAIN s
    <3>1. q \in DOMAIN t /\ q \in Paths /\ Front(q) \in DOMAIN t
      BY <1>3, <2>1, <2>3
    <3>2. Front(q) # p
      <4>1. SUFFICES ASSUME Front(q) = p PROVE FALSE
        OBVIOUS
      <4>2. q = Append(p, q[Len(q)]) /\ q[Len(q)] \in Links
        BY <2>3, <3>1, <4>1, LastLink
      <4>3. HasChildren(t, p)
        BY <3>1, <4>2 DEF HasChildren
      <4>. QED
        BY <1>5, <4>3
    <3>. QED
      BY <2>1, <3>1, <3>2
  <2>4. ASSUME NEW q \in DOMAIN s, ~tree[q].marked, ~HasChildren(s, q)
        PROVE  k <= l /\ q = Cut(at, l - k)
    <3>1. q \in DOMAIN t /\ q \in Paths /\ HasChildren(t, q)
      BY <1>3, <2>1, <2>4
    <3>2. PICK link \in Links : Append(q, link) \in DOMAIN t
      BY <3>1 DEF HasChildren
    <3>3. Append(q, link) = p
      BY <2>1, <2>4, <3>2 DEF HasChildren
    <3>4. Len(p) = Len(q) + 1 /\ Cut(p, Len(q)) = q /\ Len(q) \in Nat
      <4>1. q \in Seq(Links)
        BY <3>1 DEF Paths
      <4> HIDE DEF p
      <4>2. Len(q) \in Nat
        BY <4>1
      <4>3. Len(Append(q, link)) = Len(q) + 1 /\ Cut(Append(q, link), Len(q)) = q
        BY <4>1, CutAppend
      <4>. QED
        BY <3>3, <4>2, <4>3
    <3>5. Len(q) = l - k /\ k <= l
      BY <1>1, <1>2, <3>4
    <3>6. Cut(p, l - k) = Cut(at, l - k)
      <4>1. l - k \in 0 .. l + 1 - k
        BY <1>1, <3>5
      <4>. QED
        BY <1>1, <4>1, CutAgain
    <3>. QED
      BY <3>4, <3>5, <3>6
  <2>. QED
    BY <1>4, <2>2, <2>3, <2>4 DEF FreedInv, s
<1>6. CASE ~(p \in DOMAIN t /\ ~t[p].marked /\ ~HasChildren(t, p))
  <2>1. s = t
    BY <1>6 DEF FreeIfUnused
  <2>2. \A q \in DOMAIN t : tree[q].marked \/ HasChildren(t, q)
    BY <1>3, <1>6
  <2> HIDE DEF s
  <2>3. FreedInv(tree, at, k, s)
    BY <1>3, <2>1, <2>2 DEF FreedInv
  <2>. QED
    BY <2>3 DEF s
<1>. QED
  BY <1>5, <1>6

(* The walk upwards keeps it to the root.                                  *)
LEMMA FreeRuns ==
  ASSUME NEW tree, tree = [p \in DOMAIN tree |-> tree[p]], DOMAIN tree \subseteq Paths,
         NEW at \in Paths, FreedInv(tree, at, 0, tree)
  PROVE  /\ FreedInv(tree, at, Len(at) + 1, FreeUpwards(tree, at)[Len(at) + 1])
         /\ Len(at) \in Nat
<1> DEFINE n == Len(at) + 1
           after == FreeUpwards(tree, at)
           P == {k \in 0 .. n : FreedInv(tree, at, k, after[k])}
<1>1. /\ after[0] = tree /\ n \in Nat /\ Len(at) \in Nat
      /\ \A k \in 1 .. n : after[k] = FreeIfUnused(after[k - 1], Cut(at, Len(at) + 1 - k))
  <2>1. n \in Nat /\ Len(at) \in Nat
    BY DEF Paths
  <2>. QED
    BY <2>1, FreeUnrolls
<1>2. 0 \in P
  BY <1>1
<1>3. ASSUME NEW k \in 1 .. n, k - 1 \in P
      PROVE  k \in P
  <2>1. k \in 1 .. Len(at) + 1 /\ FreedInv(tree, at, k - 1, after[k - 1])
    BY <1>3
  <2> DEFINE t == after[k - 1]
  <2>2. after[k] = FreeIfUnused(t, Cut(at, Len(at) + 1 - k))
    BY <1>1
  <2> HIDE DEF after, t
  <2>3. FreedInv(tree, at, k, FreeIfUnused(t, Cut(at, Len(at) + 1 - k)))
    BY <2>1, FreeKeeps DEF t
  <2>. QED
    BY <2>2, <2>3
<1>4. 0 .. n \subseteq P
  <2> HIDE DEF P, n
  <2>. QED
    BY <1>1, <1>2, <1>3, Counting
<1>5. n \in P
  BY <1>1, <1>4
<1>. QED
  BY <1>1, <1>5

(* Deleting keeps a search tree without dead weight and removes one word   *)
(* (TernarySearchTree.cpp:120-138).                                        *)
THEOREM DeleteSound ==
  ASSUME NEW tree, SearchTree(tree), NEW key \in Word, key # <<>>
  PROVE  SearchTree(DeleteTerm(tree, key)) /\ WordsIn(DeleteTerm(tree, key)) = WordsIn(tree) \ {key}
<1> DEFINE at == Descended(tree, key).at
           unmarked == [p \in DOMAIN tree |-> [tree[p] EXCEPT !.marked = @ /\ p # at]]
           new == FreeUpwards(unmarked, at)[Len(at) + 1]
<1>1. DeleteTerm(tree, key) = new
  BY DEF DeleteTerm
<1>2. IsTree(tree) /\ HasWords(tree) /\ Live(tree)
  BY DEF SearchTree
<1>3. /\ at \in Paths
      /\ at \in DOMAIN tree => Spells(tree, at, key)
      /\ \A q : Spells(tree, q, key) => q = at
  <2>1. Found(tree, key, Descended(tree, key))
    BY <1>2, DescentFinds
  <2>. QED
    BY <2>1 DEF Found, Reached
<1> HIDE DEF at
<1>4. unmarked = [p \in DOMAIN unmarked |-> unmarked[p]] /\ DOMAIN unmarked = DOMAIN tree
  OBVIOUS
<1>5. ASSUME NEW p \in DOMAIN tree
      PROVE  /\ unmarked[p] \in TreeNodes /\ unmarked[p].data = tree[p].data
             /\ unmarked[p].marked <=> tree[p].marked /\ p # at
  <2>1. /\ tree[p] = [data |-> tree[p].data, marked |-> tree[p].marked]
        /\ tree[p].data \in Nat /\ tree[p].marked \in BOOLEAN
    BY <1>2 DEF IsTree, TreeNodes
  <2>2. unmarked[p] = [tree[p] EXCEPT !.marked = @ /\ p # at]
    OBVIOUS
  <2> DEFINE b == tree[p].marked /\ p # at
  <2> HIDE DEF unmarked
  <2>3. unmarked[p] = [data |-> tree[p].data, marked |-> b] /\ b \in BOOLEAN
    BY <2>1, <2>2
  <2> HIDE DEF b
  <2>4. unmarked[p] \in TreeNodes
    BY <2>1, <2>3 DEF TreeNodes
  <2>5. unmarked[p].data = tree[p].data /\ unmarked[p].marked = b
    BY <2>3
  <2>. QED
    BY <2>4, <2>5, Zenon DEF b
<1> HIDE DEF unmarked
<1>6. FreedInv(unmarked, at, 0, unmarked)
  <2>1. unmarked \in Subtrees(unmarked)
    <3>1. unmarked = Restrict(unmarked, DOMAIN unmarked)
      BY <1>4 DEF Restrict
    <3>. QED
      BY <3>1 DEF Subtrees
  <2>2. \A p \in DOMAIN unmarked : p # <<>> => Front(p) \in DOMAIN unmarked
    BY <1>2, <1>4 DEF IsTree
  <2>3. Cut(at, Len(at) - 0) = at /\ 0 <= Len(at)
    <3>1. at \in Seq(Links)
      BY <1>3 DEF Paths
    <3>2. Len(at) - 0 = Len(at) /\ 0 <= Len(at)
      BY <3>1
    <3>. QED
      BY <3>1, <3>2, CutAll
  <2>4. ASSUME NEW p \in DOMAIN unmarked
        PROVE  unmarked[p].marked \/ HasChildren(unmarked, p) \/ p = at
    BY <1>2, <1>4, <1>5 DEF Live, HasChildren
  <2>. QED
    BY <2>1, <2>2, <2>3, <2>4 DEF FreedInv
<1>7. FreedInv(unmarked, at, Len(at) + 1, new) /\ Len(at) \in Nat
  BY <1>2, <1>3, <1>4, <1>6, FreeRuns DEF IsTree
<1> HIDE DEF new
<1>8. /\ DOMAIN new \subseteq DOMAIN tree /\ new = [p \in DOMAIN new |-> new[p]]
      /\ \A p \in DOMAIN new : new[p] = unmarked[p]
      /\ \A p \in DOMAIN tree : unmarked[p].marked => p \in DOMAIN new
      /\ \A p \in DOMAIN new : p # <<>> => Front(p) \in DOMAIN new
      /\ \A p \in DOMAIN new : unmarked[p].marked \/ HasChildren(new, p)
  <2>1. new \in Subtrees(unmarked) /\ ~(Len(at) + 1 <= Len(at))
    BY <1>7 DEF FreedInv
  <2>. QED
    BY <1>4, <1>7, <2>1, SubtreeValues DEF FreedInv
<1>9. IsTree(new)
  <2>1. IsFiniteSet(DOMAIN new) /\ DOMAIN new \subseteq Paths
    BY <1>2, <1>8, FS_Subset DEF IsTree
  <2>2. \A p \in DOMAIN new : new[p] \in TreeNodes
    BY <1>5, <1>8
  <2>. QED
    BY <1>8, <2>1, <2>2 DEF IsTree
<1>10. \A p \in DOMAIN new : \A w : Spells(tree, p, w) <=> Spells(new, p, w)
  <2>1. \A p \in DOMAIN new : new[p].data = tree[p].data
    BY <1>5, <1>8
  <2>. QED
    BY <1>2, <1>8, <1>9, <2>1, SpellsFrame
<1>11. HasWords(new)
  BY <1>2, <1>8, <1>10 DEF HasWords
<1>12. Live(new)
  BY <1>8 DEF Live
<1>13. ASSUME NEW w \in WordsIn(new)
       PROVE  w \in WordsIn(tree) \ {key}
  <2>1. PICK q \in DOMAIN new : new[q].marked /\ Spells(new, q, w)
    BY DEF WordsIn
  <2>2. q \in DOMAIN tree /\ tree[q].marked /\ q # at /\ Spells(tree, q, w) /\ w \in Word
    BY <1>5, <1>8, <1>10, <2>1 DEF Spells
  <2>3. w # key
    BY <1>3, <2>2
  <2>. QED
    BY <2>2, <2>3 DEF WordsIn
<1>14. ASSUME NEW w \in WordsIn(tree) \ {key}
       PROVE  w \in WordsIn(new)
  <2>1. PICK q \in DOMAIN tree : tree[q].marked /\ Spells(tree, q, w)
    BY DEF WordsIn
  <2>2. q # at
    BY <1>2, <1>3, <2>1, OneWord
  <2>3. unmarked[q].marked
    BY <1>5, <2>1, <2>2
  <2>4. q \in DOMAIN new /\ new[q].marked /\ Spells(new, q, w) /\ w \in Word
    BY <1>8, <1>10, <2>1, <2>3 DEF Spells
  <2>. QED
    BY <2>4 DEF WordsIn
<1>15. SearchTree(new) /\ WordsIn(new) = WordsIn(tree) \ {key}
  BY <1>9, <1>11, <1>12, <1>13, <1>14 DEF SearchTree
<1>. QED
  BY <1>1, <1>15

-----------------------------------------------------------------------------
(* The pointers with at most n links below them, by the longest path that  *)
(* is possible.                                                            *)
Level(tree, n) == {p \in TreePointers(tree) : Len(p) + n >= Cardinality(DOMAIN tree)}

(* A pointer is no further down than the tree has nodes.                   *)
LEMMA PointerBound ==
  ASSUME NEW tree, IsTree(tree), NEW p \in TreePointers(tree)
  PROVE  /\ Len(p) \in Nat /\ Cardinality(DOMAIN tree) \in Nat
         /\ Len(p) <= Cardinality(DOMAIN tree) /\ p \in Paths
BY PointersReached, PathBound DEF Reached

(* The links of a node are pointers, one link further down.                *)
LEMMA ChildPointer ==
  ASSUME NEW tree, IsTree(tree), NEW p \in DOMAIN tree, NEW link \in Links
  PROVE  /\ Append(p, link) \in TreePointers(tree) /\ Len(p) \in Nat /\ p \in Paths
         /\ Len(Append(p, link)) = Len(p) + 1 /\ Append(p, link) \in Paths
<1>1. p \in Seq(Links)
  BY NodeType DEF Paths
<1>. QED
  BY <1>1, CutAppend DEF TreePointers, Paths

(* The deepest pointers are null.                                          *)
LEMMA LevelStart ==
  ASSUME NEW tree, IsTree(tree)
  PROVE  Level(tree, 0) \cap DOMAIN tree = {}
<1>1. SUFFICES ASSUME NEW p \in Level(tree, 0), p \in DOMAIN tree PROVE FALSE
  OBVIOUS
<1> DEFINE q == Append(p, "lChild")
<1>2. q \in TreePointers(tree) /\ Len(q) = Len(p) + 1 /\ Len(p) \in Nat
  BY <1>1, ChildPointer DEF Links
<1> HIDE DEF q
<1>3. Len(q) <= Cardinality(DOMAIN tree) /\ Cardinality(DOMAIN tree) \in Nat
  BY <1>2, PointerBound
<1>4. Len(p) + 0 >= Cardinality(DOMAIN tree)
  BY DEF Level
<1>. QED
  BY <1>2, <1>3, <1>4

(* The children of a level's nodes are in the level below it.              *)
LEMMA LevelNext ==
  ASSUME NEW tree, IsTree(tree), NEW k \in 1 .. Cardinality(DOMAIN tree),
         NEW p \in Level(tree, k), p \in DOMAIN tree, NEW link \in Links
  PROVE  Append(p, link) \in Level(tree, k - 1) /\ Append(p, link) \in Level(tree, k)
<1> DEFINE q == Append(p, link)
<1>1. q \in TreePointers(tree) /\ Len(q) = Len(p) + 1 /\ Len(p) \in Nat
  BY ChildPointer
<1>2. Cardinality(DOMAIN tree) \in Nat /\ Len(p) + k >= Cardinality(DOMAIN tree)
  BY FS_CardinalityType DEF Level, IsTree
<1> HIDE DEF q
<1>3. /\ Len(q) + (k - 1) >= Cardinality(DOMAIN tree)
      /\ Len(q) + k >= Cardinality(DOMAIN tree)
  BY <1>1, <1>2
<1>4. q \in Level(tree, k - 1) /\ q \in Level(tree, k)
  BY <1>1, <1>3 DEF Level
<1>. QED
  BY <1>4 DEF q

(* The levels end with every pointer of the tree.                          *)
LEMMA LevelEnd ==
  ASSUME NEW tree, IsTree(tree)
  PROVE  Level(tree, Cardinality(DOMAIN tree)) = TreePointers(tree)
<1>1. ASSUME NEW p \in TreePointers(tree)
      PROVE  Len(p) + Cardinality(DOMAIN tree) >= Cardinality(DOMAIN tree)
  BY PointerBound
<1>. QED
  BY <1>1 DEF Level

(* From the null pointers up to the root.                                  *)
LEMMA UpwardInduction ==
  ASSUME NEW tree, IsTree(tree), NEW P,
         \A p \in TreePointers(tree) : p \notin DOMAIN tree => p \in P,
         \A p \in DOMAIN tree : (\A link \in Links : Append(p, link) \in P) => p \in P
  PROVE  TreePointers(tree) \subseteq P
<1> DEFINE n == Cardinality(DOMAIN tree)
           Q == {k \in 0 .. n : Level(tree, k) \subseteq P}
<1>1. n \in Nat
  BY FS_CardinalityType DEF IsTree
<1>2. 0 \in Q
  <2>1. \A p \in Level(tree, 0) : p \in TreePointers(tree) /\ p \notin DOMAIN tree
    BY LevelStart DEF Level
  <2>. QED
    BY <1>1, <2>1
<1>3. ASSUME NEW k \in 1 .. n, k - 1 \in Q
      PROVE  k \in Q
  <2>1. ASSUME NEW p \in Level(tree, k)
        PROVE  p \in P
    <3>1. CASE p \notin DOMAIN tree
      BY <3>1 DEF Level
    <3>2. CASE p \in DOMAIN tree
      <4>1. \A link \in Links : Append(p, link) \in Level(tree, k - 1)
        BY <3>2, LevelNext
      <4>. QED
        BY <1>3, <3>2, <4>1
    <3>. QED
      BY <3>1, <3>2
  <2>. QED
    BY <1>1, <2>1
<1>4. 0 .. n \subseteq Q
  <2> HIDE DEF Q, n
  <2>. QED
    BY <1>1, <1>2, <1>3, Counting
<1>. QED
  BY <1>1, <1>4, LevelEnd

(* prefixHelper, call by call (TernarySearchTree.cpp:49-59).               *)
LEMMA HelperUnrolls ==
  ASSUME NEW tree, IsTree(tree)
  PROVE  LET below == PrefixHelper(tree)
         IN  \A p \in TreePointers(tree) :
               /\ p \notin DOMAIN tree => below[p] = <<>>
               /\ p \in DOMAIN tree => below[p] = below[Append(p, "lChild")]
                 \o (IF tree[p].marked THEN <<<<tree[p].data>>>> ELSE <<>>)
                 \o Behind(<<tree[p].data>>, below[Append(p, "mChild")])
                 \o below[Append(p, "rChild")]
<1> DEFINE n == Cardinality(DOMAIN tree)
           Step(g, p) == IF p \notin DOMAIN tree THEN <<>> ELSE g[Append(p, "lChild")]
                 \o (IF tree[p].marked THEN <<<<tree[p].data>>>> ELSE <<>>)
                 \o Behind(<<tree[p].data>>, g[Append(p, "mChild")])
                 \o g[Append(p, "rChild")]
           Eq(S, g) == [p \in S |-> Step(g, p)]
           below == CHOOSE g : g = Eq(TreePointers(tree), g)
           P == {k \in 0 .. n : \E g : g = Eq(Level(tree, k), g)}
<1>1. PrefixHelper(tree) = below
  BY DEF PrefixHelper
<1>2. n \in Nat
  BY FS_CardinalityType DEF IsTree
<1>3. ASSUME NEW p, NEW f, NEW g,
             \A link \in Links : p \in DOMAIN tree => f[Append(p, link)] = g[Append(p, link)]
      PROVE  Step(f, p) = Step(g, p)
  BY <1>3 DEF Links
<1>4. \A p, g : p \notin DOMAIN tree => Step(g, p) = <<>>
  OBVIOUS
<1> HIDE DEF Step, n
<1>5. 0 \in P
  <2> DEFINE g == [p \in Level(tree, 0) |-> <<>>]
  <2>1. g = Eq(Level(tree, 0), g)
    BY <1>4, LevelStart
  <2>2. 0 \in 0 .. n
    BY <1>2
  <2> HIDE DEF g
  <2>. QED
    BY <2>1, <2>2
<1>6. ASSUME NEW k \in 1 .. n, k - 1 \in P
      PROVE  k \in P
  <2>1. PICK g : g = Eq(Level(tree, k - 1), g)
    BY <1>6
  <2> DEFINE more == [p \in Level(tree, k) |-> IF p \in Level(tree, k - 1) THEN g[p] ELSE Step(g, p)]
  <2>2. ASSUME NEW p \in Level(tree, k)
        PROVE  more[p] = Step(more, p)
    <3>1. \A link \in Links : p \in DOMAIN tree =>
            Append(p, link) \in Level(tree, k - 1) /\ Append(p, link) \in Level(tree, k)
      BY <1>2, LevelNext DEF n
    <3>2. \A link \in Links : p \in DOMAIN tree => more[Append(p, link)] = g[Append(p, link)]
      BY <3>1
    <3>3. Step(more, p) = Step(g, p)
      <4> HIDE DEF more
      <4>. QED
        BY <1>3, <3>2
    <3>4. p \in Level(tree, k - 1) => g[p] = Step(g, p)
      BY <2>1
    <3>. QED
      BY <3>3, <3>4
  <2>3. more = Eq(Level(tree, k), more)
    BY <2>2
  <2>4. k \in 0 .. n
    BY <1>2
  <2> HIDE DEF more
  <2>. QED
    BY <2>3, <2>4
<1>7. 0 .. n \subseteq P
  <2> HIDE DEF P
  <2>. QED
    BY <1>2, <1>5, <1>6, Counting
<1>8. \E g : g = Eq(TreePointers(tree), g)
  <2>1. n \in P /\ Level(tree, n) = TreePointers(tree)
    BY <1>2, <1>7, LevelEnd DEF n
  <2>. QED
    BY <2>1
<1>9. below = Eq(TreePointers(tree), below)
  BY <1>8
<1> HIDE DEF below
<1>10. \A p \in TreePointers(tree) : below[p] = Step(below, p)
  BY <1>9
<1>. QED
  BY <1>1, <1>10 DEF Step

(* traverseTSTCount, call by call (TernarySearchTree.cpp:103-113).         *)
LEMMA CountUnrolls ==
  ASSUME NEW tree, IsTree(tree)
  PROVE  LET count == TraverseTSTCount(tree)
         IN  \A p \in TreePointers(tree) :
               /\ p \notin DOMAIN tree => count[p] = 0
               /\ p \in DOMAIN tree => count[p] = count[Append(p, "lChild")] + (IF tree[p].marked THEN 1 ELSE 0)
                 + count[Append(p, "mChild")] + count[Append(p, "rChild")]
<1> DEFINE n == Cardinality(DOMAIN tree)
           Step(g, p) == IF p \notin DOMAIN tree THEN 0 ELSE g[Append(p, "lChild")] + (IF tree[p].marked THEN 1 ELSE 0)
                 + g[Append(p, "mChild")] + g[Append(p, "rChild")]
           Eq(S, g) == [p \in S |-> Step(g, p)]
           count == CHOOSE g : g = Eq(TreePointers(tree), g)
           P == {k \in 0 .. n : \E g : g = Eq(Level(tree, k), g)}
<1>1. TraverseTSTCount(tree) = count
  BY DEF TraverseTSTCount
<1>2. n \in Nat
  BY FS_CardinalityType DEF IsTree
<1>3. ASSUME NEW p, NEW f, NEW g,
             \A link \in Links : p \in DOMAIN tree => f[Append(p, link)] = g[Append(p, link)]
      PROVE  Step(f, p) = Step(g, p)
  BY <1>3 DEF Links
<1>4. \A p, g : p \notin DOMAIN tree => Step(g, p) = 0
  OBVIOUS
<1> HIDE DEF Step, n
<1>5. 0 \in P
  <2> DEFINE g == [p \in Level(tree, 0) |-> 0]
  <2>1. g = Eq(Level(tree, 0), g)
    BY <1>4, LevelStart
  <2>2. 0 \in 0 .. n
    BY <1>2
  <2> HIDE DEF g
  <2>. QED
    BY <2>1, <2>2
<1>6. ASSUME NEW k \in 1 .. n, k - 1 \in P
      PROVE  k \in P
  <2>1. PICK g : g = Eq(Level(tree, k - 1), g)
    BY <1>6
  <2> DEFINE more == [p \in Level(tree, k) |-> IF p \in Level(tree, k - 1) THEN g[p] ELSE Step(g, p)]
  <2>2. ASSUME NEW p \in Level(tree, k)
        PROVE  more[p] = Step(more, p)
    <3>1. \A link \in Links : p \in DOMAIN tree =>
            Append(p, link) \in Level(tree, k - 1) /\ Append(p, link) \in Level(tree, k)
      BY <1>2, LevelNext DEF n
    <3>2. \A link \in Links : p \in DOMAIN tree => more[Append(p, link)] = g[Append(p, link)]
      BY <3>1
    <3>3. Step(more, p) = Step(g, p)
      <4> HIDE DEF more
      <4>. QED
        BY <1>3, <3>2
    <3>4. p \in Level(tree, k - 1) => g[p] = Step(g, p)
      BY <2>1
    <3>. QED
      BY <3>3, <3>4
  <2>3. more = Eq(Level(tree, k), more)
    BY <2>2
  <2>4. k \in 0 .. n
    BY <1>2
  <2> HIDE DEF more
  <2>. QED
    BY <2>3, <2>4
<1>7. 0 .. n \subseteq P
  <2> HIDE DEF P
  <2>. QED
    BY <1>2, <1>5, <1>6, Counting
<1>8. \E g : g = Eq(TreePointers(tree), g)
  <2>1. n \in P /\ Level(tree, n) = TreePointers(tree)
    BY <1>2, <1>7, LevelEnd DEF n
  <2>. QED
    BY <2>1
<1>9. count = Eq(TreePointers(tree), count)
  BY <1>8
<1> HIDE DEF count
<1>10. \A p \in TreePointers(tree) : count[p] = Step(count, p)
  BY <1>9
<1>. QED
  BY <1>1, <1>10 DEF Step

-----------------------------------------------------------------------------
Sorted(s) == \A i, j \in DOMAIN s : i < j => Before(s[i], s[j])

(* A word without its first n letters.                                     *)
Rest(w, n) == SubSeq(w, n + 1, Len(w))

(* A word without its first n letters: how long, and which letters.        *)
LEMMA RestProperties ==
  ASSUME NEW w \in Word, NEW n \in 0 .. Len(w)
  PROVE  /\ Rest(w, n) \in Word /\ Len(Rest(w, n)) = Len(w) - n /\ Len(w) \in Nat
         /\ \A i \in 1 .. Len(w) - n : Rest(w, n)[i] = w[n + i]
<1>1. w \in Seq(Nat) /\ Len(w) \in Nat
  BY DEF Word
<1>2. \A i \in n + 1 .. Len(w) : w[i] \in Nat
  BY <1>1
<1>3. n + 1 \in Int /\ Len(w) \in Int
  BY <1>1
<1>4. /\ SubSeq(w, n + 1, Len(w)) \in Seq(Nat)
      /\ Len(SubSeq(w, n + 1, Len(w))) = IF n + 1 <= Len(w) THEN Len(w) - (n + 1) + 1 ELSE 0
      /\ \A i \in 1 .. Len(w) - (n + 1) + 1 : SubSeq(w, n + 1, Len(w))[i] = w[n + 1 + i - 1]
  BY <1>2, <1>3, SubSeqProperties
<1>5. /\ Len(w) - (n + 1) + 1 = Len(w) - n
      /\ (IF n + 1 <= Len(w) THEN Len(w) - (n + 1) + 1 ELSE 0) = Len(w) - n
      /\ \A i \in 1 .. Len(w) - n : n + 1 + i - 1 = n + i
  BY <1>1
<1> DEFINE s == SubSeq(w, n + 1, Len(w))
<1>6. s = Rest(w, n)
  BY DEF Rest
<1> HIDE DEF s
<1>7. s \in Seq(Nat) /\ Len(s) = Len(w) - n
  BY <1>4, <1>5 DEF s
<1>8. \A i \in 1 .. Len(w) - n : s[i] = w[n + i]
  BY <1>4, <1>5 DEF s
<1>. QED
  BY <1>1, <1>6, <1>7, <1>8 DEF Word

(* No word comes before itself.                                            *)
LEMMA NotBeforeItself ==
  ASSUME NEW v \in Word
  PROVE  ~Before(v, v)
BY DEF Before, Word

(* A word with the smaller first letter comes first.                       *)
LEMMA SmallerFirst ==
  ASSUME NEW v \in Word, NEW w \in Word, Len(v) >= 1, Len(w) >= 1, v[1] < w[1]
  PROVE  Before(v, w)
<1>1. 1 \in 1 .. Len(w) /\ 1 <= Len(v) + 1 /\ \A i \in 1 .. 1 - 1 : v[i] = w[i]
  BY DEF Word
<1>. QED
  BY <1>1 DEF Before

(* A proper prefix comes first.                                            *)
LEMMA PrefixFirst ==
  ASSUME NEW c \in Word, NEW v \in Word, Len(v) >= 1
  PROVE  Before(c, c \o v)
<1>1. /\ Len(c \o v) = Len(c) + Len(v) /\ Len(c) \in Nat /\ Len(v) \in Nat
      /\ \A i \in 1 .. Len(c) : (c \o v)[i] = c[i]
  BY DEF Word
<1> DEFINE n == Len(c) + 1
           w == c \o v
<1> HIDE DEF w
<1>2. n \in 1 .. Len(w) /\ n <= Len(c) + 1 /\ ~(n <= Len(c)) /\ \A i \in 1 .. n - 1 : c[i] = w[i]
  BY <1>1 DEF w
<1> HIDE DEF n
<1>3. Before(c, w)
  BY <1>2 DEF Before
<1>. QED
  BY <1>3 DEF w

(* A common prefix does not change the order.                              *)
LEMMA SamePrefix ==
  ASSUME NEW c \in Word, NEW v \in Word, NEW w \in Word, Before(v, w)
  PROVE  Before(c \o v, c \o w)
<1>1. PICK n \in 1 .. Len(w) : /\ n <= Len(v) + 1 /\ \A i \in 1 .. n - 1 : v[i] = w[i]
                               /\ n <= Len(v) => v[n] < w[n]
  BY DEF Before
<1> DEFINE a == c \o v
           b == c \o w
           m == Len(c) + n
<1>2. Len(c) \in Nat /\ Len(v) \in Nat /\ Len(w) \in Nat
  BY DEF Word
<1>3. /\ Len(a) = Len(c) + Len(v)
      /\ \A i \in 1 .. Len(c) : a[i] = c[i]
      /\ \A i \in 1 .. Len(v) : a[Len(c) + i] = v[i]
  BY DEF Word
<1>4. /\ Len(b) = Len(c) + Len(w)
      /\ \A i \in 1 .. Len(c) : b[i] = c[i]
      /\ \A i \in 1 .. Len(w) : b[Len(c) + i] = w[i]
  BY DEF Word
<1> HIDE DEF a, b
<1>5. m \in 1 .. Len(b) /\ m <= Len(a) + 1
  BY <1>1, <1>2, <1>3, <1>4
<1>6. ASSUME NEW i \in 1 .. m - 1
      PROVE  a[i] = b[i]
  <2>1. CASE i <= Len(c)
    BY <1>2, <1>3, <1>4, <2>1
  <2>2. CASE ~(i <= Len(c))
    <3> DEFINE j == i - Len(c)
    <3>1. j \in 1 .. n - 1 /\ j \in 1 .. Len(v) /\ j \in 1 .. Len(w) /\ Len(c) + j = i
      BY <1>1, <1>2, <2>2
    <3> HIDE DEF j
    <3>2. a[Len(c) + j] = v[j] /\ b[Len(c) + j] = w[j] /\ v[j] = w[j]
      BY <1>1, <1>3, <1>4, <3>1
    <3>. QED
      BY <3>1, <3>2
  <2>. QED
    BY <2>1, <2>2
<1>7. m <= Len(a) => a[m] < b[m]
  <2>1. SUFFICES ASSUME m <= Len(a) PROVE a[m] < b[m]
    OBVIOUS
  <2>2. n <= Len(v) /\ n \in 1 .. Len(v)
    BY <1>2, <1>3, <2>1
  <2>3. a[m] = v[n] /\ b[m] = w[n]
    BY <1>3, <1>4, <2>2
  <2>. QED
    BY <1>1, <2>2, <2>3
<1> HIDE DEF m
<1>8. Before(a, b)
  BY <1>5, <1>6, <1>7 DEF Before
<1>. QED
  BY <1>8 DEF a, b

(* One list behind another.                                                *)
LEMMA Joined ==
  ASSUME NEW s \in Seq(Word), NEW t \in Seq(Word), Sorted(s), Sorted(t),
         \A v \in ToSet(s) : \A w \in ToSet(t) : Before(v, w)
  PROVE  /\ s \o t \in Seq(Word) /\ Sorted(s \o t)
         /\ ToSet(s \o t) = ToSet(s) \cup ToSet(t)
         /\ Len(s \o t) = Len(s) + Len(t)
<1> DEFINE r == s \o t
           m == Len(s)
           n == Len(t)
<1>1. /\ r \in Seq(Word) /\ Len(r) = m + n /\ m \in Nat /\ n \in Nat
      /\ DOMAIN r = 1 .. m + n /\ DOMAIN s = 1 .. m /\ DOMAIN t = 1 .. n
      /\ \A i \in 1 .. m : r[i] = s[i]
      /\ \A i \in 1 .. n : r[m + i] = t[i]
  OBVIOUS
<1> HIDE DEF r, m, n
<1>2. \A i \in 1 .. m + n : i \in 1 .. m \/ (i - m \in 1 .. n /\ m + (i - m) = i)
  BY <1>1
<1>3. \A i \in 1 .. m + n : ~(i \in 1 .. m) => i - m \in 1 .. n /\ r[i] = t[i - m]
  BY <1>1, <1>2
<1>4. \A i \in 1 .. m : s[i] \in ToSet(s) /\ r[i] = s[i]
  BY <1>1 DEF ToSet
<1>5. \A i \in 1 .. n : t[i] \in ToSet(t) /\ r[m + i] = t[i] /\ m + i \in 1 .. m + n
  BY <1>1 DEF ToSet
<1>6. Sorted(r)
  <2>1. ASSUME NEW i \in 1 .. m + n, NEW j \in 1 .. m + n, i < j
        PROVE  Before(r[i], r[j])
    <3>1. CASE j \in 1 .. m
      <4>1. i \in 1 .. m
        BY <1>1, <2>1, <3>1
      <4>. QED
        BY <1>1, <1>4, <2>1, <3>1, <4>1 DEF Sorted
    <3>2. CASE i \in 1 .. m /\ j \notin 1 .. m
      BY <1>3, <1>4, <1>5, <3>2
    <3>3. CASE i \notin 1 .. m
      <4>1. j \notin 1 .. m
        BY <1>1, <2>1, <3>3
      <4>2. i - m < j - m
        BY <1>1, <2>1
      <4>. QED
        BY <1>1, <1>3, <3>3, <4>1, <4>2 DEF Sorted
    <3>. QED
      BY <3>1, <3>2, <3>3
  <2>. QED
    BY <1>1, <2>1 DEF Sorted
<1>7. ToSet(r) = ToSet(s) \cup ToSet(t)
  <2>1. ASSUME NEW x \in ToSet(r)
        PROVE  x \in ToSet(s) \cup ToSet(t)
    <3>1. PICK i \in 1 .. m + n : x = r[i]
      BY <1>1 DEF ToSet
    <3>. QED
      BY <1>3, <1>4, <1>5, <3>1
  <2>2. \A i \in 1 .. m : i \in 1 .. m + n
    BY <1>1
  <2>3. ASSUME NEW x \in ToSet(s)
        PROVE  x \in ToSet(r)
    <3>1. PICK i \in 1 .. m : x = s[i]
      BY <1>1 DEF ToSet
    <3>. QED
      BY <1>1, <1>4, <2>2, <3>1 DEF ToSet
  <2>4. ASSUME NEW x \in ToSet(t)
        PROVE  x \in ToSet(r)
    <3>1. PICK i \in 1 .. n : x = t[i]
      BY <1>1 DEF ToSet
    <3>. QED
      BY <1>1, <1>5, <3>1 DEF ToSet
  <2>. QED
    BY <2>1, <2>3, <2>4
<1>. QED
  BY <1>1, <1>6, <1>7 DEF r, m, n

(* Putting a prefix before every word of a sorted list keeps it sorted.    *)
LEMMA BehindProperties ==
  ASSUME NEW words \in Seq(Word), Sorted(words), NEW c \in Word
  PROVE  /\ Behind(c, words) \in Seq(Word) /\ Sorted(Behind(c, words))
         /\ ToSet(Behind(c, words)) = {c \o v : v \in ToSet(words)}
         /\ Len(Behind(c, words)) = Len(words)
<1> DEFINE n == Len(words)
           r == Behind(c, words)
<1>1. n \in Nat /\ DOMAIN words = 1 .. n /\ \A i \in 1 .. n : words[i] \in Word
  OBVIOUS
<1>2. r = [i \in 1 .. n |-> c \o words[i]]
  BY <1>1 DEF Behind
<1>3. \A v \in Word : c \o v \in Word
  BY DEF Word
<1> HIDE DEF n, r
<1>4. /\ DOMAIN r = 1 .. n /\ \A i \in 1 .. n : r[i] = c \o words[i]
      /\ \A i \in 1 .. n : r[i] \in Word
  BY <1>1, <1>2, <1>3
<1>5. r \in Seq(Word) /\ Len(r) = n
  <2>1. r = [i \in 1 .. n |-> r[i]]
    BY <1>2, <1>4
  <2>. QED
    BY <1>1, <1>4, <2>1
<1>6. Sorted(r)
  <2>1. ASSUME NEW i \in 1 .. n, NEW j \in 1 .. n, i < j
        PROVE  Before(r[i], r[j])
    <3>1. Before(words[i], words[j])
      BY <1>1, <2>1 DEF Sorted
    <3>. QED
      BY <1>1, <1>4, <3>1, SamePrefix
  <2>. QED
    BY <1>4, <2>1 DEF Sorted
<1>7. ToSet(r) = {c \o v : v \in ToSet(words)}
  BY <1>1, <1>4 DEF ToSet
<1>. QED
  BY <1>5, <1>6, <1>7 DEF n, r

(* Strictly sorted, so each word once.                                     *)
LEMMA SortedCount ==
  ASSUME NEW s \in Seq(Word), Sorted(s)
  PROVE  Len(s) = Cardinality(ToSet(s))
<1>1. Len(s) \in Nat /\ DOMAIN s = 1 .. Len(s) /\ s \in [1 .. Len(s) -> ToSet(s)]
  BY DEF ToSet
<1>2. ASSUME NEW i \in 1 .. Len(s), NEW j \in 1 .. Len(s), s[i] = s[j]
      PROVE  i = j
  <2>1. s[i] \in Word /\ ~Before(s[i], s[i])
    BY NotBeforeItself
  <2>2. ~(i < j) /\ ~(j < i)
    BY <1>1, <1>2, <2>1 DEF Sorted
  <2>. QED
    BY <2>2
<1>3. s \in Bijection(1 .. Len(s), ToSet(s))
  <2>1. s \in Injection(1 .. Len(s), ToSet(s))
    BY <1>1, <1>2 DEF Injection, IsInjective
  <2>2. s \in Surjection(1 .. Len(s), ToSet(s))
    BY <1>1 DEF Surjection, ToSet
  <2>. QED
    BY <2>1, <2>2 DEF Bijection
<1>4. IsFiniteSet(1 .. Len(s)) /\ Cardinality(1 .. Len(s)) = Len(s)
  <2>1. 1 \in Int /\ Len(s) \in Int
    BY <1>1
  <2>2. /\ IsFiniteSet(1 .. Len(s))
        /\ Cardinality(1 .. Len(s)) = IF 1 > Len(s) THEN 0 ELSE Len(s) - 1 + 1
    BY <2>1, FS_Interval
  <2>. QED
    BY <1>1, <2>2
<1>5. ExistsBijection(1 .. Len(s), ToSet(s))
  BY <1>3 DEF ExistsBijection
<1>6. Cardinality(ToSet(s)) = Cardinality(1 .. Len(s))
  BY <1>4, <1>5, FS_Bijection
<1>. QED
  BY <1>4, <1>6

-----------------------------------------------------------------------------
Under(p, q) == Len(p) <= Len(q) /\ Cut(q, Len(p)) = p

(* What is pushed below p: the words of the marked nodes there, without    *)
(* the current.                                                            *)
Ending(tree, p, q, v) ==
  /\ q \in DOMAIN tree /\ tree[q].marked /\ Under(p, q)
  /\ \E w : Spells(tree, q, w) /\ v = Rest(w, Depth(p, Len(p)))

Below(tree, p) == {v \in Word : \E q : Ending(tree, p, q, v)}

(* Nothing is pushed below a null pointer.                                 *)
LEMMA NoneBelow ==
  ASSUME NEW tree, IsTree(tree), NEW p \in TreePointers(tree), p \notin DOMAIN tree
  PROVE  Below(tree, p) = {}
<1>1. Len(p) \in Nat
  BY PointerBound
<1>2. ASSUME NEW q \in DOMAIN tree, Under(p, q)
      PROVE  FALSE
  <2>1. Len(q) \in Nat
    BY NodesArePointers
  <2>2. Len(p) \in 0 .. Len(q) /\ Cut(q, Len(p)) = p
    BY <1>1, <1>2, <2>1 DEF Under
  <2>. QED
    BY <2>2, Ancestors
<1>. QED
  BY <1>2 DEF Below, Ending

(* A node below p is p or below one of its links.                          *)
LEMMA UnderSplits ==
  ASSUME NEW tree, IsTree(tree), NEW p \in DOMAIN tree, NEW q \in DOMAIN tree
  PROVE  /\ Under(p, q) /\ q # p =>
              /\ Len(p) + 1 \in 1 .. Len(q) /\ q[Len(p) + 1] \in Links
              /\ Under(Append(p, q[Len(p) + 1]), q)
         /\ \A link \in Links : Under(Append(p, link), q) =>
              Under(p, q) /\ q # p /\ q[Len(p) + 1] = link
<1>1. p \in Seq(Links) /\ q \in Seq(Links) /\ Len(p) \in Nat /\ Len(q) \in Nat
  BY NodesArePointers DEF Paths
<1>2. ASSUME Under(p, q), q # p
      PROVE  /\ Len(p) + 1 \in 1 .. Len(q) /\ q[Len(p) + 1] \in Links
             /\ Under(Append(p, q[Len(p) + 1]), q)
  <2>1. Len(p) # Len(q)
    <3>1. Cut(q, Len(q)) = q
      BY <1>1, CutAll
    <3>. QED
      BY <1>2, <3>1 DEF Under
  <2> DEFINE n == Len(p) + 1
  <2>2. n \in 1 .. Len(q) /\ n - 1 = Len(p)
    BY <1>1, <1>2, <2>1 DEF Under
  <2> HIDE DEF n
  <2>3. q[n] \in Links
    BY <1>1, <2>2
  <2>4. Append(Cut(q, n - 1), q[n]) = Cut(q, n)
    BY <1>1, <2>2, CutNext
  <2>5. Append(p, q[n]) = Cut(q, n)
    BY <1>2, <2>2, <2>4 DEF Under
  <2>6. Len(Append(p, q[n])) = n
    <3>1. Len(Append(p, q[n])) = Len(p) + 1
      BY <1>1, <2>3, CutAppend
    <3>. QED
      BY <3>1 DEF n
  <2>7. Under(Append(p, q[n]), q)
    BY <1>1, <2>2, <2>5, <2>6 DEF Under
  <2>. QED
    BY <2>2, <2>3, <2>7 DEF n
<1>3. ASSUME NEW link \in Links, Under(Append(p, link), q)
      PROVE  Under(p, q) /\ q # p /\ q[Len(p) + 1] = link
  <2> DEFINE n == Len(p) + 1
             r == Append(p, link)
  <2>1. Len(r) = n /\ r[n] = link /\ Cut(r, Len(p)) = p
    BY <1>1, CutAppend
  <2> HIDE DEF r
  <2>2. n <= Len(q) /\ Cut(q, n) = r
    BY <1>3, <2>1 DEF Under, r
  <2>3. n \in 0 .. Len(q) /\ n \in 1 .. n /\ Len(p) \in 0 .. n
    BY <1>1, <2>2
  <2>4. q[n] = link
    <3> HIDE DEF n
    <3>1. Cut(q, n)[n] = q[n]
      BY <1>1, <2>3, CutProperties
    <3>. QED
      BY <2>1, <2>2, <3>1
  <2>5. Cut(q, Len(p)) = p
    <3>1. Cut(Cut(q, n), Len(p)) = Cut(q, Len(p))
      <4> HIDE DEF n
      <4>. QED
        BY <1>1, <2>3, CutAgain
    <3>. QED
      BY <2>1, <2>2, <3>1
  <2>6. q # p
    BY <1>1, <2>2
  <2>. QED
    BY <1>1, <2>2, <2>4, <2>5, <2>6 DEF Under
<1>. QED
  BY <1>2, <1>3

(* The depth one link further down.                                        *)
LEMMA DepthAppend ==
  ASSUME NEW p \in Paths, NEW link \in Links
  PROVE  /\ Depth(p, Len(p)) \in Nat
         /\ Depth(Append(p, link), Len(Append(p, link)))
              = Depth(p, Len(p)) + (IF link = "mChild" THEN 1 ELSE 0)
<1> DEFINE r == Append(p, link)
<1>1. /\ p \in Seq(Links) /\ Len(p) \in Nat /\ Len(r) = Len(p) + 1 /\ r[Len(p) + 1] = link
      /\ \A i \in 1 .. Len(p) : r[i] = p[i]
  BY DEF Paths
<1> HIDE DEF r
<1>2. Depth(r, Len(p)) = Depth(p, Len(p)) /\ Depth(p, Len(p)) \in Nat
  BY <1>1, DepthSame, DepthNext
<1>3. Depth(r, Len(p) + 1) = Depth(r, Len(p)) + (IF r[Len(p) + 1] = "mChild" THEN 1 ELSE 0)
  BY <1>1, DepthNext
<1>4. Depth(r, Len(r)) = Depth(p, Len(p)) + (IF link = "mChild" THEN 1 ELSE 0)
  BY <1>1, <1>2, <1>3
<1>. QED
  BY <1>2, <1>4 DEF r

(* A word that ends below p, and its letter at p.                          *)
LEMMA UnderSpells ==
  ASSUME NEW tree, IsTree(tree), NEW p \in DOMAIN tree, NEW q \in DOMAIN tree, Under(p, q),
         NEW w, Spells(tree, q, w)
  PROVE  LET d == Depth(p, Len(p))
         IN  /\ w \in Word /\ d \in Nat /\ d + 1 <= Len(w) /\ Len(w) \in Nat /\ w[d + 1] \in Nat
             /\ q = p => d + 1 = Len(w) /\ w[d + 1] = tree[p].data
             /\ q # p => /\ q[Len(p) + 1] = "lChild" => w[d + 1] < tree[p].data
                         /\ q[Len(p) + 1] = "mChild" => w[d + 1] = tree[p].data /\ d + 1 < Len(w)
                         /\ q[Len(p) + 1] = "rChild" => w[d + 1] > tree[p].data
<1> DEFINE d == Depth(p, Len(p))
<1>1. /\ p \in Paths /\ q \in Paths /\ w \in Word /\ Len(w) \in Nat /\ Way(tree, w, q)
      /\ Len(w) = Depth(q, Len(q)) + 1 /\ w[Len(w)] = tree[q].data
      /\ Len(p) \in Nat /\ Len(q) \in Nat
  BY NodesArePointers DEF Spells, Word
<1>2. Len(p) \in 0 .. Len(q) /\ Cut(q, Len(p)) = p
  BY <1>1 DEF Under
<1>3. Depth(q, Len(p)) = d
  <2>1. Len(p) \in 0 .. Len(p)
    BY <1>1
  <2>2. Depth(Cut(q, Len(p)), Len(p)) = Depth(q, Len(p))
    BY <1>1, <1>2, <2>1, DepthOfCut
  <2>. QED
    BY <1>2, <2>2
<1>4. d \in Nat /\ d + 1 \in 1 .. Len(w) /\ w[d + 1] \in Nat
  <2>1. /\ Depth(q, Len(p)) \in Nat /\ Depth(q, Len(p)) + 1 \in 1 .. Len(w)
        /\ w[Depth(q, Len(p)) + 1] \in Nat
    BY <1>1, <1>2, LetterThere
  <2> HIDE DEF d
  <2>. QED
    BY <1>3, <2>1
<1> HIDE DEF d
<1>5. CASE q = p
  BY <1>1, <1>3, <1>4, <1>5 DEF d
<1>6. CASE q # p
  <2>1. Len(p) + 1 \in 1 .. Len(q)
    BY <1>6, UnderSplits
  <2>2. Turn(tree, w, q, Len(p) + 1)
    BY <1>1, <2>1 DEF Way
  <2>3. /\ q[Len(p) + 1] = "lChild" => w[d + 1] < tree[p].data
        /\ q[Len(p) + 1] = "mChild" => w[d + 1] = tree[p].data
        /\ q[Len(p) + 1] = "rChild" => w[d + 1] > tree[p].data
    <3> DEFINE i == Len(p)
    <3>1. i \in Nat /\ Turn(tree, w, q, i + 1)
      BY <1>1, <2>2
    <3> HIDE DEF i
    <3>2. /\ q[i + 1] = "lChild" => w[Depth(q, i) + 1] < tree[Cut(q, i)].data
          /\ q[i + 1] = "mChild" => w[Depth(q, i) + 1] = tree[Cut(q, i)].data
          /\ q[i + 1] = "rChild" => w[Depth(q, i) + 1] > tree[Cut(q, i)].data
      BY <3>1, TurnAt
    <3>3. Depth(q, i) = d /\ Cut(q, i) = p
      BY <1>2, <1>3 DEF i
    <3>. QED
      BY <3>2, <3>3 DEF i
  <2>4. q[Len(p) + 1] = "mChild" => d + 1 < Len(w)
    <3>1. Depth(q, Len(p) + 1) = d + (IF q[Len(p) + 1] = "mChild" THEN 1 ELSE 0)
      BY <1>1, <1>3, DepthNext
    <3>2. Depth(q, Len(p) + 1) \in Nat /\ Depth(q, Len(p) + 1) + 1 \in 1 .. Len(w)
      <4>1. Len(p) + 1 \in 0 .. Len(q)
        BY <2>1
      <4>. QED
        BY <1>1, <4>1, LetterThere
    <3>. QED
      BY <1>1, <1>4, <3>1, <3>2
  <2>. QED
    BY <1>1, <1>4, <1>6, <2>3, <2>4 DEF d
<1>. QED
  BY <1>5, <1>6

(* What is left of a word begins with its next letter.                     *)
LEMMA RestOne ==
  ASSUME NEW w \in Word, NEW n \in Nat, n + 1 <= Len(w)
  PROVE  Rest(w, n) = <<w[n + 1]>> \o Rest(w, n + 1)
<1>1. n \in 0 .. Len(w) /\ n + 1 \in 0 .. Len(w) /\ n + 1 \in 1 .. Len(w) /\ w[n + 1] \in Nat
  BY DEF Word
<1> DEFINE s == Rest(w, n)
           t == Rest(w, n + 1)
           m == n + 1
<1>2. /\ s \in Seq(Nat) /\ Len(s) = Len(w) - n /\ Len(w) \in Nat
      /\ \A i \in 1 .. Len(w) - n : s[i] = w[n + i]
  BY <1>1, RestProperties DEF Word
<1>3. t \in Seq(Nat) /\ Len(t) = Len(w) - m /\ \A i \in 1 .. Len(w) - m : t[i] = w[m + i]
  BY <1>1, RestProperties DEF Word
<1> HIDE DEF s, t
<1> DEFINE u == <<w[m]>> \o t
<1>4. /\ u \in Seq(Nat) /\ Len(u) = 1 + Len(t) /\ u[1] = w[m]
      /\ \A i \in 1 .. Len(t) : u[1 + i] = t[i]
  BY <1>1, <1>3
<1> HIDE DEF u
<1>5. ASSUME NEW i \in 1 .. Len(s)
      PROVE  s[i] = u[i]
  <2>1. CASE i = 1
    BY <1>2, <1>4, <2>1
  <2>2. CASE i # 1
    <3>1. i - 1 \in 1 .. Len(t) /\ 1 + (i - 1) = i /\ m + (i - 1) = n + i
      BY <1>1, <1>2, <1>3, <2>2
    <3>2. u[1 + (i - 1)] = t[i - 1] /\ t[i - 1] = w[m + (i - 1)]
      <4> HIDE DEF m
      <4>. QED
        BY <1>3, <1>4, <3>1
    <3>. QED
      BY <1>2, <3>1, <3>2
  <2>. QED
    BY <2>1, <2>2
<1>6. Len(s) = Len(u)
  BY <1>1, <1>2, <1>3, <1>4
<1>7. s = u
  BY <1>2, <1>4, <1>5, <1>6, SameSequence
<1>. QED
  BY <1>7 DEF s, t, u

(* What hangs below a link of p, and how its words go on there.            *)
LEMMA BelowLink ==
  ASSUME NEW tree, IsTree(tree), NEW p \in DOMAIN tree, NEW link \in Links,
         NEW q, NEW v \in Word, Ending(tree, Append(p, link), q, v)
  PROVE  /\ Len(v) >= 1
         /\ link # "mChild" => Ending(tree, p, q, v)
         /\ link = "mChild" => Ending(tree, p, q, <<tree[p].data>> \o v)
         /\ link = "lChild" => v[1] < tree[p].data
         /\ link = "rChild" => v[1] > tree[p].data
<1> DEFINE d == Depth(p, Len(p))
           r == Append(p, link)
           data == tree[p].data
<1>1. /\ q \in DOMAIN tree /\ tree[q].marked /\ Under(r, q) /\ p \in Paths
  BY NodeType DEF Ending
<1>2. PICK w : Spells(tree, q, w) /\ v = Rest(w, Depth(r, Len(r)))
  BY DEF Ending
<1>3. Under(p, q) /\ q # p /\ q[Len(p) + 1] = link
  BY <1>1, UnderSplits
<1>4. d \in Nat /\ Depth(r, Len(r)) = d + (IF link = "mChild" THEN 1 ELSE 0)
  BY <1>1, DepthAppend
<1> HIDE DEF r
<1>5. /\ w \in Word /\ d + 1 <= Len(w) /\ Len(w) \in Nat /\ w[d + 1] \in Nat
      /\ link = "lChild" => w[d + 1] < data
      /\ link = "mChild" => w[d + 1] = data /\ d + 1 < Len(w)
      /\ link = "rChild" => w[d + 1] > data
  BY <1>1, <1>2, <1>3, UnderSpells
<1> HIDE DEF d, data
<1>6. CASE link # "mChild"
  <2>1. v = Rest(w, d) /\ d \in 0 .. Len(w)
    BY <1>2, <1>4, <1>5, <1>6
  <2>2. Len(v) = Len(w) - d /\ \A i \in 1 .. Len(w) - d : v[i] = w[d + i]
    BY <1>5, <2>1, RestProperties
  <2>3. Len(v) >= 1 /\ v[1] = w[d + 1]
    BY <1>4, <1>5, <2>2
  <2>4. Ending(tree, p, q, v)
    BY <1>1, <1>2, <1>3, <2>1 DEF Ending, d
  <2>. QED
    BY <1>5, <1>6, <2>3, <2>4 DEF data
<1>7. CASE link = "mChild"
  <2>1. v = Rest(w, d + 1) /\ d + 1 \in 0 .. Len(w)
    BY <1>2, <1>4, <1>5, <1>7
  <2>2. Len(v) >= 1
    <3> DEFINE n == d + 1
    <3>1. n \in 0 .. Len(w) /\ v = Rest(w, n) /\ n < Len(w)
      BY <1>5, <1>7, <2>1
    <3> HIDE DEF n
    <3>2. Len(v) = Len(w) - n
      BY <1>5, <3>1, RestProperties
    <3>. QED
      BY <1>5, <3>1, <3>2
  <2>3. Rest(w, d) = <<data>> \o v
    BY <1>4, <1>5, <1>7, <2>1, RestOne
  <2>4. Ending(tree, p, q, <<data>> \o v)
    BY <1>1, <1>2, <1>3, <2>3 DEF Ending, d
  <2>. QED
    BY <1>7, <2>2, <2>4 DEF data
<1>. QED
  BY <1>6, <1>7

(* What is pushed below a node: the left, its own word, its letter before  *)
(* the middle, the right.                                                  *)
LEMMA BelowSplits ==
  ASSUME NEW tree, SearchTree(tree), NEW p \in DOMAIN tree
  PROVE  Below(tree, p)
           = Below(tree, Append(p, "lChild"))
             \cup (IF tree[p].marked THEN {<<tree[p].data>>} ELSE {})
             \cup {<<tree[p].data>> \o v : v \in Below(tree, Append(p, "mChild"))}
             \cup Below(tree, Append(p, "rChild"))
<1> DEFINE d == Depth(p, Len(p))
           data == tree[p].data
           left == Below(tree, Append(p, "lChild"))
           middle == Below(tree, Append(p, "mChild"))
           right == Below(tree, Append(p, "rChild"))
           own == IF tree[p].marked THEN {<<data>>} ELSE {}
<1>1. IsTree(tree) /\ p \in Paths /\ data \in Nat /\ Len(p) \in Nat /\ d \in Nat
  BY NodeType, DepthNext DEF SearchTree, Paths
<1>2. "lChild" \in Links /\ "mChild" \in Links /\ "rChild" \in Links
  BY DEF Links
<1>3. <<data>> \in Word /\ \A v \in Word : <<data>> \o v \in Word
  BY <1>1 DEF Word
<1>4. ASSUME NEW v \in Word, NEW q, Ending(tree, p, q, v)
      PROVE  v \in left \cup own \cup {<<data>> \o u : u \in middle} \cup right
  <2>1. /\ q \in DOMAIN tree /\ tree[q].marked /\ Under(p, q)
    BY <1>4 DEF Ending
  <2>2. PICK w : Spells(tree, q, w) /\ v = Rest(w, d)
    BY <1>4 DEF Ending
  <2>3. /\ w \in Word /\ d + 1 <= Len(w) /\ Len(w) \in Nat
        /\ q = p => d + 1 = Len(w) /\ w[d + 1] = data
        /\ q # p /\ q[Len(p) + 1] = "mChild" => w[d + 1] = data /\ d + 1 < Len(w)
    BY <1>1, <2>1, <2>2, UnderSpells
  <2>4. CASE q = p
    <3>1. Rest(w, d) = <<data>> \o Rest(w, d + 1)
      BY <1>1, <2>3, <2>4, RestOne
    <3>2. Rest(w, d + 1) = <<>>
      <4>1. d + 1 \in 0 .. Len(w) /\ Len(w) - (d + 1) = 0
        BY <1>1, <2>3, <2>4
      <4>2. Rest(w, d + 1) \in Seq(Nat) /\ Len(Rest(w, d + 1)) = 0
        <5> DEFINE n == d + 1
        <5> HIDE DEF n
        <5>1. Rest(w, n) \in Seq(Nat) /\ Len(Rest(w, n)) = Len(w) - n
          BY <2>3, <4>1, RestProperties DEF Word, n
        <5>. QED
          BY <4>1, <5>1 DEF n
      <4>. QED
        BY <4>2
    <3>3. <<data>> \o <<>> = <<data>>
      BY <1>1
    <3>. QED
      BY <2>1, <2>2, <2>4, <3>1, <3>2, <3>3
  <2>5. CASE q # p
    <3> DEFINE link == q[Len(p) + 1]
               r == Append(p, link)
    <3>1. link \in Links /\ Under(r, q)
      BY <1>1, <2>1, <2>5, UnderSplits
    <3>2. Depth(r, Len(r)) = d + (IF link = "mChild" THEN 1 ELSE 0)
      BY <1>1, <3>1, DepthAppend
    <3>3. CASE link = "mChild"
      <4>1. Ending(tree, r, q, Rest(w, d + 1))
        BY <1>1, <2>1, <2>2, <3>1, <3>2, <3>3 DEF Ending
      <4>2. Rest(w, d + 1) \in Word /\ v = <<data>> \o Rest(w, d + 1)
        <5>1. d + 1 \in 0 .. Len(w)
          BY <1>1, <2>3
        <5>2. Rest(w, d + 1) \in Word
          BY <2>3, <5>1, RestProperties
        <5>. QED
          BY <1>1, <2>2, <2>3, <2>5, <3>3, <5>2, RestOne
      <4>. QED
        BY <3>3, <4>1, <4>2 DEF Below
    <3>4. CASE link # "mChild"
      <4>1. Ending(tree, r, q, v)
        BY <1>1, <2>1, <2>2, <3>1, <3>2, <3>4 DEF Ending
      <4>2. v \in left \/ v \in right
        BY <3>1, <3>4, <4>1 DEF Below, Links
      <4>. QED
        BY <4>2
    <3>. QED
      BY <3>3, <3>4
  <2>. QED
    BY <2>4, <2>5
<1>5. ASSUME NEW v \in left \cup right
      PROVE  v \in Below(tree, p)
  BY <1>1, <1>2, BelowLink DEF Below
<1>6. ASSUME NEW v \in middle
      PROVE  <<data>> \o v \in Below(tree, p)
  <2>1. v \in Word /\ \E q : Ending(tree, Append(p, "mChild"), q, v)
    BY DEF Below
  <2>2. \E q : Ending(tree, p, q, <<data>> \o v)
    BY <1>1, <1>2, <2>1, BelowLink
  <2>. QED
    BY <1>3, <2>1, <2>2 DEF Below
<1>7. ASSUME tree[p].marked
      PROVE  <<data>> \in Below(tree, p)
  <2>1. PICK w : Spells(tree, p, w)
    BY DEF SearchTree, HasWords
  <2>2. Under(p, p)
    BY <1>1, CutAll DEF Under, Paths
  <2>3. Ending(tree, p, p, Rest(w, d))
    BY <1>7, <2>1, <2>2 DEF Ending
  <2>4. d \in 0 .. Len(w) /\ w \in Word
    BY <1>1, <2>1, <2>2, UnderSpells
  <2>5. Rest(w, d) \in Word
    BY <2>4, RestProperties
  <2>6. Rest(w, d) = <<data>>
    <3>1. /\ d + 1 = Len(w) /\ w[d + 1] = data /\ Len(w) - d = 1
      BY <1>1, <2>1, <2>2, UnderSpells
    <3>2. Len(Rest(w, d)) = 1 /\ Rest(w, d)[1] = w[d + 1]
      <4>1. 1 \in 1 .. Len(w) - d
        BY <3>1
      <4>. QED
        BY <2>4, <3>1, <4>1, RestProperties
    <3>3. Rest(w, d) \in Seq(Nat) /\ Len(<<data>>) = 1 /\ <<data>>[1] = data /\ <<data>> \in Seq(Nat)
      BY <1>1, <2>5 DEF Word
    <3>4. \A i \in 1 .. 1 : i = 1
      OBVIOUS
    <3> DEFINE s == Rest(w, d)
               t == <<data>>
    <3>5. \A i \in 1 .. Len(s) : s[i] = t[i]
      BY <3>1, <3>2, <3>3, <3>4
    <3>6. s \in Seq(Nat) /\ t \in Seq(Nat) /\ Len(s) = Len(t)
      BY <3>2, <3>3
    <3> HIDE DEF s, t
    <3>7. s = t
      BY <3>5, <3>6, SameSequence
    <3>. QED
      BY <3>7 DEF s, t
  <2>. QED
    BY <2>3, <2>5, <2>6 DEF Below
<1>8. \A v \in Below(tree, p) : v \in left \cup own \cup {<<data>> \o u : u \in middle} \cup right
  BY <1>4 DEF Below
<1>. QED
  BY <1>5, <1>6, <1>7, <1>8

(* What prefixHelper has pushed when it returns from p, and what           *)
(* traverseTSTCount returns.                                               *)
Listed(tree, p) ==
  LET below == PrefixHelper(tree)[p]
  IN  /\ below \in Seq(Word) /\ Sorted(below) /\ ToSet(below) = Below(tree, p)
      /\ TraverseTSTCount(tree)[p] = Len(below)

(* The list of one word and the list of none are sorted.                   *)
LEMMA OneList ==
  ASSUME NEW w \in Word
  PROVE  /\ <<w>> \in Seq(Word) /\ Sorted(<<w>>) /\ ToSet(<<w>>) = {w} /\ Len(<<w>>) = 1
         /\ <<>> \in Seq(Word) /\ Sorted(<<>>) /\ ToSet(<<>>) = {} /\ Len(<<>>) = 0
<1>1. DOMAIN <<w>> = {1} /\ <<w>>[1] = w /\ DOMAIN <<>> = {}
  OBVIOUS
<1>2. Sorted(<<w>>) /\ Sorted(<<>>)
  BY <1>1 DEF Sorted
<1>3. ToSet(<<w>>) = {w} /\ ToSet(<<>>) = {}
  BY <1>1 DEF ToSet
<1>. QED
  BY <1>2, <1>3

(* A node lists its words in order once its three links do.                *)
LEMMA NodeListed ==
  ASSUME NEW tree, SearchTree(tree), NEW p \in DOMAIN tree,
         \A link \in Links : Listed(tree, Append(p, link))
  PROVE  Listed(tree, p)
<1> DEFINE data == tree[p].data
           below == PrefixHelper(tree)
           count == TraverseTSTCount(tree)
           left == below[Append(p, "lChild")]
           own == IF tree[p].marked THEN <<<<data>>>> ELSE <<>>
           middle == below[Append(p, "mChild")]
           behind == Behind(<<data>>, middle)
           right == below[Append(p, "rChild")]
<1>1. IsTree(tree) /\ data \in Nat /\ p \in TreePointers(tree)
  BY NodeType, NodesArePointers DEF SearchTree
<1>2. "lChild" \in Links /\ "mChild" \in Links /\ "rChild" \in Links
  BY DEF Links
<1>3. below[p] = left \o own \o behind \o right
  BY <1>1, HelperUnrolls
<1>4. /\ count[p] = count[Append(p, "lChild")] + (IF tree[p].marked THEN 1 ELSE 0)
                    + count[Append(p, "mChild")] + count[Append(p, "rChild")]
  BY <1>1, CountUnrolls
<1>5. /\ left \in Seq(Word) /\ Sorted(left) /\ ToSet(left) = Below(tree, Append(p, "lChild"))
      /\ count[Append(p, "lChild")] = Len(left)
  BY <1>2 DEF Listed
<1>6. /\ middle \in Seq(Word) /\ Sorted(middle) /\ ToSet(middle) = Below(tree, Append(p, "mChild"))
      /\ count[Append(p, "mChild")] = Len(middle)
  BY <1>2 DEF Listed
<1>7. /\ right \in Seq(Word) /\ Sorted(right) /\ ToSet(right) = Below(tree, Append(p, "rChild"))
      /\ count[Append(p, "rChild")] = Len(right)
  BY <1>2 DEF Listed
<1>8. <<data>> \in Word /\ Len(<<data>>) = 1 /\ <<data>>[1] = data
  BY <1>1 DEF Word
<1>9. /\ own \in Seq(Word) /\ Sorted(own)
      /\ ToSet(own) = IF tree[p].marked THEN {<<data>>} ELSE {}
      /\ Len(own) = IF tree[p].marked THEN 1 ELSE 0
  BY <1>8, OneList
<1>10. /\ behind \in Seq(Word) /\ Sorted(behind) /\ Len(behind) = Len(middle)
       /\ ToSet(behind) = {<<data>> \o v : v \in ToSet(middle)}
  BY <1>6, <1>8, BehindProperties
<1>11. ASSUME NEW v \in ToSet(left)
       PROVE  v \in Word /\ Len(v) >= 1 /\ v[1] \in Nat /\ v[1] < data
  <2>1. v \in Word /\ \E q : Ending(tree, Append(p, "lChild"), q, v)
    BY <1>5 DEF Below
  <2>2. Len(v) >= 1 /\ v[1] < data
    BY <1>1, <1>2, <2>1, BelowLink
  <2>3. 1 \in 1 .. Len(v)
    BY <2>1, <2>2 DEF Word
  <2>. QED
    BY <2>1, <2>2, <2>3 DEF Word
<1>12. ASSUME NEW v \in ToSet(right)
       PROVE  v \in Word /\ Len(v) >= 1 /\ v[1] \in Nat /\ v[1] > data
  <2>1. v \in Word /\ \E q : Ending(tree, Append(p, "rChild"), q, v)
    BY <1>7 DEF Below
  <2>2. Len(v) >= 1 /\ v[1] > data
    BY <1>1, <1>2, <2>1, BelowLink
  <2>3. 1 \in 1 .. Len(v)
    BY <2>1, <2>2 DEF Word
  <2>. QED
    BY <2>1, <2>2, <2>3 DEF Word
<1>13. ASSUME NEW v \in ToSet(behind)
       PROVE  v \in Word /\ Len(v) >= 1 /\ v[1] = data /\ Before(<<data>>, v)
  <2>1. PICK u \in ToSet(middle) : v = <<data>> \o u
    BY <1>10
  <2>2. u \in Word /\ \E q : Ending(tree, Append(p, "mChild"), q, u)
    BY <1>6, <2>1 DEF Below
  <2>3. Len(u) >= 1
    BY <1>1, <1>2, <2>2, BelowLink
  <2>4. Before(<<data>>, v)
    BY <1>8, <2>1, <2>2, <2>3, PrefixFirst
  <2>5. v \in Word /\ Len(v) = 1 + Len(u) /\ v[1] = data
    BY <1>8, <2>1, <2>2 DEF Word
  <2>6. Len(v) >= 1
    BY <2>2, <2>5 DEF Word
  <2>. QED
    BY <2>4, <2>5, <2>6
<1>14. \A v \in ToSet(own) : v = <<data>>
  BY <1>9
<1> HIDE DEF left, own, behind, right, middle, data, below, count
<1> DEFINE first == left \o own
           second == first \o behind
           third == second \o right
<1>15. /\ first \in Seq(Word) /\ Sorted(first) /\ Len(first) = Len(left) + Len(own)
       /\ ToSet(first) = ToSet(left) \cup ToSet(own)
  <2>1. \A v \in ToSet(left) : \A w \in ToSet(own) : Before(v, w)
    BY <1>8, <1>11, <1>14, SmallerFirst
  <2>. QED
    BY <1>5, <1>9, <2>1, Joined
<1> HIDE DEF first
<1>16. /\ second \in Seq(Word) /\ Sorted(second) /\ Len(second) = Len(first) + Len(behind)
       /\ ToSet(second) = ToSet(first) \cup ToSet(behind)
  <2>1. \A v \in ToSet(left) : \A w \in ToSet(behind) : Before(v, w)
    BY <1>11, <1>13, SmallerFirst
  <2>2. \A v \in ToSet(first) : \A w \in ToSet(behind) : Before(v, w)
    BY <1>13, <1>14, <1>15, <2>1
  <2>. QED
    BY <1>10, <1>15, <2>2, Joined
<1> HIDE DEF second
<1>17. /\ third \in Seq(Word) /\ Sorted(third) /\ Len(third) = Len(second) + Len(right)
       /\ ToSet(third) = ToSet(second) \cup ToSet(right)
  <2>1. ASSUME NEW v \in ToSet(second), NEW w \in ToSet(right)
        PROVE  Before(v, w)
    <3>1. v \in ToSet(left) \/ v = <<data>> \/ v \in ToSet(behind)
      BY <1>14, <1>15, <1>16
    <3>2. v \in Word /\ Len(v) >= 1 /\ v[1] < w[1]
      <4>1. CASE v \in ToSet(left)
        BY <1>1, <1>11, <1>12, <4>1 DEF data
      <4>2. CASE v = <<data>>
        BY <1>8, <1>12, <4>2
      <4>3. CASE v \in ToSet(behind)
        BY <1>12, <1>13, <4>3
      <4>. QED
        BY <3>1, <4>1, <4>2, <4>3
    <3>. QED
      BY <1>12, <3>2, SmallerFirst
  <2>. QED
    BY <1>7, <1>16, <2>1, Joined
<1>18. below[p] = third
  BY <1>3 DEF first, second
<1>19. ToSet(third) = Below(tree, p)
  <2>1. Below(tree, p) = ToSet(left) \cup ToSet(own) \cup ToSet(behind) \cup ToSet(right)
    <3>1. Below(tree, p)
           = Below(tree, Append(p, "lChild"))
             \cup (IF tree[p].marked THEN {<<data>>} ELSE {})
             \cup {<<data>> \o v : v \in Below(tree, Append(p, "mChild"))}
             \cup Below(tree, Append(p, "rChild"))
      BY BelowSplits DEF data
    <3>. QED
      BY <1>5, <1>6, <1>7, <1>9, <1>10, <3>1
  <2>2. ToSet(third) = ((ToSet(left) \cup ToSet(own)) \cup ToSet(behind)) \cup ToSet(right)
    BY <1>15, <1>16, <1>17
  <2>. QED
    BY <2>1, <2>2
<1>20. count[p] = Len(third)
  <2>1. count[p] = Len(left) + Len(own) + Len(middle) + Len(right)
    BY <1>4, <1>5, <1>6, <1>7, <1>9
  <2>2. Len(third) = Len(left) + Len(own) + Len(middle) + Len(right)
    BY <1>10, <1>15, <1>16, <1>17
  <2>. QED
    BY <2>1, <2>2
<1>. QED
  BY <1>17, <1>18, <1>19, <1>20 DEF Listed, below, count

(* So every pointer of a search tree does, by induction upwards.           *)
LEMMA AllListed ==
  ASSUME NEW tree, SearchTree(tree), NEW p \in TreePointers(tree)
  PROVE  Listed(tree, p)
<1> DEFINE P == {q \in TreePointers(tree) : Listed(tree, q)}
<1>1. IsTree(tree)
  BY DEF SearchTree
<1>2. ASSUME NEW q \in TreePointers(tree), q \notin DOMAIN tree
      PROVE  q \in P
  <2>1. PrefixHelper(tree)[q] = <<>> /\ TraverseTSTCount(tree)[q] = 0
    BY <1>1, <1>2, HelperUnrolls, CountUnrolls
  <2>2. Below(tree, q) = {}
    BY <1>1, <1>2, NoneBelow
  <2>3. <<>> \in Seq(Word) /\ Sorted(<<>>) /\ ToSet(<<>>) = {} /\ Len(<<>>) = 0
    <3>1. <<>> \in Word
      BY DEF Word
    <3>. QED
      BY <3>1, OneList
  <2>4. Listed(tree, q)
    BY <2>1, <2>2, <2>3 DEF Listed
  <2>. QED
    BY <2>4
<1>3. ASSUME NEW q \in DOMAIN tree, \A link \in Links : Append(q, link) \in P
      PROVE  q \in P
  <2>1. Listed(tree, q)
    BY <1>3, NodeListed
  <2>. QED
    BY <1>1, <2>1, NodesArePointers
<1>4. TreePointers(tree) \subseteq P
  <2> HIDE DEF P
  <2>. QED
    BY <1>1, <1>2, <1>3, UpwardInduction
<1>. QED
  BY <1>4

(* A word is its first letters and the rest.                               *)
LEMMA CutRest ==
  ASSUME NEW w \in Word, NEW m \in 0 .. Len(w)
  PROVE  w = Cut(w, m) \o Rest(w, m)
<1>1. w \in Seq(Nat) /\ 1 \in 1 .. Len(w) + 1 /\ m \in 1 - 1 .. Len(w) /\ Len(w) \in m .. Len(w)
  BY DEF Word
<1>2. SubSeq(w, 1, m) \o SubSeq(w, m + 1, Len(w)) = SubSeq(w, 1, Len(w))
  BY <1>1, ConcatAdjacentSubSeq
<1>3. SubSeq(w, 1, Len(w)) = w
  BY <1>1, SubSeqFull
<1>. QED
  BY <1>2, <1>3 DEF Cut, Rest

(* A prefix of a word is a cut of it.                                      *)
LEMMA PrefixIsCut ==
  ASSUME NEW s \in Word, NEW t \in Word
  PROVE  IsPrefix(s, t) <=> Len(s) <= Len(t) /\ s = Cut(t, Len(s))
<1>1. s \in Seq(Nat) /\ SubSeq(s, 1, Len(s)) = s
  BY SubSeqFull DEF Word
<1>. QED
  BY <1>1 DEF IsPrefix, Cut

(* Below the root are the words of the tree.                               *)
LEMMA BelowRoot ==
  ASSUME NEW tree, IsTree(tree)
  PROVE  Below(tree, <<>>) = WordsIn(tree)
<1>1. Depth(<<>>, Len(<<>>)) = 0
  <2>1. Len(<<>>) = 0
    OBVIOUS
  <2>. QED
    BY <2>1, DepthStart
<1>2. \A w \in Word : Rest(w, 0) = w
  <2>1. ASSUME NEW w \in Word PROVE Rest(w, 0) = w
    <3>1. w \in Seq(Nat) /\ 0 + 1 = 1 /\ SubSeq(w, 1, Len(w)) = w
      BY SubSeqFull DEF Word
    <3>. QED
      BY <3>1 DEF Rest
  <2>. QED
    BY <2>1
<1>3. ASSUME NEW q \in DOMAIN tree
      PROVE  Under(<<>>, q)
  <2>1. q \in Seq(Links) /\ 0 \in 0 .. Len(q) /\ Len(<<>>) = 0
    BY NodeType DEF Paths
  <2>2. Cut(q, 0) \in Seq(Links) /\ Len(Cut(q, 0)) = 0
    BY <2>1, CutProperties
  <2>3. Cut(q, 0) = <<>>
    BY <2>2
  <2>. QED
    BY <2>1, <2>3 DEF Under
<1>4. \A w, q : Spells(tree, q, w) => w \in Word /\ q \in DOMAIN tree
  BY DEF Spells
<1>. QED
  BY <1>1, <1>2, <1>3, <1>4 DEF Below, Ending, WordsIn

(* The traversals list and count the words of the tree                     *)
(* (TernarySearchTree.cpp:49-59, 103-116).                                 *)
THEOREM TraversalsSound ==
  ASSUME NEW tree, SearchTree(tree)
  PROVE  /\ ToSet(PrefixHelper(tree)[<<>>]) = WordsIn(tree)
         /\ CountWords(tree) = Cardinality(WordsIn(tree))
<1>1. <<>> \in TreePointers(tree) /\ IsTree(tree)
  BY DEF TreePointers, SearchTree
<1>2. Listed(tree, <<>>)
  BY <1>1, AllListed
<1> DEFINE below == PrefixHelper(tree)[<<>>]
<1>3. /\ below \in Seq(Word) /\ Sorted(below) /\ ToSet(below) = WordsIn(tree)
      /\ CountWords(tree) = Len(below)
  BY <1>1, <1>2, BelowRoot DEF Listed, CountWords
<1> HIDE DEF below
<1>4. Len(below) = Cardinality(ToSet(below))
  BY <1>3, SortedCount
<1>. QED
  BY <1>3, <1>4 DEF below

-----------------------------------------------------------------------------
(* A word that starts with the prefix ends at its node or below it.        *)
LEMMA PrefixOnTheWay ==
  ASSUME NEW tree, IsTree(tree), NEW prefix \in Word, prefix # <<>>,
         NEW end, Found(tree, prefix, end),
         NEW w, NEW q, Spells(tree, q, w), IsPrefix(prefix, w)
  PROVE  /\ end.at \in DOMAIN tree
         /\ (q = end.at /\ w = prefix) \/ Under(Append(end.at, "mChild"), q)
<1> DEFINE m == Len(prefix)
           at == end.at
<1>1. w \in Word /\ q \in DOMAIN tree /\ q \in Seq(Links) /\ Len(q) \in Nat /\ Len(w) \in Nat
  BY NodesArePointers DEF Spells, Word, Paths
<1>2. m <= Len(w) /\ prefix = Cut(w, m) /\ m \in Nat \ {0}
  BY <1>1, PrefixIsCut DEF Word
<1>3. \A p : Spells(tree, p, prefix) => p = at
  BY DEF Found
<1> HIDE DEF m, at
<1>4. CASE m = Len(w)
  <2>1. w = prefix
    BY <1>1, <1>2, <1>4, CutAll DEF Word
  <2>. QED
    BY <1>1, <1>3, <2>1 DEF at
<1>5. CASE m # Len(w)
  <2>1. m \in 1 .. Len(w) - 1
    BY <1>1, <1>2, <1>5
  <2>2. PICK i \in 0 .. Len(q) - 1 :
          Spells(tree, Cut(q, i), Cut(w, m)) /\ Depth(q, i) + 1 = m /\ q[i + 1] = "mChild"
    BY <2>1, PrefixNode
  <2>3. at = Cut(q, i) /\ at \in DOMAIN tree
    BY <1>2, <1>3, <2>2 DEF Spells
  <2>4. i \in 0 .. Len(q) /\ i < Len(q) /\ i \in Nat
    BY <1>1
  <2>5. Len(at) = i
    BY <1>1, <2>3, <2>4, CutProperties
  <2>6. Under(at, q) /\ q # at
    BY <1>1, <2>3, <2>4, <2>5 DEF Under
  <2>7. Under(Append(at, "mChild"), q)
    BY <1>1, <2>2, <2>3, <2>5, <2>6, UnderSplits
  <2>. QED
    BY <2>3, <2>7 DEF at
<1>. QED
  BY <1>4, <1>5

(* A prefix finds the words it starts, each once and in order              *)
(* (TernarySearchTree.cpp:60-89).                                          *)
THEOREM PrefixSearchSound ==
  ASSUME NEW tree, SearchTree(tree), NEW prefix \in Word, prefix # <<>>
  PROVE  LET found == PrefixSearch(tree, prefix)
         IN  /\ found \in Seq(Word) /\ Sorted(found)
             /\ ToSet(found) = {w \in WordsIn(tree) : IsPrefix(prefix, w)}
<1> DEFINE end == Descended(tree, prefix)
           at == end.at
           r == Append(at, "mChild")
           below == PrefixHelper(tree)[r]
           own == IF tree[at].marked THEN <<prefix>> ELSE <<>>
           behind == Behind(prefix, below)
           found == PrefixSearch(tree, prefix)
           m == Len(prefix)
<1>1. IsTree(tree) /\ Found(tree, prefix, end) /\ m \in Nat \ {0}
  BY DescentFinds DEF SearchTree, Word
<1> HIDE DEF end
<1>2. ASSUME NEW w, NEW q, Spells(tree, q, w), IsPrefix(prefix, w)
      PROVE  at \in DOMAIN tree /\ ((q = at /\ w = prefix) \/ Under(r, q))
  BY <1>1, <1>2, PrefixOnTheWay
<1>3. CASE at \notin DOMAIN tree
  <2>1. found = <<>>
    BY <1>3 DEF PrefixSearch, end
  <2>2. \A w \in WordsIn(tree) : ~IsPrefix(prefix, w)
    BY <1>2, <1>3 DEF WordsIn
  <2>3. <<>> \in Seq(Word) /\ Sorted(<<>>) /\ ToSet(<<>>) = {}
    BY OneList
  <2> HIDE DEF found
  <2>4. found \in Seq(Word) /\ Sorted(found) /\ ToSet(found) = {w \in WordsIn(tree) : IsPrefix(prefix, w)}
    BY <2>1, <2>2, <2>3
  <2>. QED
    BY <2>4 DEF found
<1>4. CASE at \in DOMAIN tree
  <2>1. found = own \o behind
    BY <1>4 DEF PrefixSearch, end
  <2>2. Spells(tree, at, prefix) /\ at \in Paths /\ Len(at) \in Nat
    BY <1>1, <1>4, NodesArePointers DEF Found
  <2>3. Depth(at, Len(at)) + 1 = m /\ Depth(r, Len(r)) = m
    <3>1. m = Depth(at, Len(at)) + 1
      BY <2>2 DEF Spells
    <3>2. Depth(r, Len(r)) = Depth(at, Len(at)) + 1
      BY <2>2, DepthAppend DEF Links
    <3>. QED
      BY <3>1, <3>2
  <2>4. r \in TreePointers(tree)
    BY <1>4 DEF TreePointers, Links
  <2> HIDE DEF at, found
  <2>5. below \in Seq(Word) /\ Sorted(below) /\ ToSet(below) = Below(tree, r)
    BY <2>4, AllListed DEF Listed
  <2>6. /\ own \in Seq(Word) /\ Sorted(own)
        /\ ToSet(own) = IF tree[at].marked THEN {prefix} ELSE {}
    BY OneList
  <2> HIDE DEF below, own, m, r
  <2>7. behind \in Seq(Word) /\ Sorted(behind) /\ ToSet(behind) = {prefix \o v : v \in Below(tree, r)}
    BY <2>5, BehindProperties
  <2> HIDE DEF behind
  <2>8. ASSUME NEW v \in Below(tree, r)
        PROVE  Len(v) >= 1 /\ prefix \o v \in WordsIn(tree) /\ IsPrefix(prefix, prefix \o v)
    <3>1. v \in Word /\ \E q : Ending(tree, r, q, v)
      BY DEF Below
    <3>2. PICK q : Ending(tree, r, q, v)
      BY <3>1
    <3>3. Len(v) >= 1
      BY <1>1, <1>4, <3>1, <3>2, BelowLink DEF Links, r
    <3>4. PICK w : Spells(tree, q, w) /\ v = Rest(w, m)
      BY <2>3, <3>2 DEF Ending
    <3>5. /\ q \in DOMAIN tree /\ tree[q].marked /\ w \in Word /\ Len(w) \in Nat
          /\ Under(at, q) /\ q # at /\ q[Len(at) + 1] = "mChild" /\ q \in Paths /\ Len(q) \in Nat
      BY <1>1, <1>4, <3>2, <3>4, UnderSplits, NodesArePointers DEF Ending, Spells, Links, Word, r
    <3>6. Len(at) \in 0 .. Len(q) - 1 /\ Cut(q, Len(at)) = at /\ Len(at) \in 0 .. Len(q)
      BY <1>1, <1>4, <2>2, <3>5, UnderSplits DEF Under
    <3>7. Depth(q, Len(at)) + 1 = m
      <4>1. Len(at) \in 0 .. Len(at)
        BY <2>2
      <4>2. Depth(Cut(q, Len(at)), Len(at)) = Depth(q, Len(at))
        BY <3>5, <3>6, <4>1, DepthOfCut
      <4>. QED
        BY <2>3, <3>6, <4>2
    <3>8. Spells(tree, at, Cut(w, m)) /\ m \in 1 .. Len(w) - 1
      BY <1>1, <3>4, <3>5, <3>6, <3>7, TurnSpells
    <3>9. Cut(w, m) = prefix
      BY <1>1, <2>2, <3>8, OneWord
    <3>10. m \in 0 .. Len(w) /\ m <= Len(w)
      BY <3>5, <3>8
    <3>11. prefix \o v = w
      BY <3>4, <3>5, <3>9, <3>10, CutRest
    <3>12. w \in WordsIn(tree) /\ IsPrefix(prefix, w)
      BY <3>4, <3>5, <3>9, <3>10, PrefixIsCut DEF WordsIn, m
    <3>. QED
      BY <3>3, <3>11, <3>12
  <2>9. own \o behind \in Seq(Word) /\ Sorted(own \o behind) /\ ToSet(own \o behind) = ToSet(own) \cup ToSet(behind)
    <3>1. ASSUME NEW v \in ToSet(own), NEW w \in ToSet(behind)
          PROVE  Before(v, w)
      <4>1. v = prefix /\ \E u \in Below(tree, r) : w = prefix \o u
        BY <2>6, <2>7
      <4>2. \A u \in Below(tree, r) : u \in Word
        BY DEF Below
      <4>. QED
        BY <2>8, <4>1, <4>2, PrefixFirst
    <3>. QED
      BY <2>6, <2>7, <3>1, Joined
  <2>10. ASSUME NEW w \in WordsIn(tree), IsPrefix(prefix, w)
         PROVE  w \in ToSet(own) \cup ToSet(behind)
    <3>1. PICK q \in DOMAIN tree : tree[q].marked /\ Spells(tree, q, w)
      BY DEF WordsIn
    <3>2. (q = at /\ w = prefix) \/ Under(r, q)
      BY <1>2, <2>10, <3>1 DEF r, at
    <3>3. CASE q = at /\ w = prefix
      BY <2>6, <3>1, <3>3
    <3>4. CASE Under(r, q)
      <4>1. w \in Word /\ m <= Len(w) /\ prefix = Cut(w, m) /\ m \in 0 .. Len(w)
        BY <2>10, <3>1, PrefixIsCut DEF Spells, m, Word
      <4>2. w = prefix \o Rest(w, m) /\ Rest(w, m) \in Word
        BY <4>1, CutRest, RestProperties
      <4>3. Rest(w, m) \in Below(tree, r)
        BY <2>3, <3>1, <3>4, <4>2 DEF Below, Ending
      <4>. QED
        BY <2>7, <4>2, <4>3
    <3>. QED
      BY <3>2, <3>3, <3>4
  <2>11. ASSUME NEW w \in ToSet(own) \cup ToSet(behind)
         PROVE  w \in WordsIn(tree) /\ IsPrefix(prefix, w)
    <3>1. CASE w \in ToSet(behind)
      BY <2>7, <2>8, <3>1
    <3>2. CASE w \in ToSet(own)
      <4>1. w = prefix /\ tree[at].marked
        BY <2>6, <3>2
      <4>2. IsPrefix(prefix, prefix)
        BY PrefixIsCut, CutAll DEF Word
      <4>. QED
        BY <1>4, <2>2, <4>1, <4>2 DEF WordsIn
    <3>. QED
      BY <3>1, <3>2
  <2>12. ToSet(found) = {w \in WordsIn(tree) : IsPrefix(prefix, w)}
    BY <2>1, <2>9, <2>10, <2>11
  <2>. QED
    BY <2>1, <2>9, <2>12 DEF found
<1>. QED
  BY <1>3, <1>4

=============================================================================
