-------------------------- MODULE TernarySearchTree --------------------------
(***************************************************************************)
(* The linked nodes of src/src/TernarySearchTree.cpp.  No operation links  *)
(* a node anew, so a TreeNode pointer is the path of child links from the  *)
(* root to it, a tree is a function from the paths of its nodes, and the   *)
(* paths outside its domain are nullptr.  A character is its byte value.   *)
(***************************************************************************)
EXTENDS Integers, FiniteSets, SequencesExt

Links == {"lChild", "mChild", "rChild"}

EmptyTree == [p \in {} |-> [data |-> 0, marked |-> FALSE]]

(* The root and the child links of the nodes.                              *)
TreePointers(tree) == {<<>>} \cup {Append(p, link) : p \in DOMAIN tree, link \in Links}

(* Where the way down for a key is, and what is left of the key there.     *)
Descent(at, rest) == [at |-> at, rest |-> rest]

(* It ends at nullptr or at the node of the last character.                *)
AtEnd(tree, s) ==
  s.at \in DOMAIN tree => Len(s.rest) = 1 /\ Head(s.rest) = tree[s.at].data

DescentStep(tree, s) ==
  IF AtEnd(tree, s) THEN s
  ELSE LET c    == Head(s.rest)
           data == tree[s.at].data
       IN  CASE c < data -> Descent(Append(s.at, "lChild"), s.rest)
             [] c > data -> Descent(Append(s.at, "rChild"), s.rest)
             [] OTHER -> Descent(Append(s.at, "mChild"), Tail(s.rest))

(* The loop of prefixSearch, and the way insertHelper and deleteHelper go. *)
Descend(tree, key) ==
  LET after[k \in 0 .. Cardinality(DOMAIN tree)] ==
        IF k = 0 THEN Descent(<<>>, key) ELSE DescentStep(tree, after[k - 1])
  IN  after

Descended(tree, key) == Descend(tree, key)[Cardinality(DOMAIN tree)]

-----------------------------------------------------------------------------
(* n middle links below p.                                                 *)
Middle(p, n) == [i \in 1 .. Len(p) + n |-> IF i <= Len(p) THEN p[i] ELSE "mChild"]

(* At nullptr a chain of new nodes spells the rest of the key.  Its last   *)
(* node is marked.                                                         *)
Insert(tree, key) ==
  LET end   == Descended(tree, key)
      last  == Middle(end.at, Len(end.rest) - 1)
      chain == {Middle(end.at, n) : n \in 0 .. Len(end.rest) - 1}
      Node(p) == IF p \in DOMAIN tree THEN tree[p]
                 ELSE [data |-> end.rest[Len(p) - Len(end.at) + 1], marked |-> FALSE]
  IN  IF key = <<>> THEN tree
      ELSE [p \in DOMAIN tree \cup chain |-> [Node(p) EXCEPT !.marked = @ \/ p = last]]

HasChildren(tree, p) == \E link \in Links : Append(p, link) \in DOMAIN tree

(* A plausible bug: the node goes although the tree still hangs below it.  *)
FreeUnmarked(tree, p) ==
  IF p \in DOMAIN tree /\ ~tree[p].marked THEN Restrict(tree, DOMAIN tree \ {p}) ELSE tree

(* A plausible bug: nodes are never freed.                                 *)
KeepAll(tree, p) == tree

(* On the way up, a node nothing needs any more is freed.                  *)
FreeIfUnused(tree, p) ==
  IF p \in DOMAIN tree /\ ~tree[p].marked /\ ~HasChildren(tree, p)
  THEN Restrict(tree, DOMAIN tree \ {p}) ELSE tree

(* The tree after each return, the deepest pointer's first.                *)
FreeUpwards(tree, at) ==
  LET after[k \in 0 .. Len(at) + 1] ==
        IF k = 0 THEN tree ELSE FreeIfUnused(after[k - 1], SubSeq(at, 1, Len(at) + 1 - k))
  IN  after

DeleteTerm(tree, key) ==
  LET at       == Descended(tree, key).at
      unmarked == [p \in DOMAIN tree |-> [tree[p] EXCEPT !.marked = @ /\ p # at]]
  IN  IF key = <<>> THEN tree ELSE FreeUpwards(unmarked, at)[Len(at) + 1]

-----------------------------------------------------------------------------
Behind(current, words) == [i \in DOMAIN words |-> current \o words[i]]

(* A plausible bug: a word hides the words it is a prefix of.              *)
PrefixHelperStopsAtWord(tree) ==
  LET below[p \in TreePointers(tree)] ==
        IF p \notin DOMAIN tree THEN <<>>
        ELSE LET current == <<tree[p].data>>
             IN  below[Append(p, "lChild")]
                 \o (IF tree[p].marked THEN <<current>>
                     ELSE Behind(current, below[Append(p, "mChild")]))
                 \o below[Append(p, "rChild")]
  IN  below

(* What is pushed below each pointer, without the current it is called     *)
(* with.                                                                   *)
PrefixHelper(tree) ==
  LET below[p \in TreePointers(tree)] ==
        IF p \notin DOMAIN tree THEN <<>>
        ELSE LET current == <<tree[p].data>>
             IN  below[Append(p, "lChild")]
                 \o (IF tree[p].marked THEN <<current>> ELSE <<>>)
                 \o Behind(current, below[Append(p, "mChild")])
                 \o below[Append(p, "rChild")]
  IN  below

(* An empty prefix finds nothing.                                          *)
PrefixSearch(tree, prefix) ==
  LET at == Descended(tree, prefix).at
  IN  IF prefix = <<>> \/ at \notin DOMAIN tree THEN <<>>
      ELSE (IF tree[at].marked THEN <<prefix>> ELSE <<>>)
           \o Behind(prefix, PrefixHelper(tree)[Append(at, "mChild")])

(* A plausible bug: a word that is a prefix of another is not counted.     *)
TraverseTSTCountLeaves(tree) ==
  LET count[p \in TreePointers(tree)] ==
        IF p \notin DOMAIN tree THEN 0
        ELSE count[Append(p, "lChild")]
             + (IF tree[p].marked /\ Append(p, "mChild") \notin DOMAIN tree THEN 1 ELSE 0)
             + count[Append(p, "mChild")] + count[Append(p, "rChild")]
  IN  count

(* The words below each pointer.                                           *)
TraverseTSTCount(tree) ==
  LET count[p \in TreePointers(tree)] ==
        IF p \notin DOMAIN tree THEN 0
        ELSE count[Append(p, "lChild")] + (IF tree[p].marked THEN 1 ELSE 0)
             + count[Append(p, "mChild")] + count[Append(p, "rChild")]
  IN  count

CountWords(tree) == TraverseTSTCount(tree)[<<>>]

-----------------------------------------------------------------------------
(* v is before w in lexicographic order.                                   *)
Before(v, w) ==
  \E n \in 1 .. Len(w) :
    /\ n <= Len(v) + 1 /\ \A i \in 1 .. n - 1 : v[i] = w[i]
    /\ n <= Len(v) => v[n] < w[n]

(* From p, one link and then sibling links lead to q.                      *)
Beside(p, link, q) ==
  /\ Len(p) < Len(q) /\ \A i \in 1 .. Len(p) : q[i] = p[i]
  /\ q[Len(p) + 1] = link
  /\ \A i \in Len(p) + 2 .. Len(q) : q[i] # "mChild"

(* Every node is linked to, sibling links form a binary search tree, and   *)
(* no node is dead weight.                                                 *)
WellFormed(tree) ==
  /\ \A p \in DOMAIN tree : p # <<>> => Front(p) \in DOMAIN tree
  /\ \A p, q \in DOMAIN tree :
       /\ Beside(p, "lChild", q) => tree[q].data < tree[p].data
       /\ Beside(p, "rChild", q) => tree[q].data > tree[p].data
  /\ \A p \in DOMAIN tree : tree[p].marked \/ HasChildren(tree, p)
=============================================================================
