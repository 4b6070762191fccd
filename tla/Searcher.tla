------------------------------- MODULE Searcher -------------------------------
(***************************************************************************)
(* Exact, prefix and phrase queries: src/src/Searcher.cpp over an inverted *)
(* index, term -> file -> token positions, and the completions the tree    *)
(* has for each token of the query.  The result maps a word to the files   *)
(* and positions it is found at; of a phrase, that is its last word.       *)
(***************************************************************************)
EXTENDS Tokenizer, SequencesExt

(* A token that is indexed stands for itself, any other for the words it   *)
(* is a prefix of, in the order of the tree.                               *)
Matches(index, completions, token) ==
  IF token \in DOMAIN index THEN <<token>> ELSE completions[token]

(* The two pointers, as the positions from each of them on, the next one   *)
(* being the smallest, and the positions found.                            *)
Pointers(ahead1, ahead2, result) == [ahead1 |-> ahead1, ahead2 |-> ahead2, result |-> result]

(* A plausible bug: whatever is no hit, the first pointer moves on too.    *)
PointersStepSkip(s) ==
  IF s.ahead1 = {} \/ s.ahead2 = {} THEN s
  ELSE LET p1 == Min(s.ahead1)
           p2 == Min(s.ahead2)
       IN  CASE p1 + 1 = p2 -> Pointers(s.ahead1 \ {p1}, s.ahead2 \ {p2}, s.result \cup {p2})
             [] p1 + 1 < p2 -> Pointers(s.ahead1 \ {p1}, s.ahead2, s.result)
             [] OTHER -> Pointers(s.ahead1 \ {p1}, s.ahead2 \ {p2}, s.result)

(* One pass of the loop, or none when a list has come to its end.          *)
PointersStep(s) ==
  IF s.ahead1 = {} \/ s.ahead2 = {} THEN s
  ELSE LET p1 == Min(s.ahead1)
           p2 == Min(s.ahead2)
       IN  CASE p1 + 1 = p2 -> Pointers(s.ahead1 \ {p1}, s.ahead2 \ {p2}, s.result \cup {p2})
             [] p1 + 1 < p2 -> Pointers(s.ahead1 \ {p1}, s.ahead2, s.result)
             [] OTHER -> Pointers(s.ahead1, s.ahead2 \ {p2}, s.result)

(* The loop, over posting lists in increasing order.                       *)
TwoPointers(pos1, pos2) ==
  LET after[k \in 0 .. Cardinality(pos1) + Cardinality(pos2)] ==
        IF k = 0 THEN Pointers(pos1, pos2, {}) ELSE PointersStep(after[k - 1])
  IN  after

PositionalIntersect(pos1, pos2) ==
  TwoPointers(pos1, pos2)[Cardinality(pos1) + Cardinality(pos2)].result

NoHits == [x \in {} |-> {}]

(* The files both have, with the positions of the second after the first,  *)
(* if any.                                                                 *)
Follow(docs, nextDocs) ==
  LET after == [f \in DOMAIN docs \cap DOMAIN nextDocs |->
                  PositionalIntersect(docs[f], nextDocs[f])]
  IN  Restrict(after, {f \in DOMAIN after : after[f] # {}})

(* The phrase so far ends in word, at the positions docs.                  *)
Following(word, docs) == [ended |-> FALSE, word |-> word, docs |-> docs, results |-> NoHits]

(* The loop has been left with these results.                              *)
Left(results) == [ended |-> TRUE, word |-> <<>>, docs |-> NoHits, results |-> results]

(* A plausible bug: a later word is looked for in its file, not after the  *)
(* word before it.                                                         *)
ChainStepIgnoresPositions(index, completions, token, s) ==
  IF s.ended THEN s
  ELSE LET targets == Matches(index, completions, token)
           found   == [w \in ToSet(targets) \cap DOMAIN index |->
                         Restrict(index[w], DOMAIN index[w] \cap DOMAIN s.docs)]
           hits    == Restrict(found, {w \in DOMAIN found : DOMAIN found[w] # {}})
       IN  IF DOMAIN hits # {} /\ Len(targets) = 1
           THEN Following(targets[1], hits[targets[1]])
           ELSE Left(hits)

(* A further token of a phrase.  Without a hit, or with several matches,   *)
(* it ends the loop.                                                       *)
ChainStep(index, completions, token, s) ==
  IF s.ended THEN s
  ELSE LET targets == Matches(index, completions, token)
           found   == [w \in ToSet(targets) \cap DOMAIN index |-> Follow(s.docs, index[w])]
           hits    == Restrict(found, {w \in DOMAIN found : DOMAIN found[w] # {}})
       IN  IF DOMAIN hits # {} /\ Len(targets) = 1
           THEN Following(targets[1], hits[targets[1]])
           ELSE Left(hits)

(* The loop over the tokens, from the first match of the first one.        *)
Chain(index, completions, tokens, word) ==
  LET after[i \in 1 .. Len(tokens)] ==
        IF i = 1 THEN Following(word, index[word])
        ELSE ChainStep(index, completions, tokens[i], after[i - 1])
  IN  after

(* A single token finds all its matches; a phrase follows the first one    *)
(* that is indexed.                                                        *)
ChainedPositionalIntersect(index, completions, tokens) ==
  LET first   == Matches(index, completions, tokens[1])
      indexed == {k \in DOMAIN first : first[k] \in DOMAIN index}
      end     == Chain(index, completions, tokens, first[Min(indexed)])[Len(tokens)]
  IN  IF Len(tokens) = 1 THEN [w \in ToSet(first) |-> index[w]]
      ELSE IF indexed = {} THEN NoHits
      ELSE IF end.ended THEN end.results ELSE [w \in {end.word} |-> end.docs]

Search(index, completions, query) ==
  LET tokens == SimpleTokenize(query)
  IN  IF tokens = <<>> THEN NoHits ELSE ChainedPositionalIntersect(index, completions, tokens)

-----------------------------------------------------------------------------
(* Query handling as README.md:104-110 words it, without a tree.           *)

(* A token, if indexed, or else its completions.                           *)
Expansions(index, token) ==
  IF token \in DOMAIN index THEN {token} ELSE {w \in DOMAIN index : IsPrefix(token, w)}

Hits(results) ==
  UNION {UNION {{<<w, f, p>> : p \in results[w][f]} : f \in DOMAIN results[w]} : w \in DOMAIN results}

(* The first n tokens are at adjacent positions of f, the last one at p.   *)
EndsAt(index, tokens, n, f, p) ==
  \A i \in 1 .. n : \E w \in Expansions(index, tokens[i]) :
    f \in DOMAIN index[w] /\ p - (n - i) \in index[w][f]

(* The occurrences of the phrase: <<last word, file, position>>.           *)
Occurrences(index, tokens) ==
  LET n == Len(tokens)
  IN  {hit \in Hits(index) :
         /\ hit[1] \in Expansions(index, tokens[n])
         /\ EndsAt(index, tokens, n, hit[2], hit[3])}

Ambiguous(index, token) == Cardinality(Expansions(index, token)) > 1

(* A query whose tokens but the last are unambiguous finds exactly its     *)
(* occurrences.                                                            *)
ExactPhrase(index, completions, query) ==
  LET tokens == SimpleTokenize(query)
  IN  (tokens # <<>> /\ \A i \in 1 .. Len(tokens) - 1 : ~Ambiguous(index, tokens[i]))
        => Hits(Search(index, completions, query)) = Occurrences(index, tokens)

(* A hit ends an occurrence of the whole query or of its part up to an     *)
(* ambiguous token.                                                        *)
HitsOccur(index, completions, query) ==
  LET tokens == SimpleTokenize(query)
  IN  \A hit \in Hits(Search(index, completions, query)) : \E n \in DOMAIN tokens :
        /\ n = Len(tokens) \/ Ambiguous(index, tokens[n])
        /\ hit \in Occurrences(index, SubSeq(tokens, 1, n))
=============================================================================
