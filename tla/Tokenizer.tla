------------------------------ MODULE Tokenizer ------------------------------
(***************************************************************************)
(* The two scanners of src/src/Tokenizer.cpp over a text of byte values:   *)
(* simpleTokenize, which queries go through, and tokenize, which documents *)
(* go through and which also says where each word is.  Byte offsets and    *)
(* token positions are 0-based, as in the code.                            *)
(***************************************************************************)
EXTENDS Integers, Sequences, FiniteSets

Apostrophe == 39
Hyphen     == 45

IsUpper(c) == c \in 65 .. 90

(* std::isalnum in the "C" locale.                                         *)
IsAlnum(c) == c \in 48 .. 57 \/ IsUpper(c) \/ c \in 97 .. 122

ToLower(c) == IF IsUpper(c) THEN c + 32 ELSE c

IsTokenChar(c) == IsAlnum(c) \/ c = Apostrophe \/ c = Hyphen

(* The three bytes of a curly single quotation mark start at byte i.       *)
IsCurly(text, i) ==
  /\ i + 2 <= Len(text)
  /\ text[i] = 226 /\ text[i + 1] = 128 /\ text[i + 2] \in {152, 153}

Flush(word, tokens) == IF word = <<>> THEN tokens ELSE Append(tokens, word)

(* The variables of the loop of simpleTokenize.  skip counts the bytes     *)
(* that `i += 2` passes over.                                              *)
SimpleStart == [skip |-> 0, word |-> <<>>, tokens |-> <<>>]

(* A plausible bug: a quotation mark is passed over as one byte.           *)
SimpleStepOneByte(text, i, s) ==
  LET c == IF IsCurly(text, i) THEN Apostrophe ELSE text[i]
  IN  IF IsTokenChar(c)
      THEN [skip |-> 0, word |-> Append(s.word, ToLower(c)), tokens |-> s.tokens]
      ELSE [skip |-> 0, word |-> <<>>, tokens |-> Flush(s.word, s.tokens)]

(* What byte i does to them.                                               *)
SimpleStep(text, i, s) ==
  IF s.skip > 0 THEN [skip |-> s.skip - 1, word |-> s.word, tokens |-> s.tokens]
  ELSE LET c    == IF IsCurly(text, i) THEN Apostrophe ELSE text[i]
           skip == IF IsCurly(text, i) THEN 2 ELSE 0
       IN  IF IsTokenChar(c)
           THEN [skip |-> skip, word |-> Append(s.word, ToLower(c)), tokens |-> s.tokens]
           ELSE [skip |-> skip, word |-> <<>>, tokens |-> Flush(s.word, s.tokens)]

(* After each byte.                                                        *)
SimpleScan(text) ==
  LET after[i \in 0 .. Len(text)] ==
        IF i = 0 THEN SimpleStart ELSE SimpleStep(text, i, after[i - 1])
  IN  after

SimpleTokenize(text) ==
  LET end == SimpleScan(text)[Len(text)] IN Flush(end.word, end.tokens)

(* A token with its WordLocation.                                          *)
Token(word, tokenPos, byteOffset) ==
  [word |-> word, tokenPos |-> tokenPos, byteOffset |-> byteOffset]

(* tokenPos counts the tokens pushed, and insideWord says that the word is *)
(* not empty.                                                              *)
FlushToken(word, wordStart, tokens) ==
  IF word = <<>> THEN tokens ELSE Append(tokens, Token(word, Len(tokens), wordStart))

ScanState(skip, word, wordStart, tokens) ==
  [skip |-> skip, word |-> word, wordStart |-> wordStart, tokens |-> tokens]

(* A plausible bug: a word starts right after the last one.                *)
ScanStepKeepsStart(text, i, s) ==
  IF s.skip > 0 THEN ScanState(s.skip - 1, s.word, s.wordStart, s.tokens)
  ELSE CASE IsCurly(text, i) -> ScanState(2, Append(s.word, Apostrophe), s.wordStart, s.tokens)
         [] IsTokenChar(text[i]) ->
              ScanState(0, Append(s.word, ToLower(text[i])), s.wordStart, s.tokens)
         [] OTHER -> ScanState(0, <<>>, IF s.word = <<>> THEN s.wordStart ELSE i,
                               FlushToken(s.word, s.wordStart, s.tokens))

(* What byte i does to the variables of the loop of tokenize.              *)
ScanStep(text, i, s) ==
  LET start == IF s.word = <<>> THEN i - 1 ELSE s.wordStart
  IN  IF s.skip > 0 THEN ScanState(s.skip - 1, s.word, s.wordStart, s.tokens)
      ELSE CASE IsCurly(text, i) -> ScanState(2, Append(s.word, Apostrophe), start, s.tokens)
             [] IsTokenChar(text[i]) ->
                  ScanState(0, Append(s.word, ToLower(text[i])), start, s.tokens)
             [] OTHER -> ScanState(0, <<>>, s.wordStart, FlushToken(s.word, s.wordStart, s.tokens))

Scan(text) ==
  LET after[i \in 0 .. Len(text)] ==
        IF i = 0 THEN ScanState(0, <<>>, 0, <<>>) ELSE ScanStep(text, i, after[i - 1])
  IN  after

Tokenize(text) ==
  LET end == Scan(text)[Len(text)] IN FlushToken(end.word, end.wordStart, end.tokens)

WordsOf(tokens) == [k \in DOMAIN tokens |-> tokens[k].word]

-----------------------------------------------------------------------------
(* What tokenize is for, without a scanner.                                *)

(* Byte i is part of a word.                                               *)
InWord(text, i) ==
  /\ i \in DOMAIN text
  /\ IsTokenChar(text[i]) \/ \E k \in {i - 2, i - 1, i} : k >= 1 /\ IsCurly(text, k)

(* The runs of word bytes that no word byte extends, first to last byte.   *)
MaximalRuns(text) ==
  {run \in (DOMAIN text) \X (DOMAIN text) :
     /\ \A i \in run[1] .. run[2] : InWord(text, i)
     /\ run[1] <= run[2]
     /\ ~InWord(text, run[1] - 1) /\ ~InWord(text, run[2] + 1)}

(* The run of bytes in lower case, each quotation mark one apostrophe.     *)
Normalised(text, run) ==
  LET first == {i \in run[1] .. run[2] : IsCurly(text, i) \/ IsTokenChar(text[i])}
  IN  [k \in 1 .. Cardinality(first) |->
         LET i == CHOOSE n \in first : Cardinality({m \in first : m < n}) = k - 1
         IN  IF IsCurly(text, i) THEN Apostrophe ELSE ToLower(text[i])]

HasAlnum(word) == \E k \in DOMAIN word : IsAlnum(word[k])

(* The runs that are words: one letter or digit at least.                  *)
WordRuns(text) ==
  {run \in MaximalRuns(text) : \E i \in run[1] .. run[2] : IsAlnum(text[i])}

(* The tokens with a letter or digit are the words from first to last,     *)
(* each where its run starts.                                              *)
CutsIntoWords(text, tokens) ==
  /\ {<<tokens[k].byteOffset, tokens[k].word>> : k \in {n \in DOMAIN tokens : HasAlnum(tokens[n].word)}}
       = {<<run[1] - 1, Normalised(text, run)>> : run \in WordRuns(text)}
  /\ \A k \in DOMAIN tokens : tokens[k].tokenPos = k - 1
  /\ \A k, m \in DOMAIN tokens : k < m => tokens[k].byteOffset < tokens[m].byteOffset
=============================================================================
