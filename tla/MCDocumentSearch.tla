--------------------------- MODULE MCDocumentSearch ---------------------------
(***************************************************************************)
(* A small instance of DocumentSearch for TLC.                             *)
(***************************************************************************)
EXTENDS DocumentSearch, TLC

Closing == <<226, 128, 153>>
Opening == <<226, 128, 152>>
Space   == <<32>>

(* "Ab b": upper case, and one word a prefix of the start of others.       *)
Upper == <<65, 98>> \o Space \o <<98>>

(* "abb  ab abb": a word repeated around another that it starts with.      *)
Repeated == <<97, 98, 98>> \o Space \o Space \o <<97, 98>> \o Space \o <<97, 98, 98>>

(* "a'b ba " with a closing quotation mark, and an opening one at the end. *)
Curly == <<97>> \o Closing \o <<98>> \o Space \o <<98, 97>> \o Space \o Opening

(* "b-a B", and the first two bytes of a quotation mark, cut off.          *)
Hyphenated == <<98, 45, 97>> \o Space \o <<66, 226, 128>>

SomeTexts == {<<>>, Upper, Repeated, Curly, Hyphenated}

WordsOfTexts == UNION {ToSet(WordsOf(Tokenize(text))) : text \in SomeTexts}

(* Words, prefixes, phrases of two and three tokens, exact and not.        *)
Phrases == {v \o Space \o w : v, w \in {<<97>>, <<98>>, <<97, 98>>, <<97>> \o Closing \o <<98>>}}

SomeQueries ==
  {Space, <<97>>, <<98>>, <<65, 98>>, <<99>>} \cup Phrases
  \cup {u \o Space \o v \o Space \o <<65, 66, 66>> : u, v \in {<<97, 98>>, <<97, 98, 98>>}}

FileSymmetry == Permutations(Files)
=============================================================================
