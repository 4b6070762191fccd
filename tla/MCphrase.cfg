\* A phrase whose first or middle word is a prefix of several words.
SPECIFICATION Spec
CONSTANTS
  f1 = f1
  f2 = f2
  Files = {f1, f2}
  Terms <- WordsOfTexts
  Texts <- SomeTexts
  Queries <- SomeQueries
  MaxGeneration = 2
SYMMETRY FileSymmetry
INVARIANTS
  PhraseSearchComplete
