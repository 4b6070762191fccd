\* Two files edited, indexed, reindexed, deleted and searched.
SPECIFICATION Spec
CONSTANTS
  f1 = f1
  f2 = f2
  Files = {f1, f2}
  Terms <- WordsOfTexts
  Texts <- SomeTexts
  Queries <- SomeQueries
  MaxGeneration = 2
SYMMETRY FileSymmetry
INVARIANTS
  TypeOK
  TreeWellFormed
  PrefixSearchExact
  HealthCountsAgree
  TokenizersAgree
  WordsAreMaximalRuns
  PostingsAreTokens
  WordsFoundWhereTheyAre
  ExactPhrases
  SearchNeverInvents
  AnswersExact
