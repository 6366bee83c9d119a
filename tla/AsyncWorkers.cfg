SPECIFICATION Spec
CONSTANTS
  None = None
  m1 = m1
  m2 = m2
  short = short
  long = long
  Clients = {c1}
  Workers = {w1, w2}
  Models = {m1, m2}
  Segments = {short, long}
  Requests <- RequestsThree
  Tokens <- MCTokens
  Texts <- ShortTexts
  Retokenize <- MCRetokenize
  Hash <- MCHash
  Pivots <- OnePivot
  MiniBatchWords = 2
  CacheSize = 0
  SizeMod = 16
  ClearAllowed = FALSE
INVARIANTS NoLostWakeup NoStrandedSentence BacklogExact DestroyedAnswered
SYMMETRY ThreadSymmetry
