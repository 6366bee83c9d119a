SPECIFICATION Spec
CONSTANTS
  None = None
  m1 = m1
  m2 = m2
  short = short
  long = long
  Clients = {c1,c2}
  Workers = {w1, w2}
  Models = {m1, m2}
  Segments = {short, long}
  Requests <- RequestsTwo
  Tokens <- MCTokens
  Texts <- SomeTexts
  Retokenize <- MCRetokenize
  Hash <- MCHash
  Pivots <- OnePivot
  MiniBatchWords = 2
  CacheSize = 1
  SizeMod = 16
  ClearAllowed = TRUE
INVARIANTS IInv ResponseComplete OneResponse
SYMMETRY ThreadSymmetry
