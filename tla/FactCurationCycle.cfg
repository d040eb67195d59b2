SPECIFICATION CurationSpec
CONSTANTS
  a = a
  b = b
  k = k
  m = m
  a1 = a1
  a2 = a2
  a3 = a3
  b1 = b1
  j1 = j1
  j2 = j2
  None = none
  Session <- MCSession
  Fact <- MCFact
  Key <- MCKey
  SourceOf <- MCSourceOf
  KeyOf <- MCKeyOf
  CreatedAt <- MCCreatedAt
  IdRank <- MCIdRank
  SlugOf <- MCSlugOf
  Independent = {}
  Judge = {j1, j2}
  MinTarget = 3
INVARIANTS
  ChainsEnd
