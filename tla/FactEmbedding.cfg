SPECIFICATION FairEmbeddingSpec
CONSTANTS
  a = a
  b = b
  k = k
  a1 = a1
  b1 = b1
  None = none
  Session <- MCSession
  Fact <- MCFact
  Key = {k}
  SourceOf <- MCSourceOf
  KeyOf <- MCKeyOf
  CreatedAt <- MCCreatedAt
  IdRank <- MCIdRank
  Independent = {}
  Ingester = {i1}
  Sweeper = {w1}
  Cap = 2
  SweepLimit = 2
INVARIANTS
  EmbeddingTypeOK
  SlotsAreHeld
PROPERTIES
  ImplementsFactStore
  MissingGetsEmbedded
