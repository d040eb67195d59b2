SPECIFICATION StoreSpec
CONSTANTS
  a = a
  b = b
  c = c
  k = k
  a1 = a1
  b1 = b1
  None = none
  FreshReplacement = TRUE
  Session <- MCSession
  Fact <- MCFact
  Key = {k}
  SourceOf <- MCSourceOf
  KeyOf <- MCKeyOf
  CreatedAt <- MCCreatedAt
  IdRank <- MCIdRank
  Independent = {}
INVARIANTS
  GraphTypeOK
  StatusHasItsEdge
  SupersedenceAcyclic
  OneSuccessor
  FactsHaveSessions
  OlderWinsOnlyByCorrection
PROPERTIES
  ImplementsGraph
  ImplementsFacts
