SPECIFICATION PgSpec
CONSTANTS
  a = a
  b = b
  k = k
  a1 = a1
  a2 = a2
  b1 = b1
  None = none
  NoSession = noSession
  Conn = {c1, c2}
  Session = {a, b}
  Key = {k}
  Independent = {}
  Fact <- MCFact
  SourceOf <- MCSourceOf
  KeyOf <- MCKeyOf
  CreatedAt <- MCCreatedAt
  IdRank <- MCIdRank
INVARIANTS
  PgTypeOK
  OneGeneration
  NoDanglingSuccessor
