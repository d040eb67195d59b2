SPECIFICATION DoctorSpec
CONSTANTS
  a = a
  b = b
  k = k
  a1 = a1
  a2 = a2
  b1 = b1
  Session = {a, b}
  None = None
  Fact <- MCFact
  Key <- MCKey
  SourceOf <- MCSourceOf
  KeyOf <- MCKeyOf
  CreatedAt <- MCCreatedAt
  IdRank <- MCIdRank
  Independent = {}
  Slugless = {k}
  MinTarget = 2
  MaxCommits = 1
INVARIANTS
  FixRepairs
PROPERTIES
  FixKeepsTheNewest
