SPECIFICATION GraphSpec
CONSTANTS
  Session = {s1, s2}
  None = none
  FreshReplacement = TRUE
INVARIANTS
  SupersededStaysMarked
