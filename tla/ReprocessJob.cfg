SPECIFICATION ReprocessSpec
CONSTANTS
  c1 = c1
  c2 = c2
  Handle = {c1, c2}
  NoChild = none
  MaxRestarts = 1
  Item = {1, 2}
  SaveEvery = 1
  MaxStarts = 2
  MaxFaults = 1
INVARIANTS
  ReprocessTypeOK
  ChildOwned
  SavedMeansStamped
  CompletedMeansAttempted
PROPERTIES
  KeepsRestartPolicy
  NeverSilentlyDead
