CONSTANTS
  c1 = c1
  c2 = c2
  v1 = v1
  v2 = v2
  Clones = {c1, c2}
  Versions = {v1, v2}
  Asked <- MCAsked
  Fragments = {f1, f2}
  Early = {f1}
  NoVersion = NoVersion
  Absent = Absent
  MaxRuns = 3
  MaxFailures = 1
  MaxHandCommits = 1
SPECIFICATION Spec
INVARIANTS
  TypeOK
  NothingLost
  OpenPullsAreComplete
  OnePullPerVersion
  ListedOnce
PROPERTIES
  ImplementsReleaseLedger
  EveryReleaseGetsItsPull
\* No call is left, and every run has ended.
CHECK_DEADLOCK FALSE
