SPECIFICATION Spec
CONSTANTS
  Generations = {"g0", "g1"}
  FilesOf <- MCFilesOf
  Root <- MCRoot
  Bootstrapped = "g0"
  Operations = {1, 2}
  MaxAttempts = 2
  Workers = {w1, w2}
  Owners = {o1}
  Collections = {"c1"}
SYMMETRY MCSymmetry
CONSTRAINT Scope
CHECK_DEADLOCK FALSE
INVARIANTS
  PublishedDataIntact
  PlannedRootsIntact
  WorkExcludesCollection
  NoLeakedCandidate
  FifoOrder
PROPERTIES
  NoRetainedTarget
