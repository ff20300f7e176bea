\* One refresh, one Worker, one owner, one collection.
SPECIFICATION Spec
CONSTANTS
  Generations = {"g0", "g1"}
  FilesOf <- MCFilesOf
  Root <- MCRoot
  Bootstrapped = "g0"
  Operations = {1}
  MaxAttempts = 1
  Workers = {w1}
  Owners = {o1}
  Collections = {"c1"}
CHECK_DEADLOCK FALSE
INVARIANT RetainedIntact
