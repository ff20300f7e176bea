SPECIFICATION McSpec
CONSTANTS
  Api = {p1, p2}
  Requests = {"q1", "q2"}
  Commands <- McCommands
  Generations <- McGenerations
  UserFolders = {"mine"}
  Limit = 2
  Capacity = 3
  MaxRuns = 3
  MaxDay = 2
  MaxCalls = 3
  Deletes = TRUE
SYMMETRY Symmetry
INVARIANTS AnswersSound AcceptedSound
CHECK_DEADLOCK FALSE
