SPECIFICATION ServerSpec
CONSTANTS
  Attempts = {a1, a2}
  Keys = {k1, k2, k3}
  GuardedKeys = {k1, k2}
  Payloads = {payload1, payload2}
  NoReceipt = NoReceipt
  NoCommand = NoCommand
  p1 = p1  p2 = p2  A = A
  Focuses = {"commands", "runs", "catalogue"}
  Projects = {p1, p2}
  Tasks = {1, 2}
  Codes = {A, B}
  Workforce = {A}
  PageSize = 1
  Reusing = FALSE
  NoTask = NoTask
  MaxRuns = 2
  MaxErpChanges = 3
INVARIANTS
  ServerTypeOK
  OncePerKey
  GuardIsCurrent
  ConflictIsAnothers
  RunsAreAccountedFor
PROPERTIES
  TaskKeepsItsRow
  RunsEnd
  KeepsPromise
  EveryAttemptEnds
CHECK_DEADLOCK FALSE
