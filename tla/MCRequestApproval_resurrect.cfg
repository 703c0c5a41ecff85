SPECIFICATION Spec
CONSTANTS
  r1 = r1  l1 = l1  l2 = l2  u1 = u1  u2 = u2  sA = sA  sB = sB
  w1 = w1  w2 = w2  w3 = w3  c1 = c1  c2 = c2  c3 = c3  v1 = v1  v2 = v2
  Requests = {r1}
  Lines = {l1, l2}
  Users = {u1, u2}
  Subjects = {sA, sB}
  Routings <- MCOneRouting
  Delegated <- MCDelegated
  Workers = {w1, w2}
  CycleIds = {c1}
  RevisionIds = {v1}
  NoCycle = NoCycle
  NoRevision = NoRevision
  NoUser = NoUser
  Commands = {"submit", "cancel"}
  MaxVersion = 4
  MaxCancellations = 0
  PlanningModulus = 2
SYMMETRY MCSymmetry
PROPERTIES
  CancelledIsFinal
CHECK_DEADLOCK FALSE
