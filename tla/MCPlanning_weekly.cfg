SPECIFICATION PlanningSpec
CONSTANTS
  w1 = w1
  t1 = t1
  k = k
  p1 = p1
  r1 = r1
  r2 = r2
  Days <- MCDays
  Resources = {w1, w2}
  None = None
  Assets = {a1}
  AssetTypes = {t1, t2}
  Skills = {k}
  Projects = {p1}
  Segments = {g1}
  RequestSegments = {g1}
  Shifts = {q1, q2}
  Needs = {n1, n2}
  Request = Request
  Overlapping = FALSE
  FirstTypes <- MCTypes
  FirstSkills <- MCSkills
  FirstSegments <- MCSegments
  MaxCommands = 3
  PlanSegments = {r1, r2, x1}
  RequestPart = {r1, r2}
  SameAs <- MCSameAs
  Quarts = {i1, i2}
  HourChoices = {3}
  TransferChoices = {1}
  Reopening = FALSE
  FirstApproval <- MCFirstApproval
  ApprovalChoices <- MCApprovals
  MaxHours = 6
  MaxChanges = 3
  x1 = x1
  x2 = x2
  u1 = u1
  j1 = j1
  c1 = c1
  Scopes = {x1, x2}
  Users = {u1}
  Units = {m1}
  UnitTypes = {t1, t2}
  LineTasks = {j1}
  ResourceClasses = {c1}
  TaskClass <- MCTaskClass
  Nothing = Nothing
  Clerks = {1, 2}
  NewAccounts <- MCAccounts
  Racing = FALSE
  MaxEdits = 3
  pack1 = pack1  pack2 = pack2  e1 = e1  h1 = h1
  PackageProjects = {h1, h2}
  Packages = {pack1, pack2}
  ErpTasks = {e1, e2}
  ProjectOf <- MCProjectOf
  Demands = {d1}
  Pieces = {y1}
  Editors = {1}
  LastDay = 4
  WeekLength = 2
  Windows <- MCWindows
  Amounts = {3, 4}
  Layouts <- MCLayouts
  NewIds = {v1}
  Keep = Keep
  Blind = FALSE
  Focuses = {"loads"}
INVARIANT WeeksArePlannedApart
CHECK_DEADLOCK FALSE
