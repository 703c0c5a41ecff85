SPECIFICATION LifecyclesSpec
CONSTANTS
  s1 = s1  s2 = s2
  Focuses = {"delivery", "execution", "plan", "messages", "engine"}
  periodA = periodA  periodB = periodB  groupA = groupA
  Periods = {periodA, periodB}
  Days <- MCDays
  Definitions <- MCDefinitions
  LineModes = {TRUE}
  ShiftHours = 8
  MaxRevisions = 3
  MaxEdits = 3
  MaxNeeds = 5
  Batches = {b1, b2}
  Messages <- MCMessages
  Overlapping = FALSE
  Returning = FALSE
  MaxPlanned = 2
  MaxLost = 2
  None = None
  ann = ann  bob = bob
  People = {ann, bob}
  Horizon <- MCHorizon
  Snapshots <- MCSnapshots
  Tolerance = 10
  StoredUnit = 100
  DailyLimit = 800
  Workers = {w1,w2}
  Plans = {p1,p2}
  Stories = {s1,s2}
  Requirements = {q1}
  Executors = {e1, e2}
  Estimates = {h1, h2}
  DoneBefore = {s1}
  Reviving = FALSE
  StoryCommands = {"createPlan","planStatus","createStory","note","update","complete","historical","assign","unassign","record","retest"}
  MaxDelivery = 3
  MaxVerification = 6
  MaxExecutions = 3
SYMMETRY Symmetric
INVARIANTS
  LifecyclesTypeOK
  DoneIsDecided
  PlanIsAuthorised
  EffectsAccounted
  ChangeCanBeTold
  HoursAddUp
  TargetYieldsToCapacity
PROPERTIES
  ReferenceIsCapturedOnce
  ArchivedIsFrozen
  RetestIsUnanswered
  LockedShiftsSurvive
CHECK_DEADLOCK FALSE
