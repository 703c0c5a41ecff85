----------------------------- MODULE ShiftPlan -----------------------------
(***************************************************************************)
(* Segments, the locked shifts people decide on them, and what approval    *)
(* lets those decisions do to the window and the hours of a segment.       *)
(*                                                                         *)
(* A REQUEST segment materialises an entry of the active approved          *)
(* revision: its window is the approved one unless an override widens it,  *)
(* its hours are the approved ones unless a budget replaces them.  An      *)
(* AD_HOC segment (QUICK_SHIFT too) belongs to nobody's approval.  The     *)
(* shifts that a rebuild replaces are reduced to the hours they cover; the *)
(* locked ones are decisions that it must keep.                            *)
(*                                                                         *)
(* Every command acquires the planning version first and is one action.    *)
(***************************************************************************)
EXTENDS PlanningDays, FiniteSetsExt

CONSTANTS
  PlanSegments,
  RequestPart,     \* those of origin REQUEST, materialised by one request
  SameAs,          \* the segment whose resource a SAME_AS_PERIOD one takes
  Quarts,          \* identifiers of locked shifts
  HourChoices,     \* hours a person may give a shift
  TransferChoices, \* hours a person may take out of a shift
  ApprovalChoices, \* windows and hours an approval may give an entry
  Reopening,       \* TRUE: a PATCH reopens a closed segment
  FirstApproval,   \* what the active revision says of each segment
  MaxHours,        \* bound on planned hours
  MaxChanges       \* bound on the planning version

VARIABLES
  window, planned, status, target,  \* ResourceRequirement columns
  approved,   \* entry of the active revision, per REQUEST segment
  revision,   \* active revision
  override,   \* ACTIVE window override of each segment, or None
  budget,     \* budget override of the operational choices, or None
  locked,     \* locked shifts
  auto,       \* hours of the replaceable shifts of each segment
  changes     \* planning version

planVars == <<window, planned, status, target, approved, revision, override,
              budget, locked, auto, changes>>

Hours == 0 .. MaxHours
Entry == [window: Span, hours: Hours]
LockedShift == [segment: PlanSegments, day: Days, resource: Resources,
                hours: Hours]
WindowOverride == [revision: Nat, window: Span]

ASSUME ShiftPlanAssumption ==
  /\ RequestPart \subseteq PlanSegments
  /\ SameAs \in UNION {[linked -> RequestPart] : linked \in SUBSET RequestPart}
  /\ Days \subseteq Int /\ MaxHours \in Nat /\ MaxChanges \in Nat
  /\ IsFiniteSet(Quarts)
  /\ HourChoices \subseteq Hours \ {0} /\ TransferChoices \subseteq Nat
  /\ FirstApproval \in [PlanSegments -> Entry] /\ ApprovalChoices \subseteq Entry
  /\ None \notin Hours \cup Resources \cup LockedShift \cup WindowOverride

PlanTypeOK ==
  /\ window \in [PlanSegments -> Span]
  /\ planned \in [PlanSegments -> Hours]
  /\ status \in [PlanSegments -> {"open", "closed"}]
  /\ target \in [PlanSegments -> Resources \cup {None}]
  /\ approved \in [RequestPart -> Entry]
  /\ revision \in 1 .. MaxChanges + 1
  /\ override \in [RequestPart -> WindowOverride \cup {None}]
  /\ budget \in [RequestPart -> Hours \cup {None}]
  /\ locked \in [Quarts -> LockedShift \cup {None}]
  /\ auto \in [PlanSegments -> Hours]
  /\ changes \in 0 .. MaxChanges

Excess(n, m) == IF n > m THEN n - m ELSE 0

LockedOn(rows, g) == {i \in Quarts : rows[i] # None /\ rows[i].segment = g}

LockedHours(rows, g) ==
  MapThenSumSet(LAMBDA i : rows[i].hours, LockedOn(rows, g))

Open(g) == status[g] = "open"

-----------------------------------------------------------------------------
(* Rebuild: targets of a SAME_AS component are aligned, locked shifts of    *)
(* active segments kept, the rest of the planned hours placed again.       *)

\* The open segments that SAME_AS chains join to g, or {} when none does.
Group(states, g) ==
  LET root[h \in PlanSegments] ==
        IF h \in DOMAIN SameAs /\ states[h] = "open" THEN root[SameAs[h]]
        ELSE h
      joined == {h \in PlanSegments : root[h] = root[g]}
  IN  IF joined = {g} THEN {} ELSE joined

LockedResources(rows, group) ==
  {rows[i].resource : i \in UNION {LockedOn(rows, g) : g \in group}}

ChosenResource(rows, targets, group) ==
  IF LockedResources(rows, group) # {} THEN LockedResources(rows, group)
  ELSE {targets[g] : g \in group} \ {None}

OneAtMost(set) == \A x, y \in set : x = y

\* A chain may not end at a closed segment, nor may decisions diverge on it.
SameResourceAgrees(rows, targets, states) ==
  /\ \A g \in DOMAIN SameAs :
       states[g] = "open" => states[SameAs[g]] = "open"
  /\ \A g \in PlanSegments :
       OneAtMost(ChosenResource(rows, targets, Group(states, g)))

AlignedTargets_LockedIgnored(rows, targets, states) == targets

AlignedTargets(rows, targets, states) ==
  [g \in PlanSegments |->
     LET chosen == ChosenResource(rows, targets, Group(states, g)) IN
     IF chosen # {} THEN CHOOSE r \in chosen : TRUE ELSE targets[g]]

KeptQuarts_InApproval(rows, states) ==
  LET outside(row) == /\ row.segment \in RequestPart
                      /\ ~ Includes(approved[row.segment].window, row.day)
  IN [i \in Quarts |->
        IF /\ rows[i] # None
           /\ states[rows[i].segment] # "open" \/ outside(rows[i])
        THEN None ELSE rows[i]]

KeptQuarts(rows, states) ==
  [i \in Quarts |->
     IF rows[i] # None /\ states[rows[i].segment] # "open" THEN None
     ELSE rows[i]]

RebuildPlan(rows, hours, states, targets) ==
  LET kept == KeptQuarts(rows, states)
      aligned == AlignedTargets(kept, targets, states)
  IN /\ changes' = changes + 1
     /\ SameResourceAgrees(kept, targets, states)
     /\ locked' = kept
     /\ target' = aligned
     /\ status' = states
     /\ planned' = hours
     /\ auto' = [g \in PlanSegments |->
          IF states[g] = "open" /\ aligned[g] # None
          THEN Excess(hours[g], LockedHours(kept, g)) ELSE 0]

-----------------------------------------------------------------------------
(* Hours: what a policy and the approval allow when locked hours change.    *)

\* A policy and whether a project manager chooses it.
Stances == ({None, "KEEP_EXCEPTION", "INCREASE_PLANNED"} \X {FALSE})
             \cup {<<"INCREASE_PLANNED", TRUE>>}

\* A project manager may exceed the approved hours by a fifth.
Delegated(hours, entry) == 5 * hours <= 6 * entry.hours

PlannedAuthorised(g, hours, explicit, manager) ==
  g \in RequestPart /\ hours > approved[g].hours =>
    explicit /\ manager /\ Delegated(hours, approved[g])

BudgetFor(g, hours) == IF hours = approved[g].hours THEN None ELSE hours

WithBudget(g, hours) ==
  IF g \in RequestPart THEN [budget EXCEPT ![g] = BudgetFor(g, hours)]
  ELSE budget

Raised(g, rows, policy) ==
  policy = "INCREASE_PLANNED" /\ LockedHours(rows, g) > planned[g]

\* The outcome of the policy for a change of the locked shifts of g.
PolicyApplied(g, rows, stance) ==
  LET before == Excess(LockedHours(locked, g), planned[g])
      after == Excess(LockedHours(rows, g), planned[g])
  IN /\ LockedHours(rows, g) \in Hours
     /\ after > before => stance[1] # None
     /\ IF Raised(g, rows, stance[1])
        THEN /\ PlannedAuthorised(g, LockedHours(rows, g), TRUE, stance[2])
             /\ budget' = WithBudget(g, LockedHours(rows, g))
        ELSE UNCHANGED budget

PlannedAfter(g, rows, policy) ==
  IF Raised(g, rows, policy)
  THEN [planned EXCEPT ![g] = LockedHours(rows, g)] ELSE planned

\* A manual decision on g: its rows, its policy, the rebuild that follows.
Decide(g, rows, stance) ==
  /\ Open(g)
  /\ PolicyApplied(g, rows, stance)
  /\ RebuildPlan(rows, PlannedAfter(g, rows, stance[1]), status, target)
  /\ UNCHANGED <<approved, revision>>

-----------------------------------------------------------------------------
(* Manual shift commands.  A source is a locked shift or, for a segment     *)
(* with replaceable hours, one that the command turns into a decision.     *)

Unused == {i \in Quarts : locked[i] = None}
Quart(g, day, r, hours) ==
  [segment |-> g, day |-> day, resource |-> r, hours |-> hours]

\* Replaceable shifts of g as possible sources, on any day and of any length
\* its hours allow.
AutoSource(g) ==
  {Quart(g, day, target[g], hours) :
     day \in {d \in Days : Includes(window[g], d)},
     hours \in {h \in HourChoices : h <= auto[g]}}

\* <<id, row>> pairs a command may take as its source.
Sources ==
  {<<i, locked[i]>> : i \in Quarts \ Unused}
    \cup (Unused \X UNION {AutoSource(g) : g \in PlanSegments})

WindowFor(g, day) == [window EXCEPT ![g] = Stretched(@, day)]

CreateManual(g, day, r, hours, stance) ==
  /\ Includes(window[g], day)
  /\ \E i \in Unused :
       Decide(g, [locked EXCEPT ![i] = Quart(g, day, r, hours)], stance)
  /\ UNCHANGED <<window, override>>

\* Only an AD_HOC segment follows its shift out of its window.
UpdateManual(source, day, r, hours, stance) ==
  LET g == source[2].segment IN
  /\ Includes(window[g], day) \/ g \notin RequestPart
  /\ Decide(g, [locked EXCEPT ![source[1]] = Quart(g, day, r, hours)],
            stance)
  /\ window' = WindowFor(g, day)
  /\ UNCHANGED override

MoveManual(source, day, r) ==
  UpdateManual(source, day, r, source[2].hours, <<None, FALSE>>)

\* Unlocked, the shift goes with the rebuild; deleted, it goes at once.
ReleaseOrDelete(i) ==
  /\ locked[i] # None
  /\ RebuildPlan([locked EXCEPT ![i] = None], planned, status, target)
  /\ UNCHANGED <<window, approved, revision, override, budget>>

AssignSegment(g, r) ==
  /\ Open(g)
  /\ LockedResources(locked, Group(status, g)) \subseteq {r}
  /\ RebuildPlan(locked, planned, status,
       [h \in PlanSegments |->
          IF h = g \/ h \in Group(status, g) THEN r ELSE target[h]])
  /\ UNCHANGED <<window, approved, revision, override, budget>>

-----------------------------------------------------------------------------
(* Composite commands.                                                     *)

ExtendAndMove(source, day, r, stance) ==
  LET g == source[2].segment IN
  /\ ~ Includes(window[g], day)
  /\ g \in RequestPart => Includes(approved[g].window, day)
  /\ Decide(g, [locked EXCEPT ![source[1]] =
                  Quart(g, day, r, source[2].hours)], stance)
  /\ window' = WindowFor(g, day)
  /\ UNCHANGED override

\* Some hours of the source go to another day or resource.
SplitQuart(source, day, r, transfer, stance) ==
  LET g == source[2].segment IN
  /\ Includes(window[g], day)
  /\ transfer < source[2].hours
  /\ \E i \in Unused \ {source[1]} :
       Decide(g,
         [locked EXCEPT
            ![source[1]] = [source[2] EXCEPT !.hours = @ - transfer],
            ![i] = Quart(g, day, r, transfer)],
         stance)
  /\ UNCHANGED <<window, override>>

DuplicateQuart(source, day, r, stance) ==
  LET g == source[2].segment IN
  /\ Includes(window[g], day)
  /\ \E i \in Unused \ {source[1]} :
       Decide(g, [locked EXCEPT ![source[1]] = source[2],
                                ![i] = Quart(g, day, r, source[2].hours)],
              stance)
  /\ UNCHANGED <<window, override>>

EffectiveWindow(g) ==
  IF override[g] = None THEN approved[g].window ELSE override[g].window

\* An override widens the effective window and replaces the active one.
MayWiden(g, to) ==
  /\ g \in RequestPart /\ Open(g)
  /\ window[g] = EffectiveWindow(g)
  /\ Covers(to, approved[g].window) /\ to # approved[g].window
  /\ Covers(to, window[g]) /\ to # window[g]

Overridden(g, to) ==
  [override EXCEPT ![g] = [revision |-> revision, window |-> to]]

ExtendPlanningWindow(g, to) ==
  /\ MayWiden(g, to)
  /\ override' = Overridden(g, to)
  /\ window' = [window EXCEPT ![g] = to]
  /\ RebuildPlan(locked, planned, status, target)
  /\ UNCHANGED <<approved, revision, budget>>

OverrideAndMove(source, day, r, stance) ==
  LET g == source[2].segment
      to == Stretched(window[g], day)
  IN /\ g \in RequestPart
     /\ ~ Includes(approved[g].window, day)
     /\ MayWiden(g, to)
     /\ Decide(g, [locked EXCEPT ![source[1]] =
                     Quart(g, day, r, source[2].hours)], stance)
     /\ override' = Overridden(g, to)
     /\ window' = [window EXCEPT ![g] = to]

-----------------------------------------------------------------------------
(* Segment PATCH, approval and cancellation of the request.                *)

\* Of a REQUEST segment only hours, target and status may change.
PatchWindows(g) == IF g \in RequestPart THEN {window[g]} ELSE Span

PatchSegment(g, to, hours, r, state) ==
  LET settled == KeptQuarts(locked, [status EXCEPT ![g] = state]) IN
  /\ hours \in 1 .. MaxHours
  /\ to \in PatchWindows(g)
  /\ Reopening \/ Open(g) \/ state = "closed"
  /\ hours # planned[g] => PlannedAuthorised(g, hours, FALSE, FALSE)
  /\ budget' = IF hours # planned[g] THEN WithBudget(g, hours) ELSE budget
  /\ window' = [window EXCEPT ![g] = to]
  /\ RebuildPlan(settled, [planned EXCEPT ![g] = hours],
                 [status EXCEPT ![g] = state], [target EXCEPT ![g] = r])
  /\ UNCHANGED <<approved, revision, override>>

\* Locked decisions must fit what is approved anew: overrides do not count.
FitsApproval(entries) ==
  \A g \in RequestPart :
    /\ \A i \in LockedOn(locked, g) :
         Includes(entries[g].window, locked[i].day)
    /\ LockedHours(locked, g) <= entries[g].hours

Retired_KeptWhenCovered(overrides) ==
  [g \in RequestPart |->
     IF overrides[g] # None /\ Covers(approved[g].window, overrides[g].window)
     THEN None ELSE overrides[g]]

\* A revision replaces the window and the hours of every segment of the
\* request; its overrides are absorbed or superseded, its budgets reset.
Retired(overrides) == [g \in RequestPart |-> None]

\* Of the closed segments those that are done stay so; one that was cancelled
\* is replaced by a new row.
ApproveRevision(g, entry) ==
  LET entries == [approved EXCEPT ![g] = entry] IN
  /\ g \in RequestPart
  /\ \E h \in RequestPart : Open(h)
  /\ FitsApproval(entries)
  /\ approved' = entries
  /\ revision' = revision + 1
  /\ override' = Retired(override)
  /\ budget' = [h \in RequestPart |-> None]
  /\ window' = [h \in PlanSegments |->
                  IF h \in RequestPart THEN entries[h].window ELSE window[h]]
  /\ \E renewed \in SUBSET {h \in RequestPart : ~ Open(h)} :
       RebuildPlan(locked,
         [h \in PlanSegments |->
            IF h \in RequestPart THEN entries[h].hours ELSE planned[h]],
         [h \in PlanSegments |-> IF h \in renewed THEN "open" ELSE status[h]],
         [h \in PlanSegments |-> IF h \in renewed THEN None ELSE target[h]])

CancelRequestPlan ==
  /\ \A g \in RequestPart : Open(g) => LockedOn(locked, g) = {}
  /\ override' = [g \in RequestPart |-> None]
  /\ RebuildPlan(locked, planned,
       [g \in PlanSegments |->
          IF g \in RequestPart THEN "closed" ELSE status[g]], target)
  /\ UNCHANGED <<window, approved, revision, budget>>

-----------------------------------------------------------------------------
PlanInit ==
  /\ window = [g \in PlanSegments |-> FirstApproval[g].window]
  /\ planned = [g \in PlanSegments |-> FirstApproval[g].hours]
  /\ status = [g \in PlanSegments |-> "open"]
  /\ target = [g \in PlanSegments |-> None]
  /\ approved = [g \in RequestPart |-> FirstApproval[g]]
  /\ revision = 1
  /\ override = [g \in RequestPart |-> None]
  /\ budget = [g \in RequestPart |-> None]
  /\ locked = [i \in Quarts |-> None]
  /\ auto = [g \in PlanSegments |-> 0]
  /\ changes = 0

ManualNext ==
  \/ \E g \in PlanSegments, day \in Days, r \in Resources,
        hours \in HourChoices, stance \in Stances :
       CreateManual(g, day, r, hours, stance)
  \/ \E source \in Sources, day \in Days, r \in Resources,
        hours \in HourChoices, stance \in Stances :
       UpdateManual(source, day, r, hours, stance)
  \/ \E source \in Sources, day \in Days, r \in Resources,
        transfer \in TransferChoices, stance \in Stances :
       SplitQuart(source, day, r, transfer, stance)
  \/ \E source \in Sources, day \in Days, r \in Resources :
       MoveManual(source, day, r)
  \/ \E i \in Quarts : ReleaseOrDelete(i)

CompositeNext ==
  \/ \E source \in Sources, day \in Days, r \in Resources,
        stance \in Stances :
       \/ ExtendAndMove(source, day, r, stance)
       \/ DuplicateQuart(source, day, r, stance)
  \/ \E source \in Sources, day \in Days, r \in Resources,
        policy \in {None, "KEEP_EXCEPTION"} :
       OverrideAndMove(source, day, r, <<policy, FALSE>>)
  \/ \E g \in PlanSegments, to \in Span : ExtendPlanningWindow(g, to)

SegmentNext ==
  \/ \E g \in PlanSegments, r \in Resources : AssignSegment(g, r)
  \/ \E g \in PlanSegments, r \in Resources \cup {None},
        state \in {"open", "closed"} :
       \E to \in PatchWindows(g),
          hours \in HourChoices \cup {planned[g], MaxHours} :
         PatchSegment(g, to, hours, r, state)
  \/ \E g \in RequestPart, entry \in ApprovalChoices :
       ApproveRevision(g, entry)
  \/ CancelRequestPlan

PlanNext ==
  /\ changes < MaxChanges
  /\ ManualNext \/ CompositeNext \/ SegmentNext

PlanSpec == PlanInit /\ [][PlanNext]_planVars

-----------------------------------------------------------------------------
(* Properties.                                                             *)

\* Every locked shift of a segment that approval rules lies in the window of
\* the segment, through moves, overrides, reapprovals and rebuilds.
LockedInWindow ==
  \A g \in RequestPart : Open(g) =>
    \A i \in LockedOn(locked, g) : Includes(window[g], locked[i].day)

\* The window of a REQUEST segment is the approved one or that of its active
\* override, which belongs to the active revision and widens what it approves.
\* Were it anything else, no override could be granted any more
\* (planning_window_override_state_conflict).
WindowIsEffective ==
  \A g \in RequestPart :
    /\ Open(g) => window[g] = EffectiveWindow(g)
    /\ override[g] # None =>
         /\ override[g].revision = revision
         /\ Covers(override[g].window, approved[g].window)
         /\ override[g].window # approved[g].window

\* The planned hours of a REQUEST segment are those the operational choices
\* would materialise again, and never exceed the delegated fifth.
PlannedIsBudgeted ==
  \A g \in RequestPart : Open(g) =>
    /\ planned[g] = IF budget[g] = None THEN approved[g].hours ELSE budget[g]
    /\ 5 * planned[g] <= 6 * approved[g].hours

\* Overrides, raises, patches, choices and reapprovals leave each segment of
\* the request with the window and the hours that somebody authorised, and
\* with its locked shifts in that window.
SegmentAsAuthorised == WindowIsEffective /\ PlannedIsBudgeted /\ LockedInWindow

\* The shifts of a SAME_AS_PERIOD component, decided and replaceable, are all
\* worked by one resource (ADR-029).
OneResourcePerComponent ==
  \A g \in PlanSegments :
    LET group == Group(status, g) IN
    OneAtMost(LockedResources(locked, group)
                \cup {target[h] : h \in {h \in group : auto[h] > 0}})

\* A locked shift is a decision.  As long as its segment is open it
\* changes by a command on that very shift, which may move it or share its hours
\* but leaves it to its segment, or lifts it and leaves everything else that was
\* decided as it was.  No rebuild, assignment, approval, override, PATCH or
\* decision on another shift takes one away.
LockedDecisionsSurvive ==
  [][\A i \in Quarts :
       /\ locked[i] # None /\ locked'[i] # locked[i]
       /\ status'[locked[i].segment] = "open"
       => /\ UNCHANGED <<status, approved, revision>>
          /\ \/ /\ locked' = [locked EXCEPT ![i] = None]
                /\ UNCHANGED <<window, planned, target, override, budget>>
             \/ /\ locked'[i] # None
                /\ locked'[i].segment = locked[i].segment
                /\ \A j \in Quarts \ {i} :
                     locked[j] # None => locked'[j] = locked[j]]_planVars
=============================================================================
