----------------------------- MODULE WorkPackages -----------------------------
(***************************************************************************)
(* Work packages: which project and which ERP task they belong to, what    *)
(* depends on them, and how their hours are laid out.                      *)
(*                                                                         *)
(* Demands, segments and delivery plans refer to a package and repeat its  *)
(* project.  A package with dependents keeps its project and its task; a   *)
(* command that adds a dependent takes the row lock of the package and     *)
(* reads it again before it writes (502A).                                 *)
(*                                                                         *)
(* Hours are laid out by explicit intervals, the rest is spread over the   *)
(* window (ADR-019).  The earlier weekly loads are still accepted: they    *)
(* are stored as they are and as intervals.                                *)
(*                                                                         *)
(* Hours are counted in hundredths.  A command sends the version it read   *)
(* and is refused where it is not current, so that each command on a       *)
(* package is one step.  Codes, names, resource classes, origins and       *)
(* audits are left out, and so are weekly loads without intervals, which   *)
(* the migration 0009 has converted.                                       *)
(***************************************************************************)
EXTENDS PlanningDays, Sequences, FiniteSetsExt

CONSTANTS
  Packages, PackageProjects,
  ErpTasks, ProjectOf,     \* tasks of the catalogue, the project of each
  Demands, Pieces,         \* requests, segments
  Editors,                 \* transactions that may overlap
  LastDay, WeekLength,     \* days are 1 .. LastDay, the first is a Monday
  Windows,                 \* of packages, first and last day
  Amounts,                 \* hours that may be planned, in hundredths
  Layouts,                 \* intervals of a command, in sequences
  NewIds,                  \* what new_id returns
  Keep,                    \* a field that a command does not mention
  Blind                    \* TRUE: two editions of a demand may overlap

Dates == 1 .. LastDay
MondayOf(day) == day - ((day - 1) % WeekLength)
Weeks == {MondayOf(day) : day \in Dates}

VARIABLES
  package,     \* WorkPackage with its WorkPackageWeeklyLoad rows
  interval,    \* rows of WorkPackageLoadInterval
  taskStatus,  \* of the catalogue, as the ERP last gave it
  demand,      \* WorkforceRequest with its line and those it had before
  piece,       \* segments: ResourceRequirement
  delivered,   \* packages with a DeliveryPlan
  linking      \* the transaction of each worker that writes a demand

packageVars ==
  <<package, interval, taskStatus, demand, piece, delivered, linking>>

Optional(set) == set \cup {None}

Unlinked == [command |-> None]  \* no transaction

NoWeekly == [week \in {} |-> 0]

\* Hours of some weeks, never more than were planned.
Loads == UNION {0 .. amount : amount \in Amounts}
WeeklyLoads == UNION {[weeks -> Loads] : weeks \in SUBSET Weeks}

PackageRow == [project: PackageProjects, task: Optional(ErpTasks),
               window: Optional(Windows), planned: Optional(Amounts),
               terminal: Optional({"closed", "cancelled"}),
               weekly: WeeklyLoads]
PackageLink == [package: Optional(Packages), task: Optional(ErpTasks)]
DemandRow == [project: PackageProjects, link: PackageLink, byLines: BOOLEAN,
              former: SUBSET PackageLink]
LinkCommand ==
  [kind: {"create", "flat", "lines"}, demand: Demands,
   project: PackageProjects \cup {Keep}, package: Packages \cup {None, Keep},
   task: ErpTasks \cup {None, Keep}]

PieceRow == [project: PackageProjects, package: Optional(Packages)]
LinkingRow == [command: LinkCommand, seen: Optional(DemandRow),
               package: Optional(Packages)]

ASSUME PackagesAssumption ==
  /\ ProjectOf \in [ErpTasks -> PackageProjects]
  /\ LastDay \in Nat \ {0} /\ WeekLength \in Nat \ {0} /\ Amounts \subseteq Nat
  /\ Windows \subseteq {w \in Dates \X Dates : w[1] <= w[2]}
  /\ Layouts \subseteq Seq([from: Dates, to: Dates, hours: Nat])
  /\ {None, Keep} \cap (Packages \cup PackageProjects \cup ErpTasks) = {}
  /\ NewIds \cap Nat = {} /\ None # Keep /\ Blind \in BOOLEAN
  /\ None \notin PackageRow \cup DemandRow

PackagesTypeOK ==
  /\ package \in [Packages -> Optional(PackageRow)]
  /\ interval \subseteq [id: NewIds \cup Weeks, package: Packages, from: Dates,
                         to: Dates, hours: Nat]
  /\ taskStatus \in [ErpTasks -> {"eligible", "ineligible", "inactive"}]
  /\ demand \in [Demands -> Optional(DemandRow)]
  /\ piece \in [Pieces -> Optional(PieceRow)]
  /\ delivered \subseteq Packages
  /\ linking \in [Editors -> LinkingRow \cup {Unlinked}]

-----------------------------------------------------------------------------
(* The layout of hours.                                                    *)

HoursOf(rows) == MapThenSumSet(LAMBDA row : row.hours, rows)

\* validate_load_intervals.
Fits(rows, window, planned) ==
  /\ planned = None => rows = {}
  /\ rows # {} =>
       /\ window # None
       /\ \A row \in rows : /\ row.from <= row.to
                            /\ window[1] <= row.from /\ row.to <= window[2]
       /\ HoursOf(rows) <= planned

\* What remains of an equal division goes to the first parts.
Portion(total, parts, index) ==
  total \div parts + (IF index < total % parts THEN 1 ELSE 0)

WeeksOf(window) == {MondayOf(day) : day \in window[1] .. window[2]}

\* propose_weekly_loads.
Proposal(window, planned) ==
  LET weeks == WeeksOf(window)
  IN  [week \in weeks |-> Portion(planned, Cardinality(weeks),
                                Cardinality({v \in weeks : v < week}))]

\* validate_weekly_loads.
ValidWeekly(weekly, window, planned) ==
  /\ window # None /\ planned # None
  /\ DOMAIN weekly # {} /\ DOMAIN weekly \subseteq WeeksOf(window)
  /\ MapThenSumSet(LAMBDA week : weekly[week], DOMAIN weekly) = planned

\* legacy_weekly_as_intervals: the part of each week in the window.  The week
\* is the identifier of its row.
AsIntervals(p, weekly, window) ==
  {[id |-> week, package |-> p, hours |-> weekly[week],
    from |-> Max({window[1], week}),
    to |-> Min({window[2], week + WeekLength - 1})] : week \in DOMAIN weekly}

\* _daily_distribution.
DailyLoad(total, from, to, day) ==
  IF from <= day /\ day <= to THEN Portion(total, to - from + 1, day - from)
  ELSE 0

\* projected_daily_loads: the intervals, and the rest over the whole window.
Projected(rows, window, planned) ==
  [day \in window[1] .. window[2] |->
     MapThenSumSet(LAMBDA row : DailyLoad(row.hours, row.from, row.to, day),
                   rows)
     + DailyLoad(planned - HoursOf(rows), window[1], window[2], day)]

Own(p) == {row \in interval : row.package = p}

\* An identifier that a row of another package has is refused.
Replaced(p, rows) ==
  /\ \A row \in interval : row.package # p => row.id \notin {r.id : r \in rows}
  /\ interval' = (interval \ Own(p)) \cup rows

-----------------------------------------------------------------------------
(* Commands on a package.                                                  *)

\* SqlWorkPackageRepository._task: its task is of its project, and open.
Assignable(task, project) ==
  ProjectOf[task] = project /\ taskStatus[task] = "eligible"

LinksOf(d) == IF demand[d] = None THEN {}
              ELSE demand[d].former \cup {demand[d].link}

\* _dependency_counts: lines that were replaced count, and so do segments
\* that were cancelled.
HasDependents(p) ==
  \/ \E d \in Demands : \E link \in LinksOf(d) : link.package = p
  \/ \E g \in Pieces : piece[g] # None /\ piece[g].package = p
  \/ p \in delivered

\* A package that had no task takes one that its lines do not contradict.
Regularises(p, task) ==
  \A d \in Demands : \A link \in LinksOf(d) :
    link.package = p => link.task \in {None, task}

CreatePackage(p, project, task, window, planned) ==
  /\ package[p] = None
  /\ Assignable(task, project)
  /\ package' = [package EXCEPT ![p] =
                   [project |-> project, task |-> task, window |-> window,
                    planned |-> planned, terminal |-> None,
                    weekly |-> NoWeekly]]
  /\ UNCHANGED <<interval, taskStatus, demand, piece, delivered, linking>>

MayMove(p, project, task) ==
  /\ package[p].task # None => task # None
  /\ task # None => Assignable(task, project)
  /\ project # package[p].project => ~HasDependents(p)
  /\ package[p].task \notin {None, task} => ~HasDependents(p)
  /\ package[p].task = None /\ task # None => Regularises(p, task)

Moved(p, project, task, window, planned, weekly) ==
  package' = [package EXCEPT ![p] =
                [@ EXCEPT !.project = project, !.task = task,
                          !.window = window, !.planned = planned,
                          !.weekly = weekly]]

\* An edition that leaves the intervals alone must leave them room.
EditPackage(p, project, task, window, planned) ==
  /\ package[p] # None
  /\ MayMove(p, project, task)
  /\ Fits(Own(p), window, planned)
  /\ Moved(p, project, task, window, planned, package[p].weekly)
  /\ UNCHANGED <<interval, taskStatus, demand, piece, delivered, linking>>

\* One that replaces them ends the weekly loads.
WeeklyAfter_Kept(p) == package[p].weekly
WeeklyAfter(p) == NoWeekly

ReplaceIntervals(p, project, task, window, planned, rows) ==
  /\ package[p] # None
  /\ MayMove(p, project, task)
  /\ Fits(rows, window, planned)
  /\ Replaced(p, rows)
  /\ Moved(p, project, task, window, planned, WeeklyAfter(p))
  /\ UNCHANGED <<taskStatus, demand, piece, delivered, linking>>

\* AUTO accepts the proposal as it is now.
ReplaceWeekly(p, origin, weekly) ==
  /\ package[p] # None
  /\ ValidWeekly(weekly, package[p].window, package[p].planned)
  /\ origin = "AUTO" =>
       weekly = Proposal(package[p].window, package[p].planned)
  /\ Replaced(p, AsIntervals(p, weekly, package[p].window))
  /\ package' = [package EXCEPT ![p].weekly = weekly]
  /\ UNCHANGED <<taskStatus, demand, piece, delivered, linking>>

\* A closed package may be cancelled, a terminal one reopened.
SetTerminal(p, target) ==
  /\ package[p] # None
  /\ \/ target = None /\ package[p].terminal # None
     \/ target # None /\ package[p].terminal = None
     \/ target = "cancelled" /\ package[p].terminal = "closed"
  /\ package' = [package EXCEPT ![p].terminal = target]
  /\ UNCHANGED <<interval, taskStatus, demand, piece, delivered, linking>>

-----------------------------------------------------------------------------
(* Dependents.                                                             *)

\* A demand is edited through its lines once it has any.
Understood(c) ==
  CASE c.kind = "create" ->
         /\ demand[c.demand] = None
         /\ Keep \notin {c.project, c.package, c.task}
    [] c.kind = "flat" -> demand[c.demand] # None /\ ~demand[c.demand].byLines
    [] OTHER -> demand[c.demand] # None /\ Keep \notin {c.package, c.task}

Target(c, seen) == IF c.project = Keep THEN seen.project ELSE c.project

\* The package of the command, or the one the demand has where it is of the
\* same project.
Linked(c, seen) ==
  IF c.package # Keep THEN c.package
  ELSE LET p == seen.link.package
       IN  IF p # None /\ package[p].project = Target(c, seen) THEN p ELSE None

\* Reads, before any lock.
BeginLink(w, c) ==
  /\ linking[w] = Unlinked
  /\ Understood(c)
  /\ Blind \/ \A v \in Editors :
                linking[v] # Unlinked => linking[v].command.demand # c.demand
  /\ LET seen == demand[c.demand]
         p == Linked(c, seen)
     IN  /\ p # None =>
              package[p] # None /\ package[p].project = Target(c, seen)
         /\ linking' = [linking EXCEPT ![w] =
                          [command |-> c, seen |-> seen, package |-> p]]
  /\ UNCHANGED <<package, interval, taskStatus, demand, piece, delivered>>

\* _guard_work_packages: the package is locked, read again and compared.
StillOf_Unread(p, project) == TRUE
StillOf(p, project) == p # None => package[p].project = project

\* _task and _effective_task: the task of the package unless it has none.
EffectiveTask(p, explicit) ==
  IF p # None /\ package[p].task # None THEN package[p].task ELSE explicit

Consistent(p, explicit, project) ==
  /\ explicit # None =>
       ProjectOf[explicit] = project /\ taskStatus[explicit] # "inactive"
  /\ EffectiveTask(p, explicit) # None =>
       /\ ProjectOf[EffectiveTask(p, explicit)] = project
       /\ explicit \in {None, EffectiveTask(p, explicit)}

\* The task of the command, or the one the demand has in its project.
Explicit(c, seen) ==
  IF c.task # Keep THEN c.task
  ELSE IF c.project = Keep THEN seen.link.task ELSE None

\* The attributes that the transaction changed; the others stay as they are.
Updated(current, seen, new) == IF new = seen THEN current ELSE new

WriteFlat(c, seen, p) ==
  LET project == Target(c, seen)
      explicit == Explicit(c, seen)
      old == seen.link
      left == p = None /\ c.package = Keep /\ c.project = Keep
      now == demand[c.demand]
      link == [package |-> Updated(now.link.package, old.package,
                                   IF left THEN old.package ELSE p),
               task |-> Updated(now.link.task, old.task,
                                EffectiveTask(p, explicit))]
  IN  /\ Consistent(p, explicit, project)
      /\ demand' = [demand EXCEPT ![c.demand] =
                      [now EXCEPT
                         !.project = Updated(now.project, seen.project,
                                             project),
                         !.link = link]]

\* The line is new or one that was there; one that is not given again stays,
\* inactive.  The fields of the demand are checked before its lines.
WriteLines(c, seen, p) ==
  LET project == Target(c, seen)
      kept == Linked([c EXCEPT !.package = Keep], seen)
  IN  /\ Consistent(kept, Explicit([c EXCEPT !.task = Keep], seen), project)
      /\ Consistent(p, c.task, project)
      /\ \E former \in {seen.former, seen.former \cup {seen.link}} :
           demand' = [demand EXCEPT ![c.demand] =
                        [project |-> project, byLines |-> TRUE,
                         link |-> [package |-> p,
                                   task |-> EffectiveTask(p, c.task)],
                         former |-> former]]

CommitLink(w) ==
  /\ linking[w] # Unlinked
  /\ LET c == linking[w].command
         seen == linking[w].seen
         p == linking[w].package
     IN  /\ StillOf(p, Target(c, seen))
         /\ CASE c.kind = "create" ->
                   /\ Consistent(p, c.task, c.project)
                   /\ \E byLines \in BOOLEAN :
                        demand' = [demand EXCEPT ![c.demand] =
                          [project |-> c.project, byLines |-> byLines,
                           link |-> [package |-> p,
                                     task |-> EffectiveTask(p, c.task)],
                           former |-> {}]]
              [] c.kind = "flat" -> WriteFlat(c, seen, p)
              [] OTHER -> WriteLines(c, seen, p)
  /\ linking' = [linking EXCEPT ![w] = Unlinked]
  /\ UNCHANGED <<package, interval, taskStatus, piece, delivered>>

\* A conflict, a refusal, an error or a crash.
AbandonLink(w) ==
  /\ linking[w] # Unlinked
  /\ linking' = [linking EXCEPT ![w] = Unlinked]
  /\ UNCHANGED <<package, interval, taskStatus, demand, piece, delivered>>

\* A segment is created or edited: the lock precedes the reading.
LinkPiece(g, project, p) ==
  /\ p # None => package[p] # None /\ package[p].project = project
  /\ piece' = [piece EXCEPT ![g] = [project |-> project, package |-> p]]
  /\ UNCHANGED <<package, interval, taskStatus, demand, delivered, linking>>

Deliver(p) ==
  /\ package[p] # None
  /\ delivered' = delivered \cup {p}
  /\ UNCHANGED <<package, interval, taskStatus, demand, piece, linking>>

\* The synchronisation with the ERP opens and closes tasks.
TaskChanges(t) ==
  /\ \E status \in {"eligible", "ineligible", "inactive"} :
       taskStatus' = [taskStatus EXCEPT ![t] = status]
  /\ UNCHANGED <<package, interval, demand, piece, delivered, linking>>

-----------------------------------------------------------------------------

PackagesInit ==
  /\ package \in [Packages -> {None} \cup
       {[project |-> project, task |-> None, window |-> None,
         planned |-> None, terminal |-> None, weekly |-> NoWeekly] :
          project \in PackageProjects}]
  /\ interval = {}
  /\ taskStatus = [t \in ErpTasks |-> "eligible"]
  /\ demand = [d \in Demands |-> None]
  /\ piece = [g \in Pieces |-> None]
  /\ delivered = {}
  /\ linking = [w \in Editors |-> Unlinked]

\* Rows of intervals as a command gives them: with the identifier of a row
\* that the package has, or none.
Laid(p, layout) ==
  LET free == NewIds \ {row.id : row \in interval}
      ids == {f \in [DOMAIN layout -> free \cup {row.id : row \in Own(p)}] :
                \A i, j \in DOMAIN layout : i # j => f[i] # f[j]}
  IN  {{[id |-> f[i], package |-> p, from |-> layout[i].from,
         to |-> layout[i].to, hours |-> layout[i].hours] :
          i \in DOMAIN layout} : f \in ids}

PackageCommands(p) ==
  \E project \in PackageProjects, task \in Optional(ErpTasks),
     window \in Optional(Windows), planned \in Optional(Amounts) :
    \/ task # None /\ CreatePackage(p, project, task, window, planned)
    \/ EditPackage(p, project, task, window, planned)
    \/ \E layout \in Layouts : \E rows \in Laid(p, layout) :
         ReplaceIntervals(p, project, task, window, planned, rows)

WeeklyCommands(p) ==
  /\ package[p] # None /\ package[p].planned # None
  /\ \E weeks \in SUBSET Weeks, origin \in {"AUTO", "MANUAL"} :
       \E weekly \in [weeks -> 0 .. package[p].planned] :
         ReplaceWeekly(p, origin, weekly)

LinkCommands(w) ==
  \/ \E c \in LinkCommand : BeginLink(w, c)
  \/ CommitLink(w) \/ AbandonLink(w)

PackagesNext ==
  \/ \E p \in Packages :
       \/ PackageCommands(p) \/ WeeklyCommands(p) \/ Deliver(p)
       \/ \E target \in Optional({"closed", "cancelled"}) :
            SetTerminal(p, target)
  \/ \E w \in Editors : LinkCommands(w)
  \/ \E g \in Pieces, project \in PackageProjects, p \in Optional(Packages) :
       LinkPiece(g, project, p)
  \/ \E t \in ErpTasks : TaskChanges(t)

PackagesSpec == PackagesInit /\ [][PackagesNext]_packageVars

-----------------------------------------------------------------------------
(* Properties.                                                             *)

\* What refers to a package is of the project of the package, and a demand
\* has no other task than its package, although the package is read before
\* it is locked and both may be edited (_guard_work_packages,
\* _dependency_counts, _validate_regularization).
LinksFollowPackages ==
  /\ \A d \in Demands :
       demand[d] # None /\ demand[d].link.package # None =>
         LET p == demand[d].link.package
         IN  /\ package[p].project = demand[d].project
             /\ \/ None \in {package[p].task, demand[d].link.task}
                \/ package[p].task = demand[d].link.task
  /\ \A g \in Pieces : piece[g] # None /\ piece[g].package # None =>
       package[piece[g].package].project = piece[g].project

\* The intervals of a package are in its window and within its hours, weekly
\* loads that are still stored say the same as the intervals, and the hours
\* of the projection, day by day, are those that are planned, whichever way
\* the commands changed them in between (ADR-019).
LoadIsConsistent ==
  \A p \in Packages : package[p] # None =>
    LET window == package[p].window
        planned == package[p].planned
        weekly == package[p].weekly
    IN  /\ Fits(Own(p), window, planned)
        /\ DOMAIN weekly # {} =>
             {<<row.id, row.hours>> : row \in Own(p)} =
               {<<week, weekly[week]>> : week \in DOMAIN weekly}
        /\ window # None /\ planned # None =>
             LET daily == Projected(Own(p), window, planned)
             IN  MapThenSumSet(LAMBDA day : daily[day], DOMAIN daily) = planned

\* "L'identifiant de ligne est stable et independant des dates" (ADR-019:54):
\* weekly loads are not refused because another package has an interval in
\* the same week.
WeeksArePlannedApart ==
  \A p \in Packages : package[p] # None /\ package[p].window # None =>
    \A row \in interval :
      row.package # p => row.id \notin WeeksOf(package[p].window)
=============================================================================
