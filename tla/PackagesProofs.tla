--------------------------- MODULE PackagesProofs ----------------------------
(***************************************************************************)
(* Theorems about WorkPackages, for any packages, tasks, requests,         *)
(* windows, layouts and hours, and the types of the whole planning.        *)
(*                                                                         *)
(* LinksInv is inductive where two editions of a demand do not overlap (~  *)
(* Blind): what refers to a package follows it, and so does what a         *)
(* transaction has read and has yet to write.                              *)
(*                                                                         *)
(* LoadsInv is inductive, and with it the projection of a package adds up  *)
(* to what is planned: the parts of an equal division add up to the        *)
(* whole, and a table of hours adds up to the same by rows and by days.    *)
(*                                                                         *)
(* PlanningInv is inductive for the moves of every part of MCPlanning, and *)
(* gives their types.  Those of the shifts rest on PlanTyped: only a       *)
(* segment with a target has shifts that a rebuild may replace.  Those of  *)
(* the scopes rest on EditsCounted: a version and the transactions that    *)
(* are under way are no more than the commands so far and one.  Those of   *)
(* the links rest on what a transaction has read: rows stay once they are  *)
(* there, also where two editions overlap.                                 *)
(***************************************************************************)
EXTENDS MCPlanning, PlanningProofs, FiniteFacts, SequenceTheorems

-----------------------------------------------------------------------------
(* Links to work packages: the invariant.                                  *)

\* The rows that links are written in.
LinksTyped ==
  /\ package \in [Packages -> Optional(PackageRow)]
  /\ demand \in [Demands -> Optional(DemandRow)]
  /\ piece \in [Pieces -> Optional(PieceRow)]
  /\ linking \in [Editors -> LinkingRow \cup {Unlinked}]

\* A demand and the package it refers to.
DemandFollows(row) ==
  LET p == row.link.package IN
    p # None =>
      /\ package[p] # None /\ package[p].project = row.project
      /\ \/ None \in {package[p].task, row.link.task}
         \/ package[p].task = row.link.task

\* A segment and the package it refers to.
PieceFollows(row) ==
  row.package # None =>
    /\ package[row.package] # None
    /\ package[row.package].project = row.project

\* A transaction that has read, and what it has read.
LinkingSound(row) ==
  LET c == row.command IN
    /\ Understood(c) /\ row.seen = demand[c.demand]
    /\ row.package # None => package[row.package] # None
    /\ row.package = None /\ c.package = Keep /\ c.project = Keep =>
         row.seen.link.package = None

\* Two transactions write two demands.
LinkingApart ==
  \A v, w \in Editors :
    /\ linking[v] # Unlinked /\ linking[w] # Unlinked
    /\ linking[v].command.demand = linking[w].command.demand
    => v = w

\* The invariant.
LinksInv ==
  /\ LinksTyped
  /\ \A d \in Demands : demand[d] # None => DemandFollows(demand[d])
  /\ \A g \in Pieces : piece[g] # None => PieceFollows(piece[g])
  /\ \A w \in Editors : linking[w] # Unlinked => LinkingSound(linking[w])
  /\ LinkingApart

\* The invariant says what was promised.
LEMMA InvLinks == LinksInv => LinksFollowPackages
  BY DEF LinksInv, LinksFollowPackages, DemandFollows, PieceFollows

\* A row of the table of packages.
LEMMA PackageFacts ==
  ASSUME LinksTyped, NEW p \in Packages, package[p] # None
  PROVE  package[p] \in PackageRow
  BY DEF LinksTyped, Optional

-----------------------------------------------------------------------------
(* Packages.                                                               *)

\* How a package may change: what depends on it stays right.
ChangesSafely ==
  \A p \in Packages : package[p] # None =>
    /\ package'[p] # None
    /\ package'[p].project = package[p].project \/ ~HasDependents(p)
    /\ \/ package'[p].task = package[p].task
       \/ ~HasDependents(p)
       \/ package[p].task = None /\ Regularises(p, package'[p].task)

\* What refers to a package is one of its dependents.
LEMMA PackagesChange ==
  ASSUME LinksInv, ChangesSafely,
         package' \in [Packages -> Optional(PackageRow)],
         UNCHANGED <<demand, piece, linking>>
  PROVE  LinksInv'
  <1>1. LinksTyped'
    BY DEF LinksInv, LinksTyped
  <1>2. ASSUME NEW d \in Demands, demand[d] # None
        PROVE  DemandFollows(demand[d])'
    <2>1. PICK link : link = demand[d].link
      OBVIOUS
    <2>2. PICK p : p = link.package
      OBVIOUS
    <2>3. SUFFICES ASSUME p # None
                   PROVE  /\ package'[p] # None
                          /\ package'[p].project = demand[d].project
                          /\ \/ None \in {package'[p].task, link.task}
                             \/ package'[p].task = link.task
      BY <2>1, <2>2 DEF DemandFollows
    <2>4. /\ package[p] # None /\ package[p].project = demand[d].project
          /\ \/ None \in {package[p].task, link.task}
             \/ package[p].task = link.task
      BY <1>2, <2>1, <2>2, <2>3 DEF LinksInv, DemandFollows
    <2>5. p \in Packages
      BY <1>2, <2>1, <2>2, <2>3
         DEF LinksInv, LinksTyped, DemandRow, PackageLink, Optional
    <2>6. link \in LinksOf(d)
      BY <1>2, <2>1 DEF LinksOf
    <2>7. HasDependents(p)
      BY <2>2, <2>6 DEF HasDependents
    <2>8. \/ package'[p].task = package[p].task
          \/ package[p].task = None /\ link.task \in {None, package'[p].task}
      BY <2>2, <2>4, <2>5, <2>6, <2>7 DEF ChangesSafely, Regularises
    <2> QED
      BY <2>4, <2>5, <2>7, <2>8 DEF ChangesSafely
  <1>3. ASSUME NEW g \in Pieces, piece[g] # None
        PROVE  PieceFollows(piece[g])'
    <2>1. SUFFICES ASSUME piece[g].package # None
                   PROVE  /\ package'[piece[g].package] # None
                          /\ package'[piece[g].package].project =
                               piece[g].project
      BY DEF PieceFollows
    <2>2. PICK p : p = piece[g].package
      OBVIOUS
    <2>3. package[p] # None /\ package[p].project = piece[g].project
      BY <1>3, <2>1, <2>2 DEF LinksInv, PieceFollows
    <2>4. p \in Packages
      BY <1>3, <2>1, <2>2 DEF LinksInv, LinksTyped, PieceRow, Optional
    <2>5. HasDependents(p)
      BY <1>3, <2>2 DEF HasDependents
    <2> QED
      BY <2>2, <2>3, <2>4, <2>5 DEF ChangesSafely
  <1>4. ASSUME NEW w \in Editors, linking[w] # Unlinked
        PROVE  LinkingSound(linking[w])'
    <2>1. LinkingSound(linking[w])
      BY <1>4 DEF LinksInv
    <2>2. linking[w].package \in Optional(Packages)
      BY <1>4 DEF LinksInv, LinksTyped, LinkingRow
    <2>3. linking[w].package # None => package'[linking[w].package] # None
      BY <2>1, <2>2 DEF LinkingSound, ChangesSafely, Optional
    <2> QED
      BY <2>1, <2>3 DEF LinkingSound, Understood
  <1>5. LinkingApart'
    BY DEF LinksInv, LinkingApart
  <1> QED
    BY <1>1, <1>2, <1>3, <1>4, <1>5 DEF LinksInv

\* One package is written, as its row or as a new one.
LEMMA PackageWritten ==
  ASSUME LinksInv, NEW p \in Packages, NEW row \in PackageRow,
         package' = [package EXCEPT ![p] = row],
         package[p] # None =>
           /\ row.project = package[p].project \/ ~HasDependents(p)
           /\ \/ row.task = package[p].task
              \/ ~HasDependents(p)
              \/ package[p].task = None /\ Regularises(p, row.task),
         UNCHANGED <<demand, piece, linking>>
  PROVE  LinksInv'
  <1>1. /\ package \in [Packages -> Optional(PackageRow)]
        /\ package' \in [Packages -> Optional(PackageRow)]
    BY DEF LinksInv, LinksTyped, Optional
  <1>2. row # None
    BY PackagesAssumption
  <1>3. ChangesSafely
    BY <1>1, <1>2 DEF ChangesSafely
  <1> QED
    BY <1>1, <1>3, PackagesChange

\* Loads within what some package has planned are weekly loads.
LEMMA WeeklyTyped ==
  ASSUME NEW weeks \in SUBSET Weeks, NEW amount \in Amounts,
         NEW weekly \in [weeks -> 0 .. amount]
  PROVE  weekly \in WeeklyLoads
  <1>1. weekly \in [weeks -> Loads]
    BY DEF Loads
  <1> QED
    BY <1>1 DEF WeeklyLoads

\* No weekly loads are.
LEMMA NoWeeklyTyped == NoWeekly \in WeeklyLoads
  <1>1. NoWeekly \in [{} -> Loads]
    BY DEF NoWeekly
  <1> QED
    BY <1>1 DEF WeeklyLoads

\* A package is created, with nothing that depends on it.
LEMMA CreatePackageKeeps ==
  ASSUME LinksInv, NEW p \in Packages, NEW project \in PackageProjects,
         NEW task \in Optional(ErpTasks), NEW dates \in Optional(Windows),
         NEW amount \in Optional(Amounts),
         CreatePackage(p, project, task, dates, amount)
  PROVE  LinksInv'
  <1>1. PICK row :
          row = [project |-> project, task |-> task, window |-> dates,
                 planned |-> amount, terminal |-> None, weekly |-> NoWeekly]
    OBVIOUS
  <1>2. row \in PackageRow
    BY <1>1, NoWeeklyTyped DEF PackageRow, Optional
  <1>3. /\ package[p] = None /\ package' = [package EXCEPT ![p] = row]
        /\ UNCHANGED <<demand, piece, linking>>
    BY <1>1 DEF CreatePackage
  <1> QED
    BY <1>2, <1>3, PackageWritten

\* An edition keeps project and task where something depends on the package.
LEMMA MovedKeeps ==
  ASSUME LinksInv, NEW p \in Packages, package[p] # None,
         NEW project \in PackageProjects,
         NEW task \in Optional(ErpTasks), NEW dates \in Optional(Windows),
         NEW amount \in Optional(Amounts),
         NEW weekly \in WeeklyLoads,
         MayMove(p, project, task),
         Moved(p, project, task, dates, amount, weekly),
         UNCHANGED <<demand, piece, linking>>
  PROVE  LinksInv'
  <1>1. PICK row :
          row = [package[p] EXCEPT !.project = project, !.task = task,
                                   !.window = dates, !.planned = amount,
                                   !.weekly = weekly]
    OBVIOUS
  <1>2. package[p] \in PackageRow
    BY PackageFacts DEF LinksInv
  <1>3. row \in PackageRow /\ row.project = project /\ row.task = task
    BY <1>1, <1>2 DEF PackageRow
  <1>4. package' = [package EXCEPT ![p] = row]
    BY <1>1 DEF Moved
  <1>5. /\ row.project = package[p].project \/ ~HasDependents(p)
        /\ \/ row.task = package[p].task
           \/ ~HasDependents(p)
           \/ package[p].task = None /\ Regularises(p, row.task)
    BY <1>3 DEF MayMove
  <1> QED
    BY <1>3, <1>4, <1>5, PackageWritten

\* Hours, and the end of a package, leave its project and its task.
LEMMA RewrittenKeeps ==
  ASSUME LinksInv, NEW p \in Packages, package[p] # None,
         NEW row \in PackageRow,
         package' = [package EXCEPT ![p] = row],
         row.project = package[p].project, row.task = package[p].task,
         UNCHANGED <<demand, piece, linking>>
  PROVE  LinksInv'
  BY PackageWritten

\* Every command of a package.
LEMMA PackageCommandsKeep ==
  ASSUME LinksInv, NEW p \in Packages,
         \/ PackageCommands(p) \/ WeeklyCommands(p)
         \/ \E end \in Optional({"closed", "cancelled"}) :
              SetTerminal(p, end)
  PROVE  LinksInv'
  <1>1. CASE PackageCommands(p)
    <2>1. PICK project \in PackageProjects, task \in Optional(ErpTasks),
               dates \in Optional(Windows), amount \in Optional(Amounts) :
            \/ CreatePackage(p, project, task, dates, amount)
            \/ EditPackage(p, project, task, dates, amount)
            \/ \E rows : ReplaceIntervals(p, project, task, dates, amount,
                                          rows)
      BY <1>1 DEF PackageCommands
    <2>2. CASE CreatePackage(p, project, task, dates, amount)
      BY <2>2, CreatePackageKeeps
    <2>3. CASE EditPackage(p, project, task, dates, amount)
      <3>1. /\ package[p] # None /\ MayMove(p, project, task)
            /\ Moved(p, project, task, dates, amount, package[p].weekly)
            /\ UNCHANGED <<demand, piece, linking>>
        BY <2>3 DEF EditPackage
      <3>2. package[p].weekly \in WeeklyLoads
        BY <3>1, PackageFacts DEF LinksInv, PackageRow
      <3>3. PICK weekly \in WeeklyLoads : weekly = package[p].weekly
        BY <3>2
      <3> QED
        BY <3>1, <3>3, MovedKeeps
    <2>4. CASE \E rows : ReplaceIntervals(p, project, task, dates, amount,
                                          rows)
      <3>1. /\ package[p] # None /\ MayMove(p, project, task)
            /\ Moved(p, project, task, dates, amount, NoWeekly)
            /\ UNCHANGED <<demand, piece, linking>>
        BY <2>4 DEF ReplaceIntervals, WeeklyAfter
      <3> QED
        BY <3>1, NoWeeklyTyped, MovedKeeps
    <2> QED
      BY <2>1, <2>2, <2>3, <2>4
  <1>2. CASE WeeklyCommands(p)
    <2>1. PICK weeks \in SUBSET Weeks, origin \in {"AUTO", "MANUAL"} :
            \E weekly \in [weeks -> 0 .. package[p].planned] :
              ReplaceWeekly(p, origin, weekly)
      BY <1>2 DEF WeeklyCommands
    <2>2. PICK weekly \in [weeks -> 0 .. package[p].planned] :
            ReplaceWeekly(p, origin, weekly)
      BY <2>1
    <2>3. /\ package[p] # None /\ package[p].planned # None
          /\ package[p] \in PackageRow
      BY <1>2, PackageFacts DEF WeeklyCommands, LinksInv
    <2>4. package[p].planned \in Amounts
      BY <2>3 DEF PackageRow, Optional
    <2>5. PICK row : row = [package[p] EXCEPT !.weekly = weekly]
      OBVIOUS
    <2>6. weekly \in WeeklyLoads
      BY <2>1, <2>2, <2>4, WeeklyTyped
    <2>7. /\ row \in PackageRow
          /\ row.project = package[p].project /\ row.task = package[p].task
      BY <2>3, <2>5, <2>6 DEF PackageRow
    <2>8. /\ package' = [package EXCEPT ![p] = row]
          /\ UNCHANGED <<demand, piece, linking>>
      BY <2>2, <2>5 DEF ReplaceWeekly
    <2> QED
      BY <2>3, <2>7, <2>8, RewrittenKeeps
  <1>3. ASSUME NEW end \in Optional({"closed", "cancelled"}),
               SetTerminal(p, end)
        PROVE  LinksInv'
    <2>1. package[p] # None /\ package[p] \in PackageRow
      BY <1>3, PackageFacts DEF SetTerminal, LinksInv
    <2>2. PICK row : row = [package[p] EXCEPT !.terminal = end]
      OBVIOUS
    <2>3. /\ row \in PackageRow
          /\ row.project = package[p].project /\ row.task = package[p].task
      BY <2>1, <2>2 DEF PackageRow
    <2>4. /\ package' = [package EXCEPT ![p] = row]
          /\ UNCHANGED <<demand, piece, linking>>
      BY <1>3, <2>2 DEF SetTerminal
    <2> QED
      BY <2>1, <2>3, <2>4, RewrittenKeeps
  <1> QED
    BY <1>1, <1>2, <1>3

-----------------------------------------------------------------------------
(* Dependents.                                                             *)

\* A segment refers to a package of its project.
LEMMA LinkPieceKeeps ==
  ASSUME LinksInv, NEW g \in Pieces, NEW project \in PackageProjects,
         NEW p \in Optional(Packages), LinkPiece(g, project, p)
  PROVE  LinksInv'
  <1>1. PICK row : row = [project |-> project, package |-> p]
    OBVIOUS
  <1>2. /\ row \in PieceRow /\ row.project = project /\ row.package = p
        /\ p # None => package[p] # None /\ package[p].project = project
        /\ piece' = [piece EXCEPT ![g] = row]
        /\ UNCHANGED <<package, demand, linking>>
    BY <1>1 DEF LinkPiece, PieceRow
  <1>3. PieceFollows(row)
    BY <1>2 DEF PieceFollows
  <1>4. LinksTyped'
    BY <1>2 DEF LinksInv, LinksTyped, Optional
  <1>5. ASSUME NEW h \in Pieces, piece'[h] # None
        PROVE  PieceFollows(piece'[h])
    BY <1>2, <1>3, <1>5 DEF LinksInv, LinksTyped
  <1>6. ASSUME NEW h \in Pieces, piece'[h] # None
        PROVE  PieceFollows(piece[h])'
    BY <1>2, <1>5, <1>6 DEF PieceFollows
  <1> QED
    BY <1>2, <1>4, <1>6
       DEF LinksInv, DemandFollows, LinkingSound, Understood, LinkingApart

\* The package a transaction finds is one of the catalogue, and what it will
\* leave in the demand is none.
LEMMA BeginLinkKeeps ==
  ASSUME ~Blind, LinksInv, NEW w \in Editors, NEW c \in LinkCommand,
         BeginLink(w, c)
  PROVE  LinksInv'
  <1>1. PICK seen, p : seen = demand[c.demand] /\ p = Linked(c, seen)
    OBVIOUS
  <1>2. PICK row : row = [command |-> c, seen |-> seen, package |-> p]
    OBVIOUS
  <1>3. /\ linking[w] = Unlinked /\ Understood(c)
        /\ \A v \in Editors :
             linking[v] # Unlinked => linking[v].command.demand # c.demand
        /\ p # None =>
             package[p] # None /\ package[p].project = Target(c, seen)
        /\ linking' = [linking EXCEPT ![w] = row]
        /\ UNCHANGED <<package, demand, piece>>
    BY <1>1, <1>2 DEF BeginLink
  <1>4. /\ c.demand \in Demands /\ seen \in Optional(DemandRow)
        /\ c.package \in Packages \cup {None, Keep}
        /\ c.kind \in {"create", "flat", "lines"}
    BY <1>1 DEF LinkCommand, LinksInv, LinksTyped
  <1>5. c.package = Keep \/ c.project = Keep =>
          seen \in DemandRow /\ seen # None
    BY <1>1, <1>3, <1>4 DEF Understood, Optional
  <1>6. p \in Optional(Packages)
    BY <1>1, <1>4, <1>5 DEF Linked, Optional, DemandRow, PackageLink
  <1>7. row \in LinkingRow
    BY <1>2, <1>4, <1>6 DEF LinkingRow
  <1>8. ASSUME p = None, c.package = Keep, c.project = Keep
        PROVE  seen.link.package = None
    <2>1. seen # None /\ DemandFollows(seen)
      BY <1>1, <1>4, <1>5, <1>8 DEF LinksInv
    <2> QED
      BY <1>1, <1>8, <2>1 DEF Linked, Target, DemandFollows
  <1>9. LinkingSound(row)
    BY <1>1, <1>2, <1>3, <1>8 DEF LinkingSound
  <1>10. LinksTyped'
    BY <1>3, <1>7 DEF LinksInv, LinksTyped
  <1>11. ASSUME NEW v \in Editors, linking'[v] # Unlinked
         PROVE  LinkingSound(linking'[v])
    BY <1>3, <1>9, <1>11 DEF LinksInv, LinksTyped
  <1>12. ASSUME NEW v \in Editors, linking'[v] # Unlinked
         PROVE  LinkingSound(linking[v])'
    BY <1>3, <1>11, <1>12 DEF LinkingSound, Understood
  <1>13. LinkingApart'
    BY <1>2, <1>3 DEF LinksInv, LinksTyped, LinkingApart
  <1> QED
    BY <1>3, <1>10, <1>12, <1>13 DEF LinksInv, DemandFollows, PieceFollows

\* A transaction that ends without writing.
LEMMA AbandonLinkKeeps ==
  ASSUME LinksInv, NEW w \in Editors, AbandonLink(w)
  PROVE  LinksInv'
  <1>1. /\ linking' = [linking EXCEPT ![w] = Unlinked]
        /\ UNCHANGED <<package, demand, piece>>
    BY DEF AbandonLink
  <1>2. LinksTyped'
    BY <1>1 DEF LinksInv, LinksTyped
  <1>3. ASSUME NEW v \in Editors, linking'[v] # Unlinked
        PROVE  linking'[v] = linking[v]
    BY <1>1, <1>3 DEF LinksInv, LinksTyped
  <1> QED
    BY <1>1, <1>2, <1>3
       DEF LinksInv, DemandFollows, PieceFollows, LinkingSound, Understood,
       LinkingApart

-----------------------------------------------------------------------------
(* The write of a demand.                                                  *)

\* The task of a link is that of its package, when it has one.
LEMMA EffectiveFollows ==
  ASSUME LinksTyped, NEW p \in Optional(Packages),
         p # None => package[p] # None,
         NEW explicit \in Optional(ErpTasks)
  PROVE  /\ EffectiveTask(p, explicit) \in Optional(ErpTasks)
         /\ p # None =>
              \/ package[p].task = None
              \/ package[p].task = EffectiveTask(p, explicit)
  <1>1. p # None => package[p].task \in Optional(ErpTasks)
    BY PackageFacts DEF PackageRow, Optional
  <1> QED
    BY <1>1 DEF EffectiveTask

\* The row that a transaction writes refers to the package it has locked.
LEMMA WrittenFollows ==
  ASSUME LinksTyped, NEW p \in Optional(Packages),
         p # None => package[p] # None,
         NEW project, StillOf(p, project),
         NEW explicit \in Optional(ErpTasks),
         NEW row, row.project = project, row.link.package = p,
         row.link.task = EffectiveTask(p, explicit)
  PROVE  DemandFollows(row)
  BY EffectiveFollows DEF DemandFollows, StillOf

\* What is kept is what was seen, as no other transaction has written.
LEMMA CommitLinkWrites ==
  ASSUME LinksInv, NEW w \in Editors, CommitLink(w)
  PROVE  \E d \in Demands, row \in DemandRow :
           /\ d = linking[w].command.demand
           /\ demand' = [demand EXCEPT ![d] = row]
           /\ DemandFollows(row)
  <1>1. PICK c, seen, p : /\ c = linking[w].command
                          /\ seen = linking[w].seen
                          /\ p = linking[w].package
    OBVIOUS
  <1>2. /\ linking[w] # Unlinked /\ StillOf(p, Target(c, seen))
        /\ CASE c.kind = "create" ->
                  /\ Consistent(p, c.task, c.project)
                  /\ \E byLines \in BOOLEAN :
                       demand' = [demand EXCEPT ![c.demand] =
                         [project |-> c.project, byLines |-> byLines,
                          link |-> [package |-> p,
                                    task |-> EffectiveTask(p, c.task)],
                          former |-> {}]]
             [] c.kind = "flat" -> WriteFlat(c, seen, p)
             [] OTHER -> WriteLines(c, seen, p)
    BY <1>1 DEF CommitLink
  <1>3. /\ c \in LinkCommand /\ p \in Optional(Packages)
        /\ seen \in Optional(DemandRow)
    BY <1>1, <1>2 DEF LinksInv, LinksTyped, LinkingRow
  <1>4. /\ c.demand \in Demands /\ c.kind \in {"create", "flat", "lines"}
        /\ c.project \in PackageProjects \cup {Keep}
        /\ c.task \in ErpTasks \cup {None, Keep}
    BY <1>3 DEF LinkCommand
  <1>5. /\ Understood(c) /\ seen = demand[c.demand]
        /\ p # None => package[p] # None
        /\ p = None /\ c.package = Keep /\ c.project = Keep =>
             seen.link.package = None
    BY <1>1, <1>2 DEF LinksInv, LinkingSound
  <1>6. LinksTyped /\ demand \in [Demands -> Optional(DemandRow)]
    BY DEF LinksInv, LinksTyped
  <1>7. CASE c.kind = "create"
    <2>1. PICK byLines \in BOOLEAN :
            demand' = [demand EXCEPT ![c.demand] =
                         [project |-> c.project, byLines |-> byLines,
                          link |-> [package |-> p,
                                    task |-> EffectiveTask(p, c.task)],
                          former |-> {}]]
      BY <1>2, <1>7
    <2>2. PICK row :
            row = [project |-> c.project, byLines |-> byLines,
                   link |-> [package |-> p,
                             task |-> EffectiveTask(p, c.task)],
                   former |-> {}]
      OBVIOUS
    <2>3. /\ c.project \in PackageProjects /\ c.task \in Optional(ErpTasks)
          /\ c.project # Keep
      BY <1>4, <1>5, <1>7 DEF Understood, Optional
    <2>4. EffectiveTask(p, c.task) \in Optional(ErpTasks)
      BY <1>3, <1>5, <1>6, <2>3, EffectiveFollows
    <2>5. row \in DemandRow
      BY <1>3, <2>2, <2>3, <2>4 DEF DemandRow, PackageLink
    <2>6. Target(c, seen) = c.project
      BY <2>3 DEF Target
    <2>7. DemandFollows(row)
      BY <1>2, <1>3, <1>5, <1>6, <2>2, <2>3, <2>6, WrittenFollows
    <2> QED
      BY <1>1, <1>4, <2>1, <2>2, <2>5, <2>7
  <1>8. CASE c.kind # "create"
    <2>1. seen \in DemandRow /\ seen # None
      BY <1>3, <1>4, <1>5, <1>8 DEF Understood, Optional
    <2>2. /\ seen.project \in PackageProjects /\ seen.link \in PackageLink
          /\ seen.former \subseteq PackageLink
          /\ seen.link.task \in Optional(ErpTasks)
          /\ seen.link.package \in Optional(Packages)
      BY <2>1 DEF DemandRow, PackageLink
    <2>3. PICK project : project = Target(c, seen)
      OBVIOUS
    <2>4. project \in PackageProjects
      BY <1>4, <2>2, <2>3 DEF Target
    <2>5. CASE c.kind = "flat"
      <3>1. PICK explicit : explicit = Explicit(c, seen)
        OBVIOUS
      <3>2. explicit \in Optional(ErpTasks)
        BY <1>4, <2>2, <3>1 DEF Explicit, Optional
      <3>3. PICK task : task = EffectiveTask(p, explicit)
        OBVIOUS
      <3>4. task \in Optional(ErpTasks)
        BY <1>3, <1>5, <1>6, <3>2, <3>3, EffectiveFollows
      <3>5. PICK link : link = [package |-> p, task |-> task]
        OBVIOUS
      <3>6. PICK row :
              row = [demand[c.demand] EXCEPT !.project = project,
                                             !.link = link]
        OBVIOUS
      <3>7. demand' = [demand EXCEPT ![c.demand] = row]
        <4>1. p = None /\ c.package = Keep /\ c.project = Keep =>
                seen.link.package = p
          BY <1>5
        <4>2. WriteFlat(c, seen, p)
          BY <1>2, <2>5
        <4>3. /\ Updated(seen.link.package, seen.link.package,
                         IF /\ p = None /\ c.package = Keep
                            /\ c.project = Keep
                         THEN seen.link.package ELSE p) = p
              /\ Updated(seen.link.task, seen.link.task, task) = task
              /\ Updated(seen.project, seen.project, project) = project
          BY <4>1 DEF Updated
        <4> QED
          BY <1>5, <2>3, <3>1, <3>3, <3>5, <3>6, <4>2, <4>3 DEF WriteFlat
      <3>8. /\ row \in DemandRow /\ row.project = project /\ row.link = link
            /\ link.package = p /\ link.task = task
        BY <1>3, <1>5, <2>1, <2>4, <3>4, <3>5, <3>6
           DEF DemandRow, PackageLink
      <3>9. DemandFollows(row)
        BY <1>2, <1>3, <1>5, <1>6, <2>3, <3>2, <3>3, <3>8, WrittenFollows
      <3> QED
        BY <1>1, <1>4, <3>7, <3>8, <3>9
    <2>6. CASE c.kind = "lines"
      <3>1. PICK former \in {seen.former, seen.former \cup {seen.link}} :
              demand' = [demand EXCEPT ![c.demand] =
                           [project |-> Target(c, seen), byLines |-> TRUE,
                            link |-> [package |-> p,
                                      task |-> EffectiveTask(p, c.task)],
                            former |-> former]]
        BY <1>2, <2>6 DEF WriteLines
      <3>2. c.task \in Optional(ErpTasks)
        BY <1>4, <1>5, <2>6 DEF Understood, Optional
      <3>3. EffectiveTask(p, c.task) \in Optional(ErpTasks)
        BY <1>3, <1>5, <1>6, <3>2, EffectiveFollows
      <3>4. PICK row :
              row = [project |-> Target(c, seen), byLines |-> TRUE,
                     link |-> [package |-> p,
                               task |-> EffectiveTask(p, c.task)],
                     former |-> former]
        OBVIOUS
      <3>5. former \subseteq PackageLink
        BY <2>2, <3>1
      <3>6. row \in DemandRow
        BY <1>3, <2>3, <2>4, <3>3, <3>4, <3>5 DEF DemandRow, PackageLink
      <3>7. DemandFollows(row)
        BY <1>2, <1>3, <1>5, <1>6, <3>2, <3>4, WrittenFollows
      <3> QED
        BY <1>1, <1>4, <3>1, <3>4, <3>6, <3>7
    <2> QED
      BY <1>4, <1>8, <2>5, <2>6
  <1> QED
    BY <1>7, <1>8

\* The other transactions write other demands.
LEMMA CommitLinkKeeps ==
  ASSUME LinksInv, NEW w \in Editors, CommitLink(w)
  PROVE  LinksInv'
  <1>1. PICK d \in Demands, row \in DemandRow :
          /\ d = linking[w].command.demand
          /\ demand' = [demand EXCEPT ![d] = row]
          /\ DemandFollows(row)
    BY CommitLinkWrites
  <1>2. /\ linking' = [linking EXCEPT ![w] = Unlinked]
        /\ linking[w] # Unlinked
        /\ UNCHANGED <<package, piece>>
    BY DEF CommitLink
  <1>3. LinksTyped'
    BY <1>1, <1>2 DEF LinksInv, LinksTyped, Optional
  <1>4. ASSUME NEW e \in Demands, demand'[e] # None
        PROVE  DemandFollows(demand'[e])
    BY <1>1, <1>4 DEF LinksInv, LinksTyped
  <1>5. ASSUME NEW e \in Demands, demand'[e] # None
        PROVE  DemandFollows(demand[e])'
    BY <1>2, <1>4, <1>5 DEF DemandFollows
  <1>6. ASSUME NEW v \in Editors, linking'[v] # Unlinked
        PROVE  LinkingSound(linking[v])'
    <2>1. v # w /\ linking'[v] = linking[v] /\ linking[v] # Unlinked
      BY <1>2, <1>6 DEF LinksInv, LinksTyped
    <2>2. linking[v].command.demand # d
      BY <1>1, <1>2, <2>1 DEF LinksInv, LinkingApart
    <2>3. LinkingSound(linking[v])
      BY <2>1 DEF LinksInv
    <2>4. demand'[linking[v].command.demand] =
            demand[linking[v].command.demand]
      BY <1>1, <2>2 DEF LinksInv, LinksTyped
    <2> QED
      BY <1>2, <2>1, <2>3, <2>4 DEF LinkingSound, Understood
  <1>7. LinkingApart'
    <2>1. \A v \in Editors : linking'[v] # Unlinked =>
                               linking'[v] = linking[v]
      BY <1>2 DEF LinksInv, LinksTyped
    <2> QED
      BY <2>1 DEF LinksInv, LinkingApart
  <1> QED
    BY <1>2, <1>3, <1>5, <1>6, <1>7 DEF LinksInv, PieceFollows

-----------------------------------------------------------------------------
(* The whole.                                                              *)

\* Nothing refers to a package at the start.
LEMMA InitLinksInv == PackagesInit => LinksInv
  <1> SUFFICES ASSUME PackagesInit PROVE LinksInv
    OBVIOUS
  <1>1. package \in [Packages -> Optional(PackageRow)]
    BY NoWeeklyTyped DEF PackagesInit, PackageRow, Optional
  <1> QED
    BY <1>1 DEF PackagesInit, LinksInv, LinksTyped, LinkingApart, Optional

\* Every step keeps the links right.
LEMMA NextLinksInv ==
  ASSUME ~Blind
  PROVE  LinksInv /\ [PackagesNext]_packageVars => LinksInv'
  <1> SUFFICES ASSUME LinksInv, [PackagesNext]_packageVars PROVE LinksInv'
    OBVIOUS
  <1>1. ASSUME UNCHANGED <<package, demand, piece, linking>>
        PROVE  LinksInv'
    BY <1>1 DEF LinksInv, LinksTyped, DemandFollows, PieceFollows,
       LinkingSound, Understood, LinkingApart
  <1>2. ASSUME NEW p \in Packages, Deliver(p)
        PROVE  LinksInv'
    BY <1>1, <1>2 DEF Deliver
  <1>3. ASSUME NEW t \in ErpTasks, TaskChanges(t)
        PROVE  LinksInv'
    BY <1>1, <1>3 DEF TaskChanges
  <1>4. CASE UNCHANGED packageVars
    BY <1>1, <1>4 DEF packageVars
  <1> QED
    BY <1>2, <1>3, <1>4, PackageCommandsKeep, LinkPieceKeeps, BeginLinkKeeps,
       CommitLinkKeeps, AbandonLinkKeeps DEF PackagesNext, LinkCommands

\* When two editions of a demand do not overlap, what refers to a package is
\* of its project and has no other task, although the package may be edited
\* between its reading and its lock.
THEOREM LinksFollow ==
  ASSUME ~Blind
  PROVE  PackagesSpec => []LinksFollowPackages
  <1>1. PackagesInit => LinksInv
    BY InitLinksInv
  <1>2. LinksInv /\ [PackagesNext]_packageVars => LinksInv'
    BY NextLinksInv
  <1> QED
    BY <1>1, <1>2, InvLinks, PTL DEF PackagesSpec

-----------------------------------------------------------------------------
(* Hours: what a layout adds up to.                                        *)

\* The parts of an equal division add up to what was divided.
LEMMA PortionsAddUp ==
  ASSUME NEW total \in Int, NEW from \in Int, NEW to \in Int, from <= to,
         NEW f, \A day \in from .. to :
                  f[day] = Portion(total, to - from + 1, day - from)
  PROVE  /\ Values(f, from .. to)
         /\ SumOf(f, from .. to) = total
  <1>1. PICK n, q, r : /\ n = to - from + 1
                       /\ q = total \div n /\ r = total % n
    OBVIOUS
  <1>2. /\ n \in Nat \ {0} /\ q \in Int /\ r \in 0 .. n - 1
        /\ total = n * q + r
    BY <1>1
  <1>3. IsFiniteSet(from .. to)
    BY FS_Interval
  <1>4. ASSUME NEW day \in from .. to
        PROVE  /\ f[day] = q + (IF day - from < r THEN 1 ELSE 0)
               /\ f[day] \in Int
    BY <1>1, <1>2 DEF Portion
  <1>5. Values(f, from .. to)
    BY <1>4 DEF Values
  <1> DEFINE K == {m \in Nat : m <= n =>
                     SumOf(f, from .. from + m - 1)
                       = m * q + (IF m < r THEN m ELSE r)}
  <1>6. 0 \in K
    <2>1. from .. from + 0 - 1 = {}
      OBVIOUS
    <2>2. SumOf(f, from .. from + 0 - 1) = 0
      BY <2>1, SumNothing
    <2> QED
      BY <1>2, <2>2
  <1>7. ASSUME NEW m \in Nat, m \in K
        PROVE  m + 1 \in K
    <2> SUFFICES ASSUME m + 1 <= n
                 PROVE  SumOf(f, from .. from + (m + 1) - 1)
                          = (m + 1) * q + (IF m + 1 < r THEN m + 1 ELSE r)
      OBVIOUS
    <2>1. PICK T, a : T = from .. from + m - 1 /\ a = from + m
      OBVIOUS
    <2>2. /\ T \in SUBSET (from .. to) /\ a \in (from .. to) \ T
          /\ from .. from + (m + 1) - 1 = T \cup {a}
      <3>1. a \in (from .. to) \ T
        BY <1>1, <1>2, <2>1
      <3>2. T \in SUBSET (from .. to)
        BY <1>1, <1>2, <2>1
      <3>3. \A day \in from .. from + (m + 1) - 1 : day \in T \/ day = a
        BY <1>1, <1>2, <2>1
      <3>4. T \cup {a} \subseteq from .. from + (m + 1) - 1
        BY <1>1, <1>2, <2>1
      <3> QED
        BY <3>1, <3>2, <3>3, <3>4
    <2>3. SumOf(f, T \cup {a}) = f[a] + SumOf(f, T)
      BY <1>3, <1>5, <2>2, SumPuts
    <2>4. SumOf(f, T) = m * q + (IF m < r THEN m ELSE r)
      BY <1>2, <1>7, <2>1
    <2>5. f[a] = q + (IF m < r THEN 1 ELSE 0)
      BY <1>4, <2>1, <2>2
    <2>6. (m + 1) * q = m * q + q /\ m * q \in Int
      BY <1>2
    <2>7. SumOf(f, T \cup {a}) = (q + (IF m < r THEN 1 ELSE 0))
                                   + (m * q + (IF m < r THEN m ELSE r))
      BY <2>3, <2>4, <2>5
    <2>8. SumOf(f, T \cup {a})
            = (m * q + q) + (IF m + 1 < r THEN m + 1 ELSE r)
      <3>1. PICK x : x = m * q
        OBVIOUS
      <3> QED
        BY <1>2, <2>6, <2>7, <3>1
    <2> QED
      BY <2>2, <2>6, <2>8
  <1> HIDE DEF K
  <1>8. n \in K
    BY <1>2, <1>6, <1>7, NumberInduction
  <1>9. from + n - 1 = to
    BY <1>1
  <1>10. SumOf(f, from .. to) = n * q + r
    BY <1>2, <1>8, <1>9 DEF K
  <1> QED
    BY <1>2, <1>5, <1>10

\* Hours that are spread over some days of a window.
Spread(f, first, last, total, from, to) ==
  \A day \in first .. last : f[day] = DailyLoad(total, from, to, day)

\* What is spread over some days of a window adds up to it, over the window.
LEMMA DailyAddsUp ==
  ASSUME NEW total \in Int, NEW from \in Int, NEW to \in Int, from <= to,
         NEW first \in Int, NEW last \in Int, first <= from, to <= last,
         NEW f, Spread(f, first, last, total, from, to)
  PROVE  Values(f, first .. last) /\ SumOf(f, first .. last) = total
  <1>1. from .. to \subseteq first .. last
    OBVIOUS
  <1>2. \A day \in from .. to :
          f[day] = Portion(total, to - from + 1, day - from)
    BY <1>1 DEF DailyLoad, Spread
  <1>3. Values(f, from .. to) /\ SumOf(f, from .. to) = total
    BY <1>2, PortionsAddUp
  <1>4. \A day \in (first .. last) \ (from .. to) : f[day] = 0
    BY DEF DailyLoad, Spread
  <1>5. Values(f, first .. last)
    BY <1>3, <1>4 DEF Values
  <1>6. IsFiniteSet(first .. last)
    BY FS_Interval
  <1> QED
    BY <1>1, <1>3, <1>4, <1>5, <1>6, SumWithin

\* Rows of hours.
Timed(rows) ==
  /\ IsFiniteSet(rows)
  /\ \A row \in rows : row.hours \in Nat /\ row.from \in Int /\ row.to \in Int

\* The hours of the rows.
RowHours(rows) == [row \in rows |-> row.hours]

\* The hours of the rows are a sum.
LEMMA HoursAreSum ==
  ASSUME NEW rows, Timed(rows)
  PROVE  /\ Values(RowHours(rows), rows)
         /\ HoursOf(rows) = SumOf(RowHours(rows), rows) /\ HoursOf(rows) \in Int
  <1> DEFINE Sum(p) ==
               p = [T \in SUBSET rows |->
                      IF T = {} THEN 0
                      ELSE (CHOOSE y \in T : TRUE).hours
                             + p[T \ {CHOOSE y \in T : TRUE}]]
             G == CHOOSE part : Sum(part)
  <1>1. Values(RowHours(rows), rows)
    BY DEF Values, Timed, RowHours
  <1>2. \A T \in SUBSET rows : T # {} => RowHours(rows)[One(T)] = One(T).hours
    BY OneIsElement DEF RowHours
  <1>3. \A p : Sum(p) <=> Sums(p, RowHours(rows), rows)
    <2> SUFFICES ASSUME NEW p
                 PROVE  Sum(p) <=> Sums(p, RowHours(rows), rows)
      OBVIOUS
    <2>1. \A T \in SUBSET rows :
            Step(p, RowHours(rows), T)
              = IF T = {} THEN 0 ELSE One(T).hours + p[T \ {One(T)}]
      BY <1>2 DEF Step
    <2>2. [T \in SUBSET rows |-> Step(p, RowHours(rows), T)]
            = [T \in SUBSET rows |->
                 IF T = {} THEN 0 ELSE One(T).hours + p[T \ {One(T)}]]
      BY <2>1
    <2> QED
      BY <2>2, Zenon DEF Sums, One
  <1>4. HoursOf(rows) = G[rows]
    BY Zenon DEF HoursOf, MapThenSumSet, MapThenFoldSet
  <1> HIDE DEF Sum
  <1>5. \E p : Sum(p)
    BY <1>1, <1>3, SumsExist DEF Timed
  <1>6. Sums(G, RowHours(rows), rows)
    BY <1>3, <1>5
  <1> HIDE DEF G
  <1>7. G[rows] = SumOf(RowHours(rows), rows)
    BY <1>1, <1>6, SumsGive DEF Timed
  <1> QED
    BY <1>1, <1>4, <1>7, SumInteger DEF Timed

\* The loads that rows give to a day.
OnDay(rows, day) ==
  [row \in rows |-> DailyLoad(row.hours, row.from, row.to, day)]

\* The loads of a day are a sum.
LEMMA LoadsAreSum ==
  ASSUME NEW rows, IsFiniteSet(rows), NEW day, Values(OnDay(rows, day), rows)
  PROVE  MapThenSumSet(LAMBDA row : DailyLoad(row.hours, row.from, row.to, day),
                       rows)
           = SumOf(OnDay(rows, day), rows)
  <1> DEFINE Load(row) == DailyLoad(row.hours, row.from, row.to, day)
             Sum(p) == p = [T \in SUBSET rows |->
                              IF T = {} THEN 0
                              ELSE Load(CHOOSE y \in T : TRUE)
                                     + p[T \ {CHOOSE y \in T : TRUE}]]
             G == CHOOSE part : Sum(part)
  <1>2. \A T \in SUBSET rows : T # {} => OnDay(rows, day)[One(T)] = Load(One(T))
    BY OneIsElement DEF OnDay
  <1>3. \A p : Sum(p) <=> Sums(p, OnDay(rows, day), rows)
    <2> HIDE DEF Load
    <2> SUFFICES ASSUME NEW p
                 PROVE  Sum(p) <=> Sums(p, OnDay(rows, day), rows)
      OBVIOUS
    <2>1. \A T \in SUBSET rows :
            Step(p, OnDay(rows, day), T)
              = IF T = {} THEN 0 ELSE Load(One(T)) + p[T \ {One(T)}]
      BY <1>2 DEF Step
    <2>2. [T \in SUBSET rows |-> Step(p, OnDay(rows, day), T)]
            = [T \in SUBSET rows |->
                 IF T = {} THEN 0 ELSE Load(One(T)) + p[T \ {One(T)}]]
      BY <2>1
    <2> QED
      BY <2>2, Zenon DEF Sums, One
  <1>4. MapThenSumSet(LAMBDA row : DailyLoad(row.hours, row.from, row.to, day),
                      rows) = G[rows]
    BY Zenon DEF MapThenSumSet, MapThenFoldSet
  <1> HIDE DEF Sum
  <1>5. \E p : Sum(p)
    BY <1>3, SumsExist
  <1>6. Sums(G, OnDay(rows, day), rows)
    BY <1>3, <1>5
  <1> HIDE DEF G
  <1>7. G[rows] = SumOf(OnDay(rows, day), rows)
    BY <1>6, SumsGive
  <1> QED
    BY <1>4, <1>7


\* The projection adds up to what is planned.
LEMMA ProjectionAddsUp ==
  ASSUME NEW rows, Timed(rows), NEW dates, NEW amount \in Int,
         dates[1] \in Int, dates[2] \in Int, dates[1] <= dates[2],
         \A row \in rows : /\ row.from <= row.to
                           /\ dates[1] <= row.from /\ row.to <= dates[2],
         NEW daily, daily = Projected(rows, dates, amount)
  PROVE  SumOf(daily, DOMAIN daily) = amount /\ Values(daily, DOMAIN daily)
         /\ DOMAIN daily = dates[1] .. dates[2]
  <1> DEFINE Row(row) == [day \in dates[1] .. dates[2] |->
                            DailyLoad(row.hours, row.from, row.to, day)]
  <1>1. PICK D : D = dates[1] .. dates[2]
    OBVIOUS
  <1>2. IsFiniteSet(D) /\ IsFiniteSet(rows)
    BY <1>1, FS_Interval DEF Timed
  <1>3. PICK t : t = [row \in rows |-> Row(row)]
    OBVIOUS
  <1>4. ASSUME NEW row \in rows
        PROVE  Values(t[row], D) /\ SumOf(t[row], D) = row.hours
    <2>1. /\ row.hours \in Int /\ row.from \in Int /\ row.to \in Int
          /\ row.from <= row.to
          /\ dates[1] <= row.from /\ row.to <= dates[2]
      BY DEF Timed
    <2>2. \A day \in dates[1] .. dates[2] :
            t[row][day] = DailyLoad(row.hours, row.from, row.to, day)
      BY <1>3
    <2>3. PICK h, a, b, u, v, g :
            /\ h = row.hours /\ a = row.from /\ b = row.to
            /\ u = dates[1] /\ v = dates[2] /\ g = t[row]
      OBVIOUS
    <2>4. /\ h \in Int /\ a \in Int /\ b \in Int /\ u \in Int /\ v \in Int
          /\ a <= b /\ u <= a /\ b <= v /\ Spread(g, u, v, h, a, b)
      BY <2>1, <2>2, <2>3 DEF Spread
    <2>5. Values(g, u .. v) /\ SumOf(g, u .. v) = h
      BY <2>4, DailyAddsUp
    <2> QED
      BY <1>1, <2>3, <2>5
  <1>5. \A row \in rows, day \in D :
          /\ t[row][day] = DailyLoad(row.hours, row.from, row.to, day)
          /\ t[row][day] \in Int
    BY <1>1, <1>3, <1>4 DEF Values
  <1>6. PICK across, down : /\ across = [day \in D |->
                                 SumOf([row \in rows |-> t[row][day]], rows)]
                            /\ down = [row \in rows |-> SumOf(t[row], D)]
    OBVIOUS
  <1>7. SumOf(across, D) = SumOf(down, rows)
    BY <1>2, <1>5, <1>6, SumExchange
  <1>8. SumOf(down, rows) = HoursOf(rows) /\ HoursOf(rows) \in Int
    <2>1. down = RowHours(rows)
      BY <1>4, <1>6 DEF RowHours
    <2> QED
      BY <2>1, HoursAreSum
  <1>9. PICK rest : rest = [day \in D |->
          DailyLoad(amount - HoursOf(rows), dates[1], dates[2], day)]
    OBVIOUS
  <1>10. Values(rest, D) /\ SumOf(rest, D) = amount - HoursOf(rows)
    <2>1. PICK total \in Int : total = amount - HoursOf(rows)
      BY <1>8
    <2>2. \A day \in dates[1] .. dates[2] :
            rest[day] = DailyLoad(total, dates[1], dates[2], day)
      BY <1>1, <1>9, <2>1
    <2>3. PICK u \in Int, v \in Int : u = dates[1] /\ v = dates[2]
      OBVIOUS
    <2>4. /\ u <= v /\ u <= u /\ v <= v
          /\ Spread(rest, u, v, total, u, v)
      BY <2>2, <2>3 DEF Spread
    <2>5. Values(rest, u .. v) /\ SumOf(rest, u .. v) = total
      BY <2>4, DailyAddsUp
    <2> QED
      BY <1>1, <2>1, <2>3, <2>5
  <1>11. ASSUME NEW day \in D
         PROVE  /\ daily[day] = across[day] + rest[day]
                /\ across[day] \in Int
    <2>1. OnDay(rows, day) = [row \in rows |-> t[row][day]]
      BY <1>5 DEF OnDay
    <2>2. Values(OnDay(rows, day), rows)
      BY <1>5, <2>1 DEF Values
    <2>3. across[day] = SumOf(OnDay(rows, day), rows)
      BY <1>6, <2>1
    <2>4. daily[day] =
            MapThenSumSet(LAMBDA row :
                            DailyLoad(row.hours, row.from, row.to, day), rows)
            + DailyLoad(amount - HoursOf(rows), dates[1], dates[2], day)
      BY <1>1, Zenon DEF Projected
    <2> QED
      BY <1>2, <1>9, <2>2, <2>3, <2>4, LoadsAreSum, SumInteger
  <1>12. DOMAIN daily = D /\ Values(daily, D) /\ Values(across, D)
    <2>1. DOMAIN daily = D
      BY <1>1, Zenon DEF Projected
    <2> QED
      BY <1>10, <1>11, <2>1 DEF Values
  <1>13. SumOf(daily, D) = SumOf(across, D) + SumOf(rest, D)
    BY <1>2, <1>10, <1>11, <1>12, SumAdds
  <1>14. SumOf(daily, D) = amount
    BY <1>7, <1>8, <1>10, <1>13
  <1> QED
    BY <1>1, <1>12, <1>14

-----------------------------------------------------------------------------
(* Hours: the invariant.                                                   *)

IntervalRows == [id: NewIds \cup Weeks, package: Packages, from: Dates,
                 to: Dates, hours: Nat]

\* The rows that hours are written in.
LoadsTyped ==
  /\ package \in [Packages -> Optional(PackageRow)]
  /\ interval \subseteq IntervalRows /\ IsFiniteSet(interval)

\* Weekly loads that are still stored say the same as the intervals.
WeeklyKept(rows, weekly) ==
  DOMAIN weekly # {} =>
    {<<row.id, row.hours>> : row \in rows} =
      {<<week, weekly[week]>> : week \in DOMAIN weekly}

\* The rows of a package that may be there.
LoadsSound(rows, row) ==
  IF row = None THEN rows = {}
  ELSE Fits(rows, row.window, row.planned) /\ WeeklyKept(rows, row.weekly)

\* The invariant.
LoadsInv ==
  LoadsTyped /\ \A p \in Packages : LoadsSound(Own(p), package[p])

\* Rows of intervals have hours and days.
LEMMA IntervalsTimed ==
  ASSUME NEW rows, rows \subseteq IntervalRows, IsFiniteSet(rows)
  PROVE  Timed(rows)
  BY PackagesAssumption DEF Timed, IntervalRows, Dates

\* A window of packages.
LEMMA WindowFacts ==
  ASSUME NEW dates \in Windows
  PROVE  /\ dates[1] \in Dates /\ dates[2] \in Dates
         /\ dates[1] \in Int /\ dates[2] \in Int /\ dates[1] <= dates[2]
         /\ dates[1] >= 1 /\ dates[2] <= LastDay
  BY PackagesAssumption DEF Dates

\* The invariant says what was promised.
LEMMA InvLoads == LoadsInv => LoadIsConsistent
  <1> SUFFICES ASSUME LoadsInv, NEW p \in Packages, package[p] # None
               PROVE  LET dates == package[p].window
                          amount == package[p].planned
                          weekly == package[p].weekly
                      IN  /\ Fits(Own(p), dates, amount)
                          /\ DOMAIN weekly # {} =>
                               {<<row.id, row.hours>> : row \in Own(p)} =
                                 {<<week, weekly[week]>> :
                                    week \in DOMAIN weekly}
                          /\ dates # None /\ amount # None =>
                               LET daily == Projected(Own(p), dates, amount)
                               IN  MapThenSumSet(LAMBDA day : daily[day],
                                                 DOMAIN daily) = amount
    BY DEF LoadIsConsistent
  <1>1. PICK dates, amount, weekly, rows :
          /\ dates = package[p].window /\ amount = package[p].planned
          /\ weekly = package[p].weekly /\ rows = Own(p)
    OBVIOUS
  <1>2. Fits(rows, dates, amount) /\ WeeklyKept(rows, weekly)
    BY <1>1 DEF LoadsInv, LoadsSound
  <1>3. package[p] \in PackageRow
    BY DEF LoadsInv, LoadsTyped, Optional
  <1>4. dates \in Optional(Windows) /\ amount \in Optional(Amounts)
    BY <1>1, <1>3 DEF PackageRow
  <1>5. rows \subseteq IntervalRows /\ IsFiniteSet(rows)
    BY <1>1, FS_Subset DEF LoadsInv, LoadsTyped, Own
  <1>6. ASSUME dates # None, amount # None,
               NEW daily, daily = Projected(rows, dates, amount)
        PROVE  MapThenSumSet(LAMBDA day : daily[day], DOMAIN daily) = amount
    <2>1. dates \in Windows /\ amount \in Int
      BY <1>4, <1>6, PackagesAssumption DEF Optional
    <2>2. /\ dates[1] \in Int /\ dates[2] \in Int /\ dates[1] <= dates[2]
      BY <2>1, WindowFacts
    <2>3. \A row \in rows : /\ row.from <= row.to
                            /\ dates[1] <= row.from /\ row.to <= dates[2]
      BY <1>2 DEF Fits
    <2>4. Timed(rows)
      BY <1>5, IntervalsTimed
    <2>5. /\ SumOf(daily, DOMAIN daily) = amount
          /\ Values(daily, DOMAIN daily)
          /\ DOMAIN daily = dates[1] .. dates[2]
      BY <1>6, <2>1, <2>2, <2>3, <2>4, ProjectionAddsUp
    <2>6. IsFiniteSet(DOMAIN daily)
      BY <2>2, <2>5, FS_Interval
    <2>7. MapThenSumSet(LAMBDA day : daily[day], DOMAIN daily)
            = Parts(daily, DOMAIN daily)[DOMAIN daily]
      BY Zenon DEF Parts, MapThenSumSet, MapThenFoldSet
    <2> QED
      BY <2>5, <2>6, <2>7, PartsGive
  <1> QED
    BY <1>1, <1>2, <1>6, Zenon DEF WeeklyKept

-----------------------------------------------------------------------------
(* Hours: the commands.                                                    *)

\* One package is written, with rows of its own.
LEMMA LoadWritten ==
  ASSUME LoadsInv, NEW p \in Packages, NEW row \in PackageRow,
         package' = [package EXCEPT ![p] = row],
         NEW rows, rows \subseteq IntervalRows, IsFiniteSet(rows),
         \A r \in rows : r.package = p,
         interval' = (interval \ Own(p)) \cup rows,
         Fits(rows, row.window, row.planned), WeeklyKept(rows, row.weekly)
  PROVE  LoadsInv'
  <1>1. package' \in [Packages -> Optional(PackageRow)]
    BY DEF LoadsInv, LoadsTyped, Optional
  <1>2. IsFiniteSet(interval \ Own(p))
    BY FS_Subset DEF LoadsInv, LoadsTyped
  <1>3. IsFiniteSet(interval')
    BY <1>2, FS_Union
  <1>4. LoadsTyped'
    BY <1>1, <1>3 DEF LoadsInv, LoadsTyped
  <1>5. \A q \in Packages : Own(q)' = IF q = p THEN rows ELSE Own(q)
    BY DEF Own
  <1>6. row # None
    BY PackagesAssumption
  <1>7. ASSUME NEW q \in Packages
        PROVE  LoadsSound(Own(q)', package'[q])
    <2>1. CASE q = p
      <3>1. package'[q] = row /\ Own(q)' = rows
        BY <1>5, <2>1 DEF LoadsInv, LoadsTyped
      <3>2. LoadsSound(rows, row)
        BY <1>6 DEF LoadsSound
      <3> QED
        BY <3>1, <3>2
    <2>2. CASE q # p
      <3>1. package'[q] = package[q] /\ Own(q)' = Own(q)
        BY <1>5, <2>2 DEF LoadsInv, LoadsTyped
      <3>2. LoadsSound(Own(q), package[q])
        BY DEF LoadsInv
      <3> QED
        BY <3>1, <3>2
    <2> QED
      BY <2>1, <2>2
  <1> QED
    BY <1>4, <1>7 DEF LoadsInv

\* One package is written, its rows stay as they are.
LEMMA LoadLeft ==
  ASSUME LoadsInv, NEW p \in Packages, NEW row \in PackageRow,
         package' = [package EXCEPT ![p] = row], UNCHANGED interval,
         Fits(Own(p), row.window, row.planned), WeeklyKept(Own(p), row.weekly)
  PROVE  LoadsInv'
  <1>1. PICK rows : rows = Own(p)
    OBVIOUS
  <1>2. /\ rows \subseteq IntervalRows /\ IsFiniteSet(rows)
        /\ \A r \in rows : r.package = p
        /\ interval' = (interval \ Own(p)) \cup rows
    BY <1>1, FS_Subset DEF LoadsInv, LoadsTyped, Own
  <1> QED
    BY <1>1, <1>2, LoadWritten

\* Rows of a layout, as a command gives them.
LEMMA LaidTyped ==
  ASSUME LoadsInv, NEW p \in Packages, NEW layout \in Layouts,
         NEW rows \in Laid(p, layout)
  PROVE  /\ rows \subseteq IntervalRows /\ IsFiniteSet(rows)
         /\ \A r \in rows : r.package = p
  <1>1. PICK free, ids :
          /\ free = NewIds \ {row.id : row \in interval}
          /\ ids = {f \in [DOMAIN layout ->
                             free \cup {row.id : row \in Own(p)}] :
                      \A i, j \in DOMAIN layout : i # j => f[i] # f[j]}
          /\ rows \in {{[id |-> f[i], package |-> p, from |-> layout[i].from,
                         to |-> layout[i].to, hours |-> layout[i].hours] :
                          i \in DOMAIN layout} : f \in ids}
    BY DEF Laid
  <1>2. PICK f \in ids :
          rows = {[id |-> f[i], package |-> p, from |-> layout[i].from,
                   to |-> layout[i].to, hours |-> layout[i].hours] :
                    i \in DOMAIN layout}
    BY <1>1
  <1>3. layout \in Seq([from: Dates, to: Dates, hours: Nat])
    BY PackagesAssumption
  <1>4. /\ DOMAIN layout = 1 .. Len(layout) /\ Len(layout) \in Nat
        /\ \A i \in DOMAIN layout : /\ layout[i].from \in Dates
                                    /\ layout[i].to \in Dates
                                    /\ layout[i].hours \in Nat
    <2>1. /\ DOMAIN layout = 1 .. Len(layout) /\ Len(layout) \in Nat
          /\ \A i \in DOMAIN layout :
               layout[i] \in [from: Dates, to: Dates, hours: Nat]
      BY <1>3, LenProperties, ElementOfSeq
    <2> QED
      BY <2>1
  <1>5. IsFiniteSet(DOMAIN layout)
    BY <1>4, FS_Interval
  <1>6. \A i \in DOMAIN layout : f[i] \in free \cup {row.id : row \in Own(p)}
    BY <1>1, <1>2
  <1>7. free \cup {row.id : row \in Own(p)} \subseteq NewIds \cup Weeks
    BY <1>1 DEF LoadsInv, LoadsTyped, Own, IntervalRows
  <1>8. rows \subseteq IntervalRows
    BY <1>2, <1>4, <1>6, <1>7 DEF IntervalRows
  <1>9. PICK m : m = [i \in DOMAIN layout |->
                        [id |-> f[i], package |-> p,
                         from |-> layout[i].from, to |-> layout[i].to,
                         hours |-> layout[i].hours]]
    OBVIOUS
  <1>10. rows = {m[i] : i \in DOMAIN layout}
    BY <1>2, <1>9
  <1>11. IsFiniteSet(rows)
    BY <1>5, <1>10, ImageIsFinite
  <1>12. \A r \in rows : r.package = p
    BY <1>2
  <1> QED
    BY <1>8, <1>11, <1>12

\* Rows of weekly loads, one for each week in the window.
LEMMA WeeklyRows ==
  ASSUME NEW p \in Packages, NEW dates \in Windows, NEW amount \in Amounts,
         NEW weeks \in SUBSET Weeks, NEW weekly \in [weeks -> 0 .. amount],
         ValidWeekly(weekly, dates, amount),
         NEW rows, rows = AsIntervals(p, weekly, dates)
  PROVE  /\ rows \subseteq IntervalRows /\ IsFiniteSet(rows)
         /\ \A r \in rows : r.package = p
         /\ Fits(rows, dates, amount)
         /\ WeeklyKept(rows, weekly)
  <1>1. /\ dates[1] \in Int /\ dates[2] \in Int /\ dates[1] <= dates[2]
        /\ dates[1] >= 1 /\ dates[2] <= LastDay
        /\ LastDay \in Nat /\ WeekLength \in Nat \ {0} /\ amount \in Nat
    BY WindowFacts, PackagesAssumption
  <1>2. /\ dates # None /\ amount # None
        /\ weeks \subseteq WeeksOf(dates) /\ DOMAIN weekly = weeks
        /\ MapThenSumSet(LAMBDA week : weekly[week], DOMAIN weekly) = amount
    BY Zenon DEF ValidWeekly
  <1>3. PICK row : row =
          [week \in weeks |->
             [id |-> week, package |-> p, hours |-> weekly[week],
              from |-> Max({dates[1], week}),
              to |-> Min({dates[2], week + WeekLength - 1})]]
    OBVIOUS
  <1>4. rows = {row[week] : week \in weeks}
    BY <1>2, <1>3 DEF AsIntervals
  <1>5. ASSUME NEW week \in weeks
        PROVE  /\ row[week].id = week /\ row[week].package = p
               /\ row[week].hours = weekly[week] /\ row[week].hours \in Nat
               /\ row[week].from \in Dates /\ row[week].to \in Dates
               /\ row[week].from <= row[week].to
               /\ dates[1] <= row[week].from /\ row[week].to <= dates[2]
               /\ row[week] \in IntervalRows
    <2>1. PICK day \in dates[1] .. dates[2] : week = MondayOf(day)
      BY <1>2 DEF WeeksOf
    <2>2. PICK past : past = (day - 1) % WeekLength
      OBVIOUS
    <2>3. past \in 0 .. WeekLength - 1 /\ week = day - past
      BY <1>1, <2>1, <2>2 DEF MondayOf
    <2>4. week \in Int /\ week <= day /\ day <= week + WeekLength - 1
      BY <1>1, <2>1, <2>3
    <2>5. PICK a, b : /\ a = Max({dates[1], week})
                      /\ b = Min({dates[2], week + WeekLength - 1})
      OBVIOUS
    <2>6. a \in {dates[1], week} /\ a >= dates[1] /\ a >= week
      <3>1. \E x \in {dates[1], week} : \A y \in {dates[1], week} : x >= y
        BY <1>1, <2>4
      <3> QED
        BY <2>5, <3>1 DEF Max
    <2>7. /\ b \in {dates[2], week + WeekLength - 1}
          /\ b <= dates[2] /\ b <= week + WeekLength - 1
      <3>1. PICK z : z = week + WeekLength - 1
        OBVIOUS
      <3>2. z \in Int
        BY <1>1, <2>4, <3>1
      <3>3. \E x \in {dates[2], z} : \A y \in {dates[2], z} : x <= y
        BY <1>1, <3>2
      <3>4. b = CHOOSE x \in {dates[2], z} : \A y \in {dates[2], z} : x <= y
        BY <2>5, <3>1 DEF Min
      <3> QED
        BY <3>1, <3>3, <3>4
    <2>8. a <= b /\ a \in Dates /\ b \in Dates
      BY <1>1, <2>1, <2>4, <2>6, <2>7 DEF Dates
    <2>9. /\ row[week].id = week /\ row[week].package = p
          /\ row[week].hours = weekly[week]
          /\ row[week].from = a /\ row[week].to = b
          /\ row[week] = [id |-> week, package |-> p,
                          hours |-> weekly[week], from |-> a, to |-> b]
      BY <1>3, <2>5
    <2>10. weekly[week] \in Nat
      BY <1>1
    <2>11. row[week] \in IntervalRows
      BY <2>8, <2>9, <2>10 DEF IntervalRows
    <2> QED
      BY <2>6, <2>7, <2>8, <2>9, <2>10, <2>11
  <1>6. IsFiniteSet(Weeks)
    <2>1. PICK f : f = [day \in Dates |-> MondayOf(day)]
      OBVIOUS
    <2>2. IsFiniteSet(Dates)
      BY <1>1, FS_Interval DEF Dates
    <2>3. Weeks = {f[day] : day \in Dates}
      BY <2>1 DEF Weeks
    <2> QED
      BY <2>2, <2>3, ImageIsFinite
  <1>7. IsFiniteSet(weeks)
    BY <1>6, FS_Subset
  <1>8. /\ rows \subseteq IntervalRows /\ IsFiniteSet(rows)
        /\ \A r \in rows : r.package = p
    BY <1>4, <1>5, <1>7, ImageIsFinite
  <1>9. HoursOf(rows) = amount
    <2>1. Timed(rows)
      BY <1>8, IntervalsTimed
    <2>2. Values(weekly, weeks)
      BY <1>5 DEF Values
    <2>3. \A x, y \in weeks : row[x] = row[y] => x = y
      BY <1>5
    <2>4. \A x \in weeks : RowHours(rows)[row[x]] = weekly[x]
      BY <1>4, <1>5 DEF RowHours
    <2>5. SumOf(RowHours(rows), {row[x] : x \in weeks}) = SumOf(weekly, weeks)
      <3>1. PICK h : h = RowHours(rows)
        OBVIOUS
      <3>2. SumOf(h, {row[x] : x \in weeks}) = SumOf(weekly, weeks)
        BY <1>7, <2>2, <2>3, <2>4, <3>1, SumMapped
      <3> QED
        BY <3>1, <3>2
    <2>6. MapThenSumSet(LAMBDA week : weekly[week], DOMAIN weekly)
            = Parts(weekly, DOMAIN weekly)[DOMAIN weekly]
      BY Zenon DEF Parts, MapThenSumSet, MapThenFoldSet
    <2>7. SumOf(weekly, weeks) = amount
      BY <1>2, <1>7, <2>2, <2>6, PartsGive
    <2> QED
      BY <1>4, <2>1, <2>5, <2>7, HoursAreSum
  <1>10. Fits(rows, dates, amount)
    BY <1>1, <1>2, <1>4, <1>5, <1>9 DEF Fits
  <1>11. WeeklyKept(rows, weekly)
    BY <1>2, <1>4, <1>5 DEF WeeklyKept
  <1> QED
    BY <1>8, <1>10, <1>11

\* No rows fit any window.
LEMMA NothingFits ==
  ASSUME NEW dates, NEW amount
  PROVE  Fits({}, dates, amount)
  BY DEF Fits

\* No weekly loads say nothing.
LEMMA NoWeeklyKept ==
  ASSUME NEW rows
  PROVE  WeeklyKept(rows, NoWeekly)
  BY DEF WeeklyKept, NoWeekly

\* The commands on a package keep its hours.
LEMMA PackageCommandsKeepLoads ==
  ASSUME LoadsInv, NEW p \in Packages, PackageCommands(p)
  PROVE  LoadsInv'
  <1>1. PICK project \in PackageProjects, task \in Optional(ErpTasks),
             dates \in Optional(Windows), amount \in Optional(Amounts) :
          \/ task # None /\ CreatePackage(p, project, task, dates, amount)
          \/ EditPackage(p, project, task, dates, amount)
          \/ \E layout \in Layouts : \E rows \in Laid(p, layout) :
               ReplaceIntervals(p, project, task, dates, amount, rows)
    BY DEF PackageCommands
  <1>2. ASSUME CreatePackage(p, project, task, dates, amount)
        PROVE  LoadsInv'
    <2>1. PICK row :
            row = [project |-> project, task |-> task, window |-> dates,
                   planned |-> amount, terminal |-> None,
                   weekly |-> NoWeekly]
      OBVIOUS
    <2>2. /\ row \in PackageRow /\ row.window = dates /\ row.planned = amount
          /\ row.weekly = NoWeekly
      BY <2>1, NoWeeklyTyped DEF PackageRow, Optional
    <2>3. /\ package[p] = None /\ package' = [package EXCEPT ![p] = row]
          /\ UNCHANGED interval
      BY <1>2, <2>1 DEF CreatePackage
    <2>4. Own(p) = {}
      BY <2>3 DEF LoadsInv, LoadsSound
    <2>5. /\ Fits(Own(p), row.window, row.planned)
          /\ WeeklyKept(Own(p), row.weekly)
      BY <2>2, <2>4, NothingFits, NoWeeklyKept
    <2> QED
      BY <2>2, <2>3, <2>5, LoadLeft
  <1>3. ASSUME EditPackage(p, project, task, dates, amount)
        PROVE  LoadsInv'
    <2>1. /\ package[p] # None /\ Fits(Own(p), dates, amount)
          /\ UNCHANGED interval
          /\ Moved(p, project, task, dates, amount, package[p].weekly)
      BY <1>3 DEF EditPackage
    <2>2. package[p] \in PackageRow
      BY <2>1 DEF LoadsInv, LoadsTyped, Optional
    <2>3. PICK row :
            row = [package[p] EXCEPT !.project = project, !.task = task,
                                     !.window = dates, !.planned = amount,
                                     !.weekly = package[p].weekly]
      OBVIOUS
    <2>4. /\ row \in PackageRow /\ row.window = dates /\ row.planned = amount
          /\ row.weekly = package[p].weekly
      BY <2>2, <2>3 DEF PackageRow
    <2>5. package' = [package EXCEPT ![p] = row]
      BY <2>1, <2>3 DEF Moved
    <2>6. WeeklyKept(Own(p), row.weekly)
      BY <2>1, <2>4 DEF LoadsInv, LoadsSound
    <2>7. Fits(Own(p), row.window, row.planned)
      BY <2>1, <2>4
    <2> QED
      BY <2>1, <2>4, <2>5, <2>6, <2>7, LoadLeft
  <1>4. ASSUME NEW layout \in Layouts, NEW rows \in Laid(p, layout),
               ReplaceIntervals(p, project, task, dates, amount, rows)
        PROVE  LoadsInv'
    <2>1. /\ package[p] # None /\ Fits(rows, dates, amount)
          /\ interval' = (interval \ Own(p)) \cup rows
          /\ Moved(p, project, task, dates, amount, NoWeekly)
      BY <1>4 DEF ReplaceIntervals, Replaced, WeeklyAfter
    <2>2. package[p] \in PackageRow
      BY <2>1 DEF LoadsInv, LoadsTyped, Optional
    <2>3. PICK row :
            row = [package[p] EXCEPT !.project = project, !.task = task,
                                     !.window = dates, !.planned = amount,
                                     !.weekly = NoWeekly]
      OBVIOUS
    <2>4. /\ row \in PackageRow /\ row.window = dates /\ row.planned = amount
          /\ row.weekly = NoWeekly
      BY <2>2, <2>3, NoWeeklyTyped DEF PackageRow
    <2>5. package' = [package EXCEPT ![p] = row]
      BY <2>1, <2>3 DEF Moved
    <2>6. /\ rows \subseteq IntervalRows /\ IsFiniteSet(rows)
          /\ \A r \in rows : r.package = p
      BY <1>4, LaidTyped
    <2>7. /\ Fits(rows, row.window, row.planned)
          /\ WeeklyKept(rows, row.weekly)
      BY <2>1, <2>4, NoWeeklyKept
    <2> QED
      BY <2>1, <2>4, <2>5, <2>6, <2>7, LoadWritten
  <1> QED
    BY <1>1, <1>2, <1>3, <1>4

\* Weekly loads are stored with rows that say the same.
LEMMA WeeklyCommandsKeepLoads ==
  ASSUME LoadsInv, NEW p \in Packages, WeeklyCommands(p)
  PROVE  LoadsInv'
  <1>1. /\ package[p] # None /\ package[p] \in PackageRow
        /\ package[p].planned # None
    BY DEF WeeklyCommands, LoadsInv, LoadsTyped, Optional
  <1>2. PICK old : old = package[p]
    OBVIOUS
  <1>3. PICK dates, amount : dates = old.window /\ amount = old.planned
    OBVIOUS
  <1>4. PICK weeks \in SUBSET Weeks, origin \in {"AUTO", "MANUAL"} :
          \E weekly \in [weeks -> 0 .. amount] :
            ReplaceWeekly(p, origin, weekly)
    BY <1>2, <1>3 DEF WeeklyCommands
  <1>5. PICK weekly \in [weeks -> 0 .. amount] :
          ReplaceWeekly(p, origin, weekly)
    BY <1>4
  <1>6. PICK rows : rows = AsIntervals(p, weekly, dates)
    OBVIOUS
  <1>7. PICK row : row = [old EXCEPT !.weekly = weekly]
    OBVIOUS
  <1>8. /\ ValidWeekly(weekly, dates, amount)
        /\ interval' = (interval \ Own(p)) \cup rows
        /\ package' = [package EXCEPT ![p] = row]
    BY <1>2, <1>3, <1>5, <1>6, <1>7, Zenon DEF ReplaceWeekly, Replaced
  <1>9. dates # None
    BY <1>8, Zenon DEF ValidWeekly
  <1>10. dates \in Windows /\ amount \in Amounts
    BY <1>1, <1>2, <1>3, <1>9 DEF PackageRow, Optional
  <1>11. weekly \in WeeklyLoads
    BY <1>10, WeeklyTyped
  <1>12. /\ row \in PackageRow /\ row.window = dates /\ row.planned = amount
         /\ row.weekly = weekly
    BY <1>1, <1>2, <1>3, <1>7, <1>11 DEF PackageRow
  <1>13. /\ rows \subseteq IntervalRows /\ IsFiniteSet(rows)
         /\ \A r \in rows : r.package = p
         /\ Fits(rows, dates, amount)
         /\ WeeklyKept(rows, weekly)
    BY <1>6, <1>8, <1>10, WeeklyRows
  <1>14. /\ Fits(rows, row.window, row.planned)
         /\ WeeklyKept(rows, row.weekly)
    BY <1>12, <1>13
  <1> QED
    BY <1>8, <1>12, <1>13, <1>14, LoadWritten

\* A package is closed, cancelled or reopened with its hours.
LEMMA SetTerminalKeepsLoads ==
  ASSUME LoadsInv, NEW p \in Packages,
         NEW end \in Optional({"closed", "cancelled"}), SetTerminal(p, end)
  PROVE  LoadsInv'
  <1>1. /\ package[p] # None /\ package[p] \in PackageRow
        /\ UNCHANGED interval
    BY DEF SetTerminal, LoadsInv, LoadsTyped, Optional
  <1>2. PICK row : row = [package[p] EXCEPT !.terminal = end]
    OBVIOUS
  <1>3. /\ row \in PackageRow /\ row.window = package[p].window
        /\ row.planned = package[p].planned
        /\ row.weekly = package[p].weekly
    BY <1>1, <1>2 DEF PackageRow
  <1>4. package' = [package EXCEPT ![p] = row]
    BY <1>2 DEF SetTerminal
  <1>5. /\ Fits(Own(p), row.window, row.planned)
        /\ WeeklyKept(Own(p), row.weekly)
    BY <1>1, <1>3 DEF LoadsInv, LoadsSound
  <1> QED
    BY <1>1, <1>3, <1>4, <1>5, LoadLeft

\* What leaves packages and rows alone keeps the hours.
LEMMA OthersKeepLoads ==
  ASSUME LoadsInv, UNCHANGED <<package, interval>>
  PROVE  LoadsInv'
  <1>1. LoadsTyped'
    BY DEF LoadsInv, LoadsTyped
  <1>2. ASSUME NEW p \in Packages
        PROVE  LoadsSound(Own(p)', package'[p])
    <2>1. Own(p)' = Own(p)
      BY DEF Own
    <2> QED
      BY <2>1 DEF LoadsInv
  <1> QED
    BY <1>1, <1>2 DEF LoadsInv

\* Imported packages have no hours yet.
LEMMA InitLoads == PackagesInit => LoadsInv
  <1> SUFFICES ASSUME PackagesInit PROVE LoadsInv
    OBVIOUS
  <1>1. package \in [Packages -> Optional(PackageRow)]
    BY NoWeeklyTyped DEF PackagesInit, PackageRow, Optional
  <1>2. LoadsTyped
    BY <1>1, FS_EmptySet DEF PackagesInit, LoadsTyped
  <1>3. ASSUME NEW p \in Packages
        PROVE  LoadsSound(Own(p), package[p])
    <2>1. Own(p) = {}
      BY DEF PackagesInit, Own
    <2>2. package[p] # None => package[p].weekly = NoWeekly
      BY DEF PackagesInit
    <2> QED
      BY <2>1, <2>2, NothingFits, NoWeeklyKept DEF LoadsSound
  <1> QED
    BY <1>2, <1>3 DEF LoadsInv

\* Every step keeps the hours.
LEMMA NextLoads ==
  ASSUME LoadsInv, [PackagesNext]_packageVars
  PROVE  LoadsInv'
  <1>1. CASE UNCHANGED packageVars
    BY <1>1, OthersKeepLoads DEF packageVars
  <1>2. ASSUME NEW p \in Packages, Deliver(p)
        PROVE  LoadsInv'
    BY <1>2, OthersKeepLoads DEF Deliver
  <1>3. ASSUME NEW w \in Editors, LinkCommands(w)
        PROVE  LoadsInv'
    <2>1. UNCHANGED <<package, interval>>
      BY <1>3 DEF LinkCommands, BeginLink, CommitLink, AbandonLink
    <2> QED
      BY <2>1, OthersKeepLoads
  <1>4. ASSUME NEW g \in Pieces, NEW project \in PackageProjects,
               NEW p \in Optional(Packages), LinkPiece(g, project, p)
        PROVE  LoadsInv'
    BY <1>4, OthersKeepLoads DEF LinkPiece
  <1>5. ASSUME NEW t \in ErpTasks, TaskChanges(t)
        PROVE  LoadsInv'
    BY <1>5, OthersKeepLoads DEF TaskChanges
  <1> QED
    BY <1>1, <1>2, <1>3, <1>4, <1>5, PackageCommandsKeepLoads,
       WeeklyCommandsKeepLoads, SetTerminalKeepsLoads DEF PackagesNext

\* The intervals of a package are in its window and within its hours, what
\* weekly loads remain say the same, and the projection adds up to what is
\* planned, however many packages, weeks and commands there are.
THEOREM LoadsStayConsistent == PackagesSpec => []LoadIsConsistent
  <1>1. PackagesInit => LoadsInv
    BY InitLoads
  <1>2. LoadsInv /\ [PackagesNext]_packageVars => LoadsInv'
    BY NextLoads
  <1> QED
    BY <1>1, <1>2, InvLoads, PTL DEF PackagesSpec

-----------------------------------------------------------------------------
(* Types of the plan of shifts.                                            *)

\* The hours of the locked shifts of a segment.
LEMMA LockedHoursAreNumber ==
  ASSUME NEW rows \in [Quarts -> LockedShift \cup {None}],
         NEW g \in PlanSegments
  PROVE  LockedHours(rows, g) \in Nat
  <1>1. PICK S : S = LockedOn(rows, g)
    OBVIOUS
  <1>2. PICK f : f = [i \in S |-> rows[i].hours]
    OBVIOUS
  <1>3. IsFiniteSet(S)
    BY <1>1, ShiftPlanAssumption, FS_Subset DEF LockedOn
  <1>4. \A i \in S : f[i] \in Nat
    BY <1>1, <1>2, ShiftPlanAssumption DEF LockedOn, LockedShift, Hours
  <1>5. Values(f, S) /\ SumOf(f, S) \in Nat
    BY <1>3, <1>4, SumNatural
  <1> DEFINE Sum(p) ==
               p = [T \in SUBSET S |->
                      IF T = {} THEN 0
                      ELSE rows[CHOOSE y \in T : TRUE].hours
                             + p[T \ {CHOOSE y \in T : TRUE}]]
             G == CHOOSE part : Sum(part)
  <1>6. \A T \in SUBSET S : T # {} => f[One(T)] = rows[One(T)].hours
    BY <1>2, OneIsElement
  <1>7. \A p : Sum(p) <=> Sums(p, f, S)
    <2> SUFFICES ASSUME NEW p
                 PROVE  Sum(p) <=> Sums(p, f, S)
      OBVIOUS
    <2>1. \A T \in SUBSET S :
            Step(p, f, T)
              = IF T = {} THEN 0 ELSE rows[One(T)].hours + p[T \ {One(T)}]
      BY <1>6 DEF Step
    <2>2. [T \in SUBSET S |-> Step(p, f, T)]
            = [T \in SUBSET S |->
                 IF T = {} THEN 0 ELSE rows[One(T)].hours + p[T \ {One(T)}]]
      BY <2>1
    <2> QED
      BY <2>2, Zenon DEF Sums, One
  <1>8. LockedHours(rows, g) = G[S]
    BY <1>1, Zenon DEF LockedHours, MapThenSumSet, MapThenFoldSet
  <1> HIDE DEF Sum
  <1>9. \E p : Sum(p)
    BY <1>3, <1>5, <1>7, SumsExist
  <1>10. Sums(G, f, S)
    BY <1>7, <1>9
  <1> HIDE DEF G
  <1>11. G[S] = SumOf(f, S)
    BY <1>3, <1>5, <1>10, SumsGive
  <1> QED
    BY <1>5, <1>8, <1>11

\* Only a segment with a target person has replaceable shifts, and approvals
\* are no more than changes.
PlanTyped ==
  /\ PlanTypeOK
  /\ revision <= changes + 1
  /\ \A g \in PlanSegments : auto[g] > 0 => target[g] # None

\* What a rebuild writes.
RowsRebuilt ==
  /\ planned \in [PlanSegments -> Hours]
  /\ status \in [PlanSegments -> {"open", "closed"}]
  /\ target \in [PlanSegments -> Resources \cup {None}]
  /\ locked \in [Quarts -> LockedShift \cup {None}]
  /\ auto \in [PlanSegments -> Hours]
  /\ \A g \in PlanSegments : auto[g] > 0 => target[g] # None

\* A rebuild of typed rows.
LEMMA RebuildTyped ==
  ASSUME NEW rows \in [Quarts -> LockedShift \cup {None}],
         NEW hours \in [PlanSegments -> Hours],
         NEW states \in [PlanSegments -> {"open", "closed"}],
         NEW targets \in [PlanSegments -> Resources \cup {None}],
         RebuildPlan(rows, hours, states, targets)
  PROVE  RowsRebuilt' /\ changes' = changes + 1
  <1>1. PICK kept : kept = KeptQuarts(rows, states)
    OBVIOUS
  <1>2. PICK aligned : aligned = AlignedTargets(kept, targets, states)
    OBVIOUS
  <1>3. /\ planned' = hours /\ status' = states /\ locked' = kept
        /\ target' = aligned /\ changes' = changes + 1
        /\ auto' = [g \in PlanSegments |->
             IF states[g] = "open" /\ aligned[g] # None
             THEN Excess(hours[g], LockedHours(kept, g)) ELSE 0]
    BY <1>1, <1>2 DEF RebuildPlan
  <1>4. kept \in [Quarts -> LockedShift \cup {None}]
    BY <1>1 DEF KeptQuarts
  <1>5. kept \in [Quarts -> Decision \cup {None}]
    BY <1>4 DEF LockedShift, Decision
  <1>6. aligned \in [PlanSegments -> Resources \cup {None}]
    BY <1>2, <1>5, AlignedTyped
  <1>7. ASSUME NEW g \in PlanSegments
        PROVE  auto'[g] \in Hours /\ (auto'[g] > 0 => aligned[g] # None)
    <2>1. PICK n : n = LockedHours(kept, g)
      OBVIOUS
    <2>2. n \in Nat /\ hours[g] \in 0 .. MaxHours /\ MaxHours \in Nat
      BY <1>4, <2>1, LockedHoursAreNumber, ShiftPlanAssumption DEF Hours
    <2>3. auto'[g] = IF states[g] = "open" /\ aligned[g] # None
                     THEN Excess(hours[g], n) ELSE 0
      BY <1>3, <2>1
    <2> QED
      BY <2>2, <2>3 DEF Excess, Hours
  <1> QED
    BY <1>3, <1>4, <1>6, <1>7 DEF RowsRebuilt

\* What the others write.
LEMMA PlanStillTyped ==
  ASSUME PlanTyped, changes < MaxChanges, RowsRebuilt', changes' = changes + 1,
         window' \in [PlanSegments -> Span],
         approved' \in [RequestPart -> Entry],
         revision' = revision \/ revision' = revision + 1,
         override' \in [RequestPart -> WindowOverride \cup {None}],
         budget' \in [RequestPart -> Hours \cup {None}]
  PROVE  PlanTyped'
  BY ShiftPlanAssumption DEF PlanTyped, PlanTypeOK, RowsRebuilt

\* Locked shifts, and those that a command may turn into one.
LEMMA SourceTyped ==
  ASSUME PlanTyped, NEW source \in Sources
  PROVE  source[1] \in Quarts /\ source[2] \in LockedShift
  <1>1. CASE source \in {<<i, locked[i]>> : i \in Quarts \ Unused}
    BY <1>1 DEF Unused, PlanTyped, PlanTypeOK
  <1>2. CASE source \in Unused \X UNION {AutoSource(g) : g \in PlanSegments}
    <2>1. PICK g \in PlanSegments : source[2] \in AutoSource(g)
      BY <1>2
    <2>2. PICK day \in Days, hours \in HourChoices :
            /\ source[2] = Quart(g, day, target[g], hours)
            /\ hours <= auto[g]
      BY <2>1 DEF AutoSource
    <2>3. hours \in Hours /\ auto[g] > 0
      BY <2>2, ShiftPlanAssumption DEF Hours, PlanTyped, PlanTypeOK
    <2>4. target[g] \in Resources
      BY <2>3 DEF PlanTyped, PlanTypeOK
    <2> QED
      BY <1>2, <2>2, <2>3, <2>4 DEF Unused, Quart, LockedShift
  <1> QED
    BY <1>1, <1>2 DEF Sources

\* A decision writes typed rows.
LEMMA DecideTyped ==
  ASSUME PlanTyped, NEW g \in PlanSegments,
         NEW rows \in [Quarts -> LockedShift \cup {None}], NEW stance,
         Decide(g, rows, stance)
  PROVE  /\ RowsRebuilt' /\ changes' = changes + 1
         /\ budget' \in [RequestPart -> Hours \cup {None}]
         /\ UNCHANGED <<approved, revision>>
  <1>1. PICK n : n = LockedHours(rows, g)
    OBVIOUS
  <1>2. n \in Hours
    BY <1>1 DEF Decide, PolicyApplied
  <1>3. budget' \in [RequestPart -> Hours \cup {None}]
    <2>1. WithBudget(g, n) \in [RequestPart -> Hours \cup {None}]
      BY <1>2 DEF WithBudget, BudgetFor, PlanTyped, PlanTypeOK
    <2>2. budget' = WithBudget(g, n) \/ budget' = budget
      BY <1>1 DEF Decide, PolicyApplied
    <2> QED
      BY <2>1, <2>2 DEF PlanTyped, PlanTypeOK
  <1>4. PICK hours : hours = PlannedAfter(g, rows, stance[1])
    OBVIOUS
  <1>5. hours \in [PlanSegments -> Hours]
    BY <1>1, <1>2, <1>4 DEF PlannedAfter, PlanTyped, PlanTypeOK
  <1>6. RebuildPlan(rows, hours, status, target)
    BY <1>4 DEF Decide
  <1>7. RowsRebuilt' /\ changes' = changes + 1
    BY <1>5, <1>6, RebuildTyped DEF PlanTyped, PlanTypeOK
  <1> QED
    BY <1>3, <1>7 DEF Decide

\* A decision, with the window it is in.
LEMMA DecidedTyped ==
  ASSUME PlanTyped, changes < MaxChanges, NEW g \in PlanSegments,
         NEW rows \in [Quarts -> LockedShift \cup {None}], NEW stance,
         Decide(g, rows, stance),
         window' \in [PlanSegments -> Span],
         override' \in [RequestPart -> WindowOverride \cup {None}]
  PROVE  PlanTyped'
  <1>1. /\ RowsRebuilt' /\ changes' = changes + 1
        /\ budget' \in [RequestPart -> Hours \cup {None}]
        /\ UNCHANGED <<approved, revision>>
    BY DecideTyped
  <1>2. approved' \in [RequestPart -> Entry]
    BY <1>1 DEF PlanTyped, PlanTypeOK
  <1> QED
    BY <1>1, <1>2, PlanStillTyped

\* A segment that a day stretches.
LEMMA StretchedTyped ==
  ASSUME PlanTyped, NEW g \in PlanSegments, NEW day \in Days
  PROVE  WindowFor(g, day) \in [PlanSegments -> Span]
  <1>1. window[g] \in Span /\ window \in [PlanSegments -> Span]
    BY DEF PlanTyped, PlanTypeOK
  <1>2. Stretched(window[g], day) \in Span
    BY <1>1, StretchedCovers
  <1> QED
    BY <1>1, <1>2 DEF WindowFor

\* A shift that a person writes.
LEMMA QuartIsLocked ==
  ASSUME NEW g \in PlanSegments, NEW day \in Days, NEW r \in Resources,
         NEW hours \in Hours
  PROVE  Quart(g, day, r, hours) \in LockedShift
  BY DEF Quart, LockedShift

\* Shifts that are created, moved and changed.
LEMMA WrittenTyped ==
  ASSUME PlanTyped, changes < MaxChanges, NEW source \in Sources,
         NEW day \in Days, NEW r \in Resources, NEW hours \in Hours,
         NEW stance,
         Decide(source[2].segment,
                [locked EXCEPT ![source[1]] =
                   Quart(source[2].segment, day, r, hours)], stance),
         window' \in [PlanSegments -> Span],
         override' \in [RequestPart -> WindowOverride \cup {None}]
  PROVE  PlanTyped'
  <1>1. PICK i, g : i = source[1] /\ g = source[2].segment
    OBVIOUS
  <1>2. i \in Quarts /\ g \in PlanSegments
    BY <1>1, SourceTyped DEF LockedShift
  <1>3. PICK rows : rows = [locked EXCEPT ![i] = Quart(g, day, r, hours)]
    OBVIOUS
  <1>4. rows \in [Quarts -> LockedShift \cup {None}]
    BY <1>2, <1>3, QuartIsLocked DEF PlanTyped, PlanTypeOK
  <1> QED
    BY <1>1, <1>2, <1>3, <1>4, DecidedTyped

\* Manual commands.
LEMMA ManualTyped ==
  ASSUME PlanTyped, changes < MaxChanges, ManualNext
  PROVE  PlanTyped'
  <1>1. /\ window \in [PlanSegments -> Span]
        /\ override \in [RequestPart -> WindowOverride \cup {None}]
        /\ approved \in [RequestPart -> Entry]
        /\ budget \in [RequestPart -> Hours \cup {None}]
        /\ locked \in [Quarts -> LockedShift \cup {None}]
        /\ HourChoices \subseteq Hours
    BY ShiftPlanAssumption DEF PlanTyped, PlanTypeOK
  <1>2. ASSUME NEW g \in PlanSegments, NEW day \in Days, NEW r \in Resources,
               NEW hours \in HourChoices, NEW stance \in Stances,
               CreateManual(g, day, r, hours, stance)
        PROVE  PlanTyped'
    <2>1. PICK i \in Unused :
            Decide(g, [locked EXCEPT ![i] = Quart(g, day, r, hours)], stance)
      BY <1>2 DEF CreateManual
    <2>2. PICK rows : rows = [locked EXCEPT ![i] = Quart(g, day, r, hours)]
      OBVIOUS
    <2>3. rows \in [Quarts -> LockedShift \cup {None}]
      BY <1>1, <2>2, QuartIsLocked DEF Unused
    <2>4. window' \in [PlanSegments -> Span]
          /\ override' \in [RequestPart -> WindowOverride \cup {None}]
      BY <1>1, <1>2 DEF CreateManual
    <2> QED
      BY <2>1, <2>2, <2>3, <2>4, DecidedTyped
  <1>3. ASSUME NEW source \in Sources, NEW day \in Days, NEW r \in Resources,
               NEW hours \in Hours, NEW stance,
               UpdateManual(source, day, r, hours, stance)
        PROVE  PlanTyped'
    <2>1. source[2].segment \in PlanSegments
      BY SourceTyped DEF LockedShift
    <2>2. window' \in [PlanSegments -> Span]
          /\ override' \in [RequestPart -> WindowOverride \cup {None}]
      BY <1>1, <1>3, <2>1, StretchedTyped DEF UpdateManual
    <2> QED
      BY <1>3, <2>2, WrittenTyped DEF UpdateManual
  <1>4. ASSUME NEW source \in Sources, NEW day \in Days, NEW r \in Resources,
               NEW transfer \in TransferChoices, NEW stance \in Stances,
               SplitQuart(source, day, r, transfer, stance)
        PROVE  PlanTyped'
    <2>1. PICK j, g, row : /\ j = source[1] /\ row = source[2]
                           /\ g = source[2].segment
      OBVIOUS
    <2>2. j \in Quarts /\ row \in LockedShift /\ g \in PlanSegments
      BY <2>1, SourceTyped DEF LockedShift
    <2>3. PICK i \in Unused \ {j} :
            Decide(g, [locked EXCEPT ![j] = [row EXCEPT !.hours = @ - transfer],
                                     ![i] = Quart(g, day, r, transfer)],
                   stance)
      BY <1>4, <2>1 DEF SplitQuart
    <2>4. row.hours - transfer \in Hours /\ transfer \in Hours
      <3>1. row.hours \in 0 .. MaxHours /\ transfer \in Nat
        BY <2>2, ShiftPlanAssumption DEF LockedShift, Hours
      <3>2. transfer < row.hours
        BY <1>4, <2>1 DEF SplitQuart
      <3> QED
        BY <3>1, <3>2, ShiftPlanAssumption DEF Hours
    <2>5. PICK rest : rest = [row EXCEPT !.hours = @ - transfer]
      OBVIOUS
    <2>6. rest \in LockedShift
      BY <2>2, <2>4, <2>5 DEF LockedShift
    <2>7. PICK rows : rows = [locked EXCEPT ![j] = rest,
                                            ![i] = Quart(g, day, r, transfer)]
      OBVIOUS
    <2>8. Quart(g, day, r, transfer) \in LockedShift
      BY <2>2, <2>4, QuartIsLocked
    <2>9. rows \in [Quarts -> LockedShift \cup {None}]
      BY <1>1, <2>6, <2>7, <2>8 DEF Unused
    <2>10. window' \in [PlanSegments -> Span]
           /\ override' \in [RequestPart -> WindowOverride \cup {None}]
      BY <1>1, <1>4 DEF SplitQuart
    <2>11. Decide(g, rows, stance)
      BY <2>3, <2>5, <2>7
    <2> QED
      BY <2>2, <2>9, <2>10, <2>11, DecidedTyped
  <1>5. ASSUME NEW source \in Sources, NEW day \in Days, NEW r \in Resources,
               MoveManual(source, day, r)
        PROVE  PlanTyped'
    <2>1. source[2].hours \in Hours
      BY SourceTyped DEF LockedShift
    <2> QED
      BY <1>3, <1>5, <2>1 DEF MoveManual
  <1>6. ASSUME NEW i \in Quarts, ReleaseOrDelete(i)
        PROVE  PlanTyped'
    <2>1. PICK rows : rows = [locked EXCEPT ![i] = None]
      OBVIOUS
    <2>2. rows \in [Quarts -> LockedShift \cup {None}]
      BY <1>1, <2>1
    <2>3. RebuildPlan(rows, planned, status, target)
      BY <1>6, <2>1 DEF ReleaseOrDelete
    <2>4. RowsRebuilt' /\ changes' = changes + 1
      BY <2>2, <2>3, RebuildTyped DEF PlanTyped, PlanTypeOK
    <2> QED
      BY <1>1, <1>6, <2>4, PlanStillTyped DEF ReleaseOrDelete
  <1> QED
    BY <1>1, <1>2, <1>3, <1>4, <1>5, <1>6 DEF ManualNext

\* An override of a window.
LEMMA OverriddenTyped ==
  ASSUME PlanTyped, NEW g \in RequestPart, NEW to \in Span
  PROVE  /\ Overridden(g, to) \in [RequestPart -> WindowOverride \cup {None}]
         /\ [window EXCEPT ![g] = to] \in [PlanSegments -> Span]
  <1>1. revision \in Nat
    BY ShiftPlanAssumption DEF PlanTyped, PlanTypeOK
  <1>2. [revision |-> revision, window |-> to] \in WindowOverride
    BY <1>1 DEF WindowOverride
  <1> QED
    BY <1>2 DEF Overridden, PlanTyped, PlanTypeOK

\* Composite commands.
LEMMA CompositeTyped ==
  ASSUME PlanTyped, changes < MaxChanges, CompositeNext
  PROVE  PlanTyped'
  <1>1. /\ window \in [PlanSegments -> Span]
        /\ override \in [RequestPart -> WindowOverride \cup {None}]
        /\ approved \in [RequestPart -> Entry]
        /\ budget \in [RequestPart -> Hours \cup {None}]
        /\ locked \in [Quarts -> LockedShift \cup {None}]
        /\ HourChoices \subseteq Hours
    BY ShiftPlanAssumption DEF PlanTyped, PlanTypeOK
  <1>2. ASSUME NEW source \in Sources, NEW day \in Days, NEW r \in Resources,
               NEW stance \in Stances, ExtendAndMove(source, day, r, stance)
        PROVE  PlanTyped'
    <2>1. source[2].segment \in PlanSegments /\ source[2].hours \in Hours
      BY SourceTyped DEF LockedShift
    <2>2. window' \in [PlanSegments -> Span]
          /\ override' \in [RequestPart -> WindowOverride \cup {None}]
      BY <1>1, <1>2, <2>1, StretchedTyped DEF ExtendAndMove
    <2> QED
      BY <1>2, <2>1, <2>2, WrittenTyped DEF ExtendAndMove
  <1>3. ASSUME NEW source \in Sources, NEW day \in Days, NEW r \in Resources,
               NEW stance \in Stances, DuplicateQuart(source, day, r, stance)
        PROVE  PlanTyped'
    <2>1. PICK j, g, row : /\ j = source[1] /\ row = source[2]
                           /\ g = source[2].segment
      OBVIOUS
    <2>2. /\ j \in Quarts /\ row \in LockedShift /\ g \in PlanSegments
          /\ row.hours \in Hours
      BY <2>1, SourceTyped DEF LockedShift
    <2>3. PICK i \in Unused \ {j} :
            Decide(g, [locked EXCEPT ![j] = row,
                                     ![i] = Quart(g, day, r, row.hours)],
                   stance)
      BY <1>3, <2>1 DEF DuplicateQuart
    <2>4. PICK rows : rows = [locked EXCEPT ![j] = row,
                                            ![i] = Quart(g, day, r, row.hours)]
      OBVIOUS
    <2>5. Quart(g, day, r, row.hours) \in LockedShift
      BY <2>2, QuartIsLocked
    <2>6. rows \in [Quarts -> LockedShift \cup {None}]
      BY <1>1, <2>2, <2>4, <2>5 DEF Unused
    <2>7. window' \in [PlanSegments -> Span]
          /\ override' \in [RequestPart -> WindowOverride \cup {None}]
      BY <1>1, <1>3 DEF DuplicateQuart
    <2> QED
      BY <2>2, <2>3, <2>4, <2>6, <2>7, DecidedTyped
  <1>4. ASSUME NEW source \in Sources, NEW day \in Days, NEW r \in Resources,
               NEW stance, OverrideAndMove(source, day, r, stance)
        PROVE  PlanTyped'
    <2>1. source[2].segment \in RequestPart /\ source[2].hours \in Hours
      BY <1>4, SourceTyped DEF OverrideAndMove, LockedShift
    <2>2. PICK to : to = Stretched(window[source[2].segment], day)
      OBVIOUS
    <2>3. to \in Span
      BY <1>1, <2>1, <2>2, StretchedCovers, ShiftPlanAssumption
    <2>4. window' \in [PlanSegments -> Span]
          /\ override' \in [RequestPart -> WindowOverride \cup {None}]
      BY <1>4, <2>1, <2>2, <2>3, OverriddenTyped DEF OverrideAndMove
    <2> QED
      BY <1>4, <2>1, <2>4, WrittenTyped DEF OverrideAndMove
  <1>5. ASSUME NEW g \in PlanSegments, NEW to \in Span,
               ExtendPlanningWindow(g, to)
        PROVE  PlanTyped'
    <2>1. g \in RequestPart
      BY <1>5 DEF ExtendPlanningWindow, MayWiden
    <2>2. window' \in [PlanSegments -> Span]
          /\ override' \in [RequestPart -> WindowOverride \cup {None}]
      BY <1>5, <2>1, OverriddenTyped DEF ExtendPlanningWindow
    <2>3. RowsRebuilt' /\ changes' = changes + 1
      BY <1>5, RebuildTyped DEF ExtendPlanningWindow, PlanTyped, PlanTypeOK
    <2> QED
      BY <1>1, <1>5, <2>2, <2>3, PlanStillTyped DEF ExtendPlanningWindow
  <1> QED
    BY <1>2, <1>3, <1>4, <1>5 DEF CompositeNext

\* Segments, approvals and cancellations.
LEMMA SegmentTyped ==
  ASSUME PlanTyped, changes < MaxChanges, SegmentNext
  PROVE  PlanTyped'
  <1>1. /\ window \in [PlanSegments -> Span]
        /\ planned \in [PlanSegments -> Hours]
        /\ status \in [PlanSegments -> {"open", "closed"}]
        /\ target \in [PlanSegments -> Resources \cup {None}]
        /\ override \in [RequestPart -> WindowOverride \cup {None}]
        /\ approved \in [RequestPart -> Entry]
        /\ budget \in [RequestPart -> Hours \cup {None}]
        /\ locked \in [Quarts -> LockedShift \cup {None}]
    BY DEF PlanTyped, PlanTypeOK
  <1>2. ASSUME NEW g \in PlanSegments, NEW r \in Resources,
               AssignSegment(g, r)
        PROVE  PlanTyped'
    <2>1. PICK targets :
            targets = [h \in PlanSegments |->
              IF h = g \/ h \in Group(status, g) THEN r ELSE target[h]]
      OBVIOUS
    <2>2. targets \in [PlanSegments -> Resources \cup {None}]
      BY <1>1, <2>1
    <2>3. RebuildPlan(locked, planned, status, targets)
      BY <1>2, <2>1 DEF AssignSegment
    <2>4. RowsRebuilt' /\ changes' = changes + 1
      BY <1>1, <2>2, <2>3, RebuildTyped
    <2> QED
      BY <1>1, <1>2, <2>4, PlanStillTyped DEF AssignSegment
  <1>3. ASSUME NEW g \in PlanSegments, NEW r \in Resources \cup {None},
               NEW state \in {"open", "closed"}, NEW to \in PatchWindows(g),
               NEW hours, PatchSegment(g, to, hours, r, state)
        PROVE  PlanTyped'
    <2>1. hours \in Hours /\ to \in Span
      BY <1>1, <1>3, ShiftPlanAssumption
         DEF PatchSegment, PatchWindows, Hours
    <2>2. PICK settled :
            settled = KeptQuarts(locked, [status EXCEPT ![g] = state])
      OBVIOUS
    <2>3. settled \in [Quarts -> LockedShift \cup {None}]
      BY <1>1, <2>2 DEF KeptQuarts
    <2>4. /\ [planned EXCEPT ![g] = hours] \in [PlanSegments -> Hours]
          /\ [status EXCEPT ![g] = state]
               \in [PlanSegments -> {"open", "closed"}]
          /\ [target EXCEPT ![g] = r]
               \in [PlanSegments -> Resources \cup {None}]
      BY <1>1, <2>1
    <2>5. RebuildPlan(settled, [planned EXCEPT ![g] = hours],
                      [status EXCEPT ![g] = state], [target EXCEPT ![g] = r])
      BY <1>3, <2>2 DEF PatchSegment
    <2>6. RowsRebuilt' /\ changes' = changes + 1
      BY <2>3, <2>4, <2>5, RebuildTyped
    <2>7. budget' \in [RequestPart -> Hours \cup {None}]
      BY <1>1, <1>3, <2>1 DEF PatchSegment, WithBudget, BudgetFor
    <2>8. window' \in [PlanSegments -> Span]
      BY <1>1, <1>3, <2>1 DEF PatchSegment
    <2> QED
      BY <1>1, <1>3, <2>6, <2>7, <2>8, PlanStillTyped DEF PatchSegment
  <1>4. ASSUME NEW g \in RequestPart, NEW entry \in ApprovalChoices,
               ApproveRevision(g, entry)
        PROVE  PlanTyped'
    <2>1. PICK entries : entries = [approved EXCEPT ![g] = entry]
      OBVIOUS
    <2>2. entries \in [RequestPart -> Entry]
      BY <1>1, <2>1, ShiftPlanAssumption
    <2>3. PICK hours :
            hours = [h \in PlanSegments |->
              IF h \in RequestPart THEN entries[h].hours ELSE planned[h]]
      OBVIOUS
    <2>4. hours \in [PlanSegments -> Hours]
      BY <1>1, <2>2, <2>3 DEF Entry
    <2>5. PICK states \in [PlanSegments -> {"open", "closed"}],
               targets \in [PlanSegments -> Resources \cup {None}] :
            RebuildPlan(locked, hours, states, targets)
      <3>1. \E renewed :
              RebuildPlan(locked,
                [h \in PlanSegments |->
                   IF h \in RequestPart
                   THEN [approved EXCEPT ![g] = entry][h].hours
                   ELSE planned[h]],
                [h \in PlanSegments |->
                   IF h \in renewed THEN "open" ELSE status[h]],
                [h \in PlanSegments |->
                   IF h \in renewed THEN None ELSE target[h]])
        BY <1>4 DEF ApproveRevision
      <3>2. hours = [h \in PlanSegments |->
                       IF h \in RequestPart
                       THEN [approved EXCEPT ![g] = entry][h].hours
                       ELSE planned[h]]
        BY <2>1, <2>3
      <3>3. PICK renewed :
              RebuildPlan(locked, hours,
                [h \in PlanSegments |->
                   IF h \in renewed THEN "open" ELSE status[h]],
                [h \in PlanSegments |->
                   IF h \in renewed THEN None ELSE target[h]])
        BY <3>1, <3>2
      <3>4. /\ [h \in PlanSegments |->
                 IF h \in renewed THEN "open" ELSE status[h]]
                \in [PlanSegments -> {"open", "closed"}]
            /\ [h \in PlanSegments |->
                 IF h \in renewed THEN None ELSE target[h]]
                \in [PlanSegments -> Resources \cup {None}]
        BY <1>1
      <3> QED
        BY <3>3, <3>4
    <2>6. RowsRebuilt' /\ changes' = changes + 1
      BY <1>1, <2>4, <2>5, RebuildTyped
    <2>7. /\ approved' = entries /\ revision' = revision + 1
          /\ override' = Retired(override)
          /\ budget' = [h \in RequestPart |-> None]
          /\ window' = [h \in PlanSegments |->
               IF h \in RequestPart THEN entries[h].window ELSE window[h]]
      BY <1>4, <2>1 DEF ApproveRevision
    <2>8. /\ window' \in [PlanSegments -> Span]
          /\ override' \in [RequestPart -> WindowOverride \cup {None}]
          /\ budget' \in [RequestPart -> Hours \cup {None}]
      BY <1>1, <2>2, <2>7 DEF Entry, Retired
    <2> QED
      BY <2>2, <2>6, <2>7, <2>8, PlanStillTyped
  <1>5. CASE CancelRequestPlan
    <2>1. PICK states :
            states = [g \in PlanSegments |->
              IF g \in RequestPart THEN "closed" ELSE status[g]]
      OBVIOUS
    <2>2. states \in [PlanSegments -> {"open", "closed"}]
      BY <1>1, <2>1
    <2>3. RebuildPlan(locked, planned, states, target)
      BY <1>5, <2>1 DEF CancelRequestPlan
    <2>4. RowsRebuilt' /\ changes' = changes + 1
      BY <1>1, <2>2, <2>3, RebuildTyped
    <2>5. override' \in [RequestPart -> WindowOverride \cup {None}]
      BY <1>5 DEF CancelRequestPlan
    <2> QED
      BY <1>1, <1>5, <2>4, <2>5, PlanStillTyped DEF CancelRequestPlan
  <1> QED
    BY <1>2, <1>3, <1>4, <1>5 DEF SegmentNext

\* Every command of the plan of shifts.
LEMMA NextPlanTyped ==
  ASSUME PlanTyped, [PlanNext]_planVars
  PROVE  PlanTyped'
  <1>1. CASE UNCHANGED planVars
    BY <1>1 DEF planVars, PlanTyped, PlanTypeOK
  <1> QED
    BY <1>1, ManualTyped, CompositeTyped, SegmentTyped DEF PlanNext

\* Nothing is planned at the start.
LEMMA InitPlanTyped == PlanInit => PlanTyped
  <1> SUFFICES ASSUME PlanInit PROVE PlanTyped
    OBVIOUS
  <1>1. PlanTypeOK
    BY ShiftPlanAssumption DEF PlanInit, PlanTypeOK, Entry, Hours
  <1> QED
    BY <1>1 DEF PlanInit, PlanTyped

-----------------------------------------------------------------------------
(* Types of the approval scopes.                                           *)

ScopeRow == [active: BOOLEAN, version: Nat \ {0},
             approvers: SUBSET Users, subjects: SUBSET Subjects]

AuthorityTyped ==
  /\ scope \in [Scopes -> ScopeRow]
  /\ account \in [Users -> Account]
  /\ typeOf \in [Units -> UnitTypes]
  /\ unitApprovers \in [Units -> SUBSET Users]

ClerksTyped ==
  /\ DOMAIN clerk = Clerks /\ holder \in Clerks \cup {Nothing}
  /\ \A w \in Clerks : clerk[w] = AtRest => holder # w
  /\ \A w \in Clerks : clerk[w] # AtRest =>
       /\ clerk[w].at \in {"decided", "acquired", "checked"}
       /\ clerk[w].command \in Commands
       /\ holder = w <=> clerk[w].at # "decided"

\* The transactions that are under way.
Running(clerks) == {w \in Clerks : clerks[w] # AtRest}

\* A version grows with the end of a transaction that was counted.
Within(n) == n + Cardinality(Running(clerk)) <= edits + 1

EditsCounted ==
  /\ planRow \in Nat \ {0} /\ edits \in 0 .. MaxEdits
  /\ Within(planRow) /\ \A x \in Scopes : Within(scope[x].version)

ScopesTyped == AuthorityTyped /\ ClerksTyped /\ EditsCounted

\* A transaction that begins or ends changes their number by one.
LEMMA RunningChanges ==
  ASSUME ClerksTyped, NEW w \in Clerks, NEW t,
         clerk' = [clerk EXCEPT ![w] = t]
  PROVE  LET before == Cardinality(Running(clerk))
             after == Cardinality(Running(clerk'))
         IN  /\ before \in Nat /\ after \in Nat
             /\ clerk[w] = AtRest /\ t # AtRest => after = before + 1
             /\ clerk[w] # AtRest /\ t = AtRest => after + 1 = before
             /\ clerk[w] # AtRest /\ t # AtRest => after = before
  <1>1. PICK S, T : S = Running(clerk) /\ T = Running(clerk')
    OBVIOUS
  <1>2. IsFiniteSet(S) /\ IsFiniteSet(T)
    BY <1>1, ScopesAssumption, FS_Subset DEF Running
  <1>3. clerk'[w] = t /\ \A v \in Clerks \ {w} : clerk'[v] = clerk[v]
    BY DEF ClerksTyped
  <1>4. Cardinality(S) \in Nat /\ Cardinality(T) \in Nat
    BY <1>2, FS_CardinalityType
  <1>5. ASSUME clerk[w] = AtRest, t # AtRest
        PROVE  Cardinality(T) = Cardinality(S) + 1
    <2>1. T = S \cup {w} /\ w \notin S
      BY <1>1, <1>3, <1>5 DEF Running
    <2> QED
      BY <1>2, <2>1, FS_AddElement
  <1>6. ASSUME clerk[w] # AtRest, t = AtRest
        PROVE  Cardinality(T) + 1 = Cardinality(S)
    <2>1. T = S \ {w} /\ w \in S
      BY <1>1, <1>3, <1>6 DEF Running
    <2> QED
      BY <1>2, <1>4, <2>1, FS_RemoveElement
  <1>7. ASSUME clerk[w] # AtRest, t # AtRest
        PROVE  Cardinality(T) = Cardinality(S)
    <2>1. T = S
      BY <1>1, <1>3, <1>7 DEF Running
    <2> QED
      BY <2>1
  <1> QED
    BY <1>1, <1>4, <1>5, <1>6, <1>7

\* A transaction that ends.
LEMMA EndTyped ==
  ASSUME ScopesTyped, NEW w \in Clerks, clerk[w] # AtRest,
         clerk' = [clerk EXCEPT ![w] = AtRest],
         holder' = IF holder = w THEN Nothing ELSE holder,
         edits' = edits, AuthorityTyped',
         planRow' = planRow \/ planRow' = planRow + 1,
         \A x \in Scopes : \/ scope'[x].version = scope[x].version
                           \/ scope'[x].version = scope[x].version + 1
  PROVE  ScopesTyped'
  <1>1. clerk'[w] = AtRest /\ \A v \in Clerks \ {w} : clerk'[v] = clerk[v]
    BY DEF ScopesTyped, ClerksTyped
  <1>2. ClerksTyped'
    BY <1>1, ScopesAssumption DEF ScopesTyped, ClerksTyped
  <1>3. PICK m, n : /\ m = Cardinality(Running(clerk))
                    /\ n = Cardinality(Running(clerk'))
    OBVIOUS
  <1>4. m \in Nat /\ n \in Nat /\ n + 1 = m
    BY <1>3, RunningChanges DEF ScopesTyped
  <1>5. edits \in Int /\ planRow \in Nat \ {0} /\ planRow + m <= edits + 1
    BY <1>3, ScopesAssumption DEF ScopesTyped, EditsCounted, Within
  <1>6. planRow' \in Nat \ {0} /\ planRow' + n <= edits' + 1
    BY <1>4, <1>5
  <1>7. ASSUME NEW x \in Scopes
        PROVE  scope'[x].version + n <= edits' + 1
    <2>1. scope[x].version \in Nat /\ scope[x].version + m <= edits + 1
      BY <1>3 DEF ScopesTyped, EditsCounted, Within, AuthorityTyped, ScopeRow
    <2> QED
      BY <1>4, <1>5, <2>1
  <1>8. EditsCounted'
    BY <1>3, <1>6, <1>7 DEF ScopesTyped, EditsCounted, Within
  <1> QED
    BY <1>2, <1>8 DEF ScopesTyped

\* A transaction that begins.
LEMMA AskTyped ==
  ASSUME ScopesTyped, NEW w \in Clerks, Ask(w)
  PROVE  ScopesTyped'
  <1>1. PICK t : /\ clerk' = [clerk EXCEPT ![w] = t]
                 /\ t.at = "decided" /\ t.command \in Commands
    <2>1. PICK c \in Commands :
            clerk' = [clerk EXCEPT ![w] =
              [at |-> "decided", command |-> c, seen |-> planRow,
               guarded |-> Guarded(c),
               version |-> IF c.kind \in ScopeKinds
                           THEN scope[c.scope].version ELSE 0]]
      BY DEF Ask
    <2>2. PICK n : n = IF c.kind \in ScopeKinds
                       THEN scope[c.scope].version ELSE 0
      OBVIOUS
    <2>3. PICK t : t = [at |-> "decided", command |-> c, seen |-> planRow,
                        guarded |-> Guarded(c), version |-> n]
      OBVIOUS
    <2>4. t.at = "decided" /\ t.command = c
      BY <2>3
    <2>5. clerk' = [clerk EXCEPT ![w] = t]
      BY <2>1, <2>2, <2>3, Zenon
    <2> QED
      BY <2>4, <2>5
  <1>2. /\ clerk[w] = AtRest /\ edits < MaxEdits /\ edits' = edits + 1
        /\ UNCHANGED <<scope, account, typeOf, unitApprovers, planRow, holder>>
    BY DEF Ask
  <1>3. t # AtRest
    BY <1>1 DEF AtRest
  <1>4. clerk'[w] = t /\ \A v \in Clerks \ {w} : clerk'[v] = clerk[v]
    BY <1>1 DEF ScopesTyped, ClerksTyped
  <1>5. ClerksTyped'
    BY <1>1, <1>2, <1>3, <1>4 DEF ScopesTyped, ClerksTyped
  <1>6. PICK m, n : /\ m = Cardinality(Running(clerk))
                    /\ n = Cardinality(Running(clerk'))
    OBVIOUS
  <1>7. m \in Nat /\ n \in Nat /\ n = m + 1
    BY <1>1, <1>2, <1>3, <1>6, RunningChanges DEF ScopesTyped
  <1>8. EditsCounted'
    <2>1. edits \in 0 .. MaxEdits /\ planRow \in Nat \ {0}
          /\ planRow + m <= edits + 1
      BY <1>6 DEF ScopesTyped, EditsCounted, Within
    <2>2. ASSUME NEW x \in Scopes
          PROVE  scope'[x].version + n <= edits' + 1
      <3>1. scope[x].version \in Nat /\ scope[x].version + m <= edits + 1
        BY <1>6 DEF ScopesTyped, EditsCounted, Within, AuthorityTyped, ScopeRow
      <3> QED
        BY <1>2, <1>7, <2>1, <3>1
    <2>3. edits' \in 0 .. MaxEdits /\ planRow' \in Nat \ {0}
          /\ planRow' + n <= edits' + 1
      BY <1>2, <1>7, <2>1, ScopesAssumption
    <2> QED
      BY <1>6, <2>2, <2>3 DEF EditsCounted, Within
  <1>9. AuthorityTyped'
    BY <1>2 DEF ScopesTyped, AuthorityTyped
  <1> QED
    BY <1>5, <1>8, <1>9 DEF ScopesTyped

\* A transaction that goes on.
LEMMA GoesOnTyped ==
  ASSUME ScopesTyped, NEW w \in Clerks, Acquire(w) \/ CheckAuthority(w)
  PROVE  ScopesTyped'
  <1>1. PICK at \in {"acquired", "checked"} :
          clerk' = [clerk EXCEPT ![w].at = at]
    BY DEF Acquire, CheckAuthority
  <1>2. /\ clerk[w].at \in {"decided", "acquired"}
        /\ UNCHANGED <<scope, account, typeOf, unitApprovers, planRow, edits>>
        /\ IF clerk[w].at = "decided" THEN holder = Nothing /\ holder' = w
           ELSE holder' = holder
    BY DEF Acquire, CheckAuthority
  <1>3. clerk[w] # AtRest
    BY <1>2 DEF AtRest
  <1>4. PICK t : t = [clerk[w] EXCEPT !.at = at]
    OBVIOUS
  <1>5. /\ clerk' = [clerk EXCEPT ![w] = t]
        /\ clerk'[w] = t /\ \A v \in Clerks \ {w} : clerk'[v] = clerk[v]
    BY <1>1, <1>4 DEF ScopesTyped, ClerksTyped
  <1>6. t.at = at /\ t.command = clerk[w].command /\ t # AtRest
    BY <1>2, <1>4 DEF AtRest
  <1>7. \A v \in Clerks : v # Nothing
    BY ScopesAssumption
  <1>8. ClerksTyped'
    BY <1>2, <1>3, <1>5, <1>6, <1>7 DEF ScopesTyped, ClerksTyped
  <1>9. Cardinality(Running(clerk')) = Cardinality(Running(clerk))
    BY <1>3, <1>5, <1>6, RunningChanges DEF ScopesTyped
  <1>10. EditsCounted'
    BY <1>2, <1>9 DEF ScopesTyped, EditsCounted, Within
  <1>11. AuthorityTyped'
    BY <1>2 DEF ScopesTyped, AuthorityTyped
  <1> QED
    BY <1>8, <1>10, <1>11 DEF ScopesTyped

\* Commits, each with its row.
LEMMA CommitTyped ==
  ASSUME ScopesTyped, NEW w \in Clerks, clerk[w] # AtRest,
         \/ CommitScope(w) \/ CommitUnit(w) \/ CommitAccount(w)
         \/ CommitAssignment(w) \/ RollBack(w)
  PROVE  ScopesTyped'
  <1>1. PICK c \in Commands : c = clerk[w].command
    BY DEF ScopesTyped, ClerksTyped
  <1>2. /\ clerk' = [clerk EXCEPT ![w] = AtRest] /\ edits' = edits
        /\ holder' = IF holder = w THEN Nothing ELSE holder
        /\ planRow' = planRow \/ planRow' = planRow + 1
    <2>1. CASE CommitAssignment(w)
      BY <2>1 DEF CommitAssignment, ScopesTyped, ClerksTyped
    <2>2. CASE ~ CommitAssignment(w)
      BY <2>2 DEF CommitScope, CommitUnit, CommitAccount, RollBack, Committed
    <2> QED
      BY <2>1, <2>2
  <1>3. AuthorityTyped
    BY DEF ScopesTyped
  <1>4. /\ AuthorityTyped'
        /\ \A x \in Scopes : \/ scope'[x].version = scope[x].version
                             \/ scope'[x].version = scope[x].version + 1
    <2>1. CASE CommitScope(w)
      <3>1. PICK x : x = c.scope
        OBVIOUS
      <3>2. c.kind \in ScopeKinds
        BY <1>1, <2>1 DEF CommitScope
      <3>3. /\ x \in Scopes
            /\ c.kind = "active" => c.on \in BOOLEAN
            /\ c.kind = "approver" => c.user \in Users
            /\ c.kind = "mapping" => c.subject \in Subjects
        BY <1>1, <3>1, <3>2 DEF Commands, ScopeKinds
      <3>4. PICK row : row = Edited(scope[x], c)
        OBVIOUS
      <3>5. scope[x] \in ScopeRow
        BY <1>3, <3>3 DEF AuthorityTyped
      <3>6. row \in ScopeRow /\ row.version = scope[x].version
        BY <3>2, <3>3, <3>4, <3>5 DEF ScopeRow, Edited, With, ScopeKinds
      <3>7. PICK next : next = [row EXCEPT !.version = @ + 1]
        OBVIOUS
      <3>8. next \in ScopeRow /\ next.version = scope[x].version + 1
        BY <3>6, <3>7 DEF ScopeRow
      <3>9. /\ scope' = [scope EXCEPT ![x] = next]
            /\ UNCHANGED <<account, typeOf, unitApprovers>>
        BY <1>1, <2>1, <3>1, <3>4, <3>7 DEF CommitScope
      <3> QED
        BY <1>3, <3>8, <3>9 DEF AuthorityTyped
    <2>2. CASE CommitUnit(w)
      <3>1. /\ c.kind \in {"unitApprover", "type"} => c.unit \in Units
            /\ c.kind = "unitApprover" => c.user \in Users
            /\ c.kind = "type" => c.type \in UnitTypes
        BY <1>1 DEF Commands
      <3> QED
        BY <1>1, <1>3, <2>2, <3>1 DEF CommitUnit, AuthorityTyped, With
    <2>3. CASE CommitAccount(w)
      <3>1. /\ c.kind = "account"
            /\ account' = [account EXCEPT ![c.user] = c.account]
            /\ UNCHANGED <<scope, typeOf, unitApprovers>>
        BY <1>1, <2>3 DEF CommitAccount
      <3>2. c.account \in Account
        BY <1>1, <3>1, ScopesAssumption DEF Commands, Account
      <3> QED
        BY <1>3, <3>1, <3>2 DEF AuthorityTyped
    <2>4. CASE CommitAssignment(w) \/ RollBack(w)
      BY <1>3, <2>4 DEF CommitAssignment, RollBack, AuthorityTyped
    <2> QED
      BY <2>1, <2>2, <2>3, <2>4
  <1> QED
    BY <1>2, <1>4, EndTyped

\* Every step of a transaction.
LEMMA NextScopesTyped ==
  ASSUME ScopesTyped, [ScopesNext]_scopeVars
  PROVE  ScopesTyped'
  <1>1. CASE UNCHANGED scopeVars
    BY <1>1 DEF scopeVars, ScopesTyped, AuthorityTyped, ClerksTyped,
       EditsCounted, Within
  <1>2. ASSUME NEW w \in Clerks,
               \/ CommitScope(w) \/ CommitUnit(w) \/ CommitAccount(w)
               \/ CommitAssignment(w) \/ RollBack(w)
        PROVE  ScopesTyped'
    <2>1. clerk[w] # AtRest
      BY <1>2 DEF CommitScope, CommitUnit, CommitAccount, CommitAssignment,
         RollBack, AtRest
    <2> QED
      BY <1>2, <2>1, CommitTyped
  <1> QED
    BY <1>1, <1>2, AskTyped, GoesOnTyped DEF ScopesNext

\* Nobody has begun.
LEMMA InitScopesTyped == ScopesInit => ScopesTyped
  <1> SUFFICES ASSUME ScopesInit PROVE ScopesTyped
    OBVIOUS
  <1>1. PICK f \in [Scopes -> [active: {TRUE}, version: {1},
                              approvers: SUBSET Users,
                              subjects: SUBSET Subjects]] : scope = f
    BY DEF ScopesInit
  <1>2. ASSUME NEW x \in Scopes
        PROVE  f[x] \in ScopeRow /\ f[x].version = 1
    <2>1. f[x] \in [active: {TRUE}, version: {1},
                    approvers: SUBSET Users, subjects: SUBSET Subjects]
      OBVIOUS
    <2>2. {TRUE} \subseteq BOOLEAN /\ {1} \subseteq Nat \ {0}
      OBVIOUS
    <2> QED
      BY <2>1, <2>2 DEF ScopeRow
  <1>3. AuthorityTyped
    BY <1>1, <1>2 DEF ScopesInit, AuthorityTyped, Account
  <1>4. Running(clerk) = {}
    BY DEF ScopesInit, Running
  <1>5. EditsCounted
    <2>1. Cardinality(Running(clerk)) = 0
      BY <1>4, FS_EmptySet
    <2>2. planRow = 1 /\ edits = 0 /\ MaxEdits \in Nat
      BY ScopesAssumption DEF ScopesInit
    <2>3. Within(planRow)
      BY <2>1, <2>2 DEF Within
    <2>4. \A x \in Scopes : Within(scope[x].version)
      BY <1>1, <1>2, <2>1, <2>2 DEF Within
    <2> QED
      BY <2>2, <2>3, <2>4 DEF EditsCounted
  <1>6. ClerksTyped
    BY ScopesAssumption DEF ScopesInit, ClerksTyped
  <1> QED
    BY <1>3, <1>5, <1>6 DEF ScopesTyped

\* What is counted is within its bounds.
LEMMA ScopesTypes == ScopesTyped => ScopesTypeOK
  <1> SUFFICES ASSUME ScopesTyped PROVE ScopesTypeOK
    OBVIOUS
  <1>1. PICK n : n = Cardinality(Running(clerk))
    OBVIOUS
  <1>2. n \in Nat
    BY <1>1, ScopesAssumption, FS_Subset, FS_CardinalityType DEF Running
  <1>3. planRow \in 1 .. MaxEdits + 1
    BY <1>1, <1>2, ScopesAssumption DEF ScopesTyped, EditsCounted, Within
  <1>4. ASSUME NEW x \in Scopes
        PROVE  scope[x] \in Scope
    <2>1. scope[x] \in ScopeRow
      BY DEF ScopesTyped, AuthorityTyped
    <2>2. scope[x].version \in 1 .. MaxEdits + 1
      BY <1>1, <1>2, <2>1, ScopesAssumption
         DEF ScopesTyped, EditsCounted, Within, ScopeRow
    <2> QED
      BY <2>1, <2>2 DEF ScopeRow, Scope
  <1>5. scope \in [Scopes -> Scope]
    BY <1>4 DEF ScopesTyped, AuthorityTyped
  <1> QED
    BY <1>3, <1>5 DEF ScopesTyped, AuthorityTyped, ClerksTyped, EditsCounted,
       ScopesTypeOK


-----------------------------------------------------------------------------
(* Types of what refers to packages, whether or not editions overlap.      *)

\* What a command mentions, and what it has read, is there when it writes.
LinkingTyped(row) ==
  LET c == row.command IN
    /\ c.kind = "create" => Keep \notin {c.project, c.package, c.task}
    /\ c.kind = "lines" => Keep \notin {c.package, c.task}
    /\ c.kind # "create" => demand[c.demand] # None /\ row.seen # None
    /\ row.package # None => package[row.package] # None

DependentsTyped ==
  /\ LinksTyped
  /\ \A w \in Editors : linking[w] # Unlinked => LinkingTyped(linking[w])
  /\ taskStatus \in [ErpTasks -> {"eligible", "ineligible", "inactive"}]
  /\ delivered \subseteq Packages

\* The invariant of the types, and of the hours that they rest on.
PackagesInv == LoadsInv /\ DependentsTyped

\* The invariant gives the types.
LEMMA InvPackages == PackagesInv => PackagesTypeOK
  BY DEF PackagesInv, LoadsInv, LoadsTyped, IntervalRows, DependentsTyped,
     LinksTyped, PackagesTypeOK

\* Packages stay, and so do demands.
LEMMA DependentsStay ==
  ASSUME DependentsTyped, LinksTyped',
         \A p \in Packages : package[p] # None => package'[p] # None,
         \A d \in Demands : demand[d] # None => demand'[d] # None,
         linking' = linking, taskStatus' = taskStatus,
         delivered' \subseteq Packages
  PROVE  DependentsTyped'
  <1>1. ASSUME NEW w \in Editors, linking[w] # Unlinked
        PROVE  LinkingTyped(linking[w])'
    <2>1. PICK row : row = linking[w]
      OBVIOUS
    <2>2. /\ row.command \in LinkCommand /\ row.package \in Optional(Packages)
      BY <1>1, <2>1 DEF DependentsTyped, LinksTyped, LinkingRow
    <2>3. row.command.demand \in Demands
      BY <2>2 DEF LinkCommand
    <2>4. LinkingTyped(row)
      BY <1>1, <2>1 DEF DependentsTyped
    <2>5. linking'[w] = row
      BY <2>1
    <2> QED
      BY <2>2, <2>3, <2>4, <2>5 DEF LinkingTyped, Optional
  <1> QED
    BY <1>1 DEF DependentsTyped

\* A command on a package writes its row.
Rewritten(p) ==
  \E row \in PackageRow : package' = [package EXCEPT ![p] = row]

\* Where a command that moves a package is allowed.
LEMMA MovedRewrites ==
  ASSUME NEW p \in Packages, package[p] \in PackageRow,
         NEW project \in PackageProjects,
         NEW task \in Optional(ErpTasks), NEW dates \in Optional(Windows),
         NEW amount \in Optional(Amounts), NEW weekly \in WeeklyLoads,
         Moved(p, project, task, dates, amount, weekly)
  PROVE  Rewritten(p)
  <1>1. PICK row :
          row = [package[p] EXCEPT !.project = project, !.task = task,
                                   !.window = dates, !.planned = amount,
                                   !.weekly = weekly]
    OBVIOUS
  <1>2. row \in PackageRow
    BY <1>1 DEF PackageRow
  <1>3. package' = [package EXCEPT ![p] = row]
    BY <1>1 DEF Moved
  <1> QED
    BY <1>2, <1>3 DEF Rewritten

\* Every command of a package.
LEMMA CommandsRewrite ==
  ASSUME LinksTyped, NEW p \in Packages,
         \/ PackageCommands(p) \/ WeeklyCommands(p)
         \/ \E end \in Optional({"closed", "cancelled"}) :
              SetTerminal(p, end)
  PROVE  Rewritten(p)
  <1>1. package[p] # None => package[p] \in PackageRow
    BY PackageFacts
  <1>2. ASSUME NEW project \in PackageProjects,
               NEW task \in Optional(ErpTasks),
               NEW dates \in Optional(Windows),
               NEW amount \in Optional(Amounts),
               CreatePackage(p, project, task, dates, amount)
        PROVE  Rewritten(p)
    <2>1. PICK row :
            row = [project |-> project, task |-> task, window |-> dates,
                   planned |-> amount, terminal |-> None,
                   weekly |-> NoWeekly]
      OBVIOUS
    <2>2. row \in PackageRow
      BY <2>1, NoWeeklyTyped DEF PackageRow, Optional
    <2>3. package' = [package EXCEPT ![p] = row]
      BY <1>2, <2>1 DEF CreatePackage
    <2> QED
      BY <2>2, <2>3 DEF Rewritten
  <1>3. ASSUME NEW project \in PackageProjects,
               NEW task \in Optional(ErpTasks),
               NEW dates \in Optional(Windows),
               NEW amount \in Optional(Amounts),
               EditPackage(p, project, task, dates, amount)
        PROVE  Rewritten(p)
    <2>1. /\ package[p] \in PackageRow
          /\ Moved(p, project, task, dates, amount, package[p].weekly)
      BY <1>1, <1>3 DEF EditPackage
    <2>2. package[p].weekly \in WeeklyLoads
      BY <2>1 DEF PackageRow
    <2>3. PICK weekly \in WeeklyLoads : weekly = package[p].weekly
      BY <2>2
    <2> QED
      BY <2>1, <2>3, MovedRewrites
  <1>4. ASSUME NEW project \in PackageProjects,
               NEW task \in Optional(ErpTasks),
               NEW dates \in Optional(Windows),
               NEW amount \in Optional(Amounts), NEW rows,
               ReplaceIntervals(p, project, task, dates, amount, rows)
        PROVE  Rewritten(p)
    <2>1. /\ package[p] \in PackageRow
          /\ Moved(p, project, task, dates, amount, NoWeekly)
      BY <1>1, <1>4 DEF ReplaceIntervals, WeeklyAfter
    <2> QED
      BY <2>1, NoWeeklyTyped, MovedRewrites
  <1>5. CASE PackageCommands(p)
    BY <1>2, <1>3, <1>4, <1>5 DEF PackageCommands
  <1>6. CASE WeeklyCommands(p)
    <2>1. /\ package[p] \in PackageRow /\ package[p].planned # None
      BY <1>1, <1>6 DEF WeeklyCommands
    <2>2. PICK amount : amount = package[p].planned
      OBVIOUS
    <2>3. amount \in Amounts
      BY <2>1, <2>2 DEF PackageRow, Optional
    <2>4. PICK weeks \in SUBSET Weeks, origin \in {"AUTO", "MANUAL"} :
            \E weekly \in [weeks -> 0 .. amount] :
              ReplaceWeekly(p, origin, weekly)
      BY <1>6, <2>2 DEF WeeklyCommands
    <2>5. PICK weekly \in [weeks -> 0 .. amount] :
            ReplaceWeekly(p, origin, weekly)
      BY <2>4
    <2>6. weekly \in WeeklyLoads
      BY <2>3, <2>4, <2>5, WeeklyTyped
    <2>7. PICK row : row = [package[p] EXCEPT !.weekly = weekly]
      OBVIOUS
    <2>8. row \in PackageRow
      BY <2>1, <2>6, <2>7 DEF PackageRow
    <2>9. package' = [package EXCEPT ![p] = row]
      BY <2>5, <2>7 DEF ReplaceWeekly
    <2> QED
      BY <2>8, <2>9 DEF Rewritten
  <1>7. ASSUME NEW end \in Optional({"closed", "cancelled"}),
               SetTerminal(p, end)
        PROVE  Rewritten(p)
    <2>1. package[p] \in PackageRow
      BY <1>1, <1>7 DEF SetTerminal
    <2>2. PICK row : row = [package[p] EXCEPT !.terminal = end]
      OBVIOUS
    <2>3. row \in PackageRow
      BY <2>1, <2>2 DEF PackageRow
    <2>4. package' = [package EXCEPT ![p] = row]
      BY <1>7, <2>2 DEF SetTerminal
    <2> QED
      BY <2>3, <2>4 DEF Rewritten
  <1> QED
    BY <1>5, <1>6, <1>7

\* A row that is written leaves the packages there.
LEMMA RewrittenStays ==
  ASSUME DependentsTyped, NEW p \in Packages, Rewritten(p),
         UNCHANGED <<demand, piece, linking, taskStatus, delivered>>
  PROVE  DependentsTyped'
  <1>1. PICK row \in PackageRow : package' = [package EXCEPT ![p] = row]
    BY DEF Rewritten
  <1>2. row # None
    BY PackagesAssumption
  <1>3. /\ LinksTyped'
        /\ \A q \in Packages : package[q] # None => package'[q] # None
    BY <1>1, <1>2 DEF DependentsTyped, LinksTyped, Optional
  <1>4. delivered' \subseteq Packages
    BY DEF DependentsTyped
  <1> QED
    BY <1>3, <1>4, DependentsStay

\* What a transaction reads, it finds there.
LEMMA BeginLinkTyped ==
  ASSUME DependentsTyped, NEW w \in Editors, NEW c \in LinkCommand,
         BeginLink(w, c)
  PROVE  DependentsTyped'
  <1>1. PICK seen, p : seen = demand[c.demand] /\ p = Linked(c, seen)
    OBVIOUS
  <1>2. PICK row : row = [command |-> c, seen |-> seen, package |-> p]
    OBVIOUS
  <1>3. /\ Understood(c)
        /\ p # None =>
             package[p] # None /\ package[p].project = Target(c, seen)
        /\ linking' = [linking EXCEPT ![w] = row]
        /\ UNCHANGED <<package, demand, piece, taskStatus, delivered>>
    BY <1>1, <1>2 DEF BeginLink
  <1>4. /\ c.demand \in Demands /\ seen \in Optional(DemandRow)
        /\ c.package \in Packages \cup {None, Keep}
        /\ c.kind \in {"create", "flat", "lines"}
    BY <1>1 DEF LinkCommand, DependentsTyped, LinksTyped
  <1>5. c.package = Keep => seen \in DemandRow /\ seen # None
    BY <1>1, <1>3, <1>4 DEF Understood, Optional
  <1>6. p \in Optional(Packages)
    BY <1>1, <1>4, <1>5 DEF Linked, Optional, DemandRow, PackageLink
  <1>7. row \in LinkingRow
    BY <1>2, <1>4, <1>6 DEF LinkingRow
  <1>8. LinkingTyped(row)
    BY <1>1, <1>2, <1>3 DEF LinkingTyped, Understood
  <1>9. LinksTyped'
    BY <1>3, <1>7 DEF DependentsTyped, LinksTyped
  <1>10. ASSUME NEW v \in Editors, linking'[v] # Unlinked
         PROVE  LinkingTyped(linking'[v])
    BY <1>3, <1>8, <1>10 DEF DependentsTyped, LinksTyped
  <1>11. ASSUME NEW v \in Editors, linking'[v] # Unlinked
         PROVE  LinkingTyped(linking[v])'
    BY <1>3, <1>10, <1>11 DEF LinkingTyped
  <1> QED
    BY <1>3, <1>9, <1>11 DEF DependentsTyped


\* What a transaction writes, although what it has read may have changed.
LEMMA CommitLinkTyped ==
  ASSUME DependentsTyped, NEW w \in Editors, CommitLink(w)
  PROVE  \E d \in Demands, row \in DemandRow :
           demand' = [demand EXCEPT ![d] = row]
  <1>1. PICK c, seen, p : /\ c = linking[w].command
                          /\ seen = linking[w].seen
                          /\ p = linking[w].package
    OBVIOUS
  <1>2. /\ linking[w] # Unlinked
        /\ CASE c.kind = "create" ->
                  /\ Consistent(p, c.task, c.project)
                  /\ \E byLines \in BOOLEAN :
                       demand' = [demand EXCEPT ![c.demand] =
                         [project |-> c.project, byLines |-> byLines,
                          link |-> [package |-> p,
                                    task |-> EffectiveTask(p, c.task)],
                          former |-> {}]]
             [] c.kind = "flat" -> WriteFlat(c, seen, p)
             [] OTHER -> WriteLines(c, seen, p)
    BY <1>1 DEF CommitLink
  <1>3. /\ c \in LinkCommand /\ p \in Optional(Packages)
        /\ seen \in Optional(DemandRow)
    BY <1>1, <1>2 DEF DependentsTyped, LinksTyped, LinkingRow
  <1>4. /\ c.demand \in Demands /\ c.kind \in {"create", "flat", "lines"}
        /\ c.project \in PackageProjects \cup {Keep}
        /\ c.task \in ErpTasks \cup {None, Keep}
    BY <1>3 DEF LinkCommand
  <1>5. /\ c.kind = "create" => Keep \notin {c.project, c.package, c.task}
        /\ c.kind = "lines" => Keep \notin {c.package, c.task}
        /\ c.kind # "create" => demand[c.demand] # None /\ seen # None
        /\ p # None => package[p] # None
    BY <1>1, <1>2 DEF DependentsTyped, LinkingTyped
  <1>6. LinksTyped /\ demand \in [Demands -> Optional(DemandRow)]
    BY DEF DependentsTyped, LinksTyped
  <1>7. CASE c.kind = "create"
    <2>1. PICK byLines \in BOOLEAN :
            demand' = [demand EXCEPT ![c.demand] =
                         [project |-> c.project, byLines |-> byLines,
                          link |-> [package |-> p,
                                    task |-> EffectiveTask(p, c.task)],
                          former |-> {}]]
      BY <1>2, <1>7
    <2>2. PICK task : task = EffectiveTask(p, c.task)
      OBVIOUS
    <2>3. c.project \in PackageProjects /\ c.task \in Optional(ErpTasks)
      BY <1>4, <1>5, <1>7 DEF Optional
    <2>4. task \in Optional(ErpTasks)
      BY <1>3, <1>5, <1>6, <2>2, <2>3, EffectiveFollows
    <2>5. [project |-> c.project, byLines |-> byLines,
           link |-> [package |-> p, task |-> task],
           former |-> {}] \in DemandRow
      BY <1>3, <2>3, <2>4 DEF DemandRow, PackageLink
    <2> QED
      BY <1>4, <2>1, <2>2, <2>5
  <1>8. CASE c.kind # "create"
    <2>1. seen \in DemandRow /\ demand[c.demand] \in DemandRow
      BY <1>3, <1>4, <1>5, <1>6, <1>8 DEF Optional
    <2>2. /\ seen.project \in PackageProjects /\ seen.link \in PackageLink
          /\ seen.former \subseteq PackageLink
          /\ seen.link.task \in Optional(ErpTasks)
          /\ seen.link.package \in Optional(Packages)
      BY <2>1 DEF DemandRow, PackageLink
    <2>3. PICK project : project = Target(c, seen)
      OBVIOUS
    <2>4. project \in PackageProjects
      BY <1>4, <2>2, <2>3 DEF Target
    <2>5. CASE c.kind = "flat"
      <3>1. PICK explicit : explicit = Explicit(c, seen)
        OBVIOUS
      <3>2. explicit \in Optional(ErpTasks)
        BY <1>4, <2>2, <3>1 DEF Explicit, Optional
      <3>3. PICK task : task = EffectiveTask(p, explicit)
        OBVIOUS
      <3>4. task \in Optional(ErpTasks)
        BY <1>3, <1>5, <1>6, <3>2, <3>3, EffectiveFollows
      <3>5. PICK now, before : now = demand[c.demand] /\ before = seen.link
        OBVIOUS
      <3>6. PICK left : left = IF /\ p = None /\ c.package = Keep
                                  /\ c.project = Keep
                               THEN before.package ELSE p
        OBVIOUS
      <3>7. PICK a, b, e :
              /\ a = Updated(now.link.package, before.package, left)
              /\ b = Updated(now.link.task, before.task, task)
              /\ e = Updated(now.project, seen.project, project)
        OBVIOUS
      <3>8. demand' = [demand EXCEPT ![c.demand] =
              [now EXCEPT !.project = e,
                          !.link = [package |-> a, task |-> b]]]
        BY <1>2, <2>3, <2>5, <3>1, <3>3, <3>5, <3>6, <3>7 DEF WriteFlat
      <3>9. /\ now \in DemandRow /\ now.project \in PackageProjects
            /\ now.link.package \in Optional(Packages)
            /\ now.link.task \in Optional(ErpTasks)
            /\ left \in Optional(Packages)
        BY <1>3, <2>1, <2>2, <3>5, <3>6 DEF DemandRow, PackageLink
      <3>10. /\ a \in Optional(Packages) /\ b \in Optional(ErpTasks)
             /\ e \in PackageProjects
        BY <2>4, <3>4, <3>7, <3>9 DEF Updated
      <3>11. [package |-> a, task |-> b] \in PackageLink
        BY <3>10 DEF PackageLink
      <3>12. [now EXCEPT !.project = e,
                         !.link = [package |-> a, task |-> b]] \in DemandRow
        BY <3>9, <3>10, <3>11 DEF DemandRow
      <3> QED
        BY <1>4, <3>8, <3>12
    <2>6. CASE c.kind = "lines"
      <3>1. PICK former \in {seen.former, seen.former \cup {seen.link}} :
              demand' = [demand EXCEPT ![c.demand] =
                           [project |-> Target(c, seen), byLines |-> TRUE,
                            link |-> [package |-> p,
                                      task |-> EffectiveTask(p, c.task)],
                            former |-> former]]
        BY <1>2, <2>6 DEF WriteLines
      <3>2. c.task \in Optional(ErpTasks)
        BY <1>4, <1>5, <2>6 DEF Optional
      <3>3. PICK task : task = EffectiveTask(p, c.task)
        OBVIOUS
      <3>4. task \in Optional(ErpTasks)
        BY <1>3, <1>5, <1>6, <3>2, <3>3, EffectiveFollows
      <3>5. former \subseteq PackageLink
        BY <2>2, <3>1
      <3>6. [project |-> project, byLines |-> TRUE,
             link |-> [package |-> p, task |-> task],
             former |-> former] \in DemandRow
        BY <1>3, <2>4, <3>4, <3>5 DEF DemandRow, PackageLink
      <3> QED
        BY <1>4, <2>3, <3>1, <3>3, <3>6
    <2> QED
      BY <1>4, <1>8, <2>5, <2>6
  <1> QED
    BY <1>7, <1>8

\* A transaction that ends, with or without a write.
LEMMA LinkEndTyped ==
  ASSUME DependentsTyped, NEW w \in Editors, CommitLink(w) \/ AbandonLink(w)
  PROVE  DependentsTyped'
  <1>1. /\ linking' = [linking EXCEPT ![w] = Unlinked]
        /\ UNCHANGED <<package, piece, taskStatus, delivered>>
    BY DEF CommitLink, AbandonLink
  <1>2. \/ demand' = demand
        \/ \E d \in Demands, row \in DemandRow :
             demand' = [demand EXCEPT ![d] = row]
    BY CommitLinkTyped DEF AbandonLink
  <1>3. None \notin DemandRow
    BY PackagesAssumption
  <1>4. /\ demand' \in [Demands -> Optional(DemandRow)]
        /\ \A d \in Demands : demand[d] # None => demand'[d] # None
    BY <1>2, <1>3 DEF DependentsTyped, LinksTyped, Optional
  <1>5. LinksTyped'
    BY <1>1, <1>4 DEF DependentsTyped, LinksTyped
  <1>6. ASSUME NEW v \in Editors, linking'[v] # Unlinked
        PROVE  LinkingTyped(linking[v])'
    <2>1. PICK row : row = linking[v]
      OBVIOUS
    <2>2. linking'[v] = row /\ row # Unlinked
      BY <1>1, <1>6, <2>1 DEF DependentsTyped, LinksTyped
    <2>3. row.command \in LinkCommand /\ LinkingTyped(row)
      BY <2>1, <2>2 DEF DependentsTyped, LinksTyped, LinkingRow
    <2>4. row.command.demand \in Demands
      BY <2>3 DEF LinkCommand
    <2> QED
      BY <1>1, <1>4, <2>2, <2>3, <2>4 DEF LinkingTyped
  <1> QED
    BY <1>1, <1>5, <1>6 DEF DependentsTyped

\* Every step keeps the types.
LEMMA NextPackagesInv ==
  ASSUME PackagesInv, [PackagesNext]_packageVars
  PROVE  PackagesInv'
  <1>1. LoadsInv'
    BY NextLoads DEF PackagesInv
  <1>2. DependentsTyped /\ LinksTyped
    BY DEF PackagesInv, DependentsTyped
  <1>3. ASSUME NEW p \in Packages,
               \/ PackageCommands(p) \/ WeeklyCommands(p)
               \/ \E end \in Optional({"closed", "cancelled"}) :
                    SetTerminal(p, end)
        PROVE  DependentsTyped'
    <2>1. UNCHANGED <<demand, piece, linking, taskStatus, delivered>>
      BY <1>3 DEF PackageCommands, WeeklyCommands, SetTerminal,
         CreatePackage, EditPackage, ReplaceIntervals, ReplaceWeekly
    <2>2. Rewritten(p)
      BY <1>2, <1>3, CommandsRewrite
    <2> QED
      BY <1>2, <2>1, <2>2, RewrittenStays
  <1>4. ASSUME UNCHANGED <<package, demand, piece, linking>>,
               delivered' \subseteq Packages,
               taskStatus' \in
                 [ErpTasks -> {"eligible", "ineligible", "inactive"}]
        PROVE  DependentsTyped'
    BY <1>2, <1>4 DEF DependentsTyped, LinksTyped, LinkingTyped
  <1>5. ASSUME NEW p \in Packages, Deliver(p)
        PROVE  DependentsTyped'
    BY <1>2, <1>4, <1>5 DEF Deliver, DependentsTyped
  <1>6. ASSUME NEW t \in ErpTasks, TaskChanges(t)
        PROVE  DependentsTyped'
    BY <1>2, <1>4, <1>6 DEF TaskChanges, DependentsTyped
  <1>7. ASSUME NEW g \in Pieces, NEW project \in PackageProjects,
               NEW p \in Optional(Packages), LinkPiece(g, project, p)
        PROVE  DependentsTyped'
    <2>1. PICK row : row = [project |-> project, package |-> p]
      OBVIOUS
    <2>2. /\ row \in PieceRow /\ piece' = [piece EXCEPT ![g] = row]
          /\ UNCHANGED <<package, demand, linking, taskStatus, delivered>>
      BY <1>7, <2>1 DEF LinkPiece, PieceRow
    <2>3. LinksTyped'
      BY <1>2, <2>2 DEF LinksTyped, Optional
    <2> QED
      BY <1>2, <2>2, <2>3 DEF DependentsTyped, LinkingTyped
  <1>8. ASSUME NEW w \in Editors, LinkCommands(w)
        PROVE  DependentsTyped'
    BY <1>2, <1>8, BeginLinkTyped, LinkEndTyped DEF LinkCommands
  <1>9. ASSUME UNCHANGED packageVars
        PROVE  DependentsTyped'
    BY <1>2, <1>4, <1>9 DEF packageVars, DependentsTyped
  <1>10. DependentsTyped'
    BY <1>3, <1>5, <1>6, <1>7, <1>8, <1>9 DEF PackagesNext
  <1> QED
    BY <1>1, <1>10 DEF PackagesInv

\* Imported packages, and nothing that refers to them.
LEMMA InitPackagesInv == PackagesInit => PackagesInv
  <1> SUFFICES ASSUME PackagesInit PROVE PackagesInv
    OBVIOUS
  <1>1. LinksTyped
    BY InitLinksInv DEF LinksInv
  <1>2. DependentsTyped
    BY <1>1 DEF PackagesInit, DependentsTyped
  <1> QED
    BY <1>2, InitLoads DEF PackagesInv


-----------------------------------------------------------------------------
(* Types of the whole planning.                                            *)

\* What is there in every part.
PlanningInv == ReservationInv /\ PlanTyped /\ ScopesTyped /\ PackagesInv

\* The moves of packages that a run makes are commands of packages.
LEMMA MovesAreCommands ==
  ASSUME LinksMove \/ LoadsMove
  PROVE  PackagesNext
  <1>1. None \in Optional(Windows) /\ None \in Optional(Amounts)
        /\ None \in Optional(ErpTasks) /\ 4 \in Optional(Amounts)
    BY MCPackagesAssumption DEF Optional
  <1>2. ASSUME NEW project \in PackageProjects, NEW task \in ErpTasks,
               CreatePackage(pack1, project, task, None, None)
        PROVE  PackagesNext
    <2>1. task \in Optional(ErpTasks) /\ task # None
      BY PackagesAssumption DEF Optional
    <2>2. PackageCommands(pack1)
      BY <1>1, <1>2, <2>1 DEF PackageCommands
    <2> QED
      BY <2>2, MCPackagesAssumption DEF PackagesNext
  <1>3. ASSUME NEW project \in PackageProjects,
               NEW task \in Optional(ErpTasks),
               EditPackage(pack1, project, task, None, None)
        PROVE  PackagesNext
    <2>1. PackageCommands(pack1)
      BY <1>1, <1>3 DEF PackageCommands
    <2> QED
      BY <2>1, MCPackagesAssumption DEF PackagesNext
  <1>4. ASSUME NEW w \in Editors,
               \/ \E c \in MCLinks : BeginLink(w, c)
               \/ CommitLink(w)
               \/ AbandonLink(w)
        PROVE  PackagesNext
    BY <1>4 DEF PackagesNext, LinkCommands, MCLinks
  <1>5. ASSUME NEW g \in Pieces, NEW project \in PackageProjects,
               NEW p \in {None, pack1}, LinkPiece(g, project, p)
        PROVE  PackagesNext
    BY <1>5, MCPackagesAssumption DEF PackagesNext, Optional
  <1>6. ASSUME Deliver(pack1) \/ TaskChanges(e1)
        PROVE  PackagesNext
    BY <1>6, MCPackagesAssumption DEF PackagesNext
  <1>7. CASE LinksMove
    BY <1>2, <1>3, <1>4, <1>5, <1>6, <1>7 DEF LinksMove
  <1>8. ASSUME NEW p \in Packages, NEW dates \in Optional(Windows),
               NEW amount \in Optional(Amounts),
               EditPackage(p, h1, None, dates, amount)
        PROVE  PackagesNext
    <2>1. PackageCommands(p)
      BY <1>1, <1>8, MCPackagesAssumption DEF PackageCommands
    <2> QED
      BY <2>1 DEF PackagesNext
  <1>9. ASSUME NEW p \in Packages, NEW dates \in Optional(Windows),
               NEW layout \in MCLayouts, NEW rows \in Laid(p, layout),
               ReplaceIntervals(p, h1, None, dates, 4, rows)
        PROVE  PackagesNext
    <2>1. layout \in Layouts
      BY MCPackagesAssumption
    <2>2. PackageCommands(p)
      BY <1>1, <1>9, <2>1, MCPackagesAssumption DEF PackageCommands
    <2> QED
      BY <2>2 DEF PackagesNext
  <1>10. CASE LoadsMove
    <2>1. CASE \E p \in Packages : WeeklyCommands(p)
      BY <2>1 DEF PackagesNext
    <2>2. CASE \E state \in Optional({"closed", "cancelled"}) :
                 SetTerminal(pack1, state)
      BY <2>2, MCPackagesAssumption DEF PackagesNext
    <2> QED
      BY <1>8, <1>9, <1>10, <2>1, <2>2 DEF LoadsMove
  <1> QED
    BY <1>7, <1>10

\* Every part keeps what it needs, and the others stay as they are.
LEMMA NextPlanningInv ==
  PlanningInv /\ [PlanningNext]_planningVars => PlanningInv'
  <1> SUFFICES ASSUME PlanningInv, [PlanningNext]_planningVars
               PROVE  PlanningInv'
    OBVIOUS
  <1>1. /\ [AssetNext]_assetVars /\ [PlanNext]_planVars
        /\ [ScopesNext]_scopeVars /\ [PackagesNext]_packageVars
    <2>1. CASE AssetNext /\ UNCHANGED <<planVars, scopeVars, packageVars>>
      BY <2>1
    <2>2. CASE PlanNext /\ UNCHANGED <<assetVars, scopeVars, packageVars>>
      BY <2>2
    <2>3. CASE AuthorityMoves
      BY <2>3 DEF AuthorityMoves
    <2>4. CASE LinksMove \/ LoadsMove
      <3>1. UNCHANGED <<assetVars, planVars, scopeVars>>
        BY <2>4 DEF LinksMove, LoadsMove, OthersRest
      <3> QED
        BY <2>4, <3>1, MovesAreCommands
    <2>5. CASE UNCHANGED planningVars
      BY <2>5 DEF planningVars
    <2> QED
      BY <2>1, <2>2, <2>3, <2>4, <2>5 DEF PlanningNext
  <1>2. ReservationInv'
    BY <1>1, NextReservationInv DEF PlanningInv
  <1>3. PlanTyped'
    BY <1>1, NextPlanTyped DEF PlanningInv
  <1>4. ScopesTyped'
    BY <1>1, NextScopesTyped DEF PlanningInv
  <1>5. PackagesInv'
    BY <1>1, NextPackagesInv DEF PlanningInv
  <1> QED
    BY <1>2, <1>3, <1>4, <1>5 DEF PlanningInv

\* Every row of the planning, its assets, shifts, scopes and packages, keeps
\* its type, for any number of each.
THEOREM PlanningTypes == PlanningSpec => []PlanningTypeOK
  <1>1. PlanningInit => PlanningInv
    BY InitReservationInv, InitPlanTyped, InitScopesTyped, InitPackagesInv
       DEF PlanningInit, PlanningInv
  <1>2. PlanningInv /\ [PlanningNext]_planningVars => PlanningInv'
    BY NextPlanningInv
  <1>3. PlanningInv => PlanningTypeOK
    BY ScopesTypes, InvPackages
       DEF PlanningInv, ReservationInv, PlanTyped, PlanningTypeOK
  <1> QED
    BY <1>1, <1>2, <1>3, PTL DEF PlanningSpec

==============================================================================
