----------------------------- MODULE MCPlanning -----------------------------
(***************************************************************************)
(* Instances for checking what may become of the plan: the reservation of  *)
(* assets, the shifts people decide on segments, the authority to assign   *)
(* assets, and the work packages that segments and requests refer to.      *)
(* These parts only share days, people and projects, so a run explores     *)
(* them side by side: each initial state picks the part that moves, the    *)
(* others stay as they started.                                            *)
(***************************************************************************)
EXTENDS AssetReservation, ShiftPlan, ApprovalScopes, WorkPackages, TLC

CONSTANTS w1, t1, k, p1, r1, r2, x1, x2, u1, j1, c1, e1, h1, pack1, pack2,
          Focuses

VARIABLE focus

MCDays == 1 .. 2

MCTypes == [a \in Assets |-> t1]
MCSkills == [r \in Resources |-> IF r = w1 THEN {k} ELSE {}]
MCSegments == [g \in Segments |-> [project |-> p1, span |-> <<1, 2>>,
                                   resource |-> w1, status |-> "open"]]

\* Two periods of a request that one resource works, and an ad hoc segment.
MCFirstApproval == [g \in PlanSegments |-> [window |-> <<2, 2>>, hours |-> 5]]
MCSameAs == [g \in {r2} |-> r1]
MCApprovals == {[window |-> <<1, 2>>, hours |-> 5],
                [window |-> <<2, 2>>, hours |-> 3]}

\* Accounts that may approve and plan, that may only plan, and inactive ones.
MCAccounts ==
  {[active |-> active, approves |-> approves, plans |-> TRUE] :
     active \in BOOLEAN, approves \in BOOLEAN}

MCTaskClass == [j \in {j1} |-> c1]

\* A scope with an approver, mapped or not to the type of the unit, and one
\* without approvers mapped to the task.
MCScopes ==
  /\ scope[x1].approvers = {u1} /\ scope[x1].subjects \in {{}, {t1}}
  /\ scope[x2].approvers = {} /\ scope[x2].subjects = {j1}
  /\ typeOf = [unit \in Units |-> t1]

\* What a command asks for is not yet so.
MCNew(c) ==
  CASE c.kind = "active" -> scope[c.scope].active # c.on
    [] c.kind = "approver" -> (c.user \in scope[c.scope].approvers) # c.on
    [] c.kind = "mapping" -> (c.subject \in scope[c.scope].subjects) # c.on
    [] c.kind = "unitApprover" -> (c.user \in unitApprovers[c.unit]) # c.on
    [] c.kind = "type" -> typeOf[c.unit] # c.type
    [] OTHER -> TRUE

\* Transactions are alike: the first that rests is the next to begin.
AuthorityMoves ==
  /\ focus = "authority"
  /\ ScopesNext
  /\ \A w \in Clerks :
       clerk[w] = AtRest /\ clerk'[w] # AtRest =>
         /\ MCNew(clerk'[w].command)
         /\ \A v \in Clerks : v < w => clerk[v] # AtRest
  /\ UNCHANGED <<assetVars, planVars, packageVars, focus>>

-----------------------------------------------------------------------------
(* Work packages: what refers to one of them, and the hours of both.       *)

MCProjectOf == [t \in ErpTasks |-> h1]
MCWindows == {<<1, 4>>, <<2, 3>>}

Laying(from, to, hours) == [from |-> from, to |-> to, hours |-> hours]
MCLayouts == {<<>>, <<Laying(2, 3, 2)>>, <<Laying(1, 2, 1), Laying(2, 4, 2)>>}

MCLinks ==
  {c \in LinkCommand : /\ c.kind = "create" => c.project = h1
                       /\ c.task \in {e1, None, Keep}}

\* The packages, hours and layouts that the moves below mention.
ASSUME MCPackagesAssumption ==
  /\ pack1 \in Packages /\ h1 \in PackageProjects /\ e1 \in ErpTasks
  /\ 4 \in Amounts /\ MCLayouts \subseteq Layouts

OthersRest == UNCHANGED <<assetVars, planVars, scopeVars, focus>>

\* A line is replaced once.
LinksMove ==
  /\ focus = "links"
  /\ \/ \E project \in PackageProjects, task \in ErpTasks :
          CreatePackage(pack1, project, task, None, None)
     \/ \E project \in PackageProjects, task \in Optional(ErpTasks) :
          EditPackage(pack1, project, task, None, None)
     \/ \E w \in Editors :
          \/ \E c \in MCLinks : BeginLink(w, c)
          \/ CommitLink(w) /\ \A d \in Demands :
               demand'[d] # None => Cardinality(demand'[d].former) <= 1
          \/ AbandonLink(w)
     \/ \E g \in Pieces, project \in PackageProjects, p \in {None, pack1} :
          LinkPiece(g, project, p)
     \/ Deliver(pack1)
     \/ TaskChanges(e1)
  /\ OthersRest

LoadsMove ==
  /\ focus = "loads"
  /\ \/ \E p \in Packages, dates \in Optional(Windows) :
          \/ \E amount \in Optional(Amounts) :
               EditPackage(p, h1, None, dates, amount)
          \/ \E layout \in MCLayouts : \E rows \in Laid(p, layout) :
               ReplaceIntervals(p, h1, None, dates, 4, rows)
     \/ \E p \in Packages : WeeklyCommands(p)
     \/ \E state \in Optional({"closed", "cancelled"}) :
          SetTerminal(pack1, state)
  /\ OthersRest

\* Imported packages: the tasks of some are not known yet.
MCPackages ==
  IF focus = "links" THEN package[pack2] = None
  ELSE /\ package[pack1] # None /\ package[pack1].project = h1
       /\ package[pack2] = package[pack1]

-----------------------------------------------------------------------------
Symmetric == Permutations(Shifts) \cup Permutations(Needs)
               \cup Permutations(Quarts)

planningVars == <<assetVars, planVars, scopeVars, packageVars, focus>>

NoShift == [q \in Shifts |-> None]

PlanningInit ==
  /\ focus \in Focuses
  /\ AssetInit /\ (focus # "assets" => shifts = NoShift)
  /\ PlanInit
  /\ ScopesInit /\ MCScopes
  /\ focus # "authority" => scope[x1].subjects = {}
  /\ PackagesInit /\ MCPackages

PlanningNext ==
  \/ focus = "assets" /\ AssetNext
     /\ UNCHANGED <<planVars, scopeVars, packageVars, focus>>
  \/ focus = "shifts" /\ PlanNext
     /\ UNCHANGED <<assetVars, scopeVars, packageVars, focus>>
  \/ AuthorityMoves
  \/ LinksMove \/ LoadsMove

\* Every variable of every part has its type.
PlanningTypeOK == AssetTypeOK /\ PlanTypeOK /\ ScopesTypeOK /\ PackagesTypeOK

PlanningSpec == PlanningInit /\ [][PlanningNext]_planningVars
=============================================================================
