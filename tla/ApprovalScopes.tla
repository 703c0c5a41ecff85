---------------------------- MODULE ApprovalScopes ----------------------------
(***************************************************************************)
(* Approval scopes: who may approve a line and who may assign an asset.    *)
(*                                                                         *)
(* A scope is mapped to tasks, resource classes and asset types, and has   *)
(* approvers; a unit may have approvers of its own.  Lines are routed when *)
(* a request is submitted; an asset is assigned under the authority that   *)
(* is current when the command commits (ADR-026).  Commands that change    *)
(* this authority hold the planning row, as assignments do, so that none   *)
(* commits between the check of an assignment and its commit.              *)
(*                                                                         *)
(* Tasks, classes, resources and the catalogue are active and exist; what  *)
(* is not there blocks a line.  Labels and audits are left out.  A role is *)
(* the permissions it gives.                                               *)
(***************************************************************************)
EXTENDS Integers, FiniteSets

CONSTANTS
  Scopes, Users, Units, UnitTypes,
  LineTasks, ResourceClasses,
  TaskClass,    \* the class of each task
  Nothing,
  Clerks,       \* transactions that may overlap
  NewAccounts,  \* what an administrator may make of an account
  Racing,       \* TRUE: an account may become an approver while it is changed
  MaxEdits      \* bound on the commands

Subjects == LineTasks \cup ResourceClasses \cup UnitTypes

ASSUME ScopesAssumption ==
  /\ TaskClass \in [LineTasks -> ResourceClasses \cup {Nothing}]
  /\ Nothing \notin Subjects \cup Clerks
  /\ Racing \in BOOLEAN /\ MaxEdits \in Nat
  /\ IsFiniteSet(Clerks)
  /\ NewAccounts \subseteq [active: BOOLEAN, approves: BOOLEAN, plans: BOOLEAN]

VARIABLES
  scope,          \* ApprovalScope with its approvers and mappings
  account,        \* AppUser
  typeOf,         \* Asset.asset_type_id
  unitApprovers,  \* AssetApprover
  planRow,       \* PlanningMutationState.version
  holder,         \* who holds the planning row until it commits
  clerk,          \* the transactions under way
  edits

scopeVars == <<scope, account, typeOf, unitApprovers, planRow, holder, clerk,
               edits>>

Scope == [active: BOOLEAN, version: 1 .. MaxEdits + 1,
          approvers: SUBSET Users, subjects: SUBSET Subjects]
Account == [active: BOOLEAN, approves: BOOLEAN, plans: BOOLEAN]

Commands ==
  [kind: {"active"}, scope: Scopes, on: BOOLEAN]
  \cup [kind: {"approver"}, scope: Scopes, user: Users, on: BOOLEAN]
  \cup [kind: {"mapping"}, scope: Scopes, subject: Subjects, on: BOOLEAN]
  \cup [kind: {"unitApprover"}, unit: Units, user: Users, on: BOOLEAN]
  \cup [kind: {"type"}, unit: Units, type: UnitTypes]
  \cup [kind: {"account"}, user: Users, account: NewAccounts]
  \cup [kind: {"assign"}, unit: Units, user: Users]

ScopeKinds == {"active", "approver", "mapping"}

AtRest == [at |-> "rest"]

ScopesTypeOK ==
  /\ scope \in [Scopes -> Scope]
  /\ account \in [Users -> Account]
  /\ typeOf \in [Units -> UnitTypes]
  /\ unitApprovers \in [Units -> SUBSET Users]
  /\ planRow \in 1 .. MaxEdits + 1
  /\ holder \in Clerks \cup {Nothing}
  /\ \A w \in Clerks :
       \/ clerk[w] = AtRest
       \/ /\ clerk[w].at \in {"decided", "acquired", "checked"}
          /\ clerk[w].command \in Commands
          /\ holder = w <=> clerk[w].at # "decided"
  /\ edits \in 0 .. MaxEdits

-----------------------------------------------------------------------------
(* Who has authority.                                                      *)

Valid(u) == account[u].active /\ account[u].approves

Mapped(subject) == {x \in Scopes : subject \in scope[x].subjects}

\* resolve_line_approvers and resolve_asset_line_approvers: one scope, and
\* active, or nobody.
Resolved(candidates, own) ==
  IF \E x \in candidates : candidates = {x} /\ scope[x].active
  THEN {u \in own \cup UNION {scope[x].approvers : x \in candidates} : Valid(u)}
  ELSE {}

\* Inactive scopes count where no other is mapped, and block the line.
Candidates(subject) ==
  LET active == {x \in Mapped(subject) : scope[x].active}
  IN  IF active # {} THEN active ELSE Mapped(subject)

WorkforceLine == [class: ResourceClasses \cup {Nothing},
                  task: LineTasks \cup {Nothing},
                  proposed: ResourceClasses \cup {Nothing}]

\* A class that is asked for overrides the scope of the task, which overrides
\* the class of the resource that is proposed, and this the task's.
RoutedBy(line) ==
  CASE line.class # Nothing -> line.class
    [] line.class = Nothing /\ Mapped(line.task) # {} -> line.task
    [] OTHER -> IF line.proposed # Nothing THEN line.proposed
                ELSE IF line.task # Nothing THEN TaskClass[line.task]
                ELSE Nothing

WorkforceApprovers(line) == Resolved(Candidates(RoutedBy(line)), {})

AssetApprovers(unit) == Resolved(Candidates(typeOf[unit]), unitApprovers[unit])

\* _require_assignment_authority, which counts inactive scopes always.
MayAssign(u, unit) ==
  /\ account[u].active /\ account[u].plans
  /\ u \in Resolved(Mapped(typeOf[unit]), unitApprovers[unit])

-----------------------------------------------------------------------------
(* Commands.  Each decides on what it reads whether it needs the planning. *)

ControlsAssets(x) == scope[x].subjects \cap UnitTypes # {}

\* _controls_asset_authority
HasAssetAuthority(u) ==
  \/ \E unit \in Units : u \in unitApprovers[unit]
  \/ \E x \in Scopes : u \in scope[x].approvers /\ ControlsAssets(x)

Guarded_ScopesFree(c) ==
  CASE c.kind \in {"active", "approver"} -> FALSE
    [] c.kind = "mapping" -> c.subject \in UnitTypes
    [] c.kind = "account" -> HasAssetAuthority(c.user)
    [] OTHER -> TRUE

Guarded(c) ==
  CASE c.kind \in {"active", "approver"} -> ControlsAssets(c.scope)
    [] c.kind = "mapping" -> c.subject \in UnitTypes
    [] c.kind = "account" -> HasAssetAuthority(c.user)
    [] OTHER -> TRUE

\* The version of the scope is what the client read.
Ask(w) ==
  /\ clerk[w] = AtRest /\ edits < MaxEdits
  /\ \E c \in Commands :
       /\ c.kind = "approver" /\ c.on => Valid(c.user)
       /\ c.kind = "account" => account[c.user] # c.account
       /\ clerk' = [clerk EXCEPT ![w] =
            [at |-> "decided", command |-> c, seen |-> planRow,
             guarded |-> Guarded(c),
             version |-> IF c.kind \in ScopeKinds
                         THEN scope[c.scope].version ELSE 0]]
  /\ edits' = edits + 1
  /\ UNCHANGED <<scope, account, typeOf, unitApprovers, planRow, holder>>

Acquire(w) ==
  /\ clerk[w].at = "decided" /\ clerk[w].guarded
  /\ holder = Nothing /\ planRow = clerk[w].seen
  /\ holder' = w
  /\ clerk' = [clerk EXCEPT ![w].at = "acquired"]
  /\ UNCHANGED <<scope, account, typeOf, unitApprovers, planRow, edits>>

CheckAuthority(w) ==
  /\ clerk[w].at = "acquired" /\ clerk[w].command.kind = "assign"
  /\ MayAssign(clerk[w].command.user, clerk[w].command.unit)
  /\ clerk' = [clerk EXCEPT ![w].at = "checked"]
  /\ UNCHANGED <<scope, account, typeOf, unitApprovers, planRow, holder, edits>>

\* What w holds is released, and the planning moved if it held it.
Committed(w) ==
  /\ clerk[w].at = IF clerk[w].guarded THEN "acquired" ELSE "decided"
  /\ clerk' = [clerk EXCEPT ![w] = AtRest]
  /\ planRow' = IF holder = w THEN planRow + 1 ELSE planRow
  /\ holder' = IF holder = w THEN Nothing ELSE holder
  /\ UNCHANGED edits

With(set, element, on) == IF on THEN set \cup {element} ELSE set \ {element}

Edited(row, c) ==
  CASE c.kind = "active" -> [row EXCEPT !.active = c.on]
    [] c.kind = "approver" ->
         [row EXCEPT !.approvers = With(@, c.user, c.on)]
    [] OTHER -> [row EXCEPT !.subjects = With(@, c.subject, c.on)]

\* _acquire_scope_version, then the change.
CommitScope(w) ==
  /\ clerk[w] # AtRest /\ clerk[w].command.kind \in ScopeKinds
  /\ LET c == clerk[w].command IN
     /\ scope[c.scope].version = clerk[w].version
     /\ scope' = [scope EXCEPT ![c.scope] =
                    [Edited(scope[c.scope], c) EXCEPT !.version = @ + 1]]
  /\ Committed(w)
  /\ UNCHANGED <<account, typeOf, unitApprovers>>

\* set_approver and the change of type of a unit without reservation.
CommitUnit(w) ==
  /\ clerk[w] # AtRest
  /\ LET c == clerk[w].command IN
     \/ /\ c.kind = "unitApprover"
        /\ c.on => Valid(c.user)
        /\ unitApprovers' =
             [unitApprovers EXCEPT ![c.unit] = With(@, c.user, c.on)]
        /\ UNCHANGED typeOf
     \/ /\ c.kind = "type"
        /\ typeOf' = [typeOf EXCEPT ![c.unit] = c.type]
        /\ UNCHANGED unitApprovers
  /\ Committed(w)
  /\ UNCHANGED <<scope, account>>

\* update_account: the row is written as it was asked for.
CommitAccount(w) ==
  /\ clerk[w] # AtRest /\ clerk[w].command.kind = "account"
  /\ LET c == clerk[w].command IN
     /\ Racing \/ clerk[w].guarded \/ ~HasAssetAuthority(c.user)
     /\ account' = [account EXCEPT ![c.user] = c.account]
  /\ Committed(w)
  /\ UNCHANGED <<scope, typeOf, unitApprovers>>

CommitAssignment(w) ==
  /\ clerk[w].at = "checked"
  /\ clerk' = [clerk EXCEPT ![w] = AtRest]
  /\ planRow' = planRow + 1 /\ holder' = Nothing
  /\ UNCHANGED <<scope, account, typeOf, unitApprovers, edits>>

\* A command that is refused, finds a version moved, or fails.
RollBack(w) ==
  /\ clerk[w] # AtRest
  /\ clerk' = [clerk EXCEPT ![w] = AtRest]
  /\ holder' = IF holder = w THEN Nothing ELSE holder
  /\ UNCHANGED <<scope, account, typeOf, unitApprovers, planRow, edits>>

ScopesNext ==
  \E w \in Clerks :
    \/ Ask(w) \/ Acquire(w) \/ CheckAuthority(w)
    \/ CommitScope(w) \/ CommitUnit(w) \/ CommitAccount(w)
    \/ CommitAssignment(w) \/ RollBack(w)

\* A scope that controls assets, and another one.
ScopesInit ==
  /\ scope \in [Scopes -> [active: {TRUE}, version: {1},
                           approvers: SUBSET Users, subjects: SUBSET Subjects]]
  /\ account = [u \in Users |->
                  [active |-> TRUE, approves |-> TRUE, plans |-> TRUE]]
  /\ typeOf \in [Units -> UnitTypes]
  /\ unitApprovers = [unit \in Units |-> {}]
  /\ planRow = 1 /\ holder = Nothing /\ edits = 0
  /\ clerk = [w \in Clerks |-> AtRest]

ScopesSpec == ScopesInit /\ [][ScopesNext]_scopeVars

-----------------------------------------------------------------------------
\* ADR-026: an assignment that was found authorised still is when it commits,
\* although scopes, mappings, units and accounts change meanwhile.
AssignmentIsAuthorised ==
  \A w \in Clerks :
    clerk[w].at = "checked" =>
      MayAssign(clerk[w].command.user, clerk[w].command.unit)

\* Who may assign a unit directly could also approve a line that proposes it,
\* and a line whose task has scopes is approved by nobody else's, unless its
\* class is asked for (ADR-010).
RoutingAgrees ==
  /\ \A unit \in Units, u \in Users :
       MayAssign(u, unit) => u \in AssetApprovers(unit)
  /\ \A line \in WorkforceLine :
       line.class = Nothing /\ Mapped(line.task) # {} =>
         WorkforceApprovers(line) \subseteq
           UNION {scope[x].approvers : x \in Mapped(line.task)}

AuthorityHolds == AssignmentIsAuthorised /\ RoutingAgrees
=============================================================================
