# RessourcePlanner in TLA+

A verification project for the server of RessourcePlanner: TLA+ models of its
workflows, of the plan they maintain and of the command infrastructure under
them, TLC configurations that check them on small instances, and TLAPS proofs of
what matters most for every instance. Paths below are relative to `src/`.

## 1. The system

RessourcePlanner plans people, equipment and vehicles. A *workforce request*
(`WorkforceRequest`, "demande") is drafted, submitted, approved line by line by
the approvers of its approval scopes, and materialised into *resource
requirements* (segments) whose *quarts* (shifts) a planning engine regenerates
globally. The server is FastAPI over SQLAlchemy; a command is one HTTP request,
one session and one database transaction (`app/infrastructure/sql/session.py:53`,
`app/server/http.py:149`). There is no isolation level set, no ORM version
column, and row locks are taken by updates: `with_for_update` appears in the
break glass path and lock hints where verification documents are read. Commands run under READ COMMITTED and protect themselves by compare-and-set
(CAS) updates, where they do.

### 1.1 Components

| component | state | operations | hard behaviour | what makes it correct | status |
|---|---|---|---|---|---|
| Workforce request lifecycle (`demand_service.py`, `demand_repository.py`) | status, `aggregate_version`, content of the request row | create, submit, request correction, modify, replace periods, extend window, select alternative, cancel | some writes are CAS, others blind; guards evaluated on a stale read | a terminal status is terminal; what is approved is what was authorised | modelled but for the emergency marker; proved for one transaction at a time |
| Approval cycles and quorum (`approval_cycles.py`, `approval_voting.py`, repository) | cycles, requirements, frozen approvers, decisions | open, vote, approve all, invalidate, refresh, complete | no constraint forbids two open cycles; routing moves during a vote | one open cycle; completion by frozen approvers of every line | modelled, proved |
| Approval routing and scopes (`approval_scopes.py`, `approval_routing.py`) | scopes, approvers, mappings, approvers of units, accounts | edit a scope, a unit or an account; route a line; assign an asset | authority changes between a check and a commit | an assignment commits under authority that is current | modelled, proved |
| Approved envelope and revisions (`approval_envelope.py`, revision repository) | immutable revisions, active reference | capture, bind, activate; compare candidate | two approvals race for one predecessor | a revision comes from one completed cycle and never changes | modelled, proved for subjects, with the line of revisions; and entry by entry in `PlanMaterialisation` |
| Plan materialisation (`period_approved_sync.py`, `request_plan_preparation.py`, `command_adapters.py`) | requirements and the revision they are bound to | sync approved, resync after a choice, cancel materialised, rebuild | two matchings of requirements with periods; partial failure | the plan is what the active revision and the choices on it authorise | modelled, proved |
| Operational choices and confirmation | selected alternative, budgets, confirmation | select, confirm | choices move while a candidate waits | as materialisation | modelled, proved with it |
| Planning engine (`planning_engine.py` and the snapshot, profiles and rules it uses) | none (pure); the shifts a rebuild stores | rebuild | arithmetic of hours and days, locked shifts of others | capacity is respected, no hour is lost, a target gives way to capacity only | modelled, proved |
| Manual allocation, segments, SAME_AS (`composite_allocation.py`, `segment_repository.py`, `overallocation.py`, overrides) | locked shifts, windows, planned hours, window overrides | create, move, split, copy, release, extend, patch, assign | a sequence of decisions, each legal, meets a new approval | each segment is as somebody authorised; locked decisions survive | modelled, proved; draft validation of chains left |
| Asset reservation and assignment (`asset_service.py`, `asset_plan.py`) | needs of five origins, reservations, operators, unavailability, catalogue | reserve, release, designate, synchronise, and every command on shifts and segments that carries a reservation along | rules kept in several services | no asset twice at once; a reservation is where its owner is | modelled, proved |
| Cancellation intent (`demand_cancellation.py`) | NONE, PENDING, REJECTED, ACCEPTED; id of the intent | ask, accept, reject, cancel directly | decision races with decision, vote and edition | an intent is decided once; accepted means no plan | modelled |
| Planning mutation version (`planning_version.py`) | one row | acquire (CAS, row lock held to commit) | lost race, savepoint rollback, re-entrance | what a command decided on is current at commit | modelled, session cache left |
| Command idempotency (`idempotency.py`, both layers) | receipts unique per actor, scope, key | replay or execute | retry races first attempt | one effect per key, every retry told it | modelled, proved |
| Business contact of a demand | contact of a demand | override | blind write that reopens approval | as cycles | the override is modelled |
| Delivery, verification and story closure | plans, stories, decisions, executors, executions under two versions | create, transition, estimate, complete, close historically, assign, record, retest | a closure decides on rows of the other version | DONE only with a decision; an archived plan is frozen; a retest is answered by a later execution | modelled, proved; evidence left |
| Communications | batches, deliveries, drafts | prepare, approve, send, draft, cancel, confirm | a message leaves while its transaction is open | every message that left is recorded or was lost by a crash or a failed answer | modelled, proved; earlier service by technician left |
| Projects, tasks and ERP synchronisation | catalogue rows, runs, the executor of the process | launch, run, recover, synchronise a project, import | stops and crashes between transactions, pages of a moving list | a row keeps its task; a run that was launched ends | tasks and runs modelled, proved; employees and users left |
| Work packages and loads | packages, intervals, weekly loads, links of demands, segments and delivery plans | create, edit, replace intervals or weeks, close, link | a dependent is added while the package moves | links follow packages; hours stay laid out | modelled, proved |
| Emergency override | audit marker | mark, clear | none since it no longer materialises | - | not modelled |
| Resources, classes, competencies, contacts, managers, responsibility | reference data | CRUD under a version | little | - | not modelled |
| Identity, sessions, break glass | principals, sessions | authenticate | - | - | accounts as authority only |
| Read models, HTTP routes, web frontend, dev cockpit, migrations, tools | none of the domain | reads, transport, tooling | - | - | not modelled |

`PROJECT.json` has the sources of each, and section 6 the reasons for what is
left out.

### 1.2 How they interact

A command handler calls an application service, the service reads the request
row through its repository, asserts the workflow policy on what it read, and
writes. A vote or a direct approval goes on: planning CAS, request CAS, decisions,
and, when the quorum is complete, capture of a revision, materialisation, binding,
activation, global rebuild and completion of the cycle, all in one transaction.
Commands on shifts, segments and assets take the same planning CAS, decide, and
end with the same rebuild. The interaction is through shared rows, not messages:
the request row, its cycle, the planning row, the receipts, the versions of
delivery, verification and packages. Two things outlive a transaction: a message
that was sent while it was open, and a run of the ERP synchronisation, which a
thread of the process carries through many transactions.

### 1.3 What is hard

- A command decides on a row it read without a lock. `submit`, `request
  correction`, `modify` without lines, `cancel` without a version and the contact
  override then write `read version + 1` blindly: they overwrite what committed in
  between and can set the version *back*, so that a CAS elsewhere matches again.
- Only code holding the row looks for an OPEN cycle; no constraint forbids two.
- Approvers are frozen when a cycle opens, while the routing changes under it.
- The planning CAS must precede every decision about the plan; some reads precede
  it (a PATCH of a segment, a direct cancellation).
- One rule is kept in several places: what pairs a requirement with a period, who
  may hold an asset, where a locked shift may lie.
- A rebuild deletes and recreates everybody's shifts and must keep what people
  decided.
- A retry with the idempotency key of a command that is still running.
- The response leaves before the commit, and a mail before the record of it.
- A run of the synchronisation that dies must not bar the next one.

The `hazards` list of `PROJECT.json` has each one at its line.

## 2. The modules

| module | what it is |
|---|---|
| `RequestApproval` | request rows, cycles, revisions, routing, planning version and overlapping transactions |
| `MCRequestApproval` | its TLC instances (six cfgs) |
| `RequestApprovalProofs`, `RequestPlanProofs` | its theorems: cycles, quorum and revisions; the materialised plan, the line of revisions, what a status promises |
| `OnceOnly` | abstract: what an idempotency key promises |
| `CommandReceipts` | receipts, savepoint, planning CAS with its lock, response, commit, crash |
| `ErpSynchronisation` | the task catalogue, the runs that synchronise it and the process that carries them |
| `MCServer` | instances of the two (two cfgs) |
| `ServerProofs` | their theorems, with the refinement of `OnceOnly` |
| `PlanningDays` | days, windows, people |
| `AssetReservation` | needs, reservations and operators of assets, with their shifts and segments |
| `ShiftPlan` | segments, locked shifts, overrides, budgets and rebuild |
| `ApprovalScopes` | who may approve a line or assign an asset, while that changes |
| `WorkPackages` | packages, their hours and what refers to them |
| `MCPlanning` | instances of the four (two cfgs) |
| `PlanningProofs` | theorems of `AssetReservation`, `ShiftPlan` and `ApprovalScopes` |
| `PackagesProofs` | theorems of `WorkPackages`, and the types of `MCPlanning` as a whole |
| `Records` | what services with a version column have in common |
| `StoryVerification` | delivery plans, stories, decisions and executions |
| `PlanMaterialisation` | candidate, revision and requirements, entry by entry |
| `Communications` | batches of messages and what reaches the outside |
| `Sorting` | the elements of a finite set in an order, without recursion |
| `PlanningEngine` | from a snapshot to the stored shifts |
| `MCLifecycles` | instances of the four (two cfgs) |
| `LifecyclesProofs` | theorems of `StoryVerification`, `Communications` and `PlanMaterialisation`, and the types of `MCLifecycles` as a whole |
| `EngineProofs` | theorems of `PlanningEngine` |
| `FiniteFacts` | lemmas the proofs share: induction on numbers and finite sets, ranks, sums |

The three composing modules `MCServer`, `MCPlanning` and `MCLifecycles` hold
parts that share people, days or the process, and no rows that two of them write.
A variable `focus`, fixed by the initial state, names the part that moves; the
others stay as they started. A run then explores the sum of the parts' states and
not the product, and every property is asked of each. Parts that do share rows
are one module: the planning version with the receipts, shifts and segments with
the assets they carry, stories with their verification.

An operator `Name_Error` just before `Name` is the definition as a plausible error
would have it. No action uses it; replacing `Name` by it shows which property
notices the error.

### 2.1 RequestApproval

| variable | code |
|---|---|
| `request[r]` | `WorkforceRequest`: status, `aggregate_version`, cancellation columns; `subject` is what the subject fingerprint hashes, `active` the active approval reference, `plan` the revision its requirements are bound to, `decisions` whether its quarts are absent, generated or locked by a person |
| `cycle[c]` | `RequestApprovalCycle` with its requirements, frozen approvers and decisions |
| `revision[v]` | `RequestApprovalRevision` |
| `routing` | what the scopes resolve now |
| `planningVersion` | `PlanningMutationState.version` |
| `tx[w]` | the transaction a worker runs: command, what it read, what it targets |

A transaction is two steps. `Begin` (and `BeginVote`) takes the reads and the
guards of the policy table `ActionStatuses`, which is
`demand_workflow_policy.py:119-135`. One `Commit...` action per command does all
the writes, those it makes through other services included. Any other worker may
commit in between. A transaction takes the row lock with its first write and keeps it, so
that its writes are one step for the others. `Reread` is the second
read of the commands that read the row again before they write; it keeps the
guards of the first. `Rollback` is a lost CAS, a refusal, an error or a crash:
nothing is left, because nothing is committed before. `Create` and `EditPlan` are
one step: the row is new, or the planning CAS precedes the reads.

What is abstracted, and in which direction:

- Contents are members of `Subjects`, the envelope comparison a relation
  `Delegated` on them, the routing a function from `Routings`. The comparison
  entry by entry is in `PlanMaterialisation`, the resolution of scopes in
  `ApprovalScopes`.
- Where the code updates a few attributes of the row the model writes the same
  attributes; a content write takes any subject, also the one that is there.
- The expected version a client sends with a CAS is the version the transaction
  read. A client that sends another is refused, which is `Rollback`.
- `cancel` is a CAS when its client sent a version; only its blind form is
  modelled, of which the CAS form is a special case.
- The plan is modelled by request, not by requirement. `Rebuilt` says what a
  rebuild may leave: locked decisions stay, engine output appears or not.
- Administrators vote as any approver that the snapshot names. An approver that
  is deactivated between submission and vote is not modelled.
- `set_operational_confirmation` and `extend_candidate_window` are operations of
  `PlanMaterialisation`, which has the entries they are about. Here the second is
  an edition under the CAS (`"replace"`), and the only one that leaves the OPEN cycle
  of a submission alone (`demand_service.py:1114`).

Bounds: `MaxVersion` (no command starts at that version), `MaxCancellations`,
and the finite `CycleIds` and `RevisionIds`, cap the histories. `PlanningModulus`
lets the planning version wrap: nothing but equality of consecutive values is
ever asked of it.

### 2.2 CommandReceipts and OnceOnly

An attempt is one HTTP request with a key. Its program counter follows
`replay_or_execute`: look for the receipt (`find`), in the savepoint read and
acquire the planning version (`read`, `acquire`) when the key is guarded, run the
mutation (`execute`), insert the receipt (`insert`, then `written`), answer
(`answered`), commit. A conflict or an integrity error rolls back to the savepoint
and looks for the winner (`conflict`, `integrity`).

- The row lock of the planning row (`HoldsPlanning`) and the wait on an
  uncommitted receipt of the same key (`HoldsKey`) are derived from the program
  counter. Both are taken inside the savepoint, so that rolling back to it
  releases them.
- `Execute` may end in a refusal, an integrity error or a failure at will. A
  guarded command acquires before it decides, the order ADR-006 requires.
- `Answer` precedes `Commit`: the session dependency (`http.py:149`) commits when
  it exits, and FastAPI, pinned in `requirements-server.txt:5`, exits it after it
  has sent the response. How FastAPI does that is external to the repository.
- `Crash` may stop an attempt anywhere before its commit.
- Commands without a key skip all this (`application/idempotency.py:76`), a stored
  response that cannot be read back is an error of data: both are left out.

`OnceOnly` has three steps: an attempt asks with a key and an input (`Ask`), a key
is decided once (`Decide`), an attempt that is not the one decided is told the
outcome, or refused for another input (`Tell`). The mapping reads the question
from the command, the outcome from the committed receipts and what was told from
the answers that replay or refuse.


### 2.3 ErpSynchronisation

`erp` is what the ERP would answer, `catalogue` the rows of `TaskCatalogEntry` in
the order of creation, `runs` those of `AcumaticaProjectTaskSyncRun`. The process
is explicit: `launching` (row inserted, job not yet given to the executor), `queue`
(`ThreadPoolExecutor`, one thread), `work` (what the thread does), `server`. Actions
follow the transactions: `Launch`, `Submit`, `Begin`, `Discover`, `FetchPage`,
`ApplyProject`, `RecordProject`, `Complete`, `RunFails`; `Stop` drops the queue and
lets the thread finish, as the shutdown of the executor does, `ServerCrash` may come
between any two, `Restart` reconciles. Beside the run people synchronise one project
(`BeginTargeted`, `CommitTargeted`) and import files, and the ERP creates, renames
and removes tasks.

- The pages of a run are read while the listing moves (`$skip` by what was
  received); the answer for one project is one page.
- Each project is a transaction which may be refused as a whole; the order of
  projects does not matter to any property. Unique constraints of the catalogue are
  never what refuses a write: `Upsert` meets every conflict before.
- `Reusing` TRUE lets the ERP give a code to another task (section 5.2).
- Bounds: `MaxRuns` launches, `MaxErpChanges` changes outside, `PageSize`.

### 2.4 AssetReservation

`needs` are the `AssetRequirement` rows with their `AssetAllocation`, of all five
origins: an approved request line, a shift, a project, a segment, the period of a
resource. Beside them are the catalogue (types, units, skills, unavailability), the
approved line, and the shifts and segments needs belong to. Every command takes
the planning version before it reads and is one action: reserve, release, designate,
transfer of operators, synchronise an approved line, move, release or delete a
shift with its reservation, catalogue edits with their refusals, rebuild.

- The exception is the PATCH of a segment, which checks before it takes the version:
  `BeginPatch`, `CommitPatch`. They follow each other at once unless `Overlapping`.
- Who may assign is left to `ApprovalScopes`: the planner is assumed to be allowed.
- The activity and the skills of people change without the planning version, also
  between the two steps of a PATCH (`SetResourceActive`, `SetCompetencies`).
- `MaxCommands` bounds the changes, and thereby the length of a behaviour.

### 2.5 ShiftPlan

`window`, `planned`, `status` and `target` are columns of `ResourceRequirement`;
`approved` and `revision` what the active revision says of a segment; `override`
the window override, `budget` the delegated budget; `locked` the locked shifts;
`auto` the hours of those a rebuild replaces. Each command ends with
`RebuildPlan`, which aligns the targets of SAME_AS components, keeps the locked
shifts and places the rest. Creation, move, split, copy, release, extension, the
three overallocation policies, a PATCH, closing, an approval with its absorption of
overrides, budgets: each is one action under the planning version.

- Hours are small integers; a rebuild places the hours that are left, without a
  calendar (`PlanningEngine` has that).
- `TransferChoices` are the hours that a transfer may take out of a shift.
- `LockedDecisionsSurvive` lets a locked shift of an open segment change in a command
  on that shift only: it is moved or shares its hours within its segment, or it is
  lifted and nothing else that was decided changes.
- A closed segment is done or cancelled. An approval leaves the first as it is and
  replaces the second by a new row without assignment (`renewed`); a request without
  an open segment is approved again in `PlanMaterialisation` only.
- `Reopening` TRUE lets a PATCH reopen a closed segment (section 5.2).
- The ±20 % that may be delegated are those of the code; `MaxHours` and
  `MaxChanges` bound hours and commands.

### 2.6 ApprovalScopes

`scope` is `ApprovalScope` with approvers and mappings, under its own version,
`account` the permissions of a user, `unitApprovers` the approvers of a unit.
A command is up to four steps: `Ask` reads and decides whether it needs the
planning row (`Guarded`), `Acquire` takes it, `CheckAuthority` is the check of an
assignment, `Commit...` writes under the version of the scope. Routing of workforce
and asset lines is `WorkforceApprovers` and `AssetApprovers`, direct assignment
`MayAssign`.

- A role is the permissions it gives. The type of a unit changes only while it is
  not reserved. Authentication runs in sessions of its own, so that the row of the
  actor is never stale in a command.
- Transactions are alike: the first one that rests begins, and it asks for
  something that is not yet so (`AuthorityMoves`, `MCNew`).
- `Racing` TRUE lets an account become an approver while it is changed.

### 2.7 WorkPackages

`package` is `WorkPackage` with its weekly loads, `interval` the table of
intervals, `demand`, `piece` and `delivered` the demands, segments and delivery
plans that refer to it, `former` the lines a demand had before. Adding a dependent is
`BeginLink` (a read of the package) and `CommitLink` (its row lock and the second
read of 502A); commands on a package send the version they read and are one action.
Layout: `Fits`, `Proposal`, `AsIntervals` (weekly loads stored as intervals too) and
`Projected` (what a day holds).

- In the instance one package is linked and one demand refers to it, a line is
  replaced once, all tasks are of one project; the two packages of the loads part
  start imported, without task. Window dates are both present or both absent.
- `Blind` TRUE lets two flat editions of one demand overlap (section 5.2).
- Three consequences of the code show in the model and are no promise broken: a
  package whose ERP task was deactivated can no longer be edited
  (`work_package_repository.py:641`), a request with such a task cannot be edited by
  lines, and weekly intervals become MANUAL when intervals are written.

### 2.8 StoryVerification

`plan` and `story` change under `delivery_version`, `scope`, `requirement`,
`decided`, `assigned`, `executions` and `retestAfter` under `verification_version`;
completing a story takes both. `Begin...` has the versions the client sent and the
reads of the service, `Commit...` the writes.

- TODO stands for IN_PROGRESS and BLOCKED, which capture the reference estimate as
  it does. One update sets an estimate, a status or both (`Updated`). A requirement has one revision: no service makes another.
- A read of the service that the ORM serves from its identity map may be older than
  the model's; a later CAS refuses it as the model's does.
- `Reviving` TRUE brings back a story cancelled in the backlog (section 5.2).
- Bounds: `MaxDelivery`, `MaxVerification`, `MaxExecutions`.

### 2.9 PlanMaterialisation

Three definitions side by side: `candidate` (edited), `revision` (approved last),
`needs` (planned). `Approve` prepares the candidate, checks it against locked shifts,
matches its slots with the requirements, reconciles, binds and activates. Edits are
within the envelope or beyond it, decided entry by entry (`NeedsApproval`), by a role
that may approve them at once or not. `Resynchronises` is what selections, budgets
and confirmations end with. A requirement may be done (`SetDone`): it keeps its place
in the plan and loses its shifts, an approval leaves it done except where its periods
are planned again (`StaysDone`), and a cancellation does not touch it.

- `LineModes` says which kind of request is there: with `RequestLine` identities, or
  the earlier kind, whose periods are matched by row (`LegacyMatched`).
- A definition has any number of slots per period; the instance has two at most. Rows
  that are missing are created in the order of periods and slots (`CreationOrder`).
- Bounds: `MaxRevisions`, `MaxEdits`, `MaxNeeds` rows ever created.

### 2.10 Communications

`batch` and `delivery` are the rows, `planned` the version the fingerprint of the
projection stands for, `told` the order of `communicated_at`. `received` counts what
reached the outside and `lost` what the program lost track of: `Crash` between a
sending and its commit, an answer that never came. A claimed delivery is locked until
its transaction ends, and messages are claimed in one order, so that two senders of a
batch do not wait for each other. The same effect may be lost several times.

- `Overlapping` TRUE lets the other commands overlap, `Returning` TRUE lets the plan
  become what it was (section 5.2). `MaxPlanned` and `MaxLost` are bounds.
- Every batch has its first message, the second may be left out.

### 2.11 PlanningEngine

`snapshot` is what the engine is given and never changes; `BeginRebuild` keeps
the locked shifts, `PlaceSegment` is one turn of the engine's loop, `PersistPlan` or
`RefusePlan` the end. Availability, selection of days, spread by profile, fixed and flexible
segments, targets, overtime and the suggestions for missing hours are operators.

- Hours are ten thousandths of an hour (`Tolerance` and `StoredUnit` are its 0.001
  and 0.01), halves round up. The plans of the 3,072 snapshots of a larger instance
  were compared with those `build_allocation_plan` computes: none differed.
- Days and people are put in order by `Sorted`, hours added by `AddUp`: neither is
  recursive. `Unsaturated`, the rounds of the spread by weight, is a recursive function
  on rounds; the two passes that hand out what rounding left are written as what they
  come to for each day (`ToppedUp`, `Adjusted`).
- A snapshot is a locked or an unlocked situation for two people, four days and up
  to three segments (`MCSnapshots`). A fixed segment has no target.

## 3. The runs

CHECK_DEADLOCK is FALSE in every cfg: the bounds, and attempts that have all
ended, stop the instance where the system would receive another command.

| run | instance | checks |
|---|---|---|
| `serial` | 1 worker, 2 lines, 2 users, 2 subjects, 2 routings, 3 cycles, 2 revisions, every command | `TypeOK`; `StatusIsEarned`: status, cycle, approval and plan agree when commands do not overlap |
| `overlap` | 2 workers, 2 cycles, 2 revisions, every command but those the disagreements need | one open cycle, completed by its frozen quorum (`AtMostOneOpenCycle`, `CompletedByFrozenQuorum`); revisions come from cycles in one line (`RevisionsComeFromCycles`, `RevisionHistoryLinear`); what is closed is frozen (`HistoryIsFrozen`); the plan is the active revision, changes under the planning version, and is released for good (`PlanIsActiveRevision`, `PlanUnderPlanningVersion`, `AcceptedHoldsNoPlan`) |
| `receipts` | `MCServer`: 2 attempts, 3 keys of which 2 guarded, 2 payloads; 2 projects, 2 tasks, 2 codes, pages of 1, 2 runs | keyed commands: `OncePerKey`, `GuardIsCurrent`, `ConflictIsAnothers`, `KeepsPromise` (refinement of `OnceOnly`), `EveryAttemptEnds`; synchronisation: `RunsAreAccountedFor`, `TaskKeepsItsRow`, `RunsEnd`; `ServerTypeOK` |
| `planning` | `MCPlanning`: 1 asset, 2 types, 2 needs, 2 shifts, 2 days, 3 commands; 3 segments, 2 locked shifts; 2 scopes, 1 user, 2 transactions, 3 edits; 2 packages, 2 tasks, 4 days in weeks of 2 | assets: `NoDoubleBooking`, `BookingFollowsOwner`, `DesignationOffersHold`; shifts: `SegmentAsAuthorised`, `OneResourcePerComponent`, `LockedDecisionsSurvive`; authority: `AuthorityHolds`; packages: `LinksFollowPackages`, `LoadIsConsistent`; `PlanningTypeOK` |
| `lifecycles` | `MCLifecycles`: 2 workers; 2 plans, 2 stories, 1 requirement, 2 executors; 6 definitions with 2 periods, 3 revisions; 2 batches of 2 messages; 1,026 snapshots | stories: `DoneIsDecided`, `ReferenceIsCapturedOnce`, `ArchivedIsFrozen`, `RetestIsUnanswered`; materialisation: `PlanIsAuthorised`, `LockedShiftsSurvive`; messages: `EffectsAccounted`, `ChangeCanBeTold`; engine: `HoursAddUp`, `TargetYieldsToCapacity`; `LifecyclesTypeOK` |
| `resurrect`, `cancelrace`, `locked`, `aba`, `durable`, `legacy`, `weekly` | the commands each disagreement needs | one property each, violated (section 5.1) |

Why the bounds are enough. One request: no action of `RequestApproval` relates two
requests but through the planning version and the global rebuild, whose effect on
another request is that of `EditPlan`. Two lines give a partial and a complete
quorum, two users an approver that cannot complete it alone; `MCRoutings` overlaps
them on one line. Two subjects with an asymmetric `Delegated` give a candidate
within the envelope and one beyond it. Three cycles are a completed, an invalidated
and an open one. Two workers are a stale read and the commit that makes it stale;
the decision of an intent takes three (two deciders and the one that intervenes).
Two attempts with the same key race; with distinct guarded keys they race for the
planning row; the safety properties of `receipts` about them are proved for any
number. Two runs are one that was interrupted and the next; pages of one task make
every change of the listing fall between two pages. Three commands on assets or
shifts are a decision, the one that contradicts it, and the rebuild or approval
that meets both; two days are a window and its extension. Weeks of two days over
four days are a window that begins and ends inside weeks. Three revisions are one
that is replaced, one that is active and one that an edition prepares. Two batches
are a baseline and a change. Snapshots have a person with room and without, locked
days inside and outside, and every profile. Where a bound
hides a case it is named by a toggle in section 5.2.

The symmetry sets permute identities that no operator orders. Runs with a liveness
property use none.

Fairness. Most specifications state none: they promise nothing that people must do.
`ServerSpec` has weak fairness of each attempt's `Progress`: a worker thread goes on
with the request it serves, and a database lock is granted once it is free.
`EveryAttemptEnds` follows because an attempt that waits for the planning row or the
receipt waits for one that is past both. It has weak fairness also of `Submit` (the
line after the insertion), of `Worker` (the thread of the executor), of `Exit` (the
interpreter joins that thread and exits) and of `Restart`
(`docker-compose.yml:124` restarts the server unless it is stopped by hand). Nothing is
assumed of clients, of the ERP or of crashes: `RunsEnd` holds because the next start
ends what the last one left.

## 4. The proofs

TLAPS checks the theorems below for every value of the constants, under the
assumptions that the modules state and nothing else:

| assumption | says |
|---|---|
| `ApprovalAssumption` | lines exist, every line can be approved by somebody, identities differ from their absence, the modulus is at least 2 |
| `ReceiptsAssumption` | finitely many attempts, guarded keys are keys, absences are distinct |
| `ErpAssumption` | tasks are positive numbers, apart from `NoTask`; workforce codes are codes; a page has a row; projects are finitely many |
| `AssetsAssumption`, `ShiftPlanAssumption` | days are integers, the first catalogue and the first segments are typed, SAME_AS links periods of requests, locked shifts are finitely many and the hours a person gives one are positive, absence is no value |
| `ScopesAssumption` | the class of a task is a class or none, absence is neither a subject nor a transaction, transactions are finitely many, an account has its three fields |
| `MCPackagesAssumption` | the packages, projects, tasks, hours and layouts that `MCPlanning` names are those of the instance |
| `PackagesAssumption` | a task has a project, windows end after they begin, amounts are numbers, layouts are lists of intervals, absences are distinct |
| `VerificationAssumption` | the stories of the past are stories, absence is no story, the bounds on versions are numbers and a plan may be created |
| `MessagesAssumption` | messages are positive numbers, absence is no batch |
| `MaterialisationAssumption` | a definition has slots and finitely many entries, and its line is in no group; absence is no row |
| `EngineAssumption` | days are integers without gaps, snapshots are typed, the stored unit is positive |

TLC evaluates each of them in the runs whose module extends theirs.

The theorems are about the specification of a component (`Spec`, `AssetSpec`,
`PlanSpec` ...). In a behaviour of `MCServer`, `MCPlanning` or `MCLifecycles` one
component moves, chosen by `focus`, and the others stutter, so that it is a
behaviour of each component's specification and the theorems cover what those runs
check. Where a theorem has a hypothesis `~Racing`, `~Overlapping`, `~Reopening`,
`~Blind`, `~Reviving`, `~Returning`, `~Reusing` or `LineModes \subseteq {TRUE}`, the
property is false without it: section 5.2 names the
behaviour of the code that breaks it.

**RequestApprovalProofs.** Properties like `AtMostOneOpenCycle` are not inductive
over twenty commit actions taken one by one; every one of them does one thing to
the data, though. `DataStep(r)` says it once: a row is written, and at most one
cycle is opened (with no OPEN one), continued (same subject, same approvers, more
votes), completed (with its quorum, on a fresh revision), or invalidated and
replaced. One lemma per commit action (`SubmitStep` ... `RejectCancellationStep`)
shows that it is a `DataStep`; one lemma per property shows that a `DataStep`
preserves it. The inductive invariant is

    DataInv == TypeInv /\ CyclesWellFormed /\ VotersEligible
                 /\ NoCycleBeforeCreation

`VotersEligible` is needed because a vote is counted after its eligibility was
read, `CyclesWellFormed` because the quorum counts votes without asking whose they
are, `NoCycleBeforeCreation` because creation opens a cycle without looking for an
OPEN one.

| theorem | says |
|---|---|
| `DataInvariant` | `DataInv` holds always |
| `TypeCorrect` | `TypeOK` |
| `OneOpenCycle` | `AtMostOneOpenCycle`, for any number of workers |
| `FrozenHistory` | `HistoryIsFrozen`: closed cycles and revisions never change |
| `FrozenQuorum` | `CompletedByFrozenQuorum` |
| `RevisionsFromCycles` | `RevisionsComeFromCycles` |

**RequestPlanProofs.** The same method for the plan. `PlanStep(r)` says that a
step touches the plan of one request in one of four ways: it leaves it, releases
it with its decisions, binds it to the active revision (never on an accepted
cancellation), or rebuilds the decisions of an existing plan; the last three
acquire the planning version. One lemma per command shows it, and the invariant is

    PlanInv == PlanIsActiveRevision /\ AcceptedHoldsNoPlan /\ EverApproved

on top of `DataInv`. `EverApproved` is what the two-step transactions need: an
edition that began on an approved request binds the plan to the active revision
of a row it has not read again, so a request that a running transaction saw
approved must still have one. That captured revisions never change
(`HistoryKept`) keeps the active one captured.

`LineInv == RevisionHistoryLinear /\ ActiveIsLast` is inductive on top of that: a
new revision replaces the active one, which nothing has replaced before, and
becomes active; a request without one has no revision.

`StatusIsEarned` needs `EarnedInv == SeenCurrent /\ \A r : EarnedAt(r)`: with one
worker, what a running command has read of its request is still so, and with that
each commit leaves the request with what its new status promises. The hypothesis
that workers are one is the point: `resurrect` and `cancelrace` break the
property with two. Requests, lines, users, cycles and revisions may be any number.

| theorem | says |
|---|---|
| `PlanInvariant` | `PlanInv` holds always |
| `PlanFollowsApproval` | `PlanIsActiveRevision` |
| `AcceptedStaysReleased` | `AcceptedHoldsNoPlan` |
| `PlanChangesUnderCas` | `PlanUnderPlanningVersion`, for every modulus of at least 2 |
| `RevisionsInLine` | `RevisionHistoryLinear`: approvals that race never replace the same revision |
| `StatusStaysEarned` | `StatusIsEarned`, for one worker |

**ServerProofs.** *CommandReceipts.* `CommandInv` adds to `TypeOK` and `GuardIsCurrent` that
a committed effect owns the receipt of its key and an uncommitted receipt is alone
on its key (`ReceiptsMatch`), and that nobody acquires before reading
(`Underway`). `OncePerKey` alone is not inductive: two written attempts could both
commit. `ConflictsAreAnothers` needs `ConflictInv` besides: an expected version is
never ahead of the planning, and the planning is ahead of 1 only by a guarded
effect.

*ErpSynchronisation.* A run passes from its launch to the queue to the thread.
`RunsAreAccountedFor` says nothing of where it is, and so is not inductive:

    RunInv == RunTables /\ Queued /\ RunsSound /\ OneActive
                /\ LaunchPending /\ ThreadRunning /\ Owned

`Owned` is the heart: while the server is up a pending run is about to be given to
the executor or in its queue, and a running one is in the thread. `RunsSound` ties
the key, the status and the results of a run, `ThreadRunning` the results to the
projects the thread is done with.

`CatalogueInv` says of everything that carries a task and a code, the ERP, the pages
that were read and wait to be applied, the rows, that the task is the one the code
was given to (`Bearer`). That is why an answer may be applied late: it can only
confirm what a row says. What a page does to the catalogue is a fold over its
items; one item keeps the tasks of the rows (`TasksKept`), and `Merging` carries
that through the fold by induction on the items that are left.

| theorem | says |
|---|---|
| `CommandInvariant`, `CommandTypeCorrect` | the invariant, and `TypeOK` |
| `OneEffectPerKey` | `OncePerKey`, for any number of attempts |
| `GuardStaysCurrent` | `GuardIsCurrent` |
| `ConflictsAreAnothers` | `ConflictIsAnothers` |
| `ImplementsOnceOnly` | `KeepsPromise`: every step is an `Ask`, a `Decide`, a `Tell` or a stutter of `OnceOnly` |
| `RunsStayAccountedFor` | `RunsAreAccountedFor`, through stops and crashes |
| `CatalogueInvariant` | `CatalogueInv` holds always |
| `RowsKeepTheirTask` | `TaskKeepsItsRow` (`~Reusing`) |
| `ServerTypes` | `ServerTypeOK`, whichever part moves |

**PlanningProofs.** Three components, each with an invariant of its own.

*AssetReservation.* `ReservationInv == AssetTypeOK /\ RowsSound /\ OneAdHoc /\
BookingsApart`: a need has the owner of its origin and a reservation an asset of the
type asked for, a shift has one ad hoc need, reservations of one asset lie apart.
`OneAdHoc` is needed because a shift that moves carries *its* need along. The
invariant holds whatever overlaps. `FollowInv` adds `AllFollow`, that each need is
where its owner is, and `PatchStands`, that the PATCH under way will leave it so;
the second fails when commands overlap.

*ShiftPlan.* `Authorised == RowsOK /\ SegmentAsAuthorised`, with lemmas on what
overrides, budgets and the absorption of overrides by an approval do to the
effective window. `Settled` is what keeps a rebuild from taking decisions away: locked
shifts are on open segments, those of a SAME_AS component have one resource, and the
targets agree with it (`Aligned`). Then every command is one of two kinds. Either it
rebuilds from rows that keep what is open (`RebuildSettles`, `RebuildSparesAll`), or
it decides on one shift and hands the rebuild all others as they were
(`DecisionSparesOthers`, `LiftSparesOthers`).

*ApprovalScopes.* `ScopesInv == Tables /\ ClerksWork /\ AssignmentIsAuthorised`. A
command decided whether it needs the planning row on what it read when it began.
`Fresh`, in `ClerksWork`, says why that is enough: as long as a scope has the
version that was read, it is the scope that was read, and its commit compares the
version. So whoever takes authority away holds the planning row, or the assignment
that relied on it does not commit.

| theorem | says |
|---|---|
| `ReservationInvariant` | `ReservationInv` holds always |
| `NeverDoubleBooked` | `NoDoubleBooking`, for any number of needs and days |
| `BookingsFollowOwners` | `BookingFollowsOwner` (`~Overlapping`) |
| `DesignationsHold` | `DesignationOffersHold` |
| `SegmentsAuthorised` | `SegmentAsAuthorised` (`~Reopening`) |
| `DecisionsSurvive` | `LockedDecisionsSurvive`, of every step, for any segments, shifts and chains |
| `OneResource` | `OneResourcePerComponent` |
| `AssignmentsStayAuthorised` | `AuthorityHolds`, for any number of transactions (`~Racing`) |

**PackagesProofs.** `LinksInv` says of a transaction that has read a package, too,
that what it is about to write will follow it (`LinkingSound`), and that no two of
them write the same demand (`LinkingApart`); the package may be edited between the
read and the lock.

`LoadsInv` is about each package: its intervals fit in its window and its hours, and
weekly loads that are still stored say the same. That the projection of a package
adds up to what is planned is then arithmetic. A quotient and a remainder are laid
out over the days so that any first days of a division have what is due to them
(induction on the days), and a table of hours has one sum by rows and by days
(`FiniteFacts`).

| theorem | says |
|---|---|
| `LinksFollow` | `LinksFollowPackages` (`~Blind`) |
| `LoadsStayConsistent` | `LoadIsConsistent`, for any windows, weeks and hours |
| `PlanningTypes` | `PlanningTypeOK`, whichever part moves, also where commands overlap |

`PlanningTypes` rests on `PlanningInv`, one conjunct for each part. Typing is not a
matter of looking at assignments here. A rebuild gives the hours of replaceable
shifts to the target of their segment, and so `PlanTyped` says that a segment
without a target has none. A version stays within the bound of an instance because
it has been advanced only by transactions that ended: a version and the
transactions under way are no more than the commands so far and one
(`EditsCounted`). A transaction that links a demand writes into rows it has read
before; `DependentsTyped` says that they are still there, also where two editions
overlap (`Blind`), which `LinksInv` excludes.

**LifecyclesProofs.** Three components again.

*StoryVerification.* `StoryInv == StoryRows /\ PlansExist /\ Underway`. What is under way
decided on reads under two versions; `Underway` says that while a version is the one
that was seen, what was read under it is still so. Completion compares both
versions, which is why neither half is enough alone. `DoneIsDecided` is then
inductive beside it, `ReferenceIsCapturedOnce` needs that a committed story has its
reference.

*Communications.* `CommunicationInv == BatchTables /\ AllApart /\ AllBalanced`. An
effect reached the outside as often as the program lost track of it, or once more,
and then somebody remembers it: the row, or the one transaction that is about to
write it (`AllBalanced`). `AllApart` says that transactions which claim messages of
one batch claim different ones. `ChangeCanBeTold` needs `BaselineInv` beside it: the
batches that were told are in the order of their versions, none is newer than the
plan, and a batch that is being sent is the newest (`Chronology`, `AllCurrent`). With
that the batch told last is the one whose version a change is compared with.

*PlanMaterialisation.* `PlanInv` says of the requirements, row by row, that they are
those of the active revision with the choices made on it (`PlanLaid`): as many of
each entry as it has slots, each with the hours, the window and the revision it
should have. The proof follows the code in two halves. Any matching of rows with
slots that is injective and keeps within what is wanted (`Matches`) leads
`Reconciled` to such a table, the rows that are created one after the other
included; and both matchings of the code, by line identity and by row, are such. For
requests with lines, `LocksFit` says besides that a locked shift is in the window
of its requirement, which `TheLockedShiftsSurvive` needs; the run `legacy` shows
that it fails for the others.

| theorem | says |
|---|---|
| `StoryInvariant` | `StoryInv` holds always |
| `DoneDecided` | `DoneIsDecided` |
| `ArchivedFrozen` | `ArchivedIsFrozen` |
| `RetestUnanswered` | `RetestIsUnanswered` |
| `ReferenceCaptured` | `ReferenceIsCapturedOnce` (`~Reviving`) |
| `EffectsStayAccounted` | `EffectsAccounted`, for any number of senders (`~Overlapping`) |
| `EveryChangeCanBeTold` | `ChangeCanBeTold` (`~Overlapping`, `~Returning`) |
| `ThePlanIsAuthorised` | `PlanIsAuthorised`, for any definitions, slots and edits, both kinds of request |
| `TheLockedShiftsSurvive` | `LockedShiftsSurvive`, for requests with line identities |
| `LifecyclesTypes` | `LifecyclesTypeOK`, whichever part moves, also where commands overlap |

`LifecyclesTypes` adds to the invariants above `StoriesBounded` (versions within
their bounds, a retest after an execution that there was) and `MessagesTyped`: a
transaction of communications refers to a batch that is there, whoever else has
written it meanwhile. It needs neither `~Overlapping` nor `~Returning`.

**EngineProofs.** `EngineInv` is about the loop over segments: those that wait are
there once, have no automatic rows yet, automatic hours fit in what the day has
left of them (`AutomaticFits`), and what is reported as missing is what the placed
ones lack, up to `Tolerance` for each (`Progress`). One turn of the loop keeps it
because what a segment is given adds up (`PlacedWell`): each step of the spread, the
shares by weight, the rounding and the two passes that correct it, gives no day more
than its room and all days together what they are due.

`TargetInv` adds `Yielding`: segments wait in their order, and each one that was
placed is on more days than its target only if one day less did not hold its hours
in what it *found*. What it found is written in terms of rows that later segments do
not touch: the capacity of the day less what used it before it (`Found`,
`UsedBefore`).

| theorem | says |
|---|---|
| `EngineInvariant` | `EngineInv` holds always |
| `HoursAlwaysAddUp` | `HoursAddUp`, for every snapshot, calendar, profile and precision |
| `TargetsGiveWay` | `TargetYieldsToCapacity`, for the same |

**FiniteFacts.** Sums, ranks, folds and recursive functions are proved about by
induction. The induction theorems of the library take an operator as a parameter,
which the provers cannot instantiate; here what is true by induction is a *set* of
numbers or of subsets (`LeastNumber`, from the well-foundedness of `<`), and each
use is about such a set. A sum is then what is left when one element is taken out
after the other (`PartsGive`, `SumsExist`), in whatever order `MapThenSumSet` does.

**Only model-checked**, and why:

- `EveryAttemptEnds`, `RunsEnd`: liveness under fairness.
- The properties of the violation runs are false of the code.

## 5. Findings

### 5.1 Disagreements

Each is a run that TLC ends with a counterexample.

| run | what the code does | what the repository says |
|---|---|---|
| `resurrect` | `submit` decided on a draft overwrites a cancellation committed meanwhile and opens a cycle on it (`demand_service.py:1401`) | `period_approved_sync.py:109` |
| `cancelrace` | a direct cancellation lists the requirements before the guard and misses those of a simultaneous approval (`period_approved_sync.py:1261`) | `tests/test_demand_cancellation_request.py:1226` |
| `locked` | locked quarts are checked before the planning CAS: one locked meanwhile is deleted | `period_approved_sync.py:1289` |
| `aba` | a blind write sets the version back and a stale rejection overturns an acceptance (`demand_repository.py:1946`) | ADR-009:65 |
| `durable` | the response of a keyed command precedes its commit (`http.py:152`) | `infrastructure/sql/idempotency.py:20` |
| `legacy` | a request without lines whose periods are replaced is approved again: its requirements are cancelled with their locked shifts (`period_approved_sync.py:539`) | ADR-004:55 |
| `weekly` | the identifier of a weekly interval is its week: a second package cannot be planned in it (`work_package_repository.py:473`) | ADR-019:50 |

### 5.2 What a passing run leaves out on purpose

A passing run that would meet one of the following keeps out of it by a constant,
so that the disagreement is one edit of a cfg away.

| constant | set otherwise | against |
|---|---|---|
| `Overlapping` (AssetReservation) | a PATCH of a segment checks reservations before it holds the planning: one that commits in between ends outside its segment (`segment_repository.py:511`) | ADR-018:176, :194 |
| `Reopening` | a closed segment of a cancelled request is reopened in a window that nothing authorises any more (`segment_repository.py:562`) | - |
| `Racing` | an account becomes an approver while it is changed, and is deactivated under an assignment it checks (`identity_repository.py:57`) | ADR-026:109 |
| `Blind` | two flat editions of a demand leave it with another project than its package (`demand_repository.py:853`) | - |
| `Overlapping` (Communications) | two clicks create the drafts of a batch twice; a cancellation crosses a sending (`project_communications.py:595`) | `docs/M365_GRAPH_COMMUNICATIONS.md:59` |
| `Returning` | a plan that changes, changes back and changes again: the last change has no batch (`communication_repository.py:606`) | - |
| `Reviving` | a story cancelled in the backlog is committed without a reference estimate (`domain/delivery.py:200`) | - |
| `Reusing` | a code that the ERP gives to another task takes over the row of the first (`task_catalog_repository.py:130`) | `RP_PROJECT_TASKS.md:74`, :282 |

### 5.3 Observations

Met while modelling, and left as they are in the models:

- An edition takes the request row and then the planning row
  (`demand_service.py:602`), a final vote the other way round: the database aborts
  one of them, and its client retries.
- A direct approval beyond the envelope that leaves the quorum partial advances the
  planning version all the same (ADR-010:121 expects otherwise).
- A rejected cancellation leaves a submission that nobody can vote on until it is
  edited or corrected (`demand_repository.py:1408`).
- Direct assignment counts inactive scopes (`asset_service.py:107`), the routing of
  lines ignores them when another is active (`approval_scopes.py:505`); ADR-010:86
  describes the second.
- Hours have four decimals in the engine and two in the table, under a constraint
  that forbids 0.00: 1 h over a year makes the rebuild of everybody's plan fail, 10 h
  over three days are stored as 9.99 h (`command_adapters.py:163`). `RefusePlan` and
  `InColumn` show it.
- The daily limit outside the schedule is one per segment, not per person.
- A request without lines whose periods are all removed cannot be approved again.
- A budget within the delegated ±20 % that is edited back stays a budget.
- The emergency marker is cleared by the emergency approval only.
- A run of the synchronisation that cannot record its own failure stays active until
  the next start.

## 6. What is left

### 6.1 Plan

1. `PlanningGuard`: the request row and the planning row as explicit locks, with the
   deadlock of 5.3 and its resolution by the database, and the session cache of the
   acquired version across a savepoint (`planning_version.py:113`).
2. `PlanAuthority`, abstract: the plan of a request is an authorised revision or
   nothing; `RequestApproval` shown to implement it, from `PlanInv`.
3. The validation of SAME_AS chains of a draft (ADR-029) as a recursive function.

### 6.2 Not modelled

Hazards without a property have a note in `PROJECT.json`. Parts without a module:

- **Read models, queries, dashboards, medium-term and coordinator views, cockpit,
  frontend.** They change nothing. What they show is computed on one read, and is
  either decided again by the command it leads to (which is modelled) or a matter of
  presentation. The two reads whose answer a command must honour are modelled:
  the designation dialog (`DesignationOffersHold`) and the days a package holds.
- **Schema migrations and tools.** They run offline, once, before the server starts.
- **Resources, classes, competencies, project managers, contacts, responsibility
  overrides, user administration.** Rows under a version, written by one CAS each; what
  planning depends on (activity, skills, accounts) is in `AssetReservation` and
  `ApprovalScopes` as changes that may happen at any time.
- **Identity, sessions and break glass.** Authentication; who may do what is modelled
  as the authority that a command needs.
- **Emergency override.** An audit marker that no longer materialises anything.
- **Communications by technician**, the synchronisations of employees and users,
  links of evidence and documents: the same workflows with less in them.

More than half of the implementation is frontend, read models, tooling, migrations
and tests' fixtures, so that the share of it that the models map is small although
most of the components that change state are modelled.
