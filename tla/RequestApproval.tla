-------------------------- MODULE RequestApproval --------------------------
(***************************************************************************)
(* The approval aggregate of a workforce request: the request row          *)
(* (WorkforceRequest), its approval cycles with their frozen approvers and *)
(* votes (RequestApprovalCycle, ApprovalRequirement, ApprovalDecision),    *)
(* the immutable approved revisions (RequestApprovalRevision), the active  *)
(* reference and the materialised plan, and the global planning version.   *)
(*                                                                         *)
(* An HTTP command is one database transaction under READ COMMITTED.  It   *)
(* reads the request row without locking it, decides on what it read, and  *)
(* takes the row lock with its first write.  A command is therefore two    *)
(* steps of a worker: Begin* reads a snapshot and passes the guards of the *)
(* command, Commit* performs all the writes at once.  Between the two, any *)
(* other worker may commit.  Rollback ends a transaction without effect.   *)
(*                                                                         *)
(* A command that carries an expected version performs a compare-and-set   *)
(* (CAS) on aggregate_version; the others write read version + 1.          *)
(*                                                                         *)
(* An operator Name_Error, next to Name, is Name as a plausible error      *)
(* would have it: no action uses it, and replacing Name by it shows which  *)
(* property notices.                                                       *)
(***************************************************************************)
EXTENDS Integers, FiniteSets

CONSTANTS
  Requests,       \* workforce requests
  Lines,          \* active request lines, one approval requirement each
  Users,          \* AppUsers that hold approve_demands
  Subjects,       \* business contents the subject fingerprint tells apart
  Routings,       \* approvers the routing can resolve: functions of Lines
  Delegated,      \* <<approved, candidate>>: inside the approved envelope
  Workers,        \* transactions the server can run at the same time
  CycleIds,       \* identities of approval cycles
  RevisionIds,    \* identities of approved revisions
  Commands,       \* the commands this instance receives
  NoCycle, NoRevision, NoUser,
  MaxVersion,        \* bound: no command starts at this aggregate_version
  MaxCancellations,  \* bound: cancellation requests per workforce request
  PlanningModulus    \* bound: planning versions are told apart modulo this

AllCommands ==
  { "submit", "correction", "modify", "replace", "select", "contact", "vote",
    "cancel", "requestCancellation", "acceptCancellation",
    "rejectCancellation", "editPlan" }

ASSUME ApprovalAssumption ==
  /\ Lines # {}
  /\ Routings # {}
  /\ Routings \subseteq [Lines -> (SUBSET Users) \ {{}}]
  /\ Delegated \subseteq Subjects \X Subjects
  /\ Commands \subseteq AllCommands
  /\ NoCycle \notin CycleIds
  /\ NoRevision \notin RevisionIds
  /\ NoUser \notin Users
  /\ MaxVersion \in Nat
  /\ MaxCancellations \in Nat
  /\ PlanningModulus \in Nat /\ PlanningModulus >= 2

VARIABLES
  request,          \* the WorkforceRequest rows
  cycle,            \* the approval cycles ever created
  revision,         \* the approved revisions ever created
  routing,          \* what the approval routing resolves now
  planningVersion,  \* the global planning mutation version
  tx                \* the transaction each worker runs

vars == <<request, cycle, revision, routing, planningVersion, tx>>

-----------------------------------------------------------------------------
Draft == {"Brouillon", "A corriger"}
Live == Draft \cup {"Soumise", "En planification"}
Statuses == Live \cup {"ABSENT", "Annulee"}
CancellationStates == {"NONE", "PENDING", "REJECTED", "ACCEPTED"}

\* What the planning holds for a request: no quart, only engine output, or
\* at least one decision a person locked.
Decisions == {"NONE", "AUTO", "LOCKED"}

Request ==
  [ status: Statuses, version: Nat, cancellation: CancellationStates,
    cancellationId: Nat, subject: Subjects,
    active: RevisionIds \cup {NoRevision},   \* the active approval reference
    plan: RevisionIds \cup {NoRevision},     \* what the requirements are bound to
    decisions: Decisions ]

Unused == [state |-> "UNUSED"]

Cycle ==
  [ state: {"OPEN", "INVALIDATED", "COMPLETED"}, request: Requests,
    submitted: Nat, subject: Subjects, approvers: [Lines -> SUBSET Users],
    votes: SUBSET (Lines \X Users), revision: RevisionIds \cup {NoRevision} ]

Revision ==
  [ state: {"CAPTURED"}, request: Requests, version: Nat, subject: Subjects,
    previous: RevisionIds \cup {NoRevision} ]

\* What a command read of the row and still uses when it writes.
Seen == [status: Statuses, version: Nat, cancellationId: Nat,
         plan: RevisionIds \cup {NoRevision}]

Idle == [command |-> "idle"]

Transaction ==
  [ command: AllCommands, request: Requests, seen: Seen,
    cycle: CycleIds \cup {NoCycle}, user: Users \cup {NoUser},
    targets: SUBSET Lines, finalizes: BOOLEAN, stale: BOOLEAN ]

TypeOK ==
  /\ request \in [Requests -> Request]
  /\ cycle \in [CycleIds -> Cycle \cup {Unused}]
  /\ revision \in [RevisionIds -> Revision \cup {Unused}]
  /\ routing \in Routings
  /\ planningVersion \in 0..(PlanningModulus - 1)
  /\ tx \in [Workers -> Transaction \cup {Idle}]

-----------------------------------------------------------------------------
(* Approval cycles and their quorum.                                       *)

OpenCycles(r) ==
  {c \in CycleIds : cycle[c].state = "OPEN" /\ cycle[c].request = r}

\* get_active_cycle: two OPEN cycles are a conflict, and neither holds.
IsActiveCycle(r, c) == OpenCycles(r) = {c}
NoActiveCycle_Unchecked(r) == r \in Requests
NoActiveCycle(r) == OpenCycles(r) = {}

FreshCycles == {c \in CycleIds : cycle[c] = Unused}
FreshRevisions == {v \in RevisionIds : revision[v] = Unused}

Satisfied(approvers, votes, line) ==
  \E user \in approvers[line] : <<line, user>> \in votes

QuorumComplete_AnyLine(approvers, votes) ==
  \E line \in Lines : Satisfied(approvers, votes, line)

QuorumComplete(approvers, votes) ==
  \A line \in Lines : Satisfied(approvers, votes, line)

EligibleLines(approvers, user) == {line \in Lines : user \in approvers[line]}

OpenedCycle(r, version, subject) ==
  [ state |-> "OPEN", request |-> r, submitted |-> version,
    subject |-> subject, approvers |-> routing, votes |-> {},
    revision |-> NoRevision ]

CapturedRevision_Unlinked(r, previous, c) ==
  [ state |-> "CAPTURED", request |-> r, version |-> c.submitted,
    subject |-> c.subject, previous |-> NoRevision ]

CapturedRevision(r, previous, c) ==
  [ state |-> "CAPTURED", request |-> r, version |-> c.submitted,
    subject |-> c.subject, previous |-> previous ]

\* The global rebuild keeps locked quarts and regenerates the others: a plan
\* has engine output when one of its requirements has a resource to charge.
Rebuilt(old) == IF old = "LOCKED" THEN {"LOCKED"} ELSE {"AUTO", "NONE"}

\* Only the row under the planning guard is materialised: a cancelled request
\* is refused, whatever its status was when the command read it.
MayMaterialise_StatusOnly(row) == row.status # "Annulee"
MayMaterialise(row) == row.status # "Annulee" /\ row.cancellation # "ACCEPTED"

\* The planning CAS of ADR-006, released with the transaction: whoever reads
\* the version only compares it with what it expects, so it may wrap around.
AcquirePlanning_Skipped == UNCHANGED planningVersion

AcquirePlanning ==
  planningVersion' = (planningVersion + 1) % PlanningModulus

-----------------------------------------------------------------------------
Init ==
  /\ \E subject \in Subjects :
       request = [r \in Requests |->
         [ status |-> "ABSENT", version |-> 0, cancellation |-> "NONE",
           cancellationId |-> 0, subject |-> subject, active |-> NoRevision,
           plan |-> NoRevision, decisions |-> "NONE" ]]
  /\ cycle = [c \in CycleIds |-> Unused]
  /\ revision = [v \in RevisionIds |-> Unused]
  /\ routing \in Routings
  /\ planningVersion = 0
  /\ tx = [w \in Workers |-> Idle]

-----------------------------------------------------------------------------
(* Commands whose transaction nobody can race with: the row is new, or the *)
(* planning CAS is taken before the first read.                            *)

\* create_command, with or without submission.
Create(r, submit) ==
  /\ request[r].status = "ABSENT"
  /\ \E subject \in Subjects :
       IF submit
       THEN \E c \in FreshCycles :
              /\ request' = [request EXCEPT ![r] =
                               [@ EXCEPT !.status = "Soumise",
                                         !.version = 2,
                                         !.subject = subject]]
              /\ cycle' = [cycle EXCEPT ![c] = OpenedCycle(r, 1, subject)]
       ELSE /\ request' = [request EXCEPT ![r] =
                             [@ EXCEPT !.status = "Brouillon",
                                       !.version = 1,
                                       !.subject = subject]]
            /\ UNCHANGED cycle
  /\ UNCHANGED <<revision, routing, planningVersion, tx>>

\* A person locks, moves or releases a quart of the active plan.
EditPlan(r) ==
  /\ "editPlan" \in Commands
  /\ request[r].plan # NoRevision
  /\ \E decisions \in Decisions \ {request[r].decisions} :
       request' = [request EXCEPT ![r] = [@ EXCEPT !.decisions = decisions]]
  /\ AcquirePlanning
  /\ UNCHANGED <<cycle, revision, routing, tx>>

\* Scopes, mappings and approvers are administered at any time, under the
\* planning CAS when the scope controls an asset type.
ChangeRouting ==
  /\ routing' \in Routings \ {routing}
  /\ AcquirePlanning \/ UNCHANGED planningVersion
  /\ UNCHANGED <<request, cycle, revision, tx>>

-----------------------------------------------------------------------------
(* Begin: the reads and guards of a command.                               *)

ActionStatuses ==
  [ submit |-> Draft, correction |-> {"Soumise"}, modify |-> Live,
    replace |-> Live, select |-> Draft \cup {"Soumise"},
    contact |-> Statuses \ {"ABSENT"},
    vote |-> {"Soumise"}, cancel |-> Live, requestCancellation |-> Live,
    acceptCancellation |-> Live, rejectCancellation |-> Live ]

Allowed(row, command) ==
  /\ row.status \in ActionStatuses[command]
  /\ command = "cancel" =>
       row.cancellation # "PENDING" /\ row.decisions = "NONE"
  /\ command = "requestCancellation" =>
       row.cancellation # "PENDING" /\ row.decisions # "NONE"
  /\ command \in {"acceptCancellation", "rejectCancellation"} =>
       row.cancellation = "PENDING"

Snapshot(row, command) ==
  [ status |-> row.status, version |-> row.version,
    cancellationId |->
      IF command = "acceptCancellation" THEN row.cancellationId ELSE 0,
    plan |-> IF command = "cancel" THEN row.plan ELSE NoRevision ]

Start(w, transaction) ==
  /\ tx[w] = Idle
  /\ tx' = [tx EXCEPT ![w] = transaction]
  /\ UNCHANGED <<request, cycle, revision, routing, planningVersion>>

Begin(w, r, command) ==
  /\ command \in Commands \ {"vote", "editPlan"}
  /\ Allowed(request[r], command)
  /\ request[r].version < MaxVersion
  /\ Start(w, [ command |-> command, request |-> r,
                seen |-> Snapshot(request[r], command), cycle |-> NoCycle,
                user |-> NoUser, targets |-> {}, finalizes |-> FALSE,
                stale |-> FALSE ])

\* Between its guards and its blind write a command reads the row again: the
\* guards keep the first status, the write uses the last version.  A
\* cancellation reads the requirements of the plan in between, and refuses a
\* plan with a locked quart.
Reread(w) ==
  LET t == tx[w]
      row == request[t.request]
  IN
  /\ t # Idle
  /\ t.command \in {"submit", "correction", "modify", "select", "cancel"}
  /\ row.version < MaxVersion
  /\ \E plan \in {t.seen.plan, Snapshot(row, t.command).plan} :
       /\ plan # t.seen.plan => row.decisions # "LOCKED"
       /\ tx' = [tx EXCEPT ![w].seen =
                    [@ EXCEPT !.version = row.version, !.plan = plan]]
  /\ UNCHANGED <<request, cycle, revision, routing, planningVersion>>

\* vote and approve_all_eligible: the actor targets lines it may approve, and
\* the vote decides here whether it can complete the quorum.
BeginVote(w, r) ==
  /\ "vote" \in Commands
  /\ Allowed(request[r], "vote")
  /\ request[r].version < MaxVersion
  /\ \E c \in CycleIds, user \in Users :
       /\ IsActiveCycle(r, c)
       /\ \E targets \in (SUBSET EligibleLines(cycle[c].approvers, user)) \ {{}} :
            Start(w, [ command |-> "vote", request |-> r,
                       seen |-> Snapshot(request[r], "vote"), cycle |-> c,
                       user |-> user, targets |-> targets,
                       finalizes |->
                         QuorumComplete(cycle[c].approvers,
                           cycle[c].votes \cup (targets \X {user})),
                       stale |-> request[r].subject # cycle[c].subject ])

-----------------------------------------------------------------------------
(* Commit: the writes of a command.                                        *)

\* acquire_request_aggregate_version with the version the command read.
CasHolds(t) == request[t.request].version = t.seen.version

Finish(w, commands) ==
  /\ tx[w] # Idle
  /\ tx[w].command \in commands
  /\ tx' = [tx EXCEPT ![w] = Idle]
  /\ UNCHANGED routing

\* The transaction fails: a lost CAS, an unresolved route, an error, a crash.
Rollback(w) ==
  /\ tx[w] # Idle
  /\ tx' = [tx EXCEPT ![w] = Idle]
  /\ UNCHANGED <<request, cycle, revision, routing, planningVersion>>

\* submit_command: blind write, then a cycle unless one is OPEN.
CommitSubmit(w) ==
  LET t == tx[w]
      r == t.request
  IN
  /\ Finish(w, {"submit"})
  /\ UNCHANGED <<revision, planningVersion>>
  /\ \/ /\ NoActiveCycle(r)
        /\ \E c \in FreshCycles :
             cycle' = [cycle EXCEPT ![c] =
               OpenedCycle(r, t.seen.version + 1, request[r].subject)]
        /\ request' = [request EXCEPT ![r] =
                         [@ EXCEPT !.status = "Soumise",
                                   !.version = t.seen.version + 2]]
     \/ /\ \E c \in CycleIds : IsActiveCycle(r, c)
        /\ request' = [request EXCEPT ![r] =
                         [@ EXCEPT !.status = "Soumise",
                                   !.version = t.seen.version + 1]]
        /\ UNCHANGED cycle

\* request_correction_command: blind write, then the OPEN cycle is invalidated.
CommitCorrection(w) ==
  LET t == tx[w]
      r == t.request
  IN
  /\ Finish(w, {"correction"})
  /\ UNCHANGED <<revision, planningVersion>>
  /\ \/ /\ NoActiveCycle(r)
        /\ request' = [request EXCEPT ![r] =
                         [@ EXCEPT !.status = "A corriger",
                                   !.version = t.seen.version + 1]]
        /\ UNCHANGED cycle
     \/ \E c \in CycleIds :
          /\ IsActiveCycle(r, c)
          /\ request' = [request EXCEPT ![r] =
                           [@ EXCEPT !.status = "A corriger",
                                     !.version = t.seen.version + 2]]
          /\ cycle' = [cycle EXCEPT ![c].state = "INVALIDATED"]

\* modify_command without lines writes blindly; with lines, and for
\* replace_periods_command and extend_candidate_window, it is a CAS.
Writes(w) ==
  /\ Finish(w, {"modify", "replace"})
  /\ tx[w].command = "replace" => CasHolds(tx[w])

\* A draft is edited.
CommitModifyDraft(w) ==
  LET t == tx[w]
      r == t.request
  IN
  /\ Writes(w)
  /\ t.seen.status \in Draft
  /\ \E subject \in Subjects :
       request' = [request EXCEPT ![r] =
                     [@ EXCEPT !.subject = subject,
                               !.version = t.seen.version + 1]]
  /\ UNCHANGED <<cycle, revision, planningVersion>>

\* As if the OPEN snapshot were rewritten in place.
RefreshCycle_InPlace(r, version, subject) ==
  \E c \in CycleIds :
    /\ IsActiveCycle(r, c)
    /\ cycle[c].subject # subject
    /\ cycle' = [cycle EXCEPT ![c].subject = subject,
                              ![c].approvers = routing]

\* The OPEN snapshot of an edited submission is replaced by a new one.
RefreshCycle(r, version, subject) ==
  /\ request[r].status = "Soumise"
  /\ \E c \in CycleIds, d \in FreshCycles :
       /\ IsActiveCycle(r, c)
       /\ cycle[c].subject # subject
       /\ cycle' = [cycle EXCEPT ![c].state = "INVALIDATED",
                                 ![d] = OpenedCycle(r, version, subject)]

NothingToRefresh(r, subject) ==
  \/ request[r].status # "Soumise"
  \/ NoActiveCycle(r)
  \/ \E c \in CycleIds : IsActiveCycle(r, c) /\ cycle[c].subject = subject

\* A command on a submitted request.  All of them refresh the OPEN cycle save
\* extend_candidate_window, one of the CAS commands.
CommitModifySubmitted(w) ==
  LET t == tx[w]
      r == t.request
      version == t.seen.version + 1
  IN
  /\ Writes(w)
  /\ t.seen.status = "Soumise"
  /\ \E subject \in Subjects :
       \/ /\ RefreshCycle(r, version + 1, subject)
          /\ request' = [request EXCEPT ![r] =
                           [@ EXCEPT !.subject = subject,
                                     !.version = version + 2]]
       \/ /\ NothingToRefresh(r, subject) \/ t.command = "replace"
          /\ request' = [request EXCEPT ![r] =
                           [@ EXCEPT !.subject = subject, !.version = version]]
          /\ UNCHANGED cycle
  /\ UNCHANGED <<revision, planningVersion>>

\* select_alternative_command of the candidate: the selection is no part of
\* the subject and leaves the request row alone, but a submission whose OPEN
\* cycle no longer matches its subject gets a new one.
CommitSelect(w) ==
  LET t == tx[w]
      r == t.request
  IN
  /\ Finish(w, {"select"})
  /\ t.seen.status = "Soumise"
  /\ CasHolds(t)
  /\ RefreshCycle(r, t.seen.version + 1, request[r].subject)
  /\ request' = [request EXCEPT ![r] =
                   [@ EXCEPT !.version = t.seen.version + 2]]
  /\ UNCHANGED <<revision, planningVersion>>

\* set_demand_override: a new operational contact sends an approved request
\* back to approval, with a fresh cycle when it ever had one.
CommitContact(w) ==
  LET t == tx[w]
      r == t.request
      version == t.seen.version + 1
      reapproval == t.seen.status = "En planification"
      hadCycle == \E c \in CycleIds :
                    cycle[c] # Unused /\ cycle[c].request = r
  IN
  /\ Finish(w, {"contact"})
  /\ UNCHANGED <<revision, planningVersion>>
  /\ \/ /\ ~reapproval
        /\ request' = [request EXCEPT ![r] = [@ EXCEPT !.version = version]]
        /\ UNCHANGED cycle
     \/ /\ reapproval /\ NoActiveCycle(r) /\ hadCycle
        /\ request' = [request EXCEPT ![r] =
                         [@ EXCEPT !.status = "Soumise",
                                   !.version = version + 1]]
        /\ \E c \in FreshCycles :
             cycle' = [cycle EXCEPT
                         ![c] = OpenedCycle(r, version, request[r].subject)]
     \/ /\ reapproval
        /\ ~hadCycle \/ \E c \in CycleIds : IsActiveCycle(r, c)
        /\ request' = [request EXCEPT ![r] =
                         [@ EXCEPT !.status = "Soumise", !.version = version]]
        /\ UNCHANGED cycle

-----------------------------------------------------------------------------
(* Votes and the finalisation of a cycle.                                  *)

\* What a complete quorum does to a row: sync_approved materialises the new
\* revision, binds the requirements to it and switches the active reference;
\* the rebuild regenerates the engine output.
Approved_NotActivated(row, version, v, decisions) ==
  [row EXCEPT !.status = "En planification", !.version = version,
              !.plan = v, !.decisions = decisions]

Approved_LegacyStatus(row, version, v, decisions) ==
  [row EXCEPT !.status = "Approuvee", !.version = version,
              !.active = v, !.plan = v, !.decisions = decisions]

Approved(row, version, v, decisions) ==
  [row EXCEPT !.status = "En planification", !.version = version,
              !.active = v, !.plan = v, !.decisions = decisions]

CompletedCycle_LeftOpen(c, votes, v) == [c EXCEPT !.votes = votes]

CompletedCycle(c, votes, v) ==
  [c EXCEPT !.state = "COMPLETED", !.votes = votes, !.revision = v]

\* A vote whose session sees another subject than the cycle froze.
CommitStaleVote(w) ==
  LET t == tx[w]
      r == t.request
  IN
  /\ Finish(w, {"vote"})
  /\ t.stale
  /\ CasHolds(t)
  /\ IsActiveCycle(r, t.cycle)
  /\ request' = [request EXCEPT ![r] =
                   [@ EXCEPT !.version = t.seen.version + 1]]
  /\ cycle' = [cycle EXCEPT ![t.cycle].state = "INVALIDATED"]
  /\ UNCHANGED <<revision, planningVersion>>

VotesAfter(t) == cycle[t.cycle].votes \cup (t.targets \X {t.user})

\* Under the request CAS the cycle and the subject are read again.
VoteHolds(t) ==
  /\ CasHolds(t)
  /\ IsActiveCycle(t.request, t.cycle)
  /\ request[t.request].subject = cycle[t.cycle].subject

\* A vote that leaves a line without approval.
CommitPartialVote(w) ==
  LET t == tx[w]
      r == t.request
  IN
  /\ Finish(w, {"vote"})
  /\ ~t.stale
  /\ VoteHolds(t)
  /\ ~QuorumComplete(cycle[t.cycle].approvers, VotesAfter(t))
  /\ request' = [request EXCEPT ![r] =
                   [@ EXCEPT !.version = t.seen.version + 1]]
  /\ cycle' = [cycle EXCEPT ![t.cycle].votes = VotesAfter(t)]
  \* A vote expected to finalise has already taken the planning version.
  /\ IF t.finalizes THEN AcquirePlanning ELSE UNCHANGED planningVersion
  /\ UNCHANGED revision

\* A vote that completes the quorum, under the planning CAS it took first.
CommitFinalVote(w) ==
  LET t == tx[w]
      r == t.request
      c == cycle[t.cycle]
  IN
  /\ Finish(w, {"vote"})
  /\ ~t.stale /\ t.finalizes
  /\ VoteHolds(t)
  /\ QuorumComplete(c.approvers, VotesAfter(t))
  /\ request[r].status = "Soumise"
  /\ MayMaterialise(request[r])
  /\ \E v \in FreshRevisions, decisions \in Rebuilt(request[r].decisions) :
       /\ request' = [request EXCEPT ![r] =
                        Approved(@, t.seen.version + 1, v, decisions)]
       /\ cycle' = [cycle EXCEPT ![t.cycle] =
                      CompletedCycle(c, VotesAfter(t), v)]
       /\ revision' = [revision EXCEPT ![v] =
                         CapturedRevision(r, request[r].active, c)]
  /\ AcquirePlanning

-----------------------------------------------------------------------------
(* modify_command on an approved request: the candidate is compared with   *)
(* the active approved revision.                                           *)

WithinEnvelope_Converse(r, subject) ==
  LET approved == revision[request[r].active].subject
  IN  approved = subject \/ <<subject, approved>> \in Delegated

WithinEnvelope(r, subject) ==
  LET approved == revision[request[r].active].subject
  IN  approved = subject \/ <<approved, subject>> \in Delegated

BeginsApproved(w) ==
  /\ Writes(w)
  /\ tx[w].seen.status = "En planification"

\* The candidate stays inside the envelope; a delegated budget change also
\* resynchronises the active plan and rebuilds it.
CommitModifyWithin(w) ==
  LET t == tx[w]
      r == t.request
  IN
  /\ BeginsApproved(w)
  /\ \E subject \in Subjects :
       /\ WithinEnvelope(r, subject)
       /\ \/ /\ request' = [request EXCEPT ![r] =
                              [@ EXCEPT !.subject = subject,
                                        !.version = t.seen.version + 1]]
             /\ UNCHANGED planningVersion
          \/ /\ revision[request[r].active].subject # subject
             /\ MayMaterialise(request[r])
             /\ \E decisions \in Rebuilt(request[r].decisions) :
                  request' = [request EXCEPT ![r] =
                                [@ EXCEPT !.subject = subject,
                                          !.version = t.seen.version + 1,
                                          !.plan = request[r].active,
                                          !.decisions = decisions]]
             /\ AcquirePlanning
  /\ UNCHANGED <<cycle, revision>>

\* The cycle a reapproval votes on: the OPEN one, or a new one.
EnsuredCycles(r, version, subject) ==
  IF NoActiveCycle(r)
  THEN {[id |-> c, cycle |-> OpenedCycle(r, version, subject),
         version |-> version + 1] : c \in FreshCycles}
  ELSE {[id |-> c, cycle |-> cycle[c], version |-> version]
          : c \in {d \in CycleIds : IsActiveCycle(r, d)}}

\* The actor cannot vote: the request waits for its approvers.  An actor with
\* approve_demands has taken the planning version before knowing that.
CommitReapproval(w) ==
  LET t == tx[w]
      r == t.request
  IN
  /\ BeginsApproved(w)
  /\ \E subject \in Subjects, approver \in BOOLEAN :
       /\ ~WithinEnvelope(r, subject)
       /\ \E e \in EnsuredCycles(r, t.seen.version + 1, subject) :
            /\ approver => \E user \in Users :
                              EligibleLines(e.cycle.approvers, user) = {}
            /\ request' = [request EXCEPT ![r] =
                             [@ EXCEPT !.status = "Soumise",
                                       !.subject = subject,
                                       !.version = e.version]]
            /\ cycle' = [cycle EXCEPT ![e.id] = e.cycle]
       /\ IF approver THEN AcquirePlanning ELSE UNCHANGED planningVersion
  /\ UNCHANGED revision

\* The row that a direct approval writes, and the votes it ends up with.
DirectRow(r, e, subject) ==
  [request[r] EXCEPT !.status = "Soumise", !.subject = subject,
                     !.version = e.version + 1]

DirectVotes(e, user) ==
  e.cycle.votes \cup (EligibleLines(e.cycle.approvers, user) \X {user})

\* The OPEN cycle froze another subject than the candidate.
DirectlyInvalidates(r, e, subject) ==
  /\ e.cycle.subject # subject
  /\ request' = [request EXCEPT ![r] = DirectRow(r, e, subject)]
  /\ cycle' = [cycle EXCEPT ![e.id].state = "INVALIDATED"]
  /\ UNCHANGED revision

\* A line remains without approval.
DirectlyVotes(r, e, subject, user) ==
  /\ e.cycle.subject = subject
  /\ ~QuorumComplete(e.cycle.approvers, DirectVotes(e, user))
  /\ request' = [request EXCEPT ![r] = DirectRow(r, e, subject)]
  /\ cycle' = [cycle EXCEPT ![e.id] =
                 [e.cycle EXCEPT !.votes = DirectVotes(e, user)]]
  /\ UNCHANGED revision

DirectlyApproves(r, e, subject, user) ==
  /\ e.cycle.subject = subject
  /\ QuorumComplete(e.cycle.approvers, DirectVotes(e, user))
  /\ MayMaterialise(DirectRow(r, e, subject))
  /\ \E v \in FreshRevisions, decisions \in Rebuilt(request[r].decisions) :
       /\ request' = [request EXCEPT ![r] =
                        Approved(DirectRow(r, e, subject), e.version + 1, v,
                                 decisions)]
       /\ cycle' = [cycle EXCEPT ![e.id] =
                      CompletedCycle(e.cycle, DirectVotes(e, user), v)]
       /\ revision' = [revision EXCEPT ![v] =
                         CapturedRevision(r, request[r].active, e.cycle)]

\* The actor is an approver: it approves every line it may in the same
\* transaction, and the plan changes only if that completes the quorum.
CommitDirectApproval(w) ==
  LET t == tx[w]
      r == t.request
  IN
  /\ BeginsApproved(w)
  /\ \E subject \in Subjects, user \in Users :
       /\ ~WithinEnvelope(r, subject)
       /\ \E e \in EnsuredCycles(r, t.seen.version + 1, subject) :
            /\ EligibleLines(e.cycle.approvers, user) # {}
            /\ \/ DirectlyInvalidates(r, e, subject)
               \/ DirectlyVotes(r, e, subject, user)
               \/ DirectlyApproves(r, e, subject, user)
  /\ AcquirePlanning

-----------------------------------------------------------------------------
(* Cancellation.                                                           *)

\* Every active requirement is cancelled and every quart of it deleted.
Released(row) ==
  [row EXCEPT !.status = "Annulee", !.plan = NoRevision, !.decisions = "NONE"]

\* cancel_materialized cancels the requirements it read: a plan materialised
\* since then keeps those that are new, and the rebuild fills them.
CancelledRows(t) ==
  LET row == request[t.request]
      kept == [row EXCEPT !.status = "Annulee"]
  IN
  IF row.plan \in {t.seen.plan, NoRevision}
  THEN {Released(row)}
  ELSE {[kept EXCEPT !.decisions = decisions]
          : decisions \in Rebuilt(row.decisions)}
       \cup (IF t.seen.plan = NoRevision THEN {} ELSE {Released(row)})

\* cancel_command, after it saw neither quart nor pending request.  It is a
\* CAS only when the client sent a version: the blind form is modelled.
CommitCancel(w) ==
  LET t == tx[w]
      r == t.request
  IN
  /\ Finish(w, {"cancel"})
  /\ \E row \in CancelledRows(t) :
       \/ /\ NoActiveCycle(r)
          /\ request' = [request EXCEPT
                           ![r] = [row EXCEPT !.version = t.seen.version + 1]]
          /\ UNCHANGED cycle
       \/ \E c \in CycleIds :
            /\ IsActiveCycle(r, c)
            /\ request' = [request EXCEPT
                             ![r] = [row EXCEPT !.version = t.seen.version + 2]]
            /\ cycle' = [cycle EXCEPT ![c].state = "INVALIDATED"]
  /\ AcquirePlanning
  /\ UNCHANGED revision

\* request_cancellation_command: the OPEN cycle is invalidated too.
CommitRequestCancellation(w) ==
  LET t == tx[w]
      r == t.request
      asked(version) ==
        [request[r] EXCEPT !.cancellation = "PENDING", !.version = version,
                           !.cancellationId = @ + 1]
  IN
  /\ Finish(w, {"requestCancellation"})
  /\ CasHolds(t)
  /\ request[r].cancellationId < MaxCancellations
  /\ \/ /\ NoActiveCycle(r)
        /\ request' = [request EXCEPT ![r] = asked(t.seen.version + 1)]
        /\ UNCHANGED cycle
     \/ \E c \in CycleIds :
          /\ IsActiveCycle(r, c)
          /\ request' = [request EXCEPT ![r] = asked(t.seen.version + 2)]
          /\ cycle' = [cycle EXCEPT ![c].state = "INVALIDATED"]
  /\ UNCHANGED <<revision, planningVersion>>

\* accept_cancellation_command: planning CAS, fresh reread, request CAS, then
\* every decision of the request is released.  No cycle is touched.
CommitAcceptCancellation(w) ==
  LET t == tx[w]
      r == t.request
  IN
  /\ Finish(w, {"acceptCancellation"})
  /\ CasHolds(t)
  /\ request[r].cancellation = "PENDING"
  /\ request[r].cancellationId = t.seen.cancellationId
  /\ request' = [request EXCEPT ![r] =
                   [Released(@) EXCEPT !.cancellation = "ACCEPTED",
                                       !.version = t.seen.version + 1]]
  /\ AcquirePlanning
  /\ UNCHANGED <<cycle, revision>>

\* reject_cancellation_command: the pending state was checked before the CAS.
CommitRejectCancellation(w) ==
  LET t == tx[w]
      r == t.request
  IN
  /\ Finish(w, {"rejectCancellation"})
  /\ CasHolds(t)
  /\ request' = [request EXCEPT ![r] =
                   [@ EXCEPT !.cancellation = "REJECTED",
                             !.version = t.seen.version + 1]]
  /\ UNCHANGED <<cycle, revision, planningVersion>>

-----------------------------------------------------------------------------
Command(w) ==
  \/ \E r \in Requests, command \in Commands : Begin(w, r, command)
  \/ \E r \in Requests : BeginVote(w, r)
  \/ Reread(w)
  \/ CommitSubmit(w) \/ CommitCorrection(w)
  \/ CommitModifyDraft(w) \/ CommitModifySubmitted(w)
  \/ CommitSelect(w) \/ CommitContact(w)
  \/ CommitStaleVote(w) \/ CommitPartialVote(w) \/ CommitFinalVote(w)
  \/ CommitModifyWithin(w) \/ CommitReapproval(w) \/ CommitDirectApproval(w)
  \/ CommitCancel(w) \/ CommitRequestCancellation(w)
  \/ CommitAcceptCancellation(w) \/ CommitRejectCancellation(w)
  \/ Rollback(w)

Next ==
  \/ \E r \in Requests, submit \in BOOLEAN : Create(r, submit)
  \/ \E r \in Requests : EditPlan(r)
  \/ ChangeRouting
  \/ \E w \in Workers : Command(w)

Spec == Init /\ [][Next]_vars

-----------------------------------------------------------------------------
(* Properties that hold under every interleaving of the commands.          *)

Created(c) == cycle[c] # Unused

Captured(v) == revision[v] # Unused

\* get_active_cycle treats a second OPEN cycle as corrupt data, and no unique
\* constraint of the schema forbids one: every path that opens a cycle must
\* have looked for an OPEN one while it held the row.
AtMostOneOpenCycle ==
  \A c, d \in CycleIds :
    /\ Created(c) /\ cycle[c].state = "OPEN"
    /\ Created(d) /\ cycle[d].state = "OPEN"
    /\ cycle[c].request = cycle[d].request
    => c = d

\* ADR-010: a cycle completes only when every line was approved by one of the
\* approvers frozen at submission, whatever the routing became since, and the
\* revision it is bound to captured the very subject they voted on.
CompletedByFrozenQuorum ==
  \A c \in CycleIds :
    Created(c) /\ cycle[c].state = "COMPLETED" =>
      LET k == cycle[c]
          v == revision[k.revision]
      IN
      /\ \A line \in Lines :
           \E user \in k.approvers[line] : <<line, user>> \in k.votes
      /\ \A vote \in k.votes : vote[2] \in k.approvers[vote[1]]
      /\ k.revision \in RevisionIds /\ Captured(k.revision)
      /\ v.request = k.request /\ v.subject = k.subject
      /\ v.version = k.submitted

\* Every approved revision is the outcome of exactly one completed cycle: no
\* path materialises an authorisation around the quorum, and none twice.
RevisionsComeFromCycles ==
  \A v \in RevisionIds :
    Captured(v) =>
      /\ \E c \in CycleIds :
           /\ Created(c) /\ cycle[c].state = "COMPLETED"
           /\ cycle[c].revision = v
      /\ \A c, d \in CycleIds :
           Created(c) /\ Created(d) /\ cycle[c].revision = v
           /\ cycle[d].revision = v => c = d

\* ADR-003/004: what is materialised is always the active approved revision of
\* the request, never a candidate; it stays while a reapproval is pending.
PlanIsActiveRevision ==
  \A r \in Requests :
    LET row == request[r] IN
    /\ row.plan \in {NoRevision, row.active}
    /\ row.active # NoRevision =>
         Captured(row.active) /\ revision[row.active].request = r
    /\ row.decisions # "NONE" => row.plan # NoRevision

\* The revisions of a request form one line of history: no two revisions claim
\* the same predecessor, even when two approvals race.
RevisionHistoryLinear ==
  \A u, v \in RevisionIds :
    /\ Captured(u) /\ Captured(v)
    /\ revision[u].request = revision[v].request
    /\ revision[u].previous = revision[v].previous
    => u = v

\* A closed cycle and a captured revision never change; an OPEN cycle keeps the
\* subject and approvers of its submission and only gains votes.
HistoryKept ==
  /\ \A c \in CycleIds :
       Created(c) =>
         /\ Created(c)'
         /\ cycle[c].state # "OPEN" => cycle'[c] = cycle[c]
         /\ cycle'[c].request = cycle[c].request
         /\ cycle'[c].submitted = cycle[c].submitted
         /\ cycle'[c].subject = cycle[c].subject
         /\ cycle'[c].approvers = cycle[c].approvers
         /\ cycle[c].votes \subseteq cycle'[c].votes
  /\ \A v \in RevisionIds : Captured(v) => revision'[v] = revision[v]

HistoryIsFrozen == [][HistoryKept]_vars

\* ADR-006: a step that changes the materialised plan or a decision in it has
\* advanced the global planning version.
PlanUnderPlanningVersion ==
  [][ (\E r \in Requests :
         \/ request'[r].plan # request[r].plan
         \/ request'[r].decisions # request[r].decisions)
      => planningVersion' # planningVersion ]_vars

\* ADR-009: accepting a cancellation releases every decision of the request,
\* and no transaction that read the request before brings a plan back.
AcceptedHoldsNoPlan ==
  \A r \in Requests :
    request[r].cancellation = "ACCEPTED" =>
      request[r].plan = NoRevision /\ request[r].decisions = "NONE"

-----------------------------------------------------------------------------
(* Properties that hold when commands run one after the other.  The blind  *)
(* writes break them when a worker commits on a stale read.                *)

\* Votes are open only on a submitted request, save the submission that an
\* accepted cancellation closes without touching its cycle.
OpenCycleMeansSubmitted ==
  \A c \in CycleIds :
    Created(c) /\ cycle[c].state = "OPEN" =>
      LET row == request[cycle[c].request] IN
      row.status = "Soumise" \/ row.cancellation = "ACCEPTED"

\* ADR-004: while a request counts as approved, what it asks for is what its
\* active revision authorises, up to the delegated tolerance, the plan is that
\* revision, and no vote on another subject is pending.
ApprovedIsAuthorised ==
  \A r \in Requests :
    LET row == request[r]
        approved == revision[row.active].subject
    IN
    row.status = "En planification" =>
      /\ row.active # NoRevision /\ row.plan = row.active
      /\ approved = row.subject \/ <<approved, row.subject>> \in Delegated
      /\ \A c \in CycleIds :
           Created(c) /\ cycle[c].request = r => cycle[c].state # "OPEN"

\* A cancelled request has no active requirement, so that no rebuild fills it.
CancelledHoldsNoPlan ==
  \A r \in Requests :
    request[r].status = "Annulee" =>
      request[r].plan = NoRevision /\ request[r].decisions = "NONE"

\* What the status of a request promises, and others read from it: votes are
\* open, the plan is authorised, or nothing of it is left.
StatusIsEarned ==
  OpenCycleMeansSubmitted /\ ApprovedIsAuthorised /\ CancelledHoldsNoPlan

\* Cancellation is terminal: no command brings a cancelled request back.
CancelledIsFinal ==
  [][ \A r \in Requests :
        request[r].status = "Annulee" => request'[r].status = "Annulee" ]_vars

\* ADR-009: a cancellation request is decided once.  Its acceptance or its
\* rejection stands until somebody asks for another cancellation.
CancellationDecidedOnce ==
  [][ \A r \in Requests :
        /\ request[r].cancellation \in {"ACCEPTED", "REJECTED"}
        /\ request'[r].cancellationId = request[r].cancellationId
        => request'[r].cancellation = request[r].cancellation ]_vars

\* A direct cancellation never deletes a quart that a person locked: the
\* person releases it first, or the coordinator accepts a cancellation request.
DirectCancelKeepsLocked ==
  [][ \A r \in Requests :
        /\ request'[r].status = "Annulee" /\ request[r].status # "Annulee"
        /\ request'[r].cancellation # "ACCEPTED"
        /\ request[r].decisions = "LOCKED"
        => request'[r].decisions = "LOCKED" ]_vars


=============================================================================
