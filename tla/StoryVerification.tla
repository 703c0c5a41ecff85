-------------------------- MODULE StoryVerification --------------------------
(***************************************************************************)
(* Delivery plans, their stories, and how stories are verified (ADR-008,   *)
(* ADR-023), for one work package.                                         *)
(*                                                                         *)
(* A plan and its stories change under delivery_version, the scope with    *)
(* its requirements, decisions, executors and executions under             *)
(* verification_version; completing a story takes both.  A story becomes   *)
(* DONE only with a decision how it is verified.                           *)
(*                                                                         *)
(* A client sends the versions it saw on the board, which Begin takes      *)
(* together with the reads of the service; Commit has the writes.  TODO    *)
(* stands for IN_PROGRESS and BLOCKED too: all capture the reference       *)
(* estimate.  A replayed command writes nothing (CommandReceipts).         *)
(***************************************************************************)
EXTENDS Records

CONSTANTS
  Plans, Stories, Requirements, Executors,
  Estimates,      \* hours a story may be estimated at
  DoneBefore,     \* stories that were DONE before decisions were recorded
  Reviving,       \* TRUE: a story cancelled from the backlog may come back
  StoryCommands, \* the commands an instance runs
  MaxDelivery, MaxVerification,  \* bounds on the two versions
  MaxExecutions   \* bound on the executions of a requirement

VARIABLES
  plan,         \* DeliveryPlanRow: status and delivery_version
  story,        \* DeliveryItemRow of type STORY
  scope,        \* verification_version of the scope, 0 while there is none
  requirement,  \* the story a requirement is defined for, or None
  decided,      \* decisions of the scope, with what they rely on
  assigned,     \* active executors of each requirement
  executions,   \* executors of the executions of each requirement, in order
  retestAfter,  \* sequence the latest retest request came after
  closing       \* transaction of each worker

deliveryVars == <<plan, story>>
verificationVars ==
  <<scope, requirement, decided, assigned, executions, retestAfter>>
storyVars == <<deliveryVars, verificationVars, closing>>

StoryStatuses == {"BACKLOG", "TODO", "DONE", "CANCELLED"}
CaptureStatuses == {"TODO", "DONE"}
Plan == [status: {"ABSENT", "DRAFT", "ACTIVE", "ARCHIVED"},
         version: 0 .. MaxDelivery]
Story == [plan: Plans, status: StoryStatuses,
          estimate: Estimates \cup {None}, reference: Estimates \cup {None}]
Decision == [story: Stories, kind: {"TESTS_DEFINED", "NO_TEST_REQUIRED"},
             requirements: SUBSET Requirements]

ASSUME VerificationAssumption ==
  /\ DoneBefore \subseteq Stories /\ None \notin Stories \cup Story
  /\ MaxDelivery \in Nat \ {0} /\ MaxVerification \in Nat

StoryTypeOK ==
  /\ plan \in [Plans -> Plan]
  /\ story \in [Stories -> Story \cup {None}]
  /\ scope \in 0 .. MaxVerification
  /\ requirement \in [Requirements -> Stories \cup {None}]
  /\ decided \subseteq Decision
  /\ assigned \in [Requirements -> SUBSET Executors]
  /\ \A q \in Requirements :
       /\ executions[q] \in Seq(Executors)
       /\ retestAfter[q] \in 0 .. Len(executions[q])
  /\ \A w \in Workers : closing[w] # Idle =>
       closing[w].command \in StoryCommands

DecisionsOn(s) == {d \in decided : d.story = s}
ActivePlans == {p \in Plans : plan[p].status \notin {"ABSENT", "ARCHIVED"}}
Defined == {q \in Requirements : requirement[q] # None}

\* project_requirement_status, for the only revision a requirement has.
NotRun(q) == Len(executions[q]) <= retestAfter[q]

-----------------------------------------------------------------------------
(* Story transitions.                                                      *)

\* Leaving the backlog captures the estimate as reference, once.
Transitioned(row, to) ==
  [row EXCEPT !.status = to,
     !.reference = IF @ = None /\ row.status = "BACKLOG"
                      /\ to \in CaptureStatuses
                   THEN row.estimate ELSE @]

Reestimated_Overwrites(row, hours) ==
  [row EXCEPT !.estimate = hours,
     !.reference = IF row.status \in CaptureStatuses THEN hours ELSE @]

Reestimated(row, hours) ==
  [row EXCEPT !.estimate = hours,
     !.reference = IF @ = None /\ row.status \in CaptureStatuses
                   THEN hours ELSE @]

PlanTransitions_Closed == [DRAFT |-> "ACTIVE", ACTIVE |-> "CLOSED"]

PlanTransitions == [DRAFT |-> "ACTIVE", ACTIVE |-> "ARCHIVED"]

Revived(row) == row.status = "CANCELLED" /\ row.reference = None

MayTransition_Free(row, to) == Revived(row) => Reviving

\* Only a recorded decision makes a story DONE; one that is may leave it.
MayTransition(row, to) ==
  /\ to = "DONE" => row.status = "DONE"
  /\ Revived(row) => Reviving

\* What one update may make of a row: an estimate, a status, or both, and then
\* the estimate first.
Updated(row) ==
  LET estimated == {row} \cup
        {Reestimated(row, hours) : hours \in Estimates \cup {None}}
  IN estimated \cup
       {Transitioned(new, to) : new \in estimated,
          to \in {to \in StoryStatuses \ {row.status} :
                   MayTransition(row, to)}}

-----------------------------------------------------------------------------
(* Transactions.                                                           *)

Start(w, command, p, read) ==
  /\ command \in StoryCommands
  /\ closing[w] = Idle
  /\ closing' = [closing EXCEPT ![w] =
       [command |-> command, plan |-> p, delivery |-> plan[p].version,
        verification |-> scope, read |-> read]]
  /\ UNCHANGED <<deliveryVars, verificationVars>>

Finish(w, command) ==
  /\ closing[w].command = command
  /\ closing' = [closing EXCEPT ![w] = Idle]

DeliveryHolds_Ignored(t) == plan[t.plan].status # "ABSENT"

DeliveryHolds(t) == plan[t.plan].version = t.delivery

\* compare_and_increment_version of the plan, with the plan's new status.
DeliveryMoves(t, status) ==
  /\ DeliveryHolds(t)
  /\ plan[t.plan].version < MaxDelivery
  /\ plan' = [plan EXCEPT ![t.plan] =
                [status |-> status, version |-> @.version + 1]]

VerificationHolds_Ignored(t) == t.verification = 0 => scope = 0

VerificationHolds(t) == scope = t.verification

\* A scope that was absent when its client looked is created, else its
\* version is compared and incremented.
VerificationMoves(t) ==
  /\ VerificationHolds(t)
  /\ scope < MaxVerification
  /\ scope' = scope + 1

Abandon(w) ==
  /\ closing[w] # Idle
  /\ closing' = [closing EXCEPT ![w] = Idle]
  /\ UNCHANGED <<deliveryVars, verificationVars>>

-----------------------------------------------------------------------------
(* Delivery commands.                                                      *)

Editable(p) == plan[p].status \in {"DRAFT", "ACTIVE"}

BeginDelivery(w) ==
  \/ \E p \in Plans :
       /\ plan[p].status = "ABSENT" /\ ActivePlans = {}
       /\ Start(w, "createPlan", p, None)
  \/ \E p \in ActivePlans :
       \/ Start(w, "planStatus", p, plan[p].status)
       \/ Editable(p) /\ (Start(w, "createStory", p, None)
                            \/ Start(w, "note", p, None))
  \/ \E s \in Stories :
       /\ story[s] # None /\ Editable(story[s].plan)
       /\ Start(w, "update", story[s].plan, [story |-> s, row |-> story[s]])

\* A unique index allows one plan that is not archived.
CommitCreatePlan(w) ==
  LET t == closing[w] IN
  /\ Finish(w, "createPlan")
  /\ ActivePlans = {} /\ plan[t.plan].status = "ABSENT"
  /\ plan' = [plan EXCEPT ![t.plan] = [status |-> "DRAFT", version |-> 1]]
  /\ UNCHANGED <<story, verificationVars>>

CommitPlanStatus(w) ==
  LET t == closing[w] IN
  /\ Finish(w, "planStatus")
  /\ DeliveryMoves(t, PlanTransitions[t.read])
  /\ UNCHANGED <<story, verificationVars>>

CommitCreateStory(w) ==
  LET t == closing[w]
      row(hours) == [plan |-> t.plan, status |-> "BACKLOG",
                     estimate |-> hours, reference |-> None]
  IN
  /\ Finish(w, "createStory")
  /\ DeliveryMoves(t, plan[t.plan].status)
  /\ \E s \in {s \in Stories : story[s] = None},
        hours \in Estimates \cup {None}, to \in StoryStatuses \ {"DONE"} :
       story' = [story EXCEPT ![s] = Transitioned(row(hours), to)]
  /\ UNCHANGED verificationVars

\* The whole row is written as it was read, with what the client changes.
CommitUpdate(w) ==
  LET t == closing[w]
      row == t.read.row
  IN
  /\ Finish(w, "update")
  /\ DeliveryMoves(t, plan[t.plan].status)
  /\ \E new \in Updated(row) \ {row} :
       story' = [story EXCEPT ![t.read.story] = new]
  /\ UNCHANGED verificationVars

\* set_lead and document_blockage change nothing modelled but the version.
CommitNote(w) ==
  LET t == closing[w] IN
  /\ Finish(w, "note")
  /\ DeliveryMoves(t, plan[t.plan].status)
  /\ UNCHANGED <<story, verificationVars>>

-----------------------------------------------------------------------------
(* Closure of a story, and the decision on one that was DONE before.       *)

BeginClosure(w) ==
  \E s \in Stories, command \in {"complete", "historical"} :
    /\ story[s] # None
    /\ Start(w, command, story[s].plan,
         [story |-> s, row |-> story[s],
          status |-> plan[story[s].plan].status])

\* Requirements of the scope that a decision on the story may rely on.
Relied(s) == {q \in Defined : requirement[q] = s}

Decides(s, kind, existing, new) ==
  /\ kind = "NO_TEST_REQUIRED" <=> existing \cup new = {}
  /\ requirement' = [q \in Requirements |->
                       IF q \in new THEN s ELSE requirement[q]]
  /\ decided' = decided \cup
       {[story |-> s, kind |-> kind, requirements |-> existing \cup new]}
  /\ UNCHANGED <<assigned, executions, retestAfter>>

RecordsDecision(s) ==
  \E kind \in {"TESTS_DEFINED", "NO_TEST_REQUIRED"},
     existing \in SUBSET Relied(s),
     new \in SUBSET (Requirements \ Defined) :
    Decides(s, kind, existing, new)

CommitComplete(w) ==
  LET t == closing[w]
      s == t.read.story
  IN
  /\ Finish(w, "complete")
  /\ t.read.status # "ARCHIVED" /\ t.read.row.status # "DONE"
  /\ Revived(t.read.row) => Reviving
  /\ DeliveryMoves(t, plan[t.plan].status)
  /\ VerificationMoves(t)
  /\ RecordsDecision(s)
  /\ story' = [story EXCEPT ![s] = Transitioned(t.read.row, "DONE")]

\* guard_version holds the plan's version without incrementing it.
CommitHistorical(w) ==
  LET t == closing[w]
      s == t.read.story
  IN
  /\ Finish(w, "historical")
  /\ t.read.row.status = "DONE"
  /\ DecisionsOn(s) = {}
  /\ DeliveryHolds(t)
  /\ VerificationMoves(t)
  /\ RecordsDecision(s)
  /\ UNCHANGED deliveryVars

-----------------------------------------------------------------------------
(* Executors, executions and retests.                                      *)

BeginExecution(w) ==
  \E q \in Defined :
    LET p == story[requirement[q]].plan
        read(e) == [requirement |-> q, executor |-> e,
                    latest |-> Len(executions[q])]
    IN
    \/ \E e \in Executors \ assigned[q] : Start(w, "assign", p, read(e))
    \/ \E e \in assigned[q] :
         \/ Start(w, "unassign", p, read(e))
         \/ Start(w, "record", p, read(e))
    \/ Len(executions[q]) > 0 /\ Start(w, "retest", p, read(None))

CommitAssignment(w) ==
  LET t == closing[w]
      q == t.read.requirement
      e == t.read.executor
  IN
  /\ \/ Finish(w, "assign")
        /\ assigned' = [assigned EXCEPT ![q] = @ \cup {e}]
     \/ Finish(w, "unassign")
        /\ assigned' = [assigned EXCEPT ![q] = @ \ {e}]
  /\ VerificationMoves(t)
  /\ UNCHANGED <<deliveryVars, requirement, decided, executions, retestAfter>>

\* The sequence is one more than the latest read once the version is taken.
\* An evidence link changes nothing modelled but the version.
CommitRecord(w) ==
  LET t == closing[w]
      q == t.read.requirement
      e == t.read.executor
  IN
  /\ Finish(w, "record")
  /\ VerificationMoves(t)
  /\ e \in assigned[q]
  /\ Len(executions[q]) < MaxExecutions
  /\ executions' = [executions EXCEPT ![q] = Append(@, e)]
  /\ UNCHANGED <<deliveryVars, requirement, decided, assigned, retestAfter>>

\* The latest sequence was read before the version was taken.  Of several
\* requests the greatest sequence counts.
CommitRetest(w) ==
  LET t == closing[w]
      q == t.read.requirement
  IN
  /\ Finish(w, "retest")
  /\ VerificationMoves(t)
  /\ retestAfter' = [retestAfter EXCEPT
                       ![q] = IF t.read.latest > @ THEN t.read.latest ELSE @]
  /\ UNCHANGED <<deliveryVars, requirement, decided, assigned, executions>>

-----------------------------------------------------------------------------
StoryInit ==
  /\ \E p \in Plans :
       /\ plan = [x \in Plans |-> IF x = p
                    THEN [status |-> "ACTIVE", version |-> 1]
                    ELSE [status |-> "ABSENT", version |-> 0]]
       /\ story = [s \in Stories |-> IF s \in DoneBefore
                     THEN [plan |-> p, status |-> "DONE",
                           estimate |-> None, reference |-> None]
                     ELSE None]
  /\ scope = 0
  /\ requirement = [q \in Requirements |-> None]
  /\ decided = {}
  /\ assigned = [q \in Requirements |-> {}]
  /\ executions = [q \in Requirements |-> <<>>]
  /\ retestAfter = [q \in Requirements |-> 0]
  /\ closing = [w \in Workers |-> Idle]

StoryNext ==
  \E w \in Workers :
    \/ BeginDelivery(w) \/ BeginClosure(w) \/ BeginExecution(w)
    \/ CommitCreatePlan(w) \/ CommitPlanStatus(w)
    \/ CommitCreateStory(w) \/ CommitUpdate(w) \/ CommitNote(w)
    \/ CommitComplete(w) \/ CommitHistorical(w)
    \/ CommitAssignment(w) \/ CommitRecord(w) \/ CommitRetest(w)
    \/ Abandon(w)

StorySpec == StoryInit /\ [][StoryNext]_storyVars

-----------------------------------------------------------------------------
(* Properties.                                                             *)

\* ADR-023: a story that is DONE has a decision how it is verified, unless it
\* was DONE before decisions were recorded; the tests that a decision relies on
\* are those of its own story.
DoneIsDecided ==
  /\ \A s \in Stories \ DoneBefore :
       story[s] # None /\ story[s].status = "DONE" => DecisionsOn(s) # {}
  /\ \A d \in decided : \A q \in d.requirements : requirement[q] = d.story

\* The reference estimate by which progress is weighed (ADR-008) is captured
\* as soon as an estimated story is committed, by whatever order of estimates
\* and transitions but a return from CANCELLED, and is never rewritten.
ReferenceIsCapturedOnce ==
  [][\A s \in Stories : story'[s] # None =>
       /\ story'[s].status \in CaptureStatuses /\ story'[s].estimate # None
            => story'[s].reference # None
       /\ story[s] # None /\ story[s].reference # None
            => story'[s].reference = story[s].reference]_storyVars

\* Nothing touches an archived plan or its stories, also no command that read
\* the plan before it was archived.
ArchivedIsFrozen ==
  [][\A p \in Plans : plan[p].status = "ARCHIVED" =>
       /\ plan'[p] = plan[p]
       /\ \A s \in Stories : story[s] # None /\ story[s].plan = p =>
            story'[s] = story[s]]_storyVars

\* A retest request leaves its requirement unverified: no execution recorded
\* before it, not even one that raced with it, counts as the retest.
RetestIsUnanswered ==
  [][\A q \in Requirements :
       retestAfter'[q] # retestAfter[q] => NotRun(q)']_storyVars
=============================================================================
