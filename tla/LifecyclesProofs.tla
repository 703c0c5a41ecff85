-------------------------- MODULE LifecyclesProofs ---------------------------
(***************************************************************************)
(* Proofs about the smaller lifecycles around the planning.                *)
(*                                                                         *)
(* StoryVerification, for any number of plans, stories, requirements and   *)
(* overlapping transactions, and versions of any size. A transaction       *)
(* decides on what it read and writes when a version is still the one it   *)
(* saw. What makes that enough is Seen: as long as the version is the one  *)
(* it saw, what it read is still so.                                       *)
(*                                                                         *)
(* Communications, for any batches, messages and number of simultaneous    *)
(* sendings, where the other commands do not overlap (~ Overlapping): two  *)
(* people may press send at once, and retry. An effect that reached the    *)
(* outside more often than its track was lost did so once more, and        *)
(* somebody remembers it: the row of the delivery or of the batch, or the  *)
(* one transaction that is about to write it. What was told is in order,   *)
(* so that a change since can still be told.                               *)
(*                                                                         *)
(* PlanMaterialisation, for any definitions of a plan. PlanInv is          *)
(* inductive: what is laid out is what the revision authorises, and        *)
(* locked shifts fit in what is asked for.                                 *)
(*                                                                         *)
(* LifecyclesInv is inductive for the moves of every part of MCLifecycles, *)
(* the engine included, and gives their types.                             *)
(***************************************************************************)
EXTENDS MCLifecycles, EngineProofs

-----------------------------------------------------------------------------
(* Stories: what a transaction has seen.                                    *)

StoryRows ==
  /\ plan \in [Plans -> [status: {"ABSENT", "DRAFT", "ACTIVE", "ARCHIVED"},
                         version: Nat]]
  /\ story \in [Stories -> Story \cup {None}]
  /\ scope \in Nat
  /\ requirement \in [Requirements -> Stories \cup {None}]
  /\ decided \subseteq Decision
  /\ assigned \in [Requirements -> SUBSET Executors]
  /\ executions \in [Requirements -> Seq(Executors)]
  /\ retestAfter \in [Requirements -> Nat]
  /\ DOMAIN closing = Workers

\* A plan has a version once it exists, stories are of plans that exist and
\* requirements of stories that exist.
PlansExist ==
  /\ \A p \in Plans : plan[p].status = "ABSENT" => plan[p].version = 0
  /\ \A s \in Stories : story[s] # None => plan[story[s].plan].status # "ABSENT"
  /\ \A q \in Requirements :
       requirement[q] # None => story[requirement[q]] \in Story

OfStory == {"update", "complete", "historical"}
OfRequirement == {"assign", "unassign", "record", "retest"}

\* What a transaction has read and, while the versions stay, finds again.
Known(t) ==
  /\ t.plan \in Plans /\ t.delivery \in Nat /\ t.verification \in Nat
  /\ t.command = "planStatus" => t.read \in {"DRAFT", "ACTIVE"}
  /\ t.command \in OfStory =>
       /\ t.read.story \in Stories
       /\ t.read.row \in Story /\ t.read.row.plan = t.plan
  /\ t.command \in OfRequirement => t.read.requirement \in Requirements
  /\ t.command \in {"assign", "unassign"} => t.read.executor \in Executors
  /\ t.command = "retest" => t.read.latest \in Nat

PlanSeen(t) ==
  /\ t.command = "planStatus" => plan[t.plan].status = t.read
  /\ t.command \in {"createStory", "note", "update"} => Editable(t.plan)
  /\ t.command \in OfStory => story[t.read.story] = t.read.row
  /\ t.command = "complete" => plan[t.plan].status = t.read.status

Seen(t) ==
  /\ t.delivery <= plan[t.plan].version
  /\ t.delivery = plan[t.plan].version => PlanSeen(t)
  /\ t.verification <= scope
  /\ t.command = "retest" /\ t.verification = scope =>
       t.read.latest = Len(executions[t.read.requirement])

Underway == \A w \in Workers : closing[w] # Idle =>
              Known(closing[w]) /\ Seen(closing[w])

StoryInv == StoryRows /\ PlansExist /\ Underway

-----------------------------------------------------------------------------
\* Nothing is under way at the start, and nothing is decided.
LEMMA InitStoryInv == StoryInit => StoryInv
  <1> SUFFICES ASSUME StoryInit PROVE StoryInv
    OBVIOUS
  <1>1. StoryRows
    BY VerificationAssumption DEF StoryInit, StoryRows, Story, StoryStatuses
  <1>2. PlansExist
    BY DEF StoryInit, PlansExist
  <1>3. Underway
    BY DEF StoryInit, Underway
  <1> QED
    BY <1>1, <1>2, <1>3 DEF StoryInv

-----------------------------------------------------------------------------
(* What a step may do.                                                     *)

Unread == UNCHANGED <<deliveryVars, verificationVars>>

\* A transaction begins with what it reads, or ends without a trace.
Begins(w) ==
  /\ Unread
  /\ \E t : /\ Known(t) /\ Seen(t)
             /\ closing' = [closing EXCEPT ![w] = t]

\* A transaction that starts knows what it has just read.
LEMMA StartBegins ==
  ASSUME StoryInv, NEW w \in Workers,
         NEW STATE p, NEW STATE read, NEW STATE command,
         p \in Plans, Start(w, command, p, read),
         command = "planStatus" =>
           read \in {"DRAFT", "ACTIVE"} /\ plan[p].status = read,
         command \in {"createStory", "note", "update"} => Editable(p),
         command \in OfStory => /\ read.story \in Stories
                                /\ read.row = story[read.story]
                                /\ read.row \in Story /\ read.row.plan = p,
         command = "complete" => plan[p].status = read.status,
         command \in OfRequirement => read.requirement \in Requirements,
         command \in {"assign", "unassign"} => read.executor \in Executors,
         command = "retest" => read.latest = Len(executions[read.requirement])
  PROVE  Begins(w)
  <1> DEFINE t == [command |-> command, plan |-> p,
                   delivery |-> plan[p].version, verification |-> scope,
                   read |-> read]
  <1>1. Unread /\ closing' = [closing EXCEPT ![w] = t]
    BY DEF Start, Unread
  <1>2. plan[p].version \in Nat /\ scope \in Nat
    BY DEF StoryInv, StoryRows
  <1>3. command = "retest" => read.latest \in Nat
    BY DEF StoryInv, StoryRows, OfRequirement
  <1>4. Known(t)
    BY <1>2, <1>3 DEF Known
  <1>5. Seen(t)
    BY <1>2 DEF Seen, PlanSeen
  <1> HIDE DEF t
  <1> QED
    BY <1>1, <1>4, <1>5 DEF Begins

\* Delivery commands begin with the plan, or the story's row.
LEMMA DeliveryBegins ==
  ASSUME StoryInv, NEW w \in Workers, BeginDelivery(w)
  PROVE  Begins(w)
  <1>1. ASSUME NEW p \in Plans, Start(w, "createPlan", p, None)
        PROVE  Begins(w)
    BY <1>1, StartBegins DEF OfStory, OfRequirement
  <1>2. ASSUME NEW p \in ActivePlans, Start(w, "planStatus", p, plan[p].status)
        PROVE  Begins(w)
    BY <1>2, StartBegins DEF OfStory, OfRequirement, ActivePlans, StoryInv,
       StoryRows
  <1>3. ASSUME NEW p \in ActivePlans, Editable(p),
               NEW command \in {"createStory", "note"},
               Start(w, command, p, None)
        PROVE  Begins(w)
    BY <1>3, StartBegins DEF OfStory, OfRequirement, ActivePlans
  <1>4. ASSUME NEW s \in Stories, story[s] # None, Editable(story[s].plan),
               Start(w, "update", story[s].plan,
                     [story |-> s, row |-> story[s]])
        PROVE  Begins(w)
    <2>1. story[s] \in Story /\ story[s].plan \in Plans
      BY <1>4 DEF Story, StoryInv, StoryRows
    <2> QED
      BY <1>4, <2>1, StartBegins DEF OfStory, OfRequirement
  <1> QED
    BY <1>1, <1>2, <1>3, <1>4 DEF BeginDelivery

\* A closure begins with the story's row and the status of its plan.
LEMMA ClosureBegins ==
  ASSUME StoryInv, NEW w \in Workers, BeginClosure(w)
  PROVE  Begins(w)
  <1>1. PICK s \in Stories, command \in {"complete", "historical"} :
          /\ story[s] # None
          /\ Start(w, command, story[s].plan,
                   [story |-> s, row |-> story[s],
                    status |-> plan[story[s].plan].status])
    BY DEF BeginClosure
  <1>2. story[s] \in Story /\ story[s].plan \in Plans
    BY <1>1 DEF Story, StoryInv, StoryRows
  <1> QED
    BY <1>1, <1>2, StartBegins DEF OfStory, OfRequirement

\* Commands on a requirement begin with its latest execution.
LEMMA ExecutionBegins ==
  ASSUME StoryInv, NEW w \in Workers, BeginExecution(w)
  PROVE  Begins(w)
  <1> DEFINE begun(q, command, e) ==
        Start(w, command, story[requirement[q]].plan,
              [requirement |-> q, executor |-> e,
               latest |-> Len(executions[q])])
  <1>1. PICK q \in Defined :
          \/ \E e \in Executors \ assigned[q] : begun(q, "assign", e)
          \/ \E e \in assigned[q] :
               begun(q, "unassign", e) \/ begun(q, "record", e)
          \/ Len(executions[q]) > 0 /\ begun(q, "retest", None)
    BY DEF BeginExecution
  <1>2. \E command \in OfRequirement : \E e :
          /\ begun(q, command, e)
          /\ command \in {"assign", "unassign"} => e \in Executors
    BY <1>1 DEF OfRequirement, Defined, StoryInv, StoryRows
  <1>3. PICK command \in OfRequirement : \E e :
          /\ begun(q, command, e)
          /\ command \in {"assign", "unassign"} => e \in Executors
    BY <1>2
  <1>4. PICK e : /\ begun(q, command, e)
                 /\ command \in {"assign", "unassign"} => e \in Executors
    BY <1>3
  <1>5. q \in Requirements /\ story[requirement[q]].plan \in Plans
    BY DEF Defined, Story, StoryInv, PlansExist
  <1> QED
    BY <1>4, <1>5, StartBegins DEF OfStory, OfRequirement

-----------------------------------------------------------------------------
\* What a commit may do to one story.
RowStep(s) ==
  \/ story'[s] = story[s]
  \/ /\ story[s] = None
     /\ \E p \in Plans, hours \in Estimates \cup {None},
          to \in StoryStatuses \ {"DONE"} :
          story'[s] = Transitioned([plan |-> p, status |-> "BACKLOG",
                                    estimate |-> hours, reference |-> None],
                                   to)
  \/ /\ story[s] \in Story
     /\ Revived(story[s]) => Reviving
     /\ \E to \in StoryStatuses :
          /\ to = "DONE" => DecisionsOn(s)' # {}
          /\ story'[s] = Transitioned(story[s], to)
  \/ /\ story[s] \in Story
     /\ \E hours \in Estimates \cup {None} :
          story'[s] = Reestimated(story[s], hours)
  \/ /\ story[s] \in Story
     /\ Revived(story[s]) => Reviving
     /\ \E hours \in Estimates \cup {None}, to \in StoryStatuses \ {"DONE"} :
          story'[s] = Transitioned(Reestimated(story[s], hours), to)

\* Stories change with the version of their plan, which is not archived.
DeliveryStep ==
  \/ UNCHANGED deliveryVars
  \/ /\ story' \in [Stories -> Story \cup {None}]
     /\ \E p \in Plans, status \in {"DRAFT", "ACTIVE", "ARCHIVED"} :
          /\ plan[p].status # "ARCHIVED"
          /\ plan' = [plan EXCEPT ![p] = [status |-> status,
                                          version |-> plan[p].version + 1]]
          /\ \A s \in Stories : story'[s] # story[s] =>
               /\ story'[s].plan = p
               /\ story[s] # None => story[s].plan = p /\ story'[s] \in Story
               /\ RowStep(s)

\* Decisions are added with the requirements they define, the rest changes
\* with the version of the scope.
DecisionStep ==
  /\ decided \subseteq decided' /\ decided' \subseteq Decision
  /\ requirement' \in [Requirements -> Stories \cup {None}]
  /\ \A q \in Requirements :
       /\ requirement[q] # None => requirement'[q] = requirement[q]
       /\ requirement[q] = None /\ requirement'[q] # None =>
            story[requirement'[q]] \in Story
  /\ \A d \in decided' \ decided :
       \A q \in d.requirements : requirement'[q] = d.story

VerificationStep ==
  \/ UNCHANGED verificationVars
  \/ /\ scope' = scope + 1
     /\ DecisionStep
     /\ assigned' \in [Requirements -> SUBSET Executors]
     /\ executions' \in [Requirements -> Seq(Executors)]
     /\ retestAfter' \in [Requirements -> Nat]
     /\ \A q \in Requirements :
          retestAfter'[q] # retestAfter[q] => NotRun(q)'

Commits(w) ==
  /\ closing' = [closing EXCEPT ![w] = Idle]
  /\ DeliveryStep
  /\ VerificationStep

\* A transaction that still has its version finds what it read.
LEMMA StillSeen ==
  ASSUME StoryInv, NEW w \in Workers, closing[w].command # "none"
  PROVE  /\ Known(closing[w])
         /\ DeliveryHolds(closing[w]) => PlanSeen(closing[w])
         /\ VerificationHolds(closing[w]) /\ closing[w].command = "retest" =>
              closing[w].read.latest
                = Len(executions[closing[w].read.requirement])
  BY DEF StoryInv, Underway, Seen, Idle, DeliveryHolds, VerificationHolds

\* A plan is created at version one, from nothing.
LEMMA CreatePlanCommits ==
  ASSUME StoryInv, NEW w \in Workers, CommitCreatePlan(w)
  PROVE  Commits(w)
  <1>1. closing[w].plan \in Plans
    BY StillSeen DEF CommitCreatePlan, Finish, Known
  <1>2. plan[closing[w].plan].version = 0
    BY <1>1 DEF CommitCreatePlan, StoryInv, PlansExist
  <1>3. plan' = [plan EXCEPT ![closing[w].plan] =
                   [status |-> "DRAFT",
                    version |-> plan[closing[w].plan].version + 1]]
    BY <1>2 DEF CommitCreatePlan
  <1>4. UNCHANGED story /\ UNCHANGED verificationVars
        /\ plan[closing[w].plan].status = "ABSENT"
    BY DEF CommitCreatePlan
  <1>5. DeliveryStep
    BY <1>1, <1>3, <1>4 DEF DeliveryStep, StoryInv, StoryRows
  <1> QED
    BY <1>4, <1>5 DEF CommitCreatePlan, Finish, Commits, VerificationStep

\* A plan that still has its version has the status that was read.
LEMMA PlanStatusCommits ==
  ASSUME StoryInv, NEW w \in Workers, CommitPlanStatus(w)
  PROVE  Commits(w)
  <1>1. /\ closing[w].plan \in Plans
        /\ closing[w].read \in {"DRAFT", "ACTIVE"}
        /\ plan[closing[w].plan].status = closing[w].read
    BY StillSeen
       DEF CommitPlanStatus, Finish, DeliveryMoves, Known, PlanSeen
  <1>2. PlanTransitions[closing[w].read] \in {"ACTIVE", "ARCHIVED"}
    BY <1>1 DEF PlanTransitions
  <1> QED
    BY <1>1, <1>2 DEF CommitPlanStatus, Finish, DeliveryMoves, StoryInv,
       StoryRows, Commits, DeliveryStep, VerificationStep

\* A note moves the version of an editable plan.
LEMMA NoteCommits ==
  ASSUME StoryInv, NEW w \in Workers, CommitNote(w)
  PROVE  Commits(w)
  <1>1. closing[w].plan \in Plans /\ Editable(closing[w].plan)
    BY StillSeen DEF CommitNote, Finish, DeliveryMoves, Known, PlanSeen
  <1> QED
    BY <1>1 DEF CommitNote, Finish, DeliveryMoves, Editable, StoryInv,
       StoryRows, Commits, DeliveryStep, VerificationStep

\* A story keeps its plan and its type through transitions and estimates.
LEMMA RowTyped ==
  ASSUME NEW row \in Story, NEW to \in StoryStatuses,
         NEW hours \in Estimates \cup {None}
  PROVE  /\ Transitioned(row, to) \in Story
         /\ Transitioned(row, to).plan = row.plan
         /\ Reestimated(row, hours) \in Story
         /\ Reestimated(row, hours).plan = row.plan
  BY DEF Story, Transitioned, Reestimated, StoryStatuses

\* A story that is written with the version of its plan.
LEMMA StoryWritten ==
  ASSUME StoryInv, NEW p \in Plans, NEW s \in Stories, NEW new \in Story,
         new.plan = p,
         story[s] # None => story[s].plan = p,
         Editable(p), RowStep(s),
         story' = [story EXCEPT ![s] = new],
         plan' = [plan EXCEPT ![p] = [status |-> plan[p].status,
                                     version |-> @.version + 1]]
  PROVE  DeliveryStep
  <1>1. story' \in [Stories -> Story \cup {None}]
    BY DEF StoryInv, StoryRows
  <1>2. \A x \in Stories : story'[x] # story[x] => x = s /\ story'[x] = new
    BY DEF StoryInv, StoryRows
  <1>3. \A x \in Stories : story'[x] # story[x] =>
          /\ story'[x].plan = p
          /\ story[x] # None => story[x].plan = p /\ story'[x] \in Story
          /\ RowStep(x)
    BY <1>2
  <1>4. /\ plan[p].status \in {"DRAFT", "ACTIVE"}
        /\ plan' = [plan EXCEPT ![p] = [status |-> plan[p].status,
                                      version |-> plan[p].version + 1]]
    BY DEF Editable, StoryInv, StoryRows
  <1> QED
    BY <1>1, <1>3, <1>4 DEF DeliveryStep

\* A story is created in the backlog of an editable plan.
LEMMA CreateStoryCommits ==
  ASSUME StoryInv, NEW w \in Workers, CommitCreateStory(w)
  PROVE  Commits(w)
  <1>1. PICK p \in Plans : p = closing[w].plan /\ Editable(p)
    BY StillSeen DEF CommitCreateStory, Finish, DeliveryMoves, Known, PlanSeen
  <1> DEFINE row(hours) == [plan |-> p, status |-> "BACKLOG",
                            estimate |-> hours, reference |-> None]
  <1>2. PICK s \in Stories, hours \in Estimates \cup {None},
             to \in StoryStatuses \ {"DONE"} :
          story[s] = None
          /\ story' = [story EXCEPT ![s] = Transitioned(row(hours), to)]
    BY <1>1 DEF CommitCreateStory
  <1>3. row(hours) \in Story
    BY <1>1 DEF Story, StoryStatuses
  <1>4. /\ Transitioned(row(hours), to) \in Story
        /\ Transitioned(row(hours), to).plan = p
    BY <1>3, RowTyped
  <1>5. RowStep(s)
    BY <1>1, <1>2 DEF RowStep, StoryInv, StoryRows
  <1>6. DeliveryStep
    BY <1>1, <1>2, <1>4, <1>5, StoryWritten DEF CommitCreateStory,
       DeliveryMoves
  <1> QED
    BY <1>6 DEF CommitCreateStory, Finish, Commits, VerificationStep

\* The row written back is still the row there is.
LEMMA UpdateCommits ==
  ASSUME StoryInv, NEW w \in Workers, CommitUpdate(w)
  PROVE  Commits(w)
  <1>1. PICK p \in Plans, s \in Stories, row \in Story :
          /\ p = closing[w].plan /\ s = closing[w].read.story
          /\ row = closing[w].read.row
          /\ Editable(p) /\ story[s] = row /\ row.plan = p
    BY StillSeen DEF CommitUpdate, Finish, DeliveryMoves, Known, PlanSeen,
       OfStory
  <1>2. PICK new \in Story :
          /\ story' = [story EXCEPT ![s] = new]
          /\ new.plan = p
          /\ \/ /\ Revived(row) => Reviving
                /\ \E to \in StoryStatuses :
                     to # "DONE" /\ new = Transitioned(row, to)
             \/ \E hours \in Estimates \cup {None} :
                  new = Reestimated(row, hours)
             \/ /\ Revived(row) => Reviving
                /\ \E hours \in Estimates \cup {None},
                      to \in StoryStatuses \ {"DONE"} :
                     new = Transitioned(Reestimated(row, hours), to)
    <2>1. PICK new \in Updated(row) \ {row} :
            story' = [story EXCEPT ![s] = new]
      BY <1>1 DEF CommitUpdate
    <2>2. CASE \E hours \in Estimates \cup {None} :
                 new = Reestimated(row, hours)
      <3>1. PICK hours \in Estimates \cup {None} :
              new = Reestimated(row, hours)
        BY <2>2
      <3>2. "TODO" \in StoryStatuses
        BY DEF StoryStatuses
      <3>3. new \in Story /\ new.plan = p
        BY <1>1, <3>1, <3>2, RowTyped
      <3> QED
        BY <2>1, <3>1, <3>3
    <2>3. CASE \E to \in StoryStatuses \ {row.status} :
                 MayTransition(row, to) /\ new = Transitioned(row, to)
      <3>1. PICK to \in StoryStatuses \ {row.status} :
              MayTransition(row, to) /\ new = Transitioned(row, to)
        BY <2>3
      <3>2. to # "DONE" /\ (Revived(row) => Reviving)
        BY <3>1 DEF MayTransition
      <3>3. new \in Story /\ new.plan = p
        BY <1>1, <3>1, RowTyped
      <3> QED
        BY <2>1, <3>1, <3>2, <3>3
    <2>4. CASE \E hours \in Estimates \cup {None},
                  to \in StoryStatuses \ {row.status} :
                 /\ MayTransition(row, to)
                 /\ new = Transitioned(Reestimated(row, hours), to)
      <3>1. PICK hours \in Estimates \cup {None},
                 to \in StoryStatuses \ {row.status} :
              /\ MayTransition(row, to)
              /\ new = Transitioned(Reestimated(row, hours), to)
        BY <2>4
      <3>2. to # "DONE" /\ (Revived(row) => Reviving)
        BY <3>1 DEF MayTransition
      <3>3. PICK mid \in Story : mid = Reestimated(row, hours) /\ mid.plan = p
        BY <1>1, <3>1, RowTyped
      <3>4. new \in Story /\ new.plan = p
        BY <3>1, <3>3, RowTyped
      <3> QED
        BY <2>1, <3>1, <3>2, <3>4
    <2>5. \/ \E hours \in Estimates \cup {None} : new = Reestimated(row, hours)
          \/ \E to \in StoryStatuses \ {row.status} :
               MayTransition(row, to) /\ new = Transitioned(row, to)
          \/ \E hours \in Estimates \cup {None},
                to \in StoryStatuses \ {row.status} :
               /\ MayTransition(row, to)
               /\ new = Transitioned(Reestimated(row, hours), to)
      <3> DEFINE estimated == {row} \cup
                   {Reestimated(row, hours) : hours \in Estimates \cup {None}}
      <3>1. \A mid \in estimated :
              \/ mid = row
              \/ \E hours \in Estimates \cup {None} :
                   mid = Reestimated(row, hours)
        OBVIOUS
      <3>2. \/ new \in estimated
            \/ \E mid \in estimated, to \in StoryStatuses \ {row.status} :
                 MayTransition(row, to) /\ new = Transitioned(mid, to)
        BY <2>1 DEF Updated
      <3>3. new # row
        BY <2>1
      <3> HIDE DEF estimated
      <3> QED
        BY <3>1, <3>2, <3>3
    <2> QED
      BY <2>2, <2>3, <2>4, <2>5
  <1>3. RowStep(s)
    BY <1>1, <1>2 DEF RowStep, StoryInv, StoryRows
  <1>4. plan' = [plan EXCEPT ![p] = [status |-> plan[p].status,
                                   version |-> @.version + 1]]
    BY <1>1 DEF CommitUpdate, DeliveryMoves
  <1>5. DeliveryStep
    BY <1>1, <1>2, <1>3, <1>4, StoryWritten
  <1> QED
    BY <1>5 DEF CommitUpdate, Finish, Commits, VerificationStep

\* A decision relies on requirements of its own story, and leaves one.
LEMMA DecisionRecorded ==
  ASSUME StoryInv, NEW s \in Stories, story[s] \in Story, RecordsDecision(s)
  PROVE  DecisionStep /\ DecisionsOn(s)' # {}
         /\ UNCHANGED <<assigned, executions, retestAfter>>
  <1>1. PICK kind \in {"TESTS_DEFINED", "NO_TEST_REQUIRED"},
             existing \in SUBSET Relied(s),
             new \in SUBSET (Requirements \ Defined) :
          Decides(s, kind, existing, new)
    BY DEF RecordsDecision
  <1> DEFINE d == [story |-> s, kind |-> kind,
                   requirements |-> existing \cup new]
  <1>2. decided' = decided \cup {d}
    BY <1>1 DEF Decides
  <1>3. d \in Decision
    BY DEF Decision, Relied, Defined
  <1>4. /\ requirement' \in [Requirements -> Stories \cup {None}]
        /\ \A q \in Requirements :
             requirement'[q] = IF q \in new THEN s ELSE requirement[q]
    BY <1>1 DEF Decides, StoryInv, StoryRows
  <1>5. \A q \in existing \cup new : requirement'[q] = s
    BY <1>4 DEF Relied, Defined
  <1>6. \A q \in new : requirement[q] = None
    BY DEF Defined
  <1>7. d \in DecisionsOn(s)'
    BY <1>2 DEF DecisionsOn
  <1>8. \A q \in Requirements :
          /\ requirement[q] # None => requirement'[q] = requirement[q]
          /\ requirement[q] = None /\ requirement'[q] # None =>
               story[requirement'[q]] \in Story
    BY <1>4, <1>6
  <1>9. \A e \in decided' \ decided :
          \A q \in e.requirements : requirement'[q] = e.story
    BY <1>2, <1>5
  <1>10. decided \subseteq decided' /\ decided' \subseteq Decision
    BY <1>2, <1>3 DEF StoryInv, StoryRows
  <1>11. DecisionStep
    BY <1>4, <1>8, <1>9, <1>10 DEF DecisionStep
  <1> QED
    BY <1>1, <1>7, <1>11 DEF Decides

\* A completion writes the story and its decision together.
LEMMA CompleteCommits ==
  ASSUME StoryInv, NEW w \in Workers, CommitComplete(w)
  PROVE  Commits(w)
  <1>1. PICK p \in Plans, s \in Stories, row \in Story :
          /\ p = closing[w].plan /\ s = closing[w].read.story
          /\ row = closing[w].read.row
          /\ plan[p].status # "ARCHIVED" /\ story[s] = row /\ row.plan = p
    BY StillSeen DEF CommitComplete, Finish, DeliveryMoves, Known, PlanSeen,
       OfStory
  <1>2. story' = [story EXCEPT ![s] = Transitioned(row, "DONE")]
    BY <1>1 DEF CommitComplete
  <1>3. /\ Transitioned(row, "DONE") \in Story
        /\ Transitioned(row, "DONE").plan = p
    BY <1>1, RowTyped DEF StoryStatuses
  <1>4. DecisionStep /\ DecisionsOn(s)' # {}
        /\ UNCHANGED <<assigned, executions, retestAfter>>
    <2>1. RecordsDecision(s)
      BY <1>1 DEF CommitComplete
    <2> QED
      BY <1>1, <2>1, DecisionRecorded
  <1>5. RowStep(s)
    BY <1>1, <1>2, <1>4 DEF CommitComplete, RowStep, StoryInv, StoryRows,
       StoryStatuses
  <1>6. Editable(p)
    BY <1>1, VerificationAssumption DEF StoryInv, StoryRows, PlansExist,
       Editable
  <1>7. DeliveryStep
    BY <1>1, <1>2, <1>3, <1>5, <1>6, StoryWritten DEF CommitComplete,
       DeliveryMoves
  <1>8. VerificationStep
    BY <1>4 DEF CommitComplete, VerificationMoves, VerificationStep, StoryInv,
       StoryRows
  <1> QED
    BY <1>7, <1>8 DEF CommitComplete, Finish, Commits

\* A decision on a story that was DONE before leaves the story.
LEMMA HistoricalCommits ==
  ASSUME StoryInv, NEW w \in Workers, CommitHistorical(w)
  PROVE  Commits(w)
  <1>1. PICK s \in Stories : s = closing[w].read.story /\ story[s] \in Story
    BY StillSeen DEF CommitHistorical, Finish, Known, PlanSeen, OfStory
  <1>2. DecisionStep /\ UNCHANGED <<assigned, executions, retestAfter>>
    BY <1>1, DecisionRecorded DEF CommitHistorical
  <1>3. VerificationStep
    BY <1>2 DEF CommitHistorical, VerificationMoves, VerificationStep,
       StoryInv, StoryRows
  <1> QED
    BY <1>3 DEF CommitHistorical, Finish, Commits, DeliveryStep

\* What changes no decision.
LEMMA SameDecisions ==
  ASSUME StoryInv, UNCHANGED <<requirement, decided>>
  PROVE  DecisionStep
  BY DEF DecisionStep, StoryInv, StoryRows

\* Assignments change executors only.
LEMMA AssignmentCommits ==
  ASSUME StoryInv, NEW w \in Workers, CommitAssignment(w)
  PROVE  Commits(w)
  <1>1. PICK q \in Requirements, e \in Executors :
          q = closing[w].read.requirement /\ e = closing[w].read.executor
    BY StillSeen DEF CommitAssignment, Finish, Known, OfRequirement
  <1>2. \/ assigned' = [assigned EXCEPT ![q] = @ \cup {e}]
        \/ assigned' = [assigned EXCEPT ![q] = @ \ {e}]
    BY <1>1 DEF CommitAssignment
  <1>3. assigned' \in [Requirements -> SUBSET Executors]
    <2>1. /\ assigned[q] \cup {e} \in SUBSET Executors
          /\ assigned[q] \ {e} \in SUBSET Executors
          /\ assigned \in [Requirements -> SUBSET Executors]
      BY DEF StoryInv, StoryRows
    <2>2. CASE assigned' = [assigned EXCEPT ![q] = @ \cup {e}]
      BY <2>1, <2>2
    <2>3. CASE assigned' = [assigned EXCEPT ![q] = @ \ {e}]
      BY <2>1, <2>3
    <2> QED
      BY <1>2, <2>2, <2>3
  <1>4. DecisionStep
    BY SameDecisions DEF CommitAssignment
  <1>5. VerificationStep
    BY <1>3, <1>4 DEF CommitAssignment, VerificationMoves, VerificationStep,
       StoryInv, StoryRows
  <1> QED
    BY <1>5 DEF CommitAssignment, Finish, Commits, DeliveryStep

\* Recording appends an execution and answers no retest.
LEMMA RecordCommits ==
  ASSUME StoryInv, NEW w \in Workers, CommitRecord(w)
  PROVE  Commits(w)
  <1>1. PICK q \in Requirements : q = closing[w].read.requirement
    BY StillSeen DEF CommitRecord, Finish, Known, OfRequirement
  <1>2. closing[w].read.executor \in Executors
    BY <1>1 DEF CommitRecord, StoryInv, StoryRows
  <1>3. executions' \in [Requirements -> Seq(Executors)]
    BY <1>1, <1>2 DEF CommitRecord, StoryInv, StoryRows
  <1>4. DecisionStep
    BY SameDecisions DEF CommitRecord
  <1>5. VerificationStep
    BY <1>3, <1>4 DEF CommitRecord, VerificationMoves, VerificationStep,
       StoryInv, StoryRows
  <1> QED
    BY <1>5 DEF CommitRecord, Finish, Commits, DeliveryStep

\* The latest execution read is the latest there is.
LEMMA RetestCommits ==
  ASSUME StoryInv, NEW w \in Workers, CommitRetest(w)
  PROVE  Commits(w)
  <1>1. PICK q \in Requirements, latest \in Nat :
          /\ q = closing[w].read.requirement
          /\ latest = closing[w].read.latest
          /\ latest = Len(executions[q])
    BY StillSeen DEF CommitRetest, Finish, VerificationMoves, Known,
       OfRequirement
  <1>2. retestAfter' = [retestAfter EXCEPT
                          ![q] = IF latest > @ THEN latest ELSE @]
    BY <1>1 DEF CommitRetest
  <1>3. retestAfter' \in [Requirements -> Nat]
    BY <1>2 DEF StoryInv, StoryRows
  <1>4. \A r \in Requirements :
          retestAfter'[r] # retestAfter[r] => NotRun(r)'
    BY <1>1, <1>2 DEF CommitRetest, NotRun, StoryInv, StoryRows
  <1>5. DecisionStep
    BY SameDecisions DEF CommitRetest
  <1>6. VerificationStep
    BY <1>3, <1>4, <1>5 DEF CommitRetest, VerificationMoves, VerificationStep,
       StoryInv, StoryRows
  <1> QED
    BY <1>6 DEF CommitRetest, Finish, Commits, DeliveryStep

-----------------------------------------------------------------------------
(* The invariant.                                                          *)

\* Every step begins, commits or abandons one transaction.
LEMMA CommitCases ==
  ASSUME StoryInv, StoryNext
  PROVE  \E w \in Workers :
           \/ Begins(w) \/ Commits(w)
           \/ Unread /\ closing' = [closing EXCEPT ![w] = Idle]
  <1>1. PICK w \in Workers :
          \/ BeginDelivery(w) \/ BeginClosure(w) \/ BeginExecution(w)
          \/ CommitCreatePlan(w) \/ CommitPlanStatus(w)
          \/ CommitCreateStory(w) \/ CommitUpdate(w) \/ CommitNote(w)
          \/ CommitComplete(w) \/ CommitHistorical(w)
          \/ CommitAssignment(w) \/ CommitRecord(w) \/ CommitRetest(w)
          \/ Abandon(w)
    BY DEF StoryNext
  <1>2. CASE BeginDelivery(w) \/ BeginClosure(w) \/ BeginExecution(w)
    BY <1>2, DeliveryBegins, ClosureBegins, ExecutionBegins
  <1>3. CASE Abandon(w)
    BY <1>3 DEF Abandon, Unread
  <1> QED
    BY <1>1, <1>2, <1>3, CreatePlanCommits, PlanStatusCommits,
       CreateStoryCommits, UpdateCommits, NoteCommits, CompleteCommits,
       HistoricalCommits, AssignmentCommits, RecordCommits, RetestCommits

\* Rows keep their types.
LEMMA RowsKept ==
  ASSUME StoryRows, PlansExist, DeliveryStep, VerificationStep,
         DOMAIN closing' = DOMAIN closing
  PROVE  StoryRows'
  <1>1. /\ plan' \in [Plans ->
             [status: {"ABSENT", "DRAFT", "ACTIVE", "ARCHIVED"}, version: Nat]]
        /\ story' \in [Stories -> Story \cup {None}]
    <2>1. CASE UNCHANGED deliveryVars
      BY <2>1 DEF StoryRows, deliveryVars
    <2>2. CASE /\ story' \in [Stories -> Story \cup {None}]
               /\ \E p \in Plans, status \in {"DRAFT", "ACTIVE", "ARCHIVED"} :
                    plan' = [plan EXCEPT
                               ![p] = [status |-> status,
                                       version |-> plan[p].version + 1]]
      BY <2>2 DEF StoryRows
    <2> QED
      BY <2>1, <2>2 DEF DeliveryStep
  <1>2. /\ scope' \in Nat
        /\ requirement' \in [Requirements -> Stories \cup {None}]
        /\ decided' \subseteq Decision
        /\ assigned' \in [Requirements -> SUBSET Executors]
        /\ executions' \in [Requirements -> Seq(Executors)]
        /\ retestAfter' \in [Requirements -> Nat]
    <2>1. CASE UNCHANGED verificationVars
      BY <2>1 DEF StoryRows, verificationVars
    <2>2. CASE ~ UNCHANGED verificationVars
      <3>1. scope' = scope + 1 /\ DecisionStep
            /\ assigned' \in [Requirements -> SUBSET Executors]
            /\ executions' \in [Requirements -> Seq(Executors)]
            /\ retestAfter' \in [Requirements -> Nat]
        BY <2>2 DEF VerificationStep
      <3> QED
        BY <3>1 DEF StoryRows, DecisionStep
    <2> QED
      BY <2>1, <2>2
  <1> QED
    BY <1>1, <1>2 DEF StoryRows

\* No plan and no story disappears.
LEMMA PlansStay ==
  ASSUME StoryRows, PlansExist, DeliveryStep, VerificationStep
  PROVE  PlansExist'
  <1>1. /\ \A p \in Plans : plan'[p].status = "ABSENT" =>
             plan[p].status = "ABSENT" /\ plan'[p] = plan[p]
        /\ \A s \in Stories :
             story'[s] = story[s] \/ plan'[story'[s].plan].status # "ABSENT"
        /\ \A s \in Stories : story[s] \in Story => story'[s] \in Story
    <2>1. CASE UNCHANGED deliveryVars
      BY <2>1 DEF deliveryVars
    <2>2. CASE ~ UNCHANGED deliveryVars
      <3>1. PICK p \in Plans, status \in {"DRAFT", "ACTIVE", "ARCHIVED"} :
              /\ plan' = [plan EXCEPT
                            ![p] = [status |-> status,
                                    version |-> plan[p].version + 1]]
              /\ \A s \in Stories : story'[s] # story[s] =>
                   /\ story'[s].plan = p
                   /\ story[s] # None => story'[s] \in Story
        BY <2>2 DEF DeliveryStep
      <3>2. plan'[p].status = status
            /\ \A x \in Plans \ {p} : plan'[x] = plan[x]
        BY <3>1 DEF StoryRows
      <3> QED
        BY <3>1, <3>2, VerificationAssumption DEF StoryRows
    <2> QED
      BY <2>1, <2>2
  <1>2. \A q \in Requirements :
          \/ requirement'[q] = requirement[q]
          \/ requirement'[q] = None
          \/ requirement[q] = None /\ story[requirement'[q]] \in Story
    BY DEF VerificationStep, DecisionStep, verificationVars, StoryRows
  <1>3. \A p \in Plans : plan'[p].status = "ABSENT" => plan'[p].version = 0
    BY <1>1 DEF PlansExist
  <1>4. ASSUME NEW s \in Stories, story'[s] # None
        PROVE  plan'[story'[s].plan].status # "ABSENT"
    BY <1>1, <1>4 DEF PlansExist, StoryRows, Story
  <1>5. ASSUME NEW q \in Requirements, requirement'[q] # None
        PROVE  story'[requirement'[q]] \in Story
    BY <1>1, <1>2, <1>5 DEF PlansExist, StoryRows, VerificationStep,
       DecisionStep, verificationVars
  <1> QED
    BY <1>3, <1>4, <1>5 DEF PlansExist

\* Whoever still has its version still finds what it read.
LEMMA StaysSeen ==
  ASSUME StoryInv, DeliveryStep, VerificationStep,
         NEW t, Known(t), Seen(t)
  PROVE  Seen(t)'
  <1>1. /\ t.plan \in Plans /\ t.delivery \in Nat /\ t.verification \in Nat
        /\ plan[t.plan].version \in Nat /\ scope \in Nat
    BY DEF Known, StoryInv, StoryRows
  <1>2. \/ plan'[t.plan].version = plan[t.plan].version + 1
        \/ /\ plan'[t.plan] = plan[t.plan]
           /\ \A s \in Stories : story[s] # None /\ story[s].plan = t.plan =>
                story'[s] = story[s]
    BY <1>1 DEF DeliveryStep, deliveryVars, StoryInv, StoryRows
  <1>3. \/ scope' = scope + 1
        \/ scope' = scope /\ UNCHANGED executions
    BY <1>1 DEF VerificationStep, verificationVars
  <1>4. t.command \in OfStory => t.read.row # None
    BY VerificationAssumption DEF Known
  <1>5. t.delivery = plan'[t.plan].version => PlanSeen(t)'
    BY <1>1, <1>2, <1>4 DEF Seen, PlanSeen, Known, Editable
  <1>6. /\ t.delivery <= plan'[t.plan].version
        /\ t.verification <= scope'
    <2>1. /\ t.delivery <= plan[t.plan].version
          /\ t.verification <= scope
      BY DEF Seen
    <2>2. t.delivery <= plan'[t.plan].version
      BY <1>1, <1>2, <2>1
    <2>3. t.verification <= scope'
      BY <1>1, <1>3, <2>1
    <2> QED
      BY <2>2, <2>3
  <1>7. t.command = "retest" /\ t.verification = scope' =>
          t.read.latest = Len(executions'[t.read.requirement])
    BY <1>1, <1>3 DEF Seen
  <1> QED
    BY <1>5, <1>6, <1>7 DEF Seen

\* The invariant is inductive.
LEMMA NextStoryInv == StoryInv /\ [StoryNext]_storyVars => StoryInv'
  <1> SUFFICES ASSUME StoryInv, [StoryNext]_storyVars PROVE StoryInv'
    OBVIOUS
  <1>1. CASE UNCHANGED storyVars
    <2>1. UNCHANGED <<plan, story, scope, requirement, decided, assigned,
                      executions, retestAfter, closing>>
      BY <1>1 DEF storyVars, deliveryVars, verificationVars
    <2> QED
      BY <2>1 DEF StoryInv, StoryRows, PlansExist, Underway, Seen, PlanSeen,
         Known, Editable
  <1>2. CASE StoryNext
    <2>1. PICK w \in Workers :
            \/ Begins(w) \/ Commits(w)
            \/ Unread /\ closing' = [closing EXCEPT ![w] = Idle]
      BY <1>2, CommitCases
    <2>2. DeliveryStep /\ VerificationStep
      BY <2>1 DEF Begins, Commits, Unread, DeliveryStep, VerificationStep
    <2>3. \/ closing' = [closing EXCEPT ![w] = Idle]
          \/ \E t : /\ Known(t) /\ Seen(t)
                    /\ closing' = [closing EXCEPT ![w] = t]
      BY <2>1 DEF Begins, Commits
    <2>4. StoryRows' /\ PlansExist'
      BY <2>2, <2>3, RowsKept, PlansStay DEF StoryInv
    <2>5. ASSUME NEW v \in Workers, closing'[v] # Idle
          PROVE  (Known(closing[v]) /\ Seen(closing[v]))'
      <3>1. PICK t : t = closing'[v] /\ Known(t) /\ Seen(t)
        BY <2>3, <2>5 DEF StoryInv, StoryRows, Underway
      <3>2. Seen(t)'
        BY <2>2, <3>1, StaysSeen
      <3> QED
        BY <3>1, <3>2 DEF Known, Seen, PlanSeen, Editable
    <2> QED
      BY <2>4, <2>5 DEF StoryInv, Underway, Idle
  <1> QED
    BY <1>1, <1>2

\* Versions only grow, and what is under way has seen what it relies on.
THEOREM StoryInvariant == StorySpec => []StoryInv
  BY InitStoryInv, NextStoryInv, PTL DEF StorySpec

-----------------------------------------------------------------------------
(* The properties.                                                         *)

\* What a step may do to the rows, whoever takes it.
LEMMA StepCases ==
  ASSUME StoryInv, [StoryNext]_storyVars
  PROVE  DeliveryStep /\ VerificationStep
  <1>1. CASE UNCHANGED storyVars
    BY <1>1 DEF storyVars, DeliveryStep, VerificationStep
  <1>2. CASE StoryNext
    <2>1. PICK w \in Workers :
            \/ Begins(w) \/ Commits(w)
            \/ Unread /\ closing' = [closing EXCEPT ![w] = Idle]
      BY <1>2, CommitCases
    <2> QED
      BY <2>1 DEF Begins, Commits, Unread, DeliveryStep, VerificationStep
  <1> QED
    BY <1>1, <1>2

\* Nothing touches an archived plan or its stories: a command that read the
\* plan before it was archived no longer has its version.
THEOREM ArchivedFrozen == StorySpec => ArchivedIsFrozen
  <1>1. ASSUME StoryInv, [StoryNext]_storyVars,
               NEW p \in Plans, plan[p].status = "ARCHIVED"
        PROVE  /\ plan'[p] = plan[p]
               /\ \A s \in Stories : story[s] # None /\ story[s].plan = p =>
                    story'[s] = story[s]
    <2>1. DeliveryStep
      BY <1>1, StepCases
    <2>2. CASE UNCHANGED deliveryVars
      BY <2>2 DEF deliveryVars
    <2>3. CASE ~ UNCHANGED deliveryVars
      <3>1. PICK x \in Plans, status \in {"DRAFT", "ACTIVE", "ARCHIVED"} :
              /\ plan[x].status # "ARCHIVED"
              /\ plan' = [plan EXCEPT ![x] = [status |-> status,
                                              version |-> plan[x].version + 1]]
              /\ \A s \in Stories :
                   story'[s] # story[s] /\ story[s] # None =>
                     story[s].plan = x
        BY <2>1, <2>3 DEF DeliveryStep
      <3> QED
        BY <1>1, <3>1 DEF StoryInv, StoryRows
    <2> QED
      BY <2>2, <2>3
  <1>2. StoryInv /\ [StoryNext]_storyVars =>
          [\A p \in Plans : plan[p].status = "ARCHIVED" =>
             /\ plan'[p] = plan[p]
             /\ \A s \in Stories : story[s] # None /\ story[s].plan = p =>
                  story'[s] = story[s]]_storyVars
    BY <1>1
  <1> QED
    BY <1>2, StoryInvariant, PTL DEF StorySpec, ArchivedIsFrozen

\* A retest request leaves its requirement unverified, also when an execution
\* was recorded between the request's reading and its commit.
THEOREM RetestUnanswered == StorySpec => RetestIsUnanswered
  <1>1. ASSUME StoryInv, [StoryNext]_storyVars, NEW q \in Requirements,
               retestAfter'[q] # retestAfter[q]
        PROVE  NotRun(q)'
    BY <1>1, StepCases DEF VerificationStep, verificationVars
  <1>2. StoryInv /\ [StoryNext]_storyVars =>
          [\A q \in Requirements :
             retestAfter'[q] # retestAfter[q] => NotRun(q)']_storyVars
    BY <1>1
  <1> QED
    BY <1>2, StoryInvariant, PTL DEF StorySpec, RetestIsUnanswered

\* A story becomes DONE only with a decision, and decisions stay.
LEMMA StaysDecided ==
  ASSUME StoryInv, [StoryNext]_storyVars, DoneIsDecided
  PROVE  DoneIsDecided'
  <1>1. DeliveryStep /\ VerificationStep
    BY StepCases
  <1>2. /\ decided \subseteq decided'
        /\ \A q \in Requirements :
             requirement[q] # None => requirement'[q] = requirement[q]
        /\ \A d \in decided' \ decided :
             \A q \in d.requirements : requirement'[q] = d.story
    BY <1>1 DEF VerificationStep, verificationVars, DecisionStep
  <1>3. ASSUME NEW s \in Stories \ DoneBefore,
               story'[s] # None, story'[s].status = "DONE"
        PROVE  DecisionsOn(s)' # {}
    <2>1. story'[s] = story[s] \/ RowStep(s)
      BY <1>1 DEF DeliveryStep, deliveryVars
    <2>2. CASE DecisionsOn(s) # {}
      BY <1>2, <2>2 DEF DecisionsOn
    <2>3. CASE ~ (story[s] # None /\ story[s].status = "DONE")
      <3>1. CASE story[s] = None
        BY <1>3, <2>1, <3>1, VerificationAssumption DEF RowStep, Transitioned
      <3>2. CASE story[s] \in Story /\ story[s].status # "DONE"
        BY <1>3, <2>1, <3>2, VerificationAssumption
           DEF RowStep, Transitioned, Reestimated, Story
      <3> QED
        BY <2>3, <3>1, <3>2 DEF StoryInv, StoryRows
    <2> QED
      BY <2>2, <2>3 DEF DoneIsDecided
  <1>4. ASSUME NEW d \in decided', NEW q \in d.requirements
        PROVE  requirement'[q] = d.story
    <2>1. CASE d \in decided
      <3>1. requirement[q] = d.story
        BY <2>1 DEF DoneIsDecided
      <3>2. q \in Requirements /\ d.story # None
        BY <2>1, VerificationAssumption DEF StoryInv, StoryRows, Decision
      <3> QED
        BY <1>2, <3>1, <3>2
    <2> QED
      BY <1>2, <2>1
  <1> QED
    BY <1>3, <1>4 DEF DoneIsDecided

\* ADR-023: however completions, reopenings and decisions overlap, a story
\* that is DONE has a decision, and its tests are those of the story.
THEOREM DoneDecided == StorySpec => []DoneIsDecided
  <1>1. StoryInit => DoneIsDecided
    BY DEF StoryInit, DoneIsDecided
  <1>2. StoryInv /\ [StoryNext]_storyVars /\ DoneIsDecided => DoneIsDecided'
    BY StaysDecided
  <1> QED
    BY <1>1, <1>2, StoryInvariant, PTL DEF StorySpec

\* An estimated story that is committed has its reference.
Captured ==
  \A s \in Stories :
    story[s] # None /\ story[s].status \in CaptureStatuses
      /\ story[s].estimate # None => story[s].reference # None

\* Nor do transitions and estimates lose a reference once captured.
LEMMA ReferenceStep ==
  ASSUME ~ Reviving, StoryInv, [StoryNext]_storyVars, Captured
  PROVE  /\ Captured'
         /\ \A s \in Stories :
              story'[s] # None /\ story[s] # None /\ story[s].reference # None
                => story'[s].reference = story[s].reference
  <1>1. SUFFICES ASSUME NEW s \in Stories, story'[s] # None
        PROVE  /\ /\ story'[s].status \in CaptureStatuses
                  /\ story'[s].estimate # None
                  => story'[s].reference # None
               /\ story[s] # None /\ story[s].reference # None =>
                    story'[s].reference = story[s].reference
    BY DEF Captured
  <1>2. story'[s] = story[s] \/ RowStep(s)
    BY StepCases DEF DeliveryStep, deliveryVars
  <1>3. CASE story'[s] = story[s]
    BY <1>1, <1>3 DEF Captured
  <1>4. CASE story[s] = None
    BY <1>1, <1>2, <1>4, VerificationAssumption
       DEF RowStep, Transitioned, CaptureStatuses
  <1>5. CASE /\ story[s] \in Story
             /\ ~ Revived(story[s])
             /\ \E to \in StoryStatuses :
                  story'[s] = Transitioned(story[s], to)
    BY <1>5, VerificationAssumption DEF Transitioned, CaptureStatuses,
       Captured, Story, StoryStatuses, Revived
  <1>6. CASE /\ story[s] \in Story
             /\ \E hours \in Estimates \cup {None} :
                  story'[s] = Reestimated(story[s], hours)
    BY <1>6, VerificationAssumption DEF Reestimated, CaptureStatuses,
       Captured, Story
  <1>7. CASE /\ story[s] \in Story
             /\ ~ Revived(story[s])
             /\ \E hours \in Estimates \cup {None}, to \in StoryStatuses :
                  story'[s] = Transitioned(Reestimated(story[s], hours), to)
    <2>1. PICK hours \in Estimates \cup {None}, to \in StoryStatuses :
            story'[s] = Transitioned(Reestimated(story[s], hours), to)
      BY <1>7
    <2>2. PICK mid : mid = Reestimated(story[s], hours)
      OBVIOUS
    <2>3. /\ mid \in Story /\ mid.status = story[s].status
          /\ story[s].reference # None => mid.reference = story[s].reference
          /\ mid.status \in CaptureStatuses /\ mid.estimate # None
               => mid.reference # None
      BY <1>7, <2>1, <2>2, VerificationAssumption
         DEF Reestimated, CaptureStatuses, Captured, Story
    <2>4. ~ Revived(mid)
      BY <1>7, <2>2, <2>3 DEF Revived, Reestimated
    <2> QED
      BY <2>1, <2>2, <2>3, <2>4, VerificationAssumption
         DEF Transitioned, CaptureStatuses, Story, StoryStatuses, Revived
  <1> QED
    BY <1>2, <1>3, <1>4, <1>5, <1>6, <1>7 DEF RowStep

\* Where no story returns from CANCELLED, the reference by which progress is
\* weighed is captured with the commitment and never rewritten.
THEOREM ReferenceCaptured ==
  ASSUME ~ Reviving
  PROVE  StorySpec => ReferenceIsCapturedOnce
  <1>1. StoryInit => Captured
    BY DEF StoryInit, Captured
  <1>2. ASSUME StoryInv, [StoryNext]_storyVars, Captured
        PROVE  /\ Captured'
               /\ [\A s \in Stories : story'[s] # None =>
                     /\ story'[s].status \in CaptureStatuses
                        /\ story'[s].estimate # None
                          => story'[s].reference # None
                     /\ story[s] # None /\ story[s].reference # None
                          => story'[s].reference
                               = story[s].reference]_storyVars
    BY <1>2, ReferenceStep DEF Captured
  <1> QED
    BY <1>1, <1>2, StoryInvariant, PTL DEF StorySpec, ReferenceIsCapturedOnce

-----------------------------------------------------------------------------
(* Communications: what is remembered of an effect.                         *)

SendRow == [command: {"send"}, batch: Batches, left: SUBSET Messages,
            sent: SUBSET Messages, failed: SUBSET Messages,
            claimed: SUBSET Messages]

BatchTables ==
  /\ batch \in [Batches -> Batch \cup {None}]
  /\ delivery \in [Batches -> [Messages ->
                     {None, "PENDING", "FAILED", "SENT"}]]
  /\ received \in [Batches -> [Effects -> Nat]]
  /\ lost \in [Batches -> [Effects -> Nat]]
  /\ planned \in Nat \ {0}
  /\ DOMAIN sender = Workers

\* What a transaction under way has read and claimed.
Transaction(t) ==
  /\ t.command = "send" =>
       /\ t \in SendRow /\ batch[t.batch] \in Batch
       /\ t.left \cap (t.sent \cup t.claimed) = {}
       /\ t.failed \subseteq t.claimed
       /\ \A m \in t.claimed :
            /\ delivery[t.batch][m] # "SENT"
            /\ m \in t.failed <=> m \notin t.sent
  /\ t.command = "prepare" =>
       /\ t.kind \in Kinds /\ t.version \in Nat \ {0}
       /\ t.included \in SUBSET Messages
  /\ t.command \in {"approve", "cancel", "mark", "drafts"} =>
       t.batch \in Batches /\ batch[t.batch] \in Batch

\* Sendings claim different messages, the other commands are alone.
Apart(t, u) ==
  /\ t.command = "send" /\ u.command = "send" /\ t.batch = u.batch
     => t.claimed \cap u.claimed = {}
  /\ t.command \notin {"none", "send"} => u = Idle

InFlight(t, b, m) ==
  t.command = "send" /\ t.batch = b /\ m \in t.claimed \cap t.sent

Drafting(t, b) == t.command = "drafts" /\ t.batch = b

\* Who remembers an effect.
Remembered(b, e) ==
  IF e = Drafts
  THEN \/ batch[b] \in Batch /\ batch[b].drafted
       \/ \E w \in Workers : Drafting(sender[w], b)
  ELSE \/ batch[b] \in Batch /\ delivery[b][e] = "SENT"
       \/ \E w \in Workers : InFlight(sender[w], b, e)

Balanced(b, e) ==
  \/ received[b][e] <= lost[b][e]
  \/ received[b][e] = lost[b][e] + 1 /\ Remembered(b, e)

AllBalanced == \A b \in Batches, e \in Effects : Balanced(b, e)

AllApart ==
  /\ \A w \in Workers : Transaction(sender[w])
  /\ \A w, v \in Workers : w # v => Apart(sender[w], sender[v])

CommunicationInv == BatchTables /\ AllApart /\ AllBalanced

-----------------------------------------------------------------------------
\* Nothing has been prepared at the start.
LEMMA InitCommunicationInv == CommunicationInit => CommunicationInv
  <1> SUFFICES ASSUME CommunicationInit PROVE CommunicationInv
    OBVIOUS
  <1>1. BatchTables
    BY DEF CommunicationInit, BatchTables
  <1>2. AllApart
    BY DEF CommunicationInit, AllApart, Transaction, Apart, Idle
  <1>3. AllBalanced
    BY DEF CommunicationInit, AllBalanced, Balanced
  <1> QED
    BY <1>1, <1>2, <1>3 DEF CommunicationInv

\* The invariant bounds what is received.
LEMMA Accounted == CommunicationInv => EffectsAccounted
  <1> SUFFICES ASSUME CommunicationInv, NEW b \in Batches, NEW e \in Effects
      PROVE  received[b][e] <= 1 + lost[b][e]
    BY DEF EffectsAccounted
  <1>1. received[b][e] \in Nat /\ lost[b][e] \in Nat
    BY DEF CommunicationInv, BatchTables
  <1> QED
    BY <1>1 DEF CommunicationInv, AllBalanced, Balanced

-----------------------------------------------------------------------------
(* Steps of one transaction.                                               *)

\* The transaction of one worker changes, into one that is apart from the
\* others.
LEMMA Moves ==
  ASSUME CommunicationInv, NEW w \in Workers, NEW t, Transaction(t),
         sender' = [sender EXCEPT ![w] = t],
         \A v \in Workers \ {w} :
           Apart(t, sender[v]) /\ Apart(sender[v], t),
         UNCHANGED <<batch, delivery>>
  PROVE  AllApart'
  <1>1. sender'[w] = t /\ \A v \in Workers \ {w} : sender'[v] = sender[v]
    BY DEF CommunicationInv, BatchTables
  <1>2. ASSUME NEW v \in Workers
        PROVE  Transaction(sender[v])'
    <2>1. PICK u : u = sender'[v]
      OBVIOUS
    <2>2. Transaction(u)
      BY <1>1, <2>1 DEF CommunicationInv, AllApart
    <2> QED
      BY <2>1, <2>2 DEF Transaction
  <1>3. ASSUME NEW v \in Workers, NEW x \in Workers, v # x
        PROVE  Apart(sender[v], sender[x])'
    <2>1. Apart(sender'[v], sender'[x])
      BY <1>1, <1>3 DEF CommunicationInv, AllApart
    <2> QED
      BY <2>1 DEF Apart
  <1> QED
    BY <1>2, <1>3 DEF AllApart

\* What one worker remembers, it still does.
LEMMA StillBalanced ==
  ASSUME CommunicationInv, NEW w \in Workers, NEW t,
         sender' = [sender EXCEPT ![w] = t],
         \A b, m : InFlight(sender[w], b, m) => InFlight(t, b, m),
         \A b : Drafting(sender[w], b) => Drafting(t, b),
         UNCHANGED <<batch, delivery, received, lost>>
  PROVE  AllBalanced'
  <1>1. sender'[w] = t /\ \A v \in Workers \ {w} : sender'[v] = sender[v]
    BY DEF CommunicationInv, BatchTables
  <1>2. ASSUME NEW b \in Batches, NEW e \in Effects, Remembered(b, e)
        PROVE  Remembered(b, e)'
    <2>1. \A v \in Workers :
            /\ InFlight(sender[v], b, e) => InFlight(sender[v], b, e)'
            /\ Drafting(sender[v], b) => Drafting(sender[v], b)'
      BY <1>1 DEF InFlight, Drafting
    <2> QED
      BY <1>2, <2>1 DEF Remembered
  <1>3. ASSUME NEW b \in Batches, NEW e \in Effects
        PROVE  Balanced(b, e)'
    BY <1>2 DEF CommunicationInv, AllBalanced, Balanced
  <1> QED
    BY <1>3 DEF AllBalanced

\* An idle worker remembers nothing.
LEMMA IdleForgets ==
  /\ \A b, m : ~ InFlight(Idle, b, m)
  /\ \A b : ~ Drafting(Idle, b)
  BY DEF InFlight, Drafting, Idle

\* A command that is alone begins, on what it has read.
LEMMA BeginsAlone ==
  ASSUME CommunicationInv, NEW w \in Workers, NEW t, Transaction(t),
         t.command # "send",
         \A v \in Workers : sender[v] = Idle,
         sender' = [sender EXCEPT ![w] = t],
         UNCHANGED <<batch, delivery>>
  PROVE  AllApart'
  <1>1. \A v \in Workers \ {w} :
          Apart(t, sender[v]) /\ Apart(sender[v], t)
    BY DEF Apart, Idle
  <1> QED
    BY <1>1, Moves

\* A preparation begins alone, with what it has read of the plan.
LEMMA BeginPrepareKeeps ==
  ASSUME ~ Overlapping, CommunicationInv, NEW w \in Workers, BeginPrepare(w)
  PROVE  CommunicationInv'
  <1>1. PICK included \in (SUBSET Messages) \ {{}} :
          sender' = [sender EXCEPT ![w] =
            [command |-> "prepare", kind |-> Mode, version |-> planned,
             included |-> included]]
    BY DEF BeginPrepare
  <1>2. PICK t : t = [command |-> "prepare", kind |-> Mode,
                      version |-> planned, included |-> included]
    OBVIOUS
  <1>3. /\ UNCHANGED <<planned, batch, delivery, received, lost>>
        /\ \A v \in Workers : sender[v] = Idle
    BY DEF BeginPrepare, MayDecide
  <1>4. t.command = "prepare" /\ Transaction(t)
    BY <1>2 DEF Transaction, Mode, Kinds, CommunicationInv, BatchTables
  <1>5. sender' = [sender EXCEPT ![w] = t]
    BY <1>1, <1>2
  <1>6. AllApart'
    BY <1>3, <1>4, <1>5, BeginsAlone
  <1>7. AllBalanced'
    BY <1>3, <1>5, IdleForgets, StillBalanced
  <1>8. BatchTables'
    BY <1>1, <1>3 DEF CommunicationInv, BatchTables
  <1> QED
    BY <1>6, <1>7, <1>8 DEF CommunicationInv

\* A decision begins alone, on a batch that exists.
LEMMA BeginDecisionKeeps ==
  ASSUME ~ Overlapping, CommunicationInv, NEW w \in Workers,
         NEW b \in Batches,
         NEW command \in {"approve", "cancel", "mark"}, NEW statuses,
         BeginDecision(w, command, b, statuses)
  PROVE  CommunicationInv'
  <1>1. PICK t : t = [command |-> command, batch |-> b]
    OBVIOUS
  <1>2. /\ sender' = [sender EXCEPT ![w] = t]
        /\ UNCHANGED <<planned, batch, delivery, received, lost>>
        /\ \A v \in Workers : sender[v] = Idle
    BY <1>1 DEF BeginDecision, BeginCommand, MayDecide
  <1>3. batch[b] \in Batch
    BY DEF BeginDecision, BatchIs, CommunicationInv, BatchTables
  <1>4. t.command = command /\ Transaction(t)
    BY <1>1, <1>3 DEF Transaction
  <1>5. AllApart'
    BY <1>2, <1>4, BeginsAlone
  <1>6. AllBalanced'
    BY <1>2, IdleForgets, StillBalanced
  <1>7. BatchTables'
    BY <1>2 DEF CommunicationInv, BatchTables
  <1> QED
    BY <1>5, <1>6, <1>7 DEF CommunicationInv

\* Losing track adds one for each effect.
LEMMA Lost ==
  ASSUME CommunicationInv, NEW b \in Batches, NEW effects, Loses(b, effects)
  PROVE  /\ lost' \in [Batches -> [Effects -> Nat]]
         /\ \A x \in Batches, e \in Effects :
              lost'[x][e] = IF x = b /\ e \in effects THEN lost[x][e] + 1
                            ELSE lost[x][e]
  BY DEF Loses, CommunicationInv, BatchTables

\* One more has reached the outside.
LEMMA Reached ==
  ASSUME CommunicationInv, NEW b \in Batches, NEW e \in Effects,
         received' = [received EXCEPT ![b][e] = @ + 1]
  PROVE  /\ received' \in [Batches -> [Effects -> Nat]]
         /\ \A x \in Batches, y \in Effects :
              received'[x][y] = IF x = b /\ y = e THEN received[x][y] + 1
                                ELSE received[x][y]
  BY DEF CommunicationInv, BatchTables

\* Drafts are made when the batch has none and nobody makes any.
LEMMA BeginDraftsKeeps ==
  ASSUME ~ Overlapping, CommunicationInv, NEW w \in Workers,
         NEW b \in Batches, BeginDrafts(w, b)
  PROVE  CommunicationInv'
  <1>1. /\ batch[b] \in Batch /\ ~ batch[b].drafted
        /\ received' = [received EXCEPT ![b][Drafts] = @ + 1]
        /\ UNCHANGED <<planned, batch, delivery>>
        /\ \A v \in Workers : sender[v] = Idle
    BY DEF BeginDrafts, BatchIs, BeginCommand, MayDecide, CommunicationInv,
       BatchTables
  <1>2. Drafts \in Effects
    BY DEF Effects
  <1>3. /\ received' \in [Batches -> [Effects -> Nat]]
        /\ \A x \in Batches, y \in Effects :
             received'[x][y] = IF x = b /\ y = Drafts
                               THEN received[x][y] + 1 ELSE received[x][y]
    BY <1>1, <1>2, Reached
  <1>4. received[b][Drafts] <= lost[b][Drafts]
    <2>1. ~ Remembered(b, Drafts)
      BY <1>1 DEF Remembered, Drafting, Idle
    <2> QED
      BY <1>2, <2>1 DEF CommunicationInv, AllBalanced, Balanced
  <1>5. \A x \in Batches, e \in Effects :
          received[x][e] \in Nat /\ lost[x][e] \in Nat
    BY DEF CommunicationInv, BatchTables
  <1>6. ASSUME NEW x \in Batches, NEW e \in Effects,
               ~ (x = b /\ e = Drafts)
        PROVE  Remembered(x, e) => Remembered(x, e)'
    BY <1>1 DEF Remembered, Drafting, InFlight, Idle
  <1>7. CASE BeginCommand(w, "drafts", b) /\ UNCHANGED lost
    <2>1. PICK t : t = [command |-> "drafts", batch |-> b]
      OBVIOUS
    <2>2. sender' = [sender EXCEPT ![w] = t]
      BY <1>7, <2>1 DEF BeginCommand
    <2>3. AllApart'
      BY <1>1, <2>1, <2>2, BeginsAlone DEF Transaction
    <2>4. Remembered(b, Drafts)'
      <3>1. Drafting(sender'[w], b)
        BY <2>1, <2>2 DEF Drafting, CommunicationInv, BatchTables
      <3> QED
        BY <3>1 DEF Remembered, Drafting
    <2>5. Balanced(b, Drafts)'
      <3>1. /\ received'[b][Drafts] = received[b][Drafts] + 1
            /\ lost' = lost
        BY <1>2, <1>3, <1>7
      <3>2. \/ received'[b][Drafts] <= lost'[b][Drafts]
            \/ received'[b][Drafts] = lost'[b][Drafts] + 1
        BY <1>2, <1>4, <1>5, <3>1
      <3> QED
        BY <2>4, <3>2 DEF Balanced
    <2>6. ASSUME NEW x \in Batches, NEW e \in Effects
          PROVE  Balanced(x, e)'
      <3>1. CASE x = b /\ e = Drafts
        BY <2>5, <3>1
      <3>2. CASE ~ (x = b /\ e = Drafts)
        BY <1>3, <1>6, <1>7, <3>2
           DEF CommunicationInv, AllBalanced, Balanced
      <3> QED
        BY <3>1, <3>2
    <2>7. BatchTables'
      BY <1>1, <1>3, <1>7, <2>2 DEF CommunicationInv, BatchTables
    <2> QED
      BY <2>3, <2>6, <2>7 DEF CommunicationInv, AllBalanced
  <1>8. CASE Loses(b, {Drafts}) /\ UNCHANGED sender
    <2>1. /\ lost' \in [Batches -> [Effects -> Nat]]
          /\ \A x \in Batches, e \in Effects :
               lost'[x][e] = IF x = b /\ e = Drafts THEN lost[x][e] + 1
                             ELSE lost[x][e]
      BY <1>8, Lost
    <2>2. AllApart'
      BY <1>1, <1>8 DEF CommunicationInv, AllApart, Transaction, Apart
    <2>3. ASSUME NEW x \in Batches, NEW e \in Effects
          PROVE  Balanced(x, e)'
      <3>1. CASE x = b /\ e = Drafts
        BY <1>2, <1>3, <1>4, <1>5, <2>1, <3>1 DEF Balanced
      <3>2. CASE ~ (x = b /\ e = Drafts)
        BY <1>3, <1>6, <2>1, <3>2
           DEF CommunicationInv, AllBalanced, Balanced
      <3> QED
        BY <3>1, <3>2
    <2>4. BatchTables'
      BY <1>1, <1>3, <1>8, <2>1 DEF CommunicationInv, BatchTables
    <2> QED
      BY <2>2, <2>3, <2>4 DEF CommunicationInv, AllBalanced
  <1> QED
    BY <1>7, <1>8 DEF BeginDrafts

-----------------------------------------------------------------------------
(* Sending.                                                                *)

\* A sending is apart from everybody that sends with other claims.
LEMMA SendingApart ==
  ASSUME CommunicationInv, NEW w \in Workers, NEW t, t.command = "send",
         NEW v \in Workers \ {w},
         sender[v].command \in {"none", "send"},
         sender[v].command = "send" /\ sender[v].batch = t.batch =>
           t.claimed \cap sender[v].claimed = {}
  PROVE  Apart(t, sender[v]) /\ Apart(sender[v], t)
  BY DEF Apart

\* A sending begins beside other sendings, with nothing claimed.
LEMMA BeginSendKeeps ==
  ASSUME ~ Overlapping, CommunicationInv, NEW w \in Workers,
         NEW b \in Batches, BeginSend(w, b)
  PROVE  CommunicationInv'
  <1>1. PICK seen : seen = {m \in batch[b].included : delivery[b][m] = "SENT"}
    OBVIOUS
  <1>2. PICK t : t = [command |-> "send", batch |-> b,
                      left |-> batch[b].included \ seen,
                      sent |-> seen, failed |-> {}, claimed |-> {}]
    OBVIOUS
  <1>3. /\ sender' = [sender EXCEPT ![w] = t]
        /\ UNCHANGED <<planned, batch, delivery, received, lost>>
        /\ \A v \in Workers : sender[v].command \in {"none", "send"}
        /\ sender[w] = Idle
    BY <1>1, <1>2 DEF BeginSend, MaySend
  <1>4. batch[b] \in Batch
    BY DEF BeginSend, BatchIs, CommunicationInv, BatchTables
  <1>5. t \in SendRow /\ t.claimed = {} /\ t.failed = {}
        /\ t.command = "send" /\ t.batch = b /\ t.left \cap t.sent = {}
    BY <1>1, <1>2, <1>4 DEF SendRow, Batch
  <1>6. Transaction(t)
    BY <1>4, <1>5 DEF Transaction
  <1>7. \A v \in Workers \ {w} :
          Apart(t, sender[v]) /\ Apart(sender[v], t)
    BY <1>3, <1>5, SendingApart
  <1>8. AllApart'
    BY <1>3, <1>6, <1>7, Moves
  <1>9. AllBalanced'
    BY <1>3, IdleForgets, StillBalanced
  <1>10. BatchTables'
    BY <1>3 DEF CommunicationInv, BatchTables
  <1> QED
    BY <1>8, <1>9, <1>10 DEF CommunicationInv

\* What a sending knows while it goes on.
LEMMA Sending ==
  ASSUME CommunicationInv, NEW w \in Workers, sender[w].command = "send"
  PROVE  /\ sender[w] \in SendRow /\ batch[sender[w].batch] \in Batch
         /\ sender[w].batch \in Batches
         /\ sender[w].left \cap (sender[w].sent \cup sender[w].claimed) = {}
         /\ sender[w].failed \subseteq sender[w].claimed
         /\ \A m \in sender[w].claimed :
              /\ delivery[sender[w].batch][m] # "SENT"
              /\ m \in sender[w].failed <=> m \notin sender[w].sent
         /\ \A v \in Workers \ {w} :
              /\ sender[v].command \in {"none", "send"}
              /\ sender[v].command = "send"
                   /\ sender[v].batch = sender[w].batch =>
                   sender[w].claimed \cap sender[v].claimed = {}
  <1>1. Transaction(sender[w])
    BY DEF CommunicationInv, AllApart
  <1>2. \A v \in Workers \ {w} :
          Apart(sender[w], sender[v]) /\ Apart(sender[v], sender[w])
    BY DEF CommunicationInv, AllApart
  <1> QED
    BY <1>1, <1>2 DEF Transaction, Apart, SendRow, Idle

\* A message that somebody else has sent is left out.
LEMMA SkipKeeps ==
  ASSUME CommunicationInv, NEW w \in Workers, NEW m \in Messages,
         SkipMessage(w, m)
  PROVE  CommunicationInv'
  <1>1. sender[w].command = "send"
    BY DEF SkipMessage, NextMessage
  <1>2. PICK t : t = [sender[w] EXCEPT !.left = @ \ {m}]
    OBVIOUS
  <1>3. /\ sender' = [sender EXCEPT ![w] = t]
        /\ UNCHANGED <<planned, batch, delivery, received, lost>>
    BY <1>2 DEF SkipMessage
  <1>4. /\ t \in SendRow /\ t.command = "send" /\ t.batch = sender[w].batch
        /\ t.left = sender[w].left \ {m} /\ t.sent = sender[w].sent
        /\ t.failed = sender[w].failed /\ t.claimed = sender[w].claimed
    BY <1>1, <1>2, Sending DEF SendRow
  <1>5. Transaction(t)
    BY <1>1, <1>4, Sending DEF Transaction
  <1>6. \A v \in Workers \ {w} :
          Apart(t, sender[v]) /\ Apart(sender[v], t)
    BY <1>1, <1>4, Sending, SendingApart
  <1>7. AllApart'
    BY <1>3, <1>5, <1>6, Moves
  <1>8. AllBalanced'
    BY <1>1, <1>3, <1>4, StillBalanced DEF InFlight, Drafting
  <1>9. BatchTables'
    BY <1>3 DEF CommunicationInv, BatchTables
  <1> QED
    BY <1>7, <1>8, <1>9 DEF CommunicationInv

\* One answer of the server is recorded in the transaction.
LEMMA Answered ==
  ASSUME CommunicationInv, NEW w \in Workers, NEW m \in Messages,
         NextMessage(w, m), Claimable(w, m), NEW t,
         t = [sender[w] EXCEPT !.left = @ \ {m}, !.claimed = @ \cup {m},
                               !.sent = t.sent, !.failed = t.failed],
         \/ t.sent = sender[w].sent \cup {m} /\ t.failed = sender[w].failed
         \/ t.sent = sender[w].sent /\ t.failed = sender[w].failed \cup {m},
         sender' = [sender EXCEPT ![w] = t],
         UNCHANGED <<batch, delivery>>
  PROVE  /\ AllApart'
         /\ t.batch = sender[w].batch /\ t.command = "send"
         /\ t.claimed = sender[w].claimed \cup {m}
         /\ sender[w].sent \subseteq t.sent
  <1>1. sender[w].command = "send" /\ m \in sender[w].left
    BY DEF NextMessage
  <1>2. /\ t \in SendRow /\ t.command = "send" /\ t.batch = sender[w].batch
        /\ t.left = sender[w].left \ {m}
        /\ t.claimed = sender[w].claimed \cup {m}
        /\ sender[w].sent \subseteq t.sent
    <2>1. sender[w] \in SendRow
      BY <1>1, Sending
    <2>2. t.sent \in SUBSET Messages /\ t.failed \in SUBSET Messages
      BY <2>1 DEF SendRow
    <2>3. PICK se, fa : se = t.sent /\ fa = t.failed
      OBVIOUS
    <2>4. t = [sender[w] EXCEPT !.left = @ \ {m}, !.claimed = @ \cup {m},
                                !.sent = se, !.failed = fa]
      BY <2>3
    <2>5. t = [command |-> "send", batch |-> sender[w].batch,
               left |-> sender[w].left \ {m}, sent |-> se, failed |-> fa,
               claimed |-> sender[w].claimed \cup {m}]
      BY <2>1, <2>4 DEF SendRow
    <2>6. /\ t.command = "send" /\ t.batch = sender[w].batch
          /\ t.left = sender[w].left \ {m}
          /\ t.claimed = sender[w].claimed \cup {m}
      BY <2>5
    <2>7. t \in SendRow
      BY <2>1, <2>2, <2>3, <2>5 DEF SendRow
    <2> QED
      BY <2>6, <2>7
  <1>3. Transaction(t)
    <2>1. /\ batch[t.batch] \in Batch
          /\ t.left \cap (t.sent \cup t.claimed) = {}
          /\ t.failed \subseteq t.claimed
      BY <1>1, <1>2, Sending
    <2>2. ASSUME NEW n \in t.claimed
          PROVE  /\ delivery[t.batch][n] # "SENT"
                 /\ n \in t.failed <=> n \notin t.sent
      <3>1. CASE n = m
        BY <1>1, <1>2, <3>1, Sending DEF Claimable
      <3>2. CASE n # m
        BY <1>1, <1>2, <3>2, Sending
      <3> QED
        BY <3>1, <3>2
    <2> QED
      BY <1>2, <2>1, <2>2 DEF Transaction
  <1>4. \A v \in Workers \ {w} :
          Apart(t, sender[v]) /\ Apart(sender[v], t)
    <2>1. ASSUME NEW v \in Workers \ {w}
          PROVE  /\ sender[v].command \in {"none", "send"}
                 /\ sender[v].command = "send" /\ sender[v].batch = t.batch
                      => t.claimed \cap sender[v].claimed = {}
      BY <1>1, <1>2, Sending DEF NextMessage
    <2> QED
      BY <1>2, <2>1, SendingApart
  <1> QED
    BY <1>2, <1>3, <1>4, Moves

\* A message that may be claimed has left no trace that counts.
LEMMA Unremembered ==
  ASSUME CommunicationInv, NEW w \in Workers, NEW m \in Messages,
         NextMessage(w, m), Claimable(w, m)
  PROVE  received[sender[w].batch][m] <= lost[sender[w].batch][m]
  <1>1. PICK b \in Batches : b = sender[w].batch
    BY Sending DEF NextMessage
  <1>2. m \in Effects /\ m # Drafts
    BY MessagesAssumption DEF Effects, Drafts
  <1>3. ~ InFlight(sender[w], b, m)
    BY Sending DEF InFlight, NextMessage
  <1>4. \A v \in Workers \ {w} : ~ InFlight(sender[v], b, m)
    BY <1>1 DEF InFlight, NextMessage
  <1>5. ~ Remembered(b, m)
    BY <1>1, <1>2, <1>3, <1>4 DEF Remembered, Claimable
  <1>6. Balanced(b, m)
    BY <1>2 DEF CommunicationInv, AllBalanced
  <1>7. received[b][m] \in Nat /\ lost[b][m] \in Nat
    BY <1>2 DEF CommunicationInv, BatchTables
  <1> QED
    BY <1>1, <1>5, <1>6, <1>7 DEF Balanced

\* What the other effects rest on is not disturbed by an answer.
LEMMA StillRemembered ==
  ASSUME CommunicationInv, NEW w \in Workers, NEW t,
         sender[w].command = "send", t.command = "send",
         t.batch = sender[w].batch,
         sender[w].claimed \subseteq t.claimed,
         sender[w].sent \subseteq t.sent,
         sender' = [sender EXCEPT ![w] = t],
         UNCHANGED <<batch, delivery>>,
         NEW b \in Batches, NEW e \in Effects, Remembered(b, e)
  PROVE  Remembered(b, e)'
  <1>1. sender'[w] = t /\ \A v \in Workers \ {w} : sender'[v] = sender[v]
    BY DEF CommunicationInv, BatchTables
  <1>2. \A v \in Workers :
          /\ InFlight(sender[v], b, e) => InFlight(sender[v], b, e)'
          /\ Drafting(sender[v], b) => Drafting(sender[v], b)'
    BY <1>1 DEF InFlight, Drafting
  <1> QED
    BY <1>2 DEF Remembered

\* A message reaches somebody once more than its track was lost, and the
\* transaction remembers it, or the loss is counted.
LEMMA SendKeeps ==
  ASSUME CommunicationInv, NEW w \in Workers, NEW m \in Messages,
         SendMessage(w, m)
  PROVE  CommunicationInv'
  <1>1. PICK b \in Batches : b = sender[w].batch
    BY Sending DEF SendMessage, NextMessage
  <1>2. /\ NextMessage(w, m) /\ Claimable(w, m)
        /\ UNCHANGED <<planned, batch, delivery>>
        /\ sender[w].command = "send"
    BY DEF SendMessage, NextMessage
  <1>3. m \in Effects /\ m # Drafts
    BY MessagesAssumption DEF Effects, Drafts
  <1>4. received[b][m] <= lost[b][m]
    BY <1>1, <1>2, Unremembered
  <1>5. \A x \in Batches, e \in Effects :
          received[x][e] \in Nat /\ lost[x][e] \in Nat
    BY DEF CommunicationInv, BatchTables
  <1>6. sender[w] \in SendRow
    BY <1>2, Sending
  <1>7. CASE /\ sender' = [sender EXCEPT ![w].left = @ \ {m},
                  ![w].claimed = @ \cup {m}, ![w].sent = @ \cup {m},
                  ![w].failed = @]
             /\ received' = [received EXCEPT ![b][m] = @ + 1]
             /\ UNCHANGED lost
    <2>1. PICK t : t = [sender[w] EXCEPT !.left = @ \ {m},
                  !.claimed = @ \cup {m}, !.sent = @ \cup {m},
                  !.failed = @]
      OBVIOUS
    <2>2. sender' = [sender EXCEPT ![w] = t]
      BY <1>7, <2>1 DEF CommunicationInv, BatchTables
    <2>3. /\ t.sent = sender[w].sent \cup {m} /\ t.failed = sender[w].failed
          /\ t = [sender[w] EXCEPT !.left = @ \ {m}, !.claimed = @ \cup {m},
                                   !.sent = t.sent, !.failed = t.failed]
      BY <1>6, <2>1 DEF SendRow
    <2>4. /\ AllApart'
          /\ t.batch = sender[w].batch /\ t.command = "send"
          /\ t.claimed = sender[w].claimed \cup {m}
          /\ sender[w].sent \subseteq t.sent
      BY <1>2, <2>2, <2>3, Answered
    <2>5. /\ received' \in [Batches -> [Effects -> Nat]]
          /\ \A x \in Batches, y \in Effects :
               received'[x][y] = IF x = b /\ y = m THEN received[x][y] + 1
                                 ELSE received[x][y]
      BY <1>3, <1>7, Reached
    <2>6. Remembered(b, m)'
      <3>1. InFlight(sender'[w], b, m)
        BY <1>1, <2>2, <2>3, <2>4
           DEF InFlight, CommunicationInv, BatchTables
      <3> QED
        BY <1>3, <3>1 DEF Remembered, InFlight
    <2>7. Balanced(b, m)'
      <3>1. received'[b][m] = received[b][m] + 1 /\ lost' = lost
        BY <1>3, <1>7, <2>5
      <3>2. \/ received'[b][m] <= lost'[b][m]
            \/ received'[b][m] = lost'[b][m] + 1
        BY <1>3, <1>4, <1>5, <3>1
      <3> QED
        BY <2>6, <3>2 DEF Balanced
    <2>8. ASSUME NEW x \in Batches, NEW e \in Effects
          PROVE  Balanced(x, e)'
      <3>1. CASE x = b /\ e = m
        BY <2>7, <3>1
      <3>2. CASE ~ (x = b /\ e = m)
        <4>1. Remembered(x, e) => Remembered(x, e)'
          BY <1>2, <2>2, <2>4, StillRemembered
        <4> QED
          BY <1>7, <2>5, <3>2, <4>1
             DEF CommunicationInv, AllBalanced, Balanced
      <3> QED
        BY <3>1, <3>2
    <2>9. BatchTables'
      BY <1>2, <1>7, <2>2, <2>5 DEF CommunicationInv, BatchTables
    <2> QED
      BY <2>4, <2>8, <2>9 DEF CommunicationInv, AllBalanced
  <1>8. CASE /\ sender' = [sender EXCEPT ![w].left = @ \ {m},
                  ![w].claimed = @ \cup {m}, ![w].sent = @,
                  ![w].failed = @ \cup {m}]
             /\ \/ UNCHANGED <<received, lost>>
                \/ /\ received' = [received EXCEPT ![b][m] = @ + 1]
                   /\ Loses(b, {m})
    <2>1. PICK t : t = [sender[w] EXCEPT !.left = @ \ {m},
                  !.claimed = @ \cup {m}, !.sent = @,
                  !.failed = @ \cup {m}]
      OBVIOUS
    <2>2. sender' = [sender EXCEPT ![w] = t]
      BY <1>8, <2>1 DEF CommunicationInv, BatchTables
    <2>3. /\ t.sent = sender[w].sent /\ t.failed = sender[w].failed \cup {m}
          /\ t = [sender[w] EXCEPT !.left = @ \ {m}, !.claimed = @ \cup {m},
                                   !.sent = t.sent, !.failed = t.failed]
      BY <1>6, <2>1 DEF SendRow
    <2>4. /\ AllApart'
          /\ t.batch = sender[w].batch /\ t.command = "send"
          /\ t.claimed = sender[w].claimed \cup {m}
          /\ sender[w].sent \subseteq t.sent
      BY <1>2, <2>2, <2>3, Answered
    <2>5. /\ received' \in [Batches -> [Effects -> Nat]]
          /\ lost' \in [Batches -> [Effects -> Nat]]
          /\ received'[b][m] <= lost'[b][m]
          /\ \A x \in Batches, y \in Effects : ~ (x = b /\ y = m) =>
               received'[x][y] = received[x][y] /\ lost'[x][y] = lost[x][y]
      <3>1. CASE UNCHANGED <<received, lost>>
        BY <1>4, <3>1 DEF CommunicationInv, BatchTables
      <3>2. CASE /\ received' = [received EXCEPT ![b][m] = @ + 1]
                 /\ Loses(b, {m})
        <4>1. /\ received' \in [Batches -> [Effects -> Nat]]
              /\ \A x \in Batches, y \in Effects :
                   received'[x][y] = IF x = b /\ y = m
                                     THEN received[x][y] + 1
                                     ELSE received[x][y]
          BY <1>3, <3>2, Reached
        <4>2. /\ lost' \in [Batches -> [Effects -> Nat]]
              /\ \A x \in Batches, e \in Effects :
                   lost'[x][e] = IF x = b /\ e = m THEN lost[x][e] + 1
                                 ELSE lost[x][e]
          BY <3>2, Lost
        <4> QED
          BY <1>3, <1>4, <1>5, <4>1, <4>2
      <3> QED
        BY <1>8, <3>1, <3>2
    <2>6. ASSUME NEW x \in Batches, NEW e \in Effects
          PROVE  Balanced(x, e)'
      <3>1. CASE x = b /\ e = m
        BY <2>5, <3>1 DEF Balanced
      <3>2. CASE ~ (x = b /\ e = m)
        <4>1. Remembered(x, e) => Remembered(x, e)'
          BY <1>2, <2>2, <2>4, StillRemembered
        <4> QED
          BY <2>5, <3>2, <4>1 DEF CommunicationInv, AllBalanced, Balanced
      <3> QED
        BY <3>1, <3>2
    <2>7. BatchTables'
      BY <1>2, <2>2, <2>5 DEF CommunicationInv, BatchTables
    <2> QED
      BY <2>4, <2>6, <2>7 DEF CommunicationInv, AllBalanced
  <1> QED
    BY <1>1, <1>7, <1>8 DEF SendMessage

-----------------------------------------------------------------------------
(* The end of a transaction.                                               *)

\* Who ends leaves the others as they are: either there are only sendings,
\* or nobody else is at work.
LEMMA Ended ==
  ASSUME CommunicationInv, NEW w \in Workers, Ends(w),
         sender[w].command # "none",
         \A v \in Workers \ {w} : sender[v].command = "send" =>
           /\ batch'[sender[v].batch] \in Batch
           /\ \A m \in sender[v].claimed :
                delivery'[sender[v].batch][m] # "SENT"
  PROVE  AllApart'
  <1>1. /\ sender'[w] = Idle
        /\ \A v \in Workers \ {w} : sender'[v] = sender[v]
    BY DEF CommunicationInv, BatchTables, Ends
  <1>2. \A v \in Workers \ {w} : sender[v].command \in {"none", "send"}
    BY DEF CommunicationInv, AllApart, Apart, Idle, Transaction
  <1>3. ASSUME NEW v \in Workers
        PROVE  Transaction(sender[v])'
    <2>1. CASE v = w
      BY <1>1, <2>1 DEF Transaction, Idle
    <2>2. CASE v # w
      <3>1. Transaction(sender[v]) /\ sender'[v] = sender[v]
        BY <1>1, <2>2 DEF CommunicationInv, AllApart
      <3>2. CASE sender[v].command = "none"
        BY <3>1, <3>2 DEF Transaction
      <3>3. CASE sender[v].command = "send"
        BY <2>2, <3>1, <3>3 DEF Transaction
      <3> QED
        BY <1>2, <2>2, <3>2, <3>3
    <2> QED
      BY <2>1, <2>2
  <1>4. ASSUME NEW v \in Workers, NEW x \in Workers, v # x
        PROVE  Apart(sender[v], sender[x])'
    <2>1. Apart(sender'[v], sender'[x])
      BY <1>1, <1>4 DEF CommunicationInv, AllApart, Apart, Idle
    <2> QED
      BY <2>1 DEF Apart
  <1> QED
    BY <1>3, <1>4 DEF AllApart

\* Where the outside is not reached and no track is lost, it is enough that
\* what was remembered still is.
LEMMA BalanceKept ==
  ASSUME CommunicationInv, UNCHANGED <<received, lost>>,
         \A b \in Batches, e \in Effects :
           Remembered(b, e) => Remembered(b, e)'
  PROVE  AllBalanced'
  BY DEF CommunicationInv, AllBalanced, Balanced

\* A command that is not a sending was alone.
LEMMA Alone ==
  ASSUME CommunicationInv, NEW w \in Workers,
         sender[w].command \in
           {"prepare", "approve", "cancel", "mark", "drafts"}
  PROVE  \A v \in Workers \ {w} : sender[v] = Idle
  BY DEF CommunicationInv, AllApart, Apart

\* A batch is prepared where there was none.
LEMMA CommitPrepareKeeps ==
  ASSUME CommunicationInv, NEW w \in Workers, CommitPrepare(w)
  PROVE  CommunicationInv'
  <1>1. PICK b \in Batches :
          /\ batch[b] = None
          /\ batch' = [batch EXCEPT ![b] =
               [kind |-> sender[w].kind, version |-> sender[w].version,
                status |-> "PREPARED", included |-> sender[w].included,
                drafted |-> FALSE]]
          /\ delivery' = [delivery EXCEPT ![b] =
               [m \in Messages |->
                  IF m \in sender[w].included THEN "PENDING" ELSE None]]
    BY DEF CommitPrepare
  <1>2. /\ sender[w].command = "prepare" /\ Ends(w)
        /\ UNCHANGED <<planned, received, lost>>
    BY DEF CommitPrepare
  <1>3. \A v \in Workers \ {w} : sender[v] = Idle
    BY <1>2, Alone
  <1>4. Transaction(sender[w])
    BY DEF CommunicationInv, AllApart
  <1>5. BatchTables'
    <2>1. [kind |-> sender[w].kind, version |-> sender[w].version,
           status |-> "PREPARED", included |-> sender[w].included,
           drafted |-> FALSE] \in Batch
      BY <1>2, <1>4 DEF Transaction, Batch
    <2> QED
      BY <1>1, <1>2, <2>1 DEF CommunicationInv, BatchTables, Ends
  <1>6. AllApart'
    BY <1>2, <1>3, Ended DEF Idle
  <1>7. ASSUME NEW x \in Batches, NEW e \in Effects, Remembered(x, e)
        PROVE  Remembered(x, e)'
    <2>1. \A v \in Workers :
            ~ InFlight(sender[v], x, e) /\ ~ Drafting(sender[v], x)
      BY <1>2, <1>3 DEF InFlight, Drafting, Idle
    <2>2. batch[x] \in Batch
      BY <1>7, <2>1 DEF Remembered
    <2>3. x # b
      BY <1>1, <2>2, MessagesAssumption
    <2>4. batch'[x] = batch[x] /\ delivery'[x] = delivery[x]
      BY <1>1, <2>3 DEF CommunicationInv, BatchTables
    <2> QED
      BY <1>7, <2>1, <2>4 DEF Remembered
  <1>8. AllBalanced'
    BY <1>2, <1>7, BalanceKept
  <1> QED
    BY <1>5, <1>6, <1>8 DEF CommunicationInv

\* A decision sets the status of a batch and nothing that remembers an
\* effect.
LEMMA CommitDecisionKeeps ==
  ASSUME CommunicationInv, NEW w \in Workers, CommitDecision(w)
  PROVE  CommunicationInv'
  <1>1. /\ sender[w].command \in {"approve", "cancel", "mark"} /\ Ends(w)
        /\ UNCHANGED <<planned, delivery, received, lost>>
    BY DEF CommitDecision
  <1>2. Transaction(sender[w]) /\ \A v \in Workers \ {w} : sender[v] = Idle
    BY <1>1, Alone DEF CommunicationInv, AllApart
  <1>3. PICK b \in Batches : b = sender[w].batch /\ batch[b] \in Batch
    BY <1>1, <1>2 DEF Transaction
  <1>4. PICK status \in {"APPROVED", "CANCELLED", "COMMUNICATED"} :
          batch' = [batch EXCEPT ![b].status = status]
    BY <1>3 DEF CommitDecision, SetStatus
  <1>5. /\ batch'[b] \in Batch /\ batch'[b].drafted = batch[b].drafted
        /\ \A x \in Batches \ {b} : batch'[x] = batch[x]
        /\ batch' \in [Batches -> Batch \cup {None}]
    BY <1>3, <1>4 DEF CommunicationInv, BatchTables, Batch
  <1>6. BatchTables'
    BY <1>1, <1>5 DEF CommunicationInv, BatchTables, Ends
  <1>7. AllApart'
    BY <1>1, <1>2, Ended DEF Idle
  <1>8. ASSUME NEW x \in Batches, NEW e \in Effects, Remembered(x, e)
        PROVE  Remembered(x, e)'
    <2>1. \A v \in Workers :
            ~ InFlight(sender[v], x, e) /\ ~ Drafting(sender[v], x)
      BY <1>1, <1>2 DEF InFlight, Drafting, Idle
    <2> QED
      BY <1>1, <1>3, <1>5, <1>8, <2>1 DEF Remembered
  <1>9. AllBalanced'
    BY <1>1, <1>8, BalanceKept
  <1> QED
    BY <1>6, <1>7, <1>9 DEF CommunicationInv

\* The batch remembers its drafts from now on.
LEMMA CommitDraftsKeeps ==
  ASSUME CommunicationInv, NEW w \in Workers, CommitDrafts(w)
  PROVE  CommunicationInv'
  <1>1. /\ sender[w].command = "drafts" /\ Ends(w)
        /\ UNCHANGED <<planned, delivery, received, lost>>
    BY DEF CommitDrafts
  <1>2. Transaction(sender[w]) /\ \A v \in Workers \ {w} : sender[v] = Idle
    BY <1>1, Alone DEF CommunicationInv, AllApart
  <1>3. PICK b \in Batches : b = sender[w].batch /\ batch[b] \in Batch
    BY <1>1, <1>2 DEF Transaction
  <1>4. batch' = [batch EXCEPT ![b].drafted = TRUE]
    BY <1>3 DEF CommitDrafts
  <1>5. /\ batch'[b] \in Batch /\ batch'[b].drafted = TRUE
        /\ \A x \in Batches \ {b} : batch'[x] = batch[x]
        /\ batch' \in [Batches -> Batch \cup {None}]
    BY <1>3, <1>4 DEF CommunicationInv, BatchTables, Batch
  <1>6. BatchTables'
    BY <1>1, <1>5 DEF CommunicationInv, BatchTables, Ends
  <1>7. AllApart'
    BY <1>1, <1>2, Ended DEF Idle
  <1>8. ASSUME NEW x \in Batches, NEW e \in Effects, Remembered(x, e)
        PROVE  Remembered(x, e)'
    <2>1. \A v \in Workers : /\ ~ InFlight(sender[v], x, e)
                             /\ Drafting(sender[v], x) => x = b
      BY <1>1, <1>2, <1>3 DEF InFlight, Drafting, Idle
    <2> QED
      BY <1>1, <1>3, <1>5, <1>8, <2>1 DEF Remembered
  <1>9. AllBalanced'
    BY <1>1, <1>8, BalanceKept
  <1> QED
    BY <1>6, <1>7, <1>9 DEF CommunicationInv

\* What a transaction has sent is in the rows of its messages when it
\* commits.
LEMMA CommitSendKeeps ==
  ASSUME CommunicationInv, NEW w \in Workers, CommitSend(w)
  PROVE  CommunicationInv'
  <1>1. /\ sender[w].command = "send" /\ Ends(w)
        /\ UNCHANGED <<planned, received, lost>>
    BY DEF CommitSend
  <1>2. PICK b \in Batches : b = sender[w].batch /\ batch[b] \in Batch
    BY <1>1, Sending
  <1>3. /\ delivery' \in [Batches -> [Messages ->
                           {None, "PENDING", "FAILED", "SENT"}]]
        /\ \A x \in Batches \ {b} : delivery'[x] = delivery[x]
        /\ \A m \in Messages : delivery'[b][m] =
             IF m \notin sender[w].claimed THEN delivery[b][m]
             ELSE IF m \in sender[w].failed THEN "FAILED" ELSE "SENT"
    BY <1>2 DEF CommitSend, CommunicationInv, BatchTables
  <1>4. /\ batch'[b] \in Batch /\ batch'[b].drafted = batch[b].drafted
        /\ \A x \in Batches \ {b} : batch'[x] = batch[x]
        /\ batch' \in [Batches -> Batch \cup {None}]
    <2>1. CASE UNCHANGED batch
      BY <1>2, <2>1 DEF CommunicationInv, BatchTables
    <2>2. CASE batch' = [batch EXCEPT ![b].status = "COMMUNICATED"]
      BY <1>2, <2>2 DEF CommunicationInv, BatchTables, Batch
    <2> QED
      BY <1>2, <2>1, <2>2 DEF CommitSend, SetStatus
  <1>5. BatchTables'
    BY <1>1, <1>3, <1>4 DEF CommunicationInv, BatchTables, Ends
  <1>6. AllApart'
    <2>1. ASSUME NEW v \in Workers \ {w}, sender[v].command = "send"
          PROVE  /\ batch'[sender[v].batch] \in Batch
                 /\ \A m \in sender[v].claimed :
                      delivery'[sender[v].batch][m] # "SENT"
      <3>1. /\ sender[v].batch \in Batches /\ batch[sender[v].batch] \in Batch
            /\ sender[v].claimed \subseteq Messages
            /\ \A m \in sender[v].claimed :
                 delivery[sender[v].batch][m] # "SENT"
        BY <2>1, Sending DEF SendRow
      <3>2. sender[v].batch = b =>
              sender[w].claimed \cap sender[v].claimed = {}
        BY <1>1, <1>2, <2>1, Sending
      <3> QED
        BY <1>3, <1>4, <3>1, <3>2
    <2> QED
      BY <1>1, <2>1, Ended
  <1>7. ASSUME NEW x \in Batches, NEW e \in Effects, Remembered(x, e)
        PROVE  Remembered(x, e)'
    <2>1. \A v \in Workers \ {w} :
            /\ InFlight(sender[v], x, e) => InFlight(sender'[v], x, e)
            /\ Drafting(sender[v], x) => Drafting(sender'[v], x)
      BY <1>1 DEF Ends, CommunicationInv, BatchTables
    <2>2. CASE e = Drafts
      <3>1. ~ Drafting(sender[w], x)
        BY <1>1 DEF Drafting
      <3> QED
        BY <1>2, <1>4, <1>7, <2>1, <2>2, <3>1 DEF Remembered, Drafting
    <2>3. CASE e # Drafts
      <3>1. e \in Messages
        BY <2>3 DEF Effects
      <3>2. CASE batch[x] \in Batch /\ delivery[x][e] = "SENT"
        <4>1. x = b => e \notin sender[w].claimed
          BY <1>1, <1>2, <3>2, Sending
        <4> QED
          BY <1>2, <1>3, <1>4, <2>3, <3>1, <3>2, <4>1 DEF Remembered
      <3>3. CASE InFlight(sender[w], x, e)
        <4>1. x = b /\ e \in sender[w].claimed /\ e \notin sender[w].failed
          BY <1>1, <1>2, <3>3, Sending DEF InFlight
        <4> QED
          BY <1>3, <1>4, <2>3, <3>1, <4>1 DEF Remembered
      <3>4. CASE \E v \in Workers \ {w} : InFlight(sender[v], x, e)
        BY <2>1, <2>3, <3>4 DEF Remembered, InFlight
      <3> QED
        BY <1>7, <2>3, <3>2, <3>3, <3>4 DEF Remembered
    <2> QED
      BY <2>2, <2>3
  <1>8. AllBalanced'
    BY <1>1, <1>7, BalanceKept
  <1> QED
    BY <1>5, <1>6, <1>8 DEF CommunicationInv

\* The track of what a transaction had done is lost with it.
LEMMA LostWithIt ==
  ASSUME CommunicationInv, NEW w \in Workers, Ends(w),
         NEW b \in Batches, NEW effects, Loses(b, effects),
         \A m : InFlight(sender[w], b, m) => m \in effects,
         \A x, m : InFlight(sender[w], x, m) => x = b,
         \A x : Drafting(sender[w], x) => x = b /\ Drafts \in effects,
         UNCHANGED <<planned, batch, delivery, received>>
  PROVE  CommunicationInv'
  <1>1. /\ lost' \in [Batches -> [Effects -> Nat]]
        /\ \A x \in Batches, e \in Effects :
             lost'[x][e] = IF x = b /\ e \in effects THEN lost[x][e] + 1
                           ELSE lost[x][e]
    BY Lost
  <1>2. /\ sender'[w] = Idle
        /\ \A v \in Workers \ {w} : sender'[v] = sender[v]
    BY DEF Ends, CommunicationInv, BatchTables
  <1>3. AllApart'
    <2>1. \A v \in Workers \ {w} :
            Apart(Idle, sender[v]) /\ Apart(sender[v], Idle)
      BY DEF Apart, Idle
    <2>2. Transaction(Idle) /\ sender' = [sender EXCEPT ![w] = Idle]
      BY DEF Transaction, Idle, Ends
    <2> QED
      BY <2>1, <2>2, Moves
  <1>4. ASSUME NEW x \in Batches, NEW e \in Effects,
               ~ (x = b /\ e \in effects), Remembered(x, e)
        PROVE  Remembered(x, e)'
    <2>1. \A v \in Workers : InFlight(sender[v], x, e) =>
                               InFlight(sender[v], x, e)'
      BY <1>2, <1>4 DEF InFlight
    <2>2. e = Drafts => \A v \in Workers :
            Drafting(sender[v], x) => Drafting(sender[v], x)'
      BY <1>2, <1>4 DEF Drafting
    <2> QED
      BY <1>4, <2>1, <2>2 DEF Remembered
  <1>5. ASSUME NEW x \in Batches, NEW e \in Effects
        PROVE  Balanced(x, e)'
    <2>1. /\ received[x][e] \in Nat /\ lost[x][e] \in Nat /\ Balanced(x, e)
          /\ received' = received
      BY DEF CommunicationInv, BatchTables, AllBalanced
    <2>2. CASE x = b /\ e \in effects
      BY <1>1, <2>1, <2>2 DEF Balanced
    <2>3. CASE ~ (x = b /\ e \in effects)
      BY <1>1, <1>4, <2>1, <2>3 DEF Balanced
    <2> QED
      BY <2>2, <2>3
  <1>6. BatchTables'
    BY <1>1 DEF Ends, CommunicationInv, BatchTables
  <1> QED
    BY <1>3, <1>5, <1>6 DEF CommunicationInv, AllBalanced

\* A crash loses what the transaction alone remembered.
LEMMA CrashKeeps ==
  ASSUME CommunicationInv, NEW w \in Workers, Crash(w)
  PROVE  CommunicationInv'
  <1>1. Ends(w) /\ UNCHANGED <<planned, batch, delivery, received>>
    BY DEF Crash
  <1>2. CASE sender[w].command = "send"
    <2>1. PICK b \in Batches : b = sender[w].batch
      BY <1>2, Sending
    <2>2. PICK effects : effects = sender[w].claimed \cap sender[w].sent
      OBVIOUS
    <2>3. Loses(b, effects)
      BY <1>2, <2>1, <2>2 DEF Crash
    <2>4. /\ \A m : InFlight(sender[w], b, m) => m \in effects
          /\ \A x, m : InFlight(sender[w], x, m) => x = b
          /\ \A x : ~ Drafting(sender[w], x)
      BY <1>2, <2>1, <2>2 DEF InFlight, Drafting
    <2> QED
      BY <1>1, <2>3, <2>4, LostWithIt
  <1>3. CASE sender[w].command = "drafts"
    <2>1. PICK b \in Batches : b = sender[w].batch
      BY <1>3 DEF CommunicationInv, AllApart, Transaction
    <2>2. Loses(b, {Drafts})
      BY <1>3, <2>1 DEF Crash
    <2>3. /\ \A x, m : ~ InFlight(sender[w], x, m)
          /\ \A x : Drafting(sender[w], x) => x = b
      BY <1>3, <2>1 DEF InFlight, Drafting
    <2> QED
      BY <1>1, <2>2, <2>3, LostWithIt
  <1>4. CASE sender[w].command \notin {"send", "drafts"}
    <2>1. UNCHANGED lost /\ sender' = [sender EXCEPT ![w] = Idle]
      BY <1>1, <1>4 DEF Crash, Ends
    <2>2. \A v \in Workers \ {w} :
            Apart(Idle, sender[v]) /\ Apart(sender[v], Idle)
      BY DEF Apart, Idle
    <2>3. Transaction(Idle)
      BY DEF Transaction, Idle
    <2>4. AllApart'
      BY <1>1, <2>1, <2>2, <2>3, Moves
    <2>5. AllBalanced'
      BY <1>1, <1>4, <2>1, StillBalanced DEF InFlight, Drafting
    <2>6. BatchTables'
      BY <1>1, <2>1 DEF CommunicationInv, BatchTables
    <2> QED
      BY <2>4, <2>5, <2>6 DEF CommunicationInv
  <1> QED
    BY <1>2, <1>3, <1>4

-----------------------------------------------------------------------------
(* The whole.                                                              *)

\* The plan changes, or nothing does.
LEMMA ElsewhereKeeps ==
  ASSUME CommunicationInv,
         UNCHANGED <<batch, delivery, received, lost, sender>>,
         planned' = planned \/ planned' \in Nat \ {0}
  PROVE  CommunicationInv'
  <1>1. BatchTables'
    BY DEF CommunicationInv, BatchTables
  <1>2. AllApart'
    BY DEF CommunicationInv, AllApart, Transaction, Apart
  <1>3. AllBalanced'
    BY DEF CommunicationInv, AllBalanced, Balanced, Remembered, InFlight,
       Drafting
  <1> QED
    BY <1>1, <1>2, <1>3 DEF CommunicationInv

\* Each step keeps the invariant.
LEMMA NextCommunicationInv ==
  ASSUME ~ Overlapping, CommunicationInv,
         [CommunicationNext]_communicationVars
  PROVE  CommunicationInv'
  <1>1. CASE ChangePlan
    BY <1>1, ElsewhereKeeps DEF ChangePlan
  <1>2. CASE UNCHANGED communicationVars
    BY <1>2, ElsewhereKeeps DEF communicationVars
  <1>3. ASSUME NEW w \in Workers,
               \/ BeginPrepare(w) \/ CommitPrepare(w)
               \/ CommitDecision(w) \/ CommitDrafts(w)
               \/ CommitSend(w) \/ Crash(w)
        PROVE  CommunicationInv'
    BY <1>3, BeginPrepareKeeps, CommitPrepareKeeps, CommitDecisionKeeps,
       CommitDraftsKeeps, CommitSendKeeps, CrashKeeps
  <1>4. ASSUME NEW w \in Workers, NEW b \in Batches,
               \/ BeginApprove(w, b) \/ BeginCancel(w, b) \/ BeginMark(w, b)
               \/ BeginDrafts(w, b) \/ BeginSend(w, b)
        PROVE  CommunicationInv'
    <2>1. CASE BeginApprove(w, b) \/ BeginCancel(w, b) \/ BeginMark(w, b)
      BY <2>1, BeginDecisionKeeps DEF BeginApprove, BeginCancel, BeginMark
    <2>2. CASE BeginDrafts(w, b) \/ BeginSend(w, b)
      BY <2>2, BeginDraftsKeeps, BeginSendKeeps
    <2> QED
      BY <1>4, <2>1, <2>2
  <1>5. ASSUME NEW w \in Workers, NEW m \in Messages,
               SkipMessage(w, m) \/ SendMessage(w, m)
        PROVE  CommunicationInv'
    BY <1>5, SkipKeeps, SendKeeps
  <1> QED
    BY <1>1, <1>2, <1>3, <1>4, <1>5 DEF CommunicationNext

(* Nobody gets a message or a draft twice unless the program lost track of *)
(* it, whoever presses send at the same time and however often a batch is  *)
(* sent again, as long as the other commands do not overlap.               *)
THEOREM EffectsStayAccounted ==
  ASSUME ~ Overlapping
  PROVE  CommunicationSpec => []EffectsAccounted
  <1>1. CommunicationInv /\ [CommunicationNext]_communicationVars
          => CommunicationInv'
    BY NextCommunicationInv
  <1> QED
    BY <1>1, InitCommunicationInv, Accounted, PTL DEF CommunicationSpec
-----------------------------------------------------------------------------
(* What was communicated, in the order in which it was.                    *)

Version(b) == batch[b].version

\* Exactly the communicated batches, none older than the one before, and no
\* batch newer than the plan.
Chronology ==
  /\ told \in Seq(Batches)
  /\ \A i \in DOMAIN told : Communicated(told[i])
  /\ \A b \in Batches : Communicated(b) => \E i \in DOMAIN told : told[i] = b
  /\ \A i, j \in DOMAIN told : i <= j => Version(told[i]) <= Version(told[j])
  /\ \A b \in Batches : batch[b] # None => Version(b) <= planned

\* No batch is newer than one that is being sent or marked; what a decision
\* has read of the status still holds.
UpToDate(t) ==
  /\ t.command = "prepare" => t.version <= planned
  /\ t.command = "approve" => batch[t.batch].status = "PREPARED"
  /\ t.command = "cancel" => batch[t.batch].status \in {"PREPARED", "APPROVED"}
  /\ t.command \in {"mark", "send"} =>
       \A x \in Batches : batch[x] # None => Version(x) <= Version(t.batch)

AllCurrent == \A w \in Workers : UpToDate(sender[w])

BaselineInv == planned \in 1 .. MaxPlanned /\ Chronology /\ AllCurrent

\* A batch has a version.
LEMMA VersionIsNumber ==
  ASSUME BatchTables, NEW b \in Batches, batch[b] # None
  PROVE  batch[b] \in Batch /\ Version(b) \in Nat
  BY DEF BatchTables, Batch, Version

\* The order is kept as long as no batch becomes communicated, or ceases to be.
LEMMA ToldKept ==
  ASSUME Chronology, told' = told, planned' \in Nat,
         \A x \in Batches :
           /\ Communicated(x)' <=> Communicated(x)
           /\ Communicated(x) => batch'[x].version = batch[x].version
           /\ batch'[x] # None => batch'[x].version <= planned'
  PROVE  Chronology'
  <1>1. \A i \in DOMAIN told : told[i] \in Batches
    BY DEF Chronology
  <1>2. \A i \in DOMAIN told : Version(told[i])' = Version(told[i])
    BY <1>1 DEF Chronology, Version
  <1>3. \A i \in DOMAIN told : Communicated(told[i])'
    BY <1>1 DEF Chronology
  <1>4. \A b \in Batches :
          Communicated(b)' => \E i \in DOMAIN told' : told'[i] = b
    BY DEF Chronology
  <1>5. \A i, j \in DOMAIN told :
          i <= j => Version(told[i])' <= Version(told[j])'
    BY <1>2 DEF Chronology
  <1>6. \A b \in Batches : (batch[b] # None)' => Version(b)' <= planned'
    BY DEF Version
  <1> QED
    BY <1>3, <1>4, <1>5, <1>6 DEF Chronology

\* What is communicated now is at least as new as what was.
LEMMA ToldMore ==
  ASSUME BatchTables, Chronology, NEW b \in Batches, batch[b] \in Batch,
         told' = Append(told, b), planned' = planned,
         batch' = [batch EXCEPT ![b].status = "COMMUNICATED"],
         \A x \in Batches : batch[x] # None => Version(x) <= Version(b)
  PROVE  Chronology'
  <1> DEFINE L == Len(told)
  <1>0. PICK seq : seq = told'
    OBVIOUS
  <1>1. /\ told \in Seq(Batches) /\ L \in Nat /\ DOMAIN told = 1 .. L
        /\ \A i \in 1 .. L : told[i] \in Batches
    BY LenProperties, ElementOfSeq DEF Chronology
  <1>2. /\ seq \in Seq(Batches) /\ DOMAIN seq = 1 .. L + 1
        /\ \A i \in 1 .. L : seq[i] = told[i]
        /\ seq[L + 1] = b
    BY <1>0, <1>1, AppendProperties, LenProperties
  <1>3. /\ batch'[b].status = "COMMUNICATED" /\ batch'[b] # None
        /\ batch'[b].version = batch[b].version
        /\ \A x \in Batches \ {b} : batch'[x] = batch[x]
    <2>1. batch'[b] = [batch[b] EXCEPT !.status = "COMMUNICATED"]
      BY DEF BatchTables
    <2>2. batch'[b] \in Batch
      BY <2>1 DEF Batch
    <2> QED
      BY <2>1, <2>2, MessagesAssumption DEF Batch, BatchTables
  <1>4. batch[b] # None
    BY MessagesAssumption
  <1> HIDE DEF L
  <1>5. \A x \in Batches : batch[x] # None => Version(x)' = Version(x)
    BY <1>3 DEF Version
  <1>6. \A x \in Batches : Communicated(x)' <=> Communicated(x) \/ x = b
    BY <1>3 DEF Communicated
  <1>7. \A i \in DOMAIN seq :
          /\ seq[i] \in Batches /\ batch[seq[i]] # None
          /\ Communicated(seq[i])'
    <2> SUFFICES ASSUME NEW i \in 1 .. L + 1
                 PROVE  /\ seq[i] \in Batches /\ batch[seq[i]] # None
                        /\ Communicated(seq[i])'
      BY <1>2
    <2>1. CASE i = L + 1
      BY <2>1, <1>2, <1>4, <1>6
    <2>2. CASE i # L + 1
      <3>1. i \in 1 .. L
        BY <2>2, <1>1
      <3>2. Communicated(told[i]) /\ seq[i] = told[i]
        BY <3>1, <1>1, <1>2 DEF Chronology
      <3> QED
        BY <3>1, <3>2, <1>1, <1>6 DEF Communicated
    <2> QED
      BY <2>1, <2>2
  <1>8. \A x \in Batches :
          Communicated(x)' => \E i \in DOMAIN seq : seq[i] = x
    <2> SUFFICES ASSUME NEW x \in Batches, Communicated(x)'
                 PROVE  \E i \in 1 .. L + 1 : seq[i] = x
      BY <1>2
    <2>1. CASE x = b
      BY <2>1, <1>1, <1>2
    <2>2. CASE x # b
      <3>1. PICK i \in 1 .. L : told[i] = x
        BY <2>2, <1>1, <1>6 DEF Chronology
      <3>2. i \in 1 .. L + 1
        BY <1>1
      <3> QED
        BY <3>1, <3>2, <1>2
    <2> QED
      BY <2>1, <2>2
  <1>9. \A i, j \in DOMAIN seq :
          i <= j => Version(seq[i])' <= Version(seq[j])'
    <2> SUFFICES ASSUME NEW i \in 1 .. L + 1, NEW j \in 1 .. L + 1, i <= j
                 PROVE  Version(seq[i])' <= Version(seq[j])'
      BY <1>2
    <2>1. /\ Version(seq[i])' = Version(seq[i])
          /\ Version(seq[j])' = Version(seq[j])
      BY <1>2, <1>5, <1>7
    <2>2. CASE j = L + 1
      BY <2>1, <2>2, <1>2, <1>7
    <2>3. CASE j # L + 1
      <3>1. i \in 1 .. L /\ j \in 1 .. L
        BY <2>3, <1>1
      <3> QED
        BY <2>1, <3>1, <1>1, <1>2 DEF Chronology
    <2> QED
      BY <2>2, <2>3
  <1>10. \A x \in Batches : (batch[x] # None)' => Version(x)' <= planned'
    <2> SUFFICES ASSUME NEW x \in Batches, batch'[x] # None
                 PROVE  Version(x)' <= planned'
      OBVIOUS
    <2>1. batch[x] # None
      BY <1>3, <1>4
    <2> QED
      BY <2>1, <1>5 DEF Chronology
  <1> QED
    BY <1>0, <1>2, <1>7, <1>8, <1>9, <1>10 DEF Chronology
-----------------------------------------------------------------------------
(* Each step keeps the order.                                              *)

\* A transaction begins, goes on or ends, and writes nothing.
LEMMA NothingWritten ==
  ASSUME CommunicationInv, BaselineInv, NEW w \in Workers, NEW t, UpToDate(t),
         sender' = [sender EXCEPT ![w] = t],
         UNCHANGED <<planned, batch, told>>
  PROVE  BaselineInv'
  <1>1. sender'[w] = t /\ \A v \in Workers \ {w} : sender'[v] = sender[v]
    BY DEF CommunicationInv, BatchTables
  <1>2. Chronology'
    BY DEF BaselineInv, Chronology, Communicated, Version
  <1>3. ASSUME NEW v \in Workers
        PROVE  UpToDate(sender[v])'
    <2>1. PICK u : u = sender'[v]
      OBVIOUS
    <2>2. UpToDate(u)
      BY <1>1, <2>1 DEF BaselineInv, AllCurrent
    <2> QED
      BY <2>1, <2>2 DEF UpToDate, Version
  <1> QED
    BY <1>2, <1>3 DEF BaselineInv, AllCurrent

\* Who is idle is current.
LEMMA IdleIsCurrent == UpToDate(Idle)
  BY DEF UpToDate, Idle

\* A batch is prepared from the plan it has read.
LEMMA CommitPrepareOrders ==
  ASSUME CommunicationInv, BaselineInv, NEW w \in Workers, CommitPrepare(w)
  PROVE  BaselineInv'
  <1>1. PICK b \in Batches :
          /\ batch[b] = None
          /\ batch' = [batch EXCEPT ![b] =
               [kind |-> sender[w].kind, version |-> sender[w].version,
                status |-> "PREPARED", included |-> sender[w].included,
                drafted |-> FALSE]]
    BY DEF CommitPrepare
  <1>2. /\ sender[w].command = "prepare" /\ Ends(w)
        /\ UNCHANGED <<planned, told>>
    BY DEF CommitPrepare
  <1>3. \A v \in Workers \ {w} : sender[v] = Idle
    BY <1>2, Alone
  <1>4. /\ batch'[b].status = "PREPARED"
        /\ batch'[b].version = sender[w].version
        /\ \A x \in Batches \ {b} : batch'[x] = batch[x]
    BY <1>1 DEF CommunicationInv, BatchTables
  <1>5. sender[w].version <= planned
    BY <1>2 DEF BaselineInv, AllCurrent, UpToDate
  <1>6. planned' \in Nat
    BY <1>2 DEF CommunicationInv, BatchTables
  <1>7. ASSUME NEW x \in Batches
        PROVE  /\ Communicated(x)' <=> Communicated(x)
               /\ Communicated(x) => batch'[x].version = batch[x].version
               /\ batch'[x] # None => batch'[x].version <= planned'
    <2>1. CASE x = b
      BY <2>1, <1>1, <1>2, <1>4, <1>5 DEF Communicated
    <2>2. CASE x # b
      BY <2>2, <1>2, <1>4 DEF Communicated, BaselineInv, Chronology, Version
    <2> QED
      BY <2>1, <2>2
  <1>8. Chronology'
    BY <1>2, <1>6, <1>7, ToldKept DEF BaselineInv
  <1>9. \A v \in Workers : sender'[v] = Idle
    BY <1>2, <1>3 DEF Ends, CommunicationInv, BatchTables
  <1> QED
    BY <1>2, <1>8, <1>9 DEF BaselineInv, AllCurrent, UpToDate, Idle

\* The status or the drafts of a batch change, not whether it is
\* communicated.
LEMMA BatchWritten ==
  ASSUME CommunicationInv, BaselineInv, NEW b \in Batches, batch[b] \in Batch,
         NEW row \in Batch, row.version = batch[b].version,
         batch[b].status = "COMMUNICATED" <=> row.status = "COMMUNICATED",
         batch' = [batch EXCEPT ![b] = row], UNCHANGED <<planned, told>>
  PROVE  Chronology'
  <1>1. /\ batch'[b] = row /\ \A x \in Batches \ {b} : batch'[x] = batch[x]
        /\ row # None /\ batch[b] # None
    BY MessagesAssumption DEF CommunicationInv, BatchTables
  <1>2. ASSUME NEW x \in Batches
        PROVE  /\ Communicated(x)' <=> Communicated(x)
               /\ Communicated(x) => batch'[x].version = batch[x].version
               /\ batch'[x] # None => batch'[x].version <= planned'
    <2>1. CASE x = b
      BY <2>1, <1>1 DEF Communicated, BaselineInv, Chronology, Version
    <2>2. CASE x # b
      BY <2>2, <1>1 DEF Communicated, BaselineInv, Chronology, Version
    <2> QED
      BY <2>1, <2>2
  <1>3. planned' \in Nat
    BY DEF CommunicationInv, BatchTables
  <1> QED
    BY <1>2, <1>3, ToldKept DEF BaselineInv

\* Decisions are about batches that still have the status that was read.
LEMMA CommitDecisionOrders ==
  ASSUME CommunicationInv, BaselineInv, NEW w \in Workers, CommitDecision(w)
  PROVE  BaselineInv'
  <1>1. /\ sender[w].command \in {"approve", "cancel", "mark"} /\ Ends(w)
        /\ UNCHANGED planned
    BY DEF CommitDecision
  <1>2. Transaction(sender[w]) /\ \A v \in Workers \ {w} : sender[v] = Idle
    BY <1>1, Alone DEF CommunicationInv, AllApart
  <1>3. PICK b \in Batches : b = sender[w].batch /\ batch[b] \in Batch
    BY <1>1, <1>2 DEF Transaction
  <1>4. UpToDate(sender[w])
    BY DEF BaselineInv, AllCurrent
  <1>5. ASSUME sender[w].command = "mark" PROVE Chronology'
    <2>1. /\ batch' = [batch EXCEPT ![b].status = "COMMUNICATED"]
          /\ told' = Append(told, b)
      BY <1>3, <1>5 DEF CommitDecision, SetStatus
    <2>2. \A x \in Batches : batch[x] # None => Version(x) <= Version(b)
      BY <1>3, <1>4, <1>5 DEF UpToDate
    <2> QED
      BY <1>1, <1>3, <2>1, <2>2, ToldMore DEF BaselineInv, CommunicationInv
  <1>6. ASSUME sender[w].command # "mark" PROVE Chronology'
    <2>1. PICK status \in {"APPROVED", "CANCELLED"} :
            batch' = [batch EXCEPT ![b].status = status] /\ UNCHANGED told
      BY <1>1, <1>3, <1>6 DEF CommitDecision, SetStatus
    <2>2. PICK row \in Batch : row = [batch[b] EXCEPT !.status = status]
      BY <1>3 DEF Batch
    <2>3. row.version = batch[b].version /\ row.status = status
      BY <1>3, <2>2 DEF Batch
    <2>4. batch[b].status \in {"PREPARED", "APPROVED"}
      BY <1>1, <1>3, <1>4, <1>6 DEF UpToDate
    <2>5. batch' = [batch EXCEPT ![b] = row]
      BY <2>1, <2>2
    <2> QED
      BY <1>1, <1>3, <2>1, <2>3, <2>4, <2>5, BatchWritten
  <1>7. Chronology'
    BY <1>5, <1>6
  <1>8. \A v \in Workers : sender'[v] = Idle
    BY <1>1, <1>2 DEF Ends, CommunicationInv, BatchTables
  <1> QED
    BY <1>1, <1>7, <1>8 DEF BaselineInv, AllCurrent, UpToDate, Idle

\* Drafts are noted.
LEMMA CommitDraftsOrders ==
  ASSUME CommunicationInv, BaselineInv, NEW w \in Workers, CommitDrafts(w)
  PROVE  BaselineInv'
  <1>1. /\ sender[w].command = "drafts" /\ Ends(w)
        /\ UNCHANGED <<planned, told>>
    BY DEF CommitDrafts
  <1>2. Transaction(sender[w]) /\ \A v \in Workers \ {w} : sender[v] = Idle
    BY <1>1, Alone DEF CommunicationInv, AllApart
  <1>3. PICK b \in Batches : b = sender[w].batch /\ batch[b] \in Batch
    BY <1>1, <1>2 DEF Transaction
  <1>4. batch' = [batch EXCEPT ![b].drafted = TRUE]
    BY <1>3 DEF CommitDrafts
  <1>5. PICK row \in Batch : row = [batch[b] EXCEPT !.drafted = TRUE]
    BY <1>3 DEF Batch
  <1>6. row.version = batch[b].version /\ row.status = batch[b].status
    BY <1>3, <1>5 DEF Batch
  <1>7. batch' = [batch EXCEPT ![b] = row]
    BY <1>4, <1>5
  <1>8. Chronology'
    BY <1>1, <1>3, <1>6, <1>7, BatchWritten
  <1>9. \A v \in Workers : sender'[v] = Idle
    BY <1>1, <1>2 DEF Ends, CommunicationInv, BatchTables
  <1> QED
    BY <1>1, <1>8, <1>9 DEF BaselineInv, AllCurrent, UpToDate, Idle

\* A sending that is complete communicates its batch; those beside it send
\* batches that are as new.
LEMMA CommitSendOrders ==
  ASSUME CommunicationInv, BaselineInv, NEW w \in Workers, CommitSend(w)
  PROVE  BaselineInv'
  <1>1. /\ sender[w].command = "send" /\ Ends(w) /\ UNCHANGED planned
    BY DEF CommitSend
  <1>2. PICK b \in Batches : b = sender[w].batch /\ batch[b] \in Batch
    BY <1>1, Sending
  <1>3. CASE UNCHANGED <<batch, told>>
    BY <1>1, <1>3, IdleIsCurrent, NothingWritten DEF Ends
  <1>4. CASE /\ batch' = [batch EXCEPT ![b].status = "COMMUNICATED"]
             /\ told' = Append(told, b)
    <2>1. \A x \in Batches : batch[x] # None => Version(x) <= Version(b)
      BY <1>1, <1>2 DEF BaselineInv, AllCurrent, UpToDate
    <2>2. Chronology'
      BY <1>1, <1>2, <1>4, <2>1, ToldMore DEF BaselineInv, CommunicationInv
    <2>3. /\ batch'[b].version = batch[b].version
          /\ \A x \in Batches \ {b} : batch'[x] = batch[x]
      BY <1>2, <1>4 DEF CommunicationInv, BatchTables, Batch
    <2>4. batch[b] # None
      BY <1>2, MessagesAssumption
    <2>5. \A x \in Batches : /\ Version(x)' = Version(x)
                             /\ batch'[x] # None => batch[x] # None
      BY <2>3, <2>4 DEF Version
    <2>6. ASSUME NEW v \in Workers
          PROVE  UpToDate(sender[v])'
      <3>1. PICK t : t = sender'[v]
        OBVIOUS
      <3>2. CASE v = w
        BY <1>1, <3>2
           DEF Ends, CommunicationInv, BatchTables, UpToDate, Idle
      <3>3. CASE v # w
        <4>1. /\ sender'[v] = sender[v] /\ UpToDate(sender[v])
              /\ sender[v].command \in {"none", "send"}
          BY <1>1, <3>3, Sending
             DEF Ends, CommunicationInv, BatchTables, BaselineInv, AllCurrent
        <4>2. CASE sender[v].command = "send"
          <5>1. sender[v].batch \in Batches
            BY <4>2, Sending
          <5>2. \A x \in Batches : batch[x] # None =>
                  Version(x) <= Version(sender[v].batch)
            BY <4>1, <4>2 DEF UpToDate
          <5>3. \A x \in Batches : batch'[x] # None =>
                  Version(x)' <= Version(t.batch)'
            BY <2>5, <3>1, <4>1, <5>1, <5>2
          <5>4. UpToDate(t)'
            BY <3>1, <4>1, <4>2, <5>3 DEF UpToDate
          <5> QED
            BY <3>1, <5>4 DEF UpToDate, Version
        <4>3. CASE sender[v].command = "none"
          BY <4>1, <4>3 DEF UpToDate
        <4> QED
          BY <4>1, <4>2, <4>3
      <3> QED
        BY <3>2, <3>3
    <2> QED
      BY <1>1, <2>2, <2>6 DEF BaselineInv, AllCurrent
  <1> QED
    BY <1>2, <1>3, <1>4 DEF CommitSend, SetStatus
\* What begins has just read that the plan is as new as its batch, or as what
\* it prepares.
LEMMA BeginOrders ==
  ASSUME CommunicationInv, BaselineInv, NEW w \in Workers,
         \/ BeginPrepare(w)
         \/ \E b \in Batches :
              \/ BeginApprove(w, b) \/ BeginCancel(w, b) \/ BeginMark(w, b)
              \/ BeginDrafts(w, b) \/ BeginSend(w, b)
  PROVE  BaselineInv'
  <1>1. UNCHANGED <<planned, batch, told>>
    BY DEF BeginPrepare, BeginApprove, BeginCancel, BeginMark, BeginDecision,
      BeginDrafts, BeginSend
  <1>2. planned \in Nat
    BY DEF CommunicationInv, BatchTables
  <1>3. \A x \in Batches : batch[x] # None => Version(x) <= planned
    BY DEF BaselineInv, Chronology
  <1>4. CASE BeginPrepare(w)
    <2>1. PICK t : /\ t.command = "prepare" /\ t.version = planned
                   /\ sender' = [sender EXCEPT ![w] = t]
      BY <1>4 DEF BeginPrepare
    <2>2. UpToDate(t)
      BY <1>2, <2>1 DEF UpToDate
    <2> QED
      BY <1>1, <2>1, <2>2, NothingWritten
  <1>5. ASSUME NEW b \in Batches,
               BeginApprove(w, b) \/ BeginCancel(w, b) \/ BeginMark(w, b)
        PROVE  BaselineInv'
    <2>1. PICK command, statuses :
            /\ BeginDecision(w, command, b, statuses)
            /\ \/ command = "approve" /\ statuses = {"PREPARED"}
               \/ command = "cancel" /\ statuses = {"PREPARED", "APPROVED"}
               \/ command = "mark" /\ statuses = {"APPROVED"}
      BY <1>5 DEF BeginApprove, BeginCancel, BeginMark
    <2>2. PICK t : t = [command |-> command, batch |-> b]
      OBVIOUS
    <2>3. /\ sender' = [sender EXCEPT ![w] = t]
          /\ batch[b] # None /\ batch[b].status \in statuses
          /\ command # "cancel" => batch[b].version = planned
      BY <2>1, <2>2 DEF BeginDecision, BeginCommand, BatchIs, IsCurrent
    <2>4. t.command = command /\ t.batch = b
      BY <2>2
    <2>5. UpToDate(t)
      BY <1>3, <2>1, <2>3, <2>4 DEF UpToDate, Version
    <2> QED
      BY <1>1, <2>3, <2>5, NothingWritten
  <1>6. ASSUME NEW b \in Batches,
               BeginDrafts(w, b)
        PROVE  BaselineInv'
    <2>1. CASE BeginCommand(w, "drafts", b)
      <3>1. PICK t : t = [command |-> "drafts", batch |-> b]
        OBVIOUS
      <3>2. sender' = [sender EXCEPT ![w] = t] /\ UpToDate(t)
        BY <2>1, <3>1 DEF BeginCommand, UpToDate
      <3> QED
        BY <1>1, <3>2, NothingWritten
    <2>2. CASE UNCHANGED sender
      BY <1>1, <2>2 DEF BaselineInv, Chronology, AllCurrent, UpToDate,
        Communicated, Version
    <2> QED
      BY <1>6, <2>1, <2>2 DEF BeginDrafts
  <1>7. ASSUME NEW b \in Batches,
               BeginSend(w, b)
        PROVE  BaselineInv'
    <2>1. PICK t : /\ t.command = "send" /\ t.batch = b
                   /\ sender' = [sender EXCEPT ![w] = t]
      BY <1>7 DEF BeginSend
    <2>2. batch[b].version = planned
      BY <1>7 DEF BeginSend, IsCurrent
    <2>3. UpToDate(t)
      BY <1>3, <2>1, <2>2 DEF UpToDate, Version
    <2> QED
      BY <1>1, <2>1, <2>3, NothingWritten
  <1> QED
    BY <1>4, <1>5, <1>6, <1>7

\* A sending goes on with the same batch; a crash ends a transaction.
LEMMA GoesOnOrders ==
  ASSUME CommunicationInv, BaselineInv, NEW w \in Workers,
         \/ Crash(w)
         \/ \E m \in Messages : SkipMessage(w, m) \/ SendMessage(w, m)
  PROVE  BaselineInv'
  <1>1. CASE Crash(w)
    BY <1>1, IdleIsCurrent, NothingWritten DEF Crash, Ends
  <1>2. ASSUME NEW m \in Messages, SkipMessage(w, m) \/ SendMessage(w, m)
        PROVE  BaselineInv'
    <2>1. sender[w].command = "send" /\ UNCHANGED <<planned, batch, told>>
      BY <1>2 DEF SkipMessage, SendMessage, NextMessage
    <2>2. sender[w] \in SendRow
      BY <2>1, Sending
    <2>3. PICK t : /\ t.command = "send" /\ t.batch = sender[w].batch
                   /\ sender' = [sender EXCEPT ![w] = t]
      <3>1. CASE SkipMessage(w, m)
        <4>1. PICK t : t = [sender[w] EXCEPT !.left = @ \ {m}]
          OBVIOUS
        <4>2. t.command = "send" /\ t.batch = sender[w].batch
          BY <2>1, <2>2, <4>1 DEF SendRow
        <4> QED
          BY <3>1, <4>1, <4>2 DEF SkipMessage
      <3>2. CASE SendMessage(w, m)
        <4>1. PICK set \in {"sent", "failed"} :
                sender' = [sender EXCEPT
                  ![w].left = @ \ {m}, ![w].claimed = @ \cup {m},
                  ![w].sent = IF set = "sent" THEN @ \cup {m} ELSE @,
                  ![w].failed = IF set = "failed" THEN @ \cup {m} ELSE @]
          BY <3>2 DEF SendMessage
        <4>2. /\ \A v \in Workers \ {w} : sender'[v] = sender[v]
              /\ sender'[w].command = sender[w].command
              /\ sender'[w].batch = sender[w].batch
              /\ DOMAIN sender' = Workers
          BY <2>2, <4>1 DEF CommunicationInv, BatchTables, SendRow
        <4>3. sender' = [sender EXCEPT ![w] = sender'[w]]
          BY <4>1, <4>2 DEF CommunicationInv, BatchTables
        <4> QED
          BY <2>1, <4>2, <4>3
      <3> QED
        BY <1>2, <3>1, <3>2
    <2>4. UpToDate(sender[w])
      BY DEF BaselineInv, AllCurrent
    <2>5. UpToDate(t)
      BY <2>1, <2>3, <2>4 DEF UpToDate
    <2> QED
      BY <2>1, <2>3, <2>5, NothingWritten
  <1> QED
    BY <1>1, <1>2

\* The plan changes into one it has not been: nothing was communicated of it.
LEMMA ChangePlanOrders ==
  ASSUME ~ Returning, CommunicationInv, BaselineInv, ChangePlan
  PROVE  BaselineInv'
  <1>1. /\ planned' \in 1 .. MaxPlanned /\ planned' = planned + 1
        /\ UNCHANGED <<batch, told, sender>>
    BY DEF ChangePlan
  <1>2. planned \in Nat /\ planned' \in Nat
    BY <1>1 DEF CommunicationInv, BatchTables
  <1>3. ASSUME NEW x \in Batches, batch[x] # None
        PROVE  Version(x) \in Nat /\ Version(x) <= planned'
    <2>1. Version(x) \in Nat
      BY <1>3, VersionIsNumber DEF CommunicationInv
    <2>2. Version(x) <= planned
      BY <1>3 DEF BaselineInv, Chronology
    <2> QED
      BY <1>1, <1>2, <2>1, <2>2
  <1>4. Chronology'
    BY <1>1, <1>2, <1>3, ToldKept DEF BaselineInv, Communicated, Version
  <1>5. ASSUME NEW v \in Workers
        PROVE  UpToDate(sender[v])'
    <2>1. UpToDate(sender[v]) /\ Transaction(sender[v])
      BY DEF BaselineInv, AllCurrent, CommunicationInv, AllApart
    <2>2. sender[v].command = "prepare" => sender[v].version <= planned'
      BY <1>1, <1>2, <2>1 DEF UpToDate, Transaction
    <2> QED
      BY <1>1, <2>1, <2>2 DEF UpToDate, Version
  <1> QED
    BY <1>1, <1>4, <1>5 DEF BaselineInv, AllCurrent

\* Each step keeps the order.
LEMMA NextBaselineInv ==
  ASSUME ~ Returning, CommunicationInv, BaselineInv,
         [CommunicationNext]_communicationVars
  PROVE  BaselineInv'
  <1>1. CASE ChangePlan
    BY <1>1, ChangePlanOrders
  <1>2. CASE UNCHANGED communicationVars
    BY <1>2 DEF communicationVars, BaselineInv, Chronology, AllCurrent,
      UpToDate, Communicated, Version
  <1>3. ASSUME NEW w \in Workers, BeginPrepare(w)
        PROVE  BaselineInv'
    BY <1>3, BeginOrders
  <1>4. ASSUME NEW w \in Workers,
               \/ CommitPrepare(w) \/ CommitDecision(w) \/ CommitDrafts(w)
               \/ CommitSend(w) \/ Crash(w)
        PROVE  BaselineInv'
    BY <1>4, CommitPrepareOrders, CommitDecisionOrders, CommitDraftsOrders,
       CommitSendOrders, GoesOnOrders
  <1>5. ASSUME NEW w \in Workers, NEW b \in Batches,
               \/ BeginApprove(w, b) \/ BeginCancel(w, b) \/ BeginMark(w, b)
               \/ BeginDrafts(w, b) \/ BeginSend(w, b)
        PROVE  BaselineInv'
    BY <1>5, BeginOrders
  <1>6. ASSUME NEW w \in Workers, NEW m \in Messages,
               SkipMessage(w, m) \/ SendMessage(w, m)
        PROVE  BaselineInv'
    BY <1>6, GoesOnOrders
  <1> QED
    BY <1>1, <1>2, <1>3, <1>4, <1>5, <1>6 DEF CommunicationNext
\* Nothing has been communicated at the start.
LEMMA InitBaselineInv == CommunicationInit => BaselineInv
  <1> SUFFICES ASSUME CommunicationInit PROVE BaselineInv
    OBVIOUS
  <1>1. planned \in 1 .. MaxPlanned
    BY MessagesAssumption DEF CommunicationInit
  <1>2. told \in Seq(Batches) /\ DOMAIN told = {}
    BY DEF CommunicationInit
  <1>3. \A b \in Batches : batch[b] = None
    BY DEF CommunicationInit
  <1>4. Chronology
    BY <1>2, <1>3 DEF Chronology, Communicated
  <1>5. AllCurrent
    BY DEF CommunicationInit, AllCurrent, UpToDate, Idle
  <1> QED
    BY <1>1, <1>4, <1>5 DEF BaselineInv

\* Of a non-empty sequence of numbers up to L, one is the last.
LEMMA LastOne ==
  ASSUME NEW L \in Nat, NEW S, S \subseteq 1 .. L, L \in S
  PROVE  (CHOOSE i \in S : \A j \in S : j <= i) = L
  <1>1. \A j \in S : j <= L /\ j \in Nat
    OBVIOUS
  <1>2. \A i \in S : (\A j \in S : j <= i) => i = L
    BY <1>1
  <1> QED
    BY <1>1, <1>2

\* With the order, the baseline is the newest of what was communicated.
LEMMA ChangeIsTold ==
  ASSUME CommunicationInv, BaselineInv
  PROVE  ChangeCanBeTold
  <1> SUFFICES ASSUME NEW b \in Blocking, Communicated(b)
               PROVE  Baseline = planned
    <2>1. \A b \in Blocking :
            batch[b].status \in {"PREPARED", "APPROVED"} \/ Communicated(b)
      BY DEF Blocking, Communicated, CommunicationInv, BatchTables, Batch
    <2> QED
      BY <2>1 DEF ChangeCanBeTold
  <1> DEFINE L == Len(told)
             valid == {i \in DOMAIN told : Communicated(told[i])}
             last == CHOOSE i \in valid : \A j \in valid : j <= i
  <1>1. /\ L \in Nat /\ DOMAIN told = 1 .. L
        /\ \A i \in 1 .. L : told[i] \in Batches
    BY LenProperties, ElementOfSeq DEF BaselineInv, Chronology
  <1>2. valid = 1 .. L
    BY <1>1 DEF BaselineInv, Chronology
  <1>3. PICK i \in 1 .. L : told[i] = b
    BY <1>1 DEF BaselineInv, Chronology, Blocking
  <1>4. L \in 1 .. L /\ i <= L
    BY <1>1, <1>3
  <1>5. last = L
    <2> HIDE DEF L, valid
    <2> QED
      BY <1>1, <1>2, <1>4, LastOne
  <1>6. Baseline = Version(told[L])
    <2>1. valid # {}
      BY <1>2, <1>4
    <2>2. Baseline = batch[told[last]].version
      BY <2>1 DEF Baseline
    <2> QED
      BY <1>5, <2>2 DEF Version
  <1>7. Version(b) <= Version(told[L]) /\ Version(b) = planned
    <2>1. Version(told[i]) <= Version(told[L])
      BY <1>1, <1>3, <1>4 DEF BaselineInv, Chronology
    <2> QED
      BY <1>3, <2>1 DEF Blocking, Version
  <1>8. /\ batch[told[L]] # None /\ told[L] \in Batches
        /\ Version(told[L]) <= planned
    BY <1>1, <1>4 DEF BaselineInv, Chronology, Communicated
  <1>9. Version(told[L]) \in Nat /\ planned \in Nat
    BY <1>8, VersionIsNumber DEF CommunicationInv, BatchTables
  <1> QED
    BY <1>6, <1>7, <1>8, <1>9

\* Both invariants, under both assumptions.
LEMMA CommunicationInvariants ==
  ASSUME ~ Overlapping, ~ Returning
  PROVE  CommunicationSpec => [](CommunicationInv /\ BaselineInv)
  <1>1. CommunicationInv /\ BaselineInv
          /\ [CommunicationNext]_communicationVars
          => (CommunicationInv /\ BaselineInv)'
    BY NextCommunicationInv, NextBaselineInv
  <1>2. CommunicationInit => CommunicationInv /\ BaselineInv
    BY InitCommunicationInv, InitBaselineInv
  <1> QED
    BY <1>1, <1>2, PTL DEF CommunicationSpec

\* The rows are typed.
LEMMA CommunicationTypes ==
  ASSUME ~ Overlapping, ~ Returning
  PROVE  CommunicationSpec => []CommunicationTypeOK
  <1>1. CommunicationInv /\ BaselineInv => CommunicationTypeOK
    BY DEF CommunicationInv, BatchTables, BaselineInv, Chronology,
      CommunicationTypeOK
  <1> QED
    BY <1>1, CommunicationInvariants, PTL

(* A change of the plan can be communicated, whoever sends at the same     *)
(* time, as long as the other commands do not overlap and the plan does    *)
(* not become what it was before: has_duplicate_batch and                  *)
(* latest_communicated_project_snapshot agree on what was told last.       *)
THEOREM EveryChangeCanBeTold ==
  ASSUME ~ Overlapping, ~ Returning
  PROVE  CommunicationSpec => []ChangeCanBeTold
  <1>1. CommunicationInv /\ BaselineInv => ChangeCanBeTold
    BY ChangeIsTold
  <1> QED
    BY <1>1, CommunicationInvariants, PTL

-----------------------------------------------------------------------------
(* The order in which requirements are created.                            *)

InOrder(order, slots) ==
  \A a, b \in DOMAIN order :
    /\ order[a] = order[b] => a = b
    /\ order[a][1] = order[b][1] => (order[a][2] < order[b][2] <=> a < b)

\* There is one, for any finite set of slots.
LEMMA OrderExists ==
  ASSUME NEW K, IsFiniteSet(K), NEW m \in Nat,
         NEW slots, slots \subseteq K \X (1 .. m)
  PROVE  /\ IsFiniteSet(slots)
         /\ \E order \in [1 .. Cardinality(slots) -> slots] :
              InOrder(order, slots)
  <1>1. IsFiniteSet(slots) /\ Cardinality(slots) \in Nat
    <2>1. IsFiniteSet(1 .. m)
      BY FS_Interval
    <2>2. IsFiniteSet(K \X (1 .. m))
      BY <2>1, FS_Product
    <2> QED
      BY <2>2, FS_Subset, FS_CardinalityType
  <1>2. PICK g \in Bijection(K, 1 .. Cardinality(K)) : TRUE
    BY FS_CardinalityType, Fun_ExistsBijSymmetric DEF ExistsBijection
  <1>3. Cardinality(K) \in Nat
    BY FS_CardinalityType
  <1>4. /\ g \in [K -> 1 .. Cardinality(K)]
        /\ \A x, y \in K : g[x] = g[y] => x = y
    BY <1>2, Fun_BijectionProperties
  <1>5. \A k \in K : g[k] \in Int
    BY <1>3, <1>4
  <1> DEFINE R == {p \in slots \X slots :
                     \/ g[p[1][1]] < g[p[2][1]]
                     \/ p[1][1] = p[2][1] /\ p[1][2] < p[2][2]}
  <1>6. \A s, t \in slots : <<s, t>> \in R <=>
           \/ g[s[1]] < g[t[1]]
           \/ s[1] = t[1] /\ s[2] < t[2]
    OBVIOUS
  <1>7. \A s \in slots : s[1] \in K /\ s[2] \in Int /\ s = <<s[1], s[2]>>
    OBVIOUS
  <1> HIDE DEF R
  <1>8. StrictOrder(R, slots)
    BY <1>4, <1>5, <1>6, <1>7 DEF StrictOrder
  <1> DEFINE N == Cardinality(slots)
             rank == Rank(R, slots)
  <1>9. rank \in Bijection(slots, 1 .. N)
    BY <1>1, <1>8, RankIsBijection
  <1> HIDE DEF rank, N
  <1>10. PICK order \in Bijection(1 .. N, slots) :
           \A i \in 1 .. N : rank[order[i]] = i
    <2>1. Inverse(rank, slots, 1 .. N) \in Bijection(1 .. N, slots)
      BY <1>9, Fun_BijInverse
    <2>2. rank \in [slots -> 1 .. N]
          /\ \A i \in 1 .. N : \E s \in slots : rank[s] = i
      BY <1>9 DEF Bijection, Injection, Surjection
    <2>3. ASSUME NEW i \in 1 .. N
          PROVE  rank[Inverse(rank, slots, 1 .. N)[i]] = i
      <3>1. PICK s \in slots : rank[s] = i
        BY <2>2
      <3>2. \E x \in slots : i \in Range(rank) => rank[x] = i
        BY <3>1
      <3>3. i \in Range(rank)
        BY <3>1, <2>2 DEF Range
      <3> QED
        BY <3>2, <3>3 DEF Inverse
    <2> QED
      BY <2>1, <2>3
  <1>11. order \in [1 .. N -> slots]
    BY Fun_BijectionProperties
  <1>12. ASSUME NEW a \in 1 .. N, NEW b \in 1 .. N
         PROVE  /\ order[a] = order[b] => a = b
                /\ order[a][1] = order[b][1] =>
                     (order[a][2] < order[b][2] <=> a < b)
    <2> USE DEF rank, N
    <2>1. rank[order[a]] = a /\ rank[order[b]] = b
      BY <1>10
    <2>2. order[a] \in slots /\ order[b] \in slots
      BY <1>11
    <2>3. <<order[a], order[b]>> \in R => a < b
      BY <1>1, <1>8, <2>1, <2>2, RankIncreases
    <2>4. <<order[b], order[a]>> \in R => b < a
      BY <1>1, <1>8, <2>1, <2>2, RankIncreases
    <2>5. a \in Int /\ b \in Int
      BY <1>1
    <2>6. order[a] # order[b] =>
            <<order[a], order[b]>> \in R \/ <<order[b], order[a]>> \in R
      BY <1>8, <2>2 DEF StrictOrder
    <2>7. order[a] = order[b] => a = b
      BY <2>1
    <2>8. ASSUME order[a][1] = order[b][1]
          PROVE  order[a][2] < order[b][2] <=> a < b
      <3>1. order[a][2] < order[b][2] => a < b
        BY <2>2, <2>3, <2>8, <1>6
      <3>2. ASSUME a < b PROVE order[a][2] < order[b][2]
        <4>1. <<order[a], order[b]>> \in R
          BY <3>2, <2>1, <2>4, <2>5, <2>6
        <4>2. ~(g[order[a][1]] < g[order[b][1]])
          BY <2>2, <2>8, <1>5, <1>7
        <4> QED
          BY <4>1, <4>2, <2>2, <1>6
      <3> QED
        BY <3>1, <3>2
    <2> QED
      BY <2>7, <2>8
  <1>13. InOrder(order, slots)
    BY <1>11, <1>12 DEF InOrder
  <1> QED
    BY <1>1, <1>11, <1>13 DEF N

\* The one that is chosen enumerates the slots.
LEMMA CreationOrderEnumerates ==
  ASSUME NEW K, IsFiniteSet(K), NEW m \in Nat,
         NEW slots, slots \subseteq K \X (1 .. m)
  PROVE  /\ Cardinality(slots) \in Nat
         /\ CreationOrder(slots) \in Bijection(1 .. Cardinality(slots), slots)
  <1> DEFINE N == Cardinality(slots)
             Set == [1 .. N -> slots]
             order == CreationOrder(slots)
  <1>1. IsFiniteSet(slots) /\ N \in Nat
    BY OrderExists, FS_CardinalityType
  <1>2. \E o \in Set : InOrder(o, slots)
    BY OrderExists
  <1>3. order = CHOOSE o \in Set : InOrder(o, slots)
    BY DEF CreationOrder, InOrder
  <1> HIDE DEF order, Set
  <1>4. order \in Set /\ InOrder(order, slots)
    BY <1>2, <1>3
  <1>5. order \in [1 .. N -> slots]
    BY <1>4 DEF Set
  <1>6. order \in Injection(1 .. N, slots)
    BY <1>4, <1>5, Fun_IsInj DEF InOrder
  <1>7. IsFiniteSet(1 .. N) /\ Cardinality(1 .. N) = N
    BY <1>1, FS_Interval
  <1>8. order \in Surjection(1 .. N, slots)
    BY <1>1, <1>6, <1>7, FS_Injection
  <1> QED
    BY <1>1, <1>6, <1>8 DEF Bijection, order
-----------------------------------------------------------------------------
(* What a plan prepares.                                                   *)

PlanOK(form) ==
  /\ form.definition \in Definitions /\ form.generation \in 1 .. MaxEdits
  /\ form.budget \in [EntryKeys -> AllHours \cup {None}]

\* Hours of a definition are numbers.
LEMMA HoursAreNumbers ==
  /\ \A def \in Definitions : \A k \in DOMAIN def.entries :
       def.entries[k].hours \in AllHours
  /\ AllHours \subseteq Nat
  <1>1. \A def \in Definitions : Definition(def)
    BY MaterialisationAssumption
  <1> QED
    BY <1>1 DEF AllHours, Hours, Definition

\* The slots are finitely many.
LEMMA SlotsAreFinite ==
  ASSUME NEW form, PlanOK(form)
  PROVE  /\ IsFiniteSet(DOMAIN form.definition.entries)
         /\ form.definition.slots \in Nat \ {0}
         /\ Wanted(form) \subseteq
              (DOMAIN form.definition.entries)
                \X (1 .. form.definition.slots)
  <1>1. Definition(form.definition)
    BY MaterialisationAssumption DEF PlanOK
  <1>2. Effective(form.definition, form.selected)
          \subseteq DOMAIN form.definition.entries
    BY DEF Effective
  <1> DEFINE E == Effective(form.definition, form.selected)
             D == DOMAIN form.definition.entries
             m == form.definition.slots
  <1>3. Wanted(form) \subseteq E \X (1 .. m)
    BY DEF Wanted
  <1> HIDE DEF E, D
  <1>4. Wanted(form) \subseteq D \X (1 .. m)
    BY <1>2, <1>3 DEF E, D
  <1> QED
    BY <1>1, <1>4 DEF Definition, D

\* Equal shares of hours are hours.
LEMMA SplitIsNumber ==
  ASSUME NEW total \in Nat, NEW count \in Nat \ {0}, NEW i \in Nat
  PROVE  Split(total, count, i) \in Nat
  <1>1. total \div count \in Nat /\ total % count \in Nat
    OBVIOUS
  <1> QED
    BY <1>1 DEF Split

Specs == [key: EntryKeys, generation: 0 .. MaxEdits, hours: Nat,
          window: SUBSET Days]

\* A slot has a specification, of its entry.
LEMMA SlotIsPrepared ==
  ASSUME NEW form, PlanOK(form), NEW slot \in Wanted(form)
  PROVE  /\ Prepared(form, slot) \in Specs
         /\ Prepared(form, slot).key = slot[1]
  <1> DEFINE k == slot[1]
             def == form.definition
             total == IF form.budget[k] # None
                      THEN form.budget[k] ELSE def.entries[k].hours
             count == SlotCount(def, k)
  <1>1. /\ k \in DOMAIN def.entries /\ slot[2] \in 1 .. def.slots
        /\ def.slots \in Nat \ {0}
    <2>1. slot \in (DOMAIN def.entries) \X (1 .. def.slots)
      BY SlotsAreFinite
    <2> QED
      BY <2>1, SlotsAreFinite
  <1>2. Definition(def)
    BY MaterialisationAssumption DEF PlanOK
  <1>3. k \in EntryKeys /\ def.entries[k].window \in SUBSET Days
    BY <1>1, <1>2 DEF Definition
  <1>4. total \in Nat
    BY <1>1, <1>3, HoursAreNumbers DEF PlanOK
  <1>5. count \in Nat \ {0} /\ slot[2] \in Nat
    BY <1>1 DEF SlotCount
  <1>6. Split(total, count, slot[2]) \in Nat
    BY <1>4, <1>5, SplitIsNumber
  <1>7. (IF k = Line THEN 0 ELSE form.generation) \in 0 .. MaxEdits
    BY MaterialisationAssumption DEF PlanOK
  <1>8. Prepared(form, slot) =
          [key |-> k, window |-> def.entries[k].window,
           generation |-> IF k = Line THEN 0 ELSE form.generation,
           hours |-> Split(total, count, slot[2])]
    BY DEF Prepared
  <1> HIDE DEF k, def, total, count
  <1>9. Prepared(form, slot) \in Specs /\ Prepared(form, slot).key = k
    BY <1>3, <1>6, <1>7, <1>8 DEF Specs
  <1> QED
    BY <1>9 DEF k

-----------------------------------------------------------------------------
(* Reconciliation.                                                         *)

Planned(form, slot, owned, done, locked, number) ==
  LET spec == Prepared(form, slot) IN
  [key |-> spec.key, generation |-> spec.generation, hours |-> spec.hours,
   window |-> spec.window, assigned |-> owned, done |-> done,
   locked |-> locked, revision |-> number]

\* A requirement of the slot.
LEMMA PlannedIsNeed ==
  ASSUME NEW form, PlanOK(form), NEW slot \in Wanted(form),
         NEW owned \in BOOLEAN, NEW done \in BOOLEAN,
         NEW locked \in SUBSET Days, NEW number \in 1 .. MaxRevisions
  PROVE  Planned(form, slot, owned, done, locked, number) \in Need \ {None}
  <1>1. PICK spec \in Specs : spec = Prepared(form, slot)
    BY SlotIsPrepared
  <1>2. Planned(form, slot, owned, done, locked, number) =
          [key |-> spec.key, generation |-> spec.generation,
           hours |-> spec.hours, window |-> spec.window,
           assigned |-> owned, done |-> done, locked |-> locked,
           revision |-> number]
    BY <1>1 DEF Planned
  <1>3. Planned(form, slot, owned, done, locked, number) \in Need
    BY <1>2 DEF Specs, Need
  <1> QED
    BY <1>3, MaterialisationAssumption

Kept(form, match) == {n \in DOMAIN match : match[n] \in Wanted(form)}

Open(form, match) == Wanted(form) \ {match[n] : n \in Kept(form, match)}

Absent(form, match) == CreationOrder(Open(form, match))

KeptRows(form, match, number) ==
  [n \in DOMAIN needs |->
     IF n \in Kept(form, match)
     THEN Planned(form, match[n], needs[n].assigned,
                  StaysDone(form, n, number), needs[n].locked, number)
     ELSE None]

NewRows(form, match, number) ==
  [i \in DOMAIN Absent(form, match) |->
     Planned(form, Absent(form, match)[i], FALSE, FALSE, {}, number)]

\* Kept rows, then new ones.
LEMMA ReconciledParts ==
  ASSUME NEW form, NEW match, NEW number
  PROVE  Reconciled(form, match, number) =
           KeptRows(form, match, number) \o NewRows(form, match, number)
  BY DEF Reconciled, KeptRows, NewRows, Kept, Absent, Open, Planned

Matches(match) ==
  /\ DOMAIN match \subseteq Current
  /\ \A m, n \in DOMAIN match : match[m] = match[n] => m = n

\* The requirements of a request that are current are typed.
LEMMA CurrentIsNeed ==
  ASSUME needs \in Seq(Need \cup {None}), NEW n \in Current
  PROVE  n \in DOMAIN needs /\ needs[n] \in Need
  BY DEF Current

\* The slots nothing is matched with are enumerated.
LEMMA MissingEnumerates ==
  ASSUME NEW form, PlanOK(form), NEW match
  PROVE  /\ Cardinality(Open(form, match)) \in Nat
         /\ Absent(form, match) \in
              [1 .. Cardinality(Open(form, match)) -> Open(form, match)]
         /\ \A i, j \in 1 .. Cardinality(Open(form, match)) :
              Absent(form, match)[i] = Absent(form, match)[j] => i = j
         /\ \A slot \in Open(form, match) :
              \E i \in 1 .. Cardinality(Open(form, match)) :
                Absent(form, match)[i] = slot
  <1> DEFINE open == Open(form, match)
             missing == Absent(form, match)
             N == Cardinality(open)
             K == DOMAIN form.definition.entries
             m == form.definition.slots
  <1>1. IsFiniteSet(K) /\ m \in Nat /\ open \subseteq K \X (1 .. m)
    <2>1. IsFiniteSet(K) /\ m \in Nat
      BY SlotsAreFinite
    <2>2. Wanted(form) \subseteq K \X (1 .. m)
      BY SlotsAreFinite
    <2> QED
      BY <2>1, <2>2 DEF Open
  <1>2. missing = CreationOrder(open)
    BY DEF Absent
  <1> HIDE DEF open, K, m, missing
  <1>3. Cardinality(open) \in Nat
        /\ CreationOrder(open) \in Bijection(1 .. Cardinality(open), open)
    BY <1>1, CreationOrderEnumerates
  <1>4. N \in Nat /\ missing \in Bijection(1 .. N, open)
    BY <1>2, <1>3
  <1>5. /\ missing \in [1 .. N -> open]
        /\ \A i, j \in 1 .. N : missing[i] = missing[j] => i = j
        /\ \A slot \in open : \E i \in 1 .. N : missing[i] = slot
    BY <1>4 DEF Bijection, Injection, Surjection, IsInjective
  <1> QED
    BY <1>4, <1>5 DEF open, missing

RowAt(form, slot, row, number) ==
  row = Planned(form, slot, row.assigned, row.done, row.locked, number)

\* One requirement for each slot, in one line mode.
Filled(form, rows, number) ==
  \E f \in Bijection({n \in DOMAIN rows : rows[n] # None}, Wanted(form)) :
    \A n \in DOMAIN rows :
      rows[n] # None => RowAt(form, f[n], rows[n], number)

\* After a reconciliation each slot has one requirement; what was matched
\* with a slot keeps its person and its locked shifts, the rest is cancelled.
LEMMA ReconciledRows ==
  ASSUME NEW form, PlanOK(form), needs \in Seq(Need \cup {None}),
         NEW match, Matches(match), NEW number \in 1 .. MaxRevisions,
         NEW rows, rows = Reconciled(form, match, number)
  PROVE  /\ rows \in Seq(Need \cup {None})
         /\ DOMAIN needs \subseteq DOMAIN rows
         /\ \A n \in DOMAIN needs :
              IF n \in Kept(form, match)
              THEN /\ rows[n] = Planned(form, match[n], needs[n].assigned,
                                        StaysDone(form, n, number),
                                        needs[n].locked, number)
                   /\ rows[n] # None
              ELSE rows[n] = None
         /\ \A n \in (DOMAIN rows) \ DOMAIN needs : rows[n].locked = {}
         /\ Filled(form, rows, number)
  <1> DEFINE kept == Kept(form, match)
             open == Open(form, match)
             missing == Absent(form, match)
             N == Cardinality(open)
             L == Len(needs)
             old == KeptRows(form, match, number)
             new == NewRows(form, match, number)
             AnyRow == Need \cup {None}
  <1>1. /\ L \in Nat /\ needs \in [1 .. L -> AnyRow] /\ DOMAIN needs = 1 .. L
    BY LenProperties
  <1>2. /\ N \in Nat /\ missing \in [1 .. N -> open]
        /\ \A i, j \in 1 .. N : missing[i] = missing[j] => i = j
        /\ \A slot \in open : \E i \in 1 .. N : missing[i] = slot
    BY MissingEnumerates
  <1> HIDE DEF open
  <1>3. kept \subseteq 1 .. L /\ \A n \in kept : /\ n \in DOMAIN match
                                              /\ match[n] \in Wanted(form)
                                              /\ needs[n] \in Need
    BY <1>1, CurrentIsNeed DEF Kept, Matches, Current
  <1>4. ASSUME NEW n \in kept
        PROVE  Planned(form, match[n], needs[n].assigned,
                       StaysDone(form, n, number), needs[n].locked, number)
                 \in Need \ {None}
    <2>1. /\ needs[n].assigned \in BOOLEAN /\ needs[n].locked \in SUBSET Days
          /\ StaysDone(form, n, number) \in BOOLEAN
      BY <1>3 DEF Need, StaysDone
    <2> QED
      BY <2>1, <1>3, PlannedIsNeed
  <1>5. ASSUME NEW i \in 1 .. N
        PROVE  Planned(form, missing[i], FALSE, FALSE, {}, number) \in Need \ {None}
    <2>1. missing[i] \in Wanted(form)
      BY <1>2 DEF open, Open
    <2> QED
      BY <2>1, PlannedIsNeed
  <1>6. old \in [1 .. L -> AnyRow]
    BY <1>1, <1>4 DEF KeptRows
  <1>7. new \in [1 .. N -> AnyRow]
    BY <1>2, <1>5 DEF NewRows
  <1>8. /\ old \in Seq(AnyRow) /\ Len(old) = L
        /\ new \in Seq(AnyRow) /\ Len(new) = N
    <2> HIDE DEF old, new, AnyRow, L, N
    <2> QED
      BY <1>1, <1>2, <1>6, <1>7
  <1>9. rows = old \o new
    BY ReconciledParts
  <1> HIDE DEF kept, open, missing, N, L, old, new, AnyRow
  <1>10. /\ rows \in Seq(AnyRow) /\ Len(rows) = L + N
         /\ \A i \in 1 .. L + N :
              rows[i] = IF i <= L THEN old[i] ELSE new[i - L]
    <2>1. /\ old \o new \in Seq(AnyRow)
          /\ Len(old \o new) = Len(old) + Len(new)
          /\ \A i \in 1 .. Len(old) + Len(new) :
               (old \o new)[i] = IF i <= Len(old) THEN old[i]
                                ELSE new[i - Len(old)]
      BY <1>8, ConcatProperties
    <2> QED
      BY <2>1, <1>8, <1>9
  <1>11. DOMAIN rows = 1 .. L + N
    BY <1>10, LenProperties
  <1>12. \A n \in 1 .. L : rows[n] = old[n]
    BY <1>1, <1>2, <1>10
  <1>13. \A n \in 1 .. L + N : n \notin 1 .. L =>
           n - L \in 1 .. N /\ rows[n] = new[n - L]
    BY <1>1, <1>2, <1>10
  <1>14. ASSUME NEW n \in 1 .. L
         PROVE  IF n \in kept
                THEN /\ rows[n] = Planned(form, match[n], needs[n].assigned,
                                          StaysDone(form, n, number),
                                          needs[n].locked, number)
                     /\ rows[n] # None
                ELSE rows[n] = None
    <2>1. old[n] = IF n \in kept
                   THEN Planned(form, match[n], needs[n].assigned,
                                StaysDone(form, n, number),
                                needs[n].locked, number)
                   ELSE None
      BY <1>1 DEF old, KeptRows, kept
    <2> QED
      BY <2>1, <1>4, <1>12
  <1>15. ASSUME NEW n \in 1 .. L + N, n \notin 1 .. L
         PROVE  /\ n - L \in 1 .. N
                /\ rows[n] = Planned(form, missing[n - L], FALSE, FALSE, {}, number)
                /\ rows[n] # None
    <2>1. n - L \in 1 .. N /\ rows[n] = new[n - L]
      BY <1>13, <1>15
    <2>2. new[n - L] = Planned(form, missing[n - L], FALSE, FALSE, {}, number)
      BY <2>1, <1>2 DEF new, NewRows, missing
    <2> QED
      BY <2>1, <2>2, <1>5
  <1>16. ASSUME NEW slot, NEW owned, NEW done, NEW locked,
                NEW row, row = Planned(form, slot, owned, done, locked, number)
         PROVE  RowAt(form, slot, row, number) /\ row.locked = locked
    BY <1>16 DEF RowAt, Planned
  <1> DEFINE now == {n \in DOMAIN rows : rows[n] # None}
             f == [n \in now |->
                     IF n \in 1 .. L THEN match[n] ELSE missing[n - L]]
  <1>17. ASSUME NEW n \in now
         PROVE  IF n \in 1 .. L
                THEN n \in kept /\ f[n] = match[n] /\ f[n] \in Wanted(form)
                ELSE /\ n - L \in 1 .. N /\ f[n] = missing[n - L]
                     /\ f[n] \in open
    BY <1>2, <1>3, <1>11, <1>14, <1>15
  <1>18. open \subseteq Wanted(form) /\ \A n \in kept : match[n] \notin open
    BY DEF open, Open, kept
  <1>19. now \subseteq 1 .. L + N /\ \A n \in kept : n \in now
    <2>1. \A n \in 1 .. L : n \in 1 .. L + N
      BY <1>1, <1>2
    <2> QED
      BY <2>1, <1>3, <1>11, <1>14
  <1>20. \A i \in 1 .. N : i + L \in now /\ i + L \notin 1 .. L
                         /\ (i + L) - L = i
    <2>1. ASSUME NEW i \in 1 .. N
          PROVE  i + L \in 1 .. L + N /\ i + L \notin 1 .. L
                 /\ (i + L) - L = i
      BY <1>1, <1>2
    <2> QED
      BY <2>1, <1>11, <1>15
  <1>21. f \in [now -> Wanted(form)]
    BY <1>17, <1>18
  <1>22. DOMAIN f = now
    OBVIOUS
  <1> HIDE DEF f
  <1>23. ASSUME NEW a \in now, NEW b \in now, f[a] = f[b]
         PROVE  a = b
    <2>1. CASE a \in 1 .. L /\ b \in 1 .. L
      BY <2>1, <1>3, <1>17, <1>23 DEF Matches
    <2>2. CASE a \notin 1 .. L /\ b \notin 1 .. L
      <3>1. a - L = b - L
        BY <2>2, <1>2, <1>17, <1>23
      <3> QED
        BY <3>1, <1>1, <1>2, <1>19
    <2> QED
      BY <2>1, <2>2, <1>17, <1>18, <1>23
  <1>24. ASSUME NEW slot \in Wanted(form)
         PROVE  \E n \in now : f[n] = slot
    <2>1. CASE slot \in open
      <3>1. PICK i \in 1 .. N : missing[i] = slot
        BY <2>1, <1>2
      <3>2. f[i + L] = missing[i]
        BY <1>17, <1>20
      <3> QED
        BY <3>1, <3>2, <1>20
    <2>2. CASE slot \notin open
      <3>1. PICK n \in kept : match[n] = slot
        BY <2>2 DEF open, Open, kept
      <3> QED
        BY <3>1, <1>3, <1>17, <1>19
    <2> QED
      BY <2>1, <2>2
  <1>25. f \in Bijection(now, Wanted(form))
    BY <1>21, <1>23, <1>24, Fun_IsBij
  <1>26. ASSUME NEW n \in now
         PROVE  RowAt(form, f[n], rows[n], number)
    <2>1. CASE n \in 1 .. L
      BY <2>1, <1>14, <1>16, <1>17
    <2>2. CASE n \notin 1 .. L
      <3>1. n \in 1 .. L + N
        BY <1>19
      <3>2. rows[n] = Planned(form, f[n], FALSE, FALSE, {}, number)
        BY <2>2, <3>1, <1>15, <1>17
      <3> QED
        BY <3>2, <1>16
    <2> QED
      BY <2>1, <2>2
  <1>27. \A n \in (DOMAIN rows) \ DOMAIN needs : rows[n].locked = {}
    <2> SUFFICES ASSUME NEW n \in (DOMAIN rows) \ DOMAIN needs
                 PROVE  rows[n].locked = {}
      OBVIOUS
    <2>1. n \in 1 .. L + N /\ n \notin 1 .. L
      BY <1>1, <1>11
    <2>2. rows[n] = Planned(form, missing[n - L], FALSE, FALSE, {}, number)
      BY <2>1, <1>15
    <2> QED
      BY <2>2 DEF Planned
  <1>28. DOMAIN needs \subseteq DOMAIN rows
    BY <1>1, <1>2, <1>11
  <1>29. Filled(form, rows, number)
    BY <1>25, <1>26 DEF Filled
  <1> QED
    BY <1>1, <1>10, <1>14, <1>27, <1>28, <1>29 DEF AnyRow, kept

-----------------------------------------------------------------------------
(* Matching.                                                               *)

Typed == needs \in Seq(Need \cup {None})

\* Requirements of a pool have different positions.
LEMMA PositionsDiffer ==
  ASSUME Typed, NEW pool, pool \subseteq Current,
         NEW m \in pool, NEW n \in pool,
         Position(m, pool) = Position(n, pool)
  PROVE  m = n
  <1> DEFINE R == {p \in pool \X pool : Before(p[1], p[2])}
  <1>1. Len(needs) \in Nat /\ DOMAIN needs = 1 .. Len(needs)
    BY LenProperties DEF Typed
  <1>2. IsFiniteSet(pool)
    <2>1. pool \subseteq 1 .. Len(needs)
      BY <1>1 DEF Current
    <2>2. IsFiniteSet(1 .. Len(needs))
      BY <1>1, FS_Interval
    <2> QED
      BY <2>1, <2>2, FS_Subset
  <1>3. \A s \in pool : s \in Int /\ needs[s].assigned \in BOOLEAN
    BY <1>1, CurrentIsNeed DEF Typed, Need, Current
  <1>4. \A s, t \in pool : <<s, t>> \in R <=> Before(s, t)
    OBVIOUS
  <1> HIDE DEF R
  <1>5. \A s \in pool : <<s, s>> \notin R
    BY <1>3, <1>4 DEF Before
  <1>6. \A s, t, u \in pool : <<s, t>> \in R /\ <<t, u>> \in R => <<s, u>> \in R
    BY <1>3, <1>4 DEF Before
  <1>7. \A s, t \in pool : s # t => <<s, t>> \in R \/ <<t, s>> \in R
    BY <1>3, <1>4 DEF Before
  <1>8. StrictOrder(R, pool)
    BY <1>5, <1>6, <1>7 DEF StrictOrder
  <1>9. \A s \in pool : Rank(R, pool)[s] = Position(s, pool)
    <2> SUFFICES ASSUME NEW s \in pool
                 PROVE  Rank(R, pool)[s] = Position(s, pool)
      OBVIOUS
    <2>1. {t \in pool : <<t, s>> \in R} = {t \in pool : Before(t, s)}
      BY <1>4
    <2> QED
      BY <2>1 DEF Rank, Position
  <1>10. Rank(R, pool) \in Bijection(pool, 1 .. Cardinality(pool))
    BY <1>2, <1>8, RankIsBijection
  <1>11. Rank(R, pool)[m] = Rank(R, pool)[n] => m = n
    BY <1>10 DEF Bijection, Injection, IsInjective
  <1> QED
    BY <1>9, <1>11

\* No two requirements are paired with one slot.
LEMMA MatchedInMatches ==
  ASSUME Typed, NEW pool, pool \subseteq Current
  PROVE  Matches(MatchedIn(pool))
  <1> DEFINE of(n) == {m \in pool : needs[m].key = needs[n].key}
             match == MatchedIn(pool)
  <1>1. DOMAIN match = pool
    BY DEF MatchedIn
  <1>2. ASSUME NEW m \in pool, NEW n \in pool, match[m] = match[n]
        PROVE  m = n
    <2>1. match[m] = <<needs[m].key, Position(m, of(m))>>
          /\ match[n] = <<needs[n].key, Position(n, of(n))>>
      BY DEF MatchedIn
    <2>2. /\ needs[m].key = needs[n].key
          /\ Position(m, of(m)) = Position(n, of(n))
      <3> HIDE DEF match, of
      <3> QED
        BY <2>1, <1>2
    <2>3. of(m) = of(n) /\ m \in of(n) /\ n \in of(n) /\ of(n) \subseteq Current
      BY <2>2
    <2> HIDE DEF of, match
    <2> QED
      BY <2>2, <2>3, PositionsDiffer
  <1> QED
    BY <1>1, <1>2 DEF Matches

\* Neither way of matching pairs two requirements with one slot.
LEMMA MatchesOneToOne ==
  ASSUME Typed
  PROVE  /\ Matches(Matched) /\ DOMAIN Matched = Current
         /\ \A form : Matches(LegacyMatched(form))
  <1>1. Matches(Matched)
    BY MatchedInMatches DEF Matched
  <1>2. DOMAIN Matched = Current
    BY DEF Matched, MatchedIn
  <1>3. ASSUME NEW form
        PROVE  Matches(LegacyMatched(form))
    <2>1. CASE Line \in DOMAIN form.definition.entries
      <3> DEFINE match == [n \in Current |-> <<Line, Position(n, Current)>>]
      <3>1. LegacyMatched(form) = match
        BY <2>1 DEF LegacyMatched
      <3>2. \A m, n \in Current : match[m] = match[n] => m = n
        <4> SUFFICES ASSUME NEW m \in Current, NEW n \in Current,
                            match[m] = match[n]
                     PROVE  m = n
          OBVIOUS
        <4>1. Position(m, Current) = Position(n, Current)
          OBVIOUS
        <4> QED
          BY <4>1, PositionsDiffer
      <3> QED
        BY <3>1, <3>2 DEF Matches
    <2>2. CASE Line \notin DOMAIN form.definition.entries
      <3> DEFINE pool == {n \in Current :
                            /\ needs[n].key # Line
                            /\ needs[n].generation = form.generation}
      <3>1. LegacyMatched(form) = MatchedIn(pool)
        BY <2>2 DEF LegacyMatched
      <3>2. pool \subseteq Current
        OBVIOUS
      <3> HIDE DEF pool
      <3> QED
        BY <3>1, <3>2, MatchedInMatches
    <2> QED
      BY <2>1, <2>2
  <1> QED
    BY <1>1, <1>2, <1>3

-----------------------------------------------------------------------------
(* The plan that is laid out.                                              *)

CountBy(mode, def, k) == IF mode /\ k = Line THEN 1 ELSE def.slots

WantedBy(mode, form) ==
  {slot \in Effective(form.definition, form.selected)
               \X (1 .. form.definition.slots) :
     slot[2] <= CountBy(mode, form.definition, slot[1])}

HoursBy(mode, form, slot) ==
  LET total == IF form.budget[slot[1]] # None
               THEN form.budget[slot[1]]
               ELSE form.definition.entries[slot[1]].hours
  IN Split(total, CountBy(mode, form.definition, slot[1]), slot[2])

RowBy(mode, form, slot, row, number) ==
  /\ row.key = slot[1]
  /\ row.window = form.definition.entries[slot[1]].window
  /\ row.hours = HoursBy(mode, form, slot)
  /\ row.revision = number

\* One requirement for each slot.
Laid(mode, form, rows, number) ==
  \E f \in Bijection({n \in DOMAIN rows : rows[n] # None},
                     WantedBy(mode, form)) :
    \A n \in DOMAIN rows :
      rows[n] # None => RowBy(mode, form, f[n], rows[n], number)

\* The same words, with the mode of the request.
LEMMA ByMode ==
  ASSUME NEW form
  PROVE  /\ Wanted(form) = WantedBy(lineMode, form)
         /\ \A slot : /\ Prepared(form, slot).hours
                           = HoursBy(lineMode, form, slot)
                      /\ Prepared(form, slot).window
                           = form.definition.entries[slot[1]].window
                      /\ Prepared(form, slot).key = slot[1]
  <1>1. \A k : SlotCount(form.definition, k)
                 = CountBy(lineMode, form.definition, k)
    BY DEF SlotCount, CountBy
  <1>2. Wanted(form) = WantedBy(lineMode, form)
    BY <1>1 DEF Wanted, WantedBy
  <1> QED
    BY <1>1, <1>2 DEF Prepared, HoursBy

\* After a reconciliation the plan is laid out.
LEMMA ReconcilingLays ==
  ASSUME NEW form, PlanOK(form), Typed,
         NEW match, Matches(match), NEW number \in 1 .. MaxRevisions,
         NEW rows, rows = Reconciled(form, match, number)
  PROVE  /\ rows \in Seq(Need \cup {None})
         /\ Laid(lineMode, form, rows, number)
         /\ \A n \in Current :
              IF n \in Kept(form, match)
              THEN /\ rows[n] # None
                   /\ rows[n].locked = needs[n].locked
                   /\ rows[n].window = Prepared(form, match[n]).window
              ELSE rows[n] = None
         /\ \A n \in DOMAIN rows : rows[n] # None =>
              \/ rows[n].locked = {}
              \/ n \in Kept(form, match) /\ n \in Current
  <1>0. needs \in Seq(Need \cup {None})
    BY DEF Typed
  <1>1. rows \in Seq(Need \cup {None})
    BY <1>0, ReconciledRows
  <1>2. PICK f \in Bijection({n \in DOMAIN rows : rows[n] # None},
                             Wanted(form)) :
          \A n \in DOMAIN rows :
            rows[n] # None => RowAt(form, f[n], rows[n], number)
    <2>1. Filled(form, rows, number)
      BY <1>0, ReconciledRows
    <2> QED
      BY <2>1 DEF Filled
  <1>3. ASSUME NEW n \in DOMAIN rows, rows[n] # None
        PROVE  RowBy(lineMode, form, f[n], rows[n], number)
    <2>1. RowAt(form, f[n], rows[n], number)
      BY <1>2, <1>3
    <2>2. /\ rows[n].key = Prepared(form, f[n]).key
          /\ rows[n].window = Prepared(form, f[n]).window
          /\ rows[n].hours = Prepared(form, f[n]).hours
          /\ rows[n].revision = number
      BY <2>1 DEF RowAt, Planned
    <2>3. /\ Prepared(form, f[n]).hours = HoursBy(lineMode, form, f[n])
          /\ Prepared(form, f[n]).window
               = form.definition.entries[f[n][1]].window
          /\ Prepared(form, f[n]).key = f[n][1]
      BY ByMode
    <2> QED
      BY <2>2, <2>3 DEF RowBy
  <1>4. Laid(lineMode, form, rows, number)
    <2>1. Wanted(form) = WantedBy(lineMode, form)
      BY ByMode
    <2> QED
      BY <1>2, <1>3, <2>1 DEF Laid
  <1>5. \A n \in DOMAIN needs :
              IF n \in Kept(form, match)
              THEN /\ rows[n] = Planned(form, match[n], needs[n].assigned,
                                        StaysDone(form, n, number),
                                        needs[n].locked, number)
                   /\ rows[n] # None
              ELSE rows[n] = None
    BY <1>0, ReconciledRows
  <1>6. \A n \in (DOMAIN rows) \ DOMAIN needs : rows[n].locked = {}
    BY <1>0, ReconciledRows
  <1>7. ASSUME NEW n \in DOMAIN needs
        PROVE  IF n \in Kept(form, match)
               THEN /\ rows[n] # None
                    /\ rows[n].locked = needs[n].locked
                    /\ rows[n].window = Prepared(form, match[n]).window
               ELSE rows[n] = None
    <2>1. CASE n \in Kept(form, match)
      <3>1. rows[n] = Planned(form, match[n], needs[n].assigned,
                              StaysDone(form, n, number),
                              needs[n].locked, number) /\ rows[n] # None
        BY <2>1, <1>5
      <3>2. rows[n].locked = needs[n].locked
            /\ rows[n].window = Prepared(form, match[n]).window
        BY <3>1 DEF Planned
      <3> QED
        BY <2>1, <3>1, <3>2
    <2> QED
      BY <2>1, <1>5
  <1>8. \A n \in Current : n \in DOMAIN needs
    BY DEF Current
  <1>9. \A n \in Kept(form, match) : n \in Current
    BY DEF Kept, Matches
  <1> QED
    BY <1>1, <1>4, <1>6, <1>7, <1>8, <1>9
-----------------------------------------------------------------------------
(* The invariant.                                                          *)

PlanLaid ==
  standing # "Annulee" /\ revision # None =>
    Laid(lineMode, RevisionPlan(revision, choices), needs, revision.number)

\* Requests with lines only: ADR-004 does not hold for the others.
LocksFit ==
  lineMode => \A n \in Current : needs[n].locked \subseteq needs[n].window

PlanInv ==
  /\ MaterialisationTypeOK
  /\ standing = "En planification" => revision # None
  /\ PlanLaid
  /\ LocksFit

\* What LockedShiftsSurvive asks of a step.
LocksKept ==
  \A n \in Current :
    IF needs'[n] = None THEN needs[n].locked = {}
    ELSE needs[n].locked \cap needs'[n].locked \subseteq needs'[n].window

\* Of a reconciliation that the locked shifts allow, no locked shift is lost.
LEMMA ReconcilingProtects ==
  ASSUME Typed, NEW form, PlanOK(form), LocksAllow(form),
         NEW number \in 1 .. MaxRevisions,
         NEW rows, rows = Reconciled(form, Matched, number)
  PROVE  /\ \A n \in Current :
              IF rows[n] = None THEN needs[n].locked = {}
              ELSE needs[n].locked \subseteq rows[n].window
         /\ \A n \in DOMAIN rows :
              rows[n] # None => rows[n].locked \subseteq rows[n].window
  <1>1. PICK match : match = Matched
    OBVIOUS
  <1>2. Matches(match) /\ DOMAIN match = Current
    BY <1>1, MatchesOneToOne
  <1>3. rows = Reconciled(form, match, number)
    BY <1>1
  <1>4. /\ \A n \in Current :
             IF n \in Kept(form, match)
             THEN /\ rows[n] # None
                  /\ rows[n].locked = needs[n].locked
                  /\ rows[n].window = Prepared(form, match[n]).window
             ELSE rows[n] = None
        /\ \A n \in DOMAIN rows : rows[n] # None =>
             \/ rows[n].locked = {}
             \/ n \in Kept(form, match) /\ n \in Current
    BY <1>2, <1>3, ReconcilingLays
  <1>5. \A n \in Current : needs[n].locked # {} =>
          /\ match[n] \in Wanted(form)
          /\ needs[n].locked \subseteq Prepared(form, match[n]).window
    BY <1>1 DEF LocksAllow
  <1>6. \A n \in Current : needs[n].locked # {} => n \in Kept(form, match)
    BY <1>2, <1>5 DEF Kept
  <1>7. ASSUME NEW n \in Current
        PROVE  IF rows[n] = None THEN needs[n].locked = {}
               ELSE needs[n].locked \subseteq rows[n].window
    <2>1. CASE needs[n].locked = {}
      BY <2>1
    <2>2. CASE needs[n].locked # {}
      BY <2>2, <1>4, <1>5, <1>6
    <2> QED
      BY <2>1, <2>2
  <1>8. ASSUME NEW n \in DOMAIN rows, rows[n] # None
        PROVE  rows[n].locked \subseteq rows[n].window
    <2>1. CASE rows[n].locked = {}
      BY <2>1
    <2>2. CASE rows[n].locked # {}
      <3>1. n \in Current /\ n \in Kept(form, match)
        BY <2>2, <1>4, <1>8
      <3>2. rows[n].locked = needs[n].locked
        BY <3>1, <1>4
      <3> QED
        BY <3>1, <3>2, <1>7, <1>8
    <2> QED
      BY <2>1, <2>2
  <1> QED
    BY <1>7, <1>8

\* An approval keeps the invariant, and the locked shifts.
LEMMA MaterialisesKeeps ==
  ASSUME PlanInv, NEW c \in Candidate, Materialises(c),
         lineMode' = lineMode, candidate' \in Candidate
  PROVE  PlanInv' /\ (lineMode => LocksKept)
  <1> DEFINE n0 == IF revision = None THEN 1 ELSE revision.number + 1
  <1>1. PICK number \in 1 .. MaxRevisions : number = n0
    <2>1. n0 \in Nat \ {0}
      <3>1. revision = None \/ revision \in Revision
        BY DEF PlanInv, MaterialisationTypeOK
      <3>2. revision \in Revision => revision.number \in Nat
        BY DEF Revision
      <3> QED
        BY <3>1, <3>2
    <2>2. n0 <= MaxRevisions
      BY DEF Materialises
    <2> QED
      BY <2>1, <2>2, MaterialisationAssumption
  <1> HIDE DEF n0
  <1>2. PICK form : form = CandidatePlan(c)
    OBVIOUS
  <1>3. PICK match : match = IF lineMode THEN Matched ELSE LegacyMatched(form)
    OBVIOUS
  <1>4. PICK rows : rows = needs'
    OBVIOUS
  <1>5. /\ LocksAllow(form)
        /\ rows = Reconciled(form, match, number)
        /\ revision' = [number |-> number, definition |-> c.definition,
                        generation |-> c.generation]
        /\ choices' = InitialChoices(c.selected)
        /\ standing' = "En planification"
    BY <1>1, <1>2, <1>3, <1>4 DEF Materialises, n0
  <1>6. /\ form.definition = c.definition /\ form.generation = c.generation
        /\ form.selected = c.selected /\ form.budget = NoBudget
    BY <1>2 DEF CandidatePlan
  <1>7. NoBudget \in [EntryKeys -> AllHours \cup {None}]
    BY DEF NoBudget
  <1>8. PlanOK(form)
    BY <1>6, <1>7 DEF PlanOK, Candidate
  <1>9. Typed
    BY DEF Typed, PlanInv, MaterialisationTypeOK
  <1>10. Matches(match)
    BY <1>3, <1>9, MatchesOneToOne
  <1>11. rows \in Seq(Need \cup {None}) /\ Laid(lineMode, form, rows, number)
    BY <1>5, <1>8, <1>9, <1>10, ReconcilingLays
  <1>12. revision' \in Revision /\ revision'.number = number
    BY <1>5 DEF Candidate, Revision
  <1>13. choices' \in ChoiceRow
    BY <1>5, <1>7 DEF InitialChoices, Candidate, ChoiceRow
  <1>14. revision' # None /\ choices' # None
    BY <1>12, <1>13, MaterialisationAssumption
  <1>15. MaterialisationTypeOK'
    BY <1>4, <1>5, <1>11, <1>12, <1>13, <1>14
       DEF MaterialisationTypeOK, PlanInv
  <1>16. RevisionPlan(revision', choices') = form
    BY <1>2, <1>5 DEF RevisionPlan, CandidatePlan, InitialChoices
  <1>17. PlanLaid'
    BY <1>4, <1>11, <1>12, <1>16 DEF PlanLaid
  <1>18. ASSUME lineMode
         PROVE  LocksFit' /\ LocksKept
    <2>1. rows = Reconciled(form, Matched, number)
      BY <1>3, <1>5, <1>18
    <2>2. /\ \A n \in Current :
               IF rows[n] = None THEN needs[n].locked = {}
               ELSE needs[n].locked \subseteq rows[n].window
          /\ \A n \in DOMAIN rows :
               rows[n] # None => rows[n].locked \subseteq rows[n].window
      BY <2>1, <1>5, <1>8, <1>9, ReconcilingProtects
    <2> QED
      BY <2>2, <1>4 DEF LocksFit, LocksKept, Current
  <1>19. LocksFit'
    BY <1>18 DEF LocksFit
  <1> QED
    BY <1>14, <1>15, <1>17, <1>18, <1>19 DEF PlanInv

\* So does a synchronisation with other choices.
LEMMA ResynchronisesKeeps ==
  ASSUME PlanInv, revision # None, NEW made \in ChoiceRow, Resynchronises(made),
         lineMode' = lineMode, revision' = revision, standing' = standing,
         candidate' \in Candidate
  PROVE  PlanInv' /\ (lineMode => LocksKept)
  <1>1. PICK rev \in Revision : rev = revision
    BY DEF PlanInv, MaterialisationTypeOK
  <1>2. PICK form : form = RevisionPlan(rev, made)
    OBVIOUS
  <1>3. PICK match : match = Matched
    OBVIOUS
  <1>4. PICK rows : rows = needs'
    OBVIOUS
  <1>5. PICK number \in 1 .. MaxRevisions : number = rev.number
    BY DEF Revision
  <1>6. /\ LocksAllow(form) /\ choices' = made
        /\ rows = Reconciled(form, Matched, number)
    BY <1>1, <1>2, <1>4, <1>5 DEF Resynchronises
  <1>7. /\ form.definition = rev.definition /\ form.generation = rev.generation
        /\ form.selected = made.selected /\ form.budget = made.budget
    BY <1>2 DEF RevisionPlan
  <1>8. PlanOK(form)
    BY <1>7 DEF PlanOK, Revision, ChoiceRow
  <1>9. Typed
    BY DEF Typed, PlanInv, MaterialisationTypeOK
  <1>10. Matches(match)
    BY <1>3, <1>9, MatchesOneToOne
  <1>11. rows \in Seq(Need \cup {None}) /\ Laid(lineMode, form, rows, number)
    BY <1>3, <1>6, <1>8, <1>9, <1>10, ReconcilingLays
  <1>12. made # None
    BY MaterialisationAssumption
  <1>13. MaterialisationTypeOK'
    BY <1>1, <1>4, <1>6, <1>11, <1>12 DEF MaterialisationTypeOK, PlanInv
  <1>14. PlanLaid'
    BY <1>1, <1>2, <1>4, <1>5, <1>6, <1>11 DEF PlanLaid
  <1>15. /\ \A n \in Current :
               IF rows[n] = None THEN needs[n].locked = {}
               ELSE needs[n].locked \subseteq rows[n].window
         /\ \A n \in DOMAIN rows :
               rows[n] # None => rows[n].locked \subseteq rows[n].window
    BY <1>6, <1>8, <1>9, ReconcilingProtects
  <1>16. LocksFit' /\ LocksKept
    BY <1>4, <1>15 DEF LocksFit, LocksKept, Current
  <1> QED
    BY <1>13, <1>14, <1>16 DEF PlanInv
-----------------------------------------------------------------------------
(* The steps.                                                              *)

\* Whatever a client may write to the candidate is a candidate again.
LEMMA EditsAreCandidates ==
  ASSUME candidate \in Candidate, NEW c \in Edits, Writable(c)
  PROVE  c \in Candidate
  <1>1. c.definition \in Definitions /\ c.generation <= MaxEdits
    BY DEF Writable
  <1>2. candidate.generation \in 1 .. MaxEdits
        /\ candidate.selected \in Periods \cup {None}
    BY DEF Candidate
  <1>3. candidate = [definition |-> candidate.definition,
                     generation |-> candidate.generation,
                     selected |-> candidate.selected]
    BY DEF Candidate
  <1>4. CASE \E def \in Definitions : c = Edited(def)
    <2>1. PICK def \in Definitions : c = Edited(def)
      BY <1>4
    <2>2. CASE c = [candidate EXCEPT !.definition = def]
      <3>1. c = [definition |-> def, generation |-> candidate.generation,
                 selected |-> candidate.selected]
        BY <1>3, <2>2
      <3> QED
        BY <1>1, <1>2, <3>1 DEF Candidate
    <2>3. CASE c = [definition |-> def, selected |-> None,
                    generation |-> candidate.generation + 1]
      <3>1. c.generation = candidate.generation + 1
        BY <2>3
      <3>2. candidate.generation + 1 \in 1 .. MaxEdits
        BY <1>1, <1>2, <3>1, MaterialisationAssumption
      <3> QED
        BY <2>3, <3>2 DEF Candidate
    <2> QED
      BY <2>1, <2>2, <2>3 DEF Edited
  <1>5. CASE \E k \in DOMAIN candidate.definition.entries : c = Extended(k)
    <2>1. PICK k \in DOMAIN candidate.definition.entries : c = Extended(k)
      BY <1>5
    <2>2. PICK def :
            c = [definition |-> def, generation |-> candidate.generation,
                 selected |-> candidate.selected]
      BY <2>1, <1>3 DEF Extended
    <2>3. c.definition = def
      BY <2>2
    <2> QED
      BY <1>1, <1>2, <2>2, <2>3 DEF Candidate
  <1> QED
    BY <1>4, <1>5 DEF Edits

\* A request that is written, and nothing of its plan, keeps the invariant.
LEMMA PlanUntouched ==
  ASSUME PlanInv, candidate' \in Candidate,
         standing' \in {"Soumise", standing},
         standing # "Annulee" \/ standing' = standing,
         UNCHANGED <<lineMode, revision, choices, needs>>
  PROVE  PlanInv' /\ (lineMode => LocksKept)
  <1>1. MaterialisationTypeOK'
    BY DEF PlanInv, MaterialisationTypeOK
  <1>2. PlanLaid' /\ LocksFit'
    BY DEF PlanInv, PlanLaid, LocksFit, Current
  <1>3. standing' = "En planification" => revision' # None
    BY DEF PlanInv
  <1>4. lineMode => LocksKept
    BY DEF PlanInv, LocksFit, LocksKept, Current
  <1> QED
    BY <1>1, <1>2, <1>3, <1>4 DEF PlanInv

\* Who is assigned, and which shifts are locked, is not of the plan.
LEMMA RowReplaced ==
  ASSUME NEW mode, NEW form, NEW number, NEW rows,
         Laid(mode, form, rows, number), rows \in Seq(Need \cup {None}),
         NEW n \in DOMAIN rows, rows[n] \in Need, NEW need \in Need,
         need.key = rows[n].key, need.window = rows[n].window,
         need.hours = rows[n].hours, need.revision = rows[n].revision,
         NEW after, after = [rows EXCEPT ![n] = need]
  PROVE  Laid(mode, form, after, number) /\ after \in Seq(Need \cup {None})
  <1>1. need # None /\ rows[n] # None
    BY MaterialisationAssumption
  <1>2. after \in Seq(Need \cup {None})
    BY ExceptSeq
  <1>3. DOMAIN after = DOMAIN rows
    OBVIOUS
  <1>4. \A m \in DOMAIN rows : after[m] = IF m = n THEN need ELSE rows[m]
    OBVIOUS
  <1>5. {m \in DOMAIN after : after[m] # None}
          = {m \in DOMAIN rows : rows[m] # None}
    BY <1>1, <1>3, <1>4
  <1>6. PICK f \in Bijection({m \in DOMAIN rows : rows[m] # None},
                             WantedBy(mode, form)) :
          \A m \in DOMAIN rows :
            rows[m] # None => RowBy(mode, form, f[m], rows[m], number)
    BY DEF Laid
  <1>7. ASSUME NEW m \in DOMAIN after, after[m] # None
        PROVE  RowBy(mode, form, f[m], after[m], number)
    <2>1. CASE m = n
      BY <2>1, <1>1, <1>4, <1>6 DEF RowBy
    <2>2. CASE m # n
      BY <2>2, <1>3, <1>4, <1>6, <1>7
    <2> QED
      BY <2>1, <2>2
  <1>8. Laid(mode, form, after, number)
    BY <1>5, <1>6, <1>7 DEF Laid
  <1> QED
    BY <1>2, <1>8

\* Nor does it change what the plan of a request is.
LEMMA NeedChanged ==
  ASSUME PlanInv, NEW n \in Current, NEW need \in Need, ChangesNeed(n, need),
         need.key = needs[n].key, need.window = needs[n].window,
         need.hours = needs[n].hours, need.revision = needs[n].revision,
         need.locked \subseteq needs[n].locked \cup needs[n].window
  PROVE  PlanInv' /\ (lineMode => LocksKept)
  <1>1. PICK rows : rows = needs
    OBVIOUS
  <1>2. PICK after : after = needs'
    OBVIOUS
  <1>3. /\ rows \in Seq(Need \cup {None}) /\ n \in DOMAIN rows
        /\ rows[n] \in Need
    BY <1>1, CurrentIsNeed DEF PlanInv, MaterialisationTypeOK
  <1>4. after = [rows EXCEPT ![n] = need]
    BY <1>1, <1>2 DEF ChangesNeed
  <1>5. after \in Seq(Need \cup {None}) /\ DOMAIN after = DOMAIN rows
    BY <1>3, <1>4, ExceptSeq
  <1>6. MaterialisationTypeOK'
    BY <1>2, <1>5 DEF PlanInv, MaterialisationTypeOK, ChangesNeed
  <1>7. PlanLaid'
    <2> SUFFICES ASSUME standing # "Annulee", revision # None
                 PROVE  Laid(lineMode, RevisionPlan(revision, choices), needs',
                             revision.number)
      BY DEF ChangesNeed, PlanLaid
    <2>1. PICK mode, form, number :
            /\ mode = lineMode /\ form = RevisionPlan(revision, choices)
            /\ number = revision.number
      OBVIOUS
    <2>2. Laid(mode, form, rows, number)
      BY <1>1, <2>1 DEF PlanInv, PlanLaid
    <2>3. Laid(mode, form, after, number)
      BY <1>1, <1>3, <1>4, <2>2, RowReplaced
    <2> QED
      BY <1>2, <2>1, <2>3
  <1>8. need # None
    BY MaterialisationAssumption
  <1>9. \A m \in DOMAIN rows : after[m] = IF m = n THEN need ELSE rows[m]
    BY <1>3, <1>4
  <1>10. lineMode => LocksFit' /\ LocksKept
    <2> SUFFICES ASSUME lineMode
                 PROVE  /\ \A m \in DOMAIN after : after[m] # None =>
                             after[m].locked \subseteq after[m].window
                        /\ \A m \in DOMAIN rows : rows[m] # None =>
                             after[m] # None
                             /\ rows[m].locked \subseteq after[m].window
      BY <1>1, <1>2, <1>5 DEF LocksFit, LocksKept, Current
    <2>1. \A m \in DOMAIN rows : rows[m] # None =>
            rows[m].locked \subseteq rows[m].window
      BY <1>1 DEF PlanInv, LocksFit, Current
    <2>2. rows[n] # None
      BY <1>1 DEF Current
    <2>3. need.locked \subseteq need.window
          /\ rows[n].locked \subseteq need.window
      BY <1>1, <1>3, <2>1, <2>2
    <2> QED
      BY <1>5, <1>8, <1>9, <2>1, <2>2, <2>3
  <1>11. LocksFit'
    BY <1>10 DEF LocksFit, ChangesNeed
  <1> QED
    BY <1>6, <1>7, <1>10, <1>11 DEF PlanInv, ChangesNeed

\* Every step keeps the invariant, and of a request with lines the locked
\* shifts.
LEMMA StepKeeps ==
  ASSUME PlanInv, MaterialisationNext
  PROVE  PlanInv' /\ (lineMode => LocksKept)
  <1>0. candidate \in Candidate
    BY DEF PlanInv, MaterialisationTypeOK
  <1>1. CASE Approve
    <2>1. /\ Materialises(candidate) /\ lineMode' = lineMode
          /\ candidate' = candidate
      BY <1>1 DEF Approve
    <2>2. PICK c \in Candidate : c = candidate
      BY <1>0
    <2> QED
      BY <1>0, <2>1, <2>2, MaterialisesKeeps
  <1>2. CASE EditWaiting
    <2>1. PICK c \in Edits : Writable(c) /\ candidate' = c
      BY <1>2 DEF EditWaiting
    <2>2. candidate' \in Candidate
      BY <1>0, <2>1, EditsAreCandidates
    <2> QED
      BY <1>2, <2>2, PlanUntouched DEF EditWaiting
  <1>3. CASE SelectCandidate
    <2>1. PICK k \in Grouped(candidate.definition) :
            candidate' = [candidate EXCEPT !.selected = k]
      BY <1>3 DEF SelectCandidate
    <2>2. k \in Periods
      <3>1. Definition(candidate.definition)
        BY <1>0, MaterialisationAssumption DEF Candidate
      <3> QED
        BY <2>1, <3>1 DEF Grouped, Definition, EntryKeys
    <2>3. candidate' \in Candidate
      BY <1>0, <2>1, <2>2 DEF Candidate
    <2> QED
      BY <1>3, <2>3, PlanUntouched DEF SelectCandidate
  <1>4. ASSUME NEW role, EditBeyondEnvelope(role)
        PROVE  PlanInv' /\ (lineMode => LocksKept)
    <2>1. PICK c \in Edits :
            /\ Writable(c) /\ candidate' = c
            /\ \/ /\ standing' = "Soumise"
                  /\ UNCHANGED <<revision, choices, needs>>
               \/ Materialises(c)
      BY <1>4 DEF EditBeyondEnvelope
    <2>2. lineMode' = lineMode /\ standing = "En planification"
      BY <1>4 DEF EditBeyondEnvelope
    <2>3. c \in Candidate
      BY <1>0, <2>1, EditsAreCandidates
    <2>4. CASE Materialises(c)
      BY <2>1, <2>2, <2>3, <2>4, MaterialisesKeeps
    <2>5. CASE standing' = "Soumise" /\ UNCHANGED <<revision, choices, needs>>
      BY <2>1, <2>2, <2>3, <2>5, PlanUntouched
    <2> QED
      BY <2>1, <2>4, <2>5
  <1>5. ASSUME NEW role, EditWithinEnvelope(role)
        PROVE  PlanInv' /\ (lineMode => LocksKept)
    <2> DEFINE raised(c) == {k \in DOMAIN c.definition.entries :
                               c.definition.entries[k].hours
                                 # revision.definition.entries[k].hours}
               made(c) == [choices EXCEPT !.budget =
                             [k \in EntryKeys |-> IF k \in raised(c)
                                THEN c.definition.entries[k].hours
                                ELSE choices.budget[k]]]
    <2>1. PICK c \in Edits :
            /\ Writable(c) /\ candidate' = c
            /\ IF raised(c) = {} THEN UNCHANGED <<choices, needs>>
               ELSE Resynchronises(made(c))
      BY <1>5 DEF EditWithinEnvelope
    <2>2. /\ lineMode' = lineMode /\ standing' = standing
          /\ revision' = revision /\ standing = "En planification"
      BY <1>5 DEF EditWithinEnvelope
    <2>3. c \in Candidate
      BY <1>0, <2>1, EditsAreCandidates
    <2>4. CASE raised(c) = {}
      <3>1. UNCHANGED <<choices, needs>>
        BY <2>1, <2>4
      <3> QED
        BY <2>1, <2>2, <2>3, <3>1, PlanUntouched
    <2>5. CASE raised(c) # {}
      <3>1. revision # None /\ choices \in ChoiceRow
        BY <2>2 DEF PlanInv, MaterialisationTypeOK
      <3>2. \A k \in raised(c) : c.definition.entries[k].hours \in AllHours
        BY <2>3, HoursAreNumbers DEF Candidate
      <3> HIDE DEF raised
      <3>3. made(c) \in ChoiceRow
        <4>1. \A k \in EntryKeys : choices.budget[k] \in AllHours \cup {None}
          BY <3>1 DEF ChoiceRow
        <4>2. [k \in EntryKeys |-> IF k \in raised(c)
                 THEN c.definition.entries[k].hours ELSE choices.budget[k]]
                \in [EntryKeys -> AllHours \cup {None}]
          BY <3>2, <4>1
        <4>3. PICK budget \in [EntryKeys -> AllHours \cup {None}] :
                budget = [k \in EntryKeys |-> IF k \in raised(c)
                  THEN c.definition.entries[k].hours ELSE choices.budget[k]]
          BY <4>2
        <4>4. made(c) = [choices EXCEPT !.budget = budget]
          BY <4>3
        <4> HIDE DEF made
        <4> QED
          BY <3>1, <4>4 DEF ChoiceRow
      <3>4. Resynchronises(made(c))
        BY <2>1, <2>5
      <3> HIDE DEF made
      <3>5. PICK m \in ChoiceRow : m = made(c)
        BY <3>3
      <3> QED
        BY <2>1, <2>2, <2>3, <3>1, <3>4, <3>5, ResynchronisesKeeps
    <2> QED
      BY <2>4, <2>5
  <1>6. CASE SelectOperational
    <2>1. revision # None /\ choices \in ChoiceRow /\ revision \in Revision
      BY <1>6 DEF SelectOperational, PlanInv, MaterialisationTypeOK
    <2>2. PICK k \in Grouped(revision.definition) :
            Resynchronises([choices EXCEPT !.selected = k])
      BY <1>6 DEF SelectOperational
    <2>3. k \in Periods
      <3>1. Definition(revision.definition)
        BY <2>1, MaterialisationAssumption DEF Revision
      <3> QED
        BY <2>2, <3>1 DEF Grouped, Definition, EntryKeys
    <2>4. [choices EXCEPT !.selected = k] \in ChoiceRow
      BY <2>1, <2>3 DEF ChoiceRow
    <2>5. PICK made \in ChoiceRow : made = [choices EXCEPT !.selected = k]
      BY <2>4
    <2> QED
      BY <1>0, <1>6, <2>1, <2>2, <2>5, ResynchronisesKeeps DEF SelectOperational
  <1>7. CASE SetConfirmation
    <2>1. revision # None /\ choices \in ChoiceRow
      BY <1>7 DEF SetConfirmation, PlanInv, MaterialisationTypeOK
    <2>2. PICK made \in ChoiceRow : made = choices
      BY <2>1
    <2> QED
      BY <1>0, <1>7, <2>1, <2>2, ResynchronisesKeeps DEF SetConfirmation
  <1>8. ASSUME NEW n \in Current,
               Assign(n) \/ LockShift(n) \/ ReleaseShift(n) \/ SetDone(n)
        PROVE  PlanInv' /\ (lineMode => LocksKept)
    <2>1. n \in DOMAIN needs /\ needs[n] \in Need
      BY CurrentIsNeed DEF PlanInv, MaterialisationTypeOK
    <2>2. PICK row \in Need : row = needs[n]
      BY <2>1
    <2>3. CASE Assign(n)
      <3>1. PICK to \in BOOLEAN : ChangesNeed(n, [row EXCEPT !.assigned = to])
        BY <2>2, <2>3 DEF Assign
      <3>2. PICK need \in Need : need = [row EXCEPT !.assigned = to]
        BY DEF Need
      <3>3. /\ need.key = row.key /\ need.window = row.window
            /\ need.hours = row.hours /\ need.revision = row.revision
            /\ need.locked = row.locked
        BY <3>2 DEF Need
      <3> QED
        BY <2>2, <3>1, <3>2, <3>3, NeedChanged
    <2>4. CASE LockShift(n)
      <3>1. PICK day \in row.window :
              ChangesNeed(n, [row EXCEPT !.locked = row.locked \cup {day}])
        BY <2>2, <2>4 DEF LockShift
      <3>2. PICK need \in Need :
              need = [row EXCEPT !.locked = row.locked \cup {day}]
        BY DEF Need
      <3>3. /\ need.key = row.key /\ need.window = row.window
            /\ need.hours = row.hours /\ need.revision = row.revision
            /\ need.locked \subseteq row.locked \cup row.window
        BY <3>2 DEF Need
      <3> QED
        BY <2>2, <3>1, <3>2, <3>3, NeedChanged
    <2>5. CASE ReleaseShift(n)
      <3>1. PICK day \in row.locked :
              ChangesNeed(n, [row EXCEPT !.locked = row.locked \ {day}])
        BY <2>2, <2>5 DEF ReleaseShift
      <3>2. PICK need \in Need :
              need = [row EXCEPT !.locked = row.locked \ {day}]
        BY DEF Need
      <3>3. /\ need.key = row.key /\ need.window = row.window
            /\ need.hours = row.hours /\ need.revision = row.revision
            /\ need.locked \subseteq row.locked \cup row.window
        BY <3>2 DEF Need
      <3> QED
        BY <2>2, <3>1, <3>2, <3>3, NeedChanged
    <2>6. CASE SetDone(n)
      <3>1. PICK done \in BOOLEAN, locked \in {{}, row.locked} :
              ChangesNeed(n, [row EXCEPT !.done = done, !.locked = locked])
        <4>1. \/ ChangesNeed(n, [row EXCEPT !.done = TRUE, !.locked = {}])
              \/ ChangesNeed(n, [row EXCEPT !.done = FALSE])
          BY <2>2, <2>6 DEF SetDone
        <4>2. [row EXCEPT !.done = FALSE]
                = [row EXCEPT !.done = FALSE, !.locked = row.locked]
          BY <2>2 DEF Need
        <4> QED
          BY <4>1, <4>2
      <3>2. PICK need \in Need :
              need = [row EXCEPT !.done = done, !.locked = locked]
        BY DEF Need
      <3>3. /\ need.key = row.key /\ need.window = row.window
            /\ need.hours = row.hours /\ need.revision = row.revision
            /\ need.locked \subseteq row.locked
        BY <3>2 DEF Need
      <3> QED
        BY <2>2, <3>1, <3>2, <3>3, NeedChanged
    <2> QED
      BY <1>8, <2>3, <2>4, <2>5, <2>6
  <1>9. CASE CancelMaterialised
    <2>1. /\ \A n \in Current : needs[n].done \/ needs[n].locked = {}
          /\ standing' = "Annulee"
          /\ needs' = [n \in DOMAIN needs |->
               IF n \in Current /\ needs[n].done THEN needs[n] ELSE None]
          /\ UNCHANGED <<lineMode, candidate, revision, choices>>
      BY <1>9 DEF CancelMaterialised
    <2>2. needs' \in Seq(Need \cup {None})
      <3>1. needs \in Seq(Need \cup {None})
        BY DEF PlanInv, MaterialisationTypeOK
      <3>2. Len(needs) \in Nat /\ DOMAIN needs = 1 .. Len(needs)
        BY <3>1, LenProperties
      <3>3. needs' \in [1 .. Len(needs) -> Need \cup {None}]
        BY <2>1, <3>1, <3>2, CurrentIsNeed
      <3> QED
        BY <3>2, <3>3, SeqDef
    <2>3. MaterialisationTypeOK'
      BY <2>1, <2>2 DEF PlanInv, MaterialisationTypeOK
    <2>4. \A n \in DOMAIN needs :
            needs'[n] = IF n \in Current /\ needs[n].done THEN needs[n]
                        ELSE None
      BY <2>1
    <2>5. DOMAIN needs' = DOMAIN needs
      BY <2>1
    <2>6. \A n \in Current' : n \in Current /\ needs'[n] = needs[n]
      BY <2>4, <2>5 DEF Current
    <2>7. LocksFit' /\ (lineMode => LocksKept)
      <3>1. LocksFit'
        BY <2>1, <2>6 DEF PlanInv, LocksFit
      <3>2. ASSUME lineMode PROVE LocksKept
        BY <2>1, <2>4, <3>2 DEF PlanInv, LocksKept, LocksFit, Current
      <3> QED
        BY <3>1, <3>2
    <2> QED
      BY <2>1, <2>3, <2>7 DEF PlanInv, PlanLaid
  <1> QED
    BY <1>1, <1>2, <1>3, <1>4, <1>5, <1>6, <1>7, <1>8, <1>9
       DEF MaterialisationNext
-----------------------------------------------------------------------------
(* A plan that is laid out is authorised.                                  *)

\* A bijection brings back the requirements of the slots of an entry.
LEMMA RowsOfEntry ==
  ASSUME Typed, NEW form, PlanOK(form), NEW number,
         Laid(lineMode, form, needs, number),
         NEW k \in Effective(form.definition, form.selected)
  PROVE  /\ Cardinality({n \in Current : needs[n].key = k})
              = SlotCount(form.definition, k)
         /\ \A i \in 1 .. SlotCount(form.definition, k) :
              Cardinality({m \in {n \in Current : needs[n].key = k} :
                needs[m].hours = Prepared(form, <<k, i>>).hours}) > 0
  <1> DEFINE rows == {n \in Current : needs[n].key = k}
             count == SlotCount(form.definition, k)
  <1>1. PICK f \in Bijection(Current, Wanted(form)) :
          \A n \in Current : RowBy(lineMode, form, f[n], needs[n], number)
    <2>1. PICK f \in Bijection({n \in DOMAIN needs : needs[n] # None},
                               WantedBy(lineMode, form)) :
            \A n \in DOMAIN needs :
              needs[n] # None => RowBy(lineMode, form, f[n], needs[n], number)
      BY DEF Laid
    <2> QED
      BY <2>1, ByMode DEF Current
  <1>2. /\ f \in [Current -> Wanted(form)]
        /\ \A m, n \in Current : f[m] = f[n] => m = n
        /\ \A slot \in Wanted(form) : \E n \in Current : f[n] = slot
    BY <1>1 DEF Bijection, Injection, Surjection, IsInjective
  <1>3. \A n \in Current : needs[n].key = f[n][1]
    BY <1>1 DEF RowBy
  <1>4. /\ form.definition.slots \in Nat \ {0}
        /\ count \in Nat \ {0} /\ count <= form.definition.slots
    <2>1. form.definition.slots \in Nat \ {0}
      BY SlotsAreFinite
    <2> QED
      BY <2>1 DEF SlotCount
  <1>5. \A i \in 1 .. count : <<k, i>> \in Wanted(form)
    BY <1>4 DEF Wanted
  <1>6. ASSUME NEW slot \in Wanted(form), slot[1] = k
        PROVE  slot = <<k, slot[2]>> /\ slot[2] \in 1 .. count
    BY <1>4, <1>6 DEF Wanted
  <1>7. \A i \in 1 .. count : \E n \in Current : f[n] = <<k, i>>
    BY <1>2, <1>5
  <1> DEFINE g == [i \in 1 .. count |-> CHOOSE n \in Current : f[n] = <<k, i>>]
  <1> HIDE DEF count
  <1>8. \A i \in 1 .. count : g[i] \in Current /\ f[g[i]] = <<k, i>>
    BY <1>7
  <1>9. ASSUME NEW i \in 1 .. count
        PROVE  g[i] \in rows
    <2> HIDE DEF g
    <2>1. g[i] \in Current /\ f[g[i]] = <<k, i>>
      BY <1>8
    <2>2. needs[g[i]].key = f[g[i]][1]
      BY <2>1, <1>3
    <2> QED
      BY <2>1, <2>2
  <1>10. \A i, j \in 1 .. count : g[i] = g[j] => i = j
    <2> SUFFICES ASSUME NEW i \in 1 .. count, NEW j \in 1 .. count, g[i] = g[j]
                 PROVE  i = j
      OBVIOUS
    <2> HIDE DEF g
    <2>1. <<k, i>> = <<k, j>>
      BY <1>8
    <2> QED
      BY <2>1
  <1>11. \A n \in rows : \E i \in 1 .. count : g[i] = n
    <2> SUFFICES ASSUME NEW n \in rows
                 PROVE  \E i \in 1 .. count : g[i] = n
      OBVIOUS
    <2>1. n \in Current /\ f[n][1] = k /\ f[n] \in Wanted(form)
      BY <1>2, <1>3
    <2>2. f[n] = <<k, f[n][2]>> /\ f[n][2] \in 1 .. count
      BY <2>1, <1>6
    <2> HIDE DEF g
    <2>3. f[g[f[n][2]]] = f[n] /\ g[f[n][2]] \in Current
      BY <2>2, <1>8
    <2> QED
      BY <2>1, <2>2, <2>3, <1>2
  <1>12. g \in [1 .. count -> rows]
    BY <1>9
  <1> HIDE DEF g, rows
  <1>13. g \in Bijection(1 .. count, rows)
    BY <1>10, <1>11, <1>12, Fun_IsBij
  <1>14. Cardinality(rows) = count
    BY <1>4, <1>13, FS_CountingElements DEF ExistsBijection
  <1>15. IsFiniteSet(rows)
    <2>1. Len(needs) \in Nat /\ DOMAIN needs = 1 .. Len(needs)
      BY LenProperties DEF Typed
    <2>2. rows \subseteq 1 .. Len(needs)
      BY <2>1 DEF rows, Current
    <2>3. IsFiniteSet(1 .. Len(needs))
      BY <2>1, FS_Interval
    <2> QED
      BY <2>2, <2>3, FS_Subset
  <1>16. ASSUME NEW i \in 1 .. count
         PROVE  Cardinality({m \in rows :
                  needs[m].hours = Prepared(form, <<k, i>>).hours}) > 0
    <2> DEFINE same == {m \in rows :
                  needs[m].hours = Prepared(form, <<k, i>>).hours}
    <2>1. needs[g[i]].hours = Prepared(form, <<k, i>>).hours
      <3>1. g[i] \in Current /\ f[g[i]] = <<k, i>>
        BY <1>8
      <3>2. needs[g[i]].hours = HoursBy(lineMode, form, <<k, i>>)
        BY <3>1, <1>1 DEF RowBy
      <3> QED
        BY <3>2, ByMode
    <2>2. g[i] \in same
      BY <2>1, <1>12
    <2>3. IsFiniteSet(same) /\ same # {}
      BY <2>2, <1>15, FS_Subset
    <2> HIDE DEF same
    <2>4. Cardinality(same) \in Nat /\ Cardinality(same) # 0
      BY <2>3, FS_EmptySet, FS_CardinalityType
    <2>5. Cardinality(same) > 0
      BY <2>4
    <2> QED
      BY <2>5 DEF same
  <1> QED
    BY <1>14, <1>16 DEF rows, count

\* A plan that is laid out is what was authorised.
LEMMA LaidIsAuthorised ==
  ASSUME PlanInv
  PROVE  PlanIsAuthorised
  <1> SUFFICES ASSUME standing # "Annulee", revision # None
               PROVE  PlanIsAuthorised
    BY DEF PlanIsAuthorised
  <1>1. PICK form : form = RevisionPlan(revision, choices)
    OBVIOUS
  <1>2. PICK number : number = revision.number
    OBVIOUS
  <1>3. revision \in Revision /\ choices \in ChoiceRow
    BY DEF PlanInv, MaterialisationTypeOK
  <1>4. PlanOK(form)
    BY <1>1, <1>3 DEF PlanOK, RevisionPlan, Revision, ChoiceRow
  <1>5. Typed
    BY DEF Typed, PlanInv, MaterialisationTypeOK
  <1>6. Laid(lineMode, form, needs, number)
    BY <1>1, <1>2 DEF PlanInv, PlanLaid
  <1>7. PICK f \in Bijection(Current, Wanted(form)) :
          \A n \in Current : RowBy(lineMode, form, f[n], needs[n], number)
    <2>1. PICK f \in Bijection({n \in DOMAIN needs : needs[n] # None},
                               WantedBy(lineMode, form)) :
            \A n \in DOMAIN needs :
              needs[n] # None => RowBy(lineMode, form, f[n], needs[n], number)
      BY <1>6 DEF Laid
    <2> QED
      BY <2>1, ByMode DEF Current
  <1>8. ASSUME NEW n \in Current
        PROVE  /\ needs[n].key \in Effective(form.definition, form.selected)
               /\ needs[n].revision = number
               /\ \A i : needs[n].window
                           = Prepared(form, <<needs[n].key, i>>).window
    <2>1. f[n] \in Wanted(form)
      BY <1>7 DEF Bijection, Injection
    <2>2. f[n][1] \in Effective(form.definition, form.selected)
      BY <2>1 DEF Wanted
    <2>3. RowBy(lineMode, form, f[n], needs[n], number)
      BY <1>7
    <2>4. /\ needs[n].key = f[n][1] /\ needs[n].revision = number
          /\ needs[n].window = form.definition.entries[f[n][1]].window
      BY <2>3 DEF RowBy
    <2>5. ASSUME NEW i
          PROVE  needs[n].window = Prepared(form, <<needs[n].key, i>>).window
      <3> DEFINE slot == <<needs[n].key, i>>
      <3>1. slot[1] = needs[n].key
        OBVIOUS
      <3> HIDE DEF slot
      <3>2. Prepared(form, slot).window
              = form.definition.entries[slot[1]].window
        BY ByMode
      <3>3. Prepared(form, slot).window = needs[n].window
        BY <2>4, <3>1, <3>2
      <3> QED
        BY <3>3 DEF slot
    <2> QED
      BY <2>2, <2>4, <2>5
  <1>9. ASSUME NEW k \in Effective(form.definition, form.selected)
        PROVE  /\ Cardinality({n \in Current : needs[n].key = k})
                    = SlotCount(form.definition, k)
               /\ \A i \in 1 .. SlotCount(form.definition, k) :
                    Cardinality({m \in {n \in Current : needs[n].key = k} :
                      needs[m].hours = Prepared(form, <<k, i>>).hours}) > 0
    BY <1>4, <1>5, <1>6, RowsOfEntry
  <1>10. \A k : \A n \in {m \in Current : needs[m].key = k} : \A i :
           needs[n].window = Prepared(form, <<k, i>>).window
    BY <1>8
  <1> QED
    BY <1>1, <1>2, <1>8, <1>9, <1>10 DEF PlanIsAuthorised

-----------------------------------------------------------------------------
(* The theorems.                                                           *)

\* At the start nothing is laid out.
LEMMA InitPlanInv == MaterialisationInit => PlanInv
  <1> SUFFICES ASSUME MaterialisationInit PROVE PlanInv
    OBVIOUS
  <1>1. candidate \in Candidate
    BY MaterialisationAssumption DEF MaterialisationInit, Candidate
  <1>2. needs \in Seq(Need \cup {None}) /\ Current = {}
    BY DEF MaterialisationInit, Current
  <1> QED
    BY <1>1, <1>2 DEF MaterialisationInit, PlanInv, MaterialisationTypeOK,
      PlanLaid, LocksFit

\* Each step keeps the invariant.
LEMMA NextPlanInv ==
  ASSUME PlanInv, [MaterialisationNext]_planVars
  PROVE  PlanInv'
  <1>1. CASE MaterialisationNext
    BY <1>1, StepKeeps
  <1>2. CASE UNCHANGED planVars
    BY <1>2 DEF planVars, PlanInv, MaterialisationTypeOK, PlanLaid, LocksFit,
      Current
  <1> QED
    BY <1>1, <1>2

\* The requirements are what the active revision lays out, and what is typed.
LEMMA PlanInvariant ==
  MaterialisationSpec => []PlanInv
  BY InitPlanInv, NextPlanInv, PTL DEF MaterialisationSpec

\* The rows are typed, and a materialised plan has a revision and choices.
LEMMA MaterialisationTypes ==
  MaterialisationSpec => []MaterialisationTypeOK
  <1>1. PlanInv => MaterialisationTypeOK
    BY DEF PlanInv
  <1> QED
    BY <1>1, PlanInvariant, PTL

\* For any definitions, number of edits, revisions and requirements, in both
\* kinds of request: what is planned is what was approved, with the choices
\* made since (sync_approved, sync_operational_choices, ADR-002, ADR-003).
THEOREM ThePlanIsAuthorised ==
  MaterialisationSpec => []PlanIsAuthorised
  <1>1. PlanInv => PlanIsAuthorised
    BY LaidIsAuthorised
  <1> QED
    BY <1>1, PlanInvariant, PTL

\* Of a request with RequestLine identities, no step takes a locked shift
\* away (locked_conflicts, ADR-004).  It does not hold for the others.
THEOREM TheLockedShiftsSurvive ==
  ASSUME LineModes \subseteq {TRUE}
  PROVE  MaterialisationSpec => LockedShiftsSurvive
  <1>1. PlanInv /\ [MaterialisationNext]_planVars =>
          [LocksKept]_planVars
    <2> SUFFICES ASSUME PlanInv, MaterialisationNext
                 PROVE  LocksKept
      OBVIOUS
    <2>1. lineMode
      BY DEF PlanInv, MaterialisationTypeOK
    <2> QED
      BY <2>1, StepKeeps
  <1>2. [LocksKept]_planVars <=>
          [\A n \in Current :
             IF needs'[n] = None THEN needs[n].locked = {}
             ELSE needs[n].locked \cap needs'[n].locked
                    \subseteq needs'[n].window]_planVars
    BY DEF LocksKept
  <1> QED
    BY <1>1, <1>2, PlanInvariant, PTL
       DEF MaterialisationSpec, LockedShiftsSurvive

-----------------------------------------------------------------------------
(* Types, whichever part moves.                                            *)

\* Versions stay within their bounds, a retest comes after an execution that
\* there was, and only commands of the instance are under way.
StoriesBounded ==
  /\ \A p \in Plans : plan[p].version <= MaxDelivery
  /\ scope <= MaxVerification
  /\ \A q \in Requirements : retestAfter[q] <= Len(executions[q])
  /\ \A w \in Workers :
       closing[w] # Idle => closing[w].command \in StoryCommands

\* What is under way is a command of the instance.
LEMMA CommandsKnown ==
  ASSUME StoryInv, StoriesBounded, StoryNext
  PROVE  \A w \in Workers :
           closing'[w] # Idle => closing'[w].command \in StoryCommands
  <1> PICK w \in Workers :
        \/ \E command, p, read : Start(w, command, p, read)
        \/ closing' = [closing EXCEPT ![w] = Idle]
    BY DEF StoryNext, BeginDelivery, BeginClosure, BeginExecution,
       CommitCreatePlan, CommitPlanStatus, CommitCreateStory, CommitUpdate,
       CommitNote, CommitComplete, CommitHistorical, CommitAssignment,
       CommitRecord, CommitRetest, Abandon, Finish
  <1>1. CASE closing' = [closing EXCEPT ![w] = Idle]
    BY <1>1 DEF StoriesBounded
  <1>2. CASE \E command, p, read : Start(w, command, p, read)
    BY <1>2 DEF Start, StoriesBounded, StoryInv, StoryRows
  <1> QED
    BY <1>1, <1>2

\* Versions are compared with their bounds, and grow by one.
LEMMA StoriesStayBounded ==
  ASSUME StoryInv, StoriesBounded, [StoryNext]_storyVars
  PROVE  StoriesBounded'
  <1>1. CASE UNCHANGED storyVars
    BY <1>1 DEF StoriesBounded, storyVars, deliveryVars, verificationVars
  <1>2. CASE StoryNext
    <2> PICK w \in Workers :
          \/ BeginDelivery(w) \/ BeginClosure(w) \/ BeginExecution(w)
          \/ CommitCreatePlan(w) \/ CommitPlanStatus(w)
          \/ CommitCreateStory(w) \/ CommitUpdate(w) \/ CommitNote(w)
          \/ CommitComplete(w) \/ CommitHistorical(w)
          \/ CommitAssignment(w) \/ CommitRecord(w) \/ CommitRetest(w)
          \/ Abandon(w)
      BY <1>2 DEF StoryNext
    <2>1. \A p \in Plans : plan'[p].version <= MaxDelivery
      <3>1. CASE UNCHANGED plan
        BY <3>1 DEF StoriesBounded
      <3>2. CASE CommitCreatePlan(w)
        BY <3>2, VerificationAssumption
           DEF CommitCreatePlan, StoriesBounded, StoryInv, StoryRows
      <3>3. CASE \E status : DeliveryMoves(closing[w], status)
        BY <3>3, VerificationAssumption
           DEF DeliveryMoves, StoriesBounded, StoryInv, StoryRows
      <3> QED
        BY <3>1, <3>2, <3>3
           DEF BeginDelivery, BeginClosure, BeginExecution, Start,
           CommitPlanStatus, CommitCreateStory, CommitUpdate, CommitNote,
           CommitComplete, CommitHistorical, CommitAssignment, CommitRecord,
           CommitRetest, Abandon, deliveryVars
    <2>2. scope' <= MaxVerification
      <3>1. CASE UNCHANGED scope
        BY <3>1 DEF StoriesBounded
      <3>2. CASE VerificationMoves(closing[w])
        BY <3>2, VerificationAssumption
           DEF VerificationMoves, StoryInv, StoryRows
      <3> QED
        BY <3>1, <3>2
           DEF BeginDelivery, BeginClosure, BeginExecution, Start,
           CommitCreatePlan, CommitPlanStatus, CommitCreateStory,
           CommitUpdate, CommitNote, CommitComplete, CommitHistorical,
           CommitAssignment, CommitRecord, CommitRetest, Abandon,
           verificationVars
    <2>3. ASSUME NEW q \in Requirements
          PROVE  retestAfter'[q] <= Len(executions'[q])
      <3>1. CASE UNCHANGED <<retestAfter, executions>>
        BY <2>3, <3>1 DEF StoriesBounded
      <3>2. CASE CommitRecord(w)
        <4>1. /\ closing[w].read.requirement \in Requirements
              /\ UNCHANGED retestAfter
          BY <3>2, StillSeen
             DEF CommitRecord, Finish, Known, OfRequirement
        <4>2. closing[w].read.executor \in Executors
          BY <3>2, <4>1 DEF CommitRecord, StoryInv, StoryRows
        <4>3. Len(executions'[q]) >= Len(executions[q])
          <5>1. executions[q] \in Seq(Executors)
            BY DEF StoryInv, StoryRows
          <5>2. CASE q = closing[w].read.requirement
            BY <3>2, <4>2, <5>1, <5>2, AppendProperties, LenProperties
               DEF CommitRecord, StoryInv, StoryRows
          <5>3. CASE q # closing[w].read.requirement
            BY <3>2, <5>1, <5>3, LenProperties
               DEF CommitRecord, StoryInv, StoryRows
          <5> QED
            BY <5>2, <5>3
        <4>4. /\ Len(executions[q]) \in Nat /\ Len(executions'[q]) \in Int
              /\ retestAfter[q] \in Nat
          <5>1. executions[q] \in Seq(Executors) /\ retestAfter[q] \in Nat
            BY DEF StoryInv, StoryRows
          <5>2. executions'[q] \in Seq(Executors)
            BY <3>2, <4>2, <5>1, AppendProperties
               DEF CommitRecord, StoryInv, StoryRows
          <5> QED
            BY <5>1, <5>2, LenProperties
        <4> QED
          BY <4>1, <4>3, <4>4 DEF StoriesBounded
      <3>3. CASE CommitRetest(w)
        <4>1. /\ closing[w].read.requirement \in Requirements
              /\ closing[w].read.latest
                   = Len(executions[closing[w].read.requirement])
              /\ UNCHANGED executions
          BY <3>3, StillSeen DEF CommitRetest, Finish, Known, OfRequirement,
             VerificationMoves
        <4> QED
          BY <3>3, <4>1 DEF CommitRetest, StoriesBounded, StoryInv, StoryRows
      <3> QED
        BY <3>1, <3>2, <3>3
           DEF BeginDelivery, BeginClosure, BeginExecution, Start,
           CommitCreatePlan, CommitPlanStatus, CommitCreateStory,
           CommitUpdate, CommitNote, CommitComplete, CommitHistorical,
           RecordsDecision, Decides, CommitAssignment, Abandon,
           verificationVars
    <2> QED
      BY <1>2, <2>1, <2>2, <2>3, CommandsKnown DEF StoriesBounded
  <1> QED
    BY <1>1, <1>2

\* Bounded rows have the types the run asks of them.
LEMMA StoriesTyped ==
  ASSUME StoryInv, StoriesBounded
  PROVE  StoryTypeOK
  <1>1. plan \in [Plans -> Plan]
    <2> SUFFICES ASSUME NEW p \in Plans PROVE plan[p] \in Plan
      BY DEF StoryInv, StoryRows
    <2>1. plan[p] \in [status: {"ABSENT", "DRAFT", "ACTIVE", "ARCHIVED"},
                       version: Nat]
      BY DEF StoryInv, StoryRows
    <2>2. plan[p].version \in 0 .. MaxDelivery
      BY <2>1, VerificationAssumption DEF StoriesBounded
    <2> QED
      BY <2>1, <2>2 DEF Plan
  <1>2. scope \in 0 .. MaxVerification
    BY VerificationAssumption DEF StoriesBounded, StoryInv, StoryRows
  <1>3. \A q \in Requirements :
          /\ executions[q] \in Seq(Executors)
          /\ retestAfter[q] \in 0 .. Len(executions[q])
    BY LenProperties DEF StoriesBounded, StoryInv, StoryRows
  <1> QED
    BY <1>1, <1>2, <1>3 DEF StoriesBounded, StoryInv, StoryRows, StoryTypeOK

\* What a transaction of communications holds, whoever overlaps: fields of
\* its type, and a batch that is there.
SenderTyped(t, rows) ==
  /\ t.command = "send" => t \in SendRow /\ rows[t.batch] # None
  /\ t.command = "prepare" =>
       /\ t.kind \in Kinds /\ t.version \in Nat \ {0}
       /\ t.included \in SUBSET Messages
  /\ t.command \in {"approve", "cancel", "mark", "drafts"} =>
       t.batch \in Batches /\ rows[t.batch] # None

MessagesTyped ==
  /\ BatchTables /\ planned \in 1 .. MaxPlanned /\ told \in Seq(Batches)
  /\ \A w \in Workers : SenderTyped(sender[w], batch)

\* The tables after a step: batches stay.
TablesGoOn ==
  /\ batch' \in [Batches -> Batch \cup {None}]
  /\ \A b \in Batches : batch[b] # None => batch'[b] # None
  /\ delivery' \in [Batches -> [Messages ->
                      {None, "PENDING", "FAILED", "SENT"}]]
  /\ received' \in [Batches -> [Effects -> Nat]]
  /\ lost' \in [Batches -> [Effects -> Nat]]
  /\ planned' \in 1 .. MaxPlanned /\ told' \in Seq(Batches)

\* One transaction changes, the others go on.
LEMMA MessagesGoOn ==
  ASSUME MessagesTyped, TablesGoOn, NEW w \in Workers, NEW t,
         sender' = [sender EXCEPT ![w] = t], SenderTyped(t, batch')
  PROVE  MessagesTyped'
  <1>1. BatchTables'
    BY MessagesAssumption DEF TablesGoOn, MessagesTyped, BatchTables
  <1>2. sender'[w] = t /\ \A v \in Workers \ {w} : sender'[v] = sender[v]
    BY DEF MessagesTyped, BatchTables
  <1>3. ASSUME NEW v \in Workers
        PROVE  SenderTyped(sender'[v], batch')
    <2>1. CASE v = w
      BY <1>2, <2>1
    <2>2. CASE v # w
      <3>1. PICK u : u = sender[v]
        OBVIOUS
      <3>2. SenderTyped(u, batch)
        BY <3>1 DEF MessagesTyped
      <3>3. SenderTyped(u, batch')
        BY <3>2 DEF SenderTyped, SendRow, TablesGoOn
      <3> QED
        BY <1>2, <2>2, <3>1, <3>3
    <2> QED
      BY <2>1, <2>2
  <1> QED
    BY <1>1, <1>3 DEF TablesGoOn, MessagesTyped

\* What is lost or received is counted.
LEMMA LossTyped ==
  ASSUME BatchTables, NEW b \in Batches, NEW effects, Loses(b, effects)
  PROVE  lost' \in [Batches -> [Effects -> Nat]]
  BY DEF Loses, BatchTables

\* One more has reached the outside.
LEMMA ReachTyped ==
  ASSUME BatchTables, NEW b \in Batches, NEW e \in Effects,
         received' = [received EXCEPT ![b][e] = @ + 1]
  PROVE  received' \in [Batches -> [Effects -> Nat]]
  BY DEF BatchTables

\* A transaction begins, on a batch that is there.
LEMMA BeginTyped ==
  ASSUME MessagesTyped, NEW w \in Workers, NEW b \in Batches,
         \/ BeginApprove(w, b) \/ BeginCancel(w, b) \/ BeginMark(w, b)
         \/ BeginDrafts(w, b) \/ BeginSend(w, b)
  PROVE  MessagesTyped'
  <1>1. BatchTables /\ planned \in 1 .. MaxPlanned /\ told \in Seq(Batches)
    BY DEF MessagesTyped
  <1>2. /\ UNCHANGED <<planned, batch, delivery, told>>
        /\ batch[b] # None /\ batch[b] \in Batch
    BY <1>1 DEF BeginApprove, BeginCancel, BeginMark, BeginDecision,
       BeginDrafts, BeginSend, BatchIs, BatchTables
  <1>3. Drafts \in Effects
    BY DEF Effects
  <1>4. received' \in [Batches -> [Effects -> Nat]]
    <2>1. \/ received' = received
          \/ received' = [received EXCEPT ![b][Drafts] = @ + 1]
      BY DEF BeginApprove, BeginCancel, BeginMark, BeginDecision,
         BeginDrafts, BeginSend
    <2> QED
      BY <1>1, <1>3, <2>1, ReachTyped DEF BatchTables
  <1>5. lost' \in [Batches -> [Effects -> Nat]]
    BY <1>1, LossTyped DEF BeginApprove, BeginCancel, BeginMark,
       BeginDecision, BeginDrafts, BeginSend, BatchTables
  <1>6. TablesGoOn
    BY <1>1, <1>2, <1>4, <1>5 DEF TablesGoOn, BatchTables
  <1>7. CASE sender' = sender
    BY <1>1, <1>2, <1>6, <1>7 DEF MessagesTyped, TablesGoOn, BatchTables
  <1>8. ASSUME NEW command \in {"approve", "cancel", "mark", "drafts"},
               BeginCommand(w, command, b)
        PROVE  MessagesTyped'
    <2>1. PICK t : t = [command |-> command, batch |-> b]
      OBVIOUS
    <2>2. t.command = command /\ t.batch = b
      BY <2>1
    <2>3. SenderTyped(t, batch')
      BY <1>2, <2>2 DEF SenderTyped
    <2>4. sender' = [sender EXCEPT ![w] = t]
      BY <1>8, <2>1 DEF BeginCommand
    <2> QED
      BY <1>6, <2>3, <2>4, MessagesGoOn
  <1>9. CASE BeginSend(w, b)
    <2>1. PICK seen :
            seen = {m \in batch[b].included : delivery[b][m] = "SENT"}
      OBVIOUS
    <2>2. PICK t : t = [command |-> "send", batch |-> b,
                        left |-> batch[b].included \ seen,
                        sent |-> seen, failed |-> {}, claimed |-> {}]
      OBVIOUS
    <2>3. t \in SendRow /\ t.command = "send" /\ t.batch = b
      BY <1>2, <2>1, <2>2 DEF SendRow, Batch
    <2>4. SenderTyped(t, batch')
      BY <1>2, <2>3 DEF SenderTyped
    <2>5. sender' = [sender EXCEPT ![w] = t]
      BY <1>9, <2>1, <2>2 DEF BeginSend
    <2> QED
      BY <1>6, <2>4, <2>5, MessagesGoOn
  <1> QED
    BY <1>7, <1>8, <1>9 DEF BeginApprove, BeginCancel, BeginMark,
       BeginDecision, BeginDrafts

\* One message is sent, or left out.
LEMMA MessageTyped ==
  ASSUME MessagesTyped, NEW w \in Workers, NEW m \in Messages,
         SkipMessage(w, m) \/ SendMessage(w, m)
  PROVE  MessagesTyped'
  <1>1. /\ sender[w].command = "send"
        /\ UNCHANGED <<planned, batch, delivery, told>>
    BY DEF SkipMessage, SendMessage, NextMessage
  <1>2. BatchTables /\ planned \in 1 .. MaxPlanned /\ told \in Seq(Batches)
    BY DEF MessagesTyped
  <1>3. PICK row : row = sender[w]
    OBVIOUS
  <1>4. row \in SendRow /\ batch[row.batch] # None /\ row.batch \in Batches
    BY <1>1, <1>3 DEF MessagesTyped, SenderTyped, SendRow
  <1>5. m \in Effects
    BY DEF Effects
  <1>6. /\ received' \in [Batches -> [Effects -> Nat]]
        /\ lost' \in [Batches -> [Effects -> Nat]]
    <2>1. \/ received' = received
          \/ received' = [received EXCEPT ![row.batch][m] = @ + 1]
      BY <1>3 DEF SkipMessage, SendMessage
    <2>2. lost' = lost \/ Loses(row.batch, {m})
      BY <1>3 DEF SkipMessage, SendMessage
    <2>3. received' \in [Batches -> [Effects -> Nat]]
      BY <1>2, <1>4, <1>5, <2>1, ReachTyped DEF BatchTables
    <2>4. lost' \in [Batches -> [Effects -> Nat]]
      BY <1>2, <1>4, <2>2, LossTyped DEF BatchTables
    <2> QED
      BY <2>3, <2>4
  <1>7. TablesGoOn
    BY <1>1, <1>2, <1>6 DEF TablesGoOn, BatchTables
  <1>8. ASSUME NEW t \in SendRow, t.batch = row.batch,
               sender' = [sender EXCEPT ![w] = t]
        PROVE  MessagesTyped'
    <2>1. SenderTyped(t, batch')
      BY <1>1, <1>4, <1>8 DEF SenderTyped, SendRow
    <2> QED
      BY <1>7, <1>8, <2>1, MessagesGoOn
  <1>9. CASE SkipMessage(w, m)
    <2>1. PICK t : t = [row EXCEPT !.left = @ \ {m}]
      OBVIOUS
    <2>2. sender' = [sender EXCEPT ![w] = t]
      BY <1>3, <1>9, <2>1 DEF SkipMessage
    <2>3. t \in SendRow /\ t.batch = row.batch
      BY <1>4, <2>1 DEF SendRow
    <2> QED
      BY <1>8, <2>2, <2>3
  <1>10. CASE sender' = [sender EXCEPT ![w].left = @ \ {m},
                  ![w].claimed = @ \cup {m}, ![w].sent = @ \cup {m},
                  ![w].failed = @]
    <2>1. PICK t : t = [row EXCEPT !.left = row.left \ {m},
                          !.claimed = row.claimed \cup {m},
                          !.sent = row.sent \cup {m}, !.failed = row.failed]
      OBVIOUS
    <2>2. sender' = [sender EXCEPT ![w] = t]
      BY <1>2, <1>3, <1>4, <1>10, <2>1 DEF BatchTables, SendRow
    <2>3. t \in SendRow /\ t.batch = row.batch
      BY <1>4, <2>1 DEF SendRow
    <2> QED
      BY <1>8, <2>2, <2>3
  <1>11. CASE sender' = [sender EXCEPT ![w].left = @ \ {m},
                  ![w].claimed = @ \cup {m}, ![w].sent = @,
                  ![w].failed = @ \cup {m}]
    <2>1. PICK t : t = [row EXCEPT !.left = row.left \ {m},
                          !.claimed = row.claimed \cup {m},
                          !.sent = row.sent, !.failed = row.failed \cup {m}]
      OBVIOUS
    <2>2. sender' = [sender EXCEPT ![w] = t]
      BY <1>2, <1>3, <1>4, <1>11, <2>1 DEF BatchTables, SendRow
    <2>3. t \in SendRow /\ t.batch = row.batch
      BY <1>4, <2>1 DEF SendRow
    <2> QED
      BY <1>8, <2>2, <2>3
  <1> QED
    BY <1>9, <1>10, <1>11 DEF SendMessage

\* A transaction ends: prepared, decided, drafted, sent or lost.
LEMMA EndingTyped ==
  ASSUME MessagesTyped, NEW w \in Workers,
         \/ CommitPrepare(w) \/ CommitDecision(w) \/ CommitDrafts(w)
         \/ CommitSend(w) \/ Crash(w)
  PROVE  MessagesTyped'
  <1>1. BatchTables /\ planned \in 1 .. MaxPlanned /\ told \in Seq(Batches)
    BY DEF MessagesTyped
  <1>2. PICK t : t = sender[w]
    OBVIOUS
  <1>3. SenderTyped(t, batch)
    BY <1>2 DEF MessagesTyped
  <1>4. SenderTyped(Idle, batch')
    BY DEF SenderTyped, Idle
  <1>5. None \notin Batch
    BY MessagesAssumption
  <1>6. ASSUME TablesGoOn
        PROVE  MessagesTyped'
    <2>1. sender' = [sender EXCEPT ![w] = Idle]
      BY DEF CommitPrepare, CommitDecision, CommitDrafts, CommitSend, Crash,
         Ends
    <2> QED
      BY <1>4, <1>6, <2>1, MessagesGoOn
  <1>7. CASE CommitPrepare(w)
    <2>1. PICK b \in Batches :
            /\ batch' = [batch EXCEPT ![b] =
                 [kind |-> t.kind, version |-> t.version,
                  status |-> "PREPARED", included |-> t.included,
                  drafted |-> FALSE]]
            /\ delivery' = [delivery EXCEPT ![b] =
                 [m \in Messages |->
                    IF m \in t.included THEN "PENDING" ELSE None]]
      BY <1>2, <1>7 DEF CommitPrepare
    <2>2. PICK row : row = [kind |-> t.kind, version |-> t.version,
                            status |-> "PREPARED", included |-> t.included,
                            drafted |-> FALSE]
      OBVIOUS
    <2>3. row \in Batch
      BY <1>2, <1>3, <1>7, <2>2 DEF CommitPrepare, SenderTyped, Batch
    <2>4. batch' = [batch EXCEPT ![b] = row]
      BY <2>1, <2>2
    <2>5. UNCHANGED <<planned, told, received, lost>>
      BY <1>7 DEF CommitPrepare
    <2>6. TablesGoOn
      BY <1>1, <1>5, <2>1, <2>3, <2>4, <2>5 DEF TablesGoOn, BatchTables
    <2> QED
      BY <1>6, <2>6
  <1>8. ASSUME NEW b \in Batches, NEW row \in Batch,
               batch' = [batch EXCEPT ![b] = row] \/ batch' = batch
        PROVE  /\ batch' \in [Batches -> Batch \cup {None}]
               /\ \A x \in Batches : batch[x] # None => batch'[x] # None
    BY <1>1, <1>5, <1>8 DEF BatchTables
  <1>9. CASE CommitDecision(w)
    <2>1. t.command \in {"approve", "cancel", "mark"}
      BY <1>2, <1>9 DEF CommitDecision
    <2>2. PICK b \in Batches : b = t.batch
      BY <1>3, <2>1 DEF SenderTyped
    <2>3. batch[b] \in Batch
      BY <1>1, <1>3, <2>1, <2>2 DEF SenderTyped, BatchTables
    <2>4. PICK status \in {"APPROVED", "CANCELLED", "COMMUNICATED"} :
            batch' = [batch EXCEPT ![b].status = status]
      BY <1>2, <1>9, <2>2 DEF CommitDecision, SetStatus
    <2>5. PICK row : row = [batch[b] EXCEPT !.status = status]
      OBVIOUS
    <2>6. row \in Batch /\ batch' = [batch EXCEPT ![b] = row]
      BY <2>3, <2>4, <2>5 DEF Batch
    <2>7. UNCHANGED <<planned, delivery, received, lost>>
      BY <1>9 DEF CommitDecision
    <2>8. told' = told \/ told' = Append(told, b)
      BY <1>2, <1>9, <2>2 DEF CommitDecision
    <2>9. told' \in Seq(Batches)
      BY <1>1, <2>8, AppendProperties
    <2>10. TablesGoOn
      BY <1>1, <1>8, <2>6, <2>7, <2>9 DEF TablesGoOn, BatchTables
    <2> QED
      BY <1>6, <2>10
  <1>10. CASE CommitDrafts(w)
    <2>1. t.command = "drafts"
      BY <1>2, <1>10 DEF CommitDrafts
    <2>2. PICK b \in Batches : b = t.batch
      BY <1>3, <2>1 DEF SenderTyped
    <2>3. batch[b] \in Batch
      BY <1>1, <1>3, <2>1, <2>2 DEF SenderTyped, BatchTables
    <2>4. batch' = [batch EXCEPT ![b].drafted = TRUE]
      BY <1>2, <1>10, <2>2 DEF CommitDrafts
    <2>5. PICK row : row = [batch[b] EXCEPT !.drafted = TRUE]
      OBVIOUS
    <2>6. row \in Batch /\ batch' = [batch EXCEPT ![b] = row]
      BY <2>3, <2>4, <2>5 DEF Batch
    <2>7. UNCHANGED <<planned, delivery, told, received, lost>>
      BY <1>10 DEF CommitDrafts
    <2>8. TablesGoOn
      BY <1>1, <1>8, <2>6, <2>7 DEF TablesGoOn, BatchTables
    <2> QED
      BY <1>6, <2>8
  <1>11. CASE CommitSend(w)
    <2>1. t.command = "send"
      BY <1>2, <1>11 DEF CommitSend
    <2>2. PICK b \in Batches : b = t.batch
      BY <1>3, <2>1 DEF SenderTyped, SendRow
    <2>3. batch[b] \in Batch
      BY <1>1, <1>3, <2>1, <2>2 DEF SenderTyped, BatchTables
    <2>4. \/ UNCHANGED <<batch, told>>
          \/ /\ batch' = [batch EXCEPT ![b].status = "COMMUNICATED"]
             /\ told' = Append(told, b)
      BY <1>2, <1>11, <2>2 DEF CommitSend, SetStatus
    <2>5. PICK row : row = [batch[b] EXCEPT !.status = "COMMUNICATED"]
      OBVIOUS
    <2>6. /\ row \in Batch
          /\ batch' = [batch EXCEPT ![b] = row] \/ batch' = batch
      BY <2>3, <2>4, <2>5 DEF Batch
    <2>7. told' \in Seq(Batches)
      BY <1>1, <2>4, AppendProperties
    <2>8. delivery' \in [Batches -> [Messages ->
                           {None, "PENDING", "FAILED", "SENT"}]]
      BY <1>1, <1>2, <1>11, <2>2 DEF CommitSend, BatchTables
    <2>9. UNCHANGED <<planned, received, lost>>
      BY <1>11 DEF CommitSend
    <2>10. TablesGoOn
      BY <1>1, <1>8, <2>6, <2>7, <2>8, <2>9 DEF TablesGoOn, BatchTables
    <2> QED
      BY <1>6, <2>10
  <1>12. CASE Crash(w)
    <2>1. UNCHANGED <<planned, batch, delivery, told, received>>
      BY <1>12 DEF Crash
    <2>2. \/ lost' = lost
          \/ /\ t.command \in {"send", "drafts"}
             /\ \E effects : Loses(t.batch, effects)
      BY <1>2, <1>12 DEF Crash
    <2>3. t.command \in {"send", "drafts"} => t.batch \in Batches
      BY <1>3 DEF SenderTyped, SendRow
    <2>4. lost' \in [Batches -> [Effects -> Nat]]
      BY <1>1, <2>2, <2>3, LossTyped DEF BatchTables
    <2>5. TablesGoOn
      BY <1>1, <2>1, <2>4 DEF TablesGoOn, BatchTables
    <2> QED
      BY <1>6, <2>5
  <1> QED
    BY <1>7, <1>9, <1>10, <1>11, <1>12

\* Every step of communications keeps their types.
LEMMA MessagesStayTyped ==
  ASSUME MessagesTyped, [CommunicationNext]_communicationVars
  PROVE  MessagesTyped'
  <1>1. ASSUME UNCHANGED <<batch, delivery, told, received, lost, sender>>,
               planned' \in 1 .. MaxPlanned
        PROVE  MessagesTyped'
    BY <1>1, MessagesAssumption DEF MessagesTyped, BatchTables, SenderTyped
  <1>2. CASE UNCHANGED communicationVars
    BY <1>1, <1>2 DEF communicationVars, MessagesTyped
  <1>3. CASE ChangePlan
    BY <1>1, <1>3 DEF ChangePlan
  <1>4. ASSUME NEW w \in Workers, BeginPrepare(w)
        PROVE  MessagesTyped'
    <2>1. PICK included \in (SUBSET Messages) \ {{}} :
            sender' = [sender EXCEPT ![w] =
              [command |-> "prepare", kind |-> Mode, version |-> planned,
               included |-> included]]
      BY <1>4 DEF BeginPrepare
    <2>2. PICK t : t = [command |-> "prepare", kind |-> Mode,
                        version |-> planned, included |-> included]
      OBVIOUS
    <2>3. UNCHANGED <<planned, batch, delivery, told, received, lost>>
      BY <1>4 DEF BeginPrepare
    <2>4. SenderTyped(t, batch')
      BY <2>2 DEF SenderTyped, Mode, Kinds, MessagesTyped, BatchTables
    <2>5. sender' = [sender EXCEPT ![w] = t]
      BY <2>1, <2>2
    <2>6. TablesGoOn
      BY <2>3 DEF TablesGoOn, MessagesTyped, BatchTables
    <2> QED
      BY <2>4, <2>5, <2>6, MessagesGoOn
  <1> QED
    BY <1>2, <1>3, <1>4, BeginTyped, MessageTyped, EndingTyped
       DEF CommunicationNext

\* Nothing has been prepared.
LEMMA MessagesStartTyped == CommunicationInit => MessagesTyped
  <1> SUFFICES ASSUME CommunicationInit PROVE MessagesTyped
    OBVIOUS
  <1>1. BatchTables
    BY InitCommunicationInv DEF CommunicationInv
  <1>2. planned \in 1 .. MaxPlanned /\ told \in Seq(Batches)
    BY MessagesAssumption, EmptySeq DEF CommunicationInit
  <1>3. \A w \in Workers : SenderTyped(sender[w], batch)
    BY DEF CommunicationInit, SenderTyped, Idle
  <1> QED
    BY <1>1, <1>2, <1>3 DEF MessagesTyped

LifecyclesInv ==
  /\ StoryInv /\ StoriesBounded /\ PlanInv
  /\ MessagesTyped
  /\ focus = "engine" => EngineInv

\* Whichever part moves, its rows and those of the others are typed: plans,
\* stories, definitions, requirements, batches, snapshots and shifts.
THEOREM LifecyclesTypes == LifecyclesSpec => []LifecyclesTypeOK
  <1>1. LifecyclesInit => LifecyclesInv
    <2>1. StoryInit => StoriesBounded
      BY VerificationAssumption, EmptySeq DEF StoryInit, StoriesBounded
    <2> QED
      BY <2>1, InitStoryInv, InitPlanInv, MessagesStartTyped, EngineStarts
         DEF LifecyclesInit, LifecyclesInv
  <1>2. LifecyclesInv /\ [LifecyclesNext]_lifecycleVars => LifecyclesInv'
    <2> SUFFICES ASSUME LifecyclesInv, [LifecyclesNext]_lifecycleVars
                 PROVE  LifecyclesInv'
      OBVIOUS
    <2>1. /\ [StoryNext]_storyVars /\ [MaterialisationNext]_planVars
          /\ [CommunicationNext]_communicationVars /\ [EngineNext]_engineVars
          /\ UNCHANGED focus
      BY DEF LifecyclesNext, StoriesMove, MaterialisationMoves,
         CommunicationsMove, EngineMoves, lifecycleVars
    <2> QED
      BY <2>1, NextStoryInv, StoriesStayBounded, NextPlanInv,
         MessagesStayTyped, EngineGoesOn DEF LifecyclesInv
  <1>3. LifecyclesInv => LifecyclesTypeOK
    BY StoriesTyped DEF LifecyclesInv, LifecyclesTypeOK, PlanInv, EngineInv,
       MessagesTyped, BatchTables, CommunicationTypeOK
  <1> QED
    BY <1>1, <1>2, <1>3, PTL DEF LifecyclesSpec

==============================================================================
