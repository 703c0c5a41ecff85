----------------------- MODULE RequestApprovalProofs -----------------------
(* Theorems about RequestApproval, for every value of its constants.       *)
EXTENDS RequestApproval, TLAPS

-----------------------------------------------------------------------------
(* Typing facts about the helpers.                                         *)

\* A cycle that is OPEN, or merely created, is a Cycle record.
LEMMA CreatedCycle ==
  ASSUME TypeOK, NEW c \in CycleIds, cycle[c] # Unused
  PROVE  cycle[c] \in Cycle
BY DEF TypeOK

\* The active cycle of a request is an OPEN cycle of it.
LEMMA ActiveCycle ==
  ASSUME TypeOK, NEW r, NEW c, IsActiveCycle(r, c)
  PROVE  /\ c \in CycleIds
         /\ cycle[c] \in Cycle /\ cycle[c] # Unused
         /\ cycle[c].state = "OPEN"
         /\ cycle[c].request = r
<1>1. c \in OpenCycles(r)
  BY DEF IsActiveCycle
<1>2. c \in CycleIds /\ cycle[c].state = "OPEN" /\ cycle[c].request = r
  BY <1>1 DEF OpenCycles
<1>3. cycle[c] # Unused
  BY <1>2 DEF Unused
<1>4. QED
  BY <1>2, <1>3 DEF TypeOK

\* A new cycle freezes the routing and has no vote.
LEMMA OpenedCycleType ==
  ASSUME ApprovalAssumption, TypeOK, NEW r \in Requests, NEW version \in Nat,
         NEW subject \in Subjects
  PROVE  OpenedCycle(r, version, subject) \in Cycle
<1>1. routing \in [Lines -> SUBSET Users]
  BY DEF ApprovalAssumption, TypeOK
<1>2. QED
  BY <1>1 DEF OpenedCycle, Cycle

\* A transaction that a worker commits is a Transaction record.
LEMMA RunningTransaction ==
  ASSUME TypeOK, NEW w \in Workers, tx[w] # Idle
  PROVE  /\ tx[w] \in Transaction
         /\ tx[w].request \in Requests
         /\ tx[w].seen.version \in Nat
         /\ tx[w].targets \X {tx[w].user} \subseteq Lines \X (Users \cup {NoUser})
<1>1. tx[w] \in Transaction
  BY DEF TypeOK
<1>2. tx[w].seen \in Seen
  BY <1>1 DEF Transaction
<1>3. QED
  BY <1>1, <1>2 DEF Transaction, Seen

\* The planning version stays below its modulus.
LEMMA PlanningStep ==
  ASSUME ApprovalAssumption, TypeOK,
         AcquirePlanning \/ UNCHANGED planningVersion
  PROVE  planningVersion' \in 0..(PlanningModulus - 1)
BY DEF ApprovalAssumption, TypeOK, AcquirePlanning

LEMMA RebuiltDecisions ==
  ASSUME NEW old
  PROVE  Rebuilt(old) \subseteq Decisions
BY DEF Rebuilt, Decisions

\* The cycle a reapproval votes on is a Cycle, under a version of the row.
LEMMA EnsuredCycleType ==
  ASSUME ApprovalAssumption, TypeOK, NEW r \in Requests, NEW version \in Nat,
         NEW subject \in Subjects,
         NEW e \in EnsuredCycles(r, version, subject)
  PROVE  /\ e.id \in CycleIds
         /\ e.version \in Nat
         /\ e.cycle \in Cycle
         /\ e.cycle.request = r
         /\ e.cycle.state = "OPEN"
<1>1. CASE NoActiveCycle(r)
  <2>1. PICK c \in FreshCycles :
          e = [id |-> c, cycle |-> OpenedCycle(r, version, subject),
               version |-> version + 1]
    BY <1>1 DEF EnsuredCycles
  <2>2. QED
    BY <2>1, OpenedCycleType DEF FreshCycles, OpenedCycle
<1>2. CASE ~NoActiveCycle(r)
  <2>1. PICK c \in {d \in CycleIds : IsActiveCycle(r, d)} :
          e = [id |-> c, cycle |-> cycle[c], version |-> version]
    BY <1>2 DEF EnsuredCycles
  <2>2. QED
    BY <2>1, ActiveCycle
<1>3. QED
  BY <1>1, <1>2

-----------------------------------------------------------------------------
(* Type correctness.                                                       *)

\* A vote names the user that casts it and the cycle it is cast on.
VotersKnown ==
  \A w \in Workers :
    tx[w] # Idle /\ tx[w].command = "vote" =>
      tx[w].user \in Users /\ tx[w].cycle \in CycleIds

TypeInv == TypeOK /\ VotersKnown

\* A transaction that ends leaves the other transactions as they are.
LEMMA IdleStep ==
  ASSUME TypeInv, NEW w \in Workers, tx' = [tx EXCEPT ![w] = Idle]
  PROVE  /\ tx' \in [Workers -> Transaction \cup {Idle}]
         /\ VotersKnown'
BY DEF TypeInv, TypeOK, VotersKnown

LEMMA FinishStep ==
  ASSUME TypeInv, NEW w \in Workers, NEW commands, Finish(w, commands)
  PROVE  /\ tx' \in [Workers -> Transaction \cup {Idle}]
         /\ VotersKnown'
         /\ routing' \in Routings
         /\ tx[w] # Idle /\ tx[w].command \in commands
<1>1. tx' = [tx EXCEPT ![w] = Idle] /\ UNCHANGED routing
  BY DEF Finish
<1>2. QED
  BY <1>1, IdleStep DEF Finish, TypeInv, TypeOK

\* The votes a transaction adds are votes of known users.
LEMMA VotesAfterType ==
  ASSUME TypeInv, NEW w \in Workers, tx[w] # Idle, tx[w].command = "vote",
         cycle[tx[w].cycle] \in Cycle
  PROVE  VotesAfter(tx[w]) \subseteq Lines \X Users
<1>1. tx[w].user \in Users /\ tx[w].targets \subseteq Lines
  BY RunningTransaction DEF TypeInv, VotersKnown, Transaction
<1>2. cycle[tx[w].cycle].votes \subseteq Lines \X Users
  BY DEF Cycle
<1>3. QED
  BY <1>1, <1>2 DEF VotesAfter

\* A row written over one of the requests leaves the table typed.
LEMMA RowWrite ==
  ASSUME TypeOK, NEW r \in Requests, NEW row \in Request,
         request' = [request EXCEPT ![r] = row]
  PROVE  request' \in [Requests -> Request]
BY DEF TypeOK

LEMMA StatusNames ==
  /\ {"Brouillon", "A corriger", "Soumise", "En planification", "Annulee",
      "ABSENT"} = Statuses
  /\ {"NONE", "AUTO", "LOCKED"} = Decisions
  /\ {"NONE", "PENDING", "REJECTED", "ACCEPTED"} = CancellationStates
BY DEF Statuses, Live, Draft, Decisions, CancellationStates

\* A cycle written over one of the cycles leaves the table typed.
LEMMA CycleWrite ==
  ASSUME TypeOK, NEW c \in CycleIds, NEW k \in Cycle,
         cycle' = [cycle EXCEPT ![c] = k]
  PROVE  cycle' \in [CycleIds -> Cycle \cup {Unused}]
BY DEF TypeOK

LEMMA InitType == ApprovalAssumption /\ Init => TypeInv
<1> SUFFICES ASSUME ApprovalAssumption, Init
             PROVE  TypeInv
  OBVIOUS
<1>1. request \in [Requests -> Request]
  BY DEF Init, Request, Statuses, Live, Draft, CancellationStates, Decisions
<1>2. cycle \in [CycleIds -> Cycle \cup {Unused}]
  BY DEF Init
<1>3. revision \in [RevisionIds -> Revision \cup {Unused}]
  BY DEF Init
<1>4. planningVersion \in 0..(PlanningModulus - 1) /\ routing \in Routings
  BY DEF Init, ApprovalAssumption
<1>5. tx \in [Workers -> Transaction \cup {Idle}] /\ VotersKnown
  BY DEF Init, VotersKnown
<1>6. QED
  BY <1>1, <1>2, <1>3, <1>4, <1>5 DEF TypeInv, TypeOK

LEMMA EditPlanType ==
  ASSUME ApprovalAssumption, TypeInv, NEW r \in Requests, EditPlan(r)
  PROVE  TypeInv'
<1>1. PICK decisions \in Decisions :
        request' = [request EXCEPT ![r] =
                      [request[r] EXCEPT !.decisions = decisions]]
  BY DEF EditPlan
<1>2. [request[r] EXCEPT !.decisions = decisions] \in Request
  BY DEF TypeInv, TypeOK, Request
<1>3. request' \in [Requests -> Request]
  BY <1>1, <1>2, RowWrite DEF TypeInv
<1>4. planningVersion' \in 0..(PlanningModulus - 1)
  BY PlanningStep DEF EditPlan, TypeInv
<1>5. QED
  BY <1>3, <1>4 DEF EditPlan, TypeInv, TypeOK, VotersKnown

LEMMA ChangeRoutingType ==
  ASSUME ApprovalAssumption, TypeInv, ChangeRouting
  PROVE  TypeInv'
<1>1. planningVersion' \in 0..(PlanningModulus - 1)
  BY PlanningStep DEF ChangeRouting, TypeInv
<1>2. QED
  BY <1>1 DEF ChangeRouting, TypeInv, TypeOK, VotersKnown

\* What a command reads of a row.
LEMMA SnapshotType ==
  ASSUME NEW row \in Request, NEW command
  PROVE  Snapshot(row, command) \in Seen
BY DEF Snapshot, Seen, Request

LEMMA StartType ==
  ASSUME TypeInv, NEW w \in Workers, NEW t \in Transaction, Start(w, t),
         t.command = "vote" => t.user \in Users /\ t.cycle \in CycleIds
  PROVE  TypeInv'
<1>1. tx' = [tx EXCEPT ![w] = t]
  BY DEF Start
<1>2. tx' \in [Workers -> Transaction \cup {Idle}] /\ VotersKnown'
  BY <1>1 DEF TypeInv, TypeOK, VotersKnown
<1>3. QED
  BY <1>2 DEF Start, TypeInv, TypeOK

LEMMA BeginType ==
  ASSUME ApprovalAssumption, TypeInv, NEW w \in Workers, NEW r \in Requests,
         NEW command \in Commands, Begin(w, r, command)
  PROVE  TypeInv'
<1> DEFINE t == [ command |-> command, request |-> r,
                  seen |-> Snapshot(request[r], command), cycle |-> NoCycle,
                  user |-> NoUser, targets |-> {}, finalizes |-> FALSE,
                  stale |-> FALSE ]
<1>1. Snapshot(request[r], command) \in Seen
  BY SnapshotType DEF TypeInv, TypeOK
<1>2. t \in Transaction
  BY <1>1 DEF Transaction, ApprovalAssumption
<1>3. Start(w, t) /\ command # "vote"
  BY DEF Begin
<1>4. QED
  BY <1>2, <1>3, StartType

LEMMA BeginVoteType ==
  ASSUME ApprovalAssumption, TypeInv, NEW w \in Workers, NEW r \in Requests,
         BeginVote(w, r)
  PROVE  TypeInv'
<1>1. PICK c \in CycleIds, user \in Users, targets \in SUBSET Lines :
        /\ targets \subseteq EligibleLines(cycle[c].approvers, user)
        /\ Start(w, [ command |-> "vote", request |-> r,
                      seen |-> Snapshot(request[r], "vote"), cycle |-> c,
                      user |-> user, targets |-> targets,
                      finalizes |->
                        QuorumComplete(cycle[c].approvers,
                          cycle[c].votes \cup (targets \X {user})),
                      stale |-> request[r].subject # cycle[c].subject ])
  BY DEF BeginVote, EligibleLines
<1> DEFINE complete == QuorumComplete(cycle[c].approvers,
                         cycle[c].votes \cup (targets \X {user}))
           stale == request[r].subject # cycle[c].subject
           t == [ command |-> "vote", request |-> r,
                  seen |-> Snapshot(request[r], "vote"), cycle |-> c,
                  user |-> user, targets |-> targets,
                  finalizes |-> complete, stale |-> stale ]
<1>2. Snapshot(request[r], "vote") \in Seen
  BY SnapshotType DEF TypeInv, TypeOK
<1>3. targets \in SUBSET Lines
  BY <1>1 DEF EligibleLines
<1>4. complete \in BOOLEAN /\ stale \in BOOLEAN
  BY DEF QuorumComplete
<1>5. t \in Transaction
  <2> HIDE DEF complete, stale
  <2> QED
    BY <1>2, <1>3, <1>4 DEF Transaction, AllCommands
<1>6. QED
  BY <1>1, <1>5, StartType

LEMMA RereadType ==
  ASSUME TypeInv, NEW w \in Workers, Reread(w)
  PROVE  TypeInv'
<1> DEFINE t == tx[w]
           row == request[t.request]
<1>1. PICK plan \in {t.seen.plan, Snapshot(row, t.command).plan} :
        tx' = [tx EXCEPT ![w].seen =
                 [tx[w].seen EXCEPT !.version = row.version, !.plan = plan]]
  BY DEF Reread
<1>2. t \in Transaction /\ t.request \in Requests /\ row \in Request
  BY RunningTransaction DEF Reread, TypeInv, TypeOK
<1>3. t.seen \in Seen /\ Snapshot(row, t.command) \in Seen
  BY <1>2, SnapshotType DEF Transaction
<1> DEFINE seen == [tx[w].seen EXCEPT !.version = row.version, !.plan = plan]
<1>4. seen \in Seen
  BY <1>2, <1>3 DEF Seen, Request
<1>5. [t EXCEPT !.seen = seen] \in Transaction
  <2> HIDE DEF seen
  <2> QED BY <1>2, <1>4 DEF Transaction
<1>6. tx' = [tx EXCEPT ![w] = [t EXCEPT !.seen = seen]]
  <2> HIDE DEF seen
  <2> QED BY <1>1 DEF seen, TypeInv, TypeOK
<1>7. [t EXCEPT !.seen = seen].command = t.command
  BY <1>2 DEF Transaction
<1>8. t.command # "vote"
  BY DEF Reread
<1>9. tx' \in [Workers -> Transaction \cup {Idle}] /\ VotersKnown'
  <2> HIDE DEF seen
  <2> QED
  BY <1>5, <1>6, <1>7, <1>8 DEF TypeInv, TypeOK, VotersKnown
<1>10. QED
  BY <1>9 DEF Reread, TypeInv, TypeOK

LEMMA RollbackType ==
  ASSUME TypeInv, NEW w \in Workers, Rollback(w)
  PROVE  TypeInv'
<1>1. tx' = [tx EXCEPT ![w] = Idle]
  BY DEF Rollback
<1>2. QED
  BY <1>1, IdleStep DEF Rollback, TypeInv, TypeOK

-----------------------------------------------------------------------------
(* What a command that writes does to the data of its request, in one form *)
(* for all of them: one row is written, and at most one cycle is opened or *)
(* continued, or an OPEN one replaced.                                     *)

\* Every vote of a cycle is one of an approver that the cycle froze.
CastByApprovers(votes, approvers) ==
  \A vote \in votes : vote[2] \in approvers[vote[1]]

WellVoted(k) == CastByApprovers(k.votes, k.approvers)

\* A row is written, and no row becomes absent.
RowStep(r) ==
  \E row \in Request :
    /\ request' = [request EXCEPT ![r] = row]
    /\ row.status = "ABSENT" => request[r].status = "ABSENT"

\* A cycle completes with its quorum, on a new revision of its subject.
Captures(v, k) ==
  \E previous \in RevisionIds \cup {NoRevision} :
    revision' = [revision EXCEPT ![v] =
                   CapturedRevision(k.request, previous, k)]

Completion(k) ==
  /\ QuorumComplete(k.approvers, k.votes)
  /\ k.revision \in FreshRevisions
  /\ Captures(k.revision, k)

NoCompletion(k) ==
  k.state # "COMPLETED" /\ k.revision = NoRevision /\ UNCHANGED revision

Opens(r, c, k) ==
  /\ NoActiveCycle(r) /\ c \in FreshCycles
  /\ k.request = r
  /\ request'[r].status # "ABSENT"

Continues(r, c, k) ==
  /\ IsActiveCycle(r, c)
  /\ k.request = r
  /\ k.submitted = cycle[c].submitted /\ k.subject = cycle[c].subject
  /\ k.approvers = cycle[c].approvers
  /\ cycle[c].votes \subseteq k.votes

OneCycle(r) ==
  \E c \in CycleIds, k \in Cycle :
    /\ Opens(r, c, k) \/ Continues(r, c, k)
    /\ WellVoted(k)
    /\ \/ k.state = "COMPLETED" /\ Completion(k)
       \/ NoCompletion(k)
    /\ cycle' = [cycle EXCEPT ![c] = k]

ReplacedCycle(r) ==
  \E c \in CycleIds, d \in FreshCycles, k \in Cycle :
    /\ IsActiveCycle(r, c)
    /\ k.request = r /\ k.state = "OPEN" /\ WellVoted(k)
    /\ k.revision = NoRevision
    /\ request'[r].status # "ABSENT"
    /\ cycle' = [cycle EXCEPT ![c].state = "INVALIDATED", ![d] = k]
    /\ UNCHANGED revision

DataStep(r) ==
  /\ RowStep(r)
  /\ UNCHANGED <<cycle, revision>> \/ OneCycle(r) \/ ReplacedCycle(r)

\* Cycles hold votes of their approvers, and a revision once completed.
CyclesWellFormed ==
  \A c \in CycleIds :
    cycle[c] # Unused =>
      /\ WellVoted(cycle[c])
      /\ cycle[c].state # "COMPLETED" => cycle[c].revision = NoRevision

\* A vote under way targets lines that its user may approve on its cycle.
VotersEligible ==
  \A w \in Workers :
    tx[w] # Idle /\ tx[w].command = "vote" =>
      /\ cycle[tx[w].cycle] # Unused
      /\ tx[w].targets \subseteq EligibleLines(cycle[tx[w].cycle].approvers,
                                               tx[w].user)

\* A request has no cycle before it is created.
NoCycleBeforeCreation ==
  \A c \in CycleIds :
    cycle[c] # Unused => request[cycle[c].request].status # "ABSENT"

DataInv ==
  TypeInv /\ CyclesWellFormed /\ VotersEligible /\ NoCycleBeforeCreation

LEMMA WrittenRow ==
  ASSUME TypeOK, NEW r \in Requests, NEW row \in Request,
         request' = [request EXCEPT ![r] = row],
         row.status # "ABSENT" \/ row.status = request[r].status
  PROVE  RowStep(r) /\ request'[r] = row
BY DEF RowStep, TypeOK

LEMMA OpensCycle ==
  ASSUME ApprovalAssumption, TypeOK, NEW r \in Requests, NEW c \in FreshCycles,
         NEW version \in Nat, NEW subject \in Subjects, NoActiveCycle(r),
         request'[r].status # "ABSENT", UNCHANGED revision,
         cycle' = [cycle EXCEPT ![c] = OpenedCycle(r, version, subject)]
  PROVE  OneCycle(r)
<1> DEFINE k == OpenedCycle(r, version, subject)
<1>1. k \in Cycle
  BY OpenedCycleType
<1>2. WellVoted(k) /\ NoCompletion(k) /\ k.request = r
  BY DEF OpenedCycle, WellVoted, CastByApprovers, NoCompletion
<1>3. Opens(r, c, k)
  BY <1>2 DEF Opens
<1>4. c \in CycleIds
  BY DEF FreshCycles
<1>5. QED
  <2> HIDE DEF k
  <2> QED BY <1>1, <1>2, <1>3, <1>4 DEF OneCycle, k

LEMMA InvalidatesCycle ==
  ASSUME DataInv, NEW r \in Requests, NEW c, IsActiveCycle(r, c),
         UNCHANGED revision, cycle' = [cycle EXCEPT ![c].state = "INVALIDATED"]
  PROVE  OneCycle(r)
<1> DEFINE k == [cycle[c] EXCEPT !.state = "INVALIDATED"]
<1>1. /\ c \in CycleIds /\ cycle[c] \in Cycle /\ cycle[c] # Unused
      /\ cycle[c].state = "OPEN" /\ cycle[c].request = r
  BY ActiveCycle DEF DataInv, TypeInv
<1>2. k \in Cycle
  BY <1>1 DEF Cycle
<1>3. /\ k.state = "INVALIDATED" /\ k.request = r
      /\ k.submitted = cycle[c].submitted /\ k.subject = cycle[c].subject
      /\ k.approvers = cycle[c].approvers /\ k.votes = cycle[c].votes
      /\ k.revision = cycle[c].revision
  BY <1>1 DEF Cycle
<1>4. WellVoted(cycle[c]) /\ cycle[c].revision = NoRevision
  BY <1>1 DEF DataInv, CyclesWellFormed
<1>5. cycle' = [cycle EXCEPT ![c] = k]
  BY <1>1 DEF DataInv, TypeInv, TypeOK
<1> HIDE DEF k
<1>6. Continues(r, c, k) /\ NoCompletion(k) /\ WellVoted(k)
  BY <1>3, <1>4 DEF Continues, NoCompletion, WellVoted
<1>7. QED
  BY <1>1, <1>2, <1>5, <1>6 DEF OneCycle

\* The request, its row and the version that a commit starts from.
LEMMA CommitStart ==
  ASSUME DataInv, NEW w \in Workers, NEW commands, Finish(w, commands)
  PROVE  /\ tx[w] \in Transaction /\ tx[w] # Idle /\ tx[w].command \in commands
         /\ tx[w].request \in Requests
         /\ tx[w].seen.version \in Nat
         /\ request[tx[w].request] \in Request
         /\ request[tx[w].request].subject \in Subjects
BY RunningTransaction DEF Finish, DataInv, TypeInv, TypeOK, Request

LEMMA SubmitStep ==
  ASSUME ApprovalAssumption, DataInv, NEW w \in Workers, CommitSubmit(w)
  PROVE  DataStep(tx[w].request)
<1> DEFINE r == tx[w].request
           version == tx[w].seen.version
           row(v) == [request[r] EXCEPT !.status = "Soumise", !.version = v]
<1>1. /\ r \in Requests /\ version \in Nat /\ request[r] \in Request
      /\ request[r].subject \in Subjects
  BY CommitStart DEF CommitSubmit
<1>2. ASSUME NEW v \in Nat
      PROVE  row(v) \in Request /\ row(v).status = "Soumise"
  BY <1>1, StatusNames DEF Request
<1>3. TypeOK /\ UNCHANGED revision
  BY DEF CommitSubmit, DataInv, TypeInv
<1>4. CASE NoActiveCycle(r)
  <2>1. PICK c \in FreshCycles :
          /\ cycle' = [cycle EXCEPT ![c] =
                         OpenedCycle(r, version + 1, request[r].subject)]
          /\ request' = [request EXCEPT ![r] = row(version + 2)]
    BY <1>4 DEF CommitSubmit, NoActiveCycle, IsActiveCycle
  <2>2. version + 1 \in Nat /\ version + 2 \in Nat
    BY <1>1
  <2>3. RowStep(r) /\ request'[r].status = "Soumise"
    <3>1. row(version + 2) \in Request /\ row(version + 2).status = "Soumise"
      BY <1>2, <2>2
    <3> HIDE DEF row, r
    <3>2. QED
      BY <1>1, <1>3, <2>1, <3>1, WrittenRow
  <2>4. OneCycle(r)
    BY <1>1, <1>3, <1>4, <2>1, <2>2, <2>3, OpensCycle
  <2>5. QED
    BY <2>3, <2>4 DEF DataStep
<1>5. CASE ~NoActiveCycle(r)
  <2>1. request' = [request EXCEPT ![r] = row(version + 1)] /\ UNCHANGED cycle
    BY <1>5 DEF CommitSubmit
  <2>2. version + 1 \in Nat
    BY <1>1
  <2>3. RowStep(r)
    <3> HIDE DEF row
    <3> QED BY <1>1, <1>2, <1>3, <2>1, <2>2, WrittenRow
  <2>4. QED
    BY <1>3, <2>1, <2>3 DEF DataStep
<1>6. QED
  BY <1>4, <1>5

LEMMA CorrectionStep ==
  ASSUME ApprovalAssumption, DataInv, NEW w \in Workers, CommitCorrection(w)
  PROVE  DataStep(tx[w].request)
<1> DEFINE r == tx[w].request
           version == tx[w].seen.version
           row(v) == [request[r] EXCEPT !.status = "A corriger", !.version = v]
<1>1. r \in Requests /\ version \in Nat /\ request[r] \in Request
  BY CommitStart DEF CommitCorrection
<1>2. TypeOK /\ UNCHANGED revision
  BY DEF CommitCorrection, DataInv, TypeInv
<1>3. PICK v \in {version + 1, version + 2} :
        request' = [request EXCEPT ![r] = row(v)]
  BY DEF CommitCorrection
<1>4. row(v) \in Request /\ row(v).status = "A corriger"
  <2>1. v \in Nat
    BY <1>1
  <2>2. QED
    BY <1>1, <2>1, StatusNames DEF Request
<1>5. RowStep(r)
  <2> HIDE DEF row, r
  <2> QED BY <1>1, <1>2, <1>3, <1>4, WrittenRow
<1>6. UNCHANGED cycle
      \/ \E c \in CycleIds :
           /\ IsActiveCycle(r, c)
           /\ cycle' = [cycle EXCEPT ![c].state = "INVALIDATED"]
  BY DEF CommitCorrection
<1>7. UNCHANGED cycle \/ OneCycle(r)
  BY <1>1, <1>2, <1>6, InvalidatesCycle
<1>8. QED
  BY <1>2, <1>5, <1>7 DEF DataStep

LEMMA ModifyDraftStep ==
  ASSUME ApprovalAssumption, DataInv, NEW w \in Workers, CommitModifyDraft(w)
  PROVE  DataStep(tx[w].request)
<1> DEFINE r == tx[w].request
           version == tx[w].seen.version
<1>1. r \in Requests /\ version \in Nat /\ request[r] \in Request
  BY CommitStart DEF CommitModifyDraft, Writes
<1>2. TypeOK /\ UNCHANGED <<cycle, revision>>
  BY DEF CommitModifyDraft, DataInv, TypeInv
<1>3. PICK subject \in Subjects :
        request' = [request EXCEPT ![r] =
                      [request[r] EXCEPT !.subject = subject,
                                         !.version = version + 1]]
  BY DEF CommitModifyDraft
<1> DEFINE row == [request[r] EXCEPT !.subject = subject,
                                     !.version = version + 1]
<1>4. row \in Request /\ row.status = request[r].status
  <2>1. version + 1 \in Nat
    BY <1>1
  <2> HIDE DEF version
  <2>2. QED
    BY <1>1, <2>1 DEF Request
<1>5. RowStep(r)
  <2> HIDE DEF row, r
  <2> QED BY <1>1, <1>2, <1>3, <1>4, WrittenRow DEF row
<1>6. QED
  BY <1>2, <1>5 DEF DataStep

\* The refresh of a submission replaces its OPEN cycle.
LEMMA RefreshesCycle ==
  ASSUME ApprovalAssumption, DataInv, NEW r \in Requests, NEW version \in Nat,
         NEW subject \in Subjects, RefreshCycle(r, version, subject),
         request'[r].status # "ABSENT", UNCHANGED revision
  PROVE  ReplacedCycle(r)
<1>1. PICK c \in CycleIds, d \in FreshCycles :
        /\ IsActiveCycle(r, c)
        /\ cycle' = [cycle EXCEPT ![c].state = "INVALIDATED",
                                  ![d] = OpenedCycle(r, version, subject)]
  BY DEF RefreshCycle
<1> DEFINE k == OpenedCycle(r, version, subject)
<1>2. k \in Cycle
  BY OpenedCycleType DEF DataInv, TypeInv
<1>3. WellVoted(k) /\ k.revision = NoRevision /\ k.request = r
      /\ k.state = "OPEN"
  BY DEF OpenedCycle, WellVoted, CastByApprovers
<1>4. QED
  <2> HIDE DEF k
  <2> QED BY <1>1, <1>2, <1>3 DEF ReplacedCycle, k

LEMMA ModifySubmittedStep ==
  ASSUME ApprovalAssumption, DataInv, NEW w \in Workers,
         CommitModifySubmitted(w)
  PROVE  DataStep(tx[w].request)
<1> DEFINE r == tx[w].request
           version == tx[w].seen.version + 1
<1>1. /\ r \in Requests /\ version \in Nat /\ version + 1 \in Nat
      /\ request[r] \in Request
  BY CommitStart DEF CommitModifySubmitted, Writes
<1>2. TypeOK /\ UNCHANGED revision
  BY DEF CommitModifySubmitted, DataInv, TypeInv
<1>3. PICK subject \in Subjects, v \in {version, version + 2} :
        /\ request' = [request EXCEPT ![r] =
                         [request[r] EXCEPT !.subject = subject,
                                            !.version = v]]
        /\ UNCHANGED cycle \/ RefreshCycle(r, version + 1, subject)
  BY DEF CommitModifySubmitted
<1> DEFINE row == [request[r] EXCEPT !.subject = subject, !.version = v]
<1>4. row \in Request /\ row.status = request[r].status
  <2>1. v \in Nat
    BY <1>1
  <2>2. QED
    BY <1>1, <2>1 DEF Request
<1>5. RowStep(r) /\ request'[r].status = request[r].status
  <2> HIDE DEF row, r
  <2> QED BY <1>1, <1>2, <1>3, <1>4, WrittenRow DEF row
<1>6. UNCHANGED cycle \/ ReplacedCycle(r)
  <2>1. CASE RefreshCycle(r, version + 1, subject)
    <3>1. request'[r].status # "ABSENT"
      BY <1>5, <2>1 DEF RefreshCycle
    <3> HIDE DEF r, version
    <3>2. QED
      BY <1>1, <1>2, <2>1, <3>1, RefreshesCycle
  <2>2. QED
    BY <1>3, <2>1
<1>7. QED
  BY <1>2, <1>5, <1>6 DEF DataStep

LEMMA SelectStep ==
  ASSUME ApprovalAssumption, DataInv, NEW w \in Workers, CommitSelect(w)
  PROVE  DataStep(tx[w].request)
<1> DEFINE r == tx[w].request
           version == tx[w].seen.version
           row == [request[r] EXCEPT !.version = version + 2]
<1>1. /\ r \in Requests /\ version \in Nat /\ request[r] \in Request
      /\ request[r].subject \in Subjects
  BY CommitStart DEF CommitSelect
<1>2. /\ TypeOK /\ UNCHANGED revision
      /\ RefreshCycle(r, version + 1, request[r].subject)
      /\ request' = [request EXCEPT ![r] = row]
  BY DEF CommitSelect, DataInv, TypeInv
<1>3. row \in Request /\ row.status = request[r].status
  BY <1>1 DEF Request
<1>4. RowStep(r) /\ request'[r].status = request[r].status
  <2> HIDE DEF row, r
  <2> QED BY <1>1, <1>2, <1>3, WrittenRow
<1>5. request'[r].status # "ABSENT" /\ version + 1 \in Nat
  BY <1>1, <1>2, <1>4 DEF RefreshCycle
<1>6. ReplacedCycle(r)
  <2> HIDE DEF r, version
  <2> QED BY <1>1, <1>2, <1>5, RefreshesCycle
<1>7. QED
  BY <1>4, <1>6 DEF DataStep

LEMMA ContactStep ==
  ASSUME ApprovalAssumption, DataInv, NEW w \in Workers, CommitContact(w)
  PROVE  DataStep(tx[w].request)
<1> DEFINE r == tx[w].request
           version == tx[w].seen.version + 1
           asked(v) == [request[r] EXCEPT !.status = "Soumise", !.version = v]
           kept == [request[r] EXCEPT !.version = version]
<1>1. /\ r \in Requests /\ version \in Nat /\ version + 1 \in Nat
      /\ request[r] \in Request /\ request[r].subject \in Subjects
  <2>1. Finish(w, {"contact"})
    BY DEF CommitContact
  <2>2. QED
    BY <2>1, CommitStart
<1>2. TypeOK /\ UNCHANGED revision
  BY DEF CommitContact, DataInv, TypeInv
<1>3. ASSUME NEW v \in Nat
      PROVE  asked(v) \in Request /\ asked(v).status = "Soumise"
  BY <1>1, StatusNames DEF Request
<1>4. kept \in Request /\ kept.status = request[r].status
  <2> HIDE DEF version
  <2> QED BY <1>1 DEF Request
<1>5. \/ request' = [request EXCEPT ![r] = kept] /\ UNCHANGED cycle
      \/ request' = [request EXCEPT ![r] = asked(version)] /\ UNCHANGED cycle
      \/ /\ NoActiveCycle(r)
         /\ request' = [request EXCEPT ![r] = asked(version + 1)]
         /\ \E c \in FreshCycles :
              cycle' = [cycle EXCEPT
                          ![c] = OpenedCycle(r, version, request[r].subject)]
  BY DEF CommitContact
<1>6. CASE request' = [request EXCEPT ![r] = kept] /\ UNCHANGED cycle
  <2>1. RowStep(r)
    <3> HIDE DEF kept, r
    <3> QED BY <1>1, <1>2, <1>4, <1>6, WrittenRow
  <2>2. QED
    BY <1>2, <1>6, <2>1 DEF DataStep
<1>7. CASE request' = [request EXCEPT ![r] = asked(version)] /\ UNCHANGED cycle
  <2>1. asked(version) \in Request /\ asked(version).status = "Soumise"
    BY <1>1, <1>3
  <2>2. RowStep(r)
    <3> HIDE DEF asked, r
    <3> QED BY <1>1, <1>2, <1>7, <2>1, WrittenRow
  <2>3. QED
    BY <1>2, <1>7, <2>2 DEF DataStep
<1>8. CASE /\ NoActiveCycle(r)
           /\ request' = [request EXCEPT ![r] = asked(version + 1)]
           /\ \E c \in FreshCycles :
                cycle' = [cycle EXCEPT
                            ![c] = OpenedCycle(r, version, request[r].subject)]
  <2>1. /\ asked(version + 1) \in Request
        /\ asked(version + 1).status = "Soumise"
    BY <1>1, <1>3
  <2>2. RowStep(r) /\ request'[r].status = "Soumise"
    <3> HIDE DEF asked, r, version
    <3> QED BY <1>1, <1>2, <1>8, <2>1, WrittenRow
  <2>3. OneCycle(r)
    <3> HIDE DEF r, version
    <3> QED BY <1>1, <1>2, <1>8, <2>2, OpensCycle
  <2>4. QED
    BY <2>2, <2>3 DEF DataStep
<1>9. QED
  BY <1>5, <1>6, <1>7, <1>8

\* An OPEN cycle that continues under a command: its votes grow, and it stays
\* OPEN or completes.
LEMMA ContinuesCycle ==
  ASSUME DataInv, NEW r \in Requests, NEW c, IsActiveCycle(r, c),
         NEW k \in Cycle, k.request = r, k.submitted = cycle[c].submitted,
         k.subject = cycle[c].subject, k.approvers = cycle[c].approvers,
         cycle[c].votes \subseteq k.votes, WellVoted(k),
         (k.state = "COMPLETED" /\ Completion(k)) \/ NoCompletion(k),
         cycle' = [cycle EXCEPT ![c] = k]
  PROVE  OneCycle(r)
<1>1. c \in CycleIds
  BY ActiveCycle DEF DataInv, TypeInv
<1>2. QED
  BY <1>1 DEF OneCycle, Continues

LEMMA StaleVoteStep ==
  ASSUME ApprovalAssumption, DataInv, NEW w \in Workers, CommitStaleVote(w)
  PROVE  DataStep(tx[w].request)
<1> DEFINE r == tx[w].request
           version == tx[w].seen.version + 1
           row == [request[r] EXCEPT !.version = version]
<1>1. r \in Requests /\ version \in Nat /\ request[r] \in Request
  BY CommitStart DEF CommitStaleVote
<1>2. /\ TypeOK /\ UNCHANGED revision
      /\ IsActiveCycle(r, tx[w].cycle)
      /\ request' = [request EXCEPT ![r] = row]
      /\ cycle' = [cycle EXCEPT ![tx[w].cycle].state = "INVALIDATED"]
  BY DEF CommitStaleVote, DataInv, TypeInv
<1>3. row \in Request /\ row.status = request[r].status
  <2> HIDE DEF version
  <2> QED BY <1>1 DEF Request
<1>4. RowStep(r)
  <2> HIDE DEF row, r
  <2> QED BY <1>1, <1>2, <1>3, WrittenRow
<1>5. OneCycle(r)
  BY <1>1, <1>2, InvalidatesCycle
<1>6. QED
  BY <1>4, <1>5 DEF DataStep

\* The votes of a transaction are votes of approvers of its cycle.
LEMMA EligibleVotes ==
  ASSUME DataInv, NEW w \in Workers, Finish(w, {"vote"}),
         IsActiveCycle(tx[w].request, tx[w].cycle)
  PROVE  LET c == cycle[tx[w].cycle]
             votes == VotesAfter(tx[w])
         IN  /\ c \in Cycle /\ c.request = tx[w].request
             /\ c.revision = NoRevision
             /\ votes \subseteq Lines \X Users
             /\ c.votes \subseteq votes
             /\ CastByApprovers(votes, c.approvers)
<1> DEFINE c == cycle[tx[w].cycle]
           votes == VotesAfter(tx[w])
<1>1. tx[w] # Idle /\ tx[w].command = "vote"
  BY DEF Finish
<1>2. /\ tx[w].cycle \in CycleIds /\ c # Unused /\ c \in Cycle
      /\ c.state = "OPEN" /\ c.request = tx[w].request
  BY ActiveCycle DEF DataInv, TypeInv
<1>3. WellVoted(c) /\ c.revision = NoRevision
  BY <1>2 DEF DataInv, CyclesWellFormed
<1>4. votes \subseteq Lines \X Users
  BY <1>1, <1>2, VotesAfterType DEF DataInv
<1>5. \A line \in tx[w].targets : tx[w].user \in c.approvers[line]
  BY <1>1 DEF DataInv, VotersEligible, EligibleLines
<1>6. CastByApprovers(votes, c.approvers)
  BY <1>3, <1>5 DEF VotesAfter, WellVoted, CastByApprovers
<1>7. QED
  BY <1>2, <1>3, <1>4, <1>6 DEF VotesAfter

LEMMA PartialVoteStep ==
  ASSUME ApprovalAssumption, DataInv, NEW w \in Workers, CommitPartialVote(w)
  PROVE  DataStep(tx[w].request)
<1> DEFINE r == tx[w].request
           version == tx[w].seen.version + 1
           row == [request[r] EXCEPT !.version = version]
           votes == VotesAfter(tx[w])
           k == [cycle[tx[w].cycle] EXCEPT !.votes = votes]
<1>1. r \in Requests /\ version \in Nat /\ request[r] \in Request
  BY CommitStart DEF CommitPartialVote
<1>2. /\ TypeOK /\ UNCHANGED revision
      /\ IsActiveCycle(r, tx[w].cycle)
      /\ request' = [request EXCEPT ![r] = row]
      /\ cycle' = [cycle EXCEPT ![tx[w].cycle].votes = votes]
      /\ Finish(w, {"vote"})
  BY DEF CommitPartialVote, VoteHolds, DataInv, TypeInv
<1>3. row \in Request /\ row.status = request[r].status
  <2> HIDE DEF version
  <2> QED BY <1>1 DEF Request
<1>4. RowStep(r)
  <2> HIDE DEF row, r
  <2> QED BY <1>1, <1>2, <1>3, WrittenRow
<1>5. /\ cycle[tx[w].cycle] \in Cycle /\ cycle[tx[w].cycle].request = r
      /\ cycle[tx[w].cycle].revision = NoRevision
      /\ votes \subseteq Lines \X Users /\ cycle[tx[w].cycle].votes \subseteq votes
      /\ CastByApprovers(votes, cycle[tx[w].cycle].approvers)
  BY <1>2, EligibleVotes
<1>6. cycle[tx[w].cycle].state = "OPEN" /\ tx[w].cycle \in CycleIds
  BY <1>2, ActiveCycle
<1>7. /\ k \in Cycle /\ k.request = r /\ k.votes = votes
      /\ k.state = "OPEN" /\ k.revision = NoRevision
      /\ k.submitted = cycle[tx[w].cycle].submitted
      /\ k.subject = cycle[tx[w].cycle].subject
      /\ k.approvers = cycle[tx[w].cycle].approvers
  <2> HIDE DEF votes
  <2> QED BY <1>5, <1>6 DEF Cycle
<1>8. WellVoted(k) /\ NoCompletion(k)
  <2> HIDE DEF k, votes
  <2> QED BY <1>2, <1>5, <1>7 DEF WellVoted, NoCompletion
<1>9. cycle' = [cycle EXCEPT ![tx[w].cycle] = k]
  BY <1>2, <1>6 DEF TypeOK
<1>10. OneCycle(r)
  <2> HIDE DEF k, votes, r
  <2> QED BY <1>1, <1>2, <1>5, <1>7, <1>8, <1>9, ContinuesCycle
<1>11. QED
  BY <1>4, <1>10 DEF DataStep

LEMMA ApprovedType ==
  ASSUME NEW row \in Request, NEW version \in Nat, NEW v \in RevisionIds,
         NEW decisions \in Decisions
  PROVE  /\ Approved(row, version, v, decisions) \in Request
         /\ Approved(row, version, v, decisions).status = "En planification"
BY StatusNames DEF Approved, Request

\* The cycle that a complete quorum closes, with the revision it captures.
LEMMA CompletesCycle ==
  ASSUME NEW k \in Cycle, k.state = "OPEN", NEW votes,
         votes \subseteq Lines \X Users,
         CastByApprovers(votes, k.approvers),
         QuorumComplete(k.approvers, votes), NEW v \in FreshRevisions,
         Captures(v, k)
  PROVE  LET d == CompletedCycle(k, votes, v)
         IN  /\ d \in Cycle /\ d.state = "COMPLETED" /\ d.request = k.request
             /\ d.submitted = k.submitted /\ d.subject = k.subject
             /\ d.approvers = k.approvers /\ d.votes = votes
             /\ WellVoted(d) /\ Completion(d)
<1> DEFINE d == CompletedCycle(k, votes, v)
<1>1. v \in RevisionIds
  BY DEF FreshRevisions
<1>2. /\ d \in Cycle /\ d.state = "COMPLETED" /\ d.request = k.request
      /\ d.submitted = k.submitted /\ d.subject = k.subject
      /\ d.approvers = k.approvers /\ d.votes = votes /\ d.revision = v
  BY <1>1 DEF CompletedCycle, Cycle
<1>3. Captures(v, d)
  <2>1. ASSUME NEW previous
        PROVE  CapturedRevision(k.request, previous, k)
                 = CapturedRevision(d.request, previous, d)
    BY <1>2 DEF CapturedRevision
  <2> HIDE DEF d
  <2>2. QED
    BY <2>1 DEF Captures
<1>4. WellVoted(d) /\ Completion(d)
  <2> HIDE DEF d
  <2> QED BY <1>2, <1>3 DEF WellVoted, Completion
<1>5. QED
  BY <1>2, <1>4

LEMMA FinalVoteStep ==
  ASSUME ApprovalAssumption, DataInv, NEW w \in Workers, CommitFinalVote(w)
  PROVE  DataStep(tx[w].request)
<1> DEFINE r == tx[w].request
           version == tx[w].seen.version + 1
           c == cycle[tx[w].cycle]
           votes == VotesAfter(tx[w])
<1>1. /\ r \in Requests /\ version \in Nat /\ request[r] \in Request
      /\ request[r].active \in RevisionIds \cup {NoRevision}
  BY CommitStart DEF CommitFinalVote, Request
<1>2. PICK v \in FreshRevisions, decisions \in Rebuilt(request[r].decisions) :
        /\ request' = [request EXCEPT ![r] =
                         Approved(request[r], version, v, decisions)]
        /\ cycle' = [cycle EXCEPT ![tx[w].cycle] = CompletedCycle(c, votes, v)]
        /\ revision' = [revision EXCEPT ![v] =
                          CapturedRevision(r, request[r].active, c)]
  BY DEF CommitFinalVote
<1>3. /\ TypeOK /\ IsActiveCycle(r, tx[w].cycle) /\ Finish(w, {"vote"})
      /\ QuorumComplete(c.approvers, votes)
  BY DEF CommitFinalVote, VoteHolds, DataInv, TypeInv
<1>4. v \in RevisionIds /\ decisions \in Decisions
  BY RebuiltDecisions DEF FreshRevisions
<1>5. RowStep(r)
  <2> DEFINE row == Approved(request[r], version, v, decisions)
  <2>1. row \in Request /\ row.status = "En planification"
    BY <1>1, <1>4, ApprovedType
  <2>2. request' = [request EXCEPT ![r] = row]
    BY <1>2
  <2> HIDE DEF row, r
  <2>3. QED
    BY <1>1, <1>3, <2>1, <2>2, WrittenRow
<1>6. /\ c \in Cycle /\ c.request = r /\ votes \subseteq Lines \X Users
      /\ c.votes \subseteq votes
      /\ CastByApprovers(votes, c.approvers)
  BY <1>3, EligibleVotes
<1>7. c.state = "OPEN"
  BY <1>3, ActiveCycle
<1> DEFINE d == CompletedCycle(c, votes, v)
<1>8. /\ d \in Cycle /\ d.state = "COMPLETED" /\ d.request = r
      /\ d.submitted = c.submitted /\ d.subject = c.subject
      /\ d.approvers = c.approvers /\ d.votes = votes
      /\ WellVoted(d) /\ Completion(d)
  <2>1. Captures(v, c)
    BY <1>1, <1>2, <1>6 DEF Captures
  <2> HIDE DEF votes, c, r
  <2>2. QED
    BY <1>1, <1>3, <1>6, <1>7, <2>1, CompletesCycle DEF d
<1>9. OneCycle(r)
  <2>1. cycle' = [cycle EXCEPT ![tx[w].cycle] = d]
    BY <1>2
  <2> HIDE DEF d, votes, r
  <2>2. QED
    BY <1>1, <1>3, <1>6, <1>8, <2>1, ContinuesCycle
<1>10. QED
  BY <1>5, <1>9 DEF DataStep

LEMMA ModifyWithinStep ==
  ASSUME ApprovalAssumption, DataInv, NEW w \in Workers, CommitModifyWithin(w)
  PROVE  DataStep(tx[w].request)
<1> DEFINE r == tx[w].request
           version == tx[w].seen.version + 1
<1>1. /\ r \in Requests /\ version \in Nat /\ request[r] \in Request
      /\ request[r].active \in RevisionIds \cup {NoRevision}
  <2>1. Finish(w, {"modify", "replace"})
    BY DEF CommitModifyWithin, BeginsApproved, Writes
  <2>2. QED
    BY <2>1, CommitStart DEF Request
<1>2. PICK subject \in Subjects, decisions \in Decisions :
        \/ request' = [request EXCEPT ![r] =
                         [request[r] EXCEPT !.subject = subject,
                                            !.version = version]]
        \/ request' = [request EXCEPT ![r] =
                         [request[r] EXCEPT !.subject = subject,
                                            !.version = version,
                                            !.plan = request[r].active,
                                            !.decisions = decisions]]
  BY RebuiltDecisions, StatusNames DEF CommitModifyWithin
<1>3. PICK row \in {[request[r] EXCEPT !.subject = subject,
                                       !.version = version],
                    [request[r] EXCEPT !.subject = subject,
                                       !.version = version,
                                       !.plan = request[r].active,
                                       !.decisions = decisions]} :
        request' = [request EXCEPT ![r] = row]
  BY <1>2
<1>4. row \in Request /\ row.status = request[r].status
  <2> HIDE DEF version
  <2> QED BY <1>1, <1>3 DEF Request
<1>5. TypeOK /\ UNCHANGED <<cycle, revision>>
  BY DEF CommitModifyWithin, DataInv, TypeInv
<1>6. RowStep(r)
  <2> HIDE DEF r
  <2> QED BY <1>1, <1>3, <1>4, <1>5, WrittenRow
<1>7. QED
  BY <1>5, <1>6 DEF DataStep

\* The cycle that a reapproval votes on is new, or the OPEN one as it is.
LEMMA EnsuredCycle ==
  ASSUME ApprovalAssumption, DataInv, NEW r \in Requests,
         NEW version \in Nat, NEW subject \in Subjects,
         NEW e \in EnsuredCycles(r, version, subject)
  PROVE  /\ WellVoted(e.cycle) /\ e.cycle.revision = NoRevision
         /\ \/ /\ NoActiveCycle(r) /\ e.id \in FreshCycles
               /\ e.cycle.subject = subject
            \/ IsActiveCycle(r, e.id) /\ e.cycle = cycle[e.id]
<1>1. CASE NoActiveCycle(r)
  <2>1. PICK c \in FreshCycles :
          e = [id |-> c, cycle |-> OpenedCycle(r, version, subject),
               version |-> version + 1]
    BY <1>1 DEF EnsuredCycles
  <2>2. QED
    BY <1>1, <2>1 DEF OpenedCycle, WellVoted, CastByApprovers
<1>2. CASE ~NoActiveCycle(r)
  <2>1. PICK c \in {d \in CycleIds : IsActiveCycle(r, d)} :
          e = [id |-> c, cycle |-> cycle[c], version |-> version]
    BY <1>2 DEF EnsuredCycles
  <2>2. cycle[c] # Unused /\ cycle[c].state = "OPEN"
    BY <2>1, ActiveCycle DEF DataInv, TypeInv
  <2>3. WellVoted(cycle[c]) /\ cycle[c].revision = NoRevision
    BY <2>1, <2>2 DEF DataInv, CyclesWellFormed
  <2>4. QED
    BY <2>1, <2>3
<1>3. QED
  BY <1>1, <1>2

\* What a reapproval makes of its cycle is one step of that cycle.
LEMMA EnsuredStep ==
  ASSUME ApprovalAssumption, DataInv, NEW r \in Requests,
         NEW version \in Nat, NEW subject \in Subjects,
         NEW e \in EnsuredCycles(r, version, subject),
         NEW k \in Cycle, k.request = r, k.submitted = e.cycle.submitted,
         k.subject = e.cycle.subject, k.approvers = e.cycle.approvers,
         e.cycle.votes \subseteq k.votes, WellVoted(k),
         (k.state = "COMPLETED" /\ Completion(k)) \/ NoCompletion(k),
         cycle' = [cycle EXCEPT ![e.id] = k],
         request'[r].status # "ABSENT"
  PROVE  OneCycle(r)
<1>1. e.id \in CycleIds
  BY EnsuredCycleType DEF DataInv, TypeInv
<1>2. CASE NoActiveCycle(r) /\ e.id \in FreshCycles
  BY <1>1, <1>2 DEF OneCycle, Opens
<1>3. CASE IsActiveCycle(r, e.id) /\ e.cycle = cycle[e.id]
  BY <1>1, <1>3 DEF OneCycle, Continues
<1>4. QED
  BY <1>2, <1>3, EnsuredCycle

LEMMA ReapprovalStep ==
  ASSUME ApprovalAssumption, DataInv, NEW w \in Workers, CommitReapproval(w)
  PROVE  DataStep(tx[w].request)
<1> DEFINE r == tx[w].request
           version == tx[w].seen.version + 1
<1>1. r \in Requests /\ version \in Nat /\ request[r] \in Request
  <2>1. Finish(w, {"modify", "replace"})
    BY DEF CommitReapproval, BeginsApproved, Writes
  <2>2. QED
    BY <2>1, CommitStart
<1>2. PICK subject \in Subjects, approver \in BOOLEAN :
        \E e \in EnsuredCycles(r, version, subject) :
          /\ request' = [request EXCEPT ![r] =
                           [request[r] EXCEPT !.status = "Soumise",
                                              !.subject = subject,
                                              !.version = e.version]]
          /\ cycle' = [cycle EXCEPT ![e.id] = e.cycle]
  BY DEF CommitReapproval
<1>3. PICK e \in EnsuredCycles(r, version, subject) :
        /\ request' = [request EXCEPT ![r] =
                         [request[r] EXCEPT !.status = "Soumise",
                                            !.subject = subject,
                                            !.version = e.version]]
        /\ cycle' = [cycle EXCEPT ![e.id] = e.cycle]
  BY <1>2
<1>4. TypeOK /\ UNCHANGED revision
  BY DEF CommitReapproval, DataInv, TypeInv
<1>5. /\ e.version \in Nat /\ e.cycle \in Cycle
      /\ e.cycle.request = r /\ e.cycle.state = "OPEN"
  BY <1>1, <1>4, EnsuredCycleType
<1> DEFINE row == [request[r] EXCEPT !.status = "Soumise",
                                     !.subject = subject,
                                     !.version = e.version]
<1>6. row \in Request /\ row.status = "Soumise"
  BY <1>1, <1>5, StatusNames DEF Request
<1>7. RowStep(r) /\ request'[r].status = "Soumise"
  <2> HIDE DEF row, r
  <2> QED BY <1>1, <1>3, <1>4, <1>6, WrittenRow DEF row
<1>8. WellVoted(e.cycle) /\ NoCompletion(e.cycle)
  BY <1>1, <1>4, <1>5, EnsuredCycle DEF NoCompletion
<1>9. OneCycle(r)
  <2> HIDE DEF r, version
  <2> QED BY <1>1, <1>3, <1>5, <1>7, <1>8, EnsuredStep
<1>10. QED
  BY <1>7, <1>9 DEF DataStep

\* The row of a direct approval, and the votes it casts.
LEMMA DirectTypes ==
  ASSUME ApprovalAssumption, DataInv, NEW r \in Requests,
         NEW version \in Nat, NEW subject \in Subjects, NEW user \in Users,
         NEW e \in EnsuredCycles(r, version, subject)
  PROVE  /\ DirectRow(r, e, subject) \in Request
         /\ DirectRow(r, e, subject).status = "Soumise"
         /\ DirectVotes(e, user) \subseteq Lines \X Users
         /\ e.cycle.votes \subseteq DirectVotes(e, user)
         /\ CastByApprovers(DirectVotes(e, user), e.cycle.approvers)
         /\ e.cycle \in Cycle /\ e.cycle.state = "OPEN"
         /\ e.cycle.request = r /\ e.cycle.revision = NoRevision
         /\ e.version + 1 \in Nat
<1>1. /\ e.version \in Nat /\ e.cycle \in Cycle
      /\ e.cycle.request = r /\ e.cycle.state = "OPEN"
  BY EnsuredCycleType DEF DataInv, TypeInv
<1>2. WellVoted(e.cycle) /\ e.cycle.revision = NoRevision
  BY EnsuredCycle
<1>3. e.version + 1 \in Nat /\ request[r] \in Request
  BY <1>1 DEF DataInv, TypeInv, TypeOK
<1>4. /\ DirectRow(r, e, subject) \in Request
      /\ DirectRow(r, e, subject).status = "Soumise"
  BY <1>3, StatusNames DEF DirectRow, Request
<1>5. /\ DirectVotes(e, user) \subseteq Lines \X Users
      /\ e.cycle.votes \subseteq DirectVotes(e, user)
      /\ CastByApprovers(DirectVotes(e, user), e.cycle.approvers)
  BY <1>1, <1>2
     DEF DirectVotes, EligibleLines, Cycle, WellVoted, CastByApprovers
<1>6. QED
  BY <1>1, <1>2, <1>3, <1>4, <1>5

LEMMA DirectRowStep ==
  ASSUME ApprovalAssumption, DataInv, NEW r \in Requests,
         NEW version \in Nat, NEW subject \in Subjects, NEW user \in Users,
         NEW e \in EnsuredCycles(r, version, subject),
         request' = [request EXCEPT ![r] = DirectRow(r, e, subject)]
  PROVE  RowStep(r) /\ request'[r].status = "Soumise"
<1>1. /\ DirectRow(r, e, subject) \in Request
      /\ DirectRow(r, e, subject).status = "Soumise"
  BY DirectTypes
<1>2. TypeOK
  BY DEF DataInv, TypeInv
<1>3. QED
  BY <1>1, <1>2, WrittenRow

LEMMA DirectlyInvalidatesStep ==
  ASSUME ApprovalAssumption, DataInv, NEW r \in Requests,
         NEW version \in Nat, NEW subject \in Subjects, NEW user \in Users,
         NEW e \in EnsuredCycles(r, version, subject),
         DirectlyInvalidates(r, e, subject)
  PROVE  DataStep(r)
<1>1. IsActiveCycle(r, e.id)
  BY EnsuredCycle DEF DirectlyInvalidates
<1>2. OneCycle(r)
  BY <1>1, InvalidatesCycle DEF DirectlyInvalidates
<1>3. QED
  BY <1>2, DirectRowStep DEF DirectlyInvalidates, DataStep

LEMMA DirectlyVotesStep ==
  ASSUME ApprovalAssumption, DataInv, NEW r \in Requests,
         NEW version \in Nat, NEW subject \in Subjects, NEW user \in Users,
         NEW e \in EnsuredCycles(r, version, subject),
         DirectlyVotes(r, e, subject, user)
  PROVE  DataStep(r)
<1> DEFINE k == [e.cycle EXCEPT !.votes = DirectVotes(e, user)]
<1>1. /\ e.cycle \in Cycle /\ e.cycle.request = r /\ e.cycle.state = "OPEN"
      /\ e.cycle.revision = NoRevision
      /\ DirectVotes(e, user) \subseteq Lines \X Users
      /\ e.cycle.votes \subseteq DirectVotes(e, user)
      /\ CastByApprovers(DirectVotes(e, user), e.cycle.approvers)
  BY DirectTypes
<1>2. /\ k \in Cycle /\ k.request = r /\ k.votes = DirectVotes(e, user)
      /\ k.state = "OPEN" /\ k.revision = NoRevision
      /\ k.submitted = e.cycle.submitted /\ k.subject = e.cycle.subject
      /\ k.approvers = e.cycle.approvers
  BY <1>1 DEF Cycle
<1>3. cycle' = [cycle EXCEPT ![e.id] = k] /\ UNCHANGED revision
  BY DEF DirectlyVotes
<1> HIDE DEF k
<1>4. WellVoted(k) /\ NoCompletion(k)
  BY <1>1, <1>2, <1>3 DEF WellVoted, NoCompletion
<1>5. RowStep(r) /\ request'[r].status = "Soumise"
  BY DirectRowStep DEF DirectlyVotes
<1>6. OneCycle(r)
  BY <1>1, <1>2, <1>3, <1>4, <1>5, EnsuredStep
<1>7. QED
  BY <1>5, <1>6 DEF DataStep

LEMMA DirectlyApprovesStep ==
  ASSUME ApprovalAssumption, DataInv, NEW r \in Requests,
         NEW version \in Nat, NEW subject \in Subjects, NEW user \in Users,
         NEW e \in EnsuredCycles(r, version, subject),
         DirectlyApproves(r, e, subject, user)
  PROVE  DataStep(r)
<1>1. PICK v \in FreshRevisions, decisions \in Rebuilt(request[r].decisions) :
        /\ request' = [request EXCEPT ![r] =
                         Approved(DirectRow(r, e, subject), e.version + 1, v,
                                  decisions)]
        /\ cycle' = [cycle EXCEPT ![e.id] =
                       CompletedCycle(e.cycle, DirectVotes(e, user), v)]
        /\ revision' = [revision EXCEPT ![v] =
                          CapturedRevision(r, request[r].active, e.cycle)]
  BY DEF DirectlyApproves
<1>2. /\ e.cycle \in Cycle /\ e.cycle.request = r /\ e.cycle.state = "OPEN"
      /\ DirectVotes(e, user) \subseteq Lines \X Users
      /\ e.cycle.votes \subseteq DirectVotes(e, user)
      /\ CastByApprovers(DirectVotes(e, user), e.cycle.approvers)
      /\ DirectRow(r, e, subject) \in Request /\ e.version + 1 \in Nat
  BY DirectTypes
<1> DEFINE row == Approved(DirectRow(r, e, subject), e.version + 1, v,
                           decisions)
           k == CompletedCycle(e.cycle, DirectVotes(e, user), v)
<1>3. row \in Request /\ row.status = "En planification"
  <2>1. v \in RevisionIds /\ decisions \in Decisions
    BY RebuiltDecisions DEF FreshRevisions
  <2>2. QED
    BY <1>2, <2>1, ApprovedType
<1>4. RowStep(r) /\ request'[r].status = "En planification"
  <2>1. request' = [request EXCEPT ![r] = row]
    BY <1>1
  <2> HIDE DEF row
  <2>2. QED
    BY <1>3, <2>1, WrittenRow DEF DataInv, TypeInv
<1>5. Captures(v, e.cycle)
  <2>1. request[r].active \in RevisionIds \cup {NoRevision}
    BY DEF DataInv, TypeInv, TypeOK, Request
  <2>2. QED
    BY <1>1, <1>2, <2>1 DEF Captures
<1>6. /\ k \in Cycle /\ k.state = "COMPLETED" /\ k.request = r
      /\ k.submitted = e.cycle.submitted /\ k.subject = e.cycle.subject
      /\ k.approvers = e.cycle.approvers /\ k.votes = DirectVotes(e, user)
      /\ WellVoted(k) /\ Completion(k)
  <2>1. QuorumComplete(e.cycle.approvers, DirectVotes(e, user))
    BY DEF DirectlyApproves
  <2>2. QED
    BY <1>2, <1>5, <2>1, CompletesCycle
<1>7. OneCycle(r)
  <2>1. cycle' = [cycle EXCEPT ![e.id] = k]
    BY <1>1
  <2> HIDE DEF k
  <2>2. QED
    BY <1>2, <1>4, <1>6, <2>1, EnsuredStep
<1>8. QED
  BY <1>4, <1>7 DEF DataStep

LEMMA DirectApprovalStep ==
  ASSUME ApprovalAssumption, DataInv, NEW w \in Workers,
         CommitDirectApproval(w)
  PROVE  DataStep(tx[w].request)
<1> DEFINE r == tx[w].request
           version == tx[w].seen.version + 1
<1>1. r \in Requests /\ version \in Nat
  <2>1. Finish(w, {"modify", "replace"})
    BY DEF CommitDirectApproval, BeginsApproved, Writes
  <2>2. QED
    BY <2>1, CommitStart
<1>2. PICK subject \in Subjects, user \in Users,
           e \in UNION {EnsuredCycles(r, version, s) : s \in Subjects} :
        /\ e \in EnsuredCycles(r, version, subject)
        /\ \/ DirectlyInvalidates(r, e, subject)
           \/ DirectlyVotes(r, e, subject, user)
           \/ DirectlyApproves(r, e, subject, user)
  BY DEF CommitDirectApproval
<1>3. QED
  <2> HIDE DEF r, version
  <2>1. DataStep(r)
    BY <1>1, <1>2, DirectlyInvalidatesStep, DirectlyVotesStep,
       DirectlyApprovesStep
  <2>2. QED
    BY <2>1 DEF r

\* A row that a cancellation leaves is cancelled, whatever it kept of the plan.
LEMMA CancelledRowType ==
  ASSUME DataInv, NEW t, t.request \in Requests, NEW row \in CancelledRows(t)
  PROVE  row \in Request /\ row.status = "Annulee"
<1> DEFINE old == request[t.request]
           kept == [old EXCEPT !.status = "Annulee"]
<1>1. old \in Request
  BY DEF DataInv, TypeInv, TypeOK
<1>2. Released(old) \in Request /\ Released(old).status = "Annulee"
  BY <1>1, StatusNames DEF Released, Request
<1>3. ASSUME NEW decisions \in Decisions
      PROVE  /\ [kept EXCEPT !.decisions = decisions] \in Request
             /\ [kept EXCEPT !.decisions = decisions].status = "Annulee"
  BY <1>1, StatusNames DEF Request
<1>4. \/ row = Released(old)
      \/ \E decisions \in Rebuilt(old.decisions) :
           row = [kept EXCEPT !.decisions = decisions]
  BY DEF CancelledRows
<1>5. QED
  <2> HIDE DEF kept
  <2> QED BY <1>2, <1>3, <1>4, RebuiltDecisions

\* A command that invalidates the OPEN cycle when there is one.
LEMMA MayInvalidate ==
  ASSUME DataInv, NEW r \in Requests, UNCHANGED revision,
         \/ UNCHANGED cycle
         \/ \E c \in CycleIds :
              /\ IsActiveCycle(r, c)
              /\ cycle' = [cycle EXCEPT ![c].state = "INVALIDATED"]
  PROVE  UNCHANGED <<cycle, revision>> \/ OneCycle(r)
BY InvalidatesCycle

LEMMA CancelStep ==
  ASSUME ApprovalAssumption, DataInv, NEW w \in Workers, CommitCancel(w)
  PROVE  DataStep(tx[w].request)
<1> DEFINE r == tx[w].request
           version == tx[w].seen.version
<1>1. r \in Requests /\ version \in Nat
  <2>1. Finish(w, {"cancel"})
    BY DEF CommitCancel
  <2>2. QED
    BY <2>1, CommitStart
<1>2. PICK row \in CancelledRows(tx[w]), v \in {version + 1, version + 2} :
        /\ request' = [request EXCEPT ![r] = [row EXCEPT !.version = v]]
        /\ \/ UNCHANGED cycle
           \/ \E c \in CycleIds :
                /\ IsActiveCycle(r, c)
                /\ cycle' = [cycle EXCEPT ![c].state = "INVALIDATED"]
  BY DEF CommitCancel
<1>3. row \in Request /\ row.status = "Annulee"
  BY <1>1, CancelledRowType
<1> DEFINE new == [row EXCEPT !.version = v]
<1>4. new \in Request /\ new.status = "Annulee"
  <2>1. v \in Nat
    BY <1>1
  <2>2. QED
    BY <1>3, <2>1 DEF Request
<1>5. TypeOK /\ UNCHANGED revision
  BY DEF CommitCancel, DataInv, TypeInv
<1>6. RowStep(r)
  <2> HIDE DEF new, r
  <2> QED BY <1>1, <1>2, <1>4, <1>5, WrittenRow DEF new
<1>7. UNCHANGED <<cycle, revision>> \/ OneCycle(r)
  BY <1>1, <1>2, <1>5, MayInvalidate
<1>8. QED
  BY <1>6, <1>7 DEF DataStep

LEMMA RequestCancellationStep ==
  ASSUME ApprovalAssumption, DataInv, NEW w \in Workers,
         CommitRequestCancellation(w)
  PROVE  DataStep(tx[w].request)
<1> DEFINE r == tx[w].request
           version == tx[w].seen.version
           row(v) == [request[r] EXCEPT !.cancellation = "PENDING",
                                        !.version = v,
                                        !.cancellationId = @ + 1]
<1>1. r \in Requests /\ version \in Nat /\ request[r] \in Request
  BY CommitStart DEF CommitRequestCancellation
<1>2. PICK v \in {version + 1, version + 2} :
        /\ request' = [request EXCEPT ![r] = row(v)]
        /\ \/ UNCHANGED cycle
           \/ \E c \in CycleIds :
                /\ IsActiveCycle(r, c)
                /\ cycle' = [cycle EXCEPT ![c].state = "INVALIDATED"]
  BY DEF CommitRequestCancellation
<1>3. row(v) \in Request /\ row(v).status = request[r].status
  <2>1. v \in Nat /\ request[r].cancellationId + 1 \in Nat
    BY <1>1 DEF Request
  <2>2. QED
    BY <1>1, <2>1, StatusNames DEF Request
<1>4. TypeOK /\ UNCHANGED revision
  BY DEF CommitRequestCancellation, DataInv, TypeInv
<1>5. RowStep(r)
  <2> HIDE DEF row, r
  <2> QED BY <1>1, <1>2, <1>3, <1>4, WrittenRow
<1>6. UNCHANGED <<cycle, revision>> \/ OneCycle(r)
  BY <1>1, <1>2, <1>4, MayInvalidate
<1>7. QED
  BY <1>5, <1>6 DEF DataStep

LEMMA AcceptCancellationStep ==
  ASSUME ApprovalAssumption, DataInv, NEW w \in Workers,
         CommitAcceptCancellation(w)
  PROVE  DataStep(tx[w].request)
<1> DEFINE r == tx[w].request
           version == tx[w].seen.version + 1
           row == [Released(request[r]) EXCEPT !.cancellation = "ACCEPTED",
                                               !.version = version]
<1>1. r \in Requests /\ version \in Nat /\ request[r] \in Request
  BY CommitStart DEF CommitAcceptCancellation
<1>2. /\ request' = [request EXCEPT ![r] = row]
      /\ TypeOK /\ UNCHANGED <<cycle, revision>>
  BY DEF CommitAcceptCancellation, DataInv, TypeInv
<1>3. row \in Request /\ row.status = "Annulee"
  <2> HIDE DEF version
  <2> QED BY <1>1, StatusNames DEF Released, Request
<1>4. RowStep(r)
  <2> HIDE DEF row, r
  <2> QED BY <1>1, <1>2, <1>3, WrittenRow
<1>5. QED
  BY <1>2, <1>4 DEF DataStep

LEMMA RejectCancellationStep ==
  ASSUME ApprovalAssumption, DataInv, NEW w \in Workers,
         CommitRejectCancellation(w)
  PROVE  DataStep(tx[w].request)
<1> DEFINE r == tx[w].request
           version == tx[w].seen.version + 1
           row == [request[r] EXCEPT !.cancellation = "REJECTED",
                                     !.version = version]
<1>1. r \in Requests /\ version \in Nat /\ request[r] \in Request
  BY CommitStart DEF CommitRejectCancellation
<1>2. /\ request' = [request EXCEPT ![r] = row]
      /\ TypeOK /\ UNCHANGED <<cycle, revision>>
  BY DEF CommitRejectCancellation, DataInv, TypeInv
<1>3. row \in Request /\ row.status = request[r].status
  <2> HIDE DEF version
  <2> QED BY <1>1, StatusNames DEF Request
<1>4. RowStep(r)
  <2> HIDE DEF row, r
  <2> QED BY <1>1, <1>2, <1>3, WrittenRow
<1>5. QED
  BY <1>2, <1>4 DEF DataStep

LEMMA EditPlanStep ==
  ASSUME ApprovalAssumption, DataInv, NEW r \in Requests, EditPlan(r)
  PROVE  DataStep(r)
<1>1. PICK decisions \in Decisions :
        request' = [request EXCEPT ![r] =
                      [request[r] EXCEPT !.decisions = decisions]]
  BY DEF EditPlan
<1> DEFINE row == [request[r] EXCEPT !.decisions = decisions]
<1>2. row \in Request /\ row.status = request[r].status
  BY DEF DataInv, TypeInv, TypeOK, Request
<1>3. RowStep(r)
  <2> HIDE DEF row
  <2> QED BY <1>1, <1>2, WrittenRow DEF row, DataInv, TypeInv
<1>4. QED
  BY <1>3 DEF EditPlan, DataStep

LEMMA CreateStep ==
  ASSUME ApprovalAssumption, DataInv, NEW r \in Requests,
         NEW submit \in BOOLEAN, Create(r, submit)
  PROVE  DataStep(r)
<1>1. request[r] \in Request /\ TypeOK /\ UNCHANGED revision
  BY DEF Create, DataInv, TypeInv, TypeOK
<1>2. NoActiveCycle(r)
  <2>1. ASSUME NEW c \in CycleIds, cycle[c].state = "OPEN",
               cycle[c].request = r
        PROVE  FALSE
    BY <2>1 DEF Create, DataInv, NoCycleBeforeCreation, Unused
  <2>2. QED
    BY <2>1 DEF NoActiveCycle, OpenCycles
<1>3. CASE submit
  <2>1. PICK subject \in Subjects, c \in FreshCycles :
          /\ request' = [request EXCEPT ![r] =
                           [request[r] EXCEPT !.status = "Soumise",
                                              !.version = 2,
                                              !.subject = subject]]
          /\ cycle' = [cycle EXCEPT ![c] = OpenedCycle(r, 1, subject)]
    BY <1>3 DEF Create
  <2> DEFINE row == [request[r] EXCEPT !.status = "Soumise", !.version = 2,
                                       !.subject = subject]
  <2>2. row \in Request /\ row.status = "Soumise"
    BY <1>1, StatusNames DEF Request
  <2>3. RowStep(r) /\ request'[r].status = "Soumise"
    <3> HIDE DEF row
    <3> QED BY <1>1, <2>1, <2>2, WrittenRow DEF row
  <2>4. OneCycle(r)
    BY <1>1, <1>2, <2>1, <2>3, OpensCycle
  <2>5. QED
    BY <2>3, <2>4 DEF DataStep
<1>4. CASE ~submit
  <2>1. PICK subject \in Subjects :
          /\ request' = [request EXCEPT ![r] =
                           [request[r] EXCEPT !.status = "Brouillon",
                                              !.version = 1,
                                              !.subject = subject]]
          /\ UNCHANGED cycle
    BY <1>4 DEF Create
  <2> DEFINE row == [request[r] EXCEPT !.status = "Brouillon", !.version = 1,
                                       !.subject = subject]
  <2>2. row \in Request /\ row.status = "Brouillon"
    BY <1>1, StatusNames DEF Request
  <2>3. RowStep(r)
    <3> HIDE DEF row
    <3> QED BY <1>1, <2>1, <2>2, WrittenRow DEF row
  <2>4. QED
    BY <1>1, <2>1, <2>3 DEF DataStep
<1>5. QED
  BY <1>3, <1>4

-----------------------------------------------------------------------------
(* What such a step preserves.                                             *)

LEMMA OneCycleType ==
  ASSUME DataInv, NEW r \in Requests, OneCycle(r)
  PROVE  /\ cycle' \in [CycleIds -> Cycle \cup {Unused}]
         /\ revision' \in [RevisionIds -> Revision \cup {Unused}]
<1>1. PICK c \in CycleIds, k \in Cycle :
        /\ cycle' = [cycle EXCEPT ![c] = k]
        /\ Completion(k) \/ NoCompletion(k)
  BY DEF OneCycle
<1>2. TypeOK
  BY DEF DataInv, TypeInv
<1>3. cycle' \in [CycleIds -> Cycle \cup {Unused}]
  BY <1>1, <1>2, CycleWrite
<1>4. CASE NoCompletion(k)
  BY <1>2, <1>3, <1>4 DEF NoCompletion, TypeOK
<1>5. CASE Completion(k)
  <2>1. PICK previous \in RevisionIds \cup {NoRevision} :
          revision' = [revision EXCEPT ![k.revision] =
                         CapturedRevision(k.request, previous, k)]
    BY <1>5 DEF Completion, Captures
  <2>2. CapturedRevision(k.request, previous, k) \in Revision
    BY DEF CapturedRevision, Revision, Cycle
  <2>3. k.revision \in RevisionIds
    BY <1>5 DEF Completion, FreshRevisions
  <2>4. QED
    BY <1>2, <1>3, <2>1, <2>2, <2>3 DEF TypeOK
<1>6. QED
  BY <1>1, <1>4, <1>5

Invalidated(c, j) ==
  /\ j.state = "INVALIDATED" /\ j.request = cycle[c].request
  /\ j.submitted = cycle[c].submitted /\ j.subject = cycle[c].subject
  /\ j.approvers = cycle[c].approvers /\ j.votes = cycle[c].votes
  /\ j.revision = cycle[c].revision

LEMMA ReplacedCycleShape ==
  ASSUME DataInv, NEW r \in Requests, ReplacedCycle(r)
  PROVE  \E c \in CycleIds, d \in CycleIds, j \in Cycle, k \in Cycle :
           /\ IsActiveCycle(r, c) /\ cycle[d] = Unused /\ c # d
           /\ Invalidated(c, j)
           /\ k.request = r /\ k.state = "OPEN" /\ WellVoted(k)
           /\ k.revision = NoRevision
           /\ request'[r].status # "ABSENT"
           /\ UNCHANGED revision
           /\ cycle' = [x \in CycleIds |-> IF x = c THEN j
                                           ELSE IF x = d THEN k ELSE cycle[x]]
<1>1. PICK c \in CycleIds, d \in FreshCycles, k \in Cycle :
        /\ IsActiveCycle(r, c)
        /\ k.request = r /\ k.state = "OPEN" /\ WellVoted(k)
        /\ k.revision = NoRevision
        /\ request'[r].status # "ABSENT"
        /\ cycle' = [cycle EXCEPT ![c].state = "INVALIDATED", ![d] = k]
        /\ UNCHANGED revision
  BY DEF ReplacedCycle
<1>2. cycle[c] \in Cycle /\ cycle[c] # Unused
  BY <1>1, ActiveCycle DEF DataInv, TypeInv
<1>3. d \in CycleIds /\ cycle[d] = Unused /\ c # d
  BY <1>2 DEF FreshCycles
<1> DEFINE j == [cycle[c] EXCEPT !.state = "INVALIDATED"]
<1>4. j \in Cycle
  BY <1>2 DEF Cycle
<1>5. cycle' = [x \in CycleIds |-> IF x = c THEN j
                                   ELSE IF x = d THEN k ELSE cycle[x]]
  BY <1>1, <1>3 DEF DataInv, TypeInv, TypeOK
<1>6. Invalidated(c, j)
  BY <1>2 DEF Cycle, Invalidated
<1>7. QED
  <2> HIDE DEF j
  <2> USE <1>3, <1>4
  <2> WITNESS c \in CycleIds, d \in CycleIds, j \in Cycle, k \in Cycle
  <2> QED BY <1>1, <1>3, <1>4, <1>5, <1>6

LEMMA DataStepType ==
  ASSUME DataInv, NEW r \in Requests, DataStep(r)
  PROVE  /\ request' \in [Requests -> Request]
         /\ cycle' \in [CycleIds -> Cycle \cup {Unused}]
         /\ revision' \in [RevisionIds -> Revision \cup {Unused}]
<1>1. request' \in [Requests -> Request]
  BY RowWrite DEF DataStep, RowStep, DataInv, TypeInv
<1>2. CASE UNCHANGED <<cycle, revision>>
  BY <1>1, <1>2 DEF DataInv, TypeInv, TypeOK
<1>3. CASE OneCycle(r)
  BY <1>1, <1>3, OneCycleType
<1>4. CASE ReplacedCycle(r)
  BY <1>1, <1>4, ReplacedCycleShape DEF DataInv, TypeInv, TypeOK
<1>5. QED
  BY <1>2, <1>3, <1>4 DEF DataStep

\* No command takes anything away from the history of cycles and revisions.
LEMMA DataStepHistory ==
  ASSUME DataInv, NEW r \in Requests, DataStep(r)
  PROVE  HistoryKept
<1>1. CASE UNCHANGED <<cycle, revision>>
  BY <1>1 DEF HistoryKept, Created, Captured
<1>2. CASE OneCycle(r)
  <2>1. PICK c \in CycleIds, k \in Cycle :
          /\ Opens(r, c, k) \/ Continues(r, c, k)
          /\ cycle' = [cycle EXCEPT ![c] = k]
          /\ Completion(k) \/ NoCompletion(k)
    BY <1>2 DEF OneCycle
  <2>2. cycle' = [x \in CycleIds |-> IF x = c THEN k ELSE cycle[x]]
    BY <2>1 DEF DataInv, TypeInv, TypeOK
  <2>3. k # Unused
    BY DEF Cycle, Unused
  <2>4. cycle[c] # Unused =>
          /\ cycle[c].state = "OPEN" /\ k.request = cycle[c].request
          /\ k.submitted = cycle[c].submitted /\ k.subject = cycle[c].subject
          /\ k.approvers = cycle[c].approvers
          /\ cycle[c].votes \subseteq k.votes
    BY <2>1, ActiveCycle
       DEF Opens, Continues, FreshCycles, DataInv, TypeInv
  <2>5. \A v \in RevisionIds : revision[v] # Unused => revision'[v] = revision[v]
    <3>1. CASE NoCompletion(k)
      BY <3>1 DEF NoCompletion
    <3>2. CASE Completion(k)
      BY <3>2 DEF Completion, Captures, FreshRevisions, DataInv, TypeInv, TypeOK
    <3>3. QED
      BY <2>1, <3>1, <3>2
  <2>6. QED
    BY <2>2, <2>3, <2>4, <2>5 DEF HistoryKept, Created, Captured
<1>3. CASE ReplacedCycle(r)
  <2>1. PICK c \in CycleIds, d \in CycleIds, j \in Cycle, k \in Cycle :
          /\ IsActiveCycle(r, c) /\ cycle[d] = Unused /\ c # d
          /\ Invalidated(c, j)
          /\ UNCHANGED revision
          /\ cycle' = [x \in CycleIds |-> IF x = c THEN j
                                          ELSE IF x = d THEN k ELSE cycle[x]]
    BY <1>3, ReplacedCycleShape
  <2>2. j # Unused
    BY DEF Cycle, Unused
  <2>3. cycle[c].state = "OPEN" /\ cycle[c] \in Cycle
    BY <2>1, ActiveCycle DEF DataInv, TypeInv
  <2>4. /\ j.request = cycle[c].request /\ j.submitted = cycle[c].submitted
        /\ j.subject = cycle[c].subject /\ j.approvers = cycle[c].approvers
        /\ j.votes = cycle[c].votes
    BY <2>1 DEF Invalidated
  <2>5. QED
    BY <2>1, <2>2, <2>3, <2>4 DEF HistoryKept, Created, Captured
<1>4. QED
  BY <1>1, <1>2, <1>3 DEF DataStep

\* Whoever opens a cycle, or goes on with one, leaves no other OPEN one.
LEMMA DataStepOpen ==
  ASSUME DataInv, NEW r \in Requests, DataStep(r), AtMostOneOpenCycle
  PROVE  AtMostOneOpenCycle'
<1>1. CASE UNCHANGED <<cycle, revision>>
  BY <1>1 DEF AtMostOneOpenCycle, Created
<1>2. CASE OneCycle(r)
  <2>1. PICK c \in CycleIds, k \in Cycle :
          /\ Opens(r, c, k) \/ Continues(r, c, k)
          /\ cycle' = [cycle EXCEPT ![c] = k]
    BY <1>2 DEF OneCycle
  <2>2. cycle' = [x \in CycleIds |-> IF x = c THEN k ELSE cycle[x]]
    BY <2>1 DEF DataInv, TypeInv, TypeOK
  <2>3. k.request = r
    BY <2>1 DEF Opens, Continues
  <2>4. \A x \in CycleIds :
          cycle[x].state = "OPEN" /\ cycle[x].request = r => x = c
    BY <2>1 DEF Opens, Continues, IsActiveCycle, NoActiveCycle, OpenCycles
  <2>5. QED
    BY <2>2, <2>3, <2>4 DEF AtMostOneOpenCycle, Created
<1>3. CASE ReplacedCycle(r)
  <2>1. PICK c \in CycleIds, d \in CycleIds, j \in Cycle, k \in Cycle :
          /\ IsActiveCycle(r, c) /\ c # d /\ Invalidated(c, j)
          /\ k.request = r
          /\ cycle' = [x \in CycleIds |-> IF x = c THEN j
                                          ELSE IF x = d THEN k ELSE cycle[x]]
    BY <1>3, ReplacedCycleShape
  <2>2. \A x \in CycleIds :
          cycle[x].state = "OPEN" /\ cycle[x].request = r => x = c
    BY <2>1 DEF IsActiveCycle, OpenCycles
  <2>3. j.state = "INVALIDATED"
    BY <2>1 DEF Invalidated
  <2>4. QED
    BY <2>1, <2>2, <2>3 DEF AtMostOneOpenCycle, Created
<1>4. QED
  BY <1>1, <1>2, <1>3 DEF DataStep

LEMMA DataStepCycles ==
  ASSUME DataInv, NEW r \in Requests, DataStep(r)
  PROVE  CyclesWellFormed' /\ NoCycleBeforeCreation'
<1>1. \A x \in Requests :
        request'[x].status = "ABSENT" => request[x].status = "ABSENT"
  BY DEF DataStep, RowStep, DataInv, TypeInv, TypeOK
<1>2. \A x \in CycleIds : cycle[x] # Unused => cycle[x].request \in Requests
  BY DEF DataInv, TypeInv, TypeOK, Cycle
<1>3. CASE UNCHANGED <<cycle, revision>>
  BY <1>1, <1>2, <1>3
     DEF CyclesWellFormed, NoCycleBeforeCreation, WellVoted, DataInv
<1>4. CASE OneCycle(r)
  <2>1. PICK c \in CycleIds, k \in Cycle :
          /\ Opens(r, c, k) \/ Continues(r, c, k)
          /\ WellVoted(k)
          /\ k.state = "COMPLETED" \/ NoCompletion(k)
          /\ cycle' = [cycle EXCEPT ![c] = k]
    BY <1>4 DEF OneCycle
  <2>2. cycle' = [x \in CycleIds |-> IF x = c THEN k ELSE cycle[x]]
    BY <2>1 DEF DataInv, TypeInv, TypeOK
  <2>3. k.request = r /\ request'[r].status # "ABSENT"
    <3>1. CASE Opens(r, c, k)
      BY <3>1 DEF Opens
    <3>2. CASE Continues(r, c, k)
      <4>1. cycle[c] # Unused /\ cycle[c].request = r
        BY <3>2, ActiveCycle DEF Continues, DataInv, TypeInv
      <4>2. QED
        BY <1>1, <3>2, <4>1 DEF Continues, DataInv, NoCycleBeforeCreation
    <3>3. QED
      BY <2>1, <3>1, <3>2
  <2>4. CyclesWellFormed'
    BY <2>1, <2>2 DEF CyclesWellFormed, WellVoted, NoCompletion, DataInv
  <2>5. NoCycleBeforeCreation'
    BY <1>1, <1>2, <2>2, <2>3 DEF NoCycleBeforeCreation, DataInv
  <2>6. QED
    BY <2>4, <2>5
<1>5. CASE ReplacedCycle(r)
  <2>1. PICK c \in CycleIds, d \in CycleIds, j \in Cycle, k \in Cycle :
          /\ IsActiveCycle(r, c) /\ c # d /\ Invalidated(c, j)
          /\ k.request = r /\ WellVoted(k) /\ k.revision = NoRevision
          /\ request'[r].status # "ABSENT"
          /\ cycle' = [x \in CycleIds |-> IF x = c THEN j
                                          ELSE IF x = d THEN k ELSE cycle[x]]
    BY <1>5, ReplacedCycleShape
  <2>2. cycle[c] # Unused /\ cycle[c].request = r /\ cycle[c].state = "OPEN"
    BY <2>1, ActiveCycle DEF DataInv, TypeInv
  <2>3. WellVoted(j) /\ j.revision = NoRevision /\ j.request = r
    BY <2>1, <2>2 DEF Invalidated, WellVoted, CyclesWellFormed, DataInv
  <2>4. CyclesWellFormed'
    BY <2>1, <2>3 DEF CyclesWellFormed, WellVoted, DataInv
  <2>5. NoCycleBeforeCreation'
    BY <1>1, <1>2, <2>1, <2>3 DEF NoCycleBeforeCreation, DataInv
  <2>6. QED
    BY <2>4, <2>5
<1>6. QED
  BY <1>3, <1>4, <1>5 DEF DataStep

\* A revision is captured when a cycle completes, and keeps its contents.
LEMMA DataStepQuorum ==
  ASSUME DataInv, NEW r \in Requests, DataStep(r), CompletedByFrozenQuorum
  PROVE  CompletedByFrozenQuorum'
<1> DEFINE Sound(x) ==
      /\ QuorumComplete(cycle[x].approvers, cycle[x].votes)
      /\ WellVoted(cycle[x])
      /\ cycle[x].revision \in RevisionIds /\ Captured(cycle[x].revision)
      /\ revision[cycle[x].revision].request = cycle[x].request
      /\ revision[cycle[x].revision].subject = cycle[x].subject
      /\ revision[cycle[x].revision].version = cycle[x].submitted
<1>1. CompletedByFrozenQuorum <=>
        \A x \in CycleIds :
          cycle[x] # Unused /\ cycle[x].state = "COMPLETED" => Sound(x)
  BY DEF CompletedByFrozenQuorum, Created, QuorumComplete, Satisfied,
         WellVoted, CastByApprovers
<1>2. CompletedByFrozenQuorum' <=>
        \A x \in CycleIds :
          cycle'[x] # Unused /\ cycle'[x].state = "COMPLETED" => Sound(x)'
  BY DEF CompletedByFrozenQuorum, Created, QuorumComplete, Satisfied,
         WellVoted, CastByApprovers
<1>3. \A v \in RevisionIds :
        revision[v] # Unused => revision'[v] = revision[v]
  BY DataStepHistory DEF HistoryKept, Captured
<1>4. ASSUME NEW x \in CycleIds, cycle'[x] = cycle[x], cycle[x] # Unused,
             cycle[x].state = "COMPLETED"
      PROVE  Sound(x)'
  <2>1. Sound(x)
    BY <1>1, <1>4
  <2>2. cycle[x].revision \in RevisionIds /\ revision[cycle[x].revision] # Unused
    BY <2>1 DEF Captured
  <2>3. revision'[cycle[x].revision] = revision[cycle[x].revision]
    BY <1>3, <2>2
  <2>4. QED
    BY <1>4, <2>1, <2>2, <2>3 DEF WellVoted, Captured
<1>5. CASE UNCHANGED <<cycle, revision>>
  <2> HIDE DEF Sound
  <2> QED BY <1>2, <1>4, <1>5
<1>6. CASE OneCycle(r)
  <2>1. PICK c \in CycleIds, k \in Cycle :
          /\ WellVoted(k)
          /\ (k.state = "COMPLETED" /\ Completion(k)) \/ NoCompletion(k)
          /\ cycle' = [cycle EXCEPT ![c] = k]
    BY <1>6 DEF OneCycle
  <2>2. cycle' = [x \in CycleIds |-> IF x = c THEN k ELSE cycle[x]]
    BY <2>1 DEF DataInv, TypeInv, TypeOK
  <2>3. k.state = "COMPLETED" => Sound(c)'
    <3> SUFFICES ASSUME k.state = "COMPLETED"
                 PROVE  Sound(c)'
      OBVIOUS
    <3>1. Completion(k)
      BY <2>1 DEF NoCompletion
    <3>2. PICK previous :
            revision' = [revision EXCEPT ![k.revision] =
                           CapturedRevision(k.request, previous, k)]
      BY <3>1 DEF Completion, Captures
    <3>3. k.revision \in RevisionIds
      BY <3>1 DEF Completion, FreshRevisions
    <3>4. revision'[k.revision] = CapturedRevision(k.request, previous, k)
      BY <3>2, <3>3 DEF DataInv, TypeInv, TypeOK
    <3>5. /\ revision'[k.revision].request = k.request
          /\ revision'[k.revision].subject = k.subject
          /\ revision'[k.revision].version = k.submitted
          /\ revision'[k.revision] # Unused
      BY <3>4 DEF CapturedRevision, Unused
    <3>6. cycle'[c] = k
      BY <2>2
    <3>7. QED
      BY <2>1, <3>1, <3>3, <3>5, <3>6 DEF Completion, Captured, WellVoted
  <2>4. QED
    <3> HIDE DEF Sound
    <3> QED BY <1>2, <1>4, <2>2, <2>3
<1>7. CASE ReplacedCycle(r)
  <2>1. PICK c \in CycleIds, d \in CycleIds, j \in Cycle, k \in Cycle :
          /\ Invalidated(c, j) /\ k.state = "OPEN"
          /\ cycle' = [x \in CycleIds |-> IF x = c THEN j
                                          ELSE IF x = d THEN k ELSE cycle[x]]
    BY <1>7, ReplacedCycleShape
  <2>2. j.state = "INVALIDATED"
    BY <2>1 DEF Invalidated
  <2>3. QED
    <3> HIDE DEF Sound
    <3> QED BY <1>2, <1>4, <2>1, <2>2
<1>8. QED
  BY <1>5, <1>6, <1>7 DEF DataStep

\* The identity of a revision that a cycle completes with was free.
LEMMA DataStepRevisions ==
  ASSUME ApprovalAssumption, DataInv, NEW r \in Requests, DataStep(r),
         CompletedByFrozenQuorum, RevisionsComeFromCycles
  PROVE  RevisionsComeFromCycles'
<1>1. \A x \in CycleIds :
        cycle[x] # Unused =>
          \/ cycle[x].revision = NoRevision /\ cycle[x].state # "COMPLETED"
          \/ cycle[x].revision \in RevisionIds /\ Captured(cycle[x].revision)
  BY DEF CompletedByFrozenQuorum, Created, DataInv, CyclesWellFormed
<1>2. NoRevision \notin RevisionIds
  BY DEF ApprovalAssumption
<1>3. CASE UNCHANGED <<cycle, revision>>
  BY <1>3 DEF RevisionsComeFromCycles, Created, Captured
<1>4. CASE OneCycle(r)
  <2>1. PICK c \in CycleIds, k \in Cycle :
          /\ Opens(r, c, k) \/ Continues(r, c, k)
          /\ (k.state = "COMPLETED" /\ Completion(k)) \/ NoCompletion(k)
          /\ cycle' = [cycle EXCEPT ![c] = k]
    BY <1>4 DEF OneCycle
  <2>2. cycle' = [x \in CycleIds |-> IF x = c THEN k ELSE cycle[x]]
    BY <2>1 DEF DataInv, TypeInv, TypeOK
  <2>3. cycle[c] # Unused => cycle[c].state # "COMPLETED"
    BY <2>1, ActiveCycle DEF Opens, Continues, FreshCycles, DataInv, TypeInv
  <2>4. k # Unused
    BY DEF Cycle, Unused
  <2>5. CASE NoCompletion(k)
    <3>1. k.revision = NoRevision /\ k.state # "COMPLETED" /\ revision' = revision
      BY <2>5 DEF NoCompletion
    <3>2. QED
      BY <1>2, <2>2, <2>3, <2>4, <3>1
         DEF RevisionsComeFromCycles, Created, Captured
  <2>6. CASE k.state = "COMPLETED" /\ Completion(k)
    <3>1. k.revision \in RevisionIds /\ ~Captured(k.revision)
      BY <2>6 DEF Completion, FreshRevisions, Captured
    <3>2. \A v \in RevisionIds : Captured(v)' => v = k.revision \/ Captured(v)
      BY <2>6 DEF Completion, Captures, Captured, DataInv, TypeInv, TypeOK
    <3>3. \A x \in CycleIds : cycle[x] # Unused => cycle[x].revision # k.revision
      BY <1>1, <1>2, <3>1
    <3>4. QED
      BY <1>1, <1>2, <2>2, <2>3, <2>4, <2>6, <3>1, <3>2, <3>3
         DEF RevisionsComeFromCycles, Created
  <2>7. QED
    BY <2>1, <2>5, <2>6
<1>5. CASE ReplacedCycle(r)
  <2>1. PICK c \in CycleIds, d \in CycleIds, j \in Cycle, k \in Cycle :
          /\ IsActiveCycle(r, c) /\ cycle[d] = Unused /\ Invalidated(c, j)
          /\ k.revision = NoRevision /\ UNCHANGED revision
          /\ cycle' = [x \in CycleIds |-> IF x = c THEN j
                                          ELSE IF x = d THEN k ELSE cycle[x]]
    BY <1>5, ReplacedCycleShape
  <2>2. cycle[c] # Unused /\ cycle[c].state = "OPEN"
    BY <2>1, ActiveCycle DEF DataInv, TypeInv
  <2>3. j.revision = NoRevision
    BY <2>1, <2>2 DEF Invalidated, DataInv, CyclesWellFormed
  <2>4. QED
    BY <1>2, <2>1, <2>2, <2>3 DEF RevisionsComeFromCycles, Created, Captured
<1>6. QED
  BY <1>3, <1>4, <1>5 DEF DataStep

-----------------------------------------------------------------------------
(* Every step of the specification.                                        *)

NoDataStep == UNCHANGED <<request, cycle, revision>>

DataChange == NoDataStep \/ \E r \in Requests : DataStep(r)

\* No step makes a vote under way ineligible: its cycle keeps its approvers.
VotesKeep ==
  \A w \in Workers :
    tx'[w] # Idle /\ tx'[w].command = "vote" => tx'[w] = tx[w]

LEMMA EligibleKept ==
  ASSUME DataInv, HistoryKept, VotesKeep
  PROVE  VotersEligible'
<1> SUFFICES ASSUME NEW w \in Workers, tx'[w] # Idle, tx'[w].command = "vote"
             PROVE  /\ cycle'[tx'[w].cycle] # Unused
                    /\ tx'[w].targets \subseteq
                         EligibleLines(cycle'[tx'[w].cycle].approvers,
                                       tx'[w].user)
  BY DEF VotersEligible, EligibleLines
<1>1. tx'[w] = tx[w]
  BY DEF VotesKeep
<1>2. /\ tx[w].cycle \in CycleIds /\ cycle[tx[w].cycle] # Unused
      /\ tx[w].targets \subseteq
           EligibleLines(cycle[tx[w].cycle].approvers, tx[w].user)
  BY <1>1 DEF DataInv, TypeInv, VotersKnown, VotersEligible
<1>3. /\ cycle'[tx[w].cycle] # Unused
      /\ cycle'[tx[w].cycle].approvers = cycle[tx[w].cycle].approvers
  BY <1>2 DEF HistoryKept, Created
<1>4. QED
  BY <1>1, <1>2, <1>3

LEMMA NoDataHistory ==
  ASSUME NoDataStep
  PROVE  HistoryKept
BY DEF NoDataStep, HistoryKept, Created, Captured

\* A step that leaves the data alone keeps the shape of the data.
LEMMA NoDataCycles ==
  ASSUME DataInv, NoDataStep
  PROVE  CyclesWellFormed' /\ NoCycleBeforeCreation'
BY DEF NoDataStep, DataInv, CyclesWellFormed, WellVoted, NoCycleBeforeCreation

\* A commit that writes its request as DataStep says.
LEMMA CommitInv ==
  ASSUME ApprovalAssumption, DataInv, NEW w \in Workers, NEW commands,
         Finish(w, commands), DataStep(tx[w].request),
         AcquirePlanning \/ UNCHANGED planningVersion
  PROVE  DataInv' /\ DataChange
<1>1. tx[w].request \in Requests
  BY CommitStart
<1>2. TypeInv'
  <2>1. /\ tx' \in [Workers -> Transaction \cup {Idle}] /\ VotersKnown'
        /\ routing' \in Routings
    BY FinishStep DEF DataInv
  <2>2. planningVersion' \in 0..(PlanningModulus - 1)
    BY PlanningStep DEF DataInv, TypeInv
  <2>3. /\ request' \in [Requests -> Request]
        /\ cycle' \in [CycleIds -> Cycle \cup {Unused}]
        /\ revision' \in [RevisionIds -> Revision \cup {Unused}]
    BY <1>1, DataStepType
  <2>4. QED
    BY <2>1, <2>2, <2>3 DEF TypeInv, TypeOK
<1>3. CyclesWellFormed' /\ NoCycleBeforeCreation'
  BY <1>1, DataStepCycles
<1>4. VotesKeep
  BY DEF Finish, VotesKeep, DataInv, TypeInv, TypeOK
<1>5. VotersEligible'
  BY <1>1, <1>4, EligibleKept, DataStepHistory
<1>6. QED
  BY <1>1, <1>2, <1>3, <1>5 DEF DataInv, DataChange

\* A step that writes no data.
LEMMA QuietInv ==
  ASSUME DataInv, TypeInv', NoDataStep, VotersEligible'
  PROVE  DataInv' /\ DataChange
BY NoDataCycles DEF DataInv, DataChange

LEMMA BeginInv ==
  ASSUME ApprovalAssumption, DataInv, NEW w \in Workers, NEW r \in Requests,
         NEW command \in Commands, Begin(w, r, command)
  PROVE  DataInv' /\ DataChange
<1>1. NoDataStep
  BY DEF Begin, Start, NoDataStep
<1>2. TypeInv'
  BY BeginType DEF DataInv
<1>3. VotesKeep
  BY DEF Begin, Start, VotesKeep, DataInv, TypeInv, TypeOK
<1>4. QED
  BY <1>1, <1>2, <1>3, NoDataHistory, EligibleKept, QuietInv

LEMMA BeginVoteInv ==
  ASSUME ApprovalAssumption, DataInv, NEW w \in Workers, NEW r \in Requests,
         BeginVote(w, r)
  PROVE  DataInv' /\ DataChange
<1>1. NoDataStep
  BY DEF BeginVote, Start, NoDataStep
<1>2. TypeInv'
  BY BeginVoteType DEF DataInv
<1>3. PICK c \in CycleIds, user \in Users :
        /\ IsActiveCycle(r, c)
        /\ \E t : /\ t.targets \subseteq EligibleLines(cycle[c].approvers, user)
                  /\ t.cycle = c /\ t.user = user
                  /\ tx' = [tx EXCEPT ![w] = t]
  BY DEF BeginVote, Start
<1>4. cycle[c] # Unused
  BY <1>3, ActiveCycle DEF DataInv, TypeInv
<1>5. VotersEligible'
  BY <1>1, <1>3, <1>4
     DEF NoDataStep, VotersEligible, EligibleLines, DataInv, TypeInv, TypeOK
<1>6. QED
  BY <1>1, <1>2, <1>5, QuietInv

LEMMA RereadInv ==
  ASSUME ApprovalAssumption, DataInv, NEW w \in Workers, Reread(w)
  PROVE  DataInv' /\ DataChange
<1>1. NoDataStep
  BY DEF Reread, NoDataStep
<1>2. TypeInv'
  BY RereadType DEF DataInv
<1>3. PICK seen : tx' = [tx EXCEPT ![w] = [tx[w] EXCEPT !.seen = seen]]
  BY DEF Reread, DataInv, TypeInv, TypeOK
<1>4. tx[w] \in Transaction /\ tx[w].command # "vote"
  BY RunningTransaction DEF Reread, DataInv, TypeInv
<1>5. [tx[w] EXCEPT !.seen = seen].command = tx[w].command
  BY <1>4 DEF Transaction
<1>6. VotesKeep
  BY <1>3, <1>4, <1>5 DEF VotesKeep, DataInv, TypeInv, TypeOK
<1>7. QED
  BY <1>1, <1>2, <1>6, NoDataHistory, EligibleKept, QuietInv

LEMMA RollbackInv ==
  ASSUME ApprovalAssumption, DataInv, NEW w \in Workers, Rollback(w)
  PROVE  DataInv' /\ DataChange
<1>1. NoDataStep
  BY DEF Rollback, NoDataStep
<1>2. TypeInv'
  BY RollbackType DEF DataInv
<1>3. VotesKeep
  BY DEF Rollback, VotesKeep, DataInv, TypeInv, TypeOK
<1>4. QED
  BY <1>1, <1>2, <1>3, NoDataHistory, EligibleKept, QuietInv

LEMMA ChangeRoutingInv ==
  ASSUME ApprovalAssumption, DataInv, ChangeRouting
  PROVE  DataInv' /\ DataChange
<1>1. NoDataStep /\ VotesKeep
  BY DEF ChangeRouting, NoDataStep, VotesKeep
<1>2. TypeInv'
  BY ChangeRoutingType DEF DataInv
<1>3. QED
  BY <1>1, <1>2, NoDataHistory, EligibleKept, QuietInv

LEMMA EditPlanInv ==
  ASSUME ApprovalAssumption, DataInv, NEW r \in Requests, EditPlan(r)
  PROVE  DataInv' /\ DataChange
<1>1. DataStep(r)
  BY EditPlanStep
<1>2. TypeInv'
  BY EditPlanType DEF DataInv
<1>3. VotesKeep
  BY DEF EditPlan, VotesKeep
<1>4. QED
  BY <1>1, <1>2, <1>3, DataStepCycles, DataStepHistory, EligibleKept
     DEF DataInv, DataChange

LEMMA CreateInv ==
  ASSUME ApprovalAssumption, DataInv, NEW r \in Requests,
         NEW submit \in BOOLEAN, Create(r, submit)
  PROVE  DataInv' /\ DataChange
<1>1. DataStep(r)
  BY CreateStep
<1>2. TypeInv'
  <2>1. UNCHANGED <<routing, planningVersion, tx>>
    BY DEF Create
  <2>2. QED
    BY <1>1, <2>1, DataStepType
       DEF DataInv, TypeInv, TypeOK, VotersKnown
<1>3. VotesKeep
  BY DEF Create, VotesKeep
<1>4. QED
  BY <1>1, <1>2, <1>3, DataStepCycles, DataStepHistory, EligibleKept
     DEF DataInv, DataChange

LEMMA CommandInv ==
  ASSUME ApprovalAssumption, DataInv, NEW w \in Workers, Command(w)
  PROVE  DataInv' /\ DataChange
<1>1. CASE \E r \in Requests, command \in Commands : Begin(w, r, command)
  BY <1>1, BeginInv
<1>2. CASE \E r \in Requests : BeginVote(w, r)
  BY <1>2, BeginVoteInv
<1>3. CASE Reread(w)
  BY <1>3, RereadInv
<1>4. CASE Rollback(w)
  BY <1>4, RollbackInv
<1>5. CASE CommitSubmit(w)
  <2>1. DataStep(tx[w].request)
    BY <1>5, SubmitStep
  <2>2. \E commands : Finish(w, commands)
    BY <1>5 DEF CommitSubmit
  <2>3. AcquirePlanning \/ UNCHANGED planningVersion
    BY <1>5 DEF CommitSubmit
  <2>4. QED
    BY <2>1, <2>2, <2>3, CommitInv
<1>6. CASE CommitCorrection(w)
  <2>1. DataStep(tx[w].request)
    BY <1>6, CorrectionStep
  <2>2. \E commands : Finish(w, commands)
    BY <1>6 DEF CommitCorrection
  <2>3. AcquirePlanning \/ UNCHANGED planningVersion
    BY <1>6 DEF CommitCorrection
  <2>4. QED
    BY <2>1, <2>2, <2>3, CommitInv
<1>7. CASE CommitModifyDraft(w)
  <2>1. DataStep(tx[w].request)
    BY <1>7, ModifyDraftStep
  <2>2. \E commands : Finish(w, commands)
    BY <1>7 DEF CommitModifyDraft, Writes
  <2>3. AcquirePlanning \/ UNCHANGED planningVersion
    BY <1>7 DEF CommitModifyDraft
  <2>4. QED
    BY <2>1, <2>2, <2>3, CommitInv
<1>8. CASE CommitModifySubmitted(w)
  <2>1. DataStep(tx[w].request)
    BY <1>8, ModifySubmittedStep
  <2>2. \E commands : Finish(w, commands)
    BY <1>8 DEF CommitModifySubmitted, Writes
  <2>3. AcquirePlanning \/ UNCHANGED planningVersion
    BY <1>8 DEF CommitModifySubmitted
  <2>4. QED
    BY <2>1, <2>2, <2>3, CommitInv
<1>9. CASE CommitSelect(w)
  <2>1. DataStep(tx[w].request)
    BY <1>9, SelectStep
  <2>2. \E commands : Finish(w, commands)
    BY <1>9 DEF CommitSelect
  <2>3. AcquirePlanning \/ UNCHANGED planningVersion
    BY <1>9 DEF CommitSelect
  <2>4. QED
    BY <2>1, <2>2, <2>3, CommitInv
<1>10. CASE CommitContact(w)
  <2>1. DataStep(tx[w].request)
    BY <1>10, ContactStep
  <2>2. \E commands : Finish(w, commands)
    BY <1>10 DEF CommitContact
  <2>3. AcquirePlanning \/ UNCHANGED planningVersion
    BY <1>10 DEF CommitContact
  <2>4. QED
    BY <2>1, <2>2, <2>3, CommitInv
<1>11. CASE CommitStaleVote(w)
  <2>1. DataStep(tx[w].request)
    BY <1>11, StaleVoteStep
  <2>2. \E commands : Finish(w, commands)
    BY <1>11 DEF CommitStaleVote
  <2>3. AcquirePlanning \/ UNCHANGED planningVersion
    BY <1>11 DEF CommitStaleVote
  <2>4. QED
    BY <2>1, <2>2, <2>3, CommitInv
<1>12. CASE CommitPartialVote(w)
  <2>1. DataStep(tx[w].request)
    BY <1>12, PartialVoteStep
  <2>2. \E commands : Finish(w, commands)
    BY <1>12 DEF CommitPartialVote
  <2>3. AcquirePlanning \/ UNCHANGED planningVersion
    BY <1>12 DEF CommitPartialVote
  <2>4. QED
    BY <2>1, <2>2, <2>3, CommitInv
<1>13. CASE CommitFinalVote(w)
  <2>1. DataStep(tx[w].request)
    BY <1>13, FinalVoteStep
  <2>2. \E commands : Finish(w, commands)
    BY <1>13 DEF CommitFinalVote
  <2>3. AcquirePlanning \/ UNCHANGED planningVersion
    BY <1>13 DEF CommitFinalVote
  <2>4. QED
    BY <2>1, <2>2, <2>3, CommitInv
<1>14. CASE CommitModifyWithin(w)
  <2>1. DataStep(tx[w].request)
    BY <1>14, ModifyWithinStep
  <2>2. \E commands : Finish(w, commands)
    BY <1>14 DEF CommitModifyWithin, BeginsApproved, Writes
  <2>3. AcquirePlanning \/ UNCHANGED planningVersion
    BY <1>14 DEF CommitModifyWithin
  <2>4. QED
    BY <2>1, <2>2, <2>3, CommitInv
<1>15. CASE CommitReapproval(w)
  <2>1. DataStep(tx[w].request)
    BY <1>15, ReapprovalStep
  <2>2. \E commands : Finish(w, commands)
    BY <1>15 DEF CommitReapproval, BeginsApproved, Writes
  <2>3. AcquirePlanning \/ UNCHANGED planningVersion
    BY <1>15 DEF CommitReapproval
  <2>4. QED
    BY <2>1, <2>2, <2>3, CommitInv
<1>16. CASE CommitDirectApproval(w)
  <2>1. DataStep(tx[w].request)
    BY <1>16, DirectApprovalStep
  <2>2. \E commands : Finish(w, commands)
    BY <1>16 DEF CommitDirectApproval, BeginsApproved, Writes
  <2>3. AcquirePlanning \/ UNCHANGED planningVersion
    BY <1>16 DEF CommitDirectApproval
  <2>4. QED
    BY <2>1, <2>2, <2>3, CommitInv
<1>17. CASE CommitCancel(w)
  <2>1. DataStep(tx[w].request)
    BY <1>17, CancelStep
  <2>2. \E commands : Finish(w, commands)
    BY <1>17 DEF CommitCancel
  <2>3. AcquirePlanning \/ UNCHANGED planningVersion
    BY <1>17 DEF CommitCancel
  <2>4. QED
    BY <2>1, <2>2, <2>3, CommitInv
<1>18. CASE CommitRequestCancellation(w)
  <2>1. DataStep(tx[w].request)
    BY <1>18, RequestCancellationStep
  <2>2. \E commands : Finish(w, commands)
    BY <1>18 DEF CommitRequestCancellation
  <2>3. AcquirePlanning \/ UNCHANGED planningVersion
    BY <1>18 DEF CommitRequestCancellation
  <2>4. QED
    BY <2>1, <2>2, <2>3, CommitInv
<1>19. CASE CommitAcceptCancellation(w)
  <2>1. DataStep(tx[w].request)
    BY <1>19, AcceptCancellationStep
  <2>2. \E commands : Finish(w, commands)
    BY <1>19 DEF CommitAcceptCancellation
  <2>3. AcquirePlanning \/ UNCHANGED planningVersion
    BY <1>19 DEF CommitAcceptCancellation
  <2>4. QED
    BY <2>1, <2>2, <2>3, CommitInv
<1>20. CASE CommitRejectCancellation(w)
  <2>1. DataStep(tx[w].request)
    BY <1>20, RejectCancellationStep
  <2>2. \E commands : Finish(w, commands)
    BY <1>20 DEF CommitRejectCancellation
  <2>3. AcquirePlanning \/ UNCHANGED planningVersion
    BY <1>20 DEF CommitRejectCancellation
  <2>4. QED
    BY <2>1, <2>2, <2>3, CommitInv
<1>21. QED
  BY <1>1, <1>2, <1>3, <1>4, <1>5, <1>6, <1>7, <1>8, <1>9, <1>10, <1>11, <1>12, <1>13, <1>14, <1>15, <1>16, <1>17, <1>18, <1>19, <1>20 DEF Command

\* DataInv is inductive, and every step changes the data as DataStep says.
LEMMA StepInv ==
  ASSUME ApprovalAssumption, DataInv, [Next]_vars
  PROVE  DataInv' /\ DataChange
<1>1. CASE \E r \in Requests, submit \in BOOLEAN : Create(r, submit)
  BY <1>1, CreateInv
<1>2. CASE \E r \in Requests : EditPlan(r)
  BY <1>2, EditPlanInv
<1>3. CASE ChangeRouting
  BY <1>3, ChangeRoutingInv
<1>4. CASE \E w \in Workers : Command(w)
  BY <1>4, CommandInv
<1>5. CASE UNCHANGED vars
  <2>1. NoDataStep
    BY <1>5 DEF vars, NoDataStep
  <2>2. TypeInv' /\ VotersEligible'
    BY <1>5
       DEF vars, DataInv, TypeInv, TypeOK, VotersKnown, VotersEligible,
           EligibleLines
  <2>3. QED
    BY <2>1, <2>2, QuietInv
<1>6. QED
  BY <1>1, <1>2, <1>3, <1>4, <1>5 DEF Next

LEMMA InitInv == ApprovalAssumption /\ Init => DataInv
BY InitType
   DEF Init, DataInv, CyclesWellFormed, VotersEligible, NoCycleBeforeCreation

\* The inductive invariant holds in every reachable state.
THEOREM DataInvariant == Spec => []DataInv
<1>1. Init => DataInv
  BY InitInv, ApprovalAssumption
<1>2. DataInv /\ [Next]_vars => DataInv'
  BY StepInv, ApprovalAssumption
<1>3. QED
  BY <1>1, <1>2, PTL DEF Spec

\* Type correctness: every column, cycle, revision and transaction keeps to
\* the values that the schema and the handlers know.
THEOREM TypeCorrect == Spec => []TypeOK
<1>1. DataInv => TypeOK
  BY DEF DataInv, TypeInv
<1>2. QED
  BY <1>1, DataInvariant, PTL

\* No interleaving of the commands, blind writes included, leaves two OPEN
\* cycles on a request, so get_active_cycle never finds a conflict.
THEOREM OneOpenCycle == Spec => []AtMostOneOpenCycle
<1>1. Init => AtMostOneOpenCycle
  BY DEF Init, AtMostOneOpenCycle, Created
<1>2. DataInv /\ AtMostOneOpenCycle /\ [Next]_vars => AtMostOneOpenCycle'
  <2> SUFFICES ASSUME DataInv, AtMostOneOpenCycle, [Next]_vars
               PROVE  AtMostOneOpenCycle'
    OBVIOUS
  <2>1. CASE NoDataStep
    BY <2>1 DEF NoDataStep, AtMostOneOpenCycle, Created
  <2>2. CASE \E r \in Requests : DataStep(r)
    BY <2>2, DataStepOpen
  <2>3. QED
    BY <2>1, <2>2, StepInv, ApprovalAssumption DEF DataChange
<1>3. QED
  BY <1>1, <1>2, DataInvariant, PTL DEF Spec

\* Closed cycles and captured revisions are immutable, and an OPEN cycle keeps
\* the subject and the approvers that its submission froze.
THEOREM FrozenHistory == Spec => HistoryIsFrozen
<1>1. DataInv /\ [Next]_vars => [HistoryKept]_vars
  BY StepInv, ApprovalAssumption, DataStepHistory, NoDataHistory
     DEF DataChange
<1>2. QED
  BY <1>1, DataInvariant, PTL DEF Spec, HistoryIsFrozen

\* A completed cycle holds an approval of every line by one of its own frozen
\* approvers, and its revision captured the subject they approved.
THEOREM FrozenQuorum == Spec => []CompletedByFrozenQuorum
<1>1. Init => CompletedByFrozenQuorum
  BY DEF Init, CompletedByFrozenQuorum, Created
<1>2. DataInv /\ CompletedByFrozenQuorum /\ [Next]_vars
        => CompletedByFrozenQuorum'
  <2> SUFFICES ASSUME DataInv, CompletedByFrozenQuorum, [Next]_vars
               PROVE  CompletedByFrozenQuorum'
    OBVIOUS
  <2>1. CASE NoDataStep
    BY <2>1 DEF NoDataStep, CompletedByFrozenQuorum, Created, Captured
  <2>2. CASE \E r \in Requests : DataStep(r)
    BY <2>2, DataStepQuorum
  <2>3. QED
    BY <2>1, <2>2, StepInv, ApprovalAssumption DEF DataChange
<1>3. QED
  BY <1>1, <1>2, DataInvariant, PTL DEF Spec

\* Every revision is the outcome of exactly one completed cycle.
THEOREM RevisionsFromCycles == Spec => []RevisionsComeFromCycles
<1>1. Init => RevisionsComeFromCycles
  BY DEF Init, RevisionsComeFromCycles, Created, Captured
<1>2. DataInv /\ CompletedByFrozenQuorum /\ RevisionsComeFromCycles
        /\ [Next]_vars => RevisionsComeFromCycles'
  <2> SUFFICES ASSUME DataInv, CompletedByFrozenQuorum,
                      RevisionsComeFromCycles, [Next]_vars
               PROVE  RevisionsComeFromCycles'
    OBVIOUS
  <2>1. CASE NoDataStep
    BY <2>1 DEF NoDataStep, RevisionsComeFromCycles, Created, Captured
  <2>2. CASE \E r \in Requests : DataStep(r)
    BY <2>2, ApprovalAssumption, DataStepRevisions
  <2>3. QED
    BY <2>1, <2>2, StepInv, ApprovalAssumption DEF DataChange
<1>3. QED
  BY <1>1, <1>2, DataInvariant, FrozenQuorum, PTL DEF Spec
=============================================================================
