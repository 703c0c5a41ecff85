------------------------- MODULE RequestPlanProofs -------------------------
(* Theorems about the materialised plan of a request: what it is bound to, *)
(* when it is gone, and the planning version under which it changes; about *)
(* the line of its revisions; and about what its status promises.          *)
EXTENDS RequestApprovalProofs

-----------------------------------------------------------------------------
(* What a step does to the plan of the one request it writes.              *)

\* The plan stays, and the row does not become approved or accepted.
PlanLeft(r) ==
  /\ request'[r].plan = request[r].plan
  /\ request'[r].decisions = request[r].decisions
  /\ request'[r].active = request[r].active
  /\ request'[r].status = "En planification"
       => request[r].status = "En planification"
  /\ request'[r].cancellation = "ACCEPTED"
       => request[r].cancellation = "ACCEPTED"
  /\ UNCHANGED revision

\* The plan is released with its decisions.
PlanReleased(r) ==
  /\ request'[r].plan = NoRevision /\ request'[r].decisions = "NONE"
  /\ request'[r].active = request[r].active
  /\ request'[r].status # "En planification"
  /\ AcquirePlanning /\ UNCHANGED revision

\* The plan is that of the active revision, which is captured after the one it
\* replaces, on a request with no accepted cancellation.
PlanBound(r) ==
  /\ request'[r].plan = request'[r].active
  /\ \/ /\ request'[r].active \in FreshRevisions
        /\ \E c : revision' = [revision EXCEPT ![request'[r].active] =
                               CapturedRevision(r, request[r].active, c)]
     \/ /\ request'[r].active = request[r].active
        /\ request[r].active # NoRevision
        /\ UNCHANGED revision
  /\ request'[r].cancellation # "ACCEPTED"
  /\ AcquirePlanning

\* The decisions of an existing plan change.
PlanRebuilt(r) ==
  /\ request'[r].plan = request[r].plan /\ request[r].plan # NoRevision
  /\ request'[r].active = request[r].active
  /\ request'[r].cancellation = request[r].cancellation
  /\ request'[r].status = "En planification"
       => request[r].status = "En planification"
  /\ AcquirePlanning /\ UNCHANGED revision

PlanStep(r) ==
  /\ \A s \in Requests \ {r} : request'[s] = request[s]
  /\ PlanLeft(r) \/ PlanReleased(r) \/ PlanBound(r) \/ PlanRebuilt(r)

\* A request whose status is, or was for a transaction that still runs, that of
\* an approved request has an active revision.
EverApproved ==
  /\ \A r \in Requests :
       request[r].status = "En planification" => request[r].active # NoRevision
  /\ \A w \in Workers :
       tx[w] # Idle /\ tx[w].seen.status = "En planification"
       => request[tx[w].request].active # NoRevision

PlanInv == PlanIsActiveRevision /\ AcceptedHoldsNoPlan /\ EverApproved

-----------------------------------------------------------------------------
(* Each command is such a step.                                            *)

\* A row written over one that keeps its plan and its decision.
LEMMA LeavesPlan ==
  ASSUME TypeOK, NEW r \in Requests, NEW row,
         request' = [request EXCEPT ![r] = row],
         row.plan = request[r].plan, row.decisions = request[r].decisions,
         row.active = request[r].active,
         row.status = "En planification"
           => request[r].status = "En planification",
         row.cancellation = "ACCEPTED" => request[r].cancellation = "ACCEPTED",
         UNCHANGED revision
  PROVE  PlanStep(r)
BY DEF PlanStep, PlanLeft, TypeOK

\* A submission leaves the plan as it is.
LEMMA SubmitPlan ==
  ASSUME DataInv, NEW w \in Workers, CommitSubmit(w)
  PROVE  PlanStep(tx[w].request)
<1>1. tx[w].request \in Requests /\ request[tx[w].request] \in Request
  BY CommitStart DEF CommitSubmit
<1>2. TypeOK /\ UNCHANGED revision
  BY DEF DataInv, TypeInv, CommitSubmit
<1>3. PICK v : request' = [request EXCEPT ![tx[w].request] =
                [request[tx[w].request] EXCEPT !.status = "Soumise",
                                               !.version = v]]
  BY DEF CommitSubmit
<1>4. QED
  BY <1>1, <1>2, <1>3, LeavesPlan DEF Request

\* A request for correction leaves the plan as it is.
LEMMA CorrectionPlan ==
  ASSUME DataInv, NEW w \in Workers, CommitCorrection(w)
  PROVE  PlanStep(tx[w].request)
<1>1. tx[w].request \in Requests /\ request[tx[w].request] \in Request
  BY CommitStart DEF CommitCorrection
<1>2. TypeOK /\ UNCHANGED revision
  BY DEF DataInv, TypeInv, CommitCorrection
<1>3. PICK v : request' = [request EXCEPT ![tx[w].request] =
                [request[tx[w].request] EXCEPT !.status = "A corriger",
                                               !.version = v]]
  BY DEF CommitCorrection
<1>4. QED
  BY <1>1, <1>2, <1>3, LeavesPlan DEF Request

\* The edition of a draft or of a submission leaves the plan as it is.
LEMMA EditionPlan ==
  ASSUME DataInv, NEW w \in Workers,
         CommitModifyDraft(w) \/ CommitModifySubmitted(w)
  PROVE  PlanStep(tx[w].request)
<1>1. tx[w].request \in Requests /\ request[tx[w].request] \in Request
  BY CommitStart DEF CommitModifyDraft, CommitModifySubmitted, Writes
<1>2. TypeOK /\ UNCHANGED revision
  BY DEF DataInv, TypeInv, CommitModifyDraft, CommitModifySubmitted
<1>3. PICK subject, v :
        request' = [request EXCEPT ![tx[w].request] =
          [request[tx[w].request] EXCEPT !.subject = subject, !.version = v]]
  BY DEF CommitModifyDraft, CommitModifySubmitted
<1>4. QED
  BY <1>1, <1>2, <1>3, LeavesPlan DEF Request

\* A selection or a vote short of the quorum only moves the version.
LEMMA VersionPlan ==
  ASSUME DataInv, NEW w \in Workers,
         CommitSelect(w) \/ CommitStaleVote(w) \/ CommitPartialVote(w)
  PROVE  PlanStep(tx[w].request)
<1>1. tx[w].request \in Requests /\ request[tx[w].request] \in Request
  BY CommitStart DEF CommitSelect, CommitStaleVote, CommitPartialVote
<1>2. TypeOK /\ UNCHANGED revision
  BY DEF DataInv, TypeInv, CommitSelect, CommitStaleVote, CommitPartialVote
<1>3. PICK v : request' = [request EXCEPT ![tx[w].request] =
                            [request[tx[w].request] EXCEPT !.version = v]]
  BY DEF CommitSelect, CommitStaleVote, CommitPartialVote
<1>4. QED
  BY <1>1, <1>2, <1>3, LeavesPlan DEF Request

\* A new contact reopens the approval, and the plan stays meanwhile.
LEMMA ContactPlan ==
  ASSUME DataInv, NEW w \in Workers, CommitContact(w)
  PROVE  PlanStep(tx[w].request)
<1> DEFINE r == tx[w].request
<1>1. r \in Requests /\ request[r] \in Request
  BY CommitStart DEF CommitContact
<1>2. TypeOK /\ UNCHANGED revision
  BY DEF DataInv, TypeInv, CommitContact
<1>3. \/ \E v : request' = [request EXCEPT ![r] =
                              [request[r] EXCEPT !.version = v]]
      \/ \E v : request' = [request EXCEPT ![r] =
                              [request[r] EXCEPT !.status = "Soumise",
                                                 !.version = v]]
  BY DEF CommitContact
<1>4. CASE \E v : request' = [request EXCEPT ![r] =
                                [request[r] EXCEPT !.version = v]]
  <2>1. PICK v : request' = [request EXCEPT ![r] =
                               [request[r] EXCEPT !.version = v]]
    BY <1>4
  <2>2. QED
    BY <1>1, <1>2, <2>1, LeavesPlan DEF Request
<1>5. CASE \E v : request' = [request EXCEPT ![r] =
                                [request[r] EXCEPT !.status = "Soumise",
                                                   !.version = v]]
  <2>1. PICK v : request' = [request EXCEPT ![r] =
                               [request[r] EXCEPT !.status = "Soumise",
                                                  !.version = v]]
    BY <1>5
  <2>2. QED
    BY <1>1, <1>2, <2>1, LeavesPlan DEF Request
<1>6. QED
  BY <1>3, <1>4, <1>5

\* Asking for a cancellation, or rejecting one, leaves the plan as it is.
LEMMA CancellationPlan ==
  ASSUME DataInv, NEW w \in Workers,
         CommitRequestCancellation(w) \/ CommitRejectCancellation(w)
  PROVE  PlanStep(tx[w].request)
<1> DEFINE r == tx[w].request
<1>1. r \in Requests /\ request[r] \in Request
  BY CommitStart DEF CommitRequestCancellation, CommitRejectCancellation
<1>2. TypeOK /\ UNCHANGED revision
  BY DEF DataInv, TypeInv, CommitRequestCancellation, CommitRejectCancellation
<1>3. CASE CommitRequestCancellation(w)
  <2>1. PICK v : request' = [request EXCEPT ![r] =
                   [request[r] EXCEPT !.cancellation = "PENDING",
                                      !.version = v,
                                      !.cancellationId = @ + 1]]
    BY <1>3 DEF CommitRequestCancellation
  <2>2. QED
    BY <1>1, <1>2, <2>1, LeavesPlan DEF Request
<1>4. CASE CommitRejectCancellation(w)
  <2>1. PICK v : request' = [request EXCEPT ![r] =
                   [request[r] EXCEPT !.cancellation = "REJECTED",
                                      !.version = v]]
    BY <1>4 DEF CommitRejectCancellation
  <2>2. QED
    BY <1>1, <1>2, <2>1, LeavesPlan DEF Request
<1>5. QED
  BY <1>3, <1>4

\* A reapproval suspends the request, and the plan stays meanwhile.
LEMMA ReapprovalPlan ==
  ASSUME DataInv, NEW w \in Workers, CommitReapproval(w)
  PROVE  PlanStep(tx[w].request)
<1> DEFINE r == tx[w].request
<1>1. r \in Requests /\ request[r] \in Request
  <2>1. Finish(w, {"modify", "replace"})
    BY DEF CommitReapproval, BeginsApproved, Writes
  <2>2. QED
    BY <2>1, CommitStart
<1>2. TypeOK /\ UNCHANGED revision
  BY DEF DataInv, TypeInv, CommitReapproval
<1>3. PICK subject, v :
        request' = [request EXCEPT ![r] =
          [request[r] EXCEPT !.status = "Soumise", !.subject = subject,
                             !.version = v]]
  BY DEF CommitReapproval
<1>4. QED
  BY <1>1, <1>2, <1>3, LeavesPlan DEF Request

\* A new request has no plan.
LEMMA CreatePlan ==
  ASSUME DataInv, NEW r \in Requests, NEW submit \in BOOLEAN, Create(r, submit)
  PROVE  PlanStep(r)
<1>1. TypeOK /\ request[r] \in Request /\ UNCHANGED revision
  BY DEF DataInv, TypeInv, TypeOK, Create
<1>2. PICK subject \in Subjects :
        \/ request' = [request EXCEPT ![r] =
             [request[r] EXCEPT !.status = "Soumise", !.version = 2,
                                !.subject = subject]]
        \/ request' = [request EXCEPT ![r] =
             [request[r] EXCEPT !.status = "Brouillon", !.version = 1,
                                !.subject = subject]]
  BY DEF Create
<1>3. PICK row \in {[request[r] EXCEPT !.status = "Soumise", !.version = 2,
                                       !.subject = subject],
                    [request[r] EXCEPT !.status = "Brouillon", !.version = 1,
                                       !.subject = subject]} :
        request' = [request EXCEPT ![r] = row]
  BY <1>2
<1>4. QED
  BY <1>1, <1>3, LeavesPlan DEF Request

-----------------------------------------------------------------------------
(* The commands that write a plan.                                         *)

\* A row written with a new revision, active and materialised.
LEMMA BindsPlan ==
  ASSUME TypeOK, NEW r \in Requests, NEW row \in Request,
         NEW version, NEW v \in FreshRevisions, NEW decisions, NEW c,
         row.cancellation # "ACCEPTED",
         request' = [request EXCEPT
                       ![r] = Approved(row, version, v, decisions)],
         revision' = [revision EXCEPT
                        ![v] = CapturedRevision(r, request[r].active, c)],
         AcquirePlanning
  PROVE  PlanStep(r)
<1>1. /\ \A s \in Requests \ {r} : request'[s] = request[s]
      /\ request'[r] = Approved(row, version, v, decisions)
  BY DEF TypeOK
<1>2. /\ Approved(row, version, v, decisions).plan = v
      /\ Approved(row, version, v, decisions).active = v
      /\ Approved(row, version, v, decisions).cancellation = row.cancellation
  BY DEF Approved, Request
<1>3. PlanBound(r)
  BY <1>1, <1>2 DEF PlanBound
<1>4. QED
  BY <1>1, <1>3 DEF PlanStep

\* The vote that completes the quorum binds the plan to the new revision.
LEMMA FinalVotePlan ==
  ASSUME DataInv, NEW w \in Workers, CommitFinalVote(w)
  PROVE  PlanStep(tx[w].request)
<1> DEFINE r == tx[w].request
           version == tx[w].seen.version + 1
           c == cycle[tx[w].cycle]
<1>1. r \in Requests /\ request[r] \in Request
  BY CommitStart DEF CommitFinalVote
<1>2. TypeOK /\ AcquirePlanning /\ request[r].cancellation # "ACCEPTED"
  BY DEF CommitFinalVote, DataInv, TypeInv, MayMaterialise
<1>3. PICK v \in FreshRevisions, decisions \in Rebuilt(request[r].decisions) :
        /\ request' = [request EXCEPT ![r] =
                         Approved(request[r], version, v, decisions)]
        /\ revision' = [revision EXCEPT ![v] =
                          CapturedRevision(r, request[r].active, c)]
  BY DEF CommitFinalVote
<1>4. QED
  <2> HIDE DEF version, c
  <2>1. PlanStep(r)
    <3> HIDE DEF r
    <3> QED BY <1>1, <1>2, <1>3, BindsPlan
  <2>2. QED
    BY <2>1

\* A direct approval binds the plan only when it completes the quorum.
LEMMA DirectApprovalPlan ==
  ASSUME ApprovalAssumption, DataInv, NEW w \in Workers,
         CommitDirectApproval(w)
  PROVE  PlanStep(tx[w].request)
<1> DEFINE r == tx[w].request
           version == tx[w].seen.version + 1
<1>1. r \in Requests /\ version \in Nat /\ request[r] \in Request
  <2>1. Finish(w, {"modify", "replace"})
    BY DEF CommitDirectApproval, BeginsApproved, Writes
  <2>2. QED
    BY <2>1, CommitStart
<1>2. TypeOK /\ AcquirePlanning
  BY DEF CommitDirectApproval, DataInv, TypeInv
<1>3. PICK subject \in Subjects, user \in Users,
           e \in UNION {EnsuredCycles(r, version, s) : s \in Subjects} :
        /\ e \in EnsuredCycles(r, version, subject)
        /\ \/ DirectlyInvalidates(r, e, subject)
           \/ DirectlyVotes(r, e, subject, user)
           \/ DirectlyApproves(r, e, subject, user)
  BY DEF CommitDirectApproval
<1> DEFINE row == DirectRow(r, e, subject)
<1>4. /\ row \in Request
      /\ row.status = "Soumise"
      /\ row.cancellation = request[r].cancellation
      /\ row.plan = request[r].plan /\ row.decisions = request[r].decisions
      /\ row.active = request[r].active
  <2>1. e.version + 1 \in Nat
    <3>1. e.version \in Nat
      <4> HIDE DEF r, version
      <4> QED BY <1>1, <1>2, <1>3, EnsuredCycleType
    <3>2. QED
      BY <3>1
  <2>2. QED
    <3> HIDE DEF r
    <3> QED BY <1>1, <2>1, StatusNames DEF DirectRow, Request
<1>5. CASE \/ DirectlyInvalidates(r, e, subject)
           \/ DirectlyVotes(r, e, subject, user)
  <2>1. request' = [request EXCEPT ![r] = row] /\ UNCHANGED revision
    BY <1>5 DEF DirectlyInvalidates, DirectlyVotes
  <2> HIDE DEF row
  <2>2. QED
    BY <1>1, <1>2, <1>4, <2>1, LeavesPlan
<1>6. CASE DirectlyApproves(r, e, subject, user)
  <2> DEFINE k == e.cycle
             next == e.version + 1
  <2>1. row.cancellation # "ACCEPTED"
    BY <1>6 DEF DirectlyApproves, MayMaterialise
  <2>2. PICK v \in FreshRevisions, decisions \in Rebuilt(request[r].decisions) :
          /\ request' = [request EXCEPT ![r] =
                           Approved(row, next, v, decisions)]
          /\ revision' = [revision EXCEPT ![v] =
                            CapturedRevision(r, request[r].active, k)]
    BY <1>6 DEF DirectlyApproves
  <2>3. PlanStep(r)
    <3> HIDE DEF r, row, k, next
    <3> QED BY <1>1, <1>2, <1>4, <2>1, <2>2, BindsPlan
  <2>4. QED
    BY <2>3
<1>7. QED
  BY <1>3, <1>5, <1>6

\* A candidate inside the envelope leaves the plan, or resynchronises it with
\* the revision that was active when the transaction began.
LEMMA ModifyWithinPlan ==
  ASSUME DataInv, EverApproved, NEW w \in Workers, CommitModifyWithin(w)
  PROVE  PlanStep(tx[w].request)
<1> DEFINE r == tx[w].request
           version == tx[w].seen.version + 1
<1>1. r \in Requests /\ request[r] \in Request /\ tx[w] # Idle
  <2>1. Finish(w, {"modify", "replace"})
    BY DEF CommitModifyWithin, BeginsApproved, Writes
  <2>2. QED
    BY <2>1, CommitStart DEF Finish
<1>2. TypeOK /\ UNCHANGED revision
  BY DEF DataInv, TypeInv, CommitModifyWithin
<1>3. request[r].active # NoRevision
  BY <1>1 DEF CommitModifyWithin, BeginsApproved, EverApproved
<1>4. PICK subject \in Subjects :
        \/ request' = [request EXCEPT ![r] =
                         [request[r] EXCEPT !.subject = subject,
                                            !.version = version]]
        \/ /\ MayMaterialise(request[r]) /\ AcquirePlanning
           /\ \E decisions \in Rebuilt(request[r].decisions) :
                request' = [request EXCEPT ![r] =
                              [request[r] EXCEPT !.subject = subject,
                                                 !.version = version,
                                                 !.plan = request[r].active,
                                                 !.decisions = decisions]]
  BY DEF CommitModifyWithin
<1>5. CASE request' = [request EXCEPT ![r] =
                         [request[r] EXCEPT !.subject = subject,
                                            !.version = version]]
  <2> HIDE DEF version
  <2> QED BY <1>1, <1>2, <1>5, LeavesPlan DEF Request
<1>6. CASE /\ MayMaterialise(request[r]) /\ AcquirePlanning
           /\ \E decisions \in Rebuilt(request[r].decisions) :
                request' = [request EXCEPT ![r] =
                              [request[r] EXCEPT !.subject = subject,
                                                 !.version = version,
                                                 !.plan = request[r].active,
                                                 !.decisions = decisions]]
  <2>1. PICK decisions \in Rebuilt(request[r].decisions) :
          request' = [request EXCEPT ![r] =
                        [request[r] EXCEPT !.subject = subject,
                                           !.version = version,
                                           !.plan = request[r].active,
                                           !.decisions = decisions]]
    BY <1>6
  <2> DEFINE row == [request[r] EXCEPT !.subject = subject,
                                       !.version = version,
                                       !.plan = request[r].active,
                                       !.decisions = decisions]
  <2>2. /\ row.plan = request[r].active /\ row.active = request[r].active
        /\ row.cancellation = request[r].cancellation
    <3> HIDE DEF version
    <3> QED BY <1>1 DEF Request
  <2>3. /\ \A s \in Requests \ {r} : request'[s] = request[s]
        /\ request'[r] = row
    <3> HIDE DEF r
    <3> QED BY <1>1, <1>2, <2>1 DEF TypeOK
  <2>4. request[r].cancellation # "ACCEPTED" /\ AcquirePlanning
    BY <1>6 DEF MayMaterialise
  <2>5. PlanBound(r)
    <3> HIDE DEF row, r
    <3> QED BY <1>2, <1>3, <2>2, <2>3, <2>4 DEF PlanBound
  <2>6. QED
    BY <2>3, <2>5 DEF PlanStep
<1>7. QED
  BY <1>4, <1>5, <1>6

\* A row that releases its plan.
LEMMA ReleasesPlan ==
  ASSUME TypeOK, NEW r \in Requests, NEW row,
         request' = [request EXCEPT ![r] = row],
         row.plan = NoRevision, row.decisions = "NONE",
         row.active = request[r].active, row.status = "Annulee",
         AcquirePlanning, UNCHANGED revision
  PROVE  PlanStep(r)
BY DEF PlanStep, PlanReleased, TypeOK

\* A row that keeps the plan it has, with other decisions.
LEMMA RebuildsPlan ==
  ASSUME TypeOK, NEW r \in Requests, NEW row,
         request' = [request EXCEPT ![r] = row],
         request[r].plan # NoRevision, row.plan = request[r].plan,
         row.active = request[r].active,
         row.cancellation = request[r].cancellation,
         row.status = "En planification"
           => request[r].status = "En planification",
         AcquirePlanning, UNCHANGED revision
  PROVE  PlanStep(r)
BY DEF PlanStep, PlanRebuilt, TypeOK

\* A direct cancellation releases the plan, or keeps what was materialised
\* after it read the requirements.
LEMMA CancelPlan ==
  ASSUME DataInv, NEW w \in Workers, CommitCancel(w)
  PROVE  PlanStep(tx[w].request)
<1> DEFINE r == tx[w].request
           old == request[r]
<1>1. r \in Requests /\ old \in Request
  BY CommitStart DEF CommitCancel
<1>2. TypeOK /\ AcquirePlanning /\ UNCHANGED revision
  BY DEF CommitCancel, DataInv, TypeInv
<1>3. PICK row \in CancelledRows(tx[w]), v \in {tx[w].seen.version + 1,
                                                tx[w].seen.version + 2} :
        request' = [request EXCEPT ![r] = [row EXCEPT !.version = v]]
  BY DEF CommitCancel
<1>4. CASE row = Released(old)
  <2>1. /\ [row EXCEPT !.version = v].plan = NoRevision
        /\ [row EXCEPT !.version = v].decisions = "NONE"
        /\ [row EXCEPT !.version = v].active = old.active
        /\ [row EXCEPT !.version = v].status = "Annulee"
    BY <1>1, <1>4 DEF Released, Request
  <2>2. QED
    BY <1>1, <1>2, <1>3, <2>1, ReleasesPlan
<1>5. CASE row # Released(old)
  <2>1. PICK decisions \in Rebuilt(old.decisions) :
          row = [[old EXCEPT !.status = "Annulee"]
                   EXCEPT !.decisions = decisions]
    BY <1>5 DEF CancelledRows
  <2>2. old.plan # NoRevision
    BY <1>5 DEF CancelledRows
  <2>3. /\ [row EXCEPT !.version = v].plan = old.plan
        /\ [row EXCEPT !.version = v].active = old.active
        /\ [row EXCEPT !.version = v].cancellation = old.cancellation
        /\ [row EXCEPT !.version = v].status = "Annulee"
    BY <1>1, <2>1 DEF Request
  <2>4. QED
    BY <1>1, <1>2, <1>3, <2>2, <2>3, RebuildsPlan
<1>6. QED
  BY <1>4, <1>5

\* The acceptance of a cancellation releases the plan.
LEMMA AcceptPlan ==
  ASSUME DataInv, NEW w \in Workers, CommitAcceptCancellation(w)
  PROVE  PlanStep(tx[w].request)
<1> DEFINE r == tx[w].request
           version == tx[w].seen.version + 1
           row == [Released(request[r]) EXCEPT !.cancellation = "ACCEPTED",
                                               !.version = version]
<1>1. r \in Requests /\ request[r] \in Request
  BY CommitStart DEF CommitAcceptCancellation
<1>2. /\ TypeOK /\ AcquirePlanning /\ UNCHANGED revision
      /\ request' = [request EXCEPT ![r] = row]
  BY DEF CommitAcceptCancellation, DataInv, TypeInv
<1>3. /\ row.plan = NoRevision /\ row.decisions = "NONE"
      /\ row.active = request[r].active /\ row.status = "Annulee"
  <2> HIDE DEF version, r
  <2> QED BY <1>1 DEF Released, Request
<1>4. QED
  <2> HIDE DEF row
  <2> QED BY <1>1, <1>2, <1>3, ReleasesPlan

\* A person edits decisions of a plan that exists.
LEMMA EditPlanPlan ==
  ASSUME DataInv, NEW r \in Requests, EditPlan(r)
  PROVE  PlanStep(r)
<1>1. /\ TypeOK /\ request[r] \in Request /\ AcquirePlanning
      /\ request[r].plan # NoRevision /\ UNCHANGED revision
  BY DEF EditPlan, DataInv, TypeInv, TypeOK
<1>2. PICK decisions \in Decisions :
        request' = [request EXCEPT ![r] =
                      [request[r] EXCEPT !.decisions = decisions]]
  BY DEF EditPlan
<1>3. QED
  BY <1>1, <1>2, RebuildsPlan DEF Request

-----------------------------------------------------------------------------
(* Every step.                                                             *)

PlanChange ==
  UNCHANGED <<request, revision>> \/ \E r \in Requests : PlanStep(r)

\* A transaction keeps the request and the status it read, or has just read
\* them.
SeenKept ==
  \A w \in Workers :
    tx'[w] # Idle =>
      \/ /\ tx[w] # Idle
         /\ tx'[w].request = tx[w].request
         /\ tx'[w].seen.status = tx[w].seen.status
      \/ /\ tx'[w].request \in Requests /\ UNCHANGED request
         /\ tx'[w].seen.status = request[tx'[w].request].status

\* A transaction that ends changes what no other transaction read.
LEMMA EndsTransaction ==
  ASSUME TypeOK, NEW w \in Workers, tx' = [tx EXCEPT ![w] = Idle]
  PROVE  SeenKept
BY DEF SeenKept, TypeOK

\* A transaction starts on the status that the row has.
LEMMA StartsTransaction ==
  ASSUME TypeOK, NEW w \in Workers, NEW t, Start(w, t),
         t.request \in Requests, t.seen.status = request[t.request].status
  PROVE  SeenKept
BY DEF SeenKept, TypeOK, Start

\* A command that begins has just read its request.
LEMMA BeginSeen ==
  ASSUME DataInv, NEW w \in Workers, NEW r \in Requests,
         NEW command \in Commands, Begin(w, r, command)
  PROVE  SeenKept /\ UNCHANGED <<request, revision>>
<1> DEFINE t == [ command |-> command, request |-> r,
                  seen |-> Snapshot(request[r], command), cycle |-> NoCycle,
                  user |-> NoUser, targets |-> {}, finalizes |-> FALSE,
                  stale |-> FALSE ]
<1>1. Start(w, t) /\ TypeOK
  BY DEF Begin, DataInv, TypeInv
<1>2. t.request = r /\ t.seen.status = request[r].status
  BY DEF Snapshot
<1>3. UNCHANGED <<request, revision>>
  BY <1>1 DEF Start
<1>4. QED
  <2> HIDE DEF t
  <2> QED BY <1>1, <1>2, <1>3, StartsTransaction

\* A vote that begins has just read its request.
LEMMA BeginVoteSeen ==
  ASSUME DataInv, NEW w \in Workers, NEW r \in Requests, BeginVote(w, r)
  PROVE  SeenKept /\ UNCHANGED <<request, revision>>
<1>1. PICK t : /\ Start(w, t)
               /\ t.request = r /\ t.seen = Snapshot(request[r], "vote")
  BY DEF BeginVote
<1>2. t.seen.status = request[r].status
  BY <1>1 DEF Snapshot
<1>3. UNCHANGED <<request, revision>> /\ TypeOK
  BY <1>1 DEF Start, DataInv, TypeInv
<1>4. QED
  BY <1>1, <1>2, <1>3, StartsTransaction

\* The second read of a command keeps the first status.
LEMMA RereadSeen ==
  ASSUME DataInv, NEW w \in Workers, Reread(w)
  PROVE  SeenKept /\ UNCHANGED <<request, revision>>
<1> DEFINE t == tx[w]
           row == request[t.request]
<1>1. PICK plan \in {t.seen.plan, Snapshot(row, t.command).plan} :
        tx' = [tx EXCEPT ![w].seen =
                 [tx[w].seen EXCEPT !.version = row.version, !.plan = plan]]
  BY DEF Reread
<1>2. t \in Transaction /\ t # Idle /\ t.seen \in Seen
  BY RunningTransaction DEF Reread, DataInv, TypeInv, Transaction
<1> DEFINE seen == [tx[w].seen EXCEPT !.version = row.version, !.plan = plan]
<1>3. seen.status = t.seen.status
  BY <1>2 DEF Seen
<1>4. /\ tx \in [Workers -> Transaction \cup {Idle}]
      /\ UNCHANGED <<request, revision>>
  BY DEF Reread, DataInv, TypeInv, TypeOK
<1>5. tx' = [tx EXCEPT ![w] = [t EXCEPT !.seen = seen]]
  <2> HIDE DEF seen
  <2> QED BY <1>1, <1>4 DEF seen
<1>6. [t EXCEPT !.seen = seen].seen = seen
      /\ [t EXCEPT !.seen = seen].request = t.request
  <2> HIDE DEF seen
  <2> QED BY <1>2 DEF Transaction
<1>7. tx'[w] = [t EXCEPT !.seen = seen]
      /\ \A u \in Workers \ {w} : tx'[u] = tx[u]
  <2> HIDE DEF seen
  <2> QED BY <1>4, <1>5
<1>8. QED
  <2> HIDE DEF seen
  <2> QED BY <1>2, <1>3, <1>4, <1>6, <1>7 DEF SeenKept

\* Every step of a worker writes at most one plan.
LEMMA CommandPlan ==
  ASSUME ApprovalAssumption, DataInv, EverApproved, NEW w \in Workers,
         Command(w)
  PROVE  PlanChange /\ SeenKept
<1>0. TypeOK
  BY DEF DataInv, TypeInv
<1>1. CASE \E r \in Requests, command \in Commands : Begin(w, r, command)
  BY <1>1, BeginSeen DEF PlanChange
<1>2. CASE \E r \in Requests : BeginVote(w, r)
  BY <1>2, BeginVoteSeen DEF PlanChange
<1>3. CASE Reread(w)
  BY <1>3, RereadSeen DEF PlanChange
<1>4. CASE Rollback(w)
  BY <1>0, <1>4, EndsTransaction DEF Rollback, PlanChange
<1>5. ASSUME NEW commands, Finish(w, commands), PlanStep(tx[w].request)
      PROVE  PlanChange /\ SeenKept
  <2>1. tx[w].request \in Requests /\ tx' = [tx EXCEPT ![w] = Idle]
    BY <1>5, CommitStart DEF Finish
  <2>2. QED
    BY <1>0, <1>5, <2>1, EndsTransaction DEF PlanChange
<1>6. CASE CommitSubmit(w)
  <2>1. PlanStep(tx[w].request)
    BY <1>6, SubmitPlan
  <2>2. \E commands : Finish(w, commands)
    BY <1>6 DEF CommitSubmit
  <2>3. QED
    BY <1>5, <2>1, <2>2
<1>7. CASE CommitCorrection(w)
  <2>1. PlanStep(tx[w].request)
    BY <1>7, CorrectionPlan
  <2>2. \E commands : Finish(w, commands)
    BY <1>7 DEF CommitCorrection
  <2>3. QED
    BY <1>5, <2>1, <2>2
<1>8. CASE CommitModifyDraft(w)
  <2>1. PlanStep(tx[w].request)
    BY <1>8, EditionPlan
  <2>2. \E commands : Finish(w, commands)
    BY <1>8 DEF CommitModifyDraft, Writes
  <2>3. QED
    BY <1>5, <2>1, <2>2
<1>9. CASE CommitModifySubmitted(w)
  <2>1. PlanStep(tx[w].request)
    BY <1>9, EditionPlan
  <2>2. \E commands : Finish(w, commands)
    BY <1>9 DEF CommitModifySubmitted, Writes
  <2>3. QED
    BY <1>5, <2>1, <2>2
<1>10. CASE CommitSelect(w)
  <2>1. PlanStep(tx[w].request)
    BY <1>10, VersionPlan
  <2>2. \E commands : Finish(w, commands)
    BY <1>10 DEF CommitSelect
  <2>3. QED
    BY <1>5, <2>1, <2>2
<1>11. CASE CommitContact(w)
  <2>1. PlanStep(tx[w].request)
    BY <1>11, ContactPlan
  <2>2. \E commands : Finish(w, commands)
    BY <1>11 DEF CommitContact
  <2>3. QED
    BY <1>5, <2>1, <2>2
<1>12. CASE CommitStaleVote(w)
  <2>1. PlanStep(tx[w].request)
    BY <1>12, VersionPlan
  <2>2. \E commands : Finish(w, commands)
    BY <1>12 DEF CommitStaleVote
  <2>3. QED
    BY <1>5, <2>1, <2>2
<1>13. CASE CommitPartialVote(w)
  <2>1. PlanStep(tx[w].request)
    BY <1>13, VersionPlan
  <2>2. \E commands : Finish(w, commands)
    BY <1>13 DEF CommitPartialVote
  <2>3. QED
    BY <1>5, <2>1, <2>2
<1>14. CASE CommitFinalVote(w)
  <2>1. PlanStep(tx[w].request)
    BY <1>14, FinalVotePlan
  <2>2. \E commands : Finish(w, commands)
    BY <1>14 DEF CommitFinalVote
  <2>3. QED
    BY <1>5, <2>1, <2>2
<1>15. CASE CommitModifyWithin(w)
  <2>1. PlanStep(tx[w].request)
    BY <1>15, ModifyWithinPlan
  <2>2. \E commands : Finish(w, commands)
    BY <1>15 DEF CommitModifyWithin, BeginsApproved, Writes
  <2>3. QED
    BY <1>5, <2>1, <2>2
<1>16. CASE CommitReapproval(w)
  <2>1. PlanStep(tx[w].request)
    BY <1>16, ReapprovalPlan
  <2>2. \E commands : Finish(w, commands)
    BY <1>16 DEF CommitReapproval, BeginsApproved, Writes
  <2>3. QED
    BY <1>5, <2>1, <2>2
<1>17. CASE CommitDirectApproval(w)
  <2>1. PlanStep(tx[w].request)
    BY <1>17, DirectApprovalPlan
  <2>2. \E commands : Finish(w, commands)
    BY <1>17 DEF CommitDirectApproval, BeginsApproved, Writes
  <2>3. QED
    BY <1>5, <2>1, <2>2
<1>18. CASE CommitCancel(w)
  <2>1. PlanStep(tx[w].request)
    BY <1>18, CancelPlan
  <2>2. \E commands : Finish(w, commands)
    BY <1>18 DEF CommitCancel
  <2>3. QED
    BY <1>5, <2>1, <2>2
<1>19. CASE CommitRequestCancellation(w)
  <2>1. PlanStep(tx[w].request)
    BY <1>19, CancellationPlan
  <2>2. \E commands : Finish(w, commands)
    BY <1>19 DEF CommitRequestCancellation
  <2>3. QED
    BY <1>5, <2>1, <2>2
<1>20. CASE CommitAcceptCancellation(w)
  <2>1. PlanStep(tx[w].request)
    BY <1>20, AcceptPlan
  <2>2. \E commands : Finish(w, commands)
    BY <1>20 DEF CommitAcceptCancellation
  <2>3. QED
    BY <1>5, <2>1, <2>2
<1>21. CASE CommitRejectCancellation(w)
  <2>1. PlanStep(tx[w].request)
    BY <1>21, CancellationPlan
  <2>2. \E commands : Finish(w, commands)
    BY <1>21 DEF CommitRejectCancellation
  <2>3. QED
    BY <1>5, <2>1, <2>2
<1>22. QED
  BY <1>1, <1>2, <1>3, <1>4, <1>6, <1>7, <1>8, <1>9, <1>10, <1>11, <1>12,
     <1>13, <1>14, <1>15, <1>16, <1>17, <1>18, <1>19, <1>20, <1>21
     DEF Command

\* Every step of the system writes at most one plan.
LEMMA NextPlan ==
  ASSUME ApprovalAssumption, DataInv, EverApproved, [Next]_vars
  PROVE  PlanChange /\ SeenKept
<1>1. CASE \E r \in Requests, submit \in BOOLEAN : Create(r, submit)
  <2>1. SeenKept
    BY <1>1 DEF Create, SeenKept
  <2>2. QED
    BY <1>1, <2>1, CreatePlan DEF PlanChange
<1>2. CASE \E r \in Requests : EditPlan(r)
  <2>1. SeenKept
    BY <1>2 DEF EditPlan, SeenKept
  <2>2. QED
    BY <1>2, <2>1, EditPlanPlan DEF PlanChange
<1>3. CASE ChangeRouting
  BY <1>3 DEF ChangeRouting, SeenKept, PlanChange
<1>4. CASE \E w \in Workers : Command(w)
  BY <1>4, CommandPlan
<1>5. CASE UNCHANGED vars
  BY <1>5 DEF vars, SeenKept, PlanChange
<1>6. QED
  BY <1>1, <1>2, <1>3, <1>4, <1>5 DEF Next

-----------------------------------------------------------------------------
(* The invariant.                                                          *)

\* What the invariant says of one request after a step.
RowHolds(s) ==
  LET row == request'[s] IN
  /\ row.plan \in {NoRevision, row.active}
  /\ row.active # NoRevision =>
       revision'[row.active] # Unused /\ revision'[row.active].request = s
  /\ row.decisions # "NONE" => row.plan # NoRevision
  /\ row.cancellation = "ACCEPTED" =>
       row.plan = NoRevision /\ row.decisions = "NONE"
  /\ row.status = "En planification" => row.active # NoRevision
  /\ request[s].active # NoRevision => row.active # NoRevision

\* A request that keeps its active revision keeps it captured, because a
\* captured revision never changes.
LEMMA ActiveStays ==
  ASSUME DataInv, PlanIsActiveRevision, HistoryKept, NEW s \in Requests,
         request'[s].active = request[s].active,
         request[s].active # NoRevision
  PROVE  /\ revision'[request'[s].active] # Unused
         /\ revision'[request'[s].active].request = s
<1>1. request[s].active \in RevisionIds
  BY DEF DataInv, TypeInv, TypeOK, Request
<1>2. /\ revision[request[s].active] # Unused
      /\ revision[request[s].active].request = s
  BY DEF PlanIsActiveRevision, Captured
<1>3. revision'[request[s].active] = revision[request[s].active]
  BY <1>1, <1>2 DEF HistoryKept, Captured
<1>4. QED
  BY <1>2, <1>3

\* A step that writes a plan keeps the invariant of every request.
LEMMA PlanStepKeeps ==
  ASSUME ApprovalAssumption, DataInv, PlanInv, HistoryKept,
         NEW r \in Requests, PlanStep(r), NEW s \in Requests
  PROVE  RowHolds(s)
<1>1. /\ request[s].plan \in {NoRevision, request[s].active}
      /\ request[s].decisions # "NONE" => request[s].plan # NoRevision
      /\ request[s].cancellation = "ACCEPTED" =>
           request[s].plan = NoRevision /\ request[s].decisions = "NONE"
      /\ request[s].status = "En planification" =>
           request[s].active # NoRevision
  BY DEF PlanInv, PlanIsActiveRevision, AcceptedHoldsNoPlan, EverApproved
<1>2. request'[s].active = request[s].active /\ request[s].active # NoRevision
        => /\ revision'[request'[s].active] # Unused
           /\ revision'[request'[s].active].request = s
  BY ActiveStays DEF PlanInv
<1>3. CASE s # r
  <2>1. request'[s] = request[s]
    BY <1>3 DEF PlanStep
  <2>2. QED
    BY <1>1, <1>2, <2>1 DEF RowHolds
<1>4. CASE s = r /\ PlanLeft(r)
  BY <1>1, <1>2, <1>4 DEF RowHolds, PlanLeft
<1>5. CASE s = r /\ PlanReleased(r)
  BY <1>2, <1>5 DEF RowHolds, PlanReleased
<1>6. CASE s = r /\ PlanBound(r)
  <2>1. request'[s].active # NoRevision
    BY <1>6 DEF PlanBound, ApprovalAssumption, FreshRevisions
  <2>2. /\ revision'[request'[s].active] # Unused
        /\ revision'[request'[s].active].request = s
    <3>1. CASE UNCHANGED revision /\ request'[r].active = request[r].active
      BY <1>2, <1>6, <2>1, <3>1
    <3>2. ASSUME NEW c, request'[r].active \in FreshRevisions,
                 revision' = [revision EXCEPT ![request'[r].active] =
                                CapturedRevision(r, request[r].active, c)]
          PROVE  /\ revision'[request'[s].active] # Unused
                 /\ revision'[request'[s].active].request = s
      <4>1. revision'[request'[s].active]
              = CapturedRevision(r, request[r].active, c)
        BY <1>6, <3>2 DEF FreshRevisions, DataInv, TypeInv, TypeOK
      <4>2. QED
        BY <1>6, <4>1 DEF CapturedRevision, Unused
    <3>3. QED
      BY <1>6, <3>1, <3>2 DEF PlanBound
  <2>3. QED
    BY <1>6, <2>1, <2>2 DEF RowHolds, PlanBound
<1>7. CASE s = r /\ PlanRebuilt(r)
  BY <1>1, <1>2, <1>7 DEF RowHolds, PlanRebuilt
<1>8. QED
  BY <1>3, <1>4, <1>5, <1>6, <1>7 DEF PlanStep

\* PlanInv is inductive on top of DataInv.
LEMMA PlanInductive ==
  ASSUME ApprovalAssumption, DataInv, PlanInv, [Next]_vars
  PROVE  PlanInv'
<1>1. PlanChange /\ SeenKept
  BY NextPlan DEF PlanInv
<1>2. HistoryKept
  BY StepInv, DataStepHistory, NoDataHistory DEF DataChange
<1>3. \A s \in Requests : RowHolds(s)
  <2> SUFFICES ASSUME NEW s \in Requests PROVE RowHolds(s)
    OBVIOUS
  <2>1. CASE UNCHANGED request
    <3>1. request[s].active # NoRevision
            => /\ revision'[request'[s].active] # Unused
               /\ revision'[request'[s].active].request = s
      BY <1>2, <2>1, ActiveStays DEF PlanInv
    <3>2. QED
      BY <2>1, <3>1
         DEF RowHolds, PlanInv, PlanIsActiveRevision, AcceptedHoldsNoPlan,
             EverApproved
  <2>2. CASE \E r \in Requests : PlanStep(r)
    BY <1>2, <2>2, PlanStepKeeps
  <2>3. QED
    BY <1>1, <2>1, <2>2 DEF PlanChange
<1>4. PlanIsActiveRevision' /\ AcceptedHoldsNoPlan'
  BY <1>3 DEF RowHolds, PlanIsActiveRevision, AcceptedHoldsNoPlan, Captured
<1>5. EverApproved'
  <2>1. ASSUME NEW r \in Requests, request'[r].status = "En planification"
        PROVE  request'[r].active # NoRevision
    BY <1>3, <2>1 DEF RowHolds
  <2>2. ASSUME NEW w \in Workers, tx'[w] # Idle,
               tx'[w].seen.status = "En planification"
        PROVE  request'[tx'[w].request].active # NoRevision
    <3>1. CASE /\ tx[w] # Idle /\ tx'[w].request = tx[w].request
               /\ tx'[w].seen.status = tx[w].seen.status
      <4>1. request[tx[w].request].active # NoRevision
        BY <2>2, <3>1 DEF PlanInv, EverApproved
      <4>2. tx[w].request \in Requests
        BY <3>1, RunningTransaction DEF DataInv, TypeInv
      <4>3. QED
        BY <1>3, <3>1, <4>1, <4>2 DEF RowHolds
    <3>2. CASE /\ tx'[w].request \in Requests /\ UNCHANGED request
               /\ tx'[w].seen.status = request[tx'[w].request].status
      BY <2>2, <3>2 DEF PlanInv, EverApproved
    <3>3. QED
      BY <1>1, <2>2, <3>1, <3>2 DEF SeenKept
  <2>3. QED
    BY <2>1, <2>2 DEF EverApproved
<1>6. QED
  BY <1>4, <1>5 DEF PlanInv

\* No request has a plan at first.
LEMMA InitPlan == Init => PlanInv
<1> SUFFICES ASSUME Init
             PROVE  PlanInv
  OBVIOUS
<1>1. ASSUME NEW r \in Requests
      PROVE  /\ request[r].plan = NoRevision
             /\ request[r].active = NoRevision
             /\ request[r].decisions = "NONE"
             /\ request[r].status = "ABSENT"
  BY DEF Init
<1>2. \A w \in Workers : tx[w] = Idle
  BY DEF Init
<1>3. PlanIsActiveRevision /\ AcceptedHoldsNoPlan
  BY <1>1 DEF PlanIsActiveRevision, AcceptedHoldsNoPlan
<1>4. EverApproved
  BY <1>1, <1>2 DEF EverApproved
<1>5. QED
  BY <1>3, <1>4 DEF PlanInv

\* The plan, the active reference and what transactions read of them agree in
\* every reachable state.
THEOREM PlanInvariant == Spec => []PlanInv
<1>1. DataInv /\ PlanInv /\ [Next]_vars => PlanInv'
  BY PlanInductive, ApprovalAssumption
<1>2. QED
  BY <1>1, InitPlan, DataInvariant, PTL DEF Spec

\* What is materialised is the active approved revision of the request, never
\* a candidate, whichever blind writes interleave.
THEOREM PlanFollowsApproval == Spec => []PlanIsActiveRevision
<1>1. PlanInv => PlanIsActiveRevision
  BY DEF PlanInv
<1>2. QED
  BY <1>1, PlanInvariant, PTL

\* A request whose cancellation was accepted holds no plan and no decision, and
\* no transaction that had read it before brings one back.
THEOREM AcceptedStaysReleased == Spec => []AcceptedHoldsNoPlan
<1>1. PlanInv => AcceptedHoldsNoPlan
  BY DEF PlanInv
<1>2. QED
  BY <1>1, PlanInvariant, PTL

\* The planning CAS moves the version, whatever it wraps around to.
LEMMA PlanningMoves ==
  ASSUME ApprovalAssumption, TypeOK, AcquirePlanning
  PROVE  planningVersion' # planningVersion
<1>1. /\ PlanningModulus \in Nat /\ PlanningModulus >= 2
      /\ planningVersion \in 0..(PlanningModulus - 1)
      /\ planningVersion' = (planningVersion + 1) % PlanningModulus
  BY DEF ApprovalAssumption, TypeOK, AcquirePlanning
<1>2. CASE planningVersion = PlanningModulus - 1
  BY <1>1, <1>2
<1>3. CASE planningVersion # PlanningModulus - 1
  <2>1. (planningVersion + 1) % PlanningModulus = planningVersion + 1
    BY <1>1, <1>3
  <2>2. QED
    BY <1>1, <2>1
<1>4. QED
  BY <1>2, <1>3

\* A step that changes a plan or a decision in it has advanced the global
\* planning version, so that no planning command that read the version before
\* can still commit.
THEOREM PlanChangesUnderCas == Spec => PlanUnderPlanningVersion
<1> DEFINE Changes ==
      \E r \in Requests :
        \/ request'[r].plan # request[r].plan
        \/ request'[r].decisions # request[r].decisions
<1>1. DataInv /\ PlanInv /\ [Next]_vars
        => (Changes => planningVersion' # planningVersion)
  <2> SUFFICES ASSUME DataInv, PlanInv, [Next]_vars, Changes
               PROVE  planningVersion' # planningVersion
    OBVIOUS
  <2>1. PlanChange
    BY NextPlan, ApprovalAssumption DEF PlanInv
  <2>2. PICK r \in Requests : PlanStep(r)
    BY <2>1 DEF PlanChange
  <2>3. ~PlanLeft(r)
    BY <2>2 DEF PlanStep, PlanLeft
  <2>4. AcquirePlanning
    BY <2>2, <2>3 DEF PlanStep, PlanReleased, PlanBound, PlanRebuilt
  <2>5. QED
    BY <2>4, PlanningMoves, ApprovalAssumption DEF DataInv, TypeInv
<1>2. DataInv /\ PlanInv /\ [Next]_vars
        => [Changes => planningVersion' # planningVersion]_vars
  BY <1>1
<1>3. QED
  BY <1>2, DataInvariant, PlanInvariant, PTL
     DEF Spec, PlanUnderPlanningVersion

-----------------------------------------------------------------------------
(* The line of revisions.                                                  *)

\* No revision has been captured after the active one of its request, and the
\* one that a revision replaces is captured.
ActiveIsLast ==
  \A v \in RevisionIds :
    Captured(v) =>
      /\ revision[v].previous # request[revision[v].request].active
      /\ revision[v].previous # NoRevision => Captured(revision[v].previous)

\* The invariant.
LineInv == RevisionHistoryLinear /\ ActiveIsLast

\* A step that captures nothing leaves the line.
LEMMA LineStays ==
  ASSUME DataInv, LineInv, UNCHANGED revision,
         \A r \in Requests : request'[r].active = request[r].active
  PROVE  LineInv'
<1>1. \A v \in RevisionIds : Captured(v) => revision[v].request \in Requests
  BY DEF DataInv, TypeInv, TypeOK, Captured, Revision
<1>2. QED
  BY <1>1 DEF LineInv, RevisionHistoryLinear, ActiveIsLast, Captured

\* A revision that is captured after the active one, and becomes active,
\* continues the line.
LEMMA LineGrows ==
  ASSUME ApprovalAssumption, DataInv, PlanIsActiveRevision, LineInv,
         NEW r \in Requests, NEW v \in FreshRevisions, NEW c,
         revision' = [revision EXCEPT
                        ![v] = CapturedRevision(r, request[r].active, c)],
         request'[r].active = v,
         \A s \in Requests \ {r} : request'[s].active = request[s].active
  PROVE  LineInv'
<1> DEFINE old == request[r].active
<1>1. /\ v \in RevisionIds /\ ~Captured(v)
      /\ revision \in [RevisionIds -> Revision \cup {Unused}]
  BY DEF FreshRevisions, Captured, DataInv, TypeInv, TypeOK
<1>2. /\ v # NoRevision /\ old # v
      /\ old # NoRevision => old \in RevisionIds /\ Captured(old)
  BY <1>1 DEF PlanIsActiveRevision, ApprovalAssumption, DataInv, TypeInv,
              TypeOK, Request
<1>3. /\ revision'[v].request = r /\ revision'[v].previous = old
      /\ revision'[v] # Unused
  BY <1>1 DEF CapturedRevision, Unused
<1>4. \A u \in RevisionIds \ {v} : revision'[u] = revision[u]
  BY <1>1
<1>5. \A u \in RevisionIds :
        Captured(u) => revision[u].request \in Requests /\ u # v
  BY <1>1 DEF Captured, Revision
<1>6. ASSUME NEW u \in RevisionIds, revision[u] # Unused
      PROVE  /\ revision[u].request = r => revision[u].previous # old
             /\ revision[u].previous # v
  <2>1. /\ revision[u].previous # request[revision[u].request].active
        /\ revision[u].previous # NoRevision => Captured(revision[u].previous)
    BY <1>6 DEF LineInv, ActiveIsLast, Captured
  <2>2. QED
    BY <1>1, <1>2, <2>1
<1>7. RevisionHistoryLinear'
  <2> SUFFICES ASSUME NEW u \in RevisionIds, NEW x \in RevisionIds,
                      revision'[u] # Unused, revision'[x] # Unused,
                      revision'[u].request = revision'[x].request,
                      revision'[u].previous = revision'[x].previous
               PROVE  u = x
    BY DEF RevisionHistoryLinear, Captured
  <2>1. CASE u # v /\ x # v
    BY <1>4, <2>1 DEF LineInv, RevisionHistoryLinear, Captured
  <2>2. CASE u = v \/ x = v
    BY <1>3, <1>4, <1>6, <2>2
  <2>3. QED
    BY <2>1, <2>2
<1>8. ActiveIsLast'
  <2> SUFFICES ASSUME NEW u \in RevisionIds, revision'[u] # Unused
               PROVE  /\ revision'[u].previous
                           # request'[revision'[u].request].active
                      /\ revision'[u].previous # NoRevision
                           => revision'[revision'[u].previous] # Unused
    BY DEF ActiveIsLast, Captured
  <2>1. CASE u = v
    <3>1. old # NoRevision => revision'[old] # Unused
      BY <1>2, <1>4 DEF Captured
    <3>2. QED
      BY <1>2, <1>3, <2>1, <3>1
  <2>2. CASE u # v
    <3>1. revision'[u] = revision[u]
      BY <1>4, <2>2
    <3>2. /\ revision[u].request \in Requests
          /\ revision[u].previous # request[revision[u].request].active
          /\ revision[u].previous # NoRevision =>
               Captured(revision[u].previous)
          /\ revision[u].previous \in RevisionIds \cup {NoRevision}
      BY <1>1, <1>5, <3>1 DEF LineInv, ActiveIsLast, Captured, Revision
    <3>3. revision[u].previous # request'[revision[u].request].active
      BY <1>6, <3>1, <3>2
    <3>4. revision[u].previous # NoRevision
            => revision'[revision[u].previous] # Unused
      BY <1>3, <1>4, <3>2 DEF Captured
    <3>5. QED
      BY <3>1, <3>3, <3>4
  <2>3. QED
    BY <2>1, <2>2
<1>9. QED
  BY <1>7, <1>8 DEF LineInv

\* Every step keeps the line.
LEMMA LineInductive ==
  ASSUME ApprovalAssumption, DataInv, PlanInv, LineInv, [Next]_vars
  PROVE  LineInv'
<1>1. CASE UNCHANGED <<request, revision>>
  BY <1>1, LineStays
<1>2. ASSUME NEW r \in Requests, PlanStep(r)
      PROVE  LineInv'
  <2>1. \A s \in Requests \ {r} : request'[s].active = request[s].active
    BY <1>2 DEF PlanStep
  <2>2. CASE UNCHANGED revision /\ request'[r].active = request[r].active
    BY <2>1, <2>2, LineStays
  <2>3. ASSUME NEW c, request'[r].active \in FreshRevisions,
               revision' = [revision EXCEPT ![request'[r].active] =
                              CapturedRevision(r, request[r].active, c)]
        PROVE  LineInv'
    <3>1. PICK v \in FreshRevisions : v = request'[r].active
      BY <2>3
    <3>2. QED
      BY <2>1, <2>3, <3>1, LineGrows DEF PlanInv
  <2>4. \/ UNCHANGED revision /\ request'[r].active = request[r].active
        \/ /\ request'[r].active \in FreshRevisions
           /\ \E c : revision' = [revision EXCEPT ![request'[r].active] =
                                  CapturedRevision(r, request[r].active, c)]
    BY <1>2 DEF PlanStep, PlanLeft, PlanReleased, PlanBound, PlanRebuilt
  <2>5. QED
    BY <2>2, <2>3, <2>4
<1>3. QED
  BY <1>1, <1>2, NextPlan DEF PlanChange, PlanInv

\* The revisions of a request are one line, of which the active one is the
\* last: two approvals that race do not both replace the same revision.
THEOREM RevisionsInLine == Spec => []RevisionHistoryLinear
<1>1. Init => LineInv
  BY DEF Init, LineInv, RevisionHistoryLinear, ActiveIsLast, Captured
<1>2. DataInv /\ PlanInv /\ LineInv /\ [Next]_vars => LineInv'
  BY LineInductive, ApprovalAssumption
<1>3. LineInv => RevisionHistoryLinear
  BY DEF LineInv
<1>4. QED
  BY <1>1, <1>2, <1>3, DataInvariant, PlanInvariant, PTL DEF Spec

-----------------------------------------------------------------------------
(* What a status promises, when commands run one after the other.          *)

\* What the status of a request promises of it.
EarnedAt(r) ==
  LET row == request[r]
      approved == revision[row.active].subject
  IN
  /\ OpenCycles(r) # {} =>
       row.status = "Soumise" \/ row.cancellation = "ACCEPTED"
  /\ row.status = "En planification" =>
       /\ row.active # NoRevision /\ row.plan = row.active
       /\ approved = row.subject \/ <<approved, row.subject>> \in Delegated
       /\ OpenCycles(r) = {}
  /\ row.status = "Annulee" =>
       row.plan = NoRevision /\ row.decisions = "NONE"

\* The same after a step.
OpenAfter(r) ==
  {c \in CycleIds : cycle'[c].state = "OPEN" /\ cycle'[c].request = r}

EarnedAfter(r) ==
  LET row == request'[r]
      approved == revision'[row.active].subject
  IN
  /\ OpenAfter(r) # {} =>
       row.status = "Soumise" \/ row.cancellation = "ACCEPTED"
  /\ row.status = "En planification" =>
       /\ row.active # NoRevision /\ row.plan = row.active
       /\ approved = row.subject \/ <<approved, row.subject>> \in Delegated
       /\ OpenAfter(r) = {}
  /\ row.status = "Annulee" =>
       row.plan = NoRevision /\ row.decisions = "NONE"

\* No command changes the request of another that runs: what it decided on is
\* still so.
SeenCurrent ==
  \A w \in Workers :
    tx[w] # Idle =>
      LET t == tx[w]
          row == request[t.request]
      IN
      /\ row.status = t.seen.status /\ row.status # "ABSENT"
      /\ t.command = "vote" => row.status = "Soumise"
      /\ t.command = "cancel" => t.seen.plan = row.plan
      /\ t.command = "rejectCancellation" => row.cancellation = "PENDING"

EarnedInv == SeenCurrent /\ \A r \in Requests : EarnedAt(r)

\* An OPEN cycle is a created one.
LEMMA OpenIsCreated ==
  ASSUME NEW c, cycle[c].state = "OPEN"
  PROVE  cycle[c] # Unused
BY DEF Unused

\* A status is earned when every request has earned its own.
LEMMA EarnedEverywhere ==
  ASSUME TypeOK
  PROVE  StatusIsEarned <=> \A r \in Requests : EarnedAt(r)
<1>1. ASSUME StatusIsEarned, NEW r \in Requests
      PROVE  EarnedAt(r)
  <2>1. \A c \in OpenCycles(r) :
          c \in CycleIds /\ Created(c) /\ cycle[c].state = "OPEN"
          /\ cycle[c].request = r
    BY OpenIsCreated DEF OpenCycles, Created
  <2>2. QED
    BY <1>1, <2>1
       DEF StatusIsEarned, OpenCycleMeansSubmitted, ApprovedIsAuthorised,
           CancelledHoldsNoPlan, EarnedAt
<1>2. ASSUME \A r \in Requests : EarnedAt(r)
      PROVE  StatusIsEarned
  <2>1. ASSUME NEW c \in CycleIds, Created(c), cycle[c].state = "OPEN"
        PROVE  /\ cycle[c].request \in Requests
               /\ c \in OpenCycles(cycle[c].request)
    BY <2>1 DEF Created, TypeOK, Cycle, OpenCycles
  <2>2. OpenCycleMeansSubmitted
    BY <1>2, <2>1 DEF OpenCycleMeansSubmitted, EarnedAt
  <2>3. ApprovedIsAuthorised
    <3> SUFFICES ASSUME NEW r \in Requests,
                        request[r].status = "En planification"
                 PROVE  /\ request[r].active # NoRevision
                        /\ request[r].plan = request[r].active
                        /\ \/ revision[request[r].active].subject
                                = request[r].subject
                           \/ <<revision[request[r].active].subject,
                                request[r].subject>> \in Delegated
                        /\ \A c \in CycleIds :
                             Created(c) /\ cycle[c].request = r =>
                               cycle[c].state # "OPEN"
      BY DEF ApprovedIsAuthorised
    <3>1. EarnedAt(r)
      BY <1>2
    <3>2. OpenCycles(r) = {}
      BY <3>1 DEF EarnedAt
    <3>3. \A c \in CycleIds :
            Created(c) /\ cycle[c].request = r => cycle[c].state # "OPEN"
      BY <3>2 DEF OpenCycles
    <3>4. QED
      BY <3>1, <3>3 DEF EarnedAt
  <2>4. CancelledHoldsNoPlan
    BY <1>2 DEF CancelledHoldsNoPlan, EarnedAt
  <2>5. QED
    BY <2>2, <2>3, <2>4 DEF StatusIsEarned
<1>3. QED
  BY <1>1, <1>2

\* A request that keeps its status, its plan, its subject and its cycles, or
\* closes the OPEN one, keeps what the status promises.
LEMMA EarnedKept ==
  ASSUME DataInv, HistoryKept, PlanIsActiveRevision, NEW r \in Requests,
         EarnedAt(r),
         request'[r].status = request[r].status,
         request'[r].active = request[r].active,
         request'[r].plan = request[r].plan,
         request'[r].decisions = request[r].decisions,
         request'[r].subject = request[r].subject,
         OpenAfter(r) \subseteq OpenCycles(r),
         \/ OpenAfter(r) = {}
         \/ request[r].cancellation = "ACCEPTED"
              => request'[r].cancellation = "ACCEPTED"
  PROVE  EarnedAfter(r)
<1>1. ASSUME request[r].active # NoRevision
      PROVE  revision'[request[r].active] = revision[request[r].active]
  <2>1. request[r].active \in RevisionIds
    BY <1>1 DEF DataInv, TypeInv, TypeOK, Request
  <2>2. revision[request[r].active] # Unused
    BY <1>1 DEF PlanIsActiveRevision, Captured
  <2>3. QED
    BY <2>1, <2>2 DEF HistoryKept, Captured
<1>2. QED
  BY <1>1 DEF EarnedAt, EarnedAfter

\* A cycle written closed leaves no OPEN one but those there were before.
LEMMA ClosesCycle ==
  ASSUME TypeOK, NEW r, NEW c \in CycleIds, OpenCycles(r) \subseteq {c}, NEW k,
         cycle' = [cycle EXCEPT ![c] = k], k.state # "OPEN"
  PROVE  OpenAfter(r) = {}
BY DEF OpenAfter, OpenCycles, TypeOK

\* The OPEN cycle of a request is invalidated.
LEMMA InvalidatesOnly ==
  ASSUME TypeOK, NEW r, NEW c, IsActiveCycle(r, c),
         cycle' = [cycle EXCEPT ![c].state = "INVALIDATED"]
  PROVE  OpenAfter(r) = {}
<1>1. c \in CycleIds /\ cycle[c] \in Cycle
  BY ActiveCycle
<1>2. OpenCycles(r) = {c}
  BY DEF IsActiveCycle
<1> DEFINE k == [cycle[c] EXCEPT !.state = "INVALIDATED"]
<1>3. k.state = "INVALIDATED"
  BY <1>1 DEF Cycle
<1>4. cycle' = [cycle EXCEPT ![c] = k]
  BY <1>1 DEF TypeOK
<1> HIDE DEF k
<1>5. QED
  BY <1>1, <1>2, <1>3, <1>4, ClosesCycle

LEMMA SameCycles ==
  ASSUME NEW r, UNCHANGED cycle
  PROVE  OpenAfter(r) = OpenCycles(r)
BY DEF OpenAfter, OpenCycles

\* What the running command of a worker decided on is still so.
LEMMA StillSeen ==
  ASSUME DataInv, SeenCurrent, NEW w \in Workers, NEW commands,
         Finish(w, commands)
  PROVE  /\ tx[w].request \in Requests
         /\ request[tx[w].request] \in Request
         /\ tx[w].seen.version \in Nat
         /\ tx[w].command \in commands
         /\ TypeOK /\ request \in [Requests -> Request]
         /\ request[tx[w].request].status = tx[w].seen.status
         /\ tx[w].command = "vote" => request[tx[w].request].status = "Soumise"
         /\ tx[w].command = "cancel" =>
              tx[w].seen.plan = request[tx[w].request].plan
         /\ tx[w].command = "rejectCancellation" =>
              request[tx[w].request].cancellation = "PENDING"
BY CommitStart DEF SeenCurrent, DataInv, TypeInv, TypeOK

\* A request that ends up submitted owes nothing.
LEMMA SubmittedEarned ==
  ASSUME NEW r, request'[r].status = "Soumise"
  PROVE  EarnedAfter(r)
BY DEF EarnedAfter

-----------------------------------------------------------------------------
(* Each command keeps it for the request it writes.                        *)

\* A command that leaves its request submitted: a submission, the edition of
\* one, a selection, a reapproval.
LEMMA SubmitsEarned ==
  ASSUME DataInv, SeenCurrent, NEW w \in Workers,
         \/ CommitSubmit(w) \/ CommitModifySubmitted(w) \/ CommitSelect(w)
         \/ CommitReapproval(w)
  PROVE  EarnedAfter(tx[w].request)
<1> DEFINE r == tx[w].request
<1>1. \E commands : Finish(w, commands)
  BY DEF CommitSubmit, CommitModifySubmitted, CommitSelect, CommitReapproval,
         BeginsApproved, Writes
<1>2. /\ r \in Requests /\ request[r] \in Request
      /\ request \in [Requests -> Request]
      /\ request[r].status = tx[w].seen.status
  BY <1>1, StillSeen
<1>3. request'[r].status = "Soumise"
  <2>1. CASE CommitSubmit(w)
    <3>1. PICK v : request' = [request EXCEPT ![r] =
            [request[r] EXCEPT !.status = "Soumise", !.version = v]]
      BY <2>1 DEF CommitSubmit
    <3>2. QED
      BY <1>2, <3>1 DEF Request
  <2>2. CASE CommitModifySubmitted(w)
    <3>1. PICK subject, v : request' = [request EXCEPT ![r] =
            [request[r] EXCEPT !.subject = subject, !.version = v]]
      BY <2>2 DEF CommitModifySubmitted
    <3>2. request[r].status = "Soumise"
      BY <1>2, <2>2 DEF CommitModifySubmitted
    <3>3. QED
      BY <1>2, <3>1, <3>2 DEF Request
  <2>3. CASE CommitSelect(w)
    <3>1. PICK v : request' = [request EXCEPT ![r] =
            [request[r] EXCEPT !.version = v]]
      BY <2>3 DEF CommitSelect
    <3>2. request[r].status = "Soumise"
      BY <1>2, <2>3 DEF CommitSelect
    <3>3. QED
      BY <1>2, <3>1, <3>2 DEF Request
  <2>4. CASE CommitReapproval(w)
    <3>1. PICK subject, v : request' = [request EXCEPT ![r] =
            [request[r] EXCEPT !.status = "Soumise", !.subject = subject,
                               !.version = v]]
      BY <2>4 DEF CommitReapproval
    <3>2. QED
      BY <1>2, <3>1 DEF Request
  <2>5. QED
    BY <2>1, <2>2, <2>3, <2>4
<1>4. QED
  BY <1>3, SubmittedEarned

\* A request for correction closes the votes.
LEMMA CorrectionEarned ==
  ASSUME DataInv, SeenCurrent, NEW w \in Workers, CommitCorrection(w)
  PROVE  EarnedAfter(tx[w].request)
<1> DEFINE r == tx[w].request
<1>1. /\ r \in Requests /\ request[r] \in Request
      /\ request \in [Requests -> Request] /\ TypeOK
  BY StillSeen DEF CommitCorrection
<1>2. PICK v : request' = [request EXCEPT ![r] =
        [request[r] EXCEPT !.status = "A corriger", !.version = v]]
  BY DEF CommitCorrection
<1>3. request'[r].status = "A corriger"
  BY <1>1, <1>2 DEF Request
<1>4. \/ UNCHANGED cycle /\ OpenCycles(r) = {}
      \/ \E c : /\ IsActiveCycle(r, c)
               /\ cycle' = [cycle EXCEPT ![c].state = "INVALIDATED"]
  BY DEF CommitCorrection, NoActiveCycle
<1>5. OpenAfter(r) = {}
  <2> HIDE DEF r
  <2> QED BY <1>1, <1>4, SameCycles, InvalidatesOnly
<1>6. QED
  BY <1>3, <1>5 DEF EarnedAfter

\* A draft is edited: it has neither votes nor an authorised plan to keep.
LEMMA DraftEarned ==
  ASSUME DataInv, SeenCurrent, NEW w \in Workers, EarnedAt(tx[w].request),
         CommitModifyDraft(w)
  PROVE  EarnedAfter(tx[w].request)
<1> DEFINE r == tx[w].request
<1>1. /\ r \in Requests /\ request[r] \in Request
      /\ request \in [Requests -> Request]
      /\ request[r].status \in Draft
  BY StillSeen DEF CommitModifyDraft, Writes
<1>2. PICK subject, v : request' = [request EXCEPT ![r] =
        [request[r] EXCEPT !.subject = subject, !.version = v]]
  BY DEF CommitModifyDraft
<1>3. /\ request'[r].status = request[r].status
      /\ request'[r].cancellation = request[r].cancellation
  BY <1>1, <1>2 DEF Request
<1>4. OpenAfter(r) = OpenCycles(r)
  BY SameCycles DEF CommitModifyDraft
<1>5. EarnedAt(r)
  OBVIOUS
<1>6. EarnedAfter(r)
  <2> HIDE DEF r
  <2> QED BY <1>1, <1>3, <1>4, <1>5 DEF EarnedAfter, EarnedAt, Draft
<1>7. QED
  BY <1>6

\* A contact leaves what is not approved, and sends what is to its approvers.
LEMMA ContactEarned ==
  ASSUME DataInv, PlanInv, SeenCurrent, HistoryKept, NEW w \in Workers,
         EarnedAt(tx[w].request), CommitContact(w)
  PROVE  EarnedAfter(tx[w].request)
<1> DEFINE r == tx[w].request
<1>1. /\ r \in Requests /\ request[r] \in Request
      /\ request \in [Requests -> Request]
  BY StillSeen DEF CommitContact
<1>2. \/ /\ UNCHANGED cycle
         /\ \E v : request' = [request EXCEPT ![r] =
                                  [request[r] EXCEPT !.version = v]]
      \/ \E v : request' = [request EXCEPT ![r] =
              [request[r] EXCEPT !.status = "Soumise", !.version = v]]
  BY DEF CommitContact
<1>3. CASE /\ UNCHANGED cycle
           /\ \E v : request' = [request EXCEPT ![r] =
                                    [request[r] EXCEPT !.version = v]]
  <2>1. PICK v : request' = [request EXCEPT ![r] =
                               [request[r] EXCEPT !.version = v]]
    BY <1>3
  <2>2. /\ request'[r].status = request[r].status
        /\ request'[r].active = request[r].active
        /\ request'[r].plan = request[r].plan
        /\ request'[r].decisions = request[r].decisions
        /\ request'[r].subject = request[r].subject
        /\ request'[r].cancellation = request[r].cancellation
    BY <1>1, <2>1 DEF Request
  <2>3. OpenAfter(r) = OpenCycles(r)
    BY <1>3, SameCycles
  <2>4. EarnedAfter(r)
    <3> HIDE DEF r
    <3> QED BY <1>1, <2>2, <2>3, EarnedKept DEF PlanInv, r
  <2>5. QED
    BY <2>4
<1>4. CASE \E v : request' = [request EXCEPT ![r] =
              [request[r] EXCEPT !.status = "Soumise", !.version = v]]
  <2>1. request'[r].status = "Soumise"
    BY <1>1, <1>4 DEF Request
  <2>2. QED
    BY <2>1, SubmittedEarned
<1>5. QED
  BY <1>2, <1>3, <1>4

\* A vote short of the quorum leaves its request submitted.
LEMMA VotesEarned ==
  ASSUME DataInv, SeenCurrent, NEW w \in Workers,
         CommitStaleVote(w) \/ CommitPartialVote(w)
  PROVE  EarnedAfter(tx[w].request)
<1> DEFINE r == tx[w].request
<1>1. Finish(w, {"vote"})
  BY DEF CommitStaleVote, CommitPartialVote
<1>2. /\ r \in Requests /\ request[r] \in Request
      /\ request \in [Requests -> Request]
      /\ request[r].status = "Soumise"
  BY <1>1, StillSeen
<1>3. PICK v : request' = [request EXCEPT ![r] =
                             [request[r] EXCEPT !.version = v]]
  BY DEF CommitStaleVote, CommitPartialVote
<1>4. request'[r].status = "Soumise"
  BY <1>2, <1>3 DEF Request
<1>5. QED
  BY <1>4, SubmittedEarned

\* The row that a complete quorum writes is approved with its subject.
LEMMA ApprovedEarned ==
  ASSUME ApprovalAssumption, TypeOK, NEW r \in Requests, NEW row \in Request,
         NEW version, NEW v \in FreshRevisions, NEW decisions, NEW k,
         k.subject = row.subject,
         request' = [request EXCEPT
                       ![r] = Approved(row, version, v, decisions)],
         revision' = [revision EXCEPT
                        ![v] = CapturedRevision(r, request[r].active, k)],
         OpenAfter(r) = {}
  PROVE  EarnedAfter(r)
<1>1. request'[r] = Approved(row, version, v, decisions)
  BY DEF TypeOK
<1> DEFINE after == Approved(row, version, v, decisions)
<1>2. /\ after.status = "En planification"
      /\ after.active = v /\ after.plan = v
      /\ after.subject = row.subject
  BY DEF Approved, Request
<1>3. v \in RevisionIds /\ v # NoRevision
  BY DEF FreshRevisions, ApprovalAssumption
<1>4. revision'[v].subject = row.subject
  BY <1>3 DEF TypeOK, CapturedRevision
<1>5. QED
  <2> HIDE DEF after
  <2> QED BY <1>1, <1>2, <1>3, <1>4 DEF EarnedAfter, after

\* The vote that completes the quorum closes the cycle it is cast on.
LEMMA FinalVoteEarned ==
  ASSUME ApprovalAssumption, DataInv, SeenCurrent, NEW w \in Workers,
         CommitFinalVote(w)
  PROVE  EarnedAfter(tx[w].request)
<1> DEFINE r == tx[w].request
           version == tx[w].seen.version + 1
           c == tx[w].cycle
           k == cycle[tx[w].cycle]
           votes == VotesAfter(tx[w])
<1>1. /\ r \in Requests /\ request[r] \in Request /\ TypeOK
  BY StillSeen DEF CommitFinalVote
<1>2. IsActiveCycle(r, c) /\ request[r].subject = k.subject
  BY DEF CommitFinalVote, VoteHolds
<1>3. PICK v \in FreshRevisions, decisions \in Rebuilt(request[r].decisions) :
        /\ request' = [request EXCEPT ![r] =
                         Approved(request[r], version, v, decisions)]
        /\ cycle' = [cycle EXCEPT ![c] = CompletedCycle(k, votes, v)]
        /\ revision' = [revision EXCEPT ![v] =
                          CapturedRevision(r, request[r].active, k)]
  BY DEF CommitFinalVote
<1>4. c \in CycleIds /\ k \in Cycle /\ OpenCycles(r) = {c}
  <2>1. OpenCycles(r) = {c}
    BY <1>2 DEF IsActiveCycle
  <2> HIDE DEF r, c
  <2>2. QED
    BY <1>1, <1>2, <2>1, ActiveCycle DEF c
<1>5. CompletedCycle(k, votes, v).state # "OPEN"
  <2> HIDE DEF k, votes
  <2> QED BY <1>4 DEF CompletedCycle, Cycle
<1>6. OpenAfter(r) = {}
  <2> DEFINE done == CompletedCycle(k, votes, v)
  <2>1. cycle' = [cycle EXCEPT ![c] = done] /\ done.state # "OPEN"
    BY <1>3, <1>5
  <2> HIDE DEF r, c, done
  <2>2. QED
    BY <1>1, <1>4, <2>1, ClosesCycle
<1>7. EarnedAfter(r)
  <2> HIDE DEF r, c, k, version, votes
  <2> QED BY <1>1, <1>2, <1>3, <1>6, ApprovedEarned
<1>8. QED
  BY <1>7

\* A candidate inside the envelope stays authorised by the active revision.
LEMMA WithinEarned ==
  ASSUME DataInv, PlanInv, SeenCurrent, HistoryKept, NEW w \in Workers,
         EarnedAt(tx[w].request), CommitModifyWithin(w)
  PROVE  EarnedAfter(tx[w].request)
<1> DEFINE r == tx[w].request
<1>1. /\ r \in Requests /\ request[r] \in Request
      /\ request \in [Requests -> Request]
      /\ request[r].status = "En planification"
  <2>1. Finish(w, {"modify", "replace"})
    BY DEF CommitModifyWithin, BeginsApproved, Writes
  <2>2. tx[w].seen.status = "En planification"
    BY DEF CommitModifyWithin, BeginsApproved
  <2>3. QED
    BY <2>1, <2>2, StillSeen
<1>2. PICK subject \in Subjects :
        /\ WithinEnvelope(r, subject)
        /\ \/ \E v : request' = [request EXCEPT ![r] =
                         [request[r] EXCEPT !.subject = subject, !.version = v]]
           \/ \E v, decisions :
                request' = [request EXCEPT ![r] =
                              [request[r] EXCEPT !.subject = subject,
                                                 !.version = v,
                                                 !.plan = request[r].active,
                                                 !.decisions = decisions]]
  BY DEF CommitModifyWithin
<1>3. EarnedAt(r) /\ UNCHANGED <<cycle, revision>>
  BY DEF CommitModifyWithin
<1>4. /\ request[r].active # NoRevision /\ request[r].plan = request[r].active
      /\ OpenCycles(r) = {}
  BY <1>1, <1>3 DEF EarnedAt
<1>5. /\ request'[r].status = "En planification"
      /\ request'[r].active = request[r].active
      /\ request'[r].plan = request[r].active
      /\ request'[r].subject = subject
  <2>1. CASE \E v : request' = [request EXCEPT ![r] =
               [request[r] EXCEPT !.subject = subject, !.version = v]]
    BY <1>1, <1>4, <2>1 DEF Request
  <2>2. CASE \E v, decisions :
                request' = [request EXCEPT ![r] =
                              [request[r] EXCEPT !.subject = subject,
                                                 !.version = v,
                                                 !.plan = request[r].active,
                                                 !.decisions = decisions]]
    <3>1. PICK v, decisions :
            request' = [request EXCEPT ![r] =
                          [request[r] EXCEPT !.subject = subject,
                                             !.version = v,
                                             !.plan = request[r].active,
                                             !.decisions = decisions]]
      BY <2>2
    <3> DEFINE row == [request[r] EXCEPT !.subject = subject,
                                         !.version = v,
                                         !.plan = request[r].active,
                                         !.decisions = decisions]
    <3>2. /\ row.status = "En planification"
          /\ row.active = request[r].active
          /\ row.plan = request[r].active /\ row.subject = subject
      <4> HIDE DEF r
      <4> QED BY <1>1 DEF Request
    <3>3. request'[r] = row
      <4> HIDE DEF r
      <4> QED BY <1>1, <3>1
    <3>4. QED
      <4> HIDE DEF row
      <4> QED BY <3>2, <3>3
  <2>3. QED
    BY <1>2, <2>1, <2>2
<1>6. OpenAfter(r) = {}
  BY <1>3, <1>4, SameCycles
<1>7. \/ revision[request[r].active].subject = subject
      \/ <<revision[request[r].active].subject, subject>> \in Delegated
  BY <1>2 DEF WithinEnvelope
<1>8. EarnedAfter(r)
  <2> HIDE DEF r
  <2> QED BY <1>3, <1>4, <1>5, <1>6, <1>7 DEF EarnedAfter
<1>9. QED
  BY <1>8

\* A direct approval that completes the quorum closes the cycle it votes on,
\* one that does not leaves the request submitted.
LEMMA DirectApprovalEarned ==
  ASSUME ApprovalAssumption, DataInv, SeenCurrent, NEW w \in Workers,
         CommitDirectApproval(w)
  PROVE  EarnedAfter(tx[w].request)
<1> DEFINE r == tx[w].request
           version == tx[w].seen.version + 1
<1>1. /\ r \in Requests /\ version \in Nat /\ request[r] \in Request
      /\ TypeOK
  <2>1. Finish(w, {"modify", "replace"})
    BY DEF CommitDirectApproval, BeginsApproved, Writes
  <2>2. QED
    BY <2>1, StillSeen
<1>2. PICK subject \in Subjects, user \in Users,
           e \in UNION {EnsuredCycles(r, version, s) : s \in Subjects} :
        /\ e \in EnsuredCycles(r, version, subject)
        /\ \/ DirectlyInvalidates(r, e, subject)
           \/ DirectlyVotes(r, e, subject, user)
           \/ DirectlyApproves(r, e, subject, user)
  BY DEF CommitDirectApproval
<1> DEFINE row == DirectRow(r, e, subject)
<1>3. /\ e.id \in CycleIds /\ e.version \in Nat /\ e.cycle \in Cycle
      /\ OpenCycles(r) \subseteq {e.id}
  <2>1. /\ e.id \in CycleIds /\ e.version \in Nat /\ e.cycle \in Cycle
    <3> HIDE DEF r, version
    <3> QED BY <1>1, <1>2, EnsuredCycleType
  <2>2. OpenCycles(r) \subseteq {e.id}
    <3> HIDE DEF r, version
    <3>1. CASE NoActiveCycle(r)
      BY <3>1 DEF NoActiveCycle
    <3>2. CASE ~NoActiveCycle(r)
      <4>1. PICK c \in {d \in CycleIds : IsActiveCycle(r, d)} :
              e = [id |-> c, cycle |-> cycle[c], version |-> version]
        BY <1>2, <3>2 DEF EnsuredCycles
      <4>2. QED
        BY <4>1 DEF IsActiveCycle
    <3>3. QED
      BY <3>1, <3>2
  <2>3. QED
    BY <2>1, <2>2
<1>4. /\ row \in Request /\ row.status = "Soumise" /\ row.subject = subject
  <2>1. e.version + 1 \in Nat
    BY <1>3
  <2>2. QED
    <3> HIDE DEF r
    <3> QED BY <1>1, <2>1, StatusNames DEF DirectRow, Request
<1>5. CASE \/ DirectlyInvalidates(r, e, subject)
           \/ DirectlyVotes(r, e, subject, user)
  <2>1. request' = [request EXCEPT ![r] = row]
    BY <1>5 DEF DirectlyInvalidates, DirectlyVotes
  <2>2. request'[r].status = "Soumise"
    <3> HIDE DEF row, r
    <3> QED BY <1>1, <1>4, <2>1 DEF TypeOK
  <2>3. QED
    BY <2>2, SubmittedEarned
<1>6. CASE DirectlyApproves(r, e, subject, user)
  <2> DEFINE k == e.cycle
             next == e.version + 1
             votes == DirectVotes(e, user)
  <2>1. k.subject = row.subject
    BY <1>4, <1>6 DEF DirectlyApproves
  <2>2. PICK v \in FreshRevisions, decisions \in Rebuilt(request[r].decisions) :
          /\ request' = [request EXCEPT ![r] =
                           Approved(row, next, v, decisions)]
          /\ cycle' = [cycle EXCEPT ![e.id] = CompletedCycle(k, votes, v)]
          /\ revision' = [revision EXCEPT ![v] =
                            CapturedRevision(r, request[r].active, k)]
    BY <1>6 DEF DirectlyApproves
  <2> DEFINE done == CompletedCycle(k, votes, v)
  <2>3. done.state # "OPEN"
    BY <1>3 DEF CompletedCycle, Cycle
  <2>4. OpenAfter(r) = {}
    <3>1. cycle' = [cycle EXCEPT ![e.id] = done]
      BY <2>2
    <3> HIDE DEF r, done
    <3>2. QED
      BY <1>1, <1>3, <2>3, <3>1, ClosesCycle
  <2>5. EarnedAfter(r)
    <3> HIDE DEF r, row, k, next, votes
    <3> QED BY <1>1, <1>4, <2>1, <2>2, <2>4, ApprovedEarned
  <2>6. QED
    BY <2>5
<1>7. QED
  BY <1>2, <1>5, <1>6

\* A request that is cancelled holds nothing, and its votes are closed.
LEMMA CancelEarned ==
  ASSUME DataInv, SeenCurrent, NEW w \in Workers, CommitCancel(w)
  PROVE  EarnedAfter(tx[w].request)
<1> DEFINE r == tx[w].request
<1>1. /\ r \in Requests /\ request[r] \in Request /\ TypeOK
      /\ request \in [Requests -> Request]
      /\ tx[w].seen.plan = request[r].plan
  <2>1. Finish(w, {"cancel"})
    BY DEF CommitCancel
  <2>2. tx[w].command = "cancel"
    BY <2>1 DEF Finish
  <2>3. QED
    BY <2>1, <2>2, StillSeen
<1>2. CancelledRows(tx[w]) = {Released(request[r])}
  BY <1>1 DEF CancelledRows
<1>3. PICK v : request' = [request EXCEPT ![r] =
                             [Released(request[r]) EXCEPT !.version = v]]
  BY <1>2 DEF CommitCancel
<1>4. /\ request'[r].status = "Annulee" /\ request'[r].plan = NoRevision
      /\ request'[r].decisions = "NONE"
  BY <1>1, <1>3 DEF Released, Request
<1>5. \/ UNCHANGED cycle /\ OpenCycles(r) = {}
      \/ \E c : /\ IsActiveCycle(r, c)
               /\ cycle' = [cycle EXCEPT ![c].state = "INVALIDATED"]
  BY DEF CommitCancel, NoActiveCycle
<1>6. OpenAfter(r) = {}
  <2> HIDE DEF r
  <2> QED BY <1>1, <1>5, SameCycles, InvalidatesOnly
<1>7. EarnedAfter(r)
  <2> HIDE DEF r
  <2> QED BY <1>4, <1>6 DEF EarnedAfter
<1>8. QED
  BY <1>7

\* Who asks for a cancellation closes the votes, and the plan stays meanwhile.
LEMMA AskedEarned ==
  ASSUME DataInv, PlanInv, SeenCurrent, HistoryKept, NEW w \in Workers,
         EarnedAt(tx[w].request), CommitRequestCancellation(w)
  PROVE  EarnedAfter(tx[w].request)
<1> DEFINE r == tx[w].request
<1>1. /\ r \in Requests /\ request[r] \in Request /\ TypeOK
      /\ request \in [Requests -> Request]
  BY StillSeen DEF CommitRequestCancellation
<1>2. PICK v : request' = [request EXCEPT ![r] =
                   [request[r] EXCEPT !.cancellation = "PENDING",
                                      !.version = v,
                                      !.cancellationId = @ + 1]]
  BY DEF CommitRequestCancellation
<1>3. /\ request'[r].status = request[r].status
      /\ request'[r].active = request[r].active
      /\ request'[r].plan = request[r].plan
      /\ request'[r].decisions = request[r].decisions
      /\ request'[r].subject = request[r].subject
  BY <1>1, <1>2 DEF Request
<1>4. \/ UNCHANGED cycle /\ OpenCycles(r) = {}
      \/ \E c : /\ IsActiveCycle(r, c)
               /\ cycle' = [cycle EXCEPT ![c].state = "INVALIDATED"]
  BY DEF CommitRequestCancellation, NoActiveCycle
<1>5. OpenAfter(r) = {}
  <2> HIDE DEF r
  <2> QED BY <1>1, <1>4, SameCycles, InvalidatesOnly
<1>6. EarnedAfter(r)
  <2> HIDE DEF r
  <2> QED BY <1>1, <1>3, <1>5, EarnedKept DEF PlanInv, r
<1>7. QED
  BY <1>6

\* An accepted cancellation releases the plan.
LEMMA AcceptEarned ==
  ASSUME DataInv, SeenCurrent, NEW w \in Workers, CommitAcceptCancellation(w)
  PROVE  EarnedAfter(tx[w].request)
<1> DEFINE r == tx[w].request
<1>1. /\ r \in Requests /\ request[r] \in Request
      /\ request \in [Requests -> Request]
  BY StillSeen DEF CommitAcceptCancellation
<1>2. PICK v : request' = [request EXCEPT ![r] =
        [Released(request[r]) EXCEPT !.cancellation = "ACCEPTED",
                                     !.version = v]]
  BY DEF CommitAcceptCancellation
<1>3. /\ request'[r].status = "Annulee" /\ request'[r].plan = NoRevision
      /\ request'[r].decisions = "NONE"
      /\ request'[r].cancellation = "ACCEPTED"
  BY <1>1, <1>2 DEF Released, Request
<1>4. QED
  BY <1>3 DEF EarnedAfter

\* A rejected cancellation leaves the request what it was.
LEMMA RejectEarned ==
  ASSUME DataInv, PlanInv, SeenCurrent, HistoryKept, NEW w \in Workers,
         EarnedAt(tx[w].request), CommitRejectCancellation(w)
  PROVE  EarnedAfter(tx[w].request)
<1> DEFINE r == tx[w].request
<1>1. /\ r \in Requests /\ request[r] \in Request
      /\ request \in [Requests -> Request]
      /\ request[r].cancellation = "PENDING"
  <2>1. Finish(w, {"rejectCancellation"})
    BY DEF CommitRejectCancellation
  <2>2. tx[w].command = "rejectCancellation"
    BY <2>1 DEF Finish
  <2>3. QED
    BY <2>1, <2>2, StillSeen
<1>2. PICK v : request' = [request EXCEPT ![r] =
                   [request[r] EXCEPT !.cancellation = "REJECTED",
                                      !.version = v]]
  BY DEF CommitRejectCancellation
<1>3. /\ request'[r].status = request[r].status
      /\ request'[r].active = request[r].active
      /\ request'[r].plan = request[r].plan
      /\ request'[r].decisions = request[r].decisions
      /\ request'[r].subject = request[r].subject
  BY <1>1, <1>2 DEF Request
<1>4. OpenAfter(r) = OpenCycles(r)
  BY SameCycles DEF CommitRejectCancellation
<1>5. EarnedAfter(r)
  <2> HIDE DEF r
  <2> QED BY <1>1, <1>3, <1>4, EarnedKept DEF PlanInv, r
<1>6. QED
  BY <1>5

\* A person edits the plan: the request has one, so it is not cancelled.
LEMMA EditPlanEarned ==
  ASSUME DataInv, NEW r \in Requests, EarnedAt(r), EditPlan(r)
  PROVE  EarnedAfter(r)
<1>1. PICK decisions : request' = [request EXCEPT ![r] =
                         [request[r] EXCEPT !.decisions = decisions]]
  BY DEF EditPlan
<1>2. /\ request[r] \in Request /\ request \in [Requests -> Request]
      /\ UNCHANGED <<cycle, revision>> /\ request[r].plan # NoRevision
  BY DEF DataInv, TypeInv, TypeOK, EditPlan
<1>3. /\ request'[r].status = request[r].status
      /\ request'[r].active = request[r].active
      /\ request'[r].plan = request[r].plan
      /\ request'[r].subject = request[r].subject
      /\ request'[r].cancellation = request[r].cancellation
  BY <1>1, <1>2 DEF Request
<1>4. OpenAfter(r) = OpenCycles(r)
  BY <1>2, SameCycles
<1>5. QED
  BY <1>2, <1>3, <1>4 DEF EarnedAt, EarnedAfter

\* A new request is a draft without votes, or submitted.
LEMMA CreateEarned ==
  ASSUME DataInv, NEW r \in Requests, NEW submit \in BOOLEAN,
         Create(r, submit)
  PROVE  EarnedAfter(r)
<1>1. /\ request[r] \in Request /\ request \in [Requests -> Request]
      /\ request[r].status = "ABSENT"
  BY DEF DataInv, TypeInv, TypeOK, Create
<1>2. OpenCycles(r) = {}
  BY <1>1, OpenIsCreated DEF OpenCycles, DataInv, NoCycleBeforeCreation
<1>3. \/ \E v, subject : request' = [request EXCEPT ![r] =
              [request[r] EXCEPT !.status = "Soumise", !.version = v,
                                 !.subject = subject]]
      \/ /\ UNCHANGED cycle
         /\ \E v, subject : request' = [request EXCEPT ![r] =
              [request[r] EXCEPT !.status = "Brouillon", !.version = v,
                                 !.subject = subject]]
  BY DEF Create
<1>4. \/ request'[r].status = "Soumise"
      \/ UNCHANGED cycle /\ request'[r].status = "Brouillon"
  BY <1>1, <1>3 DEF Request
<1>5. QED
  BY <1>2, <1>4, SameCycles DEF EarnedAfter

-----------------------------------------------------------------------------
(* Every step of a single worker.                                          *)

\* A step on one request leaves what the status of another promises.
LEMMA OthersEarned ==
  ASSUME DataInv, PlanInv, HistoryKept, NEW r \in Requests, DataStep(r),
         NEW s \in Requests \ {r}, EarnedAt(s)
  PROVE  EarnedAfter(s)
<1>1. request'[s] = request[s]
  BY DEF DataStep, RowStep, DataInv, TypeInv, TypeOK
<1>2. OpenAfter(s) \subseteq OpenCycles(s)
  <2>1. CASE UNCHANGED cycle
    BY <2>1, SameCycles
  <2>2. CASE OneCycle(r)
    <3>1. PICK c \in CycleIds, k \in Cycle :
            k.request = r /\ cycle' = [cycle EXCEPT ![c] = k]
      BY <2>2 DEF OneCycle, Opens, Continues
    <3>2. QED
      BY <3>1 DEF OpenAfter, OpenCycles, DataInv, TypeInv, TypeOK
  <2>3. CASE ReplacedCycle(r)
    <3>1. PICK c \in CycleIds, d \in CycleIds, k \in Cycle :
            /\ k.request = r
            /\ cycle' = [cycle EXCEPT ![c].state = "INVALIDATED", ![d] = k]
            /\ IsActiveCycle(r, c)
      BY <2>3 DEF ReplacedCycle, FreshCycles
    <3>2. cycle[c] \in Cycle /\ cycle[c].request = r
      BY <3>1, ActiveCycle DEF DataInv, TypeInv
    <3>3. /\ \A b \in CycleIds \ {c, d} : cycle'[b] = cycle[b]
          /\ cycle'[d] = k
          /\ c # d => cycle'[c].request = r
      BY <3>1, <3>2 DEF DataInv, TypeInv, TypeOK, Cycle
    <3>4. QED
      BY <3>1, <3>3 DEF OpenAfter, OpenCycles
  <2>4. QED
    BY <2>1, <2>2, <2>3 DEF DataStep
<1>3. QED
  BY <1>1, <1>2, EarnedKept DEF PlanInv

\* A commit keeps what every status promises.
LEMMA CommitEarned ==
  ASSUME DataInv, PlanInv, HistoryKept, EarnedInv, NEW r \in Requests,
         DataStep(r), EarnedAfter(r)
  PROVE  \A s \in Requests : EarnedAfter(s)
BY OthersEarned DEF EarnedInv

\* A worker that runs alone has read what its request still is.
LEMMA AloneSeen ==
  ASSUME DataInv, SeenCurrent, \A v, w \in Workers : v = w,
         NEW u \in Workers, tx' = [tx EXCEPT ![u] = Idle]
  PROVE  SeenCurrent'
BY DEF SeenCurrent, DataInv, TypeInv, TypeOK

\* A command begins on what its request is: one that exists.
LEMMA BeginCurrent ==
  ASSUME ApprovalAssumption, DataInv, SeenCurrent, NEW w \in Workers,
         NEW r \in Requests, NEW command \in Commands, Begin(w, r, command)
  PROVE  SeenCurrent'
<1> DEFINE t == [ command |-> command, request |-> r,
                  seen |-> Snapshot(request[r], command), cycle |-> NoCycle,
                  user |-> NoUser, targets |-> {}, finalizes |-> FALSE,
                  stale |-> FALSE ]
<1>1. /\ tx' = [tx EXCEPT ![w] = t] /\ UNCHANGED request
      /\ tx \in [Workers -> Transaction \cup {Idle}]
  BY DEF Begin, Start, DataInv, TypeInv, TypeOK
<1>2. /\ t.request = r /\ t.command = command /\ command # "vote"
      /\ t.seen.status = request[r].status
      /\ command = "cancel" => t.seen.plan = request[r].plan
      /\ command = "rejectCancellation" => request[r].cancellation = "PENDING"
  BY DEF Begin, Allowed, Snapshot
<1>3. request[r].status # "ABSENT"
  <2>1. /\ request[r].status \in ActionStatuses[command]
        /\ command \in AllCommands \ {"vote", "editPlan"}
    BY DEF Begin, Allowed, ApprovalAssumption
  <2>2. \A a \in AllCommands \ {"vote", "editPlan"} :
          "ABSENT" \notin ActionStatuses[a]
    <3>1. /\ "ABSENT" \notin Live /\ "ABSENT" \notin Draft
          /\ "ABSENT" \notin {"Soumise"}
      BY DEF Live, Draft
    <3>2. SUFFICES ASSUME NEW a \in AllCommands \ {"vote", "editPlan"}
                   PROVE  ActionStatuses[a] \in
                            {Draft, Live, {"Soumise"}, Draft \cup {"Soumise"},
                             Statuses \ {"ABSENT"}}
      BY <3>1
    <3>3. QED
      BY DEF AllCommands, ActionStatuses
  <2>3. QED
    BY <2>1, <2>2
<1>4. QED
  <2> HIDE DEF t
  <2> QED BY <1>1, <1>2, <1>3 DEF SeenCurrent

\* A vote begins on a submitted request.
LEMMA BeginVoteCurrent ==
  ASSUME DataInv, SeenCurrent, NEW w \in Workers, NEW r \in Requests,
         BeginVote(w, r)
  PROVE  SeenCurrent'
<1>1. PICK t : /\ Start(w, t)
               /\ t.request = r /\ t.command = "vote"
               /\ t.seen = Snapshot(request[r], "vote")
  BY DEF BeginVote
<1>2. request[r].status = "Soumise"
  BY DEF BeginVote, Allowed, ActionStatuses
<1>3. t.seen.status = request[r].status
  BY <1>1 DEF Snapshot
<1>4. /\ tx' = [tx EXCEPT ![w] = t] /\ UNCHANGED request
      /\ tx \in [Workers -> Transaction \cup {Idle}]
  BY <1>1 DEF Start, DataInv, TypeInv, TypeOK
<1>5. QED
  BY <1>1, <1>2, <1>3, <1>4 DEF SeenCurrent

\* The second read of a command finds what the first did.
LEMMA RereadCurrent ==
  ASSUME DataInv, SeenCurrent, NEW w \in Workers, Reread(w)
  PROVE  SeenCurrent'
<1> DEFINE t == tx[w]
           row == request[t.request]
<1>1. PICK plan \in {t.seen.plan, Snapshot(row, t.command).plan} :
        tx' = [tx EXCEPT ![w].seen =
                 [tx[w].seen EXCEPT !.version = row.version, !.plan = plan]]
  BY DEF Reread
<1>2. t \in Transaction /\ t # Idle /\ t.seen \in Seen
  BY RunningTransaction DEF Reread, DataInv, TypeInv, Transaction
<1> DEFINE seen == [tx[w].seen EXCEPT !.version = row.version, !.plan = plan]
<1>3. seen.status = t.seen.status /\ seen.plan = plan
  BY <1>2 DEF Seen
<1>4. /\ tx \in [Workers -> Transaction \cup {Idle}]
      /\ UNCHANGED request
  BY DEF Reread, DataInv, TypeInv, TypeOK
<1>5. tx' = [tx EXCEPT ![w] = [t EXCEPT !.seen = seen]]
  <2> HIDE DEF seen
  <2> QED BY <1>1, <1>4 DEF seen
<1> DEFINE next == [t EXCEPT !.seen = seen]
<1>6. /\ next.seen = seen /\ next.request = t.request
      /\ next.command = t.command
  <2> HIDE DEF seen
  <2> QED BY <1>2 DEF Transaction
<1>7. t.command = "cancel" => plan = row.plan
  BY <1>1, <1>2 DEF Snapshot, SeenCurrent
<1>8. tx'[w] = next /\ \A u \in Workers \ {w} : tx'[u] = tx[u]
  <2> HIDE DEF seen, next
  <2> QED BY <1>4, <1>5 DEF next
<1>9. QED
  <2> HIDE DEF seen, next
  <2> QED BY <1>2, <1>3, <1>4, <1>6, <1>7, <1>8 DEF SeenCurrent

\* A creation and an edition of the plan change nothing that a command read.
LEMMA OutsideCurrent ==
  ASSUME DataInv, SeenCurrent, NEW r \in Requests, NEW submit \in BOOLEAN,
         Create(r, submit) \/ EditPlan(r)
  PROVE  SeenCurrent'
<1>1. /\ UNCHANGED tx /\ request[r] \in Request
      /\ request \in [Requests -> Request]
  BY DEF Create, EditPlan, DataInv, TypeInv, TypeOK
<1>2. ASSUME NEW w \in Workers, tx[w] # Idle
      PROVE  /\ tx[w].request \in Requests
             /\ request[tx[w].request].status # "ABSENT"
  BY <1>2, RunningTransaction DEF SeenCurrent, DataInv, TypeInv
<1>3. ASSUME Create(r, submit)
      PROVE  SeenCurrent'
  <2>1. request[r].status = "ABSENT"
        /\ \A s \in Requests \ {r} : request'[s] = request[s]
    BY <1>1, <1>3 DEF Create
  <2>2. QED
    BY <1>1, <1>2, <2>1 DEF SeenCurrent
<1>4. ASSUME EditPlan(r)
      PROVE  SeenCurrent'
  <2>1. PICK decisions : request' = [request EXCEPT ![r] =
                           [request[r] EXCEPT !.decisions = decisions]]
    BY <1>4 DEF EditPlan
  <2>2. /\ request'[r].status = request[r].status
        /\ request'[r].plan = request[r].plan
        /\ request'[r].cancellation = request[r].cancellation
        /\ \A s \in Requests \ {r} : request'[s] = request[s]
    BY <1>1, <2>1 DEF Request
  <2>3. QED
    BY <1>1, <1>2, <2>2 DEF SeenCurrent
<1>5. QED
  BY <1>3, <1>4

\* A step without effect on requests, cycles and revisions.
LEMMA NothingEarned ==
  ASSUME EarnedInv, UNCHANGED <<request, cycle, revision>>
  PROVE  \A s \in Requests : EarnedAfter(s)
<1>1. \A s \in Requests : OpenAfter(s) = OpenCycles(s)
  BY SameCycles
<1>2. QED
  BY <1>1 DEF EarnedInv, EarnedAt, EarnedAfter

\* A commit of a worker that runs alone.
LEMMA CommitsEarned ==
  ASSUME ApprovalAssumption, DataInv, PlanInv, HistoryKept, EarnedInv,
         NEW w \in Workers,
         \/ CommitSubmit(w) \/ CommitCorrection(w)
         \/ CommitModifyDraft(w) \/ CommitModifySubmitted(w)
         \/ CommitSelect(w) \/ CommitContact(w)
         \/ CommitStaleVote(w) \/ CommitPartialVote(w) \/ CommitFinalVote(w)
         \/ CommitModifyWithin(w) \/ CommitReapproval(w)
         \/ CommitDirectApproval(w)
         \/ CommitCancel(w) \/ CommitRequestCancellation(w)
         \/ CommitAcceptCancellation(w) \/ CommitRejectCancellation(w)
  PROVE  (\A s \in Requests : EarnedAfter(s)) /\ tx' = [tx EXCEPT ![w] = Idle]
<1>1. \E commands : Finish(w, commands)
  BY DEF CommitSubmit, CommitCorrection, CommitModifyDraft,
         CommitModifySubmitted, CommitSelect, CommitContact, CommitStaleVote,
         CommitPartialVote, CommitFinalVote, CommitModifyWithin,
         CommitReapproval, CommitDirectApproval, CommitCancel,
         CommitRequestCancellation, CommitAcceptCancellation,
         CommitRejectCancellation, BeginsApproved, Writes
<1>2. tx[w].request \in Requests /\ tx' = [tx EXCEPT ![w] = Idle]
  BY <1>1, CommitStart DEF Finish
<1>3. SeenCurrent /\ EarnedAt(tx[w].request)
  BY <1>2 DEF EarnedInv
<1>4. EarnedAfter(tx[w].request)
  BY <1>3, SubmitsEarned, CorrectionEarned, DraftEarned, ContactEarned,
     VotesEarned, FinalVoteEarned, WithinEarned, DirectApprovalEarned,
     CancelEarned, AskedEarned, AcceptEarned, RejectEarned
<1>5. DataStep(tx[w].request)
  BY SubmitStep, CorrectionStep, ModifyDraftStep, ModifySubmittedStep,
     SelectStep, ContactStep, StaleVoteStep, PartialVoteStep, FinalVoteStep,
     ModifyWithinStep, ReapprovalStep, DirectApprovalStep, CancelStep,
     RequestCancellationStep, AcceptCancellationStep, RejectCancellationStep
<1>6. PICK r \in Requests : r = tx[w].request
  BY <1>2
<1>7. QED
  BY <1>2, <1>4, <1>5, <1>6, CommitEarned

\* EarnedInv is inductive for one worker, on top of the other invariants.
LEMMA EarnedInductive ==
  ASSUME ApprovalAssumption, \A v, w \in Workers : v = w,
         DataInv, PlanInv, EarnedInv, [Next]_vars
  PROVE  SeenCurrent' /\ \A s \in Requests : EarnedAfter(s)
<1>1. HistoryKept
  BY StepInv, DataStepHistory, NoDataHistory DEF DataChange
<1>2. SeenCurrent /\ \A r \in Requests : EarnedAt(r)
  BY DEF EarnedInv
<1>3. CASE \E r \in Requests, submit \in BOOLEAN : Create(r, submit)
  <2>1. PICK r \in Requests, submit \in BOOLEAN : Create(r, submit)
    BY <1>3
  <2>2. EarnedAfter(r) /\ DataStep(r) /\ SeenCurrent'
    BY <1>2, <2>1, CreateEarned, CreateStep, OutsideCurrent
  <2>3. QED
    BY <1>1, <2>2, CommitEarned
<1>4. CASE \E r \in Requests : EditPlan(r)
  <2>1. PICK r \in Requests : EditPlan(r)
    BY <1>4
  <2>2. EarnedAfter(r) /\ DataStep(r)
    BY <1>2, <2>1, EditPlanEarned, EditPlanStep
  <2>3. SeenCurrent'
    BY <1>2, <2>1, OutsideCurrent
  <2>4. QED
    BY <1>1, <2>2, <2>3, CommitEarned
<1>5. CASE ChangeRouting \/ UNCHANGED vars
  <2>1. UNCHANGED <<request, cycle, revision, tx>>
    BY <1>5 DEF ChangeRouting, vars
  <2>2. SeenCurrent'
    BY <1>2, <2>1 DEF SeenCurrent
  <2>3. QED
    BY <2>1, <2>2, NothingEarned
<1>6. ASSUME NEW w \in Workers, Command(w)
      PROVE  SeenCurrent' /\ \A s \in Requests : EarnedAfter(s)
  <2>1. CASE \/ \E r \in Requests, command \in Commands : Begin(w, r, command)
             \/ \E r \in Requests : BeginVote(w, r)
             \/ Reread(w)
    <3>1. UNCHANGED <<request, cycle, revision>>
      BY <2>1 DEF Begin, BeginVote, Start, Reread
    <3>2. SeenCurrent'
      BY <1>2, <2>1, BeginCurrent, BeginVoteCurrent, RereadCurrent
    <3>3. QED
      BY <3>1, <3>2, NothingEarned
  <2>2. CASE Rollback(w)
    <3>1. UNCHANGED <<request, cycle, revision>>
          /\ tx' = [tx EXCEPT ![w] = Idle]
      BY <2>2 DEF Rollback
    <3>2. QED
      BY <1>2, <3>1, NothingEarned, AloneSeen
  <2>3. CASE \/ CommitSubmit(w) \/ CommitCorrection(w)
             \/ CommitModifyDraft(w) \/ CommitModifySubmitted(w)
             \/ CommitSelect(w) \/ CommitContact(w)
             \/ CommitStaleVote(w) \/ CommitPartialVote(w)
             \/ CommitFinalVote(w) \/ CommitModifyWithin(w)
             \/ CommitReapproval(w) \/ CommitDirectApproval(w)
             \/ CommitCancel(w) \/ CommitRequestCancellation(w)
             \/ CommitAcceptCancellation(w) \/ CommitRejectCancellation(w)
    <3>1. /\ \A s \in Requests : EarnedAfter(s)
          /\ tx' = [tx EXCEPT ![w] = Idle]
      BY <1>1, <2>3, CommitsEarned
    <3>2. QED
      BY <1>2, <3>1, AloneSeen
  <2>4. QED
    BY <1>6, <2>1, <2>2, <2>3 DEF Command
<1>7. QED
  BY <1>3, <1>4, <1>5, <1>6 DEF Next

\* No request has earned anything at first, and none has a status to earn.
LEMMA InitEarned == Init => EarnedInv
<1> SUFFICES ASSUME Init
             PROVE  EarnedInv
  OBVIOUS
<1>1. \A r \in Requests : request[r].status = "ABSENT" /\ OpenCycles(r) = {}
  BY DEF Init, OpenCycles, Unused
<1>2. \A w \in Workers : tx[w] = Idle
  BY DEF Init
<1>3. QED
  BY <1>1, <1>2 DEF EarnedInv, SeenCurrent, EarnedAt

\* Where commands run one after the other, votes are open on submissions only,
\* an approved request is what its active revision authorises, planned as it,
\* and a cancelled one holds nothing.  Blind writes break this for two workers.
THEOREM StatusStaysEarned ==
  ASSUME \A v, w \in Workers : v = w
  PROVE  Spec => []StatusIsEarned
<1>1. DataInv /\ PlanInv /\ EarnedInv /\ [Next]_vars => EarnedInv'
  <2> SUFFICES ASSUME DataInv, PlanInv, EarnedInv, [Next]_vars
               PROVE  EarnedInv'
    OBVIOUS
  <2>1. SeenCurrent' /\ \A s \in Requests : EarnedAfter(s)
    BY EarnedInductive, ApprovalAssumption
  <2>2. QED
    BY <2>1 DEF EarnedInv, EarnedAt, EarnedAfter, OpenCycles, OpenAfter
<1>2. DataInv /\ EarnedInv => StatusIsEarned
  BY EarnedEverywhere DEF DataInv, TypeInv, EarnedInv
<1>3. QED
  BY <1>1, <1>2, InitEarned, DataInvariant, PlanInvariant, PTL DEF Spec
=============================================================================
