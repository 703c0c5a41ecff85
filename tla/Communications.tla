---------------------------- MODULE Communications ----------------------------
(***************************************************************************)
(* Project communications of one week: batches of reviewed messages are    *)
(* prepared from the plan, approved, sent by SMTP or put as drafts into a  *)
(* Microsoft 365 mailbox, and marked as communicated.  What was            *)
(* communicated last is the baseline of the next batch.                    *)
(*                                                                         *)
(* A message leaves the program while its transaction is open: a crash     *)
(* rolls the record of it back, not the message.  A claimed delivery row   *)
(* is locked until its transaction ends.  Other commands write blindly     *)
(* what they decided on their reads.                                       *)
(*                                                                         *)
(* A version stands for the fingerprint of the projection.  Recipients,    *)
(* contents and diagnostics are left out, and so is the earlier service by *)
(* technician, which has the same workflow without SMTP.                   *)
(***************************************************************************)
EXTENDS Records, FiniteSetsExt

CONSTANTS
  Batches,
  Messages,     \* of a batch, in the order in which they are sent
  Overlapping,  \* TRUE: commands other than sending may overlap
  Returning,    \* TRUE: the plan may become again what it was
  MaxPlanned, MaxLost  \* bounds on versions and on the effects lost

Drafts == 0  \* the drafts of a batch, an effect of their own
Effects == Messages \cup {Drafts}

VARIABLES
  planned,   \* version of the plan
  batch,     \* CommunicationBatchRow
  delivery,  \* status of the CommunicationDeliveryRow of each message
  told,      \* batches in the order of communicated_at
  received,  \* how often an effect reached the outside
  lost,      \* how often the program lost track of one that had
  sender     \* transaction of each worker

communicationVars ==
  <<planned, batch, delivery, told, received, lost, sender>>

Kinds == {"project_confirmation", "project_planning_change"}
Batch == [kind: Kinds, version: Nat \ {0},
          status: {"PREPARED", "APPROVED", "COMMUNICATED", "CANCELLED"},
          included: SUBSET Messages, drafted: BOOLEAN]

ASSUME MessagesAssumption ==
  /\ Messages \subseteq Nat \ {0} /\ MaxPlanned \in Nat \ {0}
  /\ None \notin Batch

CommunicationTypeOK ==
  /\ planned \in 1 .. MaxPlanned
  /\ batch \in [Batches -> Batch \cup {None}]
  /\ delivery \in [Batches -> [Messages ->
                     {None, "PENDING", "FAILED", "SENT"}]]
  /\ told \in Seq(Batches)
  /\ received \in [Batches -> [Effects -> Nat]]
  /\ lost \in [Batches -> [Effects -> Nat]]

-----------------------------------------------------------------------------
(* The baseline.                                                           *)

Communicated(b) == batch[b] # None /\ batch[b].status = "COMMUNICATED"

\* latest_communicated_project_snapshot
Baseline ==
  LET valid == {i \in DOMAIN told : Communicated(told[i])}
      last == CHOOSE i \in valid : \A j \in valid : j <= i
  IN  IF valid = {} THEN None ELSE batch[told[last]].version

Mode == IF Baseline = None THEN "project_confirmation"
        ELSE "project_planning_change"

Blocking_Cancelled ==
  {b \in Batches : /\ batch[b] # None
                   /\ batch[b].kind = Mode /\ batch[b].version = planned}

\* has_duplicate_batch
Blocking ==
  {b \in Batches : /\ batch[b] # None
                   /\ batch[b].kind = Mode /\ batch[b].version = planned
                   /\ batch[b].status # "CANCELLED"}

-----------------------------------------------------------------------------
(* Transactions.                                                           *)

MaySend(w) ==
  /\ sender[w] = Idle
  /\ Overlapping \/ \A v \in Workers : sender[v].command \in {"none", "send"}

MayDecide(w) ==
  /\ sender[w] = Idle
  /\ Overlapping \/ \A v \in Workers : sender[v] = Idle

\* A command other than sending begins: it checks what it reads.
BeginCommand(w, command, b) ==
  /\ MayDecide(w)
  /\ sender' = [sender EXCEPT ![w] = [command |-> command, batch |-> b]]

Ends(w) == sender' = [sender EXCEPT ![w] = Idle]

\* Within the bound of an instance; the same effect may be lost again.
Loses(b, effects) ==
  /\ MaxLost >= Cardinality(effects)
       + MapThenSumSet(LAMBDA x : lost[x[1]][x[2]], Batches \X Effects)
  /\ lost' = [lost EXCEPT ![b] =
       [e \in Effects |-> IF e \in effects THEN @[e] + 1 ELSE @[e]]]

BatchIs(b, statuses) == batch[b] # None /\ batch[b].status \in statuses

\* _assert_current_snapshot
IsCurrent(b) == batch[b].version = planned

SetStatus(b, status) == batch' = [batch EXCEPT ![b].status = status]

-----------------------------------------------------------------------------
(* Preparation and decisions.                                              *)

BeginPrepare(w) ==
  /\ Baseline # planned
  /\ Blocking = {}
  /\ MayDecide(w)
  /\ \E included \in (SUBSET Messages) \ {{}} :
       sender' = [sender EXCEPT ![w] =
         [command |-> "prepare", kind |-> Mode, version |-> planned,
          included |-> included]]
  /\ UNCHANGED <<planned, batch, delivery, told, received, lost>>

CommitPrepare(w) ==
  /\ sender[w].command = "prepare"
  /\ \E b \in Batches :
       /\ batch[b] = None
       /\ batch' = [batch EXCEPT ![b] =
            [kind |-> sender[w].kind, version |-> sender[w].version,
             status |-> "PREPARED", included |-> sender[w].included,
             drafted |-> FALSE]]
       /\ delivery' = [delivery EXCEPT ![b] =
            [m \in Messages |->
               IF m \in sender[w].included THEN "PENDING" ELSE None]]
  /\ Ends(w)
  /\ UNCHANGED <<planned, told, received, lost>>

BeginDecision(w, command, b, statuses) ==
  /\ BatchIs(b, statuses)
  /\ command # "cancel" => IsCurrent(b)
  /\ BeginCommand(w, command, b)
  /\ UNCHANGED <<planned, batch, delivery, told, received, lost>>

BeginApprove(w, b) == BeginDecision(w, "approve", b, {"PREPARED"})
BeginCancel(w, b) == BeginDecision(w, "cancel", b, {"PREPARED", "APPROVED"})
BeginMark(w, b) == BeginDecision(w, "mark", b, {"APPROVED"})

CommitDecision(w) ==
  LET b == sender[w].batch IN
  /\ \/ /\ sender[w].command = "approve" /\ SetStatus(b, "APPROVED")
        /\ UNCHANGED told
     \/ /\ sender[w].command = "cancel" /\ SetStatus(b, "CANCELLED")
        /\ UNCHANGED told
     \/ /\ sender[w].command = "mark" /\ SetStatus(b, "COMMUNICATED")
        /\ told' = Append(told, b)
  /\ Ends(w)
  /\ UNCHANGED <<planned, delivery, received, lost>>

-----------------------------------------------------------------------------
(* Drafts in a mailbox.                                                    *)

\* The transport removes what it made before it failed, as far as it can.
BeginDrafts(w, b) ==
  /\ BatchIs(b, {"APPROVED"}) /\ IsCurrent(b)
  /\ ~batch[b].drafted
  /\ received' = [received EXCEPT ![b][Drafts] = @ + 1]
  /\ \/ /\ BeginCommand(w, "drafts", b)
        /\ UNCHANGED lost
     \/ /\ MayDecide(w)
        /\ Loses(b, {Drafts})
        /\ UNCHANGED sender
  /\ UNCHANGED <<planned, batch, delivery, told>>

CommitDrafts(w) ==
  /\ sender[w].command = "drafts"
  /\ batch' = [batch EXCEPT ![sender[w].batch].drafted = TRUE]
  /\ Ends(w)
  /\ UNCHANGED <<planned, delivery, told, received, lost>>

-----------------------------------------------------------------------------
(* Sending.                                                                *)

BeginSend(w, b) ==
  /\ BatchIs(b, {"APPROVED"}) /\ IsCurrent(b)
  /\ MaySend(w)
  /\ LET seen == {m \in batch[b].included : delivery[b][m] = "SENT"} IN
     sender' = [sender EXCEPT ![w] =
       [command |-> "send", batch |-> b, left |-> batch[b].included \ seen,
        sent |-> seen, failed |-> {}, claimed |-> {}]]
  /\ UNCHANGED <<planned, batch, delivery, told, received, lost>>

\* The next message, whose row no other transaction has locked.
NextMessage(w, m) ==
  /\ sender[w].command = "send"
  /\ m \in sender[w].left /\ \A n \in sender[w].left : m <= n
  /\ \A v \in Workers \ {w} :
       sender[v].command = "send" /\ sender[v].batch = sender[w].batch
         => m \notin sender[v].claimed

Claimable_Any(w, m) == TRUE

\* claim_smtp_delivery
Claimable(w, m) == delivery[sender[w].batch][m] \in {"PENDING", "FAILED"}

SkipMessage(w, m) ==
  /\ NextMessage(w, m) /\ ~Claimable(w, m)
  /\ sender' = [sender EXCEPT ![w].left = @ \ {m}]
  /\ UNCHANGED <<planned, batch, delivery, told, received, lost>>

\* Sent, refused, or accepted by a server whose answer was lost.
SendMessage(w, m) ==
  LET b == sender[w].batch
      answered(set) == sender' = [sender EXCEPT
        ![w].left = @ \ {m}, ![w].claimed = @ \cup {m},
        ![w].sent = IF set = "sent" THEN @ \cup {m} ELSE @,
        ![w].failed = IF set = "failed" THEN @ \cup {m} ELSE @]
  IN
  /\ NextMessage(w, m) /\ Claimable(w, m)
  /\ \/ /\ answered("sent")
        /\ received' = [received EXCEPT ![b][m] = @ + 1]
        /\ UNCHANGED lost
     \/ answered("failed") /\ UNCHANGED <<received, lost>>
     \/ /\ answered("failed")
        /\ received' = [received EXCEPT ![b][m] = @ + 1]
        /\ Loses(b, {m})
  /\ UNCHANGED <<planned, batch, delivery, told>>

\* All sent as far as this transaction knows: communicated.
CommitSend(w) ==
  LET b == sender[w].batch IN
  /\ sender[w].command = "send" /\ sender[w].left = {}
  /\ delivery' = [delivery EXCEPT ![b] = [m \in Messages |->
       IF m \notin sender[w].claimed THEN @[m]
       ELSE IF m \in sender[w].failed THEN "FAILED" ELSE "SENT"]]
  /\ IF sender[w].sent = batch[b].included
     THEN SetStatus(b, "COMMUNICATED") /\ told' = Append(told, b)
     ELSE UNCHANGED <<batch, told>>
  /\ Ends(w)
  /\ UNCHANGED <<planned, received, lost>>

\* The server stops, or the commit fails: what was sent stays sent.
Crash(w) ==
  /\ sender[w] # Idle
  /\ CASE sender[w].command = "send" ->
            Loses(sender[w].batch, sender[w].claimed \cap sender[w].sent)
       [] sender[w].command = "drafts" -> Loses(sender[w].batch, {Drafts})
       [] OTHER -> UNCHANGED lost
  /\ Ends(w)
  /\ UNCHANGED <<planned, batch, delivery, told, received>>

ChangePlan ==
  /\ \E version \in 1 .. MaxPlanned :
       /\ version = planned + 1 \/ (Returning /\ version < planned)
       /\ planned' = version
  /\ UNCHANGED <<batch, delivery, told, received, lost, sender>>

-----------------------------------------------------------------------------
CommunicationInit ==
  /\ planned = 1
  /\ batch = [b \in Batches |-> None]
  /\ delivery = [b \in Batches |-> [m \in Messages |-> None]]
  /\ told = <<>>
  /\ received = [b \in Batches |-> [e \in Effects |-> 0]]
  /\ lost = [b \in Batches |-> [e \in Effects |-> 0]]
  /\ sender = [w \in Workers |-> Idle]

CommunicationNext ==
  \/ ChangePlan
  \/ \E w \in Workers :
       \/ BeginPrepare(w) \/ CommitPrepare(w)
       \/ CommitDecision(w) \/ CommitDrafts(w)
       \/ \E b \in Batches :
            \/ BeginApprove(w, b) \/ BeginCancel(w, b) \/ BeginMark(w, b)
            \/ BeginDrafts(w, b) \/ BeginSend(w, b)
       \/ \E m \in Messages : SkipMessage(w, m) \/ SendMessage(w, m)
       \/ CommitSend(w) \/ Crash(w)

CommunicationSpec ==
  CommunicationInit /\ [][CommunicationNext]_communicationVars

-----------------------------------------------------------------------------
(* Nobody gets a message or a draft twice unless the program lost track of *)
(* it: each copy after the first is one whose answer or record was lost.   *)
(* Two people may press send at once, and a failed batch may be retried.   *)
EffectsAccounted ==
  \A b \in Batches, e \in Effects : received[b][e] <= 1 + lost[b][e]

(* A change of the plan can be communicated: when the plan is not what was *)
(* communicated last, the only batch that may be in the way is one that is *)
(* still open, and can be sent or cancelled.                               *)
ChangeCanBeTold ==
  Baseline # planned =>
    \A b \in Blocking : batch[b].status \in {"PREPARED", "APPROVED"}
=============================================================================
