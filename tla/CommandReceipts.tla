-------------------------- MODULE CommandReceipts --------------------------
(***************************************************************************)
(* A keyed command: its idempotency receipt, the planning version it       *)
(* acquires, and the transaction and savepoint around both.                *)
(*                                                                         *)
(* An attempt is one HTTP request in one session.  It looks for a receipt, *)
(* opens a savepoint, acquires the planning version when its command is    *)
(* guarded, executes, and inserts its receipt.  What it writes is seen by  *)
(* the others when it commits; until then its row locks make them wait.    *)
(* The transaction commits when the session dependency exits, which        *)
(* FastAPI does after it has sent the response.                            *)
(***************************************************************************)
EXTENDS Integers, FiniteSets

CONSTANTS
  Attempts,     \* HTTP requests, first tries and retries alike
  Keys,         \* idempotency keys of one actor and command scope
  GuardedKeys,  \* those whose command acquires the planning version
  Payloads,     \* command inputs the request fingerprint tells apart
  NoReceipt, NoCommand

ASSUME ReceiptsAssumption ==
  /\ IsFiniteSet(Attempts)
  /\ GuardedKeys \subseteq Keys
  /\ NoReceipt \notin [payload: Payloads, by: Attempts]
  /\ NoCommand \notin [key: Keys, payload: Payloads, expected: Nat]
  /\ NoCommand \notin [key: Keys, payload: Payloads]

VARIABLES
  receipts,   \* committed receipt of each key
  effects,    \* attempts whose business mutation is committed
  planning,   \* committed planning version
  pc,         \* where each attempt is
  command,    \* what it was asked
  acquired,   \* planning version it acquired, 0 when none
  answer      \* what its client received

vars == <<receipts, effects, planning, pc, command, acquired, answer>>
shared == <<receipts, effects, planning>>

-----------------------------------------------------------------------------
Running == {"find", "read", "acquire", "execute", "insert", "written",
            "answered", "conflict", "integrity"}

Receipt == [payload: Payloads, by: Attempts]

\* expected = 0 stands for a command without expected_planning_version.
Command == [key: Keys, payload: Payloads, expected: Nat]

NoAnswer == [kind |-> "untold"]
Done(a) == [kind |-> "done", by |-> a]
Replayed(receipt) == [kind |-> "replay", by |-> receipt.by]
KeyConflict == [kind |-> "keyConflict"]
Conflict == [kind |-> "conflict"]
Failed == [kind |-> "failed"]

Answers == {NoAnswer, KeyConflict, Conflict, Failed}
             \cup [kind: {"done", "replay"}, by: Attempts]

TypeOK ==
  /\ receipts \in [Keys -> Receipt \cup {NoReceipt}]
  /\ effects \subseteq Attempts
  /\ planning \in Nat \ {0}
  /\ pc \in [Attempts -> Running \cup {"idle", "ended"}]
  /\ command \in [Attempts -> Command \cup {NoCommand}]
  /\ acquired \in [Attempts -> Nat]
  /\ answer \in [Attempts -> Answers]

Init ==
  /\ receipts = [k \in Keys |-> NoReceipt]
  /\ effects = {}
  /\ planning = 1
  /\ pc = [a \in Attempts |-> "idle"]
  /\ command = [a \in Attempts |-> NoCommand]
  /\ acquired = [a \in Attempts |-> 0]
  /\ answer = [a \in Attempts |-> NoAnswer]

-----------------------------------------------------------------------------
(* Row locks, taken inside the savepoint: the attempt keeps them until it   *)
(* rolls back to the savepoint or its transaction ends.                    *)

Holding_Forever == {"execute", "insert", "written", "answered", "ended"}

Holding == {"execute", "insert", "written", "answered"}

HoldsPlanning(a) == acquired[a] # 0 /\ pc[a] \in Holding

HoldsKey(a, k) ==
  pc[a] \in {"written", "answered"} /\ command[a].key = k

Goto(a, from, to) ==
  /\ pc[a] = from
  /\ pc' = [pc EXCEPT ![a] = to]

Tell(a, what) == answer' = [answer EXCEPT ![a] = what]

-----------------------------------------------------------------------------
\* A client sends a command, for the first time or again.
Start(a) ==
  /\ Goto(a, "idle", "find")
  /\ \E k \in Keys, payload \in Payloads, expected \in 0..planning :
       command' = [command EXCEPT ![a] =
                     [key |-> k, payload |-> payload, expected |-> expected]]
  /\ UNCHANGED <<shared, acquired, answer>>

\* _replay: the fingerprint decides between the stored result and a refusal.
SameRequest_KeyOnly(a, receipt) == receipt # NoReceipt

SameRequest(a, receipt) == receipt.payload = command[a].payload

ReplayOf_Raw(a, receipt) ==
  IF SameRequest(a, receipt) THEN receipt ELSE KeyConflict

ReplayOf(a, receipt) ==
  IF SameRequest(a, receipt) THEN Replayed(receipt) ELSE KeyConflict

\* _find
Winner(a) == receipts[command[a].key]

Body(a) == IF command[a].key \in GuardedKeys THEN "read" ELSE "execute"

FindReceipt(a) ==
  /\ \/ /\ Goto(a, "find", "ended")
        /\ Winner(a) # NoReceipt
        /\ Tell(a, ReplayOf(a, Winner(a)))
     \/ /\ Goto(a, "find", Body(a))
        /\ Winner(a) = NoReceipt
        /\ UNCHANGED answer
  /\ UNCHANGED <<shared, command, acquired>>

\* acquire: the version is read first, and expected when none was sent.
ReadVersion(a) ==
  /\ Goto(a, "read", "acquire")
  /\ command' = [command EXCEPT ![a].expected = IF @ = 0 THEN planning ELSE @]
  /\ UNCHANGED <<shared, acquired, answer>>

\* The conditional UPDATE waits for whoever updated the row.
GuardFree_NoWait(a) == acquired[a] = 0

GuardFree(a) == \A b \in Attempts : ~HoldsPlanning(b)

Acquire(a) ==
  /\ GuardFree(a)
  /\ \/ /\ Goto(a, "acquire", "execute")
        /\ command[a].expected = planning
        /\ acquired' = [acquired EXCEPT ![a] = planning + 1]
     \/ /\ Goto(a, "acquire", "conflict")
        /\ command[a].expected # planning
        /\ UNCHANGED acquired
  /\ UNCHANGED <<shared, command, answer>>

\* The business mutation: done, refused by a conflict, caught by an integrity
\* constraint, or failed otherwise, which rolls the transaction back.
Execute(a) ==
  /\ \/ Goto(a, "execute", "insert") /\ UNCHANGED answer
     \/ Goto(a, "execute", "conflict") /\ UNCHANGED answer
     \/ Goto(a, "execute", "integrity") /\ UNCHANGED answer
     \/ Goto(a, "execute", "ended") /\ Tell(a, Failed)
  /\ UNCHANGED <<shared, command, acquired>>

\* The unique actor/scope/key constraint: the insertion waits for another
\* uncommitted receipt of the key, and fails on a committed one.
KeyFree_Unconstrained(a) == command[a] # NoCommand

KeyFree(a) == receipts[command[a].key] = NoReceipt

InsertReceipt(a) ==
  /\ pc[a] = "insert"
  /\ \A b \in Attempts : ~HoldsKey(b, command[a].key)
  /\ \/ KeyFree(a) /\ Goto(a, "insert", "written")
     \/ ~KeyFree(a) /\ Goto(a, "insert", "integrity")
  /\ UNCHANGED <<shared, command, acquired, answer>>

\* After the rollback to the savepoint the winner of the key is looked for.
AfterRollback_NoWinner(a, refusal) == refusal

AfterRollback(a, refusal) ==
  IF Winner(a) = NoReceipt THEN refusal ELSE ReplayOf(a, Winner(a))

FindWinner(a) ==
  /\ \/ Goto(a, "conflict", "ended") /\ Tell(a, AfterRollback(a, Conflict))
     \/ Goto(a, "integrity", "ended") /\ Tell(a, AfterRollback(a, Failed))
  /\ UNCHANGED <<shared, command, acquired>>

\* The response leaves before the session dependency exits.
Answer(a) ==
  /\ Goto(a, "written", "answered")
  /\ Tell(a, Done(a))
  /\ UNCHANGED <<shared, command, acquired>>

Commit(a) ==
  /\ Goto(a, "answered", "ended")
  /\ receipts' = [receipts EXCEPT ![command[a].key] =
                    [payload |-> command[a].payload, by |-> a]]
  /\ effects' = effects \cup {a}
  /\ planning' = IF acquired[a] = 0 THEN planning ELSE acquired[a]
  /\ UNCHANGED <<command, acquired, answer>>

\* The server stops or loses its database: everything is rolled back.
Crash(a) ==
  /\ pc[a] \in Running
  /\ pc' = [pc EXCEPT ![a] = "ended"]
  /\ UNCHANGED <<shared, command, acquired, answer>>

Progress(a) ==
  \/ FindReceipt(a) \/ ReadVersion(a) \/ Acquire(a) \/ Execute(a)
  \/ InsertReceipt(a) \/ FindWinner(a) \/ Answer(a) \/ Commit(a)

Next == \E a \in Attempts : Start(a) \/ Progress(a) \/ Crash(a)

\* A worker thread goes on with the request it serves.
Spec == Init /\ [][Next]_vars /\ \A a \in Attempts : WF_vars(Progress(a))

-----------------------------------------------------------------------------
\* ADR-006: of the attempts with one key only one takes effect, even when
\* both executed before either committed.
OncePerKey ==
  \A a, b \in effects : command[a].key = command[b].key => a = b

\* ADR-006: from the acquisition to its commit, what a guarded command decided
\* on stays the current plan, and no other command is in that section.
GuardIsCurrent ==
  \A a \in Attempts :
    HoldsPlanning(a) =>
      /\ acquired[a] = planning + 1
      /\ \A b \in Attempts \ {a} : ~HoldsPlanning(b)

\* ADR-006: a first success makes the expected version stale, so that a retry
\* racing it must be replayed: the planning conflict a client is told is the
\* work of another command, never of its own.
ConflictIsAnothers ==
  \A a \in Attempts :
    answer[a] = Conflict /\ command[a].key \in GuardedKeys /\ acquired[a] = 0
    => \E b \in effects : command[b].key \in GuardedKeys \ {command[a].key}

\* No attempt waits for ever: the planning row and the receipt are always
\* locked in that order.
EveryAttemptEnds ==
  \A a \in Attempts : pc[a] = "find" ~> pc[a] = "ended"

\* The receipt is the durable result of its command: what a client was told
\* to be done is done.
DoneIsDurable ==
  \A a \in Attempts :
    answer[a] = Done(a) /\ pc[a] = "ended" => a \in effects

\* The receipts implement the promise of an idempotency key.
Question(a) ==
  IF command[a] = NoCommand
  THEN NoCommand
  ELSE [key |-> command[a].key, payload |-> command[a].payload]

Once == INSTANCE OnceOnly WITH
  NoOutcome <- NoReceipt,
  NoQuestion <- NoCommand,
  asked <- [a \in Attempts |-> Question(a)],
  outcome <- receipts,
  told <- [a \in Attempts |->
             IF answer[a].kind \in {"replay", "keyConflict"}
             THEN answer[a] ELSE NoAnswer]

KeepsPromise == Once!Spec
=============================================================================
