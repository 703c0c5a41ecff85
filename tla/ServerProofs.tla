---------------------------- MODULE ServerProofs -----------------------------
(***************************************************************************)
(* Proofs about what the server promises its clients: CommandReceipts,     *)
(* for any number of attempts and keys, and ErpSynchronisation, for any    *)
(* projects and tasks, any number of runs, and any changes, stops and      *)
(* crashes meanwhile.                                                      *)
(*                                                                         *)
(* An effect has its receipt, and an uncommitted receipt is the only one   *)
(* of its key.                                                             *)
(*                                                                         *)
(* A run is active from its launch to its end, and passes from the launch  *)
(* to the queue to the thread. What is proved is that it is nowhere lost   *)
(* on the way while the server is up, that it is the only one, and that    *)
(* what it reports when it has completed is all the projects it listed.    *)
(*                                                                         *)
(* A row of the catalogue keeps its task, since the ERP, the answers that  *)
(* are still to be applied, and the rows agree on whose a code is.         *)
(***************************************************************************)
EXTENDS MCServer, FiniteFacts, SequenceTheorems

-----------------------------------------------------------------------------
(* Commands and their receipts.                                             *)

\* An attempt that has started has a command, and acquires only after it has
\* read the version.
Underway ==
  \A a \in Attempts :
    /\ pc[a] # "idle" => command[a] \in Command
    /\ pc[a] \in {"idle", "find", "read", "acquire"} => acquired[a] = 0

\* The receipt of a committed effect is its own, and an uncommitted receipt is
\* the only one of its key.
ReceiptsMatch ==
  /\ \A a \in effects :
       /\ pc[a] = "ended"
       /\ receipts[command[a].key] # NoReceipt
       /\ receipts[command[a].key].by = a
  /\ \A a \in Attempts :
       pc[a] \in {"written", "answered"} =>
         /\ receipts[command[a].key] = NoReceipt
         /\ \A b \in Attempts : HoldsKey(b, command[a].key) => b = a

CommandInv == TypeOK /\ Underway /\ ReceiptsMatch /\ GuardIsCurrent

-----------------------------------------------------------------------------
\* A committed receipt is one of the declared receipts and never the absence
\* of one.
LEMMA ReceiptTyped ==
  ASSUME TypeOK, NEW a \in Attempts, command[a] \in Command
  PROVE  /\ command[a].key \in Keys
         /\ command[a].payload \in Payloads
         /\ command[a].expected \in Nat
         /\ [payload |-> command[a].payload, by |-> a] \in Receipt
         /\ [payload |-> command[a].payload, by |-> a] # NoReceipt
  BY ReceiptsAssumption DEF Command, Receipt

\* What a replay tells is an answer.
LEMMA ReplayTyped ==
  ASSUME NEW a \in Attempts, NEW receipt \in Receipt
  PROVE  ReplayOf(a, receipt) \in Answers
  BY DEF ReplayOf, Replayed, Answers, Receipt

\* No transaction has anything before the first attempt.
LEMMA InitCommandInv == Init => CommandInv
  <1> SUFFICES ASSUME Init PROVE CommandInv
    OBVIOUS
  <1>1. TypeOK
    BY DEF Init, TypeOK, Answers
  <1>2. Underway
    BY DEF Init, Underway
  <1>3. ReceiptsMatch
    BY DEF Init, ReceiptsMatch
  <1>4. GuardIsCurrent
    BY DEF Init, GuardIsCurrent, HoldsPlanning
  <1> QED
    BY <1>1, <1>2, <1>3, <1>4 DEF CommandInv

\* Every step of an attempt keeps the shared state or commits, and keeps the
\* program counters of the others.
LEMMA StepTyped ==
  ASSUME CommandInv, NEW a \in Attempts, Start(a) \/ Progress(a) \/ Crash(a)
  PROVE  TypeOK'
  <1> USE DEF CommandInv
  <1>1. CASE Start(a)
    <2>1. \A n \in 0..planning : n \in Nat
      BY DEF TypeOK
    <2> QED
      BY <1>1, <2>1 DEF Start, Goto, TypeOK, shared, Running, Command
  <1>2. CASE FindReceipt(a)
    <2>1. pc[a] = "find" /\ command[a] \in Command
      BY <1>2 DEF FindReceipt, Goto, Underway
    <2>2. Winner(a) # NoReceipt => ReplayOf(a, Winner(a)) \in Answers
      BY <2>1, ReceiptTyped, ReplayTyped DEF TypeOK, Winner
    <2> QED
      BY <1>2, <2>2 DEF FindReceipt, Goto, Tell, Body, TypeOK, shared, Running
  <1>3. CASE ReadVersion(a)
    <2>1. command[a] \in Command
      BY <1>3 DEF ReadVersion, Goto, Underway
    <2>2. [command[a] EXCEPT !.expected =
             IF command[a].expected = 0 THEN planning
                                        ELSE command[a].expected] \in Command
      BY <2>1 DEF Command, TypeOK
    <2> QED
      BY <1>3, <2>2 DEF ReadVersion, Goto, TypeOK, shared, Running
  <1>4. CASE Acquire(a)
    BY <1>4 DEF Acquire, Goto, TypeOK, shared, Running
  <1>5. CASE Execute(a)
    BY <1>5 DEF Execute, Goto, Tell, TypeOK, shared, Running, Answers, Failed
  <1>6. CASE InsertReceipt(a)
    BY <1>6 DEF InsertReceipt, Goto, TypeOK, shared, Running
  <1>7. CASE FindWinner(a)
    <2>1. command[a] \in Command
      BY <1>7 DEF FindWinner, Goto, Underway
    <2>2. /\ AfterRollback(a, Conflict) \in Answers
          /\ AfterRollback(a, Failed) \in Answers
      BY <2>1, ReceiptTyped, ReplayTyped
         DEF TypeOK, Winner, AfterRollback, Answers
    <2> QED
      BY <1>7, <2>2 DEF FindWinner, Goto, Tell, TypeOK, shared, Running
  <1>8. CASE Answer(a)
    BY <1>8 DEF Answer, Goto, Tell, Done, TypeOK, shared, Running, Answers
  <1>9. CASE Commit(a)
    <2>1. command[a] \in Command
      BY <1>9 DEF Commit, Goto, Underway
    <2> QED
      BY <1>9, <2>1, ReceiptTyped DEF Commit, Goto, TypeOK, Running
  <1>10. CASE Crash(a)
    BY <1>10 DEF Crash, TypeOK, shared
  <1> QED
    BY <1>1, <1>2, <1>3, <1>4, <1>5, <1>6, <1>7, <1>8, <1>9, <1>10
       DEF Progress

\* A command keeps its key, and only an attempt that acquires the planning
\* version learns one.
LEMMA StepUnderway ==
  ASSUME CommandInv, TypeOK', NEW a \in Attempts,
         Start(a) \/ Progress(a) \/ Crash(a)
  PROVE  Underway'
  <1> USE DEF CommandInv, Underway
  <1>1. CASE Start(a)
    <2>1. \A n \in 0..planning : n \in Nat
      BY DEF TypeOK
    <2> QED
      BY <1>1, <2>1 DEF Start, Goto, TypeOK, Command
  <1>2. CASE ReadVersion(a)
    <2>1. command[a] \in Command
      BY <1>2 DEF ReadVersion, Goto
    <2>2. [command[a] EXCEPT !.expected =
             IF command[a].expected = 0 THEN planning
                                        ELSE command[a].expected] \in Command
      BY <2>1 DEF Command, TypeOK
    <2> QED
      BY <1>2, <2>2 DEF ReadVersion, Goto, TypeOK
  <1>3. CASE FindReceipt(a)
    BY <1>3 DEF FindReceipt, Goto, Body, TypeOK
  <1>4. CASE Acquire(a)
    BY <1>4 DEF Acquire, Goto, TypeOK
  <1>5. CASE Execute(a) \/ InsertReceipt(a) \/ FindWinner(a) \/ Answer(a)
    BY <1>5 DEF Execute, InsertReceipt, FindWinner, Answer, Goto, TypeOK
  <1>6. CASE Commit(a) \/ Crash(a)
    BY <1>6 DEF Commit, Crash, Goto, TypeOK, Running
  <1> QED
    BY <1>1, <1>2, <1>3, <1>4, <1>5, <1>6 DEF Progress

\* A step that does not commit leaves the committed receipts and effects, and
\* no command of a started attempt changes its key.
LEMMA KeyKept ==
  ASSUME CommandInv, NEW a \in Attempts, Start(a) \/ Progress(a) \/ Crash(a),
         NEW b \in Attempts, pc[b] # "idle"
  PROVE  command'[b].key = command[b].key
  <1> USE DEF CommandInv, TypeOK
  <1>1. CASE Start(a)
    BY <1>1 DEF Start, Goto
  <1>2. CASE ReadVersion(a)
    <2>1. command[a] \in Command
      BY <1>2 DEF ReadVersion, Goto, Underway
    <2> QED
      BY <1>2, <2>1 DEF ReadVersion, Command
  <1>3. CASE ~Start(a) /\ ~ReadVersion(a)
    BY <1>3 DEF Progress, FindReceipt, Acquire, Execute, InsertReceipt,
                FindWinner, Answer, Commit, Crash
  <1> QED
    BY <1>1, <1>2, <1>3

\* The unique constraint: an insertion finds neither a committed receipt nor
\* another uncommitted one, and a commit makes the only one of its key visible.
LEMMA StepReceiptsMatch ==
  ASSUME CommandInv, TypeOK', NEW a \in Attempts,
         Start(a) \/ Progress(a) \/ Crash(a)
  PROVE  ReceiptsMatch'
  <1> USE DEF CommandInv, ReceiptsMatch, HoldsKey
  <1>1. \A b \in Attempts : pc[b] # "idle" => command'[b].key = command[b].key
    BY KeyKept
  <1>2. effects \subseteq Attempts /\ DOMAIN pc = Attempts
    BY DEF TypeOK
  <1>3. CASE Commit(a)
    <2>1. /\ pc[a] = "answered" /\ command' = command
          /\ pc' = [pc EXCEPT ![a] = "ended"]
          /\ receipts' = [receipts EXCEPT ![command[a].key] =
                            [payload |-> command[a].payload, by |-> a]]
          /\ effects' = effects \cup {a}
      BY <1>3 DEF Commit, Goto
    <2>2. command[a] \in Command
      BY <2>1 DEF Underway
    <2>3. receipts[command[a].key] = NoReceipt
      BY <2>1
    <2>4. /\ receipts'[command[a].key] # NoReceipt
          /\ receipts'[command[a].key].by = a
      BY <2>1, <2>2, ReceiptTyped DEF TypeOK
    <2>5. ASSUME NEW b \in effects'
          PROVE  /\ pc'[b] = "ended"
                 /\ receipts'[command'[b].key] # NoReceipt
                 /\ receipts'[command'[b].key].by = b
      <3>1. CASE b = a
        BY <3>1, <2>1, <2>4, <1>2
      <3>2. CASE b # a
        <4>1. b \in effects /\ command[b].key # command[a].key
          BY <3>2, <2>1, <2>3
        <4> QED
          BY <4>1, <3>2, <2>1, <1>2 DEF TypeOK
      <3> QED
        BY <3>1, <3>2
    <2>6. ASSUME NEW b \in Attempts, pc'[b] \in {"written", "answered"}
          PROVE  /\ receipts'[command'[b].key] = NoReceipt
                 /\ \A c \in Attempts : HoldsKey(c, command[b].key)' => c = b
      <3>1. b # a /\ pc[b] \in {"written", "answered"}
        BY <2>6, <2>1, <1>2
      <3>2. command[b].key # command[a].key
        BY <3>1, <2>1
      <3> QED
        BY <3>1, <3>2, <2>1, <1>2 DEF TypeOK
    <2> QED
      BY <2>1, <2>5, <2>6
  <1>4. CASE InsertReceipt(a)
    <2>1. pc[a] = "insert" /\ UNCHANGED <<shared, command>>
      BY <1>4 DEF InsertReceipt
    <2>2. CASE KeyFree(a) /\ pc' = [pc EXCEPT ![a] = "written"]
      BY <1>2, <1>4, <2>1, <2>2 DEF InsertReceipt, KeyFree, shared
    <2>3. CASE pc' = [pc EXCEPT ![a] = "integrity"]
      BY <1>2, <2>1, <2>3 DEF shared
    <2> QED
      BY <1>4, <2>2, <2>3 DEF InsertReceipt, Goto
  <1>5. CASE ~Commit(a) /\ ~InsertReceipt(a)
    <2>1. UNCHANGED shared
      BY <1>5 DEF Start, Progress, FindReceipt, ReadVersion, Acquire, Execute,
                  FindWinner, Answer, Crash
    <2>2. /\ \A b \in Attempts \ {a} : pc'[b] = pc[b]
          /\ pc[a] # "ended"
      BY <1>5, <1>2
         DEF Start, Progress, FindReceipt, ReadVersion, Acquire, Execute,
             FindWinner, Answer, Crash, Goto, Running
    <2>3. pc'[a] \in {"written", "answered"} => pc[a] \in {"written", "answered"}
      BY <1>5, <1>2
         DEF Start, Progress, FindReceipt, ReadVersion, Acquire, Execute,
             FindWinner, Answer, Crash, Goto, Body
    <2>4. \A b \in effects : b # a
      BY <2>2
    <2>5. \A b \in Attempts :
            pc'[b] \in {"written", "answered"} => pc[b] \in {"written", "answered"}
      BY <2>2, <2>3
    <2> QED
      BY <1>1, <1>2, <2>1, <2>2, <2>4, <2>5 DEF shared
  <1> QED
    BY <1>3, <1>4, <1>5

\* The conditional update: it succeeds only on the committed version, and the
\* row lock keeps every other update out until the commit.
LEMMA StepGuardIsCurrent ==
  ASSUME CommandInv, TypeOK', NEW a \in Attempts,
         Start(a) \/ Progress(a) \/ Crash(a)
  PROVE  GuardIsCurrent'
  <1> USE DEF CommandInv, GuardIsCurrent, HoldsPlanning, Holding
  <1>1. DOMAIN pc = Attempts /\ DOMAIN acquired = Attempts
    BY DEF TypeOK
  <1>2. CASE Commit(a)
    <2>1. /\ pc[a] = "answered" /\ acquired' = acquired
          /\ pc' = [pc EXCEPT ![a] = "ended"]
          /\ planning' = IF acquired[a] = 0 THEN planning ELSE acquired[a]
      BY <1>2 DEF Commit, Goto
    <2>2. CASE acquired[a] = 0
      BY <1>1, <2>1, <2>2
    <2>3. CASE acquired[a] # 0
      <3>1. HoldsPlanning(a)
        BY <2>1, <2>3
      <3>2. \A b \in Attempts \ {a} : ~HoldsPlanning(b)
        BY <3>1
      <3> QED
        BY <1>1, <2>1, <3>2
    <2> QED
      BY <2>2, <2>3
  <1>3. CASE Acquire(a)
    <2>1. pc[a] = "acquire" /\ planning' = planning /\ GuardFree(a)
      BY <1>3 DEF Acquire, Goto, shared
    <2>2. \A b \in Attempts : ~HoldsPlanning(b)
      BY <2>1 DEF GuardFree
    <2>3. CASE /\ pc' = [pc EXCEPT ![a] = "execute"]
               /\ acquired' = [acquired EXCEPT ![a] = planning + 1]
      BY <1>1, <2>1, <2>2, <2>3
    <2>4. CASE pc' = [pc EXCEPT ![a] = "conflict"] /\ acquired' = acquired
      BY <1>1, <2>1, <2>2, <2>4
    <2> QED
      BY <1>3, <2>3, <2>4 DEF Acquire, Goto
  <1>4. CASE ~Commit(a) /\ ~Acquire(a)
    <2>1. UNCHANGED <<planning, acquired>>
      BY <1>4 DEF Start, Progress, FindReceipt, ReadVersion, Execute,
                  InsertReceipt, FindWinner, Answer, Crash, shared
    <2>2. \A b \in Attempts \ {a} : pc'[b] = pc[b]
      BY <1>4, <1>1
         DEF Start, Progress, FindReceipt, ReadVersion, Execute, InsertReceipt,
             FindWinner, Answer, Crash, Goto
    <2>3. HoldsPlanning(a)' => HoldsPlanning(a)
      BY <1>4, <1>1, <2>1
         DEF Start, Progress, FindReceipt, ReadVersion, Execute, InsertReceipt,
             FindWinner, Answer, Crash, Goto, Body, Underway
    <2>4. \A b \in Attempts : HoldsPlanning(b)' => HoldsPlanning(b)
      BY <2>1, <2>2, <2>3
    <2> QED
      BY <2>1, <2>4
  <1> QED
    BY <1>2, <1>3, <1>4

\* Each step keeps the invariant.
LEMMA NextCommandInv == CommandInv /\ [Next]_vars => CommandInv'
  <1> SUFFICES ASSUME CommandInv, [Next]_vars PROVE CommandInv'
    OBVIOUS
  <1>1. CASE Next
    <2> PICK a \in Attempts : Start(a) \/ Progress(a) \/ Crash(a)
      BY <1>1 DEF Next
    <2>1. TypeOK'
      BY StepTyped
    <2>2. Underway' /\ ReceiptsMatch' /\ GuardIsCurrent'
      BY <2>1, StepUnderway, StepReceiptsMatch, StepGuardIsCurrent
    <2> QED
      BY <2>1, <2>2 DEF CommandInv
  <1>2. CASE UNCHANGED vars
    BY <1>2 DEF vars, CommandInv, TypeOK, Underway, ReceiptsMatch,
                GuardIsCurrent, HoldsKey, HoldsPlanning
  <1> QED
    BY <1>1, <1>2

-----------------------------------------------------------------------------
\* The inductive invariant of keyed commands (replay_or_execute and acquire):
\* receipts, effects and acquired versions agree in every reachable state.
THEOREM CommandInvariant == Spec => []CommandInv
  BY InitCommandInv, NextCommandInv, PTL DEF Spec

\* Type correctness of the receipts, versions and attempts.
THEOREM CommandTypeCorrect == Spec => []TypeOK
  <1>1. CommandInv => TypeOK
    BY DEF CommandInv
  <1> QED
    BY <1>1, CommandInvariant, PTL

\* However many attempts share a key, one takes effect (the savepoint and the
\* unique constraint of replay_or_execute).
THEOREM OneEffectPerKey == Spec => []OncePerKey
  <1>1. CommandInv => OncePerKey
    BY DEF CommandInv, ReceiptsMatch, OncePerKey
  <1> QED
    BY <1>1, CommandInvariant, PTL

\* However many guarded commands run, what one decided on after acquire is
\* current until it commits.
THEOREM GuardStaysCurrent == Spec => []GuardIsCurrent
  <1>1. CommandInv => GuardIsCurrent
    BY DEF CommandInv
  <1> QED
    BY <1>1, CommandInvariant, PTL

-----------------------------------------------------------------------------
\* What was expected and what was refused: an expected version is not ahead of
\* the planning, and the planning moves by guarded effects only.
ConflictInv ==
  /\ \A a \in Attempts :
       /\ pc[a] # "idle" => command[a].expected \leq planning
       /\ pc[a] = "acquire" => command[a].expected # 0
  /\ planning = 1 \/ \E b \in effects : command[b].key \in GuardedKeys
  /\ \A a \in Attempts :
       pc[a] = "conflict" /\ command[a].key \in GuardedKeys /\ acquired[a] = 0
       => \E b \in effects : command[b].key \in GuardedKeys
  /\ \A a \in Attempts :
       /\ pc[a] = "execute" /\ command[a].key \in GuardedKeys => acquired[a] # 0
       /\ answer[a] = Conflict => pc[a] = "ended"
       /\ acquired[a] # 0 => command[a].key \in GuardedKeys
       /\ pc[a] \in {"read", "acquire"} => command[a].key \in GuardedKeys

\* The effects of before are there after, with the keys they had.
LEMMA EffectsKept ==
  ASSUME CommandInv, NEW a \in Attempts, Start(a) \/ Progress(a) \/ Crash(a),
         NEW b \in effects
  PROVE  b \in effects' /\ command'[b].key = command[b].key
  <1>1. b \in Attempts /\ pc[b] = "ended"
    BY DEF CommandInv, ReceiptsMatch, TypeOK
  <1>2. command'[b].key = command[b].key
    BY <1>1, KeyKept
  <1>3. effects \subseteq effects'
    BY DEF Start, Progress, FindReceipt, ReadVersion, Acquire, Execute,
           InsertReceipt, FindWinner, Answer, Commit, Crash, shared
  <1> QED
    BY <1>2, <1>3

\* A guarded effect once, a guarded effect for ever.
LEMMA GuardedEffectKept ==
  ASSUME CommandInv, NEW a \in Attempts, Start(a) \/ Progress(a) \/ Crash(a),
         \E b \in effects : command[b].key \in GuardedKeys
  PROVE  \E b \in effects' : command'[b].key \in GuardedKeys
  BY EffectsKept

\* The inductive step of ConflictInv, one step per action that disturbs it.
LEMMA StepConflictInv ==
  ASSUME CommandInv, ConflictInv, CommandInv', NEW a \in Attempts,
         Start(a) \/ Progress(a) \/ Crash(a)
  PROVE  ConflictInv'
  <1> DEFINE GuardedEffect == \E b \in effects : command[b].key \in GuardedKeys
  <1>1. GuardedEffect => GuardedEffect'
    BY GuardedEffectKept
  <1>2. /\ DOMAIN pc = Attempts /\ DOMAIN acquired = Attempts
        /\ DOMAIN command = Attempts /\ DOMAIN answer = Attempts
        /\ planning \in Nat \ {0} /\ planning' \in Nat \ {0}
        /\ acquired \in [Attempts -> Nat]
    BY DEF CommandInv, TypeOK
  <1>3. planning' = planning \/ Commit(a)
    BY DEF Start, Progress, FindReceipt, ReadVersion, Acquire, Execute,
           InsertReceipt, FindWinner, Answer, Crash, shared
  <1>4. planning' \geq planning
    <2>1. CASE Commit(a) /\ acquired[a] # 0
      BY <2>1, <1>2 DEF Commit, Goto, CommandInv, GuardIsCurrent,
                        HoldsPlanning, Holding
    <2> QED
      BY <2>1, <1>2, <1>3 DEF Commit
  <1>5. planning' = 1 \/ GuardedEffect'
    <2>1. CASE Commit(a) /\ acquired[a] # 0
      <3>1. a \in effects' /\ command' = command
        BY <2>1 DEF Commit
      <3>2. command[a].key \in GuardedKeys
        BY <2>1 DEF ConflictInv
      <3> QED
        BY <3>1, <3>2
    <2>2. CASE planning' = planning
      BY <2>2, <1>1 DEF ConflictInv
    <2> QED
      BY <2>1, <2>2, <1>3 DEF Commit
  <1>6. \A b \in Attempts \ {a} :
          /\ pc'[b] = pc[b] /\ command'[b] = command[b]
          /\ acquired'[b] = acquired[b] /\ answer'[b] = answer[b]
    BY <1>2 DEF Start, Progress, FindReceipt, ReadVersion, Acquire, Execute,
           InsertReceipt, FindWinner, Answer, Commit, Crash, Goto, Tell
  <1>7. \A b \in Attempts : pc[b] # "idle" => command[b].expected \in Nat
    BY DEF CommandInv, Underway, Command
  <1>8. /\ pc'[a] # "idle" => command'[a].expected \leq planning'
        /\ pc'[a] = "acquire" => command'[a].expected # 0
    <2>1. CASE Start(a)
      <3>1. PICK k \in Keys, payload \in Payloads, expected \in 0..planning :
              command' = [command EXCEPT ![a] =
                [key |-> k, payload |-> payload, expected |-> expected]]
        BY <2>1 DEF Start
      <3>2. command'[a].expected = expected
        BY <3>1, <1>2
      <3> QED
        BY <2>1, <3>2, <1>2 DEF Start, Goto, shared
    <2>2. CASE ReadVersion(a)
      <3>1. command[a] \in Command
        BY <2>2 DEF ReadVersion, Goto, CommandInv, Underway
      <3>2. command'[a].expected = IF command[a].expected = 0 THEN planning
                                   ELSE command[a].expected
        BY <2>2, <3>1, <1>2 DEF ReadVersion, Command
      <3> QED
        BY <2>2, <3>2, <1>2, <1>7 DEF ReadVersion, Goto, shared, ConflictInv
    <2>3. CASE ~Start(a) /\ ~ReadVersion(a)
      <3>1. /\ command' = command /\ pc[a] # "idle"
            /\ pc'[a] = "acquire" => pc[a] = "acquire"
        BY <2>3, <1>2 DEF Progress, FindReceipt, Acquire, Execute, Body,
               InsertReceipt, FindWinner, Answer, Commit, Crash, Goto, Running
      <3> QED
        BY <3>1, <1>2, <1>4, <1>7 DEF ConflictInv
    <2> QED
      BY <2>1, <2>2, <2>3
  <1>9. /\ pc'[a] = "conflict" /\ command'[a].key \in GuardedKeys
             /\ acquired'[a] = 0 => GuardedEffect'
        /\ pc'[a] = "execute" /\ command'[a].key \in GuardedKeys
             => acquired'[a] # 0
        /\ answer'[a] = Conflict => pc'[a] = "ended"
        /\ acquired'[a] # 0 => command'[a].key \in GuardedKeys
        /\ pc'[a] \in {"read", "acquire"} => command'[a].key \in GuardedKeys
    <2> USE DEF ConflictInv, Goto
    <2>1. CASE Start(a)
      <3>1. acquired[a] = 0
        BY <2>1 DEF Start, CommandInv, Underway
      <3> QED
        BY <2>1, <3>1, <1>2 DEF Start
    <2>2. CASE FindReceipt(a)
      BY <2>2, <1>2 DEF FindReceipt, Body, Tell, CommandInv, Underway
    <2>3. CASE ReadVersion(a)
      <3>1. command'[a].key = command[a].key
        BY <2>3, KeyKept DEF ReadVersion
      <3> QED
        BY <2>3, <3>1, <1>2 DEF ReadVersion
    <2>4. CASE Acquire(a)
      <3>1. pc[a] = "acquire" /\ command' = command /\ answer' = answer
        BY <2>4 DEF Acquire
      <3>2. CASE /\ pc' = [pc EXCEPT ![a] = "execute"]
                 /\ acquired' = [acquired EXCEPT ![a] = planning + 1]
        BY <3>1, <3>2, <1>2
      <3>3. CASE /\ command[a].expected # planning /\ acquired' = acquired
                 /\ pc' = [pc EXCEPT ![a] = "conflict"]
        <4>1. planning # 1
          BY <3>1, <3>3, <1>2, <1>7
        <4> QED
          BY <3>1, <3>3, <4>1, <1>1, <1>2
      <3> QED
        BY <2>4, <3>2, <3>3 DEF Acquire
    <2>5. CASE Execute(a)
      BY <2>5, <1>2 DEF Execute, Tell, Conflict, Failed
    <2>6. CASE FindWinner(a)
      BY <2>6, <1>2 DEF FindWinner, Tell
    <2>7. CASE InsertReceipt(a) \/ Commit(a) \/ Crash(a)
      BY <2>7, <1>2 DEF InsertReceipt, Commit, Crash, Running
    <2>8. CASE Answer(a)
      BY <2>8, <1>2 DEF Answer, Tell, Done, Conflict
    <2> QED
      BY <2>1, <2>2, <2>3, <2>4, <2>5, <2>6, <2>7, <2>8 DEF Progress
  <1>10. ASSUME NEW b \in Attempts
         PROVE  /\ pc'[b] # "idle" => command'[b].expected \leq planning'
                /\ pc'[b] = "acquire" => command'[b].expected # 0
                /\ pc'[b] = "conflict" /\ command'[b].key \in GuardedKeys
                     /\ acquired'[b] = 0 => GuardedEffect'
                /\ pc'[b] = "execute" /\ command'[b].key \in GuardedKeys
                     => acquired'[b] # 0
                /\ answer'[b] = Conflict => pc'[b] = "ended"
                /\ acquired'[b] # 0 => command'[b].key \in GuardedKeys
                /\ pc'[b] \in {"read", "acquire"}
                     => command'[b].key \in GuardedKeys
    <2>1. CASE b = a
      BY <2>1, <1>8, <1>9
    <2>2. CASE b # a
      BY <2>2, <1>1, <1>2, <1>4, <1>6, <1>7 DEF ConflictInv
    <2> QED
      BY <2>1, <2>2
  <1> QED
    BY <1>5, <1>10 DEF ConflictInv

\* A step is a stutter or the step of one attempt.
LEMMA AttemptStep ==
  ASSUME CommandInv, [Next]_vars
  PROVE  \/ UNCHANGED vars
         \/ \E a \in Attempts : Start(a) \/ Progress(a) \/ Crash(a)
  BY DEF Next

\* A client is refused for a stale planning version only because of another
\* command (the conflict branch of replay_or_execute looks for the winner).
THEOREM ConflictsAreAnothers == Spec => []ConflictIsAnothers
  <1>1. Init => ConflictInv
    BY DEF Init, ConflictInv, NoAnswer, Conflict
  <1>2. CommandInv /\ CommandInv' /\ ConflictInv /\ [Next]_vars => ConflictInv'
    <2> SUFFICES ASSUME CommandInv, CommandInv', ConflictInv, [Next]_vars
                 PROVE  ConflictInv'
      OBVIOUS
    <2>1. CASE UNCHANGED vars
      BY <2>1 DEF vars, ConflictInv
    <2>2. CASE \E a \in Attempts : Start(a) \/ Progress(a) \/ Crash(a)
      BY <2>2, StepConflictInv
    <2> QED
      BY <2>1, <2>2, AttemptStep
  <1>3. Spec => []ConflictInv
    BY <1>1, <1>2, CommandInvariant, PTL DEF Spec
  <1> DEFINE P == ConflictIsAnothers
             Refused(a) == answer[a] = Conflict
                           /\ command[a].key \in GuardedKeys /\ acquired[a] = 0
  <1>4. Init => P
    BY DEF Init, NoAnswer, Conflict, ConflictIsAnothers
  <1>5. CommandInv /\ CommandInv' /\ ConflictInv /\ P /\ [Next]_vars => P'
    <2> SUFFICES ASSUME CommandInv, CommandInv', ConflictInv, P, [Next]_vars,
                        NEW b \in Attempts, Refused(b)'
                 PROVE  \E e \in effects' :
                          command'[e].key \in GuardedKeys \ {command'[b].key}
      BY DEF ConflictIsAnothers
    <2>1. CASE UNCHANGED vars
      BY <2>1 DEF vars, ConflictIsAnothers
    <2>2. CASE \E a \in Attempts : Start(a) \/ Progress(a) \/ Crash(a)
      <3> PICK a \in Attempts : Start(a) \/ Progress(a) \/ Crash(a)
        BY <2>2
      <3>1. CASE Refused(b)
        <4>1. pc[b] # "idle" /\ command'[b].key = command[b].key
          BY <3>1, KeyKept DEF ConflictInv
        <4>2. PICK e \in effects :
                command[e].key \in GuardedKeys \ {command[b].key}
          BY <3>1 DEF ConflictIsAnothers
        <4> QED
          BY <4>1, <4>2, EffectsKept
      <3>2. CASE ~Refused(b)
        <4>1. /\ DOMAIN answer = Attempts /\ DOMAIN acquired = Attempts
              /\ DOMAIN command = Attempts /\ effects \subseteq Attempts
          BY DEF CommandInv, TypeOK
        <4>2. /\ a = b /\ FindWinner(a)
          <5>1. CASE Start(a)
            <6>1. answer'[b] = answer[b] /\ acquired'[b] = acquired[b]
              BY <5>1 DEF Start
            <6>2. pc[b] = "ended" /\ pc[a] = "idle"
              BY <6>1, <5>1 DEF Start, Goto, ConflictInv
            <6> QED
              BY <3>2, <6>1, <6>2, KeyKept
          <5>2. CASE FindReceipt(a) \/ Answer(a)
            <6>1. answer'[b] # Conflict \/ answer'[b] = answer[b]
              BY <5>2, <4>1 DEF FindReceipt, Answer, Tell, ReplayOf, Replayed,
                                KeyConflict, Conflict, Done
            <6> QED
              BY <5>2, <6>1, <3>2 DEF FindReceipt, Answer
          <5>3. CASE Execute(a)
            <6>1. answer'[b] # Conflict \/ answer'[b] = answer[b]
              BY <5>3, <4>1 DEF Execute, Tell, Conflict, Failed
            <6> QED
              BY <5>3, <6>1, <3>2 DEF Execute
          <5>4. CASE ReadVersion(a) \/ Acquire(a)
            <6>1. answer' = answer /\ pc[b] = "ended" /\ a # b
              BY <5>4 DEF ReadVersion, Acquire, Goto, ConflictInv
            <6>2. acquired'[b] = acquired[b]
              BY <5>4, <6>1, <4>1 DEF ReadVersion, Acquire
            <6> QED
              BY <3>2, <6>1, <6>2, KeyKept
          <5>5. CASE InsertReceipt(a) \/ Commit(a) \/ Crash(a)
            BY <5>5, <3>2 DEF InsertReceipt, Commit, Crash
          <5>6. CASE FindWinner(a)
            BY <5>6, <3>2, <4>1 DEF FindWinner, Tell
          <5> QED
            BY <5>1, <5>2, <5>3, <5>4, <5>5, <5>6 DEF Progress
        <4>3. /\ answer'[b] = Conflict
              /\ UNCHANGED <<receipts, effects, command, acquired>>
          BY <4>2 DEF FindWinner, shared
        <4>4. pc[b] = "conflict" /\ receipts[command[b].key] = NoReceipt
          <5>1. ReplayOf(b, Winner(b)) # Conflict /\ Failed # Conflict
            BY DEF ReplayOf, Replayed, KeyConflict, Conflict, Failed
          <5> QED
            BY <4>1, <4>2, <4>3, <5>1
               DEF FindWinner, Goto, Tell, AfterRollback, Winner
        <4>5. PICK e \in effects : command[e].key \in GuardedKeys
          BY <4>3, <4>4 DEF ConflictInv
        <4>6. receipts[command[e].key] # NoReceipt
          BY DEF CommandInv, ReceiptsMatch
        <4> QED
          BY <4>3, <4>4, <4>5, <4>6
      <3> QED
        BY <3>1, <3>2
    <2> QED
      BY <2>1, <2>2, AttemptStep
  <1> QED
    BY <1>3, <1>4, <1>5, CommandInvariant, PTL DEF Spec

-----------------------------------------------------------------------------
\* The question of an attempt is the key and the input of its command.
LEMMA QuestionTyped ==
  ASSUME NEW a \in Attempts, command[a] \in Command
  PROVE  /\ Question(a) = [key |-> command[a].key,
                           payload |-> command[a].payload]
         /\ Question(a) \in Once!Question
         /\ Question(a) # NoCommand
  <1>1. command[a] # NoCommand
    BY ReceiptsAssumption DEF Command
  <1>2. Question(a) \in [key: Keys, payload: Payloads]
    BY <1>1 DEF Question, Command
  <1> QED
    BY <1>1, <1>2, ReceiptsAssumption DEF Question, Once!Question

\* A replay or a refusal by the fingerprint tells what OnceOnly tells.
LEMMA ReplayIsTell ==
  ASSUME CommandInv, NEW a \in Attempts, command[a] \in Command,
         answer[a] = NoAnswer, receipts' = receipts, command' = command,
         receipts[command[a].key] # NoReceipt,
         answer' = [answer EXCEPT ![a] = ReplayOf(a, receipts[command[a].key])]
  PROVE  Once!Tell(a)
  <1> DEFINE Told(ans) == [b \in Attempts |->
               IF ans[b].kind \in {"replay", "keyConflict"} THEN ans[b]
                                                            ELSE NoAnswer]
             reply == ReplayOf(a, receipts[command[a].key])
  <1>1. reply.kind \in {"replay", "keyConflict"}
    BY DEF ReplayOf, Replayed, KeyConflict
  <1>2. DOMAIN answer = Attempts
    BY DEF CommandInv, TypeOK
  <1>3. Told(answer') = [Told(answer) EXCEPT ![a] = reply]
    BY <1>1, <1>2
  <1>4. Told(answer)[a] = Once!Untold
    BY DEF NoAnswer, Once!Untold
  <1>5. reply = IF receipts[command[a].key].payload = command[a].payload
                THEN Once!Replay(receipts[command[a].key]) ELSE Once!Refusal
    BY DEF ReplayOf, SameRequest, Replayed, KeyConflict, Once!Replay, Once!Refusal
  <1>6. Question(a) = [key |-> command[a].key, payload |-> command[a].payload]
        /\ Question(a) # NoCommand
    BY QuestionTyped
  <1> DEFINE Asked == [b \in Attempts |-> Question(b)]
  <1>7. Asked' = Asked
    BY DEF Question
  <1>8. /\ Asked[a].key = command[a].key
        /\ Asked[a].payload = command[a].payload
        /\ Asked[a] # NoCommand
    BY <1>6
  <1>9. Told(answer') = [Told(answer) EXCEPT ![a] =
          IF receipts[Asked[a].key].payload = Asked[a].payload
          THEN Once!Replay(receipts[Asked[a].key]) ELSE Once!Refusal]
    BY <1>3, <1>5, <1>8
  <1> QED
    BY <1>4, <1>7, <1>8, <1>9 DEF Once!Tell

\* An attempt that still runs and has not sent a response has told nothing,
\* and one that has not started has asked nothing.
Silent ==
  \A a \in Attempts :
    /\ pc[a] \notin {"answered", "ended"} => answer[a] = NoAnswer
    /\ pc[a] = "idle" => command[a] = NoCommand

\* replay_or_execute, with its races and rollbacks, implements the promise of
\* an idempotency key: a step decides a key once, tells a retry the outcome, or
\* does neither.
THEOREM ImplementsOnceOnly == Spec => KeepsPromise
  <1>1. Init => Once!Init
    BY DEF Init, Once!Init, NoAnswer, Once!Untold, Question
  <1>2. Init => Silent
    BY DEF Init, Silent
  <1>3. CommandInv /\ Silent /\ [Next]_vars => Silent'
    <2> SUFFICES ASSUME CommandInv, Silent, [Next]_vars PROVE Silent'
      OBVIOUS
    <2>1. CASE UNCHANGED vars
      BY <2>1 DEF vars, Silent
    <2>2. CASE \E a \in Attempts : Start(a) \/ Progress(a) \/ Crash(a)
      <3> PICK a \in Attempts : Start(a) \/ Progress(a) \/ Crash(a)
        BY <2>2
      <3>1. /\ DOMAIN pc = Attempts /\ DOMAIN answer = Attempts
            /\ DOMAIN command = Attempts
        BY DEF CommandInv, TypeOK
      <3> QED
        BY <3>1 DEF Silent, Start, Progress, FindReceipt, ReadVersion, Acquire,
             Execute, InsertReceipt, FindWinner, Answer, Commit, Crash, Goto,
             Tell, Body, Running
    <2> QED
      BY <2>1, <2>2, AttemptStep
  <1>4. CommandInv /\ Silent /\ [Next]_vars => [Once!Next]_(Once!onceVars)
    <2> SUFFICES ASSUME CommandInv, Silent, [Next]_vars
                 PROVE  Once!Next \/ UNCHANGED Once!onceVars
      OBVIOUS
    <2>0. DOMAIN answer = Attempts /\ DOMAIN command = Attempts
      BY DEF CommandInv, TypeOK
    <2> DEFINE Asked == [b \in Attempts |-> Question(b)]
    <2>1. CASE UNCHANGED vars
      BY <2>1 DEF vars, Once!onceVars, Question
    <2>2. CASE \E a \in Attempts : Start(a) \/ Progress(a) \/ Crash(a)
      <3> PICK a \in Attempts : Start(a) \/ Progress(a) \/ Crash(a)
        BY <2>2
      <3>1. CASE Commit(a)
        <4>1. command[a] \in Command /\ receipts[command[a].key] = NoReceipt
          BY <3>1 DEF Commit, Goto, CommandInv, Underway, ReceiptsMatch
        <4>2. Asked' = Asked
          BY <3>1 DEF Commit, Question
        <4>3. /\ Asked[a] = [key |-> command[a].key,
                             payload |-> command[a].payload]
              /\ Asked[a] # NoCommand
          BY <4>1, QuestionTyped
        <4>4. /\ Asked[a].key = command[a].key
              /\ Asked[a].payload = command[a].payload
          BY <4>3
        <4>5. /\ answer' = answer
              /\ receipts' = [receipts EXCEPT ![command[a].key] =
                                [payload |-> command[a].payload, by |-> a]]
          BY <3>1 DEF Commit
        <4>6. Once!Decide(a)
          <5> HIDE DEF Asked
          <5> QED
            BY <4>1, <4>2, <4>3, <4>4, <4>5 DEF Once!Decide, Asked
        <4> QED
          BY <4>6 DEF Once!Next
      <3>2. CASE FindReceipt(a) \/ FindWinner(a)
        <4>1. /\ command[a] \in Command /\ answer[a] = NoAnswer
              /\ receipts' = receipts /\ command' = command
          BY <3>2 DEF FindReceipt, FindWinner, Goto, shared, Silent,
                      CommandInv, Underway
        <4>2. \/ /\ receipts[command[a].key] # NoReceipt
                 /\ answer' = [answer EXCEPT ![a] =
                                 ReplayOf(a, receipts[command[a].key])]
              \/ answer' = answer
              \/ \E refusal \in {Conflict, Failed} :
                   answer' = [answer EXCEPT ![a] = refusal]
          BY <3>2 DEF FindReceipt, FindWinner, Tell, Winner, AfterRollback
        <4>3. CASE /\ receipts[command[a].key] # NoReceipt
                   /\ answer' = [answer EXCEPT ![a] =
                                   ReplayOf(a, receipts[command[a].key])]
          <5>1. Once!Tell(a)
            BY <4>1, <4>3, ReplayIsTell
          <5> QED
            BY <5>1 DEF Once!Next
        <4>4. CASE answer' = answer
          BY <4>1, <4>4 DEF Once!onceVars, Question
        <4>5. CASE \E refusal \in {Conflict, Failed} :
                     answer' = [answer EXCEPT ![a] = refusal]
          BY <2>0, <4>1, <4>5 DEF Once!onceVars, Question, Conflict, Failed,
                                  NoAnswer
        <4> QED
          BY <4>2, <4>3, <4>4, <4>5
      <3>3. CASE Execute(a) \/ Answer(a)
        <4>1. /\ receipts' = receipts /\ command' = command
              /\ answer[a] = NoAnswer
              /\ \/ answer' = answer
                 \/ \E ans \in {Failed, Done(a)} :
                      answer' = [answer EXCEPT ![a] = ans]
          BY <3>3 DEF Execute, Answer, Goto, Tell, shared, Silent
        <4> QED
          BY <2>0, <4>1 DEF Once!onceVars, Question, Failed, Done, NoAnswer
      <3>4. CASE Acquire(a) \/ InsertReceipt(a) \/ Crash(a)
        BY <3>4 DEF Acquire, InsertReceipt, Crash, shared, Once!onceVars,
                    Question
      <3>5. CASE ReadVersion(a)
        <4>1. command[a] \in Command
          BY <3>5 DEF ReadVersion, Goto, CommandInv, Underway
        <4>2. /\ command'[a] \in Command
              /\ command'[a].key = command[a].key
              /\ command'[a].payload = command[a].payload
          BY <2>0, <3>5, <4>1 DEF ReadVersion, Command, CommandInv, TypeOK
        <4>3. \A b \in Attempts : Question(b)' = Question(b)
          <5> SUFFICES ASSUME NEW b \in Attempts
                       PROVE  Question(b)' = Question(b)
            OBVIOUS
          <5>1. CASE b = a
            <6>1. command[a] # NoCommand /\ command'[a] # NoCommand
              BY <4>1, <4>2, ReceiptsAssumption DEF Command
            <6> QED
              BY <4>2, <5>1, <6>1 DEF Question
          <5>2. CASE b # a
            BY <2>0, <3>5, <5>2 DEF ReadVersion, Question
          <5> QED
            BY <5>1, <5>2
        <4> QED
          BY <3>5, <4>3 DEF ReadVersion, shared, Once!onceVars
      <3>6. CASE Start(a)
        <4>1. PICK k \in Keys, payload \in Payloads, expected \in 0..planning :
                command' = [command EXCEPT ![a] =
                  [key |-> k, payload |-> payload, expected |-> expected]]
          BY <3>6 DEF Start
        <4>2. expected \in Nat
          BY DEF CommandInv, TypeOK
        <4>3. command'[a] \in Command /\ command[a] = NoCommand
          BY <2>0, <3>6, <4>1, <4>2 DEF Command, Start, Goto, Silent
        <4>4. command'[a] # NoCommand
          BY <4>3, ReceiptsAssumption DEF Command
        <4>5. Question(a) = NoCommand
              /\ Question(a)' = [key |-> k, payload |-> payload]
          BY <2>0, <4>1, <4>3, <4>4 DEF Question
        <4>6. Asked' = [Asked EXCEPT ![a] = [key |-> k, payload |-> payload]]
          BY <2>0, <4>1, <4>5 DEF Question
        <4>7. [key |-> k, payload |-> payload] \in Once!Question
          BY DEF Once!Question
        <4>8. Once!Ask(a, [key |-> k, payload |-> payload])
          BY <3>6, <4>5, <4>6 DEF Once!Ask, Start, shared
        <4> QED
          BY <4>7, <4>8 DEF Once!Next, Once!Ask
      <3> QED
        BY <3>1, <3>2, <3>3, <3>4, <3>5, <3>6 DEF Progress
    <2> QED
      BY <2>1, <2>2, AttemptStep
  <1> QED
    BY <1>1, <1>2, <1>3, <1>4, CommandInvariant, PTL
       DEF Spec, KeepsPromise, Once!Spec

-----------------------------------------------------------------------------
(* Runs of the synchronisation.                                             *)

RunRow == [status: Active \cup Ended, key: BOOLEAN,
           total: {0, Cardinality(Projects)},
           results: UNION {[S -> Outcome] : S \in SUBSET Projects}]

RunTables ==
  /\ runs \in Seq(RunRow)
  /\ queue \in Seq(Nat)
  /\ launching \in Nat
  /\ server \in {"up", "stopping", "down"}
  /\ project \in [Projects -> Linkage]

Queued ==
  /\ server # "up" => queue = <<>>
  /\ \A i \in 1 .. Len(queue) :
       queue[i] \in DOMAIN runs /\ queue[i] # launching

\* The key of a run says that it is active; one that has not begun has no
\* results, and one that has completed has them all.
RunSound(run) ==
  /\ run.key <=> run.status \in Active
  /\ run.status = "PENDING" => DOMAIN run.results = {}
  /\ run.status \in {"COMPLETED", "COMPLETED_WITH_ERRORS"} =>
       /\ DOMAIN run.results = Projects
       /\ run.total = Cardinality(Projects)
       /\ run.status = "COMPLETED" <=>
            \A p \in DOMAIN run.results : run.results[p] # "rejected"

RunsSound == \A r \in DOMAIN runs : RunSound(runs[r])

OneActive == \A r, s \in DOMAIN runs : runs[r].key /\ runs[s].key => r = s

LaunchPending ==
  launching # 0 =>
    /\ server # "down" /\ launching \in DOMAIN runs
    /\ runs[launching].status = "PENDING"

\* The thread has results for the projects it is done with.
Progressing(run, job) ==
  \/ job.at = "discover" /\ DOMAIN run.results = {}
  \/ /\ job.at = "page" /\ DOMAIN run.results = {} /\ job.todo = Projects
     /\ job.listed \in [Projects -> Linkage]
     /\ run.total = Cardinality(Projects)
  \/ /\ job.at = "projects" /\ job.todo \subseteq Projects
     /\ job.listed \in [Projects -> Linkage]
     /\ DOMAIN run.results = Projects \ job.todo
     /\ run.total = Cardinality(Projects)
  \/ /\ job.at = "record" /\ job.todo \subseteq Projects
     /\ job.listed \in [Projects -> Linkage]
     /\ job.project \in Projects \ job.todo /\ job.outcome \in Outcome
     /\ DOMAIN run.results = (Projects \ job.todo) \ {job.project}
     /\ run.total = Cardinality(Projects)

ThreadRunning ==
  work # Resting =>
    /\ server # "down" /\ work.run \in DOMAIN runs
    /\ runs[work.run].status = "RUNNING"
    /\ Progressing(runs[work.run], work)

\* Where an active run is while the server is up.
Owned ==
  \A r \in DOMAIN runs :
    /\ runs[r].status = "PENDING" =>
         \/ server # "up" \/ r = launching
         \/ \E i \in 1 .. Len(queue) : queue[i] = r
    /\ runs[r].status = "RUNNING" =>
         server = "down" \/ (work # Resting /\ work.run = r)

RunInv ==
  /\ RunTables /\ Queued /\ RunsSound /\ OneActive
  /\ LaunchPending /\ ThreadRunning /\ Owned

-----------------------------------------------------------------------------
\* No run has been launched at the start.
LEMMA InitRunInv == ErpInit => RunInv
  <1> SUFFICES ASSUME ErpInit PROVE RunInv
    OBVIOUS
  <1> USE DEF ErpInit
  <1>1. runs = <<>> /\ queue = <<>> /\ launching = 0 /\ server = "up"
        /\ work = Resting
    OBVIOUS
  <1>2. RunTables
    BY <1>1 DEF RunTables
  <1>3. /\ Queued /\ RunsSound /\ OneActive
        /\ LaunchPending /\ ThreadRunning /\ Owned
    BY <1>1 DEF Queued, RunsSound, OneActive, LaunchPending,
       ThreadRunning, Owned
  <1> QED
    BY <1>2, <1>3 DEF RunInv

\* The invariant says who is accounted for.
LEMMA RunsAccounted == RunInv => RunsAreAccountedFor
  <1> SUFFICES ASSUME RunInv PROVE RunsAreAccountedFor
    OBVIOUS
  <1>1. \A r, s \in ActiveRuns : r = s
    BY DEF RunInv, OneActive, ActiveRuns
  <1>2. Cardinality(ActiveRuns) <= 1
    <2>1. CASE ActiveRuns = {}
      BY <2>1, FS_EmptySet
    <2>2. CASE ActiveRuns # {}
      <3>1. PICK r \in ActiveRuns : ActiveRuns = {r}
        BY <1>1, <2>2
      <3> QED
        BY <3>1, FS_Singleton
    <2> QED
      BY <2>1, <2>2
  <1>3. ASSUME NEW r \in ActiveRuns
        PROVE  \/ server # "up" \/ r = launching
               \/ r \in ToSet(queue) \/ (work # Resting /\ work.run = r)
    <2>1. r \in DOMAIN runs /\ runs[r].status \in Active
      BY DEF ActiveRuns, RunInv, RunsSound, RunSound
    <2>2. (\E i \in 1 .. Len(queue) : queue[i] = r) => r \in ToSet(queue)
      BY DEF ToSet, RunInv, RunTables
    <2> QED
      BY <2>1, <2>2 DEF RunInv, Owned, Active
  <1>4. \A r \in DOMAIN runs :
          /\ runs[r].key <=> runs[r].status \in Active
          /\ runs[r].status \in {"COMPLETED", "COMPLETED_WITH_ERRORS"} =>
               /\ Cardinality(DOMAIN runs[r].results) = runs[r].total
               /\ runs[r].status = "COMPLETED" <=>
                    \A p \in DOMAIN runs[r].results :
                      runs[r].results[p] # "rejected"
    BY DEF RunInv, RunsSound, RunSound
  <1> QED
    BY <1>2, <1>3, <1>4 DEF RunsAreAccountedFor

-----------------------------------------------------------------------------
(* Steps that touch no run.                                                *)

\* The runs stay what they are.
LEMMA SameRuns ==
  ASSUME RunInv, UNCHANGED <<runs, server, launching, queue, work>>,
         project' \in [Projects -> Linkage]
  PROVE  RunInv'
  BY DEF RunInv, RunTables, Queued, RunsSound, OneActive, LaunchPending,
     ThreadRunning, Owned

\* What people and the ERP do meanwhile.
LEMMA OutsideKeeps ==
  ASSUME RunInv,
         \/ BeginTargeted \/ CommitTargeted \/ ImportFile \/ SyncProject
         \/ ErpChanges
  PROVE  RunInv'
  <1>1. CASE BeginTargeted \/ CommitTargeted \/ ImportFile \/ ErpChanges
    BY <1>1, SameRuns DEF BeginTargeted, CommitTargeted, ImportFile,
       ErpChanges, outside, RunInv, RunTables
  <1>2. CASE SyncProject
    <2>1. project' \in [Projects -> Linkage]
      BY <1>2 DEF SyncProject, RunInv, RunTables, Linkage
    <2> QED
      BY <1>2, <2>1, SameRuns DEF SyncProject
  <1> QED
    BY <1>1, <1>2

-----------------------------------------------------------------------------
(* Steps of one run.                                                       *)

\* One run changes and stays sound, and does not become active.
LEMMA RunChanges ==
  ASSUME RunInv, NEW r \in DOMAIN runs, NEW row \in RunRow, RunSound(row),
         row.key => runs[r].key,
         runs' = [runs EXCEPT ![r] = row]
  PROVE  /\ runs' \in Seq(RunRow) /\ RunsSound' /\ OneActive'
         /\ DOMAIN runs' = DOMAIN runs /\ runs'[r] = row
         /\ \A s \in DOMAIN runs \ {r} : runs'[s] = runs[s]
  <1>1. /\ runs' \in Seq(RunRow) /\ DOMAIN runs' = DOMAIN runs
        /\ runs'[r] = row
        /\ \A s \in DOMAIN runs \ {r} : runs'[s] = runs[s]
    BY DEF RunInv, RunTables
  <1>2. RunsSound'
    BY <1>1 DEF RunInv, RunsSound, RunSound
  <1>3. OneActive'
    BY <1>1 DEF RunInv, OneActive
  <1> QED
    BY <1>1, <1>2, <1>3

\* A run ends without having completed.
LEMMA Ends ==
  ASSUME RunInv, NEW r \in DOMAIN runs,
         NEW status \in {"FAILED", "INTERRUPTED"}
  PROVE  \E row \in RunRow :
           /\ EndedAs(r, status) = [runs EXCEPT ![r] = row]
           /\ RunSound(row) /\ ~ row.key /\ row.status = status
  <1> DEFINE row == [runs[r] EXCEPT !.status = status, !.key = FALSE]
  <1>1. runs[r] \in RunRow
    BY DEF RunInv, RunTables
  <1>2. row \in RunRow /\ row.key = FALSE /\ row.status = status
    BY <1>1 DEF RunRow, Ended
  <1>3. RunSound(row)
    BY <1>2 DEF RunSound, Active
  <1>4. EndedAs(r, status) = [runs EXCEPT ![r] = row]
    BY <1>1 DEF EndedAs, RunRow, RunInv, RunTables
  <1> QED
    BY <1>2, <1>3, <1>4

\* A new run is the only one that is active, and its launch knows it.
LEMMA LaunchKeeps ==
  ASSUME RunInv, Launch
  PROVE  RunInv'
  <1> DEFINE row == [status |-> "PENDING", key |-> TRUE, total |-> 0,
                     results |-> [p \in {} |-> "ignored"]]
  <1>1. /\ server = "up" /\ launching = 0 /\ ActiveRuns = {}
        /\ runs' = Append(runs, row) /\ launching' = Len(runs')
        /\ UNCHANGED <<server, queue, work, project>>
    BY DEF Launch, LaunchFree, outside
  <1>2. row \in RunRow /\ RunSound(row)
    <2>1. [p \in {} |-> "ignored"] \in [{} -> Outcome]
      OBVIOUS
    <2>2. {} \in SUBSET Projects
      OBVIOUS
    <2>3. [p \in {} |-> "ignored"]
            \in UNION {[S -> Outcome] : S \in SUBSET Projects}
      BY <2>1, <2>2
    <2> QED
      BY <2>3 DEF RunRow, RunSound, Active
  <1>3. /\ runs' \in Seq(RunRow) /\ Len(runs') = Len(runs) + 1
        /\ launching' = Len(runs) + 1 /\ runs'[launching'] = row
        /\ \A r \in DOMAIN runs : runs'[r] = runs[r]
        /\ DOMAIN runs' = DOMAIN runs \cup {launching'}
        /\ launching' \in Nat \ {0}
    BY <1>1, <1>2 DEF RunInv, RunTables
  <1>4. \A r \in DOMAIN runs : ~ runs[r].key
    BY <1>1 DEF ActiveRuns
  <1>5. RunTables' /\ RunsSound' /\ OneActive'
    BY <1>1, <1>2, <1>3, <1>4
       DEF RunInv, RunTables, RunsSound, RunSound, OneActive
  <1>6. LaunchPending'
    BY <1>1, <1>3 DEF LaunchPending
  <1>7. ThreadRunning'
    BY <1>1, <1>3 DEF RunInv, ThreadRunning
  <1>8. Owned'
    BY <1>1, <1>3 DEF RunInv, Owned
  <1>9. Queued'
    <2>1. \A s \in DOMAIN runs : s # launching'
      BY <1>3 DEF RunInv, RunTables
    <2> QED
      BY <1>1, <1>3, <2>1 DEF RunInv, Queued
  <1> QED
    BY <1>5, <1>6, <1>7, <1>8, <1>9 DEF RunInv

\* What the launch gives to the executor, or fails.
LEMMA SubmitKeeps ==
  ASSUME RunInv, Submit
  PROVE  RunInv'
  <1>1. /\ launching # 0 /\ launching' = 0
        /\ UNCHANGED <<server, work, project>>
    BY DEF Submit, outside
  <1>2. launching \in DOMAIN runs /\ runs[launching].status = "PENDING"
    BY <1>1 DEF RunInv, LaunchPending
  <1>3. CASE server = "up" /\ queue' = Append(queue, launching)
             /\ UNCHANGED runs
    <2>1. /\ queue' \in Seq(Nat) /\ Len(queue') = Len(queue) + 1
          /\ queue'[Len(queue) + 1] = launching
          /\ \A i \in 1 .. Len(queue) : queue'[i] = queue[i]
          /\ Len(queue) \in Nat
      BY <1>3 DEF RunInv, RunTables
    <2>2. Owned'
      BY <1>1, <1>3, <2>1 DEF RunInv, Owned
    <2>3. Queued'
      <3>1. \A s \in DOMAIN runs : s # 0
        BY DEF RunInv, RunTables
      <3> QED
        BY <1>1, <1>2, <1>3, <2>1, <3>1 DEF RunInv, Queued
    <2> QED
      BY <1>1, <1>3, <2>1, <2>2, <2>3 DEF RunInv, RunTables, RunsSound,
         OneActive, LaunchPending, ThreadRunning
  <1>4. CASE server = "stopping" /\ runs' = Failing(launching)
             /\ UNCHANGED queue
    <2>1. runs' = EndedAs(launching, "FAILED")
      BY <1>2, <1>4 DEF Failing, Ended
    <2>2. PICK row \in RunRow :
            /\ runs' = [runs EXCEPT ![launching] = row]
            /\ RunSound(row) /\ ~ row.key /\ row.status = "FAILED"
      BY <1>2, <2>1, Ends
    <2>3. /\ runs' \in Seq(RunRow) /\ RunsSound' /\ OneActive'
          /\ DOMAIN runs' = DOMAIN runs /\ runs'[launching] = row
          /\ \A s \in DOMAIN runs \ {launching} : runs'[s] = runs[s]
      BY <1>2, <2>2, RunChanges
    <2>4. ThreadRunning'
      BY <1>1, <1>2, <2>3 DEF RunInv, ThreadRunning
    <2>5. Owned'
      BY <1>1, <1>2, <1>4, <2>2, <2>3 DEF RunInv, Owned
    <2> QED
      BY <1>1, <1>4, <2>3, <2>4, <2>5 DEF RunInv, RunTables, Queued,
         LaunchPending
  <1> QED
    BY <1>3, <1>4 DEF Submit

\* The thread takes the first run of the queue, which is PENDING unless it
\* has ended meanwhile.
LEMMA BeginKeeps ==
  ASSUME RunInv, Begin
  PROVE  RunInv'
  <1>1. PICK r : r = Head(queue)
    OBVIOUS
  <1>2. /\ work = Resting /\ queue # <<>> /\ queue' = Tail(queue)
        /\ UNCHANGED <<server, launching, project>>
    BY DEF Begin, outside
  <1>3. /\ Len(queue) \in Nat \ {0} /\ r = queue[1] /\ r \in DOMAIN runs
        /\ queue' \in Seq(Nat) /\ Len(queue') = Len(queue) - 1
        /\ \A i \in 1 .. Len(queue') : queue'[i] = queue[i + 1]
        /\ \A i \in 2 .. Len(queue) : queue'[i - 1] = queue[i]
    BY <1>1, <1>2 DEF RunInv, RunTables, Queued
  <1>4. server = "up"
    BY <1>2 DEF RunInv, Queued
  <1>5. Queued'
    <2>1. \A i \in 1 .. Len(queue') :
            queue'[i] \in DOMAIN runs /\ queue'[i] # launching
      BY <1>3 DEF RunInv, Queued
    <2>2. DOMAIN runs' = DOMAIN runs
      BY <1>1 DEF Begin
    <2> QED
      BY <1>2, <1>4, <2>1, <2>2 DEF Queued
  <1>6. \A s \in DOMAIN runs \ {r} :
          (\E i \in 1 .. Len(queue) : queue[i] = s)
            => \E i \in 1 .. Len(queue') : queue'[i] = s
    <2> SUFFICES ASSUME NEW i \in 1 .. Len(queue), queue[i] # r
        PROVE  \E j \in 1 .. Len(queue') : queue'[j] = queue[i]
      OBVIOUS
    <2>1. i \in 2 .. Len(queue)
      BY <1>3
    <2>2. i - 1 \in 1 .. Len(queue')
      BY <1>3, <2>1
    <2> QED
      BY <1>3, <2>1, <2>2
  <1>7. CASE runs[r].status = "PENDING"
    <2> DEFINE row == [runs[r] EXCEPT !.status = "RUNNING"]
    <2>1. runs' = [runs EXCEPT ![r] = row]
          /\ work' = [at |-> "discover", run |-> r]
      BY <1>1, <1>7 DEF Begin
    <2>2. /\ runs[r] \in RunRow /\ RunSound(runs[r])
      BY <1>3 DEF RunInv, RunTables, RunsSound
    <2>3. row \in RunRow /\ row.key = runs[r].key /\ row.status = "RUNNING"
          /\ row.results = runs[r].results
      BY <2>2 DEF RunRow, Active
    <2>4. RunSound(row) /\ DOMAIN row.results = {}
      BY <1>7, <2>2, <2>3 DEF RunSound, Active
    <2> HIDE DEF row
    <2>5. /\ runs' \in Seq(RunRow) /\ RunsSound' /\ OneActive'
          /\ DOMAIN runs' = DOMAIN runs /\ runs'[r] = row
          /\ \A s \in DOMAIN runs \ {r} : runs'[s] = runs[s]
      BY <1>3, <2>1, <2>3, <2>4, RunChanges
    <2>6. LaunchPending'
      <3>1. r # launching
        BY <1>3 DEF RunInv, Queued
      <3> QED
        BY <1>2, <2>5, <3>1 DEF RunInv, LaunchPending
    <2>7. ThreadRunning'
      BY <1>2, <1>3, <1>4, <2>1, <2>3, <2>4, <2>5
         DEF ThreadRunning, Progressing, Resting
    <2>8. Owned'
      BY <1>2, <1>4, <1>6, <2>1, <2>3, <2>5 DEF RunInv, Owned, Resting
    <2> QED
      BY <1>2, <1>3, <1>5, <2>5, <2>6, <2>7, <2>8 DEF RunInv, RunTables
  <1>8. CASE runs[r].status # "PENDING"
    <2>1. UNCHANGED <<runs, work>>
      BY <1>1, <1>8 DEF Begin
    <2>2. Owned'
      BY <1>2, <1>4, <1>6, <1>8, <2>1 DEF RunInv, Owned
    <2> QED
      BY <1>2, <1>3, <1>5, <2>1, <2>2 DEF RunInv, RunTables, RunsSound,
         OneActive, LaunchPending, ThreadRunning
  <1> QED
    BY <1>7, <1>8

\* The thread goes on with its run, which stays active and sound.
LEMMA GoesOn ==
  ASSUME RunInv, work # Resting, NEW row \in RunRow, RunSound(row),
         row.status = "RUNNING",
         runs' = [runs EXCEPT ![work.run] = row],
         work' # Resting, work'.run = work.run, Progressing(row, work'),
         UNCHANGED <<server, launching, queue, project>>
  PROVE  RunInv'
  <1>1. work.run \in DOMAIN runs /\ server # "down"
        /\ runs[work.run].status = "RUNNING"
    BY DEF RunInv, ThreadRunning
  <1>2. runs[work.run].key
    BY <1>1 DEF RunInv, RunsSound, RunSound, Active
  <1>3. /\ runs' \in Seq(RunRow) /\ RunsSound' /\ OneActive'
        /\ DOMAIN runs' = DOMAIN runs /\ runs'[work.run] = row
        /\ \A s \in DOMAIN runs \ {work.run} : runs'[s] = runs[s]
    BY <1>1, <1>2, RunChanges
  <1>4. RunTables' /\ Queued'
    BY <1>3 DEF RunInv, RunTables, Queued
  <1>5. LaunchPending'
    BY <1>1, <1>3 DEF RunInv, LaunchPending
  <1>6. ThreadRunning'
    BY <1>1, <1>3 DEF ThreadRunning
  <1>7. Owned'
    BY <1>1, <1>3 DEF RunInv, Owned
  <1> QED
    BY <1>3, <1>4, <1>5, <1>6, <1>7 DEF RunInv

\* The thread rests, its run has ended.
LEMMA ComesToRest ==
  ASSUME RunInv, work # Resting, NEW row \in RunRow, RunSound(row),
         row.status \in Ended,
         runs' = [runs EXCEPT ![work.run] = row],
         work' = Resting,
         UNCHANGED <<server, launching, queue, project>>
  PROVE  RunInv'
  <1>1. work.run \in DOMAIN runs /\ server # "down"
        /\ runs[work.run].status = "RUNNING"
    BY DEF RunInv, ThreadRunning
  <1>2. ~ row.key
    BY DEF RunSound, Active, Ended
  <1>3. /\ runs' \in Seq(RunRow) /\ RunsSound' /\ OneActive'
        /\ DOMAIN runs' = DOMAIN runs /\ runs'[work.run] = row
        /\ \A s \in DOMAIN runs \ {work.run} : runs'[s] = runs[s]
    BY <1>1, <1>2, RunChanges
  <1>4. RunTables' /\ Queued'
    BY <1>3 DEF RunInv, RunTables, Queued
  <1>5. LaunchPending'
    BY <1>1, <1>3 DEF RunInv, LaunchPending
  <1>6. ThreadRunning'
    BY DEF ThreadRunning
  <1>7. Owned'
    BY <1>1, <1>3 DEF RunInv, Owned, Ended
  <1> QED
    BY <1>3, <1>4, <1>5, <1>6, <1>7 DEF RunInv

\* What the run under way looks like.
LEMMA RunUnderWay ==
  ASSUME RunInv, work # Resting
  PROVE  /\ work.run \in DOMAIN runs /\ runs[work.run] \in RunRow
         /\ RunSound(runs[work.run]) /\ runs[work.run].status = "RUNNING"
         /\ Progressing(runs[work.run], work)
         /\ runs = [runs EXCEPT ![work.run] = runs[work.run]]
  BY DEF RunInv, ThreadRunning, RunTables, RunsSound

\* The projects are listed before anything is read.
LEMMA DiscoverKeeps ==
  ASSUME RunInv, Discover
  PROVE  RunInv'
  <1> DEFINE row == [runs[work.run] EXCEPT !.total = Cardinality(Projects)]
  <1>1. work.at = "discover" /\ work # Resting
    BY DEF Discover, Resting
  <1>2. runs' = [runs EXCEPT ![work.run] = row]
        /\ UNCHANGED <<server, launching, queue, project>>
    BY DEF Discover, outside
  <1>3. /\ runs[work.run] \in RunRow /\ RunSound(runs[work.run])
        /\ runs[work.run].status = "RUNNING"
        /\ Progressing(runs[work.run], work)
    BY <1>1, RunUnderWay
  <1>4. /\ row \in RunRow /\ row.status = "RUNNING"
        /\ row.total = Cardinality(Projects)
        /\ row.key = runs[work.run].key
        /\ row.results = runs[work.run].results
    BY <1>3 DEF RunRow
  <1>5. RunSound(row) /\ DOMAIN row.results = {}
    BY <1>1, <1>3, <1>4 DEF RunSound, Progressing
  <1> HIDE DEF row
  <1>6. /\ work'.at \in {"page", "projects"} /\ work'.run = work.run
        /\ work'.todo = Projects /\ work'.listed = project
    BY DEF Discover
  <1>7. work' # Resting /\ Progressing(row, work')
    <2>1. work'.listed \in [Projects -> Linkage]
      BY <1>6 DEF RunInv, RunTables
    <2>2. work' # Resting
      BY <1>6 DEF Resting
    <2>3. CASE work'.at = "page"
      BY <1>4, <1>5, <1>6, <2>1, <2>2, <2>3 DEF Progressing
    <2>4. CASE work'.at = "projects"
      <3>1. Projects \ work'.todo = {}
        BY <1>6
      <3> QED
        BY <1>4, <1>5, <1>6, <2>1, <2>2, <2>4, <3>1 DEF Progressing
    <2> QED
      BY <1>6, <2>3, <2>4
  <1> QED
    BY <1>1, <1>2, <1>4, <1>5, <1>6, <1>7, GoesOn

\* A page adds to what was read.
LEMMA FetchPageKeeps ==
  ASSUME RunInv, FetchPage
  PROVE  RunInv'
  <1>1. work.at = "page" /\ work # Resting
    BY DEF FetchPage, Resting
  <1>2. UNCHANGED <<runs, server, launching, queue, project>>
    BY DEF FetchPage, outside
  <1>3. /\ work.run \in DOMAIN runs
        /\ runs[work.run] \in RunRow /\ RunSound(runs[work.run])
        /\ runs[work.run].status = "RUNNING"
        /\ Progressing(runs[work.run], work)
        /\ runs' = [runs EXCEPT ![work.run] = runs[work.run]]
    BY <1>1, <1>2, RunUnderWay
  <1>4. /\ work'.at \in {"page", "projects"} /\ work'.run = work.run
        /\ work'.todo = work.todo /\ work'.listed = work.listed
    BY DEF FetchPage
  <1>5. work' # Resting
    BY <1>4 DEF Resting
  <1>6. Progressing(runs[work.run], work')
    <2>1. /\ DOMAIN runs[work.run].results = {} /\ work.todo = Projects
          /\ work.listed \in [Projects -> Linkage]
          /\ runs[work.run].total = Cardinality(Projects)
      BY <1>1, <1>3 DEF Progressing
    <2>2. Projects \ work'.todo = {}
      BY <1>4, <2>1
    <2> QED
      BY <1>4, <2>1, <2>2 DEF Progressing
  <1> QED
    BY <1>1, <1>2, <1>3, <1>4, <1>5, <1>6, GoesOn

\* A run that fails does not say that it has completed.
LEMMA RunFailsKeeps ==
  ASSUME RunInv, RunFails
  PROVE  RunInv'
  <1>1. /\ work # Resting /\ work' = Resting
        /\ runs' = Failing(work.run)
        /\ UNCHANGED <<server, launching, queue, project>>
    BY DEF RunFails, outside
  <1>2. work.run \in DOMAIN runs /\ runs[work.run].status = "RUNNING"
    BY <1>1, RunUnderWay
  <1>3. runs' = EndedAs(work.run, "FAILED")
    BY <1>1, <1>2 DEF Failing, Ended
  <1>4. PICK row \in RunRow :
          /\ runs' = [runs EXCEPT ![work.run] = row]
          /\ RunSound(row) /\ row.status = "FAILED"
    BY <1>2, <1>3, Ends
  <1>5. row.status \in Ended
    BY <1>4 DEF Ended
  <1> QED
    BY <1>1, <1>4, <1>5, ComesToRest

\* Applying a project takes it from what is left to do.
LEMMA ApplyProjectKeeps ==
  ASSUME RunInv, ApplyProject
  PROVE  RunInv'
  <1>1. work.at = "projects" /\ work # Resting
    BY DEF ApplyProject, Resting
  <1>2. UNCHANGED <<runs, server, launching, queue, project>>
    BY DEF ApplyProject, outside
  <1>3. /\ work.run \in DOMAIN runs
        /\ runs[work.run] \in RunRow /\ RunSound(runs[work.run])
        /\ runs[work.run].status = "RUNNING"
        /\ Progressing(runs[work.run], work)
        /\ runs' = [runs EXCEPT ![work.run] = runs[work.run]]
    BY <1>1, <1>2, RunUnderWay
  <1>4. PICK p \in work.todo : \E done, outcome :
          /\ outcome = OutcomeFor(p, done)
          /\ work' = [at |-> "record", run |-> work.run,
                      listed |-> work.listed, todo |-> work.todo \ {p},
                      rows |-> work.rows, project |-> p, outcome |-> outcome]
    BY DEF ApplyProject
  <1>5. /\ work.todo \subseteq Projects
        /\ work.listed \in [Projects -> Linkage]
        /\ DOMAIN runs[work.run].results = Projects \ work.todo
        /\ runs[work.run].total = Cardinality(Projects)
    BY <1>1, <1>3 DEF Progressing
  <1>6. \A done : OutcomeFor(p, done) \in Outcome
    BY DEF OutcomeFor, Outcome
  <1>7. /\ work'.at = "record" /\ work'.run = work.run
        /\ work'.todo = work.todo \ {p} /\ work'.listed = work.listed
        /\ work'.project = p /\ work'.outcome \in Outcome
    BY <1>4, <1>6
  <1>8. Progressing(runs[work.run], work')
    <2>1. Projects \ work.todo = (Projects \ work'.todo) \ {p}
      BY <1>5, <1>7
    <2> QED
      BY <1>5, <1>7, <2>1 DEF Progressing
  <1>9. work' # Resting
    BY <1>7 DEF Resting
  <1> QED
    BY <1>1, <1>2, <1>3, <1>7, <1>8, <1>9, GoesOn

\* Its outcome is recorded in the run.
LEMMA RecordProjectKeeps ==
  ASSUME RunInv, RecordProject
  PROVE  RunInv'
  <1> DEFINE old == runs[work.run]
             results == [p \in DOMAIN old.results \cup {work.project} |->
                           IF p = work.project THEN work.outcome
                           ELSE old.results[p]]
             row == [old EXCEPT !.results = results]
  <1>1. work.at = "record" /\ work # Resting
    BY DEF RecordProject, Resting
  <1>2. UNCHANGED <<server, launching, queue, project>>
    BY DEF RecordProject, outside
  <1>3. /\ work.run \in DOMAIN runs
        /\ old \in RunRow /\ RunSound(old) /\ old.status = "RUNNING"
        /\ Progressing(old, work)
    BY <1>1, RunUnderWay
  <1>4. /\ work.todo \subseteq Projects
        /\ work.listed \in [Projects -> Linkage]
        /\ work.project \in Projects \ work.todo /\ work.outcome \in Outcome
        /\ DOMAIN old.results = (Projects \ work.todo) \ {work.project}
        /\ old.total = Cardinality(Projects)
    BY <1>1, <1>3 DEF Progressing
  <1>5. results \in [Projects \ work.todo -> Outcome]
    <2>1. PICK S \in SUBSET Projects : old.results \in [S -> Outcome]
      BY <1>3 DEF RunRow
    <2>2. S = (Projects \ work.todo) \ {work.project}
      BY <1>4, <2>1
    <2>3. DOMAIN old.results \cup {work.project} = Projects \ work.todo
      BY <1>4
    <2> QED
      BY <1>4, <2>1, <2>2, <2>3
  <1>6. runs' = [runs EXCEPT ![work.run] = row]
    BY <1>3 DEF RecordProject
  <1> HIDE DEF results
  <1>7. /\ row \in RunRow /\ row.status = "RUNNING" /\ row.key = old.key
        /\ row.total = Cardinality(Projects) /\ row.results = results
    <2>1. results \in UNION {[S -> Outcome] : S \in SUBSET Projects}
      BY <1>4, <1>5
    <2> QED
      BY <1>3, <1>4, <2>1 DEF RunRow
  <1>8. RunSound(row)
    BY <1>3, <1>7 DEF RunSound
  <1> HIDE DEF row
  <1>9. /\ work'.at = "projects" /\ work'.run = work.run
        /\ work'.todo = work.todo /\ work'.listed = work.listed
    BY DEF RecordProject
  <1>10. Progressing(row, work') /\ work' # Resting
    BY <1>4, <1>5, <1>7, <1>9 DEF Progressing, Resting
  <1> QED
    BY <1>1, <1>2, <1>6, <1>7, <1>8, <1>9, <1>10, GoesOn

\* A run completes when nothing is left to do.
LEMMA CompleteKeeps ==
  ASSUME RunInv, Complete
  PROVE  RunInv'
  <1> DEFINE old == runs[work.run]
             row == [old EXCEPT !.status = Verdict(work.run), !.key = FALSE]
  <1>1. work.at = "projects" /\ work.todo = {} /\ work # Resting
        /\ work' = Resting
    BY DEF Complete, Resting
  <1>2. UNCHANGED <<server, launching, queue, project>>
    BY DEF Complete, outside
  <1>3. /\ work.run \in DOMAIN runs
        /\ old \in RunRow /\ RunSound(old) /\ old.status = "RUNNING"
        /\ Progressing(old, work)
    BY <1>1, RunUnderWay
  <1>4. /\ DOMAIN old.results = Projects
        /\ old.total = Cardinality(Projects)
    BY <1>1, <1>3 DEF Progressing
  <1>5. /\ Verdict(work.run) \in {"COMPLETED", "COMPLETED_WITH_ERRORS"}
        /\ Verdict(work.run) = "COMPLETED" <=>
             \A p \in DOMAIN old.results : old.results[p] # "rejected"
    BY DEF Verdict
  <1>6. runs' = [runs EXCEPT ![work.run] = row]
    BY <1>3 DEF Complete, EndedAs, RunInv, RunTables, RunRow
  <1>7. /\ row \in RunRow /\ row.key = FALSE
        /\ row.status = Verdict(work.run)
        /\ row.results = old.results /\ row.total = old.total
    BY <1>3, <1>5 DEF RunRow, Ended
  <1>8. RunSound(row)
    BY <1>4, <1>5, <1>7 DEF RunSound, Active
  <1>9. row.status \in Ended
    BY <1>5, <1>7 DEF Ended
  <1> QED
    BY <1>1, <1>2, <1>6, <1>7, <1>8, <1>9, ComesToRest

-----------------------------------------------------------------------------
(* Steps of the server.                                                    *)

\* What is queued when the server stops is owned again by the next start.
LEMMA StopKeeps ==
  ASSUME RunInv, Stop
  PROVE  RunInv'
  <1>1. /\ server = "up" /\ server' = "stopping" /\ queue' = <<>>
        /\ UNCHANGED <<runs, launching, work, project>>
    BY DEF Stop, outside
  <1>2. RunTables' /\ Queued'
    BY <1>1 DEF RunInv, RunTables, Queued
  <1>3. Owned'
    BY <1>1 DEF RunInv, Owned
  <1> QED
    BY <1>1, <1>2, <1>3 DEF RunInv, RunsSound, OneActive, LaunchPending,
       ThreadRunning

\* A server that is down owns nothing.
LEMMA DownKeeps ==
  ASSUME RunInv, Exit \/ ServerCrash
  PROVE  RunInv'
  <1>1. /\ server' = "down" /\ launching' = 0 /\ queue' = <<>>
        /\ work' = Resting /\ UNCHANGED <<runs, project>>
    BY DEF Exit, ServerCrash, outside, RunInv, Queued
  <1>2. RunTables' /\ Queued'
    BY <1>1 DEF RunInv, RunTables, Queued
  <1> QED
    BY <1>1, <1>2 DEF RunInv, RunsSound, OneActive, LaunchPending,
       ThreadRunning, Owned

\* What was active when the server went down is interrupted when it starts.
LEMMA RestartKeeps ==
  ASSUME RunInv, Restart
  PROVE  RunInv'
  <1> DEFINE row(r) == IF r \in ActiveRuns
                       THEN [runs[r] EXCEPT !.status = "INTERRUPTED",
                                            !.key = FALSE]
                       ELSE runs[r]
  <1>1. /\ server = "down" /\ server' = "up"
        /\ runs' = [r \in DOMAIN runs |-> row(r)]
        /\ UNCHANGED <<launching, queue, work, project>>
    BY DEF Restart, Interrupted, outside
  <1>2. ASSUME NEW r \in DOMAIN runs
        PROVE  /\ row(r) \in RunRow /\ RunSound(row(r))
               /\ ~ row(r).key /\ row(r).status \notin Active
    <2>1. runs[r] \in RunRow /\ RunSound(runs[r])
      BY DEF RunInv, RunTables, RunsSound
    <2>2. CASE r \in ActiveRuns
      <3>1. /\ row(r) \in RunRow /\ row(r).key = FALSE
            /\ row(r).status = "INTERRUPTED"
        BY <2>1, <2>2 DEF RunRow, Ended
      <3> QED
        BY <3>1 DEF RunSound, Active
    <2>3. CASE r \notin ActiveRuns
      BY <2>1, <2>3 DEF ActiveRuns, RunSound
    <2> QED
      BY <2>2, <2>3
  <1> HIDE DEF row
  <1>3. /\ DOMAIN runs' = DOMAIN runs
        /\ \A r \in DOMAIN runs : runs'[r] = row(r)
    BY <1>1
  <1>4. runs' \in Seq(RunRow)
    <2>1. Len(runs) \in Nat /\ DOMAIN runs = 1 .. Len(runs)
      BY DEF RunInv, RunTables
    <2>2. runs' \in [1 .. Len(runs) -> RunRow]
      BY <1>1, <1>2, <2>1
    <2> QED
      BY <2>1, <2>2
  <1>5. RunTables' /\ Queued'
    BY <1>1, <1>4 DEF RunInv, RunTables, Queued
  <1>6. RunsSound' /\ OneActive'
    BY <1>2, <1>3 DEF RunsSound, OneActive
  <1>7. launching = 0 /\ work = Resting
    BY <1>1 DEF RunInv, LaunchPending, ThreadRunning
  <1>8. LaunchPending' /\ ThreadRunning'
    BY <1>1, <1>7 DEF LaunchPending, ThreadRunning
  <1>9. Owned'
    BY <1>2, <1>3 DEF Owned, Active
  <1> QED
    BY <1>5, <1>6, <1>8, <1>9 DEF RunInv

-----------------------------------------------------------------------------
\* The invariant is inductive.
LEMMA NextRunInv == RunInv /\ [ErpNext]_erpVars => RunInv'
  <1> SUFFICES ASSUME RunInv, [ErpNext]_erpVars PROVE RunInv'
    OBVIOUS
  <1>1. CASE UNCHANGED erpVars
    <2>1. /\ UNCHANGED <<runs, server, launching, queue, work>>
          /\ project' \in [Projects -> Linkage]
      BY <1>1 DEF erpVars, RunInv, RunTables
    <2> QED
      BY <2>1, SameRuns
  <1>2. CASE ErpNext
    BY <1>2, LaunchKeeps, SubmitKeeps, BeginKeeps, DiscoverKeeps,
       FetchPageKeeps, RunFailsKeeps, ApplyProjectKeeps, RecordProjectKeeps,
       CompleteKeeps, StopKeeps, DownKeeps, RestartKeeps, OutsideKeeps
       DEF ErpNext, Worker
  <1> QED
    BY <1>1, <1>2

\* Through stops, crashes and whatever the ERP answers: at most one run is
\* active, somebody is about to end it while the server is up, and a run that
\* has completed says what became of every project.
THEOREM RunsStayAccountedFor == ErpSpec => []RunsAreAccountedFor
  BY InitRunInv, NextRunInv, RunsAccounted, PTL DEF ErpSpec


-----------------------------------------------------------------------------
(* Rows of the catalogue keep their task.                                  *)

\* The ERP gave the code of an item to its task, unless it reuses codes.
Bearer(x) == Reusing \/ owner[<<x.project, x.code>>] = x.task

\* What the ERP may have answered, and what a row may hold.
Answered == {x \in [task: Tasks, project: Projects, code: Codes] : Bearer(x)}
Held == {x \in Item : x.task # NoTask => Bearer(x)}

\* What the ERP has, what was read from it and what is stored agree with the
\* task that a code was given to.
CatalogueInv ==
  /\ erp \in [Tasks -> [project: Projects, code: Codes] \cup {NoTask}]
  /\ IsFiniteSet({t \in Tasks : erp[t] # NoTask})
  /\ owner \in [Projects \X Codes -> Tasks \cup {NoTask}]
  /\ \A t \in Tasks : erp[t] # NoTask =>
       Reusing \/ owner[<<erp[t].project, erp[t].code>>] = t
  /\ catalogue \in Seq(Held)
  /\ work.at \in {"page", "projects", "record"} => work.rows \in Seq(Answered)
  /\ targeted.at = "apply" =>
       targeted.items \subseteq Answered /\ IsFiniteSet(targeted.items)

\* No row of old goes in new, nor loses its task if no code is reused.
TasksKept(old, new) ==
  \A i \in DOMAIN old :
    /\ i \in DOMAIN new
    /\ ~Reusing /\ old[i].task # NoTask => new[i].task = old[i].task

\* An answer can be held.
LEMMA AnsweredIsHeld == Answered \subseteq Held
  BY DEF Answered, Held, Item

\* An item of the ERP or of a file is merged without taking the task from a
\* row: a row that is found by its code has the task the code was given to.
LEMMA UpsertKeeps ==
  ASSUME NEW done \in [rows: Seq(Held), well: BOOLEAN], NEW item \in Held
  PROVE  /\ Upsert(done, item) \in [rows: Seq(Held), well: BOOLEAN]
         /\ TasksKept(done.rows, Upsert(done, item).rows)
  <1>1. PICK rows \in Seq(Held) : rows = done.rows
    OBVIOUS
  <1>2. PICK n \in Nat : n = Len(rows) /\ DOMAIN rows = 1 .. n
    BY LenProperties
  <1>3. rows \in [1 .. n -> Held]
    BY <1>2, LenProperties
  <1>4. PICK byTask, byCode, found :
          /\ byTask = {i \in DOMAIN done.rows :
                         item.task # NoTask /\ done.rows[i].task = item.task}
          /\ byCode = {i \in DOMAIN done.rows :
                         /\ done.rows[i].project = item.project
                         /\ done.rows[i].code = item.code}
          /\ found = IF byTask # {} THEN byTask ELSE byCode
    OBVIOUS
  <1>5. PICK changed :
          changed = [i \in DOMAIN done.rows |->
                       IF i \in found THEN Written(done.rows[i], item)
                       ELSE done.rows[i]]
    OBVIOUS
  <1>6. \/ Upsert(done, item) = done
        \/ Upsert(done, item) = [done EXCEPT !.well = FALSE]
        \/ Upsert(done, item) = [done EXCEPT !.rows = Append(rows, item)]
        \/ Upsert(done, item) = [done EXCEPT !.rows = changed]
    <2>1. Upsert(done, item)
            = IF ~done.well \/ (found = {} /\ item.task # NoTask
                                  /\ item.code \notin Workforce) THEN done
              ELSE IF byTask # {} /\ byCode # {} /\ byTask # byCode
                   THEN [done EXCEPT !.well = FALSE]
                   ELSE [done EXCEPT !.rows =
                           IF found = {} THEN Append(done.rows, item)
                           ELSE changed]
      BY <1>4, <1>5 DEF Upsert
    <2> QED
      BY <1>1, <2>1
  <1>11. /\ byTask = {i \in 1 .. n :
                        item.task # NoTask /\ rows[i].task = item.task}
         /\ byCode = {i \in 1 .. n : /\ rows[i].project = item.project
                                     /\ rows[i].code = item.code}
         /\ changed = [i \in 1 .. n |-> IF i \in found
                                       THEN Written(rows[i], item)
                                       ELSE rows[i]]
    BY <1>1, <1>2, <1>4, <1>5
  <1>7. TasksKept(rows, rows)
    BY DEF TasksKept
  <1>8. Append(rows, item) \in Seq(Held) /\ TasksKept(rows, Append(rows, item))
    BY <1>2, AppendProperties DEF TasksKept
  <1>9. ASSUME NEW i \in 1 .. n
        PROVE  /\ changed[i] \in Held
               /\ ~Reusing /\ rows[i].task # NoTask =>
                    changed[i].task = rows[i].task
    <2>1. PICK row \in Held : row = rows[i]
      BY <1>3
    <2>2. CASE i \notin found
      BY <1>11, <2>1, <2>2
    <2>3. CASE i \in byTask
      <3>1. i \in found /\ item.task # NoTask /\ row.task = item.task
        BY <1>4, <1>11, <2>1, <2>3
      <3>2. changed[i] = item
        BY <1>11, <2>1, <3>1 DEF Written
      <3> QED
        BY <2>1, <3>1, <3>2
    <2>4. CASE i \in found /\ i \notin byTask
      <3>1. row.project = item.project /\ row.code = item.code
        BY <1>4, <1>11, <2>1, <2>4
      <3>2. changed[i] = Written(row, item)
        BY <1>11, <2>1, <2>4
      <3>3. CASE item.task = NoTask
        <4>1. changed[i] = [item EXCEPT !.task = row.task]
          BY <3>2, <3>3 DEF Written
        <4>2. changed[i] \in Item /\ changed[i].task = row.task
              /\ changed[i].project = row.project /\ changed[i].code = row.code
          BY <3>1, <4>1 DEF Held, Item
        <4> QED
          BY <2>1, <4>2 DEF Held, Bearer
      <3>4. CASE item.task # NoTask
        <4>1. changed[i] = item
          BY <3>2, <3>4 DEF Written
        <4>2. ~Reusing /\ row.task # NoTask => row.task = item.task
          BY <3>1, <3>4 DEF Held, Bearer
        <4> QED
          BY <2>1, <4>1, <4>2
      <3> QED
        BY <3>3, <3>4
    <2> QED
      BY <2>2, <2>3, <2>4
  <1>10. changed \in Seq(Held) /\ TasksKept(rows, changed)
    <2>1. changed \in [1 .. n -> Held]
      BY <1>11, <1>9
    <2> QED
      BY <1>2, <1>9, <2>1 DEF TasksKept
  <1> QED
    BY <1>1, <1>6, <1>7, <1>8, <1>10

\* Rows that keep the tasks of rows that kept them keep them.
LEMMA TasksStayKept ==
  ASSUME NEW a, NEW b, NEW c, TasksKept(a, b), TasksKept(b, c)
  PROVE  TasksKept(a, c)
  BY DEF TasksKept

\* Some item has the greatest TaskID.
LEMMA LatestIs ==
  ASSUME NEW S, IsFiniteSet(S), S # {}, \A x \in S : x.task \in Nat
  PROVE  Latest(S) \in S
  <1> DEFINE P == {T \in SUBSET S :
                     T = {} \/ \E x \in T : \A y \in T : y.task <= x.task}
  <1>1. {} \in P
    OBVIOUS
  <1>2. ASSUME NEW T \in SUBSET S, NEW a \in S \ T, T \in P
        PROVE  T \cup {a} \in P
    <2>1. CASE T = {}
      BY <2>1
    <2>2. CASE \E x \in T : \A y \in T : y.task <= x.task
      <3>1. PICK x \in T : \A y \in T : y.task <= x.task
        BY <2>2
      <3>2. CASE a.task <= x.task
        BY <3>1, <3>2
      <3>3. CASE x.task <= a.task
        <4>1. \A y \in T : y.task <= a.task
          BY <3>1, <3>3
        <4> QED
          BY <4>1
      <3> QED
        BY <3>2, <3>3
    <2> QED
      BY <1>2, <2>1, <2>2
  <1>3. S \in P
    <2> HIDE DEF P
    <2> QED
      BY <1>1, <1>2, SubsetInduction
  <1> QED
    BY <1>3 DEF Latest

\* What the fold of the items of a project merges, subset by subset.
Merging(items) ==
  CHOOSE p : p = [T \in SUBSET items |->
                    IF T = {} THEN [rows |-> catalogue, well |-> TRUE]
                    ELSE Upsert(p[T \ {Latest(T)}], Latest(T))]

\* The tasks of a project are merged without taking a task from a row.
LEMMA SynchronisedKeeps ==
  ASSUME catalogue \in Seq(Held),
         NEW items, items \subseteq Answered, IsFiniteSet(items)
  PROVE  /\ Synchronised(items) \in [rows: Seq(Held), well: BOOLEAN]
         /\ TasksKept(catalogue, Synchronised(items).rows)
  <1> DEFINE M == {a \in [rows: Seq(Held), well: BOOLEAN] :
                     TasksKept(catalogue, a.rows)}
             next(q, T) == IF T = {} THEN [rows |-> catalogue, well |-> TRUE]
                           ELSE Upsert(q[T \ {Latest(T)}], Latest(T))
  <1>1. PICK last : last = [T \in SUBSET items |-> Latest(T)]
    OBVIOUS
  <1>2. ASSUME NEW T \in SUBSET items, T # {}
        PROVE  Latest(T) \in T
    <2>1. IsFiniteSet(T)
      BY <1>2, FS_Subset
    <2>2. \A x \in T : x.task \in Nat
      BY ErpAssumption DEF Answered
    <2> QED
      BY <1>2, <2>1, <2>2, LatestIs
  <1>3. Lasts(last, items)
    BY <1>1, <1>2 DEF Lasts
  <1>4. ASSUME NEW a \in M, NEW x \in items
        PROVE  Upsert(a, x) \in M
    <2>1. x \in Held /\ a \in [rows: Seq(Held), well: BOOLEAN]
      BY AnsweredIsHeld
    <2>2. /\ Upsert(a, x) \in [rows: Seq(Held), well: BOOLEAN]
          /\ TasksKept(a.rows, Upsert(a, x).rows)
      BY <2>1, UpsertKeeps
    <2>3. TasksKept(catalogue, a.rows)
      OBVIOUS
    <2> QED
      BY <2>2, <2>3, TasksStayKept
  <1>5. PICK step : step = [x \in items |-> [a \in M |-> Upsert(a, x)]]
    OBVIOUS
  <1>6. PICK base : base = [rows |-> catalogue, well |-> TRUE]
    OBVIOUS
  <1>7. base \in M
    BY <1>6 DEF TasksKept
  <1> HIDE DEF M
  <1>8. step \in [items -> [M -> M]]
    BY <1>4, <1>5
  <1>9. PICK p \in [SUBSET items -> M] : Folded(p, last, step, base, items)
    BY <1>3, <1>7, <1>8, FoldExists
  <1>10. \A T \in SUBSET items : p[T] = next(p, T)
    <2> SUFFICES ASSUME NEW T \in SUBSET items
                 PROVE  p[T] = next(p, T)
      OBVIOUS
    <2>1. p[T] = IF T = {} THEN base ELSE step[last[T]][p[T \ {last[T]}]]
      BY <1>9 DEF Folded
    <2>2. CASE T = {}
      BY <1>6, <2>1, <2>2
    <2>3. CASE T # {}
      <3>1. last[T] = Latest(T) /\ Latest(T) \in items
        BY <1>1, <1>2, <2>3
      <3>2. PICK x \in items : x = Latest(T)
        BY <3>1
      <3>3. p[T \ {x}] \in M
        OBVIOUS
      <3>4. step[x][p[T \ {x}]] = Upsert(p[T \ {x}], x)
        BY <1>5, <3>3
      <3> QED
        BY <2>1, <2>3, <3>1, <3>2, <3>4
    <2> QED
      BY <2>2, <2>3
  <1>11. p = [T \in SUBSET items |-> next(p, T)]
    <2> HIDE DEF next
    <2> QED
      BY <1>10
  <1>12. Merging(items) = [T \in SUBSET items |-> next(Merging(items), T)]
    BY <1>11, Zenon DEF Merging
  <1>13. PICK q : q = Merging(items)
    OBVIOUS
  <1>14. \A T \in SUBSET items : q[T] = next(q, T)
    <2> HIDE DEF next
    <2> QED
      BY <1>12, <1>13
  <1>15. q[{}] \in M
    BY <1>6, <1>7, <1>14
  <1>16. Stays(q, last, M, items)
    <2> SUFFICES ASSUME NEW T \in SUBSET items, T # {},
                        q[T \ {last[T]}] \in M
                 PROVE  q[T] \in M
      BY DEF Stays
    <2>1. last[T] = Latest(T) /\ Latest(T) \in items
      BY <1>1, <1>2
    <2>2. q[T] = Upsert(q[T \ {last[T]}], Latest(T))
      BY <1>14, <2>1
    <2> QED
      BY <1>4, <2>1, <2>2
  <1>17. q[items] \in M
    BY <1>3, <1>15, <1>16, FoldStays
  <1>18. Synchronised(items) = Merging(items)[items]
    BY Zenon DEF Synchronised, Merging, MapThenFoldSet
  <1> QED
    BY <1>13, <1>17, <1>18 DEF M


\* What the ERP answers it has given the codes to.
LEMMA ListingIsAnswered ==
  ASSUME CatalogueInv
  PROVE  Listing \in Seq(Answered) /\ IsFiniteSet(ToSet(Listing))
  <1>1. PICK S, order : /\ S = {t \in Tasks : erp[t] # NoTask}
                        /\ order = Increasing(S)
    OBVIOUS
  <1>2. IsFiniteSet(S) /\ S \subseteq Int
    <2>1. IsFiniteSet(S)
      BY <1>1 DEF CatalogueInv
    <2>2. Tasks \subseteq Int
      BY ErpAssumption
    <2> QED
      BY <1>1, <2>1, <2>2
  <1>3. PICK n \in Nat : n = Cardinality(S) /\ order \in [1 .. n -> S]
    BY <1>1, <1>2, IncreasingEnumerates
  <1>4. Listing = [i \in 1 .. n |-> [task |-> order[i],
                                     project |-> erp[order[i]].project,
                                     code |-> erp[order[i]].code]]
    BY <1>1, <1>3 DEF Listing
  <1>5. ASSUME NEW i \in 1 .. n
        PROVE  Listing[i] \in Answered
    <2>1. PICK t \in Tasks : t = order[i] /\ erp[t] # NoTask
      BY <1>1, <1>3
    <2>2. /\ erp[t] \in [project: Projects, code: Codes]
          /\ Reusing \/ owner[<<erp[t].project, erp[t].code>>] = t
      BY <2>1 DEF CatalogueInv
    <2>3. Listing[i] = [task |-> t, project |-> erp[t].project,
                        code |-> erp[t].code]
      BY <1>4, <2>1
    <2> QED
      BY <2>2, <2>3 DEF Answered, Bearer
  <1>6. Listing \in Seq(Answered) /\ DOMAIN Listing = 1 .. n
    BY <1>4, <1>5
  <1>7. IsFiniteSet({Listing[i] : i \in 1 .. n})
    <2>1. IsFiniteSet(1 .. n)
      BY FS_Interval
    <2> QED
      BY <2>1, ImageIsFinite
  <1> QED
    BY <1>6, <1>7 DEF ToSet

\* So are its pages.
LEMMA PageIsAnswered ==
  ASSUME CatalogueInv, work.rows \in Seq(Answered)
  PROVE  Page \in Seq(Answered)
  <1>1. PICK M, list : M = Answered /\ list = Listing
    OBVIOUS
  <1>2. PICK m \in Nat, l \in Nat : m = Len(work.rows) /\ l = Len(list)
    BY <1>1, ListingIsAnswered, LenProperties
  <1>3. list \in [1 .. l -> M]
    BY <1>1, <1>2, ListingIsAnswered, LenProperties
  <1>4. PICK n \in Int : n <= l /\ n = Min({m + PageSize, l})
    <2>1. m + PageSize \in Int
      BY ErpAssumption
    <2>2. PICK k \in Int : k = m + PageSize
      BY <2>1
    <2>3. \E x \in {k, l} : \A y \in {k, l} : x <= y
      OBVIOUS
    <2>4. /\ Min({k, l}) \in {k, l}
          /\ \A y \in {k, l} : Min({k, l}) <= y
      BY <2>3 DEF Min
    <2> QED
      BY <2>2, <2>4
  <1>5. Page = SubSeq(list, m + 1, n)
    BY <1>1, <1>2, <1>4 DEF Page
  <1>6. \A i \in m + 1 .. n : list[i] \in M
    <2>1. \A i \in m + 1 .. n : i \in 1 .. l
      BY <1>4
    <2> QED
      BY <1>3, <2>1
  <1>7. m + 1 \in Int
    OBVIOUS
  <1> QED
    BY <1>1, <1>5, <1>6, <1>7, SubSeqProperties

\* A step that changes neither the ERP nor the catalogue reads no more.
LEMMA SameCatalogue ==
  ASSUME CatalogueInv, UNCHANGED <<erp, owner, catalogue>>,
         \/ targeted' = targeted \/ targeted' = Resting,
         \/ work' = work
         \/ work'.at \notin {"page", "projects", "record"}
         \/ work'.rows \in Seq(Answered)
  PROVE  CatalogueInv' /\ TasksKept(catalogue, catalogue')
  <1>1. Answered' = Answered /\ Held' = Held
    BY DEF Answered, Held, Bearer
  <1>2. targeted'.at = "apply" =>
          targeted'.items \subseteq Answered /\ IsFiniteSet(targeted'.items)
    BY DEF CatalogueInv, Resting
  <1>3. work'.at \in {"page", "projects", "record"} =>
          work'.rows \in Seq(Answered)
    BY DEF CatalogueInv
  <1>4. CatalogueInv'
    BY <1>1, <1>2, <1>3 DEF CatalogueInv
  <1> QED
    BY <1>4 DEF TasksKept

\* A step that changes the rows of the catalogue.
LEMMA CatalogueChanges ==
  ASSUME CatalogueInv, UNCHANGED <<erp, owner>>,
         catalogue' \in Seq(Held), TasksKept(catalogue, catalogue'),
         \/ targeted' = targeted \/ targeted' = Resting,
         \/ work' = work \/ work'.rows \in Seq(Answered)
  PROVE  CatalogueInv' /\ TasksKept(catalogue, catalogue')
  <1>1. Answered' = Answered /\ Held' = Held
    BY DEF Answered, Held, Bearer
  <1>2. targeted'.at = "apply" =>
          targeted'.items \subseteq Answered /\ IsFiniteSet(targeted'.items)
    BY DEF CatalogueInv, Resting
  <1>3. work'.at \in {"page", "projects", "record"} =>
          work'.rows \in Seq(Answered)
    BY DEF CatalogueInv
  <1> QED
    BY <1>1, <1>2, <1>3 DEF CatalogueInv

\* The thread of the executor keeps the tasks of rows.
LEMMA WorkerKeepsTasks ==
  ASSUME CatalogueInv, Worker
  PROVE  CatalogueInv' /\ TasksKept(catalogue, catalogue')
  <1>1. CASE Begin
    <2>1. work' = work \/ work'.at = "discover"
      BY <1>1 DEF Begin
    <2> QED
      BY <1>1, <2>1, SameCatalogue DEF Begin, outside
  <1>2. CASE Discover
    <2>1. work'.rows = <<>>
      BY <1>2 DEF Discover
    <2>2. work'.rows \in Seq(Answered)
      BY <2>1, EmptySeq
    <2> QED
      BY <1>2, <2>2, SameCatalogue DEF Discover, outside
  <1>3. CASE FetchPage
    <2>1. work.rows \in Seq(Answered) /\ work'.rows = work.rows \o Page
      BY <1>3 DEF FetchPage, CatalogueInv
    <2>2. work'.rows \in Seq(Answered)
      BY <2>1, PageIsAnswered, ConcatProperties
    <2> QED
      BY <1>3, <2>2, SameCatalogue DEF FetchPage, outside
  <1>4. CASE RunFails \/ Complete
    <2>1. work'.at = "rest"
      BY <1>4 DEF RunFails, Complete, Resting
    <2> QED
      BY <1>4, <2>1, SameCatalogue DEF RunFails, Complete, outside
  <1>5. CASE RecordProject
    <2>1. work'.rows = work.rows /\ work.rows \in Seq(Answered)
      BY <1>5 DEF RecordProject, CatalogueInv
    <2> QED
      BY <1>5, <2>1, SameCatalogue DEF RecordProject, outside
  <1>6. CASE ApplyProject
    <2>1. work'.rows = work.rows /\ work.rows \in Seq(Answered)
      BY <1>6 DEF ApplyProject, CatalogueInv
    <2>2. PICK p \in work.todo, fails \in BOOLEAN :
            \/ catalogue' = catalogue
            \/ ~fails /\ catalogue' = Synchronised(Snapshot(p)).rows
            \/ fails /\ catalogue' = [rows |-> catalogue, well |-> FALSE].rows
      BY <1>6, Zenon DEF ApplyProject
    <2>3. Snapshot(p) \subseteq Answered /\ IsFiniteSet(Snapshot(p))
      <3>1. PICK n \in Nat, rows \in Seq(Answered) :
              rows = work.rows /\ n = Len(rows) /\ DOMAIN rows = 1 .. n
        BY <2>1, LenProperties
      <3>2. ToSet(rows) = {rows[i] : i \in 1 .. n}
        BY <3>1 DEF ToSet
      <3>3. IsFiniteSet({rows[i] : i \in 1 .. n})
        <4>1. IsFiniteSet(1 .. n)
          BY FS_Interval
        <4> QED
          BY <4>1, ImageIsFinite
      <3>4. \A i \in 1 .. n : rows[i] \in Answered
        BY <3>1
      <3>5. Snapshot(p) \subseteq ToSet(rows) /\ ToSet(rows) \subseteq Answered
        BY <3>1, <3>2, <3>4 DEF Snapshot
      <3> QED
        BY <3>2, <3>3, <3>5, FS_Subset
    <2>4. catalogue' \in Seq(Held) /\ TasksKept(catalogue, catalogue')
      <3>1. catalogue \in Seq(Held) /\ TasksKept(catalogue, catalogue)
        BY DEF CatalogueInv, TasksKept
      <3>2. /\ Synchronised(Snapshot(p)) \in [rows: Seq(Held), well: BOOLEAN]
            /\ TasksKept(catalogue, Synchronised(Snapshot(p)).rows)
        BY <2>3, <3>1, SynchronisedKeeps
      <3> QED
        BY <2>2, <3>1, <3>2
    <2> QED
      BY <1>6, <2>1, <2>4, CatalogueChanges DEF ApplyProject, outside
  <1> QED
    BY <1>1, <1>2, <1>3, <1>4, <1>5, <1>6 DEF Worker

\* So do those who synchronise one project or import a file.
LEMMA PeopleKeepTasks ==
  ASSUME CatalogueInv, BeginTargeted \/ CommitTargeted \/ ImportFile
  PROVE  CatalogueInv' /\ TasksKept(catalogue, catalogue')
  <1>0. catalogue \in Seq(Held) /\ TasksKept(catalogue, catalogue)
    BY DEF CatalogueInv, TasksKept
  <1>1. CASE BeginTargeted
    <2>1. PICK p \in Projects :
            targeted' = [at |-> "apply",
                         items |-> {x \in ToSet(Listing) : x.project = p}]
      BY <1>1, Zenon DEF BeginTargeted
    <2>6. ToSet(Listing) \subseteq Answered
      BY ListingIsAnswered DEF ToSet
    <2>7. PICK listed : listed = ToSet(Listing)
      OBVIOUS
    <2>2. /\ targeted'.items \subseteq ToSet(Listing)
          /\ ToSet(Listing) \subseteq Answered
      BY <2>1, <2>6, <2>7
    <2>3. targeted'.items \subseteq Answered /\ IsFiniteSet(targeted'.items)
      BY <2>2, ListingIsAnswered, FS_Subset
    <2>4. UNCHANGED <<erp, owner, catalogue, work>>
      BY <1>1 DEF BeginTargeted, outside
    <2>5. Answered' = Answered /\ Held' = Held
      BY <2>4 DEF Answered, Held, Bearer
    <2> QED
      BY <1>0, <2>3, <2>4, <2>5 DEF CatalogueInv
  <1>2. CASE CommitTargeted
    <2>1. targeted.items \subseteq Answered /\ IsFiniteSet(targeted.items)
      BY <1>2 DEF CommitTargeted, CatalogueInv
    <2>2. /\ Synchronised(targeted.items) \in [rows: Seq(Held), well: BOOLEAN]
          /\ TasksKept(catalogue, Synchronised(targeted.items).rows)
      BY <1>0, <2>1, SynchronisedKeeps
    <2>3. catalogue' = catalogue
          \/ catalogue' = Synchronised(targeted.items).rows
      BY <1>2 DEF CommitTargeted
    <2>4. catalogue' \in Seq(Held) /\ TasksKept(catalogue, catalogue')
      BY <1>0, <2>2, <2>3
    <2> QED
      BY <1>2, <2>4, CatalogueChanges DEF CommitTargeted, outside
  <1>3. CASE ImportFile
    <2>1. PICK done, item :
            /\ done = [rows |-> catalogue, well |-> TRUE]
            /\ item \in [task: {NoTask}, project: Projects, code: Codes]
            /\ catalogue' = Upsert(done, item).rows
      BY <1>3 DEF ImportFile
    <2>2. done \in [rows: Seq(Held), well: BOOLEAN] /\ item \in Held
      BY <1>0, <2>1 DEF Held, Item
    <2>3. catalogue' \in Seq(Held) /\ TasksKept(catalogue, catalogue')
      BY <2>1, <2>2, UpsertKeeps
    <2> QED
      BY <1>3, <2>3, CatalogueChanges DEF ImportFile
  <1> QED
    BY <1>1, <1>2, <1>3

\* What the ERP changes does not give a code to another task, unless it reuses
\* codes.
LEMMA ErpKeepsTasks ==
  ASSUME CatalogueInv, ErpChanges
  PROVE  CatalogueInv' /\ TasksKept(catalogue, catalogue')
  <1>1. UNCHANGED <<catalogue, work, targeted>>
    BY DEF ErpChanges
  <1>2. PICK t \in Tasks :
          \/ erp' = [erp EXCEPT ![t] = NoTask] /\ owner' = owner
          \/ \E p \in Projects, c \in Codes :
               /\ \A u \in Tasks \ {t} : erp[u] # [project |-> p, code |-> c]
               /\ Reusing \/ owner[<<p, c>>] \in {t, NoTask}
               /\ erp' = [erp EXCEPT ![t] = [project |-> p, code |-> c]]
               /\ owner' = [owner EXCEPT ![<<p, c>>] = t]
    BY DEF ErpChanges
  <1>3. /\ erp' \in [Tasks -> [project: Projects, code: Codes] \cup {NoTask}]
        /\ owner' \in [Projects \X Codes -> Tasks \cup {NoTask}]
    <2>1. /\ erp \in [Tasks -> [project: Projects, code: Codes] \cup {NoTask}]
          /\ owner \in [Projects \X Codes -> Tasks \cup {NoTask}]
      BY DEF CatalogueInv
    <2>2. CASE erp' = [erp EXCEPT ![t] = NoTask] /\ owner' = owner
      BY <2>1, <2>2
    <2>3. CASE \E p \in Projects, c \in Codes :
                 /\ erp' = [erp EXCEPT ![t] = [project |-> p, code |-> c]]
                 /\ owner' = [owner EXCEPT ![<<p, c>>] = t]
      <3>1. PICK p \in Projects, c \in Codes :
              /\ erp' = [erp EXCEPT ![t] = [project |-> p, code |-> c]]
              /\ owner' = [owner EXCEPT ![<<p, c>>] = t]
        BY <2>3
      <3>2. erp' \in [Tasks ->
                       [project: Projects, code: Codes] \cup {NoTask}]
        BY <2>1, <3>1
      <3>3. PICK h \in Projects \X Codes : h = <<p, c>>
        OBVIOUS
      <3>4. owner' \in [Projects \X Codes -> Tasks \cup {NoTask}]
        BY <2>1, <3>1, <3>3
      <3> QED
        BY <3>2, <3>4
    <2> QED
      BY <1>2, <2>2, <2>3
  <1>4. \A h \in Projects \X Codes :
          Reusing \/ (owner[h] # NoTask => owner'[h] = owner[h])
    BY <1>2 DEF CatalogueInv
  <1>5. \A u \in Tasks : erp'[u] # NoTask =>
          Reusing \/ owner'[<<erp'[u].project, erp'[u].code>>] = u
    <2> SUFFICES ASSUME NEW u \in Tasks, erp'[u] # NoTask, ~Reusing
                 PROVE  owner'[<<erp'[u].project, erp'[u].code>>] = u
      OBVIOUS
    <2>1. CASE erp'[u] = erp[u]
      <3>1. /\ erp[u] \in [project: Projects, code: Codes]
            /\ owner[<<erp[u].project, erp[u].code>>] = u
        BY <2>1 DEF CatalogueInv
      <3>2. u # NoTask
        BY ErpAssumption
      <3> QED
        BY <1>4, <2>1, <3>1, <3>2
    <2>2. CASE erp'[u] # erp[u]
      <3>1. u = t
        BY <1>2, <2>2 DEF CatalogueInv
      <3>2. PICK p \in Projects, c \in Codes :
              /\ erp' = [erp EXCEPT ![t] = [project |-> p, code |-> c]]
              /\ owner' = [owner EXCEPT ![<<p, c>>] = t]
        BY <1>2, <3>1 DEF CatalogueInv
      <3>3. erp'[u] = [project |-> p, code |-> c]
        BY <3>1, <3>2 DEF CatalogueInv
      <3>4. owner'[<<p, c>>] = t
        BY <3>2 DEF CatalogueInv
      <3> QED
        BY <3>1, <3>3, <3>4
    <2> QED
      BY <2>1, <2>2
  <1>6. IsFiniteSet({u \in Tasks : erp'[u] # NoTask})
    <2>1. PICK S : S = {u \in Tasks : erp[u] # NoTask}
      OBVIOUS
    <2>2. IsFiniteSet(S)
      BY <2>1 DEF CatalogueInv
    <2>3. IsFiniteSet(S \cup {t})
      BY <2>2, FS_AddElement
    <2>4. {u \in Tasks : erp'[u] # NoTask} \subseteq S \cup {t}
      BY <1>2, <2>1 DEF CatalogueInv
    <2> QED
      BY <2>3, <2>4, FS_Subset
  <1>7. Held \subseteq Held' /\ Answered \subseteq Answered'
    <2>1. ASSUME NEW x \in Item, x.task # NoTask, Bearer(x)
          PROVE  Reusing \/ owner'[<<x.project, x.code>>] = x.task
      BY <1>4, <2>1 DEF Bearer, Item
    <2>2. NoTask \notin Tasks
      BY ErpAssumption
    <2> QED
      BY <2>1, <2>2 DEF Held, Answered, Bearer, Item
  <1>8. /\ catalogue' \in Seq(Held')
        /\ work'.at \in {"page", "projects", "record"} =>
             work'.rows \in Seq(Answered')
        /\ targeted'.at = "apply" =>
             targeted'.items \subseteq Answered' /\ IsFiniteSet(targeted'.items)
    <2>1. /\ catalogue \in Seq(Held)
          /\ work.at \in {"page", "projects", "record"} =>
               work.rows \in Seq(Answered)
          /\ targeted.at = "apply" =>
               targeted.items \subseteq Answered /\ IsFiniteSet(targeted.items)
      BY DEF CatalogueInv
    <2>2. \A s \in Seq(Held) : s \in Seq(Held')
      BY <1>7
    <2>3. \A s \in Seq(Answered) : s \in Seq(Answered')
      BY <1>7
    <2> QED
      BY <1>1, <1>7, <2>1, <2>2, <2>3
  <1>9. CatalogueInv'
    BY <1>3, <1>5, <1>6, <1>8 DEF CatalogueInv
  <1> QED
    BY <1>1, <1>9 DEF TasksKept

\* At the start the ERP has one task, and a file has brought one row.
LEMMA InitCatalogueInv == ErpInit => CatalogueInv
  <1> SUFFICES ASSUME ErpInit PROVE CatalogueInv
    OBVIOUS
  <1>1. PICK t \in Tasks, p \in Projects, c \in Codes, d \in Codes :
          /\ erp = [u \in Tasks |-> IF u = t THEN [project |-> p, code |-> c]
                                    ELSE NoTask]
          /\ owner = [held \in Projects \X Codes |->
                        IF held = <<p, c>> THEN t ELSE NoTask]
          /\ catalogue = <<[task |-> NoTask, project |-> p, code |-> d]>>
    BY DEF ErpInit
  <1>2. erp \in [Tasks -> [project: Projects, code: Codes] \cup {NoTask}]
    BY <1>1
  <1>3. owner \in [Projects \X Codes -> Tasks \cup {NoTask}]
    BY <1>1
  <1>4. IsFiniteSet({u \in Tasks : erp[u] # NoTask})
    <2>1. {u \in Tasks : erp[u] # NoTask} \subseteq {t}
      BY <1>1
    <2> QED
      BY <2>1, FS_Singleton, FS_Subset
  <1>5. ASSUME NEW u \in Tasks, erp[u] # NoTask
        PROVE  owner[<<erp[u].project, erp[u].code>>] = u
    <2>1. u = t /\ erp[u].project = p /\ erp[u].code = c
      BY <1>1, <1>5
    <2> QED
      BY <1>1, <2>1
  <1>6. catalogue \in Seq(Held)
    <2>1. PICK row : row = [task |-> NoTask, project |-> p, code |-> d]
      OBVIOUS
    <2>2. row \in Held
      BY <2>1 DEF Held, Item
    <2> QED
      BY <1>1, <2>1, <2>2
  <1>7. work.at = "rest" /\ targeted.at = "rest"
    BY DEF ErpInit, Resting
  <1> QED
    BY <1>2, <1>3, <1>4, <1>5, <1>6, <1>7 DEF CatalogueInv

\* No step takes the task from a row, as long as the ERP keeps a code for the
\* task it gave it to.
LEMMA NextKeepsTasks ==
  ASSUME CatalogueInv, ErpNext
  PROVE  CatalogueInv' /\ TasksKept(catalogue, catalogue')
  <1>1. CASE Launch \/ Submit
    BY <1>1, SameCatalogue DEF Launch, Submit, outside
  <1>2. CASE Stop \/ Exit
    BY <1>2, SameCatalogue DEF Stop, Exit, outside
  <1>3. CASE ServerCrash
    <2>1. work'.at = "rest"
      BY <1>3 DEF ServerCrash, Resting
    <2> QED
      BY <1>3, <2>1, SameCatalogue DEF ServerCrash, outside
  <1>4. CASE Restart \/ SyncProject
    BY <1>4, SameCatalogue DEF Restart, SyncProject, outside
  <1> QED
    BY <1>1, <1>2, <1>3, <1>4, WorkerKeepsTasks, PeopleKeepTasks,
       ErpKeepsTasks DEF ErpNext

\* Each step keeps what they agree on.
LEMMA NextCatalogueInv == CatalogueInv /\ [ErpNext]_erpVars => CatalogueInv'
  <1> SUFFICES ASSUME CatalogueInv, [ErpNext]_erpVars PROVE CatalogueInv'
    OBVIOUS
  <1>1. CASE UNCHANGED erpVars
    BY <1>1, SameCatalogue DEF erpVars
  <1> QED
    BY <1>1, NextKeepsTasks

\* What the ERP has, what was read of it and is not applied yet, and the rows
\* agree on the task a code was given to, however old what was read; if codes
\* are reused, they are at least tasks, projects and codes.
THEOREM CatalogueInvariant == ErpSpec => []CatalogueInv
  BY InitCatalogueInv, NextCatalogueInv, PTL DEF ErpSpec

\* A row that carries a TaskID keeps it, through files, renamed and removed
\* tasks, answers that are applied late, stops and crashes, as long as the ERP
\* gives no code to another task.
THEOREM RowsKeepTheirTask ==
  ASSUME ~Reusing
  PROVE  ErpSpec => TaskKeepsItsRow
  <1>1. CatalogueInv /\ [ErpNext]_erpVars =>
          [\A i \in DOMAIN catalogue :
             /\ i \in DOMAIN catalogue'
             /\ catalogue[i].task # NoTask =>
                  catalogue'[i].task = catalogue[i].task]_erpVars
    BY NextKeepsTasks DEF TasksKept
  <1> QED
    BY <1>1, CatalogueInvariant, PTL DEF ErpSpec, TaskKeepsItsRow

-----------------------------------------------------------------------------
(* Types, as both parts move side by side.                                 *)

\* What is bounded only for the checks.
Bounded == Len(runs) <= MaxRuns /\ changes \in 0 .. MaxErpChanges

\* Launches and changes stop at their bounds.
LEMMA NextBounded ==
  ASSUME RunInv, Bounded, [ErpNext]_erpVars
  PROVE  Bounded'
  <1>1. runs \in Seq(RunRow) /\ Len(runs) \in Nat
    BY LenProperties DEF RunInv, RunTables
  <1>2. changes' \in 0 .. MaxErpChanges
    <2>1. CASE ImportFile \/ SyncProject \/ ErpChanges
      <3>1. changes < MaxErpChanges /\ changes' = changes + 1
        BY <2>1 DEF ImportFile, SyncProject, ErpChanges, Happens
      <3>2. PICK m \in Nat : m = MaxErpChanges
        BY ErpAssumption
      <3>3. PICK n \in 0 .. m : n = changes
        BY <3>2 DEF Bounded
      <3>4. n + 1 \in 0 .. m
        BY <3>1, <3>2, <3>3
      <3> QED
        BY <3>1, <3>2, <3>3, <3>4
    <2>2. CASE ~(ImportFile \/ SyncProject \/ ErpChanges)
      <3>1. changes' = changes
        BY <2>2 DEF ErpNext, Launch, Submit, Worker, Begin, Discover,
           FetchPage, RunFails, ApplyProject, RecordProject, Complete, Stop,
           Exit, ServerCrash, Restart, BeginTargeted, CommitTargeted, erpVars,
           outside
      <3> QED
        BY <3>1 DEF Bounded
    <2> QED
      BY <2>1, <2>2
  <1>3. CASE Launch
    <2>1. PICK row : runs' = Append(runs, row)
      BY <1>3 DEF Launch
    <2>2. Len(runs') = Len(runs) + 1
      BY <1>1, <2>1
    <2>3. Len(runs) < MaxRuns
      BY <1>3 DEF Launch, LaunchFree
    <2> QED
      BY <1>1, <1>2, <2>2, <2>3, ErpAssumption DEF Bounded
  <1>4. CASE ~Launch
    <2>1. DOMAIN runs' = DOMAIN runs
      BY <1>4 DEF ErpNext, Submit, Worker, Begin,
         Discover, FetchPage, RunFails, ApplyProject, RecordProject, Complete,
         Stop, Exit, ServerCrash, Restart, BeginTargeted, CommitTargeted,
         ImportFile, SyncProject, ErpChanges, erpVars, outside, Failing, EndedAs
    <2>2. runs' \in Seq(RunRow)
      BY NextRunInv DEF RunInv, RunTables
    <2>3. 1 .. Len(runs') = 1 .. Len(runs) /\ Len(runs') \in Nat
      BY <1>1, <2>1, <2>2, LenProperties
    <2>4. Len(runs') = Len(runs)
      BY <1>1, <2>3
    <2> QED
      BY <1>2, <2>4 DEF Bounded
  <1> QED
    BY <1>3, <1>4

\* The invariants of the synchronisation give its types.
LEMMA ErpTyped ==
  ASSUME RunInv, CatalogueInv, Bounded
  PROVE  ErpTypeOK
  <1>1. runs \in Seq(Run)
    <2>1. Cardinality(Projects) \in Nat
      BY ErpAssumption, FS_CardinalityType
    <2>2. RunRow \subseteq Run
      BY <2>1 DEF RunRow, Run
    <2> QED
      BY <2>2 DEF RunInv, RunTables
  <1>2. Len(runs) \in Nat /\ DOMAIN runs = 1 .. Len(runs)
    BY LenProperties DEF RunInv, RunTables
  <1>3. launching \in 0 .. MaxRuns
    BY <1>2, ErpAssumption DEF RunInv, RunTables, LaunchPending, Bounded
  <1>4. queue \in Seq(1 .. MaxRuns)
    <2>1. PICK n \in Nat : n = Len(queue) /\ queue \in [1 .. n -> Nat]
      BY LenProperties DEF RunInv, RunTables
    <2>2. \A i \in 1 .. n : queue[i] \in DOMAIN runs
      BY <2>1 DEF RunInv, Queued
    <2>3. DOMAIN runs \subseteq 1 .. MaxRuns
      BY <1>2, ErpAssumption DEF Bounded
    <2>4. PICK S : S = 1 .. MaxRuns
      OBVIOUS
    <2>5. queue \in [1 .. n -> S]
      BY <2>1, <2>2, <2>3, <2>4
    <2>6. queue \in Seq(S)
      BY <2>1, <2>5
    <2> QED
      BY <2>4, <2>6
  <1>5. catalogue \in Seq(Item)
    <2>1. Held \subseteq Item
      BY DEF Held
    <2> QED
      BY <2>1 DEF CatalogueInv
  <1>6. work.at \in {"rest", "discover", "page", "projects", "record"}
    <2>1. CASE work = Resting
      BY <2>1 DEF Resting
    <2>2. CASE work # Resting
      BY <2>2 DEF RunInv, ThreadRunning, Progressing
    <2> QED
      BY <2>1, <2>2
  <1> QED
    BY <1>1, <1>3, <1>4, <1>5, <1>6
    DEF ErpTypeOK, RunInv, RunTables, CatalogueInv, Bounded

ServerInv == CommandInv /\ RunInv /\ CatalogueInv /\ Bounded

\* Whatever part moves, receipts, attempts, runs, the catalogue and what is
\* under way have their types.
THEOREM ServerTypes == ServerSpec => []ServerTypeOK
  <1>1. ServerInit => ServerInv
    <2>1. ErpInit => Bounded
      BY ErpAssumption DEF ErpInit, Bounded
    <2> QED
      BY <2>1, InitCommandInv, InitRunInv, InitCatalogueInv
      DEF ServerInit, ServerInv
  <1>2. ServerInv /\ [ServerNext]_serverVars => ServerInv'
    <2>1. [ServerNext]_serverVars => [Next]_vars /\ [ErpNext]_erpVars
      BY DEF ServerNext, ErpMoves, serverVars
    <2> QED
      BY <2>1, NextCommandInv, NextRunInv, NextCatalogueInv, NextBounded
      DEF ServerInv
  <1>3. ServerInv => ServerTypeOK
    BY ErpTyped DEF ServerInv, ServerTypeOK, CommandInv
  <1> QED
    BY <1>1, <1>2, <1>3, PTL DEF ServerSpec

==============================================================================
