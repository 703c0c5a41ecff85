------------------------------ MODULE OnceOnly ------------------------------
(* What an idempotency key promises: of the attempts that ask for the      *)
(* command of a key one takes effect at most, and every other that gets an *)
(* answer from it is told that outcome.                                    *)
CONSTANTS
  Attempts,   \* HTTP requests, first tries and retries alike
  Keys,       \* idempotency keys of one actor and command scope
  Payloads,   \* command inputs the request fingerprint tells apart
  NoOutcome, NoQuestion

VARIABLES
  asked,      \* the key and the input of each attempt
  outcome,    \* what became of the command of each key
  told        \* what an attempt was told of the outcome of another

onceVars == <<asked, outcome, told>>

Question == [key: Keys, payload: Payloads]

Untold == [kind |-> "untold"]
Replay(o) == [kind |-> "replay", by |-> o.by]
Refusal == [kind |-> "keyConflict"]

Init ==
  /\ asked = [a \in Attempts |-> NoQuestion]
  /\ outcome = [k \in Keys |-> NoOutcome]
  /\ told = [a \in Attempts |-> Untold]

Ask(a, question) ==
  /\ asked[a] = NoQuestion
  /\ asked' = [asked EXCEPT ![a] = question]
  /\ UNCHANGED <<outcome, told>>

\* The command of a key takes effect.
Decide(a) ==
  /\ asked[a] # NoQuestion
  /\ outcome[asked[a].key] = NoOutcome
  /\ outcome' = [outcome EXCEPT ![asked[a].key] =
                   [payload |-> asked[a].payload, by |-> a]]
  /\ UNCHANGED <<asked, told>>

\* An attempt that repeats the input is told the outcome, another is refused.
Tell(a) ==
  LET o == outcome[asked[a].key] IN
  /\ asked[a] # NoQuestion /\ told[a] = Untold
  /\ o # NoOutcome
  /\ told' = [told EXCEPT ![a] =
                IF o.payload = asked[a].payload THEN Replay(o) ELSE Refusal]
  /\ UNCHANGED <<asked, outcome>>

Next ==
  \E a \in Attempts :
    (\E question \in Question : Ask(a, question)) \/ Decide(a) \/ Tell(a)

Spec == Init /\ [][Next]_onceVars
=============================================================================
