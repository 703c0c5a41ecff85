---------------------------- MODULE MCLifecycles ----------------------------
(***************************************************************************)
(* Instances for checking the smaller lifecycles around the planning.      *)
(* They share people and nothing else, so that a run explores them side by *)
(* side: each initial state picks the part that moves.                     *)
(***************************************************************************)
EXTENDS StoryVerification, PlanMaterialisation, Communications, PlanningEngine,
        TLC

CONSTANTS s1, s2, Focuses, periodA, periodB, groupA, ann, bob

VARIABLE focus

-----------------------------------------------------------------------------
(* Stories.                                                                *)

\* Of the story commands, those that meet each other.
FocusCommands ==
  [delivery |-> {"createPlan", "planStatus", "createStory", "update", "note",
                 "complete", "historical"},
   execution |-> {"historical", "assign", "unassign", "record", "retest"}]

StoriesMove(part) ==
  /\ focus = part
  /\ StoryNext
  /\ \A w \in Workers :
       closing'[w] # Idle => closing'[w].command \in FocusCommands[part]
  /\ part = "delivery" => scope' <= 2
  /\ UNCHANGED <<planVars, communicationVars, engineVars, focus>>

-----------------------------------------------------------------------------
(* Materialisation.                                                        *)

MCDays == 1 .. 2

Entry(group, hours, window) ==
  [group |-> group, hours |-> hours, window |-> window]

Simple(slots, hours, window) ==
  [slots |-> slots, entries |-> [k \in {Line} |-> Entry(None, hours, window)]]

\* Without and with periods: cumulative ones, and alternatives.
MCDefinitions ==
  {Simple(1, 10, {1, 2}), Simple(1, 12, {1, 2}), Simple(2, 15, {1, 2})}
  \cup {[slots |-> 2,
         entries |-> [k \in {periodA} |-> Entry(None, 17, window)]] :
          window \in {{1}, {1, 2}}}
  \cup {[slots |-> 1,
         entries |-> [k \in {periodA, periodB} |->
                     Entry(groupA, 10, IF k = periodA THEN {1} ELSE {1, 2})]]}

MaterialisationMoves ==
  /\ focus = "plan"
  /\ MaterialisationNext
  /\ UNCHANGED <<storyVars, communicationVars, engineVars, focus>>

-----------------------------------------------------------------------------
(* Communications.                                                         *)

MCMessages == 1 .. 2

\* A batch has the first message; the second may be left out.
CommunicationsMove ==
  /\ focus = "messages"
  /\ CommunicationNext
  /\ \A w \in Workers :
       sender'[w].command = "prepare" => 1 \in sender'[w].included
  /\ UNCHANGED <<storyVars, planVars, engineVars, focus>>

-----------------------------------------------------------------------------
(* Rebuilds.  Hours are counted in ten thousandths, as the engine rounds.  *)

MCHorizon == 1 .. 4

MCCalendars ==
  LET always(worked, away, holidays) ==
        [p \in {ann, bob} |->
           [employed |-> 1 .. 4, worked |-> worked, vacation |-> away,
            holidays |-> holidays, daily |-> 800]]
  IN  {always(1 .. 3, {}, {}), always(1 .. 4, {2}, {3})}

Work(hours, fixed, overtime, target, profile, to) ==
  [person |-> ann, closed |-> FALSE, from |-> 1, to |-> to, hours |-> hours,
   fixed |-> fixed, rank |-> 2, overtime |-> overtime, target |-> target,
   profile |-> profile]

\* A fixed segment has no target.
MCFirst ==
  {Work(hours, FALSE, FALSE, target, profile, 4) :
     hours \in {1000, 1900}, target \in 0 .. 2, profile \in Profiles}
  \cup {Work(hours, TRUE, FALSE, 0, profile, 4) :
          hours \in {1000, 1900}, profile \in Profiles}

MCSecond ==
  {Work(hours, FALSE, overtime, 0, "UNIFORM", 3) :
     hours \in {400, 2600}, overtime \in BOOLEAN}

\* The third segment has no target person, but locked shifts.
MCLocked ==
  LET locked(s, p, d, hours) ==
        [segment |-> s, person |-> p, day |-> d, hours |-> hours,
         kind |-> "LOCKED", outside |-> FALSE]
  IN  {{}, {locked(1, ann, 1, 330), locked(1, bob, 2, 330)},
       {locked(2, ann, 1, 600)}, {locked(3, ann, 1, 500)}}

\* A hundredth of an hour, over three days.
MCLittle ==
  {[segments |-> <<Work(100, FALSE, FALSE, 0, "UNIFORM", 3)>>, shifts |-> {},
    calendar |-> calendar] : calendar \in MCCalendars}

MCSnapshots ==
  MCLittle \cup
  {[segments |-> <<one, two, [Work(400, FALSE, FALSE, 0, "UNIFORM", 4)
                                EXCEPT !.person = None]>>,
    shifts |-> locked, calendar |-> calendar] :
     one \in MCFirst, two \in MCSecond, locked \in MCLocked,
     calendar \in MCCalendars}

NoSnapshot == [segments |-> <<>>, shifts |-> {}, calendar |-> <<>>]

EngineMoves ==
  /\ focus = "engine"
  /\ EngineNext
  /\ UNCHANGED <<storyVars, planVars, communicationVars, focus>>

\* At rest in the runs of another part.
EngineRests ==
  /\ snapshot = NoSnapshot /\ stored = {} /\ result = {} /\ waiting = <<>>
  /\ lacking = 0 /\ phase = "idle"

-----------------------------------------------------------------------------
Symmetric == Permutations(Workers) \cup Permutations(Executors)
               \cup Permutations(Plans)
               \cup Permutations(Estimates) \cup Permutations(Batches)

lifecycleVars ==
  <<storyVars, planVars, communicationVars, engineVars, focus>>

LifecyclesInit ==
  /\ focus \in Focuses
  /\ StoryInit
  /\ MaterialisationInit
  /\ CommunicationInit
  /\ focus # "plan" => candidate.definition = Simple(1, 10, {1, 2})
  /\ IF focus = "engine" THEN EngineInit ELSE EngineRests

LifecyclesNext ==
  \/ StoriesMove("delivery") \/ StoriesMove("execution")
  \/ MaterialisationMoves \/ CommunicationsMove \/ EngineMoves

\* Every variable of every part has its type.
LifecyclesTypeOK ==
  /\ StoryTypeOK /\ MaterialisationTypeOK /\ CommunicationTypeOK
  /\ focus = "engine" => EngineTypeOK

LifecyclesSpec == LifecyclesInit /\ [][LifecyclesNext]_lifecycleVars
=============================================================================
