------------------------- MODULE PlanMaterialisation -------------------------
(***************************************************************************)
(* How an approved request becomes requirements of the plan (ADR-002 to    *)
(* ADR-004), and how the plan follows its approved revision afterwards.    *)
(*                                                                         *)
(* Three definitions live side by side: the candidate that is edited, the  *)
(* immutable revision that was approved last, and the requirements that    *)
(* are planned.  Approving prepares the candidate, checks it against the   *)
(* locked shifts, reconciles the requirements with it and activates a new  *)
(* revision.  An operational choice prepares the revision again, with the  *)
(* choices made since, and reconciles in the same way.                     *)
(*                                                                         *)
(* One request with one workforce line.  Each command runs under the       *)
(* planning version, hence one at a time.  Soumise stands for every status *)
(* in which the request waits for an approval (RequestApproval has them).  *)
(* Confirmations, proposed technicians and descriptions are left out, and  *)
(* so are window overrides (ShiftPlan) and assets (AssetReservation).  A    *)
(* requirement that a PATCH cancels alone is in ShiftPlan too.             *)
(***************************************************************************)
EXTENDS Records

CONSTANTS
  Periods,       \* keys a detailed period may have
  Days,
  Definitions,   \* candidates that a client may write
  LineModes,     \* which kinds of request: TRUE with RequestLine identities
  ShiftHours,    \* hours of a locked shift
  MaxRevisions, MaxEdits, MaxNeeds  \* bounds

Line == "line"  \* the entry of a line without detailed periods
EntryKeys == Periods \cup {Line}

VARIABLES
  lineMode,   \* WorkforceRequest.line_mode
  candidate,  \* what is edited, with the generation of its period rows
  standing,   \* status of the request
  revision,   \* active approved revision, or None
  choices,    \* RequestOperationalState of the revision, or None
  needs       \* ResourceRequirements in order of creation, None if cancelled

planVars == <<lineMode, candidate, standing, revision, choices, needs>>

\* What a client may write: finitely many entries, of which only those of
\* periods are alternatives of a group.
Definition(def) ==
  /\ def.slots \in Nat \ {0}
  /\ IsFiniteSet(DOMAIN def.entries) /\ DOMAIN def.entries \subseteq EntryKeys
  /\ \A k \in DOMAIN def.entries :
       /\ def.entries[k].hours \in Nat /\ def.entries[k].window \subseteq Days
       /\ k = Line => def.entries[k].group = None

Hours(def) == {def.entries[k].hours : k \in DOMAIN def.entries}
AllHours == UNION {Hours(def) : def \in Definitions}
Need == [key: EntryKeys,
         generation: 0 .. MaxEdits,  \* of the period row it is linked to
         hours: Nat, window: SUBSET Days, assigned: BOOLEAN,
         done: BOOLEAN,            \* status Termine
         locked: SUBSET Days, revision: 1 .. MaxRevisions]

Candidate == [definition: Definitions, generation: 1 .. MaxEdits,
              selected: Periods \cup {None}]
Revision == [number: 1 .. MaxRevisions, definition: Definitions,
             generation: 1 .. MaxEdits]
ChoiceRow == [selected: Periods \cup {None},
            budget: [EntryKeys -> AllHours \cup {None}]]

ASSUME MaterialisationAssumption ==
  /\ \A def \in Definitions : Definition(def)
  /\ LineModes \subseteq BOOLEAN /\ ShiftHours \in Nat
  /\ MaxEdits \in Nat \ {0} /\ MaxRevisions \in Nat \ {0}
  /\ Line \notin Periods
  /\ None \notin Need \cup Revision \cup ChoiceRow

MaterialisationTypeOK ==
  /\ lineMode \in LineModes
  /\ candidate \in Candidate
  /\ standing \in {"Soumise", "En planification", "Annulee"}
  /\ revision \in Revision \cup {None} /\ choices \in ChoiceRow \cup {None}
  /\ revision # None => choices # None
  /\ needs \in Seq(Need \cup {None})

Current == {n \in DOMAIN needs : needs[n] # None}
Grouped(def) == {k \in DOMAIN def.entries : def.entries[k].group # None}

-----------------------------------------------------------------------------
(* Preparation.                                                            *)

\* Entries that are planned: an alternative only once it is selected.
Effective(def, selected) ==
  {k \in DOMAIN def.entries : k \in Grouped(def) => k = selected}

SlotCount(def, k) == IF lineMode /\ k = Line THEN 1 ELSE def.slots

Wanted(plan) ==
  {slot \in Effective(plan.definition, plan.selected)
               \X (1 .. plan.definition.slots) :
     slot[2] <= SlotCount(plan.definition, slot[1])}

\* Every slot gets the same share; the first ones take what remains.
Split(total, count, i) ==
  total \div count + IF i <= total % count THEN 1 ELSE 0

Prepared(plan, slot) ==
  LET entry == plan.definition.entries[slot[1]]
      total == IF plan.budget[slot[1]] # None
               THEN plan.budget[slot[1]] ELSE entry.hours
  IN
  [key |-> slot[1], window |-> entry.window,
   generation |-> IF slot[1] = Line THEN 0 ELSE plan.generation,
   hours |-> Split(total, SlotCount(plan.definition, slot[1]), slot[2])]

NoBudget == [k \in EntryKeys |-> None]

CandidatePlan(c) ==
  [definition |-> c.definition, generation |-> c.generation,
   selected |-> c.selected, budget |-> NoBudget]

\* prepare_active: the revision, with the choices made since.
RevisionPlan(r, made) ==
  [definition |-> r.definition, generation |-> r.generation,
   selected |-> made.selected, budget |-> made.budget]

-----------------------------------------------------------------------------
(* Reconciliation with the current requirements.                           *)

\* Assigned requirements come first, then the oldest.
Before(m, n) ==
  \/ needs[m].assigned /\ ~needs[n].assigned
  \/ needs[m].assigned = needs[n].assigned /\ m < n

Position(n, pool) == 1 + Cardinality({m \in pool : Before(m, n)})

MatchedIn(pool) ==
  [n \in pool |-> <<needs[n].key,
     Position(n, {m \in pool : needs[m].key = needs[n].key})>>]

\* match_current pairs requirements with slots by the key of their period.
Matched == MatchedIn(Current)

\* A request without lines pairs by the period row, which every replacement
\* of the periods renews, or pairs everything when it has no periods.
LegacyMatched(plan) ==
  IF Line \in DOMAIN plan.definition.entries
  THEN [n \in Current |-> <<Line, Position(n, Current)>>]
  ELSE MatchedIn({n \in Current : /\ needs[n].key # Line
                                  /\ needs[n].generation = plan.generation})

LocksAllow_KeptOnly(plan) ==
  \A n \in Current : Matched[n] \in Wanted(plan) =>
    needs[n].locked \subseteq Prepared(plan, Matched[n]).window

\* locked_conflicts: a requirement with locked shifts is kept, and the new
\* window and hours have room for them.
LocksAllow(plan) ==
  \A n \in Current : needs[n].locked # {} =>
    /\ Matched[n] \in Wanted(plan)
    /\ LET spec == Prepared(plan, Matched[n]) IN
       /\ needs[n].locked \subseteq spec.window
       /\ ShiftHours * Cardinality(needs[n].locked) <= spec.hours

\* Slots in an order in which their requirements may be created.
CreationOrder(slots) ==
  CHOOSE order \in [1 .. Cardinality(slots) -> slots] :
    \A a, b \in DOMAIN order :
      /\ order[a] = order[b] => a = b
      /\ order[a][1] = order[b][1] => (order[a][2] < order[b][2] <=> a < b)

\* The periods of a request without lines are planned again when approved.
StaysDone(plan, n, number) ==
  /\ needs[n].done
  /\ number # needs[n].revision /\ needs[n].assigned
       => lineMode \/ Line \in DOMAIN plan.definition.entries

\* What no slot wants is cancelled, with its shifts once the plan is
\* rebuilt; what is missing is created.
Reconciled(plan, match, number) ==
  LET kept == {n \in DOMAIN match : match[n] \in Wanted(plan)}
      missing == CreationOrder(Wanted(plan) \ {match[n] : n \in kept})
      row(slot, assigned, done, locked) ==
        LET spec == Prepared(plan, slot) IN
        [key |-> spec.key, generation |-> spec.generation,
         hours |-> spec.hours, window |-> spec.window,
         assigned |-> assigned, done |-> done, locked |-> locked,
         revision |-> number]
  IN [n \in DOMAIN needs |->
        IF n \in kept
        THEN row(match[n], needs[n].assigned, StaysDone(plan, n, number),
                 needs[n].locked)
        ELSE None]
     \o [i \in DOMAIN missing |-> row(missing[i], FALSE, FALSE, {})]

\* bind_materialized_requirements refuses a requirement whose period is not
\* an entry of the revision: a simple request keeps the link of its rows.
Bindable(plan, match) ==
  \A n \in DOMAIN match : match[n] \in Wanted(plan) =>
    needs[n].key = match[n][1]

-----------------------------------------------------------------------------
(* Approval.                                                               *)

InitialChoices_KeepsBudget(selected) ==
  [selected |-> selected,
   budget |-> IF choices = None THEN NoBudget ELSE choices.budget]

InitialChoices(selected) == [selected |-> selected, budget |-> NoBudget]

\* sync_approved: prepare, check the locks, reconcile, bind, activate.
Materialises(c) ==
  LET plan == CandidatePlan(c)
      match == IF lineMode THEN Matched ELSE LegacyMatched(plan)
      number == IF revision = None THEN 1 ELSE revision.number + 1
  IN
  /\ number <= MaxRevisions
  /\ LocksAllow(plan)
  /\ Bindable(plan, match)
  /\ needs' = Reconciled(plan, match, number)
  /\ Len(needs') <= MaxNeeds
  /\ revision' = [number |-> number, definition |-> c.definition,
                  generation |-> c.generation]
  /\ choices' = InitialChoices(c.selected)
  /\ standing' = "En planification"

Approve ==
  /\ standing = "Soumise"
  /\ Materialises(candidate)
  /\ UNCHANGED <<lineMode, candidate>>

-----------------------------------------------------------------------------
(* The candidate.                                                          *)

\* A project manager may raise the hours of an entry by a fifth.
WithinTolerance(approved, hours, role) ==
  /\ role = "PROJECT_MANAGER"
  /\ approved < hours /\ hours * 100 <= approved * 120

\* compare_approval_envelopes
NeedsApproval(approved, def, role) ==
  \/ DOMAIN approved.entries # DOMAIN def.entries
  \/ approved.slots # def.slots
  \/ \E k \in DOMAIN approved.entries \cap DOMAIN def.entries :
       LET was == approved.entries[k]
           is == def.entries[k]
       IN \/ was.group # is.group \/ was.window # is.window
          \/ was.hours # is.hours /\ ~WithinTolerance(was.hours, is.hours, role)

\* replace_for_demand makes new rows for all periods and forgets the
\* selections; the number of slots changes with the line alone.
Edited(def) ==
  IF def.entries = candidate.definition.entries
  THEN [candidate EXCEPT !.definition = def]
  ELSE IF Line \in DOMAIN def.entries \cap DOMAIN candidate.definition.entries
  THEN [candidate EXCEPT !.definition = def]
  ELSE [definition |-> def, selected |-> None,
        generation |-> candidate.generation + 1]

\* extend_window changes a period row in place.
Extended(k) ==
  [candidate EXCEPT !.definition.entries[k].window = Days]

Edits ==
  {Edited(def) : def \in {d \in Definitions \ {candidate.definition} :
      \/ d.slots = candidate.definition.slots
      \/ d.entries = candidate.definition.entries}}
  \cup {Extended(k) : k \in DOMAIN candidate.definition.entries}

Writable(c) ==
  /\ c # candidate
  /\ c.definition \in Definitions /\ c.generation <= MaxEdits

\* sync_operational_choices with new choices.
Resynchronises(made) ==
  LET plan == RevisionPlan(revision, made) IN
  /\ LocksAllow(plan)
  /\ choices' = made
  /\ needs' = Reconciled(plan, Matched, revision.number)
  /\ Len(needs') <= MaxNeeds

EditWaiting ==
  /\ standing = "Soumise"
  /\ candidate' \in {c \in Edits : Writable(c)}
  /\ UNCHANGED <<lineMode, standing, revision, choices, needs>>

\* A candidate outside the envelope waits, or is approved at once when its
\* author may.  The plan keeps the approved revision until then.
EditBeyondEnvelope(role) ==
  /\ standing = "En planification"
  /\ \E c \in Edits :
       /\ Writable(c)
       /\ NeedsApproval(revision.definition, c.definition, role)
       /\ candidate' = c
       /\ \/ /\ standing' = "Soumise"
             /\ UNCHANGED <<revision, choices, needs>>
          \/ role # "PROJECT_MANAGER" /\ Materialises(c)
  /\ UNCHANGED lineMode

\* Within it the hours raised become budgets of the active revision.
EditWithinEnvelope(role) ==
  /\ standing = "En planification"
  /\ \E c \in Edits :
       LET raised == {k \in DOMAIN c.definition.entries :
             c.definition.entries[k].hours
               # revision.definition.entries[k].hours}
       IN
       /\ Writable(c)
       /\ ~NeedsApproval(revision.definition, c.definition, role)
       /\ candidate' = c
       /\ IF raised = {} THEN UNCHANGED <<choices, needs>>
          ELSE Resynchronises([choices EXCEPT !.budget =
                 [k \in EntryKeys |-> IF k \in raised
                    THEN c.definition.entries[k].hours
                    ELSE choices.budget[k]]])
  /\ UNCHANGED <<lineMode, standing, revision>>

SelectCandidate ==
  /\ standing = "Soumise"
  /\ \E k \in Grouped(candidate.definition) \ {candidate.selected} :
       candidate' = [candidate EXCEPT !.selected = k]
  /\ UNCHANGED <<lineMode, standing, revision, choices, needs>>

-----------------------------------------------------------------------------
(* Operations on the plan.                                                 *)

\* Allowed against the active revision while a candidate waits.
SelectOperational ==
  /\ standing # "Annulee" /\ revision # None
  /\ \E k \in Grouped(revision.definition) \ {choices.selected} :
       Resynchronises([choices EXCEPT !.selected = k])
  /\ UNCHANGED <<lineMode, candidate, standing, revision>>

SetConfirmation ==
  /\ standing # "Annulee" /\ revision # None
  /\ Resynchronises(choices)
  /\ UNCHANGED <<lineMode, candidate, standing, revision>>

ChangesNeed(n, need) ==
  /\ needs' = [needs EXCEPT ![n] = need]
  /\ UNCHANGED <<lineMode, candidate, standing, revision, choices>>

Assign(n) ==
  \E to \in BOOLEAN \ {needs[n].assigned} :
    ChangesNeed(n, [needs[n] EXCEPT !.assigned = to])

LockShift(n) ==
  /\ ~needs[n].done
  /\ \E day \in needs[n].window \ needs[n].locked :
       ChangesNeed(n, [needs[n] EXCEPT !.locked = @ \cup {day}])

ReleaseShift(n) ==
  \E day \in needs[n].locked :
    ChangesNeed(n, [needs[n] EXCEPT !.locked = @ \ {day}])

\* PATCH of the status; the rebuild removes the shifts of what is done.
SetDone(n) ==
  \/ /\ ~needs[n].done
     /\ ChangesNeed(n, [needs[n] EXCEPT !.done = TRUE, !.locked = {}])
  \/ needs[n].done /\ ChangesNeed(n, [needs[n] EXCEPT !.done = FALSE])

\* cancel_materialized leaves what is done.
CancelMaterialised ==
  /\ standing # "Annulee"
  /\ \A n \in Current : needs[n].done \/ needs[n].locked = {}
  /\ standing' = "Annulee"
  /\ needs' = [n \in DOMAIN needs |->
       IF n \in Current /\ needs[n].done THEN needs[n] ELSE None]
  /\ UNCHANGED <<lineMode, candidate, revision, choices>>

-----------------------------------------------------------------------------
MaterialisationInit ==
  /\ lineMode \in LineModes
  /\ \E def \in Definitions :
       candidate = [definition |-> def, selected |-> None, generation |-> 1]
  /\ standing = "Soumise"
  /\ revision = None /\ choices = None
  /\ needs = <<>>

MaterialisationNext ==
  \/ Approve \/ EditWaiting \/ SelectCandidate
  \/ \E role \in {"PROJECT_MANAGER", "COORDINATOR"} :
       EditBeyondEnvelope(role) \/ EditWithinEnvelope(role)
  \/ SelectOperational \/ SetConfirmation
  \/ \E n \in Current :
       Assign(n) \/ LockShift(n) \/ ReleaseShift(n) \/ SetDone(n)
  \/ CancelMaterialised

MaterialisationSpec ==
  MaterialisationInit /\ [][MaterialisationNext]_planVars

-----------------------------------------------------------------------------
(* What is planned is what was approved, with the choices made since: each *)
(* effective entry has its slots, with its hours, in its window, and is    *)
(* bound to the active revision; no other requirement is left.  It holds   *)
(* while a candidate is edited, waits, or is refused.                      *)
PlanIsAuthorised ==
  standing # "Annulee" /\ revision # None =>
    LET plan == RevisionPlan(revision, choices)
        rows(k) == {n \in Current : needs[n].key = k}
        hours(k, i) == Cardinality({n \in rows(k) :
                         needs[n].hours = Prepared(plan, <<k, i>>).hours})
    IN
    /\ \A k \in Effective(plan.definition, plan.selected) :
         /\ Cardinality(rows(k)) = SlotCount(plan.definition, k)
         /\ \A i \in 1 .. SlotCount(plan.definition, k) :
              /\ hours(k, i) > 0
              /\ \A n \in rows(k) :
                   needs[n].window = Prepared(plan, <<k, i>>).window
    /\ \A n \in Current :
         /\ needs[n].key \in Effective(plan.definition, plan.selected)
         /\ needs[n].revision = revision.number

(* No approval, choice or cancellation takes a locked shift away: its      *)
(* requirement stays, and its day stays within the window (ADR-004: locked *)
(* shifts are protected before every synchronisation, the historical ones  *)
(* included).                                                              *)
LockedShiftsSurvive ==
  [][\A n \in Current :
       IF needs'[n] = None THEN needs[n].locked = {}
       ELSE needs[n].locked \cap needs'[n].locked
              \subseteq needs'[n].window]_planVars
=============================================================================
