-------------------------- MODULE AssetReservation --------------------------
(***************************************************************************)
(* Reservable assets: the needs that ask for one, of five origins, the     *)
(* physical reservation of each need, and the shifts and segments they     *)
(* belong to.                                                              *)
(*                                                                         *)
(* Every command of the asset service and every manual shift command       *)
(* acquires the planning version before it reads anything else, so that    *)
(* one of them is one action.  A PATCH of a segment does not: it reads the *)
(* reservations of the segment, writes the segment, and acquires the       *)
(* version only in the rebuild that ends it.  It is two actions, which     *)
(* follow each other at once when Overlapping is FALSE.                    *)
(*                                                                         *)
(* The planner is assumed to hold the authority over the assets they name  *)
(* (ApprovalScopes says who does).                                         *)
(***************************************************************************)
EXTENDS PlanningDays

CONSTANTS
  Assets, AssetTypes,
  Skills,
  Projects,
  Segments,
  RequestSegments,   \* segments materialised from the workforce request
  Shifts, Needs,     \* identifiers of rows
  Request,           \* the request that owns REQUEST needs
  FirstTypes, FirstSkills, FirstSegments,  \* catalogue and plan at the start
  Overlapping,       \* whether a PATCH overlaps other commands
  MaxCommands        \* bound on the changes

Origins == {"REQUEST", "SHIFT_AD_HOC", "PROJECT_DIRECT", "SEGMENT",
            "RESOURCE_PERIOD"}

VARIABLES
  assetType, activeAssets, activeTypes,
  required,       \* skills an operator of each asset type must have
  skills, activeResources,
  absences,       \* periods when an asset is unavailable
  needs,          \* AssetRequirement rows with their AssetAllocation
  approvedLine,   \* ASSET entry of the active approved revision
  shifts, segments,
  patch,          \* the PATCH that has passed its checks
  commands        \* changes so far, most of which advance the planning version

catalogueVars == <<assetType, activeAssets, activeTypes, required, skills,
                   activeResources, absences>>
boardVars == <<needs, approvedLine, shifts, segments, patch>>
assetVars == <<catalogueVars, boardVars, commands>>

Booking == [asset: Assets, operator: Resources \cup {None}, span: Span]

Owner == {Request} \cup Shifts \cup Projects \cup Segments \cup Resources
Need == [origin: Origins, owner: Owner, project: Projects \cup {None},
         type: AssetTypes, span: Span, booking: Booking \cup {None}]

Line == [type: AssetTypes, span: Span]
Shift == [segment: Segments, day: Days, resource: Resources,
          source: {"AUTO", "MANUAL"}, locked: BOOLEAN]
Segment == [project: Projects, span: Span, resource: Resources,
            status: {"open", "done", "cancelled"}]

Patch == [segment: Segments, to: Segment]

ASSUME AssetsAssumption ==
  /\ Days \subseteq Int /\ MaxCommands \in Nat
  /\ None \notin Projects \cup Booking \cup Need \cup Line \cup Shift \cup Patch
  /\ FirstTypes \in [Assets -> AssetTypes]
  /\ FirstSkills \in [Resources -> SUBSET Skills]
  /\ FirstSegments \in [Segments -> Segment]

AssetTypeOK ==
  /\ assetType \in [Assets -> AssetTypes]
  /\ activeAssets \subseteq Assets /\ activeTypes \subseteq AssetTypes
  /\ required \in [AssetTypes -> SUBSET Skills]
  /\ skills \in [Resources -> SUBSET Skills]
  /\ activeResources \subseteq Resources
  /\ absences \subseteq Assets \X Span
  /\ needs \in [Needs -> Need \cup {None}]
  /\ approvedLine \in Line \cup {None}
  /\ shifts \in [Shifts -> Shift \cup {None}]
  /\ segments \in [Segments -> Segment]
  /\ patch \in Patch \cup {None}
  /\ commands \in 0 .. MaxCommands

Booked == {n \in Needs : needs[n] # None /\ needs[n].booking # None}
NeedsOf(origin, owner) ==
  {n \in Needs : needs[n] # None /\ needs[n].origin = origin
                                 /\ needs[n].owner = owner}
Free == {n \in Needs : needs[n] = None}

\* Guards shared by the commands that acquire the planning version; while a
\* PATCH is between its checks and its write, no other command of the same
\* serial execution runs.
Command ==
  /\ commands < MaxCommands
  /\ Overlapping \/ patch = None
  /\ commands' = commands + 1

-----------------------------------------------------------------------------
(* Availability and qualification.                                         *)

ActiveAsset(a) == a \in activeAssets /\ assetType[a] \in activeTypes

Available_OtherStart(a, span, self) ==
  /\ \A n \in Booked \ self :
       needs[n].booking.asset = a => needs[n].booking.span[1] # span[1]
  /\ \A absence \in absences :
       absence[1] = a => Disjoint(absence[2], span)

Available(a, span, self) ==
  /\ \A n \in Booked \ self :
       needs[n].booking.asset = a => Disjoint(needs[n].booking.span, span)
  /\ \A absence \in absences :
       absence[1] = a => Disjoint(absence[2], span)

\* A shift of the operator that the reservation may serve.
ServedShift(need, booking, q, board) ==
  LET shift == board[q] IN
    /\ shift # None
    /\ shift.resource = booking.operator
    /\ Includes(booking.span, shift.day)
    /\ segments[shift.segment].project = need.project
    /\ segments[shift.segment].status # "cancelled"

HasCompatibleAssignment(need, booking, board) ==
  CASE need.origin = "SHIFT_AD_HOC" ->
         ServedShift(need, booking, need.owner, board)
    [] need.origin = "REQUEST" ->
         \E q \in Shifts : /\ ServedShift(need, booking, q, board)
                           /\ board[q].segment \in RequestSegments
    [] need.origin = "RESOURCE_PERIOD" -> need.owner = booking.operator
    [] need.origin = "SEGMENT" ->
         /\ segments[need.owner].status # "cancelled"
         /\ segments[need.owner].project = need.project
    [] OTHER -> need.project # None

Qualification(need, booking, board) ==
  IF booking.operator = None
  THEN IF required[need.type] = {} THEN "SATISFIED" ELSE "MISSING_OPERATOR"
  ELSE IF \/ booking.operator \notin activeResources
          \/ ~ (required[need.type] \subseteq skills[booking.operator])
       THEN "SKILL_MISMATCH"
       ELSE IF HasCompatibleAssignment(need, booking, board)
            THEN "SATISFIED" ELSE "NO_OVERLAP"

\* An operator is optional, but when there is one it must be qualified.
OperatorAccepted(need, booking, board) ==
  booking.operator # None => Qualification(need, booking, board) = "SATISFIED"

\* What REQUEST, direct and segment reservations all check.
Bookable(need, booking, self) ==
  /\ ActiveAsset(booking.asset)
  /\ assetType[booking.asset] = need.type
  /\ Available(booking.asset, booking.span, self)
  /\ OperatorAccepted(need, booking, shifts)

\* The need still is what the active revision approved.
RequestAuthority(need) ==
  /\ need.origin = "REQUEST"
  /\ approvedLine # None
  /\ approvedLine.type = need.type
  /\ Covers(approvedLine.span, need.span)

RequestBookable(need, booking, self) ==
  /\ RequestAuthority(need)
  /\ Covers(need.span, booking.span)
  /\ Bookable(need, booking, self)

DirectBookable(need, booking, self) ==
  /\ need.origin = "RESOURCE_PERIOD" =>
       booking.operator = need.owner
  /\ Bookable(need, booking, self)

SegmentBookable(need, booking, self) ==
  /\ segments[need.owner].status # "cancelled"
  /\ need.project = segments[need.owner].project
  /\ Covers(segments[need.owner].span, booking.span)
  /\ booking.operator \in activeResources \cup {None}
  /\ Bookable(need, booking, self)

\* Releasing removes a need with its reservation, except a REQUEST need, which
\* waits for another one.
WithoutReservation(n) ==
  IF needs[n].origin = "REQUEST" THEN [needs[n] EXCEPT !.booking = None]
  ELSE None

Book(n, need, booking) ==
  needs' = [needs EXCEPT ![n] = [need EXCEPT !.booking = booking]]

-----------------------------------------------------------------------------
(* Rebuild: unlocked shifts go, and so do the locked ones of a segment that *)
(* is no longer open; the engine writes AUTO shifts.  A shift that owns a   *)
(* need cannot be deleted: the foreign key refuses it.                     *)

Kept(board, segs) ==
  {q \in Shifts : /\ board[q] # None /\ board[q].locked
                  /\ segs[board[q].segment].status = "open"}

AutoShift(segs, g) ==
  [segment: {g}, day: {d \in Days : Includes(segs[g].span, d)},
   resource: {segs[g].resource}, source: {"AUTO"}, locked: {FALSE}]

\* Boards a rebuild may leave: at most one AUTO shift, anywhere the engine
\* may place it.
Rebuilt(board, segs) ==
  LET kept == [q \in Shifts |->
                 IF q \in Kept(board, segs) THEN board[q] ELSE None]
      open == {g \in Segments : segs[g].status = "open"}
  IN  {kept} \cup
      {[kept EXCEPT ![q] = s] :
         q \in {q \in Shifts : kept[q] = None},
         s \in UNION {AutoShift(segs, g) : g \in open}}

\* The rebuild and its foreign keys, after board and segs were written.
Rebuild(board, segs, rows) ==
  /\ \A n \in Needs :
       rows[n] # None /\ rows[n].origin = "SHIFT_AD_HOC" =>
         rows[n].owner \in Kept(board, segs)
  /\ shifts' \in Rebuilt(board, segs)

-----------------------------------------------------------------------------
(* Reservations for an approved request.                                   *)

NewRequestNeed(line, project) ==
  [origin |-> "REQUEST", owner |-> Request, project |-> project,
   type |-> line.type, span |-> line.span, booking |-> None]

CompatibleWithLine_TypeOnly(n, line) ==
  needs[n].booking # None =>
    line # None /\ assetType[needs[n].booking.asset] = line.type

\* A new active revision with another ASSET entry, or with none.
CompatibleWithLine(n, line) ==
  needs[n].booking # None =>
    /\ line # None
    /\ assetType[needs[n].booking.asset] = line.type
    /\ Covers(line.span, needs[n].booking.span)

SyncRequestNeeds(line) ==
  LET rows == NeedsOf("REQUEST", Request) IN
  /\ Command
  /\ line # approvedLine
  /\ line # None => line.type \in activeTypes
  /\ \A n \in rows : CompatibleWithLine(n, line)
  /\ approvedLine' = line
  /\ \/ /\ line = None
        /\ needs' = [n \in Needs |-> IF n \in rows THEN None ELSE needs[n]]
     \/ /\ line # None /\ rows # {}
        /\ needs' = [n \in Needs |-> IF n \in rows
                       THEN [needs[n] EXCEPT !.type = line.type,
                                             !.span = line.span]
                       ELSE needs[n]]
     \/ /\ line # None /\ rows = {}
        /\ \E n \in Free, p \in Projects :
             needs' = [needs EXCEPT ![n] = NewRequestNeed(line, p)]
  /\ UNCHANGED <<catalogueVars, shifts, segments, patch>>

\* Dates left out keep those of the reservation.
Reserve(n, a, span) ==
  LET need == needs[n]
      booking == [asset |-> a, span |-> span,
                  operator |-> IF need.booking = None THEN None
                               ELSE need.booking.operator]
  IN /\ Command
     /\ need # None
     /\ RequestBookable(need, booking, {n})
     /\ Book(n, need, booking)
     /\ UNCHANGED <<catalogueVars, approvedLine, shifts, segments, patch>>

ReleaseRequest(n) ==
  /\ Command
  /\ needs[n] # None /\ RequestAuthority(needs[n])
  /\ needs' = [needs EXCEPT ![n] = WithoutReservation(n)]
  /\ UNCHANGED <<catalogueVars, approvedLine, shifts, segments, patch>>

SetOperator(n, operator) ==
  LET need == needs[n] IN
  /\ Command
  /\ need # None /\ need.booking # None
  /\ RequestBookable(need, [need.booking EXCEPT !.operator = operator], {n})
  /\ Book(n, need, [need.booking EXCEPT !.operator = operator])
  /\ UNCHANGED <<catalogueVars, approvedLine, shifts, segments, patch>>

-----------------------------------------------------------------------------
(* Assets attached to a shift.                                             *)

AdHocNeeds(q) == NeedsOf("SHIFT_AD_HOC", q)
ShiftContext(q) ==
  shifts[q] # None /\ segments[shifts[q].segment].status # "cancelled"

AppliesToShift(n, q) ==
  /\ needs[n] # None /\ needs[n].origin = "REQUEST"
  /\ shifts[q].segment \in RequestSegments
  /\ needs[n].project = segments[shifts[q].segment].project
  /\ Includes(needs[n].span, shifts[q].day)

\* The ad hoc need of the shift first, then the REQUEST need that applies,
\* unless the caller names one; {} when a new ad hoc need is created.
ResolvedNeed(q, a) ==
  IF AdHocNeeds(q) # {} THEN AdHocNeeds(q)
  ELSE {n \in Needs : AppliesToShift(n, q) /\ needs[n].type = assetType[a]}

ResolvedForRelease(q) ==
  IF AdHocNeeds(q) # {} THEN AdHocNeeds(q)
  ELSE {n \in Needs : /\ AppliesToShift(n, q) /\ n \in Booked
                      /\ Includes(needs[n].booking.span, shifts[q].day)}

\* An asset attached ad hoc makes the shift a locked manual decision.
Attached(shift) == [shift EXCEPT !.source = "MANUAL", !.locked = TRUE]

AssignRequestAsset(q, n, a, span) ==
  LET need == needs[n]
      operator == IF need.booking # None THEN need.booking.operator
                  ELSE IF required[need.type] # {} THEN shifts[q].resource
                  ELSE None
      booking == [asset |-> a, operator |-> operator, span |-> span]
  IN /\ Command
     /\ ShiftContext(q)
     /\ n \in ResolvedNeed(q, a) /\ need.origin = "REQUEST"
     /\ RequestBookable(need, booking, {n})
     /\ Book(n, need, booking)
     /\ UNCHANGED <<catalogueVars, approvedLine, shifts, segments, patch>>

AdHocNeed_NoEnd(q, a) ==
  [origin |-> "SHIFT_AD_HOC", owner |-> q, type |-> assetType[a],
   project |-> segments[shifts[q].segment].project,
   span |-> <<shifts[q].day>>, booking |-> None]

AdHocNeed(q, a) ==
  [origin |-> "SHIFT_AD_HOC", owner |-> q, type |-> assetType[a],
   project |-> segments[shifts[q].segment].project,
   span |-> On(shifts[q].day), booking |-> None]

AssignAdHocAsset(q, a) ==
  /\ Command
  /\ ShiftContext(q) /\ ActiveAsset(a)
  /\ \E n \in Needs :
       LET new == AdHocNeed(q, a)
           need == IF needs[n] = None THEN new
                   ELSE [needs[n] EXCEPT !.type = new.type,
                                         !.span = new.span]
           booking == [asset |-> a, operator |-> shifts[q].resource,
                       span |-> On(shifts[q].day)]
       IN /\ \/ n \in AdHocNeeds(q)
             \/ n \in Free /\ ResolvedNeed(q, a) = {}
          /\ Available(a, booking.span, {n})
          /\ Qualification(need, booking, shifts) = "SATISFIED"
          /\ Book(n, need, booking)
  /\ shifts' = [shifts EXCEPT ![q] = Attached(@)]
  /\ UNCHANGED <<catalogueVars, approvedLine, segments, patch>>

\* An ad hoc need goes with its reservation, a REQUEST need stays unbooked.
ReleaseShiftAsset(q) ==
  /\ Command
  /\ ShiftContext(q)
  /\ \E n \in ResolvedForRelease(q) :
       /\ n \in Booked
       /\ needs' = [needs EXCEPT ![n] = WithoutReservation(n)]
       /\ \/ /\ needs[n].origin = "SHIFT_AD_HOC"
             /\ shifts' = [shifts EXCEPT ![q] = Attached(@)]
          \/ /\ needs[n].origin = "REQUEST" /\ RequestAuthority(needs[n])
             /\ UNCHANGED shifts
  /\ UNCHANGED <<catalogueVars, approvedLine, segments, patch>>

\* The resource of the shift becomes the operator of a project reservation.
Designable(q, n) ==
  LET need == needs[n] IN
  /\ ShiftContext(q)
  /\ n \in Booked /\ need.origin = "PROJECT_DIRECT"
  /\ need.owner = segments[shifts[q].segment].project
  /\ Includes(need.booking.span, shifts[q].day)
  /\ AdHocNeeds(q) = {}
  /\ need.booking.operator = None
  /\ DirectBookable(need,
       [need.booking EXCEPT !.operator = shifts[q].resource], {n})

DesignateProjectOperator(q, n) ==
  /\ Command
  /\ Designable(q, n)
  /\ Book(n, needs[n],
          [needs[n].booking EXCEPT !.operator = shifts[q].resource])
  /\ UNCHANGED <<catalogueVars, approvedLine, shifts, segments, patch>>

\* Reservations the shift dialog offers to designate its resource on, before
\* and after it looks at skills and absences.
OfferedForDesignation_AnySkill(q) ==
  {n \in Needs :
     /\ n \in Booked /\ needs[n].origin = "PROJECT_DIRECT"
     /\ needs[n].owner = segments[shifts[q].segment].project
     /\ Includes(needs[n].booking.span, shifts[q].day)
     /\ AdHocNeeds(q) = {}
     /\ needs[n].booking.operator = None
     /\ ActiveAsset(needs[n].booking.asset)}

OfferedForDesignation(q) ==
  {n \in OfferedForDesignation_AnySkill(q) :
     /\ shifts[q].resource \in activeResources
     /\ required[assetType[needs[n].booking.asset]]
          \subseteq skills[shifts[q].resource]
     /\ ~ \E absence \in absences :
            /\ absence[1] = needs[n].booking.asset
            /\ Includes(absence[2], shifts[q].day)}

-----------------------------------------------------------------------------
(* Direct and segment reservations.                                        *)

NewNeed(origin, owner, project, a, span) ==
  [origin |-> origin, owner |-> owner, project |-> project,
   type |-> assetType[a], span |-> span, booking |-> None]

CreateDirect(need, booking) ==
  /\ Command
  /\ need.origin = "RESOURCE_PERIOD" => need.owner \in activeResources
  /\ DirectBookable(need, booking, {})
  /\ \E n \in Free : Book(n, need, booking)
  /\ UNCHANGED <<catalogueVars, approvedLine, shifts, segments, patch>>

CreateDirectReservation ==
  \E a \in Assets, span \in Span, operator \in Resources \cup {None} :
    LET booking == [asset |-> a, operator |-> operator, span |-> span] IN
    \/ \E p \in Projects :
         CreateDirect(NewNeed("PROJECT_DIRECT", p, p, a, span), booking)
    \/ \E r \in Resources :
         CreateDirect(NewNeed("RESOURCE_PERIOD", r, None, a, span), booking)

UpdateDirect(n, a, span, operator) ==
  LET need == [needs[n] EXCEPT !.span = span]
      booking == [asset |-> a, span |-> span,
                  operator |-> IF need.origin = "RESOURCE_PERIOD"
                               THEN need.owner ELSE operator]
  IN /\ Command
     /\ n \in Booked
     /\ need.origin \in {"PROJECT_DIRECT", "RESOURCE_PERIOD"}
     /\ need.origin = "RESOURCE_PERIOD" => need.owner \in activeResources
     /\ DirectBookable(need, booking, {n})
     /\ Book(n, need, booking)
     /\ UNCHANGED <<catalogueVars, approvedLine, shifts, segments, patch>>

ReleaseDirect(n) ==
  /\ Command
  /\ needs[n] # None
  /\ needs[n].origin \in {"PROJECT_DIRECT", "RESOURCE_PERIOD", "SEGMENT"}
  /\ needs' = [needs EXCEPT ![n] = WithoutReservation(n)]
  /\ UNCHANGED <<catalogueVars, approvedLine, shifts, segments, patch>>

CreateSegmentReservation(g, a, span, operator) ==
  LET need == NewNeed("SEGMENT", g, segments[g].project, a, span)
      booking == [asset |-> a, operator |-> operator, span |-> span]
  IN /\ Command
     /\ SegmentBookable(need, booking, {})
     /\ \E n \in Free : Book(n, need, booking)
     /\ UNCHANGED <<catalogueVars, approvedLine, shifts, segments, patch>>

UpdateSegmentReservation(n, a, span, operator) ==
  LET need == [needs[n] EXCEPT !.span = span]
      booking == [asset |-> a, operator |-> operator, span |-> span]
  IN /\ Command
     /\ n \in Booked /\ need.origin = "SEGMENT"
     /\ SegmentBookable(need, booking, {n})
     /\ Book(n, need, booking)
     /\ UNCHANGED <<catalogueVars, approvedLine, shifts, segments, patch>>

-----------------------------------------------------------------------------
(* Shifts and segments, as far as assets depend on them.                   *)

\* The ad hoc reservation takes the date and the resource of its shift.
Synchronised(q, shift) ==
  [n \in Needs |->
     IF n \in AdHocNeeds(q)
     THEN [needs[n] EXCEPT !.span = On(shift.day),
             !.booking = [@ EXCEPT !.span = On(shift.day),
                                   !.operator = shift.resource]]
     ELSE needs[n]]

SynchronisedAccepted(q, rows, board) ==
  \A n \in AdHocNeeds(q) :
    /\ ActiveAsset(rows[n].booking.asset)
    /\ Available(rows[n].booking.asset, rows[n].booking.span, {n})
    /\ Qualification(rows[n], rows[n].booking, board) = "SATISFIED"

MoveShift(q, day, r) ==
  LET moved == [shifts[q] EXCEPT !.day = day, !.resource = r,
                                 !.source = "MANUAL", !.locked = TRUE]
      board == [shifts EXCEPT ![q] = moved]
      rows == Synchronised(q, moved)
  IN /\ Command
     /\ shifts[q] # None
     /\ segments[shifts[q].segment].status = "open"
     /\ r \in activeResources
     /\ Includes(segments[shifts[q].segment].span, day)
     /\ SynchronisedAccepted(q, rows, board)
     /\ needs' = rows
     /\ Rebuild(board, segments, rows)
     /\ UNCHANGED <<catalogueVars, approvedLine, segments, patch>>

ReleaseShift(q) ==
  /\ Command
  /\ shifts[q] # None
  /\ AdHocNeeds(q) = {}
  /\ Rebuild([shifts EXCEPT ![q].locked = FALSE], segments, needs)
  /\ UNCHANGED <<catalogueVars, needs, approvedLine, segments, patch>>

DeleteShift(q) ==
  LET rows == [n \in Needs |-> IF n \in AdHocNeeds(q) THEN None
                               ELSE needs[n]]
  IN /\ Command
     /\ shifts[q] # None
     /\ needs' = rows
     /\ Rebuild([shifts EXCEPT ![q] = None], segments, rows)
     /\ UNCHANGED <<catalogueVars, approvedLine, segments, patch>>

\* A PATCH looks at the reservations of its segment only when it changes the
\* project or the window, or cancels; 'done' (Terminé) is not looked at.
PatchCompatible(g, to) ==
  \A n \in NeedsOf("SEGMENT", g) \cap Booked :
    /\ to.status # "cancelled"
    /\ needs[n].project = to.project
    /\ Covers(to.span, needs[n].booking.span)

BeginPatch(g, to) ==
  /\ patch = None /\ commands < MaxCommands
  /\ to # segments[g]
  /\ PatchCompatible(g, to)
  /\ patch' = [segment |-> g, to |-> to]
  /\ UNCHANGED <<catalogueVars, needs, approvedLine, shifts, segments,
                 commands>>

CommitPatch ==
  /\ patch # None /\ commands < MaxCommands
  /\ commands' = commands + 1
  /\ segments' = [segments EXCEPT ![patch.segment] = patch.to]
  /\ Rebuild(shifts, segments', needs)
  /\ patch' = None
  /\ UNCHANGED <<catalogueVars, needs, approvedLine>>

\* Its rebuild failed: the transaction rolls back.
AbandonPatch ==
  /\ patch # None
  /\ patch' = None
  /\ UNCHANGED <<catalogueVars, needs, approvedLine, shifts, segments,
                 commands>>

-----------------------------------------------------------------------------
(* Catalogue.  None of these looks at the reservations, except a change of  *)
(* type, which an existing reservation blocks.                             *)

SetActive(a) ==
  /\ Command
  /\ activeAssets' = IF a \in activeAssets THEN activeAssets \ {a}
                     ELSE activeAssets \cup {a}
  /\ UNCHANGED <<assetType, activeTypes, required, skills, activeResources,
                 absences, boardVars>>

SetTypeActive(t) ==
  /\ Command
  /\ activeTypes' = IF t \in activeTypes THEN activeTypes \ {t}
                    ELSE activeTypes \cup {t}
  /\ UNCHANGED <<assetType, activeAssets, required, skills, activeResources,
                 absences, boardVars>>

TypeChangeAllowed(a, t) ==
  t \in activeTypes /\ \A n \in Booked : needs[n].booking.asset # a

ChangeAssetType(a, t) ==
  /\ Command
  /\ t # assetType[a] /\ TypeChangeAllowed(a, t)
  /\ assetType' = [assetType EXCEPT ![a] = t]
  /\ UNCHANGED <<activeAssets, activeTypes, required, skills,
                 activeResources, absences, boardVars>>

SetTypeQualification(t, s) ==
  /\ Command
  /\ required[t] # s
  /\ required' = [required EXCEPT ![t] = s]
  /\ UNCHANGED <<assetType, activeAssets, activeTypes, skills,
                 activeResources, absences, boardVars>>

\* People are administered without the planning version, whatever else is
\* under way; only the bound counts these changes.
SetResourceActive(r) ==
  /\ commands < MaxCommands /\ commands' = commands + 1
  /\ activeResources' = IF r \in activeResources THEN activeResources \ {r}
                        ELSE activeResources \cup {r}
  /\ UNCHANGED <<assetType, activeAssets, activeTypes, required, skills,
                 absences, boardVars>>

SetCompetencies(r, s) ==
  /\ commands < MaxCommands /\ commands' = commands + 1
  /\ skills[r] # s
  /\ skills' = [skills EXCEPT ![r] = s]
  /\ UNCHANGED <<assetType, activeAssets, activeTypes, required,
                 activeResources, absences, boardVars>>

AddUnavailability(a, span) ==
  /\ Command
  /\ absences' = absences \cup {<<a, span>>}
  /\ UNCHANGED <<assetType, activeAssets, activeTypes, required, skills,
                 activeResources, boardVars>>

RemoveUnavailability(absence) ==
  /\ Command
  /\ absences' = absences \ {absence}
  /\ UNCHANGED <<assetType, activeAssets, activeTypes, required, skills,
                 activeResources, boardVars>>

-----------------------------------------------------------------------------
AssetInit ==
  /\ assetType = FirstTypes
  /\ activeAssets = Assets /\ activeTypes = AssetTypes
  /\ required = [t \in AssetTypes |-> {}]
  /\ skills = FirstSkills
  /\ activeResources = Resources
  /\ absences = {}
  /\ needs = [n \in Needs |-> None]
  /\ approvedLine = None
  /\ segments = FirstSegments
  /\ shifts \in Rebuilt([q \in Shifts |-> None], segments)
  /\ patch = None
  /\ commands = 0

CatalogueNext ==
  \/ \E a \in Assets : SetActive(a)
  \/ \E t \in AssetTypes : SetTypeActive(t)
  \/ \E r \in Resources : SetResourceActive(r)
  \/ \E r \in Resources, s \in SUBSET Skills : SetCompetencies(r, s)
  \/ \E a \in Assets, t \in AssetTypes : ChangeAssetType(a, t)
  \/ \E t \in AssetTypes, s \in SUBSET Skills : SetTypeQualification(t, s)
  \/ \E a \in Assets, span \in Span : AddUnavailability(a, span)
  \/ \E absence \in absences : RemoveUnavailability(absence)

ReservationNext ==
  \/ \E line \in Line \cup {None} : SyncRequestNeeds(line)
  \/ \E n \in Needs, a \in Assets, span \in Span : Reserve(n, a, span)
  \/ \E n \in Needs : ReleaseRequest(n) \/ ReleaseDirect(n)
  \/ \E n \in Needs, r \in Resources \cup {None} : SetOperator(n, r)
  \/ \E q \in Shifts, n \in Needs, a \in Assets, span \in Span :
       AssignRequestAsset(q, n, a, span)
  \/ \E q \in Shifts, a \in Assets : AssignAdHocAsset(q, a)
  \/ \E q \in Shifts : ReleaseShiftAsset(q)
  \/ \E q \in Shifts, n \in Needs : DesignateProjectOperator(q, n)
  \/ CreateDirectReservation
  \/ \E n \in Needs, a \in Assets, span \in Span,
        r \in Resources \cup {None} :
       UpdateDirect(n, a, span, r) \/ UpdateSegmentReservation(n, a, span, r)
  \/ \E g \in Segments, a \in Assets, span \in Span,
        r \in Resources \cup {None} :
       CreateSegmentReservation(g, a, span, r)

BoardNext ==
  \/ \E q \in Shifts, day \in Days, r \in Resources : MoveShift(q, day, r)
  \/ \E q \in Shifts : ReleaseShift(q) \/ DeleteShift(q)
  \/ \E g \in Segments, to \in Segment : BeginPatch(g, to)
  \/ CommitPatch \/ AbandonPatch

AssetNext == CatalogueNext \/ ReservationNext \/ BoardNext

AssetSpec == AssetInit /\ [][AssetNext]_assetVars

-----------------------------------------------------------------------------
(* Properties.                                                             *)

\* No two reservations, whatever their origins, hold the same asset on the
\* same day: direct bookings, assignments to shifts, and moves of shifts that
\* drag their reservation along all go through one availability check.
NoDoubleBooking ==
  \A n, m \in Booked, day \in Days :
    /\ needs[n].booking.asset = needs[m].booking.asset
    /\ Includes(needs[n].booking.span, day)
    /\ Includes(needs[m].booking.span, day)
    => n = m

\* An asset attached to a shift is reserved for the day and the resource of
\* that shift, which exists and is locked: rebuilds, moves and releases of the
\* shift never leave a reservation behind.
AdHocFollowsShift ==
  \A n \in Booked : needs[n].origin = "SHIFT_AD_HOC" =>
    LET shift == shifts[needs[n].owner] IN
      /\ shift # None
      /\ shift.locked /\ shift.source = "MANUAL"
      /\ needs[n].booking.span = On(shift.day)
      /\ needs[n].booking.operator = shift.resource

\* What is reserved is of the type that was asked for, although the catalogue
\* changes types and the line its own; and a reservation for a request stays
\* within what the active revision approves, whatever revisions follow
\* (ADR-018, section 7).
BookedAsApproved ==
  \A n \in Booked :
    /\ assetType[needs[n].booking.asset] = needs[n].type
    /\ needs[n].origin = "REQUEST" =>
         /\ approvedLine # None
         /\ needs[n].type = approvedLine.type
         /\ Covers(approvedLine.span, needs[n].booking.span)

\* A segment reservation stays within the window of a segment that is not
\* cancelled and belongs to the project of the reservation (ADR-018, section 6).
BookedWithinSegment ==
  \A n \in Booked : needs[n].origin = "SEGMENT" =>
    LET g == segments[needs[n].owner] IN
      /\ g.status # "cancelled"
      /\ g.project = needs[n].project
      /\ Covers(g.span, needs[n].booking.span)

\* What is booked follows what it was booked for, through the commands of the
\* catalogue, the board, the segments and the approvals, each of which carries
\* the reservation along or is refused.
BookingFollowsOwner ==
  AdHocFollowsShift /\ BookedAsApproved /\ BookedWithinSegment

\* A designation the shift dialog offers is one the command accepts: the query
\* and the command decide from the same facts in different words, up to a
\* period when the asset is away that the day of the shift does not show.
DesignationOffersHold ==
  \A q \in Shifts : ShiftContext(q) =>
    \A n \in OfferedForDesignation(q) :
      \/ Designable(q, n)
      \/ \E absence \in absences :
           /\ absence[1] = needs[n].booking.asset
           /\ absence[2] # On(shifts[q].day)
=============================================================================
