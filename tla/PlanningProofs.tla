--------------------------- MODULE PlanningProofs ----------------------------
(***************************************************************************)
(* Theorems about what may become of the plan and who may assign it:       *)
(* AssetReservation, ShiftPlan and ApprovalScopes.                         *)
(*                                                                         *)
(* ReservationInv is inductive: needs and shifts belong together, and      *)
(* reservations of one asset lie apart. With PatchStands it gives          *)
(* FollowInv, which BookingFollowsOwner needs.                             *)
(*                                                                         *)
(* Authorised is inductive: the columns are what they should be, and each  *)
(* segment has what was authorised.                                        *)
(*                                                                         *)
(* Fresh makes the version of an approval scope enough for a decision: a   *)
(* scope with the version read is still the scope the decision was made    *)
(* on. No account becomes an approver while it is changed there (~         *)
(* Racing).                                                                *)
(***************************************************************************)
EXTENDS AssetReservation, ShiftPlan, ApprovalScopes, TLAPS

-----------------------------------------------------------------------------
(* Reservations: the invariant.                                            *)

\* Who a need of each origin belongs to.
OwnerSound(row) ==
  /\ row.origin = "REQUEST" => row.owner = Request
  /\ row.origin = "SHIFT_AD_HOC" => row.owner \in Shifts
  /\ row.origin = "SEGMENT" => row.owner \in Segments
  /\ row.origin # "RESOURCE_PERIOD" => row.project # None

\* What is reserved for it is what it asks for.
RowSound(row) ==
  /\ OwnerSound(row)
  /\ row.origin = "SHIFT_AD_HOC" => row.booking # None
  /\ row.booking # None => assetType[row.booking.asset] = row.type

\* All of them are.
RowsSound == \A n \in Needs : needs[n] # None => RowSound(needs[n])

\* A shift has one ad hoc need.
OneAdHoc ==
  \A n, m \in Needs :
    /\ needs[n] # None /\ needs[n].origin = "SHIFT_AD_HOC"
    /\ needs[m] # None /\ needs[m].origin = "SHIFT_AD_HOC"
    /\ needs[n].owner = needs[m].owner
    => n = m

\* Does a row leave the other reservations of its asset room?
Room(n, row) ==
  row.booking # None =>
    \A m \in Booked \ {n} :
      needs[m].booking.asset = row.booking.asset =>
        Disjoint(needs[m].booking.span, row.booking.span)

\* Reservations of one asset lie apart.
BookingsApart == \A n \in Booked : Room(n, needs[n])

\* The invariant.
ReservationInv == AssetTypeOK /\ RowsSound /\ OneAdHoc /\ BookingsApart

-----------------------------------------------------------------------------
(* Two ways in which a command changes the needs.                          *)

\* One of them is written, with room for what it reserves.
Placed(n, row) ==
  /\ needs' = [needs EXCEPT ![n] = row]
  /\ row \in Need /\ RowSound(row) /\ Room(n, row)
  /\ row.origin = "SHIFT_AD_HOC" => AdHocNeeds(row.owner) \subseteq {n}

\* Some are removed, or keep their reservation at most.
Reduced ==
  \A n \in Needs :
    \/ needs'[n] = None
    \/ needs'[n] = needs[n]
    \/ /\ needs[n] # None /\ needs'[n] \in Need /\ RowSound(needs'[n])
       /\ needs'[n].origin = needs[n].origin
       /\ needs'[n].owner = needs[n].owner
       /\ needs'[n].booking \in {needs[n].booking, None}

\* A need that is written with room for its reservation keeps the invariant.
LEMMA PlacedKeeps ==
  ASSUME ReservationInv, NEW n \in Needs, NEW row, Placed(n, row),
         AssetTypeOK', assetType' = assetType
  PROVE  ReservationInv'
  <1>1. /\ needs'[n] = row /\ row # None /\ DOMAIN needs = Needs
        /\ \A m \in Needs \ {n} : needs'[m] = needs[m]
    BY AssetsAssumption DEF Placed, ReservationInv, AssetTypeOK
  <1>2. RowsSound'
    BY <1>1 DEF Placed, ReservationInv, RowsSound, RowSound,
       OwnerSound
  <1>3. OneAdHoc'
    BY <1>1 DEF Placed, ReservationInv, OneAdHoc, AdHocNeeds, NeedsOf
  <1>4. BookingsApart'
    <2>1. \A m \in Booked \ {n} :
            /\ row.booking # None
            /\ needs[m].booking.asset = row.booking.asset
            => Disjoint(needs[m].booking.span, row.booking.span)
      BY DEF Placed, Room
    <2> QED
      BY <1>1, <2>1 DEF ReservationInv, BookingsApart, Room, Booked, Disjoint
  <1> QED
    BY <1>2, <1>3, <1>4 DEF ReservationInv

\* So do commands that only take needs and reservations away.
LEMMA ReducedKeeps ==
  ASSUME ReservationInv, Reduced, AssetTypeOK', assetType' = assetType
  PROVE  ReservationInv'
  <1>1. RowsSound'
    BY DEF ReservationInv, RowsSound, RowSound, OwnerSound,
       Reduced
  <1>2. OneAdHoc'
    BY DEF ReservationInv, OneAdHoc, Reduced
  <1>3. BookingsApart'
    <2>1. \A n \in Needs : needs'[n] # None /\ needs'[n].booking # None =>
            /\ needs[n] # None /\ needs[n].booking # None
            /\ needs'[n].booking = needs[n].booking
      BY DEF Reduced
    <2> QED
      BY <2>1 DEF ReservationInv, BookingsApart, Room, Booked
  <1> QED
    BY <1>1, <1>2, <1>3 DEF ReservationInv

-----------------------------------------------------------------------------
(* Types.                                                                  *)

\* A command advances the version within its bound.
LEMMA CommandCounts ==
  ASSUME AssetTypeOK, Command
  PROVE  commands' \in 0 .. MaxCommands
  BY AssetsAssumption DEF AssetTypeOK, Command

\* A command that writes the needs, and the shifts at most.
LEMMA NeedsTyped ==
  ASSUME AssetTypeOK, Command,
         needs' \in [Needs -> Need \cup {None}],
         shifts' \in [Shifts -> Shift \cup {None}],
         UNCHANGED <<catalogueVars, approvedLine, segments, patch>>
  PROVE  AssetTypeOK'
  BY CommandCounts DEF AssetTypeOK, catalogueVars

\* A reservation is written where there is room for it.
LEMMA BookKeeps ==
  ASSUME ReservationInv, Command, NEW n \in Needs, NEW need \in Need,
         NEW booking \in Booking, Book(n, need, booking), OwnerSound(need),
         assetType[booking.asset] = need.type,
         Available(booking.asset, booking.span, {n}),
         need.origin = "SHIFT_AD_HOC" =>
           AdHocNeeds(need.owner) \subseteq {n},
         shifts' \in [Shifts -> Shift \cup {None}],
         UNCHANGED <<catalogueVars, approvedLine, segments, patch>>
  PROVE  ReservationInv'
  <1>1. PICK row : row = [need EXCEPT !.booking = booking]
    OBVIOUS
  <1>2. /\ row \in Need /\ row.booking = booking
        /\ row.origin = need.origin /\ row.owner = need.owner
        /\ row.project = need.project /\ row.type = need.type
    BY <1>1 DEF Need
  <1>3. booking # None
    BY AssetsAssumption
  <1>4. RowSound(row)
    BY <1>2, <1>3 DEF RowSound, OwnerSound
  <1>5. Room(n, row)
    BY <1>2 DEF Room, Available
  <1>6. Placed(n, row)
    BY <1>1, <1>2, <1>4, <1>5 DEF Placed, Book
  <1>7. needs' \in [Needs -> Need \cup {None}]
    BY <1>1, <1>2 DEF Book, ReservationInv, AssetTypeOK
  <1>8. AssetTypeOK' /\ assetType' = assetType
    BY <1>7, NeedsTyped DEF ReservationInv, catalogueVars
  <1> QED
    BY <1>6, <1>8, PlacedKeeps

\* What a row of the table is.
LEMMA RowFacts ==
  ASSUME ReservationInv, NEW n \in Needs, needs[n] # None
  PROVE  /\ needs[n] \in Need /\ RowSound(needs[n])
         /\ needs[n].booking # None => needs[n].booking \in Booking
         /\ needs[n].origin = "SHIFT_AD_HOC" =>
              AdHocNeeds(needs[n].owner) \subseteq {n}
  <1>1. needs[n] \in Need
    BY DEF ReservationInv, AssetTypeOK
  <1>2. RowSound(needs[n])
    BY DEF ReservationInv, RowsSound
  <1>3. needs[n].booking \in Booking \cup {None}
    BY <1>1 DEF Need
  <1>4. needs[n].origin = "SHIFT_AD_HOC" =>
          AdHocNeeds(needs[n].owner) \subseteq {n}
    BY DEF ReservationInv, OneAdHoc, AdHocNeeds, NeedsOf
  <1> QED
    BY <1>1, <1>2, <1>3, <1>4

-----------------------------------------------------------------------------
(* The reservations of a request.                                          *)

\* An asset or an operator of a request need changes.
LEMMA RequestBooked ==
  ASSUME ReservationInv, Command, NEW n \in Needs, needs[n] # None,
         NEW booking \in Booking, RequestBookable(needs[n], booking, {n}),
         Book(n, needs[n], booking),
         UNCHANGED <<catalogueVars, approvedLine, shifts, segments, patch>>
  PROVE  ReservationInv'
  <1>1. needs[n] \in Need /\ OwnerSound(needs[n])
    BY RowFacts DEF RowSound
  <1>2. /\ needs[n].origin = "REQUEST"
        /\ assetType[booking.asset] = needs[n].type
        /\ Available(booking.asset, booking.span, {n})
    BY DEF RequestBookable, RequestAuthority, Bookable
  <1>3. shifts' \in [Shifts -> Shift \cup {None}]
    BY DEF ReservationInv, AssetTypeOK
  <1>4. UNCHANGED <<catalogueVars, approvedLine, segments, patch>>
    OBVIOUS
  <1> QED
    BY <1>1, <1>2, <1>3, <1>4, BookKeeps

\* A request reserves an asset in a span that is free.
LEMMA ReserveKeeps ==
  ASSUME ReservationInv, NEW n \in Needs, NEW a \in Assets, NEW span \in Span,
         Reserve(n, a, span)
  PROVE  ReservationInv'
  <1>1. PICK booking :
          booking = [asset |-> a, span |-> span,
                     operator |-> IF needs[n].booking = None THEN None
                                  ELSE needs[n].booking.operator]
    OBVIOUS
  <1>2. /\ Command /\ needs[n] # None
        /\ RequestBookable(needs[n], booking, {n})
        /\ Book(n, needs[n], booking)
        /\ UNCHANGED <<catalogueVars, approvedLine, shifts, segments, patch>>
    BY <1>1 DEF Reserve
  <1>3. booking \in Booking
    BY <1>1, <1>2, RowFacts DEF Booking
  <1> QED
    BY <1>2, <1>3, RequestBooked

\* An operator takes over a reservation, which stays where it is.
LEMMA SetOperatorKeeps ==
  ASSUME ReservationInv, NEW n \in Needs, NEW r \in Resources \cup {None},
         SetOperator(n, r)
  PROVE  ReservationInv'
  <1>1. PICK booking : booking = [needs[n].booking EXCEPT !.operator = r]
    OBVIOUS
  <1>2. /\ Command /\ needs[n] # None /\ needs[n].booking # None
        /\ RequestBookable(needs[n], booking, {n})
        /\ Book(n, needs[n], booking)
        /\ UNCHANGED <<catalogueVars, approvedLine, shifts, segments, patch>>
    BY <1>1 DEF SetOperator
  <1>3. booking \in Booking
    BY <1>1, <1>2, RowFacts DEF Booking
  <1> QED
    BY <1>2, <1>3, RequestBooked

\* The resource of the shift operates what needs an operator.
LEMMA AssignRequestKeeps ==
  ASSUME ReservationInv, NEW q \in Shifts, NEW n \in Needs, NEW a \in Assets,
         NEW span \in Span, AssignRequestAsset(q, n, a, span)
  PROVE  ReservationInv'
  <1>1. PICK operator :
          operator = IF needs[n].booking # None THEN needs[n].booking.operator
                     ELSE IF required[needs[n].type] # {}
                          THEN shifts[q].resource ELSE None
    OBVIOUS
  <1>2. PICK booking :
          booking = [asset |-> a, operator |-> operator, span |-> span]
    OBVIOUS
  <1>3. /\ Command /\ ShiftContext(q) /\ needs[n].origin = "REQUEST"
        /\ n \in ResolvedNeed(q, a)
        /\ RequestBookable(needs[n], booking, {n})
        /\ Book(n, needs[n], booking)
        /\ UNCHANGED <<catalogueVars, approvedLine, shifts, segments, patch>>
    BY <1>1, <1>2 DEF AssignRequestAsset
  <1>4. needs[n] # None
    BY <1>3 DEF ResolvedNeed, AdHocNeeds, NeedsOf, AppliesToShift
  <1>5. shifts[q].resource \in Resources
    BY <1>3 DEF ShiftContext, Shift, ReservationInv, AssetTypeOK
  <1>6. booking \in Booking
    BY <1>1, <1>2, <1>4, <1>5, RowFacts DEF Booking
  <1> QED
    BY <1>3, <1>4, <1>6, RequestBooked

\* What is released leaves room.
LEMMA Released ==
  ASSUME ReservationInv, NEW n \in Needs, needs[n] # None,
         needs' = [needs EXCEPT ![n] = WithoutReservation(n)],
         Command, shifts' \in [Shifts -> Shift \cup {None}],
         UNCHANGED <<catalogueVars, approvedLine, segments, patch>>
  PROVE  ReservationInv'
  <1>1. /\ DOMAIN needs = Needs /\ needs[n] \in Need /\ RowSound(needs[n])
        /\ needs \in [Needs -> Need \cup {None}]
    BY RowFacts DEF ReservationInv, AssetTypeOK
  <1>2. CASE needs[n].origin = "REQUEST"
    <2>1. PICK row : row = [needs[n] EXCEPT !.booking = None]
      OBVIOUS
    <2>2. /\ row \in Need /\ row.booking = None
          /\ row.origin = needs[n].origin /\ row.owner = needs[n].owner
          /\ row.project = needs[n].project
      BY <1>1, <2>1 DEF Need
    <2>3. RowSound(row)
      BY <1>1, <1>2, <2>2 DEF RowSound, OwnerSound
    <2>4. needs' = [needs EXCEPT ![n] = row]
      BY <1>2, <2>1 DEF WithoutReservation
    <2>5. Reduced
      BY <1>1, <2>2, <2>3, <2>4 DEF Reduced
    <2>6. AssetTypeOK' /\ assetType' = assetType
      BY <1>1, <2>2, <2>4, NeedsTyped DEF ReservationInv, catalogueVars
    <2> QED
      BY <2>5, <2>6, ReducedKeeps
  <1>3. CASE needs[n].origin # "REQUEST"
    <2>1. needs' = [needs EXCEPT ![n] = None]
      BY <1>3 DEF WithoutReservation
    <2>2. Reduced
      BY <1>1, <2>1 DEF Reduced
    <2>3. AssetTypeOK' /\ assetType' = assetType
      BY <1>1, <2>1, NeedsTyped DEF ReservationInv, catalogueVars
    <2> QED
      BY <2>2, <2>3, ReducedKeeps
  <1> QED
    BY <1>2, <1>3

\* A need loses its reservation.
LEMMA ReleaseKeeps ==
  ASSUME ReservationInv, NEW n \in Needs,
         ReleaseRequest(n) \/ ReleaseDirect(n)
  PROVE  ReservationInv'
  <1>1. /\ Command /\ needs[n] # None
        /\ needs' = [needs EXCEPT ![n] = WithoutReservation(n)]
        /\ UNCHANGED <<catalogueVars, approvedLine, segments, patch>>
        /\ shifts' = shifts
    BY DEF ReleaseRequest, ReleaseDirect
  <1>2. shifts' \in [Shifts -> Shift \cup {None}]
    BY <1>1 DEF ReservationInv, AssetTypeOK
  <1> QED
    BY <1>1, <1>2, Released

\* A new revision keeps the reservations that are compatible with it.
LEMMA SyncKeeps ==
  ASSUME ReservationInv, NEW line \in Line \cup {None}, SyncRequestNeeds(line)
  PROVE  ReservationInv'
  <1> DEFINE rows == NeedsOf("REQUEST", Request)
  <1>1. /\ Command /\ approvedLine' = line
        /\ \A n \in rows : CompatibleWithLine(n, line)
        /\ UNCHANGED <<catalogueVars, shifts, segments, patch>>
    BY DEF SyncRequestNeeds
  <1>2. needs \in [Needs -> Need \cup {None}]
    BY DEF ReservationInv, AssetTypeOK
  <1>3. ASSUME needs' \in [Needs -> Need \cup {None}]
        PROVE  AssetTypeOK' /\ assetType' = assetType
    BY <1>1, <1>3, CommandCounts
       DEF ReservationInv, AssetTypeOK, catalogueVars
  <1>4. CASE line = None /\ needs' = [n \in Needs |-> IF n \in rows THEN None
                                                    ELSE needs[n]]
    <2>1. Reduced
      BY <1>4 DEF Reduced
    <2>2. needs' \in [Needs -> Need \cup {None}]
      BY <1>2, <1>4
    <2> QED
      BY <1>3, <2>1, <2>2, ReducedKeeps
  <1>5. CASE /\ line # None
             /\ needs' = [n \in Needs |-> IF n \in rows
                            THEN [needs[n] EXCEPT !.type = line.type,
                                                  !.span = line.span]
                            ELSE needs[n]]
    <2>1. line.type \in AssetTypes /\ line.span \in Span
      BY <1>5 DEF Line
    <2>2. ASSUME NEW n \in rows
          PROVE  /\ needs[n] # None /\ needs'[n] \in Need
                 /\ RowSound(needs'[n])
                 /\ needs'[n].origin = needs[n].origin
                 /\ needs'[n].owner = needs[n].owner
                 /\ needs'[n].booking = needs[n].booking
      <3>1. needs[n] # None /\ n \in Needs /\ needs[n].origin = "REQUEST"
        BY DEF NeedsOf
      <3>2. needs[n] \in Need /\ RowSound(needs[n])
        BY <3>1, RowFacts
      <3>3. needs'[n] = [needs[n] EXCEPT !.type = line.type,
                                         !.span = line.span]
        BY <1>5, <3>1
      <3>4. /\ needs'[n] \in Need /\ needs'[n].type = line.type
            /\ needs'[n].origin = needs[n].origin
            /\ needs'[n].owner = needs[n].owner
            /\ needs'[n].project = needs[n].project
            /\ needs'[n].booking = needs[n].booking
        BY <2>1, <3>2, <3>3 DEF Need
      <3>5. RowSound(needs'[n])
        BY <1>1, <3>1, <3>2, <3>4 DEF RowSound, OwnerSound, CompatibleWithLine
      <3> QED
        BY <3>1, <3>4, <3>5
    <2>3. Reduced
      BY <1>5, <2>2 DEF Reduced
    <2>4. needs' \in [Needs -> Need \cup {None}]
      BY <1>2, <1>5, <2>2
    <2> QED
      BY <1>3, <2>3, <2>4, ReducedKeeps
  <1>6. CASE /\ line # None
             /\ \E n \in Free, p \in Projects :
                  needs' = [needs EXCEPT ![n] = NewRequestNeed(line, p)]
    <2>1. PICK n \in Free, p \in Projects :
            needs' = [needs EXCEPT ![n] = NewRequestNeed(line, p)]
      BY <1>6
    <2>2. PICK row : row = NewRequestNeed(line, p)
      OBVIOUS
    <2>3. /\ row \in Need /\ row.booking = None /\ row.origin = "REQUEST"
          /\ row.owner = Request /\ row.project = p
      BY <1>6, <2>2 DEF NewRequestNeed, Need, Line, Origins, Owner
    <2>4. RowSound(row) /\ Room(n, row)
      BY <2>3, AssetsAssumption DEF RowSound, OwnerSound, Room
    <2>5. n \in Needs /\ Placed(n, row)
      BY <2>1, <2>2, <2>3, <2>4 DEF Placed, Free
    <2>6. needs' \in [Needs -> Need \cup {None}]
      BY <1>2, <2>1, <2>2, <2>3
    <2> QED
      BY <1>3, <2>5, <2>6, PlacedKeeps
  <1> QED
    BY <1>4, <1>5, <1>6 DEF SyncRequestNeeds

-----------------------------------------------------------------------------
(* Reservations that shifts carry along.                                   *)

\* A day is a window.
LEMMA DayIsSpan ==
  ASSUME NEW day \in Days
  PROVE  On(day) \in Span
  BY AssetsAssumption DEF On, Span

\* What a shift of the table is.
LEMMA ShiftFacts ==
  ASSUME ReservationInv, NEW q \in Shifts, shifts[q] # None
  PROVE  /\ shifts[q] \in Shift /\ shifts[q].day \in Days
         /\ shifts[q].resource \in Resources
         /\ segments[shifts[q].segment] \in Segment
         /\ segments[shifts[q].segment].project \in Projects
         /\ Attached(shifts[q]) \in Shift
  BY DEF ReservationInv, AssetTypeOK, Shift, Segment, Attached

\* The ad hoc need of a shift, the one it has or a new one.
LEMMA AssignAdHocKeeps ==
  ASSUME ReservationInv, NEW q \in Shifts, NEW a \in Assets,
         AssignAdHocAsset(q, a)
  PROVE  ReservationInv'
  <1>1. PICK new : new = AdHocNeed(q, a)
    OBVIOUS
  <1>2. PICK n \in Needs :
          LET need == IF needs[n] = None THEN new
                      ELSE [needs[n] EXCEPT !.type = new.type,
                                            !.span = new.span]
              booking == [asset |-> a, operator |-> shifts[q].resource,
                          span |-> On(shifts[q].day)]
          IN /\ \/ n \in AdHocNeeds(q)
                \/ n \in Free /\ ResolvedNeed(q, a) = {}
             /\ Available(a, booking.span, {n})
             /\ Book(n, need, booking)
    BY <1>1 DEF AssignAdHocAsset
  <1>3. PICK booking :
          booking = [asset |-> a, operator |-> shifts[q].resource,
                     span |-> On(shifts[q].day)]
    OBVIOUS
  <1>4. PICK need :
          need = IF needs[n] = None THEN new
                 ELSE [needs[n] EXCEPT !.type = new.type, !.span = new.span]
    OBVIOUS
  <1>5. /\ \/ n \in AdHocNeeds(q)
           \/ n \in Free /\ ResolvedNeed(q, a) = {}
        /\ Available(booking.asset, booking.span, {n})
        /\ Book(n, need, booking)
    BY <1>2, <1>3, <1>4
  <1>6. /\ Command /\ ShiftContext(q)
        /\ shifts' = [shifts EXCEPT ![q] = Attached(@)]
        /\ UNCHANGED <<catalogueVars, approvedLine, segments, patch>>
    BY DEF AssignAdHocAsset
  <1>7. /\ shifts[q] # None /\ shifts[q].day \in Days
        /\ shifts[q].resource \in Resources
        /\ segments[shifts[q].segment].project \in Projects
        /\ Attached(shifts[q]) \in Shift
        /\ assetType[a] \in AssetTypes
    BY <1>6, ShiftFacts DEF ShiftContext, ReservationInv, AssetTypeOK
  <1>8. /\ new \in Need /\ new.origin = "SHIFT_AD_HOC" /\ new.owner = q
        /\ new.type = assetType[a]
        /\ new.project = segments[shifts[q].segment].project
        /\ new.span = On(shifts[q].day)
    BY <1>1, <1>7, DayIsSpan DEF AdHocNeed, Need, Origins, Owner
  <1>9. booking \in Booking /\ booking.asset = a
    BY <1>3, <1>7, DayIsSpan DEF Booking
  <1>10. CASE n \in Free /\ ResolvedNeed(q, a) = {}
    <2>1. need = new
      BY <1>4, <1>10 DEF Free
    <2>2. AdHocNeeds(q) = {}
      BY <1>10 DEF ResolvedNeed
    <2>3. OwnerSound(need)
      BY <1>7, <1>8, <2>1, AssetsAssumption DEF OwnerSound
    <2>4. shifts' \in [Shifts -> Shift \cup {None}]
      BY <1>6, <1>7 DEF ReservationInv, AssetTypeOK
    <2> QED
      BY <1>5, <1>6, <1>8, <1>9, <2>1, <2>2, <2>3, <2>4, BookKeeps
  <1>11. CASE n \in AdHocNeeds(q)
    <2>1. /\ needs[n] # None /\ needs[n].origin = "SHIFT_AD_HOC"
          /\ needs[n].owner = q
      BY <1>11 DEF AdHocNeeds, NeedsOf
    <2>2. needs[n] \in Need /\ RowSound(needs[n]) /\ AdHocNeeds(q) \subseteq {n}
      BY <2>1, RowFacts
    <2>3. /\ need \in Need /\ need.origin = needs[n].origin
          /\ need.owner = needs[n].owner /\ need.project = needs[n].project
          /\ need.type = assetType[a]
      BY <1>4, <1>7, <1>8, <2>1, <2>2, DayIsSpan DEF Need
    <2>4. OwnerSound(need)
      BY <2>2, <2>3 DEF RowSound, OwnerSound
    <2>5. shifts' \in [Shifts -> Shift \cup {None}]
      BY <1>6, <1>7 DEF ReservationInv, AssetTypeOK
    <2> QED
      BY <1>5, <1>6, <1>9, <2>1, <2>2, <2>3, <2>4, <2>5, BookKeeps
  <1> QED
    BY <1>5, <1>10, <1>11

\* The asset of a shift is released, and an ad hoc need goes.
LEMMA ReleaseShiftAssetKeeps ==
  ASSUME ReservationInv, NEW q \in Shifts, ReleaseShiftAsset(q)
  PROVE  ReservationInv'
  <1>1. PICK n \in ResolvedForRelease(q) :
          /\ n \in Booked
          /\ needs' = [needs EXCEPT ![n] = WithoutReservation(n)]
          /\ \/ shifts' = [shifts EXCEPT ![q] = Attached(@)]
             \/ UNCHANGED shifts
    BY DEF ReleaseShiftAsset
  <1>2. /\ Command /\ ShiftContext(q)
        /\ UNCHANGED <<catalogueVars, approvedLine, segments, patch>>
    BY DEF ReleaseShiftAsset
  <1>3. n \in Needs /\ needs[n] # None
    BY <1>1 DEF Booked
  <1>4. Attached(shifts[q]) \in Shift
    BY <1>2, ShiftFacts DEF ShiftContext
  <1>5. shifts' \in [Shifts -> Shift \cup {None}]
    BY <1>1, <1>4 DEF ReservationInv, AssetTypeOK
  <1> QED
    BY <1>1, <1>2, <1>3, <1>5, Released

-----------------------------------------------------------------------------
(* Direct and segment reservations.                                        *)

\* A need that exists is booked again, for another window or operator.
LEMMA Rebooked ==
  ASSUME ReservationInv, Command, NEW n \in Needs, needs[n] # None,
         needs[n].origin # "SHIFT_AD_HOC",
         NEW span \in Span, NEW need, need = [needs[n] EXCEPT !.span = span],
         NEW booking \in Booking, Bookable(need, booking, {n}),
         Book(n, need, booking),
         UNCHANGED <<catalogueVars, approvedLine, shifts, segments, patch>>
  PROVE  ReservationInv'
  <1>1. needs[n] \in Need /\ RowSound(needs[n])
    BY RowFacts
  <1>2. /\ need \in Need /\ need.origin = needs[n].origin
        /\ need.owner = needs[n].owner /\ need.project = needs[n].project
    BY <1>1 DEF Need
  <1>3. OwnerSound(need)
    BY <1>1, <1>2 DEF RowSound, OwnerSound
  <1>4. /\ assetType[booking.asset] = need.type
        /\ Available(booking.asset, booking.span, {n})
    BY DEF Bookable
  <1>5. shifts' \in [Shifts -> Shift \cup {None}]
    BY DEF ReservationInv, AssetTypeOK
  <1>6. UNCHANGED <<catalogueVars, approvedLine, segments, patch>>
    OBVIOUS
  <1> QED
    BY <1>2, <1>3, <1>4, <1>5, <1>6, BookKeeps

\* A new need is booked at once.
LEMMA NewlyBooked ==
  ASSUME ReservationInv, Command, NEW need \in Need, OwnerSound(need),
         need.origin # "SHIFT_AD_HOC",
         NEW booking \in Booking, Bookable(need, booking, {}),
         \E n \in Free : Book(n, need, booking),
         UNCHANGED <<catalogueVars, approvedLine, shifts, segments, patch>>
  PROVE  ReservationInv'
  <1>1. PICK n \in Free : Book(n, need, booking)
    OBVIOUS
  <1>2. n \in Needs /\ n \notin Booked
    BY DEF Free, Booked
  <1>3. /\ assetType[booking.asset] = need.type
        /\ Available(booking.asset, booking.span, {n})
    BY <1>2 DEF Bookable, Available
  <1>4. shifts' \in [Shifts -> Shift \cup {None}]
    BY DEF ReservationInv, AssetTypeOK
  <1>5. UNCHANGED <<catalogueVars, approvedLine, segments, patch>>
    OBVIOUS
  <1> QED
    BY <1>1, <1>2, <1>3, <1>4, <1>5, BookKeeps

\* The worker of a shift operates what the project has reserved.
LEMMA DesignateKeeps ==
  ASSUME ReservationInv, NEW q \in Shifts, NEW n \in Needs,
         DesignateProjectOperator(q, n)
  PROVE  ReservationInv'
  <1>1. PICK booking :
          booking = [needs[n].booking EXCEPT !.operator = shifts[q].resource]
    OBVIOUS
  <1>2. /\ Command /\ ShiftContext(q)
        /\ needs[n] # None /\ needs[n].booking # None
        /\ needs[n].origin = "PROJECT_DIRECT"
        /\ Bookable(needs[n], booking, {n})
        /\ Book(n, needs[n], booking)
        /\ UNCHANGED <<catalogueVars, approvedLine, shifts, segments, patch>>
    BY <1>1 DEF DesignateProjectOperator, Designable, Booked, DirectBookable
  <1>3. shifts[q].resource \in Resources
    BY <1>2, ShiftFacts DEF ShiftContext
  <1>4. booking \in Booking
    BY <1>1, <1>2, <1>3, RowFacts DEF Booking
  <1>5. /\ needs[n].span \in Span
        /\ needs[n] = [needs[n] EXCEPT !.span = needs[n].span]
    BY <1>2, RowFacts DEF Need
  <1>6. PICK span \in Span : span = needs[n].span
    BY <1>5
  <1>7. needs[n] = [needs[n] EXCEPT !.span = span]
    BY <1>5, <1>6
  <1> QED
    BY <1>2, <1>4, <1>7, Rebooked

\* A direct reservation moves, with its need.
LEMMA UpdateDirectKeeps ==
  ASSUME ReservationInv, NEW n \in Needs, NEW a \in Assets, NEW span \in Span,
         NEW r \in Resources \cup {None}, UpdateDirect(n, a, span, r)
  PROVE  ReservationInv'
  <1>1. PICK need : need = [needs[n] EXCEPT !.span = span]
    OBVIOUS
  <1>2. PICK booking :
          booking = [asset |-> a, span |-> span,
                     operator |-> IF need.origin = "RESOURCE_PERIOD"
                                  THEN need.owner ELSE r]
    OBVIOUS
  <1>3. /\ Command /\ n \in Booked
        /\ need.origin \in {"PROJECT_DIRECT", "RESOURCE_PERIOD"}
        /\ need.origin = "RESOURCE_PERIOD" => need.owner \in activeResources
        /\ Bookable(need, booking, {n})
        /\ Book(n, need, booking)
        /\ UNCHANGED <<catalogueVars, approvedLine, shifts, segments, patch>>
    BY <1>1, <1>2 DEF UpdateDirect, DirectBookable
  <1>4. needs[n] # None /\ needs[n].origin # "SHIFT_AD_HOC"
    <2>1. needs[n] # None
      BY <1>3 DEF Booked
    <2>2. need.origin = needs[n].origin
      BY <1>1, <2>1, RowFacts DEF Need
    <2> QED
      BY <1>3, <2>1, <2>2
  <1>5. booking \in Booking
    BY <1>2, <1>3 DEF Booking, ReservationInv, AssetTypeOK
  <1> QED
    BY <1>1, <1>3, <1>4, <1>5, Rebooked

\* The reservation of a segment moves, with its need.
LEMMA UpdateSegmentReservationKeeps ==
  ASSUME ReservationInv, NEW n \in Needs, NEW a \in Assets, NEW span \in Span,
         NEW r \in Resources \cup {None},
         UpdateSegmentReservation(n, a, span, r)
  PROVE  ReservationInv'
  <1>1. PICK need : need = [needs[n] EXCEPT !.span = span]
    OBVIOUS
  <1>2. PICK booking : booking = [asset |-> a, operator |-> r, span |-> span]
    OBVIOUS
  <1>3. /\ Command /\ n \in Booked /\ need.origin = "SEGMENT"
        /\ Bookable(need, booking, {n})
        /\ Book(n, need, booking)
        /\ UNCHANGED <<catalogueVars, approvedLine, shifts, segments, patch>>
    BY <1>1, <1>2 DEF UpdateSegmentReservation, SegmentBookable
  <1>4. needs[n] # None /\ needs[n].origin # "SHIFT_AD_HOC"
    <2>1. needs[n] # None
      BY <1>3 DEF Booked
    <2>2. need.origin = needs[n].origin
      BY <1>1, <2>1, RowFacts DEF Need
    <2> QED
      BY <1>3, <2>1, <2>2
  <1>5. booking \in Booking
    BY <1>2 DEF Booking
  <1> QED
    BY <1>1, <1>3, <1>4, <1>5, Rebooked

\* A project or a resource reserves an asset directly.
LEMMA CreateDirectKeeps ==
  ASSUME ReservationInv, CreateDirectReservation
  PROVE  ReservationInv'
  <1>1. PICK a \in Assets, span \in Span, operator \in Resources \cup {None} :
          LET booking == [asset |-> a, operator |-> operator, span |-> span]
          IN \/ \E p \in Projects : CreateDirect(
                  NewNeed("PROJECT_DIRECT", p, p, a, span), booking)
             \/ \E r \in Resources : CreateDirect(
                  NewNeed("RESOURCE_PERIOD", r, None, a, span), booking)
    BY DEF CreateDirectReservation
  <1>2. PICK booking :
          booking = [asset |-> a, operator |-> operator, span |-> span]
    OBVIOUS
  <1>3. booking \in Booking /\ assetType[a] \in AssetTypes
    BY <1>2 DEF Booking, ReservationInv, AssetTypeOK
  <1>4. ASSUME NEW need \in Need, OwnerSound(need),
               need.origin # "SHIFT_AD_HOC", CreateDirect(need, booking)
        PROVE  ReservationInv'
    <2>1. /\ Command /\ Bookable(need, booking, {})
          /\ \E n \in Free : Book(n, need, booking)
          /\ UNCHANGED <<catalogueVars, approvedLine, shifts, segments, patch>>
      BY <1>4 DEF CreateDirect, DirectBookable
    <2> QED
      BY <1>3, <1>4, <2>1, NewlyBooked
  <1>5. CASE \E p \in Projects :
               CreateDirect(NewNeed("PROJECT_DIRECT", p, p, a, span), booking)
    <2>1. PICK p \in Projects :
            CreateDirect(NewNeed("PROJECT_DIRECT", p, p, a, span), booking)
      BY <1>5
    <2>2. PICK need : need = NewNeed("PROJECT_DIRECT", p, p, a, span)
      OBVIOUS
    <2>3. need \in Need /\ OwnerSound(need) /\ need.origin # "SHIFT_AD_HOC"
      BY <1>3, <2>2, AssetsAssumption
         DEF NewNeed, Need, Origins, Owner, OwnerSound
    <2> QED
      BY <1>4, <2>1, <2>2, <2>3
  <1>6. CASE \E r \in Resources :
               CreateDirect(NewNeed("RESOURCE_PERIOD", r, None, a, span),
                            booking)
    <2>1. PICK r \in Resources :
            CreateDirect(NewNeed("RESOURCE_PERIOD", r, None, a, span), booking)
      BY <1>6
    <2>2. PICK need : need = NewNeed("RESOURCE_PERIOD", r, None, a, span)
      OBVIOUS
    <2>3. need \in Need /\ OwnerSound(need) /\ need.origin # "SHIFT_AD_HOC"
      BY <1>3, <2>2 DEF NewNeed, Need, Origins, Owner, OwnerSound
    <2> QED
      BY <1>4, <2>1, <2>2, <2>3
  <1> QED
    BY <1>1, <1>2, <1>5, <1>6

\* A segment reserves an asset.
LEMMA CreateSegmentReservationKeeps ==
  ASSUME ReservationInv, NEW g \in Segments, NEW a \in Assets,
         NEW span \in Span, NEW r \in Resources \cup {None},
         CreateSegmentReservation(g, a, span, r)
  PROVE  ReservationInv'
  <1>1. PICK need : need = NewNeed("SEGMENT", g, segments[g].project, a, span)
    OBVIOUS
  <1>2. PICK booking : booking = [asset |-> a, operator |-> r, span |-> span]
    OBVIOUS
  <1>3. /\ Command /\ Bookable(need, booking, {})
        /\ \E n \in Free : Book(n, need, booking)
        /\ UNCHANGED <<catalogueVars, approvedLine, shifts, segments, patch>>
    BY <1>1, <1>2 DEF CreateSegmentReservation, SegmentBookable
  <1>4. /\ booking \in Booking /\ assetType[a] \in AssetTypes
        /\ segments[g].project \in Projects
    BY <1>2 DEF Booking, ReservationInv, AssetTypeOK, Segment
  <1>5. need \in Need /\ OwnerSound(need) /\ need.origin # "SHIFT_AD_HOC"
    BY <1>1, <1>4, AssetsAssumption
       DEF NewNeed, Need, Origins, Owner, OwnerSound
  <1> QED
    BY <1>3, <1>4, <1>5, NewlyBooked

-----------------------------------------------------------------------------
(* The board.                                                              *)

\* What a rebuild may leave is typed, and keeps the locked shifts of segments
\* that are open.
LEMMA RebuiltFacts ==
  ASSUME NEW board \in [Shifts -> Shift \cup {None}],
         NEW segs \in [Segments -> Segment],
         NEW left \in Rebuilt(board, segs)
  PROVE  /\ left \in [Shifts -> Shift \cup {None}]
         /\ \A q \in Kept(board, segs) : left[q] = board[q]
  <1> DEFINE kept == [q \in Shifts |->
                        IF q \in Kept(board, segs) THEN board[q] ELSE None]
  <1>1. /\ kept \in [Shifts -> Shift \cup {None}]
        /\ \A q \in Kept(board, segs) : kept[q] = board[q] /\ kept[q] # None
    BY DEF Kept
  <1>2. \/ left = kept
        \/ \E q \in {q \in Shifts : kept[q] = None} :
             \E g \in Segments : \E s \in AutoShift(segs, g) :
               left = [kept EXCEPT ![q] = s]
    BY DEF Rebuilt
  <1>3. ASSUME NEW g \in Segments, NEW s \in AutoShift(segs, g)
        PROVE  s \in Shift
    BY <1>3 DEF AutoShift, Shift, Segment
  <1>4. CASE left = kept
    BY <1>1, <1>4
  <1>5. CASE \E q \in {q \in Shifts : kept[q] = None} :
               \E g \in Segments : \E s \in AutoShift(segs, g) :
                 left = [kept EXCEPT ![q] = s]
    <2>1. PICK q \in {q \in Shifts : kept[q] = None}, g \in Segments :
            \E s \in AutoShift(segs, g) : left = [kept EXCEPT ![q] = s]
      BY <1>5
    <2>2. PICK s \in AutoShift(segs, g) : left = [kept EXCEPT ![q] = s]
      BY <2>1
    <2>3. q \notin Kept(board, segs)
      BY <1>1, <2>1
    <2>4. \A p \in Kept(board, segs) : p \in Shifts /\ left[p] = board[p]
      BY <1>1, <2>2, <2>3 DEF Kept
    <2>5. left \in [Shifts -> Shift \cup {None}]
      BY <1>1, <1>3, <2>2
    <2> QED
      BY <2>4, <2>5
  <1> QED
    BY <1>2, <1>4, <1>5

\* A rebuild keeps locked and attached shifts, and only the ad hoc needs
\* whose shift is still there.
LEMMA RebuildFacts ==
  ASSUME NEW board \in [Shifts -> Shift \cup {None}],
         NEW segs \in [Segments -> Segment], NEW rows,
         Rebuild(board, segs, rows)
  PROVE  /\ shifts' \in [Shifts -> Shift \cup {None}]
         /\ \A q \in Kept(board, segs) : shifts'[q] = board[q]
         /\ \A n \in Needs :
              rows[n] # None /\ rows[n].origin = "SHIFT_AD_HOC" =>
                rows[n].owner \in Kept(board, segs)
  <1>1. PICK left \in Rebuilt(board, segs) : left = shifts'
    BY DEF Rebuild
  <1> QED
    BY <1>1, RebuiltFacts DEF Rebuild

\* A shift takes its reservation to another day and resource.
LEMMA MoveShiftKeeps ==
  ASSUME ReservationInv, NEW q \in Shifts, NEW day \in Days,
         NEW r \in Resources, MoveShift(q, day, r)
  PROVE  ReservationInv'
  <1>1. PICK moved :
          moved = [shifts[q] EXCEPT !.day = day, !.resource = r,
                                    !.source = "MANUAL", !.locked = TRUE]
    OBVIOUS
  <1>2. PICK board : board = [shifts EXCEPT ![q] = moved]
    OBVIOUS
  <1>3. /\ Command /\ shifts[q] # None
        /\ SynchronisedAccepted(q, Synchronised(q, moved), board)
        /\ needs' = Synchronised(q, moved)
        /\ Rebuild(board, segments, needs')
        /\ UNCHANGED <<catalogueVars, approvedLine, segments, patch>>
    BY <1>1, <1>2 DEF MoveShift
  <1>4. moved \in Shift /\ moved.day = day /\ moved.resource = r
    BY <1>1, <1>3, ShiftFacts DEF Shift
  <1>5. shifts' \in [Shifts -> Shift \cup {None}]
    <2>1. board \in [Shifts -> Shift \cup {None}]
      BY <1>2, <1>4 DEF ReservationInv, AssetTypeOK
    <2>2. segments \in [Segments -> Segment]
      BY DEF ReservationInv, AssetTypeOK
    <2> QED
      BY <1>3, <2>1, <2>2, RebuildFacts
  <1>6. CASE AdHocNeeds(q) = {}
    <2>1. needs' = needs
      BY <1>3, <1>6 DEF Synchronised, ReservationInv, AssetTypeOK
    <2>2. Reduced
      BY <2>1 DEF Reduced
    <2>3. AssetTypeOK' /\ assetType' = assetType
      BY <1>3, <1>5, <2>1, NeedsTyped
         DEF ReservationInv, AssetTypeOK, catalogueVars
    <2> QED
      BY <2>2, <2>3, ReducedKeeps
  <1>7. CASE AdHocNeeds(q) # {}
    <2>1. PICK n : n \in AdHocNeeds(q)
      BY <1>7
    <2>2. /\ n \in Needs /\ needs[n] # None
          /\ needs[n].origin = "SHIFT_AD_HOC" /\ needs[n].owner = q
      BY <2>1 DEF AdHocNeeds, NeedsOf
    <2>3. /\ needs[n] \in Need /\ RowSound(needs[n])
          /\ needs[n].booking \in Booking /\ AdHocNeeds(q) = {n}
      BY <2>1, <2>2, RowFacts DEF RowSound
    <2>4. PICK booking :
            booking = [needs[n].booking EXCEPT !.span = On(day),
                                               !.operator = r]
      OBVIOUS
    <2>5. /\ booking \in Booking /\ booking.span = On(day)
          /\ booking.asset = needs[n].booking.asset
      BY <2>3, <2>4, DayIsSpan DEF Booking
    <2>6. PICK row : row = [needs[n] EXCEPT !.span = On(day),
                                            !.booking = booking]
      OBVIOUS
    <2>7. /\ row \in Need /\ row.booking = booking /\ row.booking # None
          /\ row.origin = needs[n].origin /\ row.owner = needs[n].owner
          /\ row.project = needs[n].project /\ row.type = needs[n].type
      BY <2>3, <2>5, <2>6, DayIsSpan, AssetsAssumption DEF Need
    <2>8. /\ needs' = [needs EXCEPT ![n] = row]
          /\ needs'[n] = row
      BY <1>3, <1>4, <2>2, <2>3, <2>4, <2>6
         DEF Synchronised, ReservationInv, AssetTypeOK
    <2>9. Room(n, row)
      <3>1. Available(booking.asset, booking.span, {n})
        BY <1>3, <2>1, <2>7, <2>8 DEF SynchronisedAccepted
      <3> QED
        BY <2>7, <3>1 DEF Room, Available
    <2>10. RowSound(row)
      BY <2>2, <2>3, <2>5, <2>7 DEF RowSound, OwnerSound
    <2>11. Placed(n, row)
      BY <2>2, <2>3, <2>7, <2>8, <2>9, <2>10 DEF Placed
    <2>12. needs' \in [Needs -> Need \cup {None}]
      BY <2>7, <2>8 DEF ReservationInv, AssetTypeOK
    <2>13. AssetTypeOK' /\ assetType' = assetType
      BY <1>3, <1>5, <2>12, NeedsTyped DEF ReservationInv, catalogueVars
    <2> QED
      BY <2>2, <2>11, <2>13, PlacedKeeps
  <1> QED
    BY <1>6, <1>7

\* A shift is released to the engine or deleted.
LEMMA ReleaseShiftKeeps ==
  ASSUME ReservationInv, NEW q \in Shifts, ReleaseShift(q) \/ DeleteShift(q)
  PROVE  ReservationInv'
  <1>1. /\ Command /\ shifts[q] # None
        /\ UNCHANGED <<catalogueVars, approvedLine, segments, patch>>
        /\ \E board \in [Shifts -> Shift \cup {None}] :
             Rebuild(board, segments, needs')
    <2>1. CASE ReleaseShift(q)
      <3>1. [shifts EXCEPT ![q].locked = FALSE]
              \in [Shifts -> Shift \cup {None}]
        BY <2>1 DEF ReleaseShift, ReservationInv, AssetTypeOK, Shift
      <3> QED
        BY <2>1, <3>1 DEF ReleaseShift
    <2>2. CASE DeleteShift(q)
      <3>1. [shifts EXCEPT ![q] = None] \in [Shifts -> Shift \cup {None}]
        BY DEF ReservationInv, AssetTypeOK
      <3> QED
        BY <2>2, <3>1 DEF DeleteShift
    <2> QED
      BY <2>1, <2>2
  <1>2. shifts' \in [Shifts -> Shift \cup {None}]
    BY <1>1, RebuildFacts DEF ReservationInv, AssetTypeOK
  <1>3. /\ Reduced
        /\ needs' \in [Needs -> Need \cup {None}]
    BY DEF ReleaseShift, DeleteShift, Reduced, ReservationInv, AssetTypeOK
  <1>4. AssetTypeOK' /\ assetType' = assetType
    BY <1>1, <1>2, <1>3, NeedsTyped DEF ReservationInv, catalogueVars
  <1> QED
    BY <1>3, <1>4, ReducedKeeps

\* A PATCH changes a segment, and the shifts in it.
LEMMA PatchKeeps ==
  ASSUME ReservationInv,
         \/ \E g \in Segments, to \in Segment : BeginPatch(g, to)
         \/ CommitPatch \/ AbandonPatch
  PROVE  ReservationInv'
  <1>1. UNCHANGED <<catalogueVars, needs, approvedLine>>
    BY DEF BeginPatch, CommitPatch, AbandonPatch
  <1>2. AssetTypeOK'
    <2>1. CASE \E g \in Segments, to \in Segment : BeginPatch(g, to)
      BY <2>1 DEF BeginPatch, Patch, ReservationInv, AssetTypeOK,
         catalogueVars
    <2>2. CASE AbandonPatch
      BY <2>2 DEF AbandonPatch, ReservationInv, AssetTypeOK, catalogueVars
    <2>3. CASE CommitPatch
      <3>1. /\ commands' \in 0 .. MaxCommands
            /\ segments' \in [Segments -> Segment]
            /\ patch' = None
        BY <2>3, AssetsAssumption
           DEF CommitPatch, Patch, ReservationInv, AssetTypeOK
      <3>2. Rebuild(shifts, segments', needs)
        BY <2>3 DEF CommitPatch
      <3>3. shifts' \in [Shifts -> Shift \cup {None}]
        BY <3>1, <3>2, RebuildFacts DEF ReservationInv, AssetTypeOK
      <3> QED
        BY <1>1, <3>1, <3>3 DEF ReservationInv, AssetTypeOK, catalogueVars
    <2> QED
      BY <2>1, <2>2, <2>3
  <1>3. Reduced
    BY <1>1 DEF Reduced
  <1> QED
    BY <1>1, <1>2, <1>3, ReducedKeeps DEF catalogueVars

-----------------------------------------------------------------------------
(* The catalogue, and the whole.                                           *)

\* The catalogue and people change apart from the board.
LEMMA CatalogueLeavesBoard ==
  ASSUME CatalogueNext
  PROVE  /\ commands < MaxCommands /\ commands' = commands + 1
         /\ UNCHANGED <<needs, approvedLine, shifts, segments, patch>>
  BY DEF CatalogueNext, SetActive, SetTypeActive, ChangeAssetType,
     SetTypeQualification, SetResourceActive, SetCompetencies,
     AddUnavailability, RemoveUnavailability, Command, boardVars

\* The type of an asset changes only when nothing asks for the asset.
LEMMA CatalogueKeeps ==
  ASSUME ReservationInv, CatalogueNext
  PROVE  ReservationInv'
  <1>1. AssetTypeOK'
    <2>1. /\ commands < MaxCommands /\ commands' = commands + 1
          /\ UNCHANGED boardVars
      BY CatalogueLeavesBoard DEF boardVars
    <2>2. commands' \in 0 .. MaxCommands
      BY <2>1, AssetsAssumption DEF ReservationInv, AssetTypeOK
    <2>3. CASE \/ \E a \in Assets : SetActive(a)
               \/ \E t \in AssetTypes : SetTypeActive(t)
               \/ \E r \in Resources : SetResourceActive(r)
               \/ \E r \in Resources, s \in SUBSET Skills :
                    SetCompetencies(r, s)
      BY <2>1, <2>2, <2>3
         DEF SetActive, SetTypeActive, SetResourceActive, SetCompetencies,
         ReservationInv, AssetTypeOK, boardVars
    <2> QED
      BY <2>1, <2>2, <2>3
         DEF CatalogueNext, ChangeAssetType, TypeChangeAllowed,
         SetTypeQualification, AddUnavailability, RemoveUnavailability,
         ReservationInv, AssetTypeOK, boardVars
  <1>2. needs' = needs
    BY CatalogueLeavesBoard
  <1>3. RowsSound'
    <2>1. \A n \in Booked :
            assetType'[needs[n].booking.asset] =
              assetType[needs[n].booking.asset]
      <3>1. CASE UNCHANGED assetType
        BY <3>1
      <3>2. ASSUME NEW a \in Assets, NEW t \in AssetTypes,
                   ChangeAssetType(a, t)
            PROVE  \A n \in Booked : /\ assetType' = [assetType EXCEPT ![a] = t]
                                    /\ needs[n].booking.asset # a
        BY <3>2 DEF ChangeAssetType, TypeChangeAllowed
      <3>3. ASSUME NEW n \in Booked
            PROVE  needs[n].booking.asset \in Assets
        BY <3>3, RowFacts DEF Booked, Booking
      <3> QED
        BY <3>1, <3>2, <3>3
           DEF CatalogueNext, SetActive, SetTypeActive, SetTypeQualification,
           SetResourceActive, SetCompetencies, AddUnavailability,
           RemoveUnavailability, ReservationInv, AssetTypeOK
    <2> QED
      BY <1>2, <2>1
         DEF ReservationInv, RowsSound, RowSound, OwnerSound, Booked
  <1>4. OneAdHoc' /\ BookingsApart'
    BY <1>2 DEF ReservationInv, OneAdHoc, BookingsApart, Room, Booked
  <1> QED
    BY <1>1, <1>3, <1>4 DEF ReservationInv

\* Nothing is reserved at the start.
LEMMA InitReservationInv == AssetInit => ReservationInv
  <1> SUFFICES ASSUME AssetInit PROVE ReservationInv
    OBVIOUS
  <1>1. shifts \in [Shifts -> Shift \cup {None}]
    <2>1. PICK board : board = [q \in Shifts |-> None]
      OBVIOUS
    <2>2. /\ board \in [Shifts -> Shift \cup {None}]
          /\ segments \in [Segments -> Segment]
          /\ shifts \in Rebuilt(board, segments)
      BY <2>1, AssetsAssumption DEF AssetInit
    <2>3. PICK segs \in [Segments -> Segment] : segs = segments
      BY <2>2
    <2>4. PICK left \in Rebuilt(board, segs) : left = shifts
      BY <2>2, <2>3
    <2> QED
      BY <2>2, <2>4, RebuiltFacts
  <1>2. AssetTypeOK
    BY <1>1, AssetsAssumption DEF AssetInit, AssetTypeOK
  <1>3. RowsSound /\ OneAdHoc /\ BookingsApart
    BY DEF AssetInit, RowsSound, OneAdHoc, BookingsApart, Booked
  <1> QED
    BY <1>2, <1>3 DEF ReservationInv

\* Every step of the part keeps the invariant.
LEMMA NextReservationInv ==
  ReservationInv /\ [AssetNext]_assetVars => ReservationInv'
  <1> SUFFICES ASSUME ReservationInv, [AssetNext]_assetVars
               PROVE  ReservationInv'
    OBVIOUS
  <1>1. CASE UNCHANGED assetVars
    <2>1. /\ UNCHANGED <<needs, assetType, shifts, segments>>
          /\ AssetTypeOK'
      BY <1>1 DEF assetVars, boardVars, catalogueVars, ReservationInv,
         AssetTypeOK
    <2>2. Reduced
      BY <2>1 DEF Reduced
    <2> QED
      BY <2>1, <2>2, ReducedKeeps
  <1>2. CASE CatalogueNext
    BY <1>2, CatalogueKeeps
  <1>3. CASE ReservationNext
    BY <1>3, SyncKeeps, ReserveKeeps, ReleaseKeeps, SetOperatorKeeps,
       AssignRequestKeeps, AssignAdHocKeeps, ReleaseShiftAssetKeeps,
       DesignateKeeps, CreateDirectKeeps, UpdateDirectKeeps,
       UpdateSegmentReservationKeeps, CreateSegmentReservationKeeps
       DEF ReservationNext
  <1>4. CASE BoardNext
    BY <1>4, MoveShiftKeeps, ReleaseShiftKeeps, PatchKeeps DEF BoardNext
  <1> QED
    BY <1>1, <1>2, <1>3, <1>4 DEF AssetNext

\* Windows that are disjoint have no day in common.
LEMMA ApartOnAnyDay == ReservationInv => NoDoubleBooking
  <1> SUFFICES ASSUME ReservationInv, NEW n \in Booked, NEW m \in Booked,
                      NEW day \in Days, n # m,
                      needs[n].booking.asset = needs[m].booking.asset,
                      Includes(needs[n].booking.span, day),
                      Includes(needs[m].booking.span, day)
               PROVE  FALSE
    BY DEF NoDoubleBooking
  <1>1. Disjoint(needs[m].booking.span, needs[n].booking.span)
    BY DEF ReservationInv, BookingsApart, Room, Booked
  <1>2. needs[n].booking.span \in Span /\ needs[m].booking.span \in Span
    BY RowFacts DEF Booked, Booking
  <1>3. PICK i, j, k, l :
          /\ i = needs[n].booking.span[1] /\ j = needs[n].booking.span[2]
          /\ k = needs[m].booking.span[1] /\ l = needs[m].booking.span[2]
    OBVIOUS
  <1>4. i \in Int /\ j \in Int /\ k \in Int /\ l \in Int /\ day \in Int
    BY <1>2, <1>3, AssetsAssumption DEF Span
  <1>5. /\ l < i \/ j < k
        /\ i <= day /\ day <= j /\ k <= day /\ day <= l
    BY <1>1, <1>3 DEF Disjoint, Includes
  <1> QED
    BY <1>4, <1>5

\* The needs, their reservations and the shifts belong together in every
\* reachable state, also while a PATCH overlaps other commands.
THEOREM ReservationInvariant == AssetSpec => []ReservationInv
  BY InitReservationInv, NextReservationInv, PTL DEF AssetSpec

\* No asset is reserved twice on a day, whatever commands reserve, move and
\* release, and whatever PATCH overlaps them.
THEOREM NeverDoubleBooked == AssetSpec => []NoDoubleBooking
  BY ReservationInvariant, ApartOnAnyDay, PTL

-----------------------------------------------------------------------------
(* What is booked follows what it was booked for.                          *)

\* A reservation and the shift, the approval or the segment it is for.
Follows(row, board, segs, line) ==
  row.booking # None =>
    /\ row.origin = "SHIFT_AD_HOC" =>
         /\ board[row.owner] # None
         /\ board[row.owner].locked /\ board[row.owner].source = "MANUAL"
         /\ row.booking.span = On(board[row.owner].day)
         /\ row.booking.operator = board[row.owner].resource
    /\ row.origin = "REQUEST" =>
         /\ line # None /\ row.type = line.type
         /\ Covers(line.span, row.booking.span)
    /\ row.origin = "SEGMENT" =>
         /\ segs[row.owner].status # "cancelled"
         /\ segs[row.owner].project = row.project
         /\ Covers(segs[row.owner].span, row.booking.span)

\* All of them do.
AllFollow ==
  \A n \in Needs : needs[n] # None =>
    Follows(needs[n], shifts, segments, approvedLine)

\* The PATCH under way will leave them so.
PatchStands == patch # None => PatchCompatible(patch.segment, patch.to)

\* The invariant when no PATCH overlaps.
FollowInv == ReservationInv /\ AllFollow /\ PatchStands

\* The invariant says what was promised.
LEMMA FollowsOwner == FollowInv => BookingFollowsOwner
  <1> SUFFICES ASSUME FollowInv PROVE BookingFollowsOwner
    OBVIOUS
  <1>1. ASSUME NEW n \in Booked
        PROVE  /\ Follows(needs[n], shifts, segments, approvedLine)
               /\ needs[n].booking # None
               /\ assetType[needs[n].booking.asset] = needs[n].type
    BY <1>1, RowFacts DEF FollowInv, AllFollow, Booked, RowSound
  <1>2. AdHocFollowsShift /\ BookedWithinSegment
    BY <1>1 DEF AdHocFollowsShift, BookedWithinSegment, Follows
  <1>3. BookedAsApproved
    BY <1>1 DEF BookedAsApproved, Follows
  <1> QED
    BY <1>2, <1>3 DEF BookingFollowsOwner

\* One need is written, the board stays.
LEMMA PlacedFollows ==
  ASSUME FollowInv, NEW n \in Needs, NEW row,
         needs' = [needs EXCEPT ![n] = row],
         row # None => Follows(row, shifts, segments, approvedLine),
         UNCHANGED <<approvedLine, shifts, segments>>
  PROVE  AllFollow'
  <1>1. /\ DOMAIN needs = Needs /\ needs'[n] = row
        /\ \A m \in Needs \ {n} : needs'[m] = needs[m]
    BY DEF FollowInv, ReservationInv, AssetTypeOK
  <1>2. ASSUME NEW m \in Needs, needs'[m] # None
        PROVE  Follows(needs'[m], shifts, segments, approvedLine)
    BY <1>1, <1>2 DEF FollowInv, AllFollow
  <1>3. ASSUME NEW m \in Needs, needs'[m] # None
        PROVE  Follows(needs'[m], shifts', segments', approvedLine')
    BY <1>2, <1>3
  <1> QED
    BY <1>3 DEF AllFollow

\* A window within a window within a window.
LEMMA CoversTransitive ==
  ASSUME NEW outer \in Span, NEW middle \in Span, NEW inner \in Span,
         Covers(outer, middle), Covers(middle, inner)
  PROVE  Covers(outer, inner)
  <1>1. /\ outer[1] \in Int /\ outer[2] \in Int /\ middle[1] \in Int
        /\ middle[2] \in Int /\ inner[1] \in Int /\ inner[2] \in Int
    BY AssetsAssumption DEF Span
  <1> QED
    BY <1>1 DEF Covers

\* A booking for a request stays within the approval.
LEMMA RequestBookedFollows ==
  ASSUME FollowInv, NEW n \in Needs, needs[n] # None,
         NEW booking \in Booking, RequestBookable(needs[n], booking, {n}),
         Book(n, needs[n], booking),
         UNCHANGED <<approvedLine, shifts, segments>>
  PROVE  AllFollow'
  <1>1. PICK row : row = [needs[n] EXCEPT !.booking = booking]
    OBVIOUS
  <1>2. needs[n] \in Need
    BY RowFacts DEF FollowInv
  <1>3. /\ row.booking = booking /\ row.origin = needs[n].origin
        /\ row.type = needs[n].type /\ row.owner = needs[n].owner
    BY <1>1, <1>2 DEF Need
  <1>4. /\ needs[n].origin = "REQUEST" /\ approvedLine # None
        /\ approvedLine.type = needs[n].type
        /\ Covers(approvedLine.span, needs[n].span)
        /\ Covers(needs[n].span, booking.span)
    BY DEF RequestBookable, RequestAuthority
  <1>5. /\ approvedLine.span \in Span /\ needs[n].span \in Span
        /\ booking.span \in Span
    BY <1>2, <1>4 DEF FollowInv, ReservationInv, AssetTypeOK, Line, Need,
       Booking
  <1>6. Covers(approvedLine.span, booking.span)
    BY <1>4, <1>5, CoversTransitive
  <1>7. Follows(row, shifts, segments, approvedLine)
    BY <1>3, <1>4, <1>6 DEF Follows
  <1>8. needs' = [needs EXCEPT ![n] = row]
    BY <1>1 DEF Book
  <1> QED
    BY <1>7, <1>8, PlacedFollows

\* Reserving for a request keeps within the approval and the shift.
LEMMA RequestCommandsFollow ==
  ASSUME FollowInv, NEW n \in Needs,
         \/ \E a \in Assets, span \in Span : Reserve(n, a, span)
         \/ \E r \in Resources \cup {None} : SetOperator(n, r)
         \/ \E q \in Shifts, a \in Assets, span \in Span :
              AssignRequestAsset(q, n, a, span)
  PROVE  AllFollow'
  <1> USE DEF FollowInv
  <1>1. ASSUME NEW a \in Assets, NEW span \in Span, Reserve(n, a, span)
        PROVE  AllFollow'
    <2>1. PICK booking :
            booking = [asset |-> a, span |-> span,
                       operator |-> IF needs[n].booking = None THEN None
                                    ELSE needs[n].booking.operator]
      OBVIOUS
    <2>2. /\ needs[n] # None /\ RequestBookable(needs[n], booking, {n})
          /\ Book(n, needs[n], booking)
          /\ UNCHANGED <<approvedLine, shifts, segments>>
      BY <1>1, <2>1 DEF Reserve
    <2>3. booking \in Booking
      BY <2>1, <2>2, RowFacts DEF Booking
    <2> QED
      BY <2>2, <2>3, RequestBookedFollows
  <1>2. ASSUME NEW r \in Resources \cup {None}, SetOperator(n, r)
        PROVE  AllFollow'
    <2>1. PICK booking : booking = [needs[n].booking EXCEPT !.operator = r]
      OBVIOUS
    <2>2. /\ needs[n] # None /\ RequestBookable(needs[n], booking, {n})
          /\ Book(n, needs[n], booking) /\ needs[n].booking # None
          /\ UNCHANGED <<approvedLine, shifts, segments>>
      BY <1>2, <2>1 DEF SetOperator
    <2>3. booking \in Booking
      BY <2>1, <2>2, RowFacts DEF Booking
    <2> QED
      BY <2>2, <2>3, RequestBookedFollows
  <1>3. ASSUME NEW q \in Shifts, NEW a \in Assets, NEW span \in Span,
               AssignRequestAsset(q, n, a, span)
        PROVE  AllFollow'
    <2>1. PICK operator :
            operator = IF needs[n].booking # None
                       THEN needs[n].booking.operator
                       ELSE IF required[needs[n].type] # {}
                            THEN shifts[q].resource ELSE None
      OBVIOUS
    <2>2. PICK booking :
            booking = [asset |-> a, operator |-> operator, span |-> span]
      OBVIOUS
    <2>3. /\ ShiftContext(q) /\ n \in ResolvedNeed(q, a)
          /\ RequestBookable(needs[n], booking, {n})
          /\ Book(n, needs[n], booking)
          /\ UNCHANGED <<approvedLine, shifts, segments>>
      BY <1>3, <2>1, <2>2 DEF AssignRequestAsset
    <2>4. needs[n] # None
      BY <2>3 DEF ResolvedNeed, AdHocNeeds, NeedsOf, AppliesToShift
    <2>5. shifts[q].resource \in Resources
      BY <2>3, ShiftFacts DEF ShiftContext
    <2>6. booking \in Booking
      BY <2>1, <2>2, <2>4, <2>5, RowFacts DEF Booking
    <2> QED
      BY <2>3, <2>4, <2>6, RequestBookedFollows
  <1> QED
    BY <1>1, <1>2, <1>3

\* A reservation that ends follows nothing.
LEMMA ReleasedFollows ==
  ASSUME FollowInv, NEW n \in Needs, needs[n] # None,
         needs' = [needs EXCEPT ![n] = WithoutReservation(n)],
         UNCHANGED <<approvedLine, shifts, segments>>
  PROVE  AllFollow'
  <1>1. PICK row : row = WithoutReservation(n)
    OBVIOUS
  <1>2. row # None => row.booking = None
    BY <1>1, RowFacts DEF WithoutReservation, FollowInv, Need
  <1> QED
    BY <1>1, <1>2, PlacedFollows DEF Follows

\* A revision is refused where it would leave a reservation outside.
LEMMA SyncFollows ==
  ASSUME FollowInv, NEW line \in Line \cup {None}, SyncRequestNeeds(line)
  PROVE  AllFollow'
  <1> DEFINE rows == NeedsOf("REQUEST", Request)
  <1>1. /\ approvedLine' = line /\ shifts' = shifts /\ segments' = segments
        /\ \A n \in rows : CompatibleWithLine(n, line)
    BY DEF SyncRequestNeeds
  <1>2. ASSUME NEW n \in Needs, needs[n] # None, n \notin rows
        PROVE  Follows(needs[n], shifts, segments, line)
    <2>1. needs[n].origin # "REQUEST"
      BY <1>2, RowFacts DEF FollowInv, RowSound, OwnerSound, NeedsOf
    <2> QED
      BY <1>2, <2>1 DEF FollowInv, AllFollow, Follows
  <1>3. ASSUME NEW n \in rows, line # None
        PROVE  Follows([needs[n] EXCEPT !.type = line.type,
                                        !.span = line.span],
                       shifts, segments, line)
    <2>1. n \in Needs /\ needs[n] # None /\ needs[n].origin = "REQUEST"
      BY DEF NeedsOf
    <2>2. needs[n] \in Need
      BY <2>1, RowFacts DEF FollowInv
    <2>3. PICK row : row = [needs[n] EXCEPT !.type = line.type,
                                            !.span = line.span]
      OBVIOUS
    <2>4. /\ row.origin = "REQUEST" /\ row.type = line.type
          /\ row.booking = needs[n].booking
      BY <2>1, <2>2, <2>3 DEF Need
    <2>5. row.booking # None => Covers(line.span, row.booking.span)
      BY <1>1, <2>1, <2>4 DEF CompatibleWithLine
    <2> QED
      BY <1>3, <2>3, <2>4, <2>5 DEF Follows
  <1>4. ASSUME NEW n \in Needs, needs'[n] # None
        PROVE  Follows(needs'[n], shifts, segments, line)
    <2>1. CASE /\ line = None
               /\ needs' = [m \in Needs |-> IF m \in rows THEN None
                                            ELSE needs[m]]
      BY <1>2, <1>4, <2>1
    <2>2. CASE /\ line # None
               /\ needs' = [m \in Needs |-> IF m \in rows
                              THEN [needs[m] EXCEPT !.type = line.type,
                                                    !.span = line.span]
                              ELSE needs[m]]
      <3>1. CASE n \in rows
        <4>1. needs'[n] = [needs[n] EXCEPT !.type = line.type,
                                           !.span = line.span]
          BY <2>2, <3>1
        <4> QED
          BY <1>3, <2>2, <3>1, <4>1
      <3>2. CASE n \notin rows
        BY <1>2, <1>4, <2>2, <3>2
      <3> QED
        BY <3>1, <3>2
    <2>3. CASE /\ line # None /\ rows = {}
               /\ \E m \in Free, p \in Projects :
                    needs' = [needs EXCEPT ![m] = NewRequestNeed(line, p)]
      <3>1. PICK m \in Free, p \in Projects :
              needs' = [needs EXCEPT ![m] = NewRequestNeed(line, p)]
        BY <2>3
      <3>2. CASE n = m
        <4>1. needs'[n] = NewRequestNeed(line, p)
          BY <3>1, <3>2 DEF FollowInv, ReservationInv, AssetTypeOK
        <4> QED
          BY <4>1 DEF Follows, NewRequestNeed
      <3>3. CASE n # m
        <4>1. needs'[n] = needs[n]
          BY <3>1, <3>3 DEF FollowInv, ReservationInv, AssetTypeOK
        <4> QED
          BY <1>2, <1>4, <2>3, <4>1
      <3> QED
        BY <3>2, <3>3
    <2> QED
      BY <2>1, <2>2, <2>3 DEF SyncRequestNeeds
  <1> QED
    BY <1>1, <1>4 DEF AllFollow

\* A shift that gets an asset, or loses one, stays where it is.
LEMMA AttachedStays ==
  ASSUME FollowInv, NEW q \in Shifts, shifts[q] # None,
         shifts' = [shifts EXCEPT ![q] = Attached(@)],
         NEW n \in Needs, needs[n] # None,
         UNCHANGED <<approvedLine, segments>>
  PROVE  Follows(needs[n], shifts', segments', approvedLine')
  <1>1. Follows(needs[n], shifts, segments, approvedLine)
    BY DEF FollowInv, AllFollow
  <1>2. /\ Attached(shifts[q]) # None /\ Attached(shifts[q]).locked
        /\ Attached(shifts[q]).source = "MANUAL"
        /\ Attached(shifts[q]).day = shifts[q].day
        /\ Attached(shifts[q]).resource = shifts[q].resource
    BY ShiftFacts, AssetsAssumption DEF FollowInv, Attached, Shift
  <1>3. \A p \in Shifts :
          shifts'[p] = IF p = q THEN Attached(shifts[q]) ELSE shifts[p]
    BY DEF FollowInv, ReservationInv, AssetTypeOK
  <1>4. needs[n].origin = "SHIFT_AD_HOC" => needs[n].owner \in Shifts
    BY RowFacts DEF FollowInv, RowSound, OwnerSound
  <1> QED
    BY <1>1, <1>2, <1>3, <1>4 DEF Follows

\* An ad hoc need is made for the day and the project of its shift.
LEMMA AssignAdHocFollows ==
  ASSUME FollowInv, NEW q \in Shifts, NEW a \in Assets,
         AssignAdHocAsset(q, a)
  PROVE  AllFollow'
  <1>1. PICK new : new = AdHocNeed(q, a)
    OBVIOUS
  <1>2. PICK booking :
          booking = [asset |-> a, operator |-> shifts[q].resource,
                     span |-> On(shifts[q].day)]
    OBVIOUS
  <1>3. PICK n \in Needs :
          /\ \/ n \in AdHocNeeds(q)
             \/ n \in Free /\ ResolvedNeed(q, a) = {}
          /\ Book(n, IF needs[n] = None THEN new
                     ELSE [needs[n] EXCEPT !.type = new.type,
                                           !.span = new.span], booking)
    BY <1>1, <1>2 DEF AssignAdHocAsset
  <1>4. PICK need :
          need = IF needs[n] = None THEN new
                 ELSE [needs[n] EXCEPT !.type = new.type, !.span = new.span]
    OBVIOUS
  <1>5. PICK row : row = [need EXCEPT !.booking = booking]
    OBVIOUS
  <1>6. /\ ShiftContext(q)
        /\ shifts' = [shifts EXCEPT ![q] = Attached(@)]
        /\ UNCHANGED <<approvedLine, segments>>
    BY DEF AssignAdHocAsset
  <1>7. /\ shifts[q] # None /\ shifts[q] \in Shift
        /\ Attached(shifts[q]) \in Shift
    BY <1>6, ShiftFacts DEF ShiftContext, FollowInv
  <1>8. /\ needs' = [needs EXCEPT ![n] = row] /\ needs'[n] = row
        /\ \A m \in Needs \ {n} : needs'[m] = needs[m]
    BY <1>3, <1>4, <1>5 DEF Book, FollowInv, ReservationInv, AssetTypeOK
  <1>9. /\ row.origin = "SHIFT_AD_HOC" /\ row.owner = q
        /\ row.booking = booking
    <2>1. CASE n \in Free
      BY <1>1, <1>4, <1>5, <2>1 DEF Free, AdHocNeed
    <2>2. CASE n \in AdHocNeeds(q)
      <3>1. /\ needs[n] # None /\ needs[n].origin = "SHIFT_AD_HOC"
            /\ needs[n].owner = q
        BY <2>2 DEF AdHocNeeds, NeedsOf
      <3>2. needs[n] \in Need
        BY <3>1, RowFacts DEF FollowInv
      <3> QED
        BY <1>4, <1>5, <3>1, <3>2 DEF Need
    <2> QED
      BY <1>3, <2>1, <2>2
  <1>10. Follows(row, shifts', segments', approvedLine')
    <2>1. /\ shifts'[q] # None /\ shifts'[q].locked
          /\ shifts'[q].source = "MANUAL"
          /\ shifts'[q].day = shifts[q].day
          /\ shifts'[q].resource = shifts[q].resource
      <3>1. shifts'[q] = Attached(shifts[q])
        BY <1>6 DEF FollowInv, ReservationInv, AssetTypeOK
      <3> QED
        BY <1>7, <3>1, AssetsAssumption DEF Attached, Shift
    <2> QED
      BY <1>2, <1>9, <2>1 DEF Follows
  <1>11. ASSUME NEW m \in Needs, needs'[m] # None
         PROVE  Follows(needs'[m], shifts', segments', approvedLine')
    BY <1>6, <1>7, <1>8, <1>10, <1>11, AttachedStays
  <1> QED
    BY <1>11 DEF AllFollow

\* Releasing the asset of a shift leaves the others as they are.
LEMMA ReleaseShiftAssetFollows ==
  ASSUME FollowInv, NEW q \in Shifts, ReleaseShiftAsset(q)
  PROVE  AllFollow'
  <1>1. PICK n \in ResolvedForRelease(q) :
          /\ n \in Booked
          /\ needs' = [needs EXCEPT ![n] = WithoutReservation(n)]
          /\ \/ shifts' = [shifts EXCEPT ![q] = Attached(@)]
             \/ UNCHANGED shifts
    BY DEF ReleaseShiftAsset
  <1>2. ShiftContext(q) /\ UNCHANGED <<approvedLine, segments>>
    BY DEF ReleaseShiftAsset
  <1>3. n \in Needs /\ needs[n] # None
    BY <1>1 DEF Booked
  <1>4. CASE UNCHANGED shifts
    BY <1>1, <1>2, <1>3, <1>4, ReleasedFollows
  <1>5. CASE shifts' = [shifts EXCEPT ![q] = Attached(@)]
    <2>1. /\ needs'[n] = WithoutReservation(n)
          /\ \A m \in Needs \ {n} : needs'[m] = needs[m]
      BY <1>1, <1>3 DEF FollowInv, ReservationInv, AssetTypeOK
    <2>2. needs'[n] # None => needs'[n].booking = None
      BY <1>3, <2>1, RowFacts DEF WithoutReservation, FollowInv, Need
    <2>3. ASSUME NEW m \in Needs, needs'[m] # None
          PROVE  Follows(needs'[m], shifts', segments', approvedLine')
      <3>1. CASE m = n
        BY <2>2, <2>3, <3>1 DEF Follows
      <3>2. CASE m # n
        BY <1>2, <1>5, <2>1, <2>3, <3>2, AttachedStays DEF ShiftContext
      <3> QED
        BY <3>1, <3>2
    <2> QED
      BY <2>3 DEF AllFollow
  <1> QED
    BY <1>1, <1>4, <1>5

\* Bookings of projects and people follow nothing that this part changes.
LEMMA DirectFollows ==
  ASSUME FollowInv, NEW n \in Needs, NEW row,
         needs' = [needs EXCEPT ![n] = row],
         row.origin \in {"PROJECT_DIRECT", "RESOURCE_PERIOD"},
         UNCHANGED <<approvedLine, shifts, segments>>
  PROVE  AllFollow'
  BY PlacedFollows DEF Follows

\* Their commands write such a row.
LEMMA DirectCommandsFollow ==
  ASSUME FollowInv,
         \/ CreateDirectReservation
         \/ \E q \in Shifts, n \in Needs : DesignateProjectOperator(q, n)
         \/ \E n \in Needs, a \in Assets, span \in Span,
               r \in Resources \cup {None} : UpdateDirect(n, a, span, r)
  PROVE  AllFollow'
  <1> DEFINE direct == {"PROJECT_DIRECT", "RESOURCE_PERIOD"}
  <1>1. CASE CreateDirectReservation
    <2>1. PICK a \in Assets, span \in Span,
               operator \in Resources \cup {None} :
            LET booking == [asset |-> a, operator |-> operator, span |-> span]
            IN \/ \E p \in Projects : CreateDirect(
                    NewNeed("PROJECT_DIRECT", p, p, a, span), booking)
               \/ \E r \in Resources : CreateDirect(
                    NewNeed("RESOURCE_PERIOD", r, None, a, span), booking)
      BY <1>1 DEF CreateDirectReservation
    <2>2. PICK booking :
            booking = [asset |-> a, operator |-> operator, span |-> span]
      OBVIOUS
    <2>3. ASSUME NEW origin \in direct, NEW owner, NEW project,
                 CreateDirect(NewNeed(origin, owner, project, a, span),
                              booking)
          PROVE  AllFollow'
      <3>1. PICK n \in Free :
              Book(n, NewNeed(origin, owner, project, a, span), booking)
        BY <2>3 DEF CreateDirect
      <3>2. PICK row :
              row = [NewNeed(origin, owner, project, a, span)
                       EXCEPT !.booking = booking]
        OBVIOUS
      <3>3. row.origin \in direct
        BY <3>2 DEF NewNeed
      <3>4. n \in Needs /\ needs' = [needs EXCEPT ![n] = row]
        BY <3>1, <3>2 DEF Book, Free
      <3>5. UNCHANGED <<approvedLine, shifts, segments>>
        BY <2>3 DEF CreateDirect
      <3> QED
        BY <3>3, <3>4, <3>5, DirectFollows
    <2>4. CASE \E p \in Projects : CreateDirect(
                 NewNeed("PROJECT_DIRECT", p, p, a, span), booking)
      BY <2>3, <2>4
    <2>5. CASE \E r \in Resources : CreateDirect(
                 NewNeed("RESOURCE_PERIOD", r, None, a, span), booking)
      BY <2>3, <2>5
    <2> QED
      BY <2>1, <2>2, <2>4, <2>5
  <1>2. ASSUME NEW q \in Shifts, NEW n \in Needs,
               DesignateProjectOperator(q, n)
        PROVE  AllFollow'
    <2>1. PICK row :
            row = [needs[n] EXCEPT !.booking =
                     [needs[n].booking EXCEPT !.operator = shifts[q].resource]]
      OBVIOUS
    <2>2. /\ needs[n] # None /\ needs[n].origin = "PROJECT_DIRECT"
          /\ needs' = [needs EXCEPT ![n] = row]
          /\ UNCHANGED <<approvedLine, shifts, segments>>
      BY <1>2, <2>1 DEF DesignateProjectOperator, Designable, Booked, Book
    <2>3. row.origin \in direct
      BY <2>1, <2>2, RowFacts DEF Need, FollowInv
    <2> QED
      BY <2>2, <2>3, DirectFollows
  <1>3. ASSUME NEW n \in Needs, NEW a \in Assets, NEW span \in Span,
               NEW r \in Resources \cup {None}, UpdateDirect(n, a, span, r)
        PROVE  AllFollow'
    <2>1. PICK need : need = [needs[n] EXCEPT !.span = span]
      OBVIOUS
    <2>2. PICK booking :
            booking = [asset |-> a, span |-> span,
                       operator |-> IF need.origin = "RESOURCE_PERIOD"
                                    THEN need.owner ELSE r]
      OBVIOUS
    <2>3. PICK row : row = [need EXCEPT !.booking = booking]
      OBVIOUS
    <2>6. /\ n \in Booked /\ need.origin \in direct
          /\ Book(n, need, booking)
          /\ UNCHANGED <<approvedLine, shifts, segments>>
      BY <1>3, <2>1, <2>2 DEF UpdateDirect
    <2>4. /\ n \in Booked /\ need.origin \in direct
          /\ needs' = [needs EXCEPT ![n] = row]
          /\ UNCHANGED <<approvedLine, shifts, segments>>
      BY <2>3, <2>6 DEF Book
    <2>5. row.origin = need.origin
      <3>1. needs[n] \in Need
        BY <2>4, RowFacts DEF Booked, FollowInv
      <3> QED
        BY <2>1, <2>3, <3>1 DEF Need
    <2> QED
      BY <2>4, <2>5, DirectFollows
  <1> QED
    BY <1>1, <1>2, <1>3

\* A segment reservation is accepted where the segment has room for it.
LEMMA SegmentFollows ==
  ASSUME FollowInv, NEW n \in Needs, NEW need, NEW booking,
         need.origin = "SEGMENT", SegmentBookable(need, booking, {}) \/
                                  SegmentBookable(need, booking, {n}),
         Book(n, need, booking),
         NEW row, row = [need EXCEPT !.booking = booking],
         row.booking = booking, row.origin = need.origin,
         row.owner = need.owner, row.project = need.project,
         UNCHANGED <<approvedLine, shifts, segments>>
  PROVE  AllFollow'
  <1>1. Follows(row, shifts, segments, approvedLine)
    BY DEF SegmentBookable, Follows
  <1>2. needs' = [needs EXCEPT ![n] = row]
    BY DEF Book
  <1> QED
    BY <1>1, <1>2, PlacedFollows

\* The two commands that make one.
LEMMA SegmentCommandsFollow ==
  ASSUME FollowInv, NEW a \in Assets, NEW span \in Span,
         NEW r \in Resources \cup {None},
         \/ \E g \in Segments : CreateSegmentReservation(g, a, span, r)
         \/ \E n \in Needs : UpdateSegmentReservation(n, a, span, r)
  PROVE  AllFollow'
  <1>1. PICK booking : booking = [asset |-> a, operator |-> r, span |-> span]
    OBVIOUS
  <1>2. ASSUME NEW g \in Segments, CreateSegmentReservation(g, a, span, r)
        PROVE  AllFollow'
    <2>1. PICK need : need = NewNeed("SEGMENT", g, segments[g].project, a, span)
      OBVIOUS
    <2>2. PICK n \in Free : Book(n, need, booking)
      BY <1>1, <1>2, <2>1 DEF CreateSegmentReservation
    <2>3. /\ SegmentBookable(need, booking, {}) /\ n \in Needs
          /\ UNCHANGED <<approvedLine, shifts, segments>>
      BY <1>1, <1>2, <2>1 DEF CreateSegmentReservation, Free
    <2>4. PICK row : row = [need EXCEPT !.booking = booking]
      OBVIOUS
    <2>5. /\ need.origin = "SEGMENT" /\ row.booking = booking
          /\ row.origin = need.origin /\ row.owner = need.owner
          /\ row.project = need.project
      BY <2>1, <2>4 DEF NewNeed
    <2> QED
      BY <2>2, <2>3, <2>4, <2>5, SegmentFollows
  <1>3. ASSUME NEW n \in Needs, UpdateSegmentReservation(n, a, span, r)
        PROVE  AllFollow'
    <2>1. PICK need : need = [needs[n] EXCEPT !.span = span]
      OBVIOUS
    <2>2. /\ SegmentBookable(need, booking, {n}) /\ Book(n, need, booking)
          /\ n \in Booked /\ need.origin = "SEGMENT"
          /\ UNCHANGED <<approvedLine, shifts, segments>>
      BY <1>1, <1>3, <2>1 DEF UpdateSegmentReservation
    <2>3. needs[n] \in Need
      BY <2>2, RowFacts DEF Booked, FollowInv
    <2>4. PICK row : row = [need EXCEPT !.booking = booking]
      OBVIOUS
    <2>5. /\ row.booking = booking
          /\ row.origin = need.origin /\ row.owner = need.owner
          /\ row.project = need.project
      BY <2>1, <2>3, <2>4 DEF Need
    <2> QED
      BY <2>2, <2>4, <2>5, SegmentFollows
  <1> QED
    BY <1>2, <1>3

\* A rebuild leaves the shifts that own a need: it fails otherwise.
LEMMA RebuildFollows ==
  ASSUME ReservationInv',
         NEW board \in [Shifts -> Shift \cup {None}],
         NEW segs \in [Segments -> Segment], NEW rows, rows = needs',
         Rebuild(board, segs, rows), segments' = segs,
         \A n \in Needs : needs'[n] # None =>
           Follows(needs'[n], board, segs, approvedLine')
  PROVE  AllFollow'
  <1>1. \A q \in Kept(board, segs) : shifts'[q] = board[q]
    BY RebuildFacts
  <1>2. \A n \in Needs :
          needs'[n] # None /\ needs'[n].origin = "SHIFT_AD_HOC" =>
            needs'[n].owner \in Kept(board, segs)
    BY RebuildFacts
  <1>3. ASSUME NEW n \in Needs, needs'[n] # None
        PROVE  Follows(needs'[n], shifts', segments', approvedLine')
    BY <1>1, <1>2, <1>3 DEF Follows
  <1> QED
    BY <1>3 DEF AllFollow

\* Of the other needs of the table, none belongs to the shift.
LEMMA OthersFollow ==
  ASSUME FollowInv, NEW q \in Shifts, NEW n \in Needs, needs[n] # None,
         n \notin AdHocNeeds(q),
         NEW board, \A p \in Shifts \ {q} : board[p] = shifts[p]
  PROVE  Follows(needs[n], board, segments, approvedLine)
  <1>1. Follows(needs[n], shifts, segments, approvedLine)
    BY DEF FollowInv, AllFollow
  <1>2. needs[n].origin = "SHIFT_AD_HOC" =>
          needs[n].owner \in Shifts \ {q}
    BY RowFacts DEF FollowInv, RowSound, OwnerSound, AdHocNeeds, NeedsOf
  <1> QED
    BY <1>1, <1>2 DEF Follows

\* A shift that moves takes its reservation along.
LEMMA MoveShiftFollows ==
  ASSUME FollowInv, NEW q \in Shifts, NEW day \in Days,
         NEW r \in Resources, MoveShift(q, day, r)
  PROVE  AllFollow'
  <1>1. PICK moved :
          moved = [shifts[q] EXCEPT !.day = day, !.resource = r,
                                    !.source = "MANUAL", !.locked = TRUE]
    OBVIOUS
  <1>2. PICK board : board = [shifts EXCEPT ![q] = moved]
    OBVIOUS
  <1>3. /\ shifts[q] # None
        /\ needs' = Synchronised(q, moved)
        /\ Rebuild(board, segments, needs')
        /\ UNCHANGED <<approvedLine, segments>>
    BY <1>1, <1>2 DEF MoveShift
  <1>4. /\ moved \in Shift /\ moved.day = day /\ moved.resource = r
        /\ moved.source = "MANUAL" /\ moved.locked
    BY <1>1, <1>3, ShiftFacts DEF Shift, FollowInv
  <1>5. /\ board \in [Shifts -> Shift \cup {None}] /\ board[q] = moved
        /\ \A p \in Shifts \ {q} : board[p] = shifts[p]
        /\ segments \in [Segments -> Segment]
    BY <1>2, <1>4 DEF FollowInv, ReservationInv, AssetTypeOK
  <1>6. ASSUME NEW n \in AdHocNeeds(q)
        PROVE  Follows(needs'[n], board, segments, approvedLine')
    <2>1. /\ n \in Needs /\ needs[n] # None
          /\ needs[n].origin = "SHIFT_AD_HOC" /\ needs[n].owner = q
      BY <1>6 DEF AdHocNeeds, NeedsOf
    <2>2. needs[n] \in Need /\ needs[n].booking \in Booking
      BY <2>1, RowFacts DEF RowSound, FollowInv
    <2>3. PICK booking :
            booking = [needs[n].booking EXCEPT !.span = On(day),
                                               !.operator = r]
      OBVIOUS
    <2>4. booking.span = On(day) /\ booking.operator = r
      BY <2>2, <2>3 DEF Booking
    <2>5. PICK row : row = [needs[n] EXCEPT !.span = On(day),
                                            !.booking = booking]
      OBVIOUS
    <2>6. row.booking = booking /\ row.origin = "SHIFT_AD_HOC" /\ row.owner = q
      BY <2>1, <2>2, <2>5 DEF Need
    <2>7. needs'[n] = row
      BY <1>3, <1>4, <2>1, <2>3, <2>5, <1>6 DEF Synchronised
    <2>8. Follows(row, board, segments, approvedLine')
      BY <1>4, <1>5, <2>4, <2>6, AssetsAssumption DEF Follows
    <2> QED
      BY <2>7, <2>8
  <1>7. ASSUME NEW n \in Needs, needs'[n] # None
        PROVE  Follows(needs'[n], board, segments, approvedLine')
    <2>1. CASE n \in AdHocNeeds(q)
      BY <1>6, <2>1
    <2>2. CASE n \notin AdHocNeeds(q)
      <3>1. needs'[n] = needs[n]
        BY <1>3, <2>2 DEF Synchronised
      <3>2. Follows(needs[n], board, segments, approvedLine)
        BY <1>5, <1>7, <2>2, <3>1, OthersFollow
      <3> QED
        BY <1>3, <3>1, <3>2
    <2> QED
      BY <2>1, <2>2
  <1>8. ReservationInv'
    BY MoveShiftKeeps DEF FollowInv
  <1> QED
    BY <1>3, <1>5, <1>7, <1>8, RebuildFollows

\* A shift without an asset is released; one that goes takes its need along.
LEMMA ReleaseShiftFollows ==
  ASSUME FollowInv, NEW q \in Shifts, ReleaseShift(q) \/ DeleteShift(q)
  PROVE  AllFollow'
  <1>1. ReservationInv'
    BY ReleaseShiftKeeps DEF FollowInv
  <1>2. /\ segments \in [Segments -> Segment] /\ segments' = segments
        /\ approvedLine' = approvedLine
        /\ shifts \in [Shifts -> Shift \cup {None}] /\ shifts[q] # None
    BY DEF ReleaseShift, DeleteShift, FollowInv, ReservationInv, AssetTypeOK
  <1>3. CASE ReleaseShift(q)
    <2>1. PICK board : board = [shifts EXCEPT ![q].locked = FALSE]
      OBVIOUS
    <2>2. /\ board \in [Shifts -> Shift \cup {None}]
          /\ \A p \in Shifts \ {q} : board[p] = shifts[p]
      BY <1>2, <2>1 DEF Shift
    <2>3. /\ needs' = needs /\ AdHocNeeds(q) = {}
          /\ Rebuild(board, segments, needs')
      BY <1>3, <2>1 DEF ReleaseShift
    <2>4. ASSUME NEW n \in Needs, needs'[n] # None
          PROVE  Follows(needs'[n], board, segments, approvedLine')
      BY <1>2, <2>2, <2>3, <2>4, OthersFollow
    <2> QED
      BY <1>1, <1>2, <2>2, <2>3, <2>4, RebuildFollows
  <1>4. CASE DeleteShift(q)
    <2>1. PICK board : board = [shifts EXCEPT ![q] = None]
      OBVIOUS
    <2>2. /\ board \in [Shifts -> Shift \cup {None}]
          /\ \A p \in Shifts \ {q} : board[p] = shifts[p]
      BY <1>2, <2>1
    <2>3. /\ needs' = [n \in Needs |-> IF n \in AdHocNeeds(q) THEN None
                                       ELSE needs[n]]
          /\ Rebuild(board, segments, needs')
      BY <1>4, <2>1 DEF DeleteShift
    <2>4. ASSUME NEW n \in Needs, needs'[n] # None
          PROVE  Follows(needs'[n], board, segments, approvedLine')
      <3>1. n \notin AdHocNeeds(q) /\ needs'[n] = needs[n]
        BY <2>3, <2>4
      <3> QED
        BY <1>2, <2>2, <2>4, <3>1, OthersFollow
    <2> QED
      BY <1>1, <1>2, <2>2, <2>3, <2>4, RebuildFollows
  <1> QED
    BY <1>3, <1>4

\* The PATCH that commits was compatible, and still is.
LEMMA CommitPatchFollows ==
  ASSUME FollowInv, CommitPatch
  PROVE  AllFollow'
  <1>1. ReservationInv'
    BY PatchKeeps DEF FollowInv
  <1>2. /\ patch \in Patch /\ needs' = needs /\ approvedLine' = approvedLine
        /\ segments' = [segments EXCEPT ![patch.segment] = patch.to]
        /\ PatchCompatible(patch.segment, patch.to)
        /\ Rebuild(shifts, segments', needs')
    BY DEF CommitPatch, FollowInv, PatchStands, ReservationInv, AssetTypeOK
  <1>3. PICK segs : segs = segments'
    OBVIOUS
  <1>4. /\ shifts \in [Shifts -> Shift \cup {None}]
        /\ segments \in [Segments -> Segment]
        /\ segs \in [Segments -> Segment]
    BY <1>1, <1>3 DEF FollowInv, ReservationInv, AssetTypeOK
  <1>5. ASSUME NEW n \in Needs, needs'[n] # None
        PROVE  Follows(needs'[n], shifts, segs, approvedLine')
    <2>1. /\ needs[n] # None
          /\ Follows(needs[n], shifts, segments, approvedLine)
      BY <1>2, <1>5 DEF FollowInv, AllFollow
    <2>2. needs[n].origin = "SEGMENT" => needs[n].owner \in Segments
      BY <2>1, RowFacts DEF FollowInv, RowSound, OwnerSound
    <2>3. patch.segment \in Segments
      BY <1>2 DEF Patch
    <2>4. ASSUME needs[n].origin = "SEGMENT", needs[n].booking # None
          PROVE  /\ segs[needs[n].owner].status # "cancelled"
                 /\ segs[needs[n].owner].project = needs[n].project
                 /\ Covers(segs[needs[n].owner].span, needs[n].booking.span)
      <3>1. CASE needs[n].owner = patch.segment
        <4>1. segs[needs[n].owner] = patch.to
          BY <1>2, <1>3, <1>4, <2>3, <3>1
        <4>2. n \in NeedsOf("SEGMENT", patch.segment) \cap Booked
          BY <2>1, <2>4, <3>1 DEF NeedsOf, Booked
        <4> QED
          BY <1>2, <4>1, <4>2 DEF PatchCompatible
      <3>2. CASE needs[n].owner # patch.segment
        <4>1. segs[needs[n].owner] = segments[needs[n].owner]
          BY <1>2, <1>3, <1>4, <2>2, <2>4, <3>2
        <4> QED
          BY <2>1, <2>4, <4>1 DEF Follows
      <3> QED
        BY <3>1, <3>2
    <2> QED
      BY <1>2, <2>1, <2>4 DEF Follows
  <1>6. Rebuild(shifts, segs, needs') /\ segments' = segs
    BY <1>2, <1>3
  <1> QED
    BY <1>1, <1>4, <1>5, <1>6, RebuildFollows

-----------------------------------------------------------------------------
(* The PATCH under way.                                                    *)

\* A command runs before a PATCH or after it, when they do not overlap.
LEMMA PatchAlone ==
  ASSUME ~Overlapping, FollowInv, AssetNext
  PROVE  PatchStands'
  <1>1. CASE \E g \in Segments, to \in Segment : BeginPatch(g, to)
    <2>1. PICK g \in Segments, to \in Segment : BeginPatch(g, to)
      BY <1>1
    <2>2. /\ PatchCompatible(g, to) /\ patch' = [segment |-> g, to |-> to]
          /\ needs' = needs
      BY <2>1 DEF BeginPatch
    <2>3. patch'.segment = g /\ patch'.to = to
      BY <2>2
    <2>4. PatchCompatible(patch'.segment, patch'.to)
      BY <2>2, <2>3
    <2> QED
      BY <2>2, <2>4 DEF PatchStands, PatchCompatible, NeedsOf, Booked
  <1>2. CASE CommitPatch \/ AbandonPatch
    BY <1>2 DEF CommitPatch, AbandonPatch, PatchStands
  <1>3. CASE Command /\ patch' = patch
    BY <1>3 DEF Command, PatchStands
  <1>4. CASE CatalogueNext
    BY <1>4, CatalogueLeavesBoard
       DEF FollowInv, PatchStands, PatchCompatible, NeedsOf, Booked
  <1>5. CASE ReservationNext
    <2> DEFINE alone == Command /\ patch' = patch
    <2>1. \A line \in Line \cup {None} :
            SyncRequestNeeds(line) => alone
      BY DEF SyncRequestNeeds
    <2>2. \A n \in Needs, a \in Assets, span \in Span :
            Reserve(n, a, span) => alone
      BY DEF Reserve
    <2>3. \A n \in Needs :
            ReleaseRequest(n) => alone
      BY DEF ReleaseRequest
    <2>4. \A n \in Needs :
            ReleaseDirect(n) => alone
      BY DEF ReleaseDirect
    <2>5. \A n \in Needs, r \in Resources \cup {None} :
            SetOperator(n, r) => alone
      BY DEF SetOperator
    <2>6. \A q \in Shifts, n \in Needs, a \in Assets, span \in Span :
            AssignRequestAsset(q, n, a, span) => alone
      BY DEF AssignRequestAsset
    <2>7. \A q \in Shifts, a \in Assets :
            AssignAdHocAsset(q, a) => alone
      BY DEF AssignAdHocAsset
    <2>8. \A q \in Shifts :
            ReleaseShiftAsset(q) => alone
      BY DEF ReleaseShiftAsset
    <2>9. \A q \in Shifts, n \in Needs :
            DesignateProjectOperator(q, n) => alone
      BY DEF DesignateProjectOperator
    <2>10. \A n \in Needs, a \in Assets, span \in Span, r \in Resources
           \cup {None} :
            UpdateDirect(n, a, span, r) => alone
      BY DEF UpdateDirect
    <2>11. \A n \in Needs, a \in Assets, span \in Span, r \in Resources
           \cup {None} :
            UpdateSegmentReservation(n, a, span, r) => alone
      BY DEF UpdateSegmentReservation
    <2>12. \A g \in Segments, a \in Assets, span \in Span, r \in Resources
           \cup {None} :
            CreateSegmentReservation(g, a, span, r) => alone
      BY DEF CreateSegmentReservation
    <2>13. CreateDirectReservation => alone
      BY DEF CreateDirectReservation, CreateDirect
    <2>14. alone
      BY <1>5, <2>1, <2>2, <2>3, <2>4, <2>5, <2>6, <2>7, <2>8, <2>9, <2>10,
         <2>11, <2>12, <2>13 DEF ReservationNext
    <2> QED
      BY <1>3, <2>14
  <1>6. CASE \/ \E q \in Shifts, day \in Days, r \in Resources :
                  MoveShift(q, day, r)
             \/ \E q \in Shifts : ReleaseShift(q) \/ DeleteShift(q)
    <2>1. Command /\ patch' = patch
      BY <1>6 DEF MoveShift, ReleaseShift, DeleteShift
    <2> QED
      BY <1>3, <2>1
  <1> QED
    BY <1>1, <1>2, <1>4, <1>5, <1>6 DEF AssetNext, BoardNext

\* Nothing is booked at the start.
LEMMA InitFollowInv == AssetInit => FollowInv
  BY InitReservationInv
     DEF AssetInit, FollowInv, AllFollow, PatchStands

\* Every command leaves the reservations behind what they are for.
LEMMA NextFollowInv ==
  ASSUME ~Overlapping
  PROVE  FollowInv /\ [AssetNext]_assetVars => FollowInv'
  <1> SUFFICES ASSUME FollowInv, [AssetNext]_assetVars PROVE FollowInv'
    OBVIOUS
  <1>1. ReservationInv'
    BY NextReservationInv DEF FollowInv
  <1>2. ASSUME UNCHANGED <<needs, approvedLine, shifts, segments>>
        PROVE  AllFollow'
    BY <1>2 DEF FollowInv, AllFollow
  <1>3. CASE UNCHANGED assetVars
    <2>1. /\ UNCHANGED <<needs, approvedLine, shifts, segments>>
          /\ UNCHANGED <<needs, patch>>
      BY <1>3 DEF assetVars, boardVars
    <2>2. PatchStands'
      BY <2>1 DEF FollowInv, PatchStands, PatchCompatible, NeedsOf, Booked
    <2> QED
      BY <1>1, <1>2, <2>1, <2>2 DEF FollowInv
  <1>4. CASE CatalogueNext
    <2>1. UNCHANGED <<needs, approvedLine, shifts, segments>>
      BY <1>4, CatalogueLeavesBoard
    <2> QED
      BY <1>1, <1>2, <1>4, <2>1, PatchAlone DEF FollowInv, AssetNext
  <1>5. CASE ReservationNext
    <2>1. AllFollow'
      <3>1. ASSUME NEW n \in Needs, ReleaseRequest(n) \/ ReleaseDirect(n)
            PROVE  AllFollow'
        BY <3>1, ReleasedFollows DEF ReleaseRequest, ReleaseDirect
      <3> QED
        BY <1>5, <3>1, SyncFollows, RequestCommandsFollow, AssignAdHocFollows,
           ReleaseShiftAssetFollows, DirectCommandsFollow,
           SegmentCommandsFollow DEF ReservationNext
    <2> QED
      BY <1>1, <1>5, <2>1, PatchAlone DEF FollowInv, AssetNext
  <1>6. CASE BoardNext
    <2>1. ASSUME NEW g \in Segments, NEW to \in Segment, BeginPatch(g, to)
          PROVE  AllFollow'
      BY <1>2, <2>1 DEF BeginPatch
    <2>2. ASSUME AbandonPatch
          PROVE  AllFollow'
      BY <1>2, <2>2 DEF AbandonPatch
    <2>3. AllFollow'
      BY <1>6, <2>1, <2>2, MoveShiftFollows, ReleaseShiftFollows,
         CommitPatchFollows DEF BoardNext
    <2> QED
      BY <1>1, <1>6, <2>3, PatchAlone DEF FollowInv, AssetNext
  <1> QED
    BY <1>3, <1>4, <1>5, <1>6 DEF AssetNext

\* When no PATCH overlaps another command, what is booked follows the shift,
\* the approval or the segment it was booked for, whatever the commands of
\* the catalogue, the board, the segments and the approvals do.
THEOREM BookingsFollowOwners ==
  ASSUME ~Overlapping
  PROVE  AssetSpec => []BookingFollowsOwner
  <1>1. AssetInit => FollowInv
    BY InitFollowInv
  <1>2. FollowInv /\ [AssetNext]_assetVars => FollowInv'
    BY NextFollowInv
  <1>3. FollowInv => BookingFollowsOwner
    BY FollowsOwner
  <1> QED
    BY <1>1, <1>2, <1>3, PTL DEF AssetSpec

-----------------------------------------------------------------------------
(* The dialog of a shift and the command it offers.                        *)

\* What the query has looked at is what the command looks at, but for the
\* days when the asset is away.
LEMMA OffersHold == ReservationInv => DesignationOffersHold
  <1> SUFFICES ASSUME ReservationInv, NEW q \in Shifts, ShiftContext(q),
                      NEW n \in OfferedForDesignation(q),
                      ~ \E absence \in absences :
                          /\ absence[1] = needs[n].booking.asset
                          /\ absence[2] # On(shifts[q].day)
               PROVE  Designable(q, n)
    BY DEF DesignationOffersHold
  <1>1. /\ n \in Booked /\ needs[n].origin = "PROJECT_DIRECT"
        /\ needs[n].owner = segments[shifts[q].segment].project
        /\ Includes(needs[n].booking.span, shifts[q].day)
        /\ AdHocNeeds(q) = {} /\ needs[n].booking.operator = None
        /\ ActiveAsset(needs[n].booking.asset)
        /\ shifts[q].resource \in activeResources
        /\ required[assetType[needs[n].booking.asset]]
             \subseteq skills[shifts[q].resource]
        /\ ~ \E absence \in absences :
               /\ absence[1] = needs[n].booking.asset
               /\ Includes(absence[2], shifts[q].day)
    BY DEF OfferedForDesignation, OfferedForDesignation_AnySkill
  <1>2. /\ n \in Needs /\ needs[n] # None /\ needs[n].booking # None
        /\ needs[n] \in Need /\ RowSound(needs[n])
        /\ needs[n].booking \in Booking
    BY <1>1, RowFacts DEF Booked
  <1>3. assetType[needs[n].booking.asset] = needs[n].type
    BY <1>2 DEF RowSound
  <1>4. PICK booking :
          booking = [needs[n].booking EXCEPT !.operator = shifts[q].resource]
    OBVIOUS
  <1>5. /\ booking.asset = needs[n].booking.asset
        /\ booking.span = needs[n].booking.span
        /\ booking.operator = shifts[q].resource
    BY <1>2, <1>4 DEF Booking
  <1>6. Available(booking.asset, booking.span, {n})
    <2>1. \A m \in Booked \ {n} :
            needs[m].booking.asset = booking.asset =>
              Disjoint(needs[m].booking.span, booking.span)
      BY <1>1, <1>2, <1>5 DEF ReservationInv, BookingsApart, Room
    <2>2. ASSUME NEW absence \in absences, absence[1] = booking.asset
          PROVE  FALSE
      <3>1. absence[2] = On(shifts[q].day)
        BY <1>5, <2>2
      <3>2. shifts[q].day \in Int
        BY ShiftFacts, AssetsAssumption DEF ShiftContext
      <3>3. Includes(absence[2], shifts[q].day)
        BY <3>1, <3>2 DEF Includes, On
      <3> QED
        BY <1>1, <1>5, <2>2, <3>3
    <2> QED
      BY <2>1, <2>2 DEF Available
  <1>7. HasCompatibleAssignment(needs[n], booking, shifts)
    BY <1>1, <1>2 DEF HasCompatibleAssignment, RowSound, OwnerSound
  <1>8. OperatorAccepted(needs[n], booking, shifts)
    BY <1>1, <1>3, <1>5, <1>7 DEF OperatorAccepted, Qualification
  <1>9. DirectBookable(needs[n], booking, {n})
    BY <1>1, <1>3, <1>5, <1>6, <1>8 DEF DirectBookable, Bookable
  <1> QED
    BY <1>1, <1>4, <1>9 DEF Designable

\* A designation that the dialog of a shift offers is accepted, but for a
\* period when the asset is away on another day.
THEOREM DesignationsHold == AssetSpec => []DesignationOffersHold
  BY ReservationInvariant, OffersHold, PTL

-----------------------------------------------------------------------------
(* The plan of shifts: what the rows are.                                  *)

\* A locked shift; the target of its segment may be nobody.
Decision == [segment: PlanSegments, day: Days, hours: Hours,
             resource: Resources \cup {None}]

\* The columns that decisions are taken from.  The hours of the replaceable
\* shifts are left out: they are sums.
ColumnsOK ==
  /\ window \in [PlanSegments -> Span]
  /\ planned \in [PlanSegments -> Hours]
  /\ status \in [PlanSegments -> {"open", "closed"}]
  /\ target \in [PlanSegments -> Resources \cup {None}]
  /\ approved \in [RequestPart -> Entry]
  /\ revision \in Nat
  /\ override \in [RequestPart -> WindowOverride \cup {None}]
  /\ budget \in [RequestPart -> Hours \cup {None}]

\* And the locked shifts.
RowsOK == ColumnsOK /\ locked \in [Quarts -> Decision \cup {None}]

\* What a source of a manual command is: a locked shift, or a shift in the
\* window of its segment.
LEMMA SourceFacts ==
  ASSUME RowsOK, NEW source \in Sources
  PROVE  /\ source[1] \in Quarts /\ source[2] \in Decision
         /\ \/ source[2] = locked[source[1]] /\ locked[source[1]] # None
            \/ /\ locked[source[1]] = None
               /\ Includes(window[source[2].segment], source[2].day)
  <1>1. CASE source \in {<<i, locked[i]>> : i \in Quarts \ Unused}
    BY <1>1 DEF Unused, RowsOK
  <1>2. CASE source \in Unused \X UNION {AutoSource(g) : g \in PlanSegments}
    <2>1. PICK g \in PlanSegments : source[2] \in AutoSource(g)
      BY <1>2
    <2>2. PICK day \in Days, hours \in HourChoices :
            /\ source[2] = Quart(g, day, target[g], hours)
            /\ Includes(window[g], day)
      BY <2>1 DEF AutoSource
    <2>3. /\ source[2] \in Decision /\ source[2].segment = g
          /\ source[2].day = day
      BY <2>2, ShiftPlanAssumption DEF Quart, Decision, RowsOK, ColumnsOK
    <2> QED
      BY <1>2, <2>2, <2>3 DEF Unused
  <1> QED
    BY <1>1, <1>2 DEF Sources

\* Hours that remain are hours.
LEMMA PartOfHours ==
  ASSUME NEW row \in Decision, NEW transfer \in TransferChoices,
         transfer < row.hours
  PROVE  [row EXCEPT !.hours = @ - transfer] \in Decision
  <1>1. row.hours - transfer \in Hours
    BY ShiftPlanAssumption DEF Decision, Hours
  <1> QED
    BY <1>1 DEF Decision

\* The resource that a component is aligned on is one of its choices.
LEMMA AlignedTyped ==
  ASSUME NEW rows \in [Quarts -> Decision \cup {None}],
         NEW targets \in [PlanSegments -> Resources \cup {None}],
         NEW states
  PROVE  AlignedTargets(rows, targets, states)
           \in [PlanSegments -> Resources \cup {None}]
  <1>1. ASSUME NEW g \in PlanSegments,
               ChosenResource(rows, targets, Group(states, g)) # {}
        PROVE  (CHOOSE r \in ChosenResource(rows, targets, Group(states, g)) :
                  TRUE) \in Resources \cup {None}
    <2>1. PICK group : group = Group(states, g)
      OBVIOUS
    <2>2. group \subseteq PlanSegments
      BY <2>1 DEF Group
    <2>3. ChosenResource(rows, targets, group) \subseteq Resources \cup {None}
      BY <2>2 DEF ChosenResource, LockedResources, LockedOn, Decision
    <2> QED
      BY <1>1, <2>1, <2>3
  <1> QED
    BY <1>1 DEF AlignedTargets

\* A rebuild writes what it was asked to, and loses the locked shifts of
\* segments that are closed.
LEMMA RebuildPlanFacts ==
  ASSUME NEW rows \in [Quarts -> Decision \cup {None}], NEW hours,
         NEW states, NEW targets \in [PlanSegments -> Resources \cup {None}],
         RebuildPlan(rows, hours, states, targets)
  PROVE  /\ planned' = hours /\ status' = states
         /\ locked' \in [Quarts -> Decision \cup {None}]
         /\ target' \in [PlanSegments -> Resources \cup {None}]
         /\ \A i \in Quarts :
              \/ locked'[i] = rows[i]
              \/ /\ locked'[i] = None /\ rows[i] # None
                 /\ states[rows[i].segment] # "open"
  <1>1. PICK kept : kept = KeptQuarts(rows, states)
    OBVIOUS
  <1>2. /\ planned' = hours /\ status' = states /\ locked' = kept
        /\ target' = AlignedTargets(kept, targets, states)
    BY <1>1 DEF RebuildPlan
  <1>3. kept \in [Quarts -> Decision \cup {None}]
    BY <1>1 DEF KeptQuarts
  <1>4. \A i \in Quarts : \/ kept[i] = rows[i]
                          \/ /\ kept[i] = None /\ rows[i] # None
                             /\ states[rows[i].segment] # "open"
    BY <1>1 DEF KeptQuarts
  <1> QED
    BY <1>2, <1>3, <1>4, AlignedTyped

-----------------------------------------------------------------------------
(* A decision on a segment.                                                *)

\* Hours that a person or a policy may plan are within the delegated fifth.
LEMMA WithinDelegation ==
  ASSUME NEW hours \in Hours, NEW entry \in Entry,
         hours > entry.hours => Delegated(hours, entry)
  PROVE  5 * hours <= 6 * entry.hours
  <1>1. hours \in Nat /\ entry.hours \in Nat
    BY ShiftPlanAssumption DEF Hours, Entry
  <1>2. PICK n \in Nat : n = entry.hours
    BY <1>1
  <1>3. CASE hours > n
    BY <1>2, <1>3 DEF Delegated
  <1>4. CASE ~(hours > n)
    BY <1>1, <1>2, <1>4
  <1> QED
    BY <1>3, <1>4

\* New hours of a segment, with the budget that records them.
LEMMA RebudgetedStays ==
  ASSUME ColumnsOK, PlannedIsBudgeted, NEW g \in PlanSegments,
         NEW hours \in Hours,
         g \in RequestPart /\ hours > approved[g].hours =>
           Delegated(hours, approved[g]),
         planned' = [planned EXCEPT ![g] = hours],
         budget' = WithBudget(g, hours), approved' = approved,
         \A h \in RequestPart : status'[h] = "open" => h = g \/ Open(h)
  PROVE  /\ PlannedIsBudgeted'
         /\ planned' \in [PlanSegments -> Hours]
         /\ budget' \in [RequestPart -> Hours \cup {None}]
  <1>1. planned' \in [PlanSegments -> Hours]
    BY DEF ColumnsOK
  <1>2. budget' \in [RequestPart -> Hours \cup {None}]
    BY DEF ColumnsOK, WithBudget, BudgetFor
  <1>3. ASSUME NEW h \in RequestPart, status'[h] = "open"
        PROVE  /\ planned'[h] = IF budget'[h] = None THEN approved[h].hours
                                ELSE budget'[h]
               /\ 5 * planned'[h] <= 6 * approved[h].hours
    <2>1. h \in PlanSegments
      BY ShiftPlanAssumption
    <2>2. CASE h = g
      <3>1. planned'[h] = hours /\ budget'[h] = BudgetFor(g, hours)
        BY <2>1, <2>2 DEF ColumnsOK, WithBudget
      <3>2. approved[h] \in Entry
        BY DEF ColumnsOK
      <3>3. 5 * hours <= 6 * approved[h].hours
        BY <2>2, <3>2, WithinDelegation
      <3> QED
        BY <2>2, <3>1, <3>3, ShiftPlanAssumption DEF BudgetFor
    <2>3. CASE h # g
      <3>1. planned'[h] = planned[h] /\ budget'[h] = budget[h] /\ Open(h)
        BY <1>3, <2>1, <2>3 DEF ColumnsOK, WithBudget
      <3> QED
        BY <3>1 DEF PlannedIsBudgeted
    <2> QED
      BY <2>2, <2>3
  <1> QED
    BY <1>1, <1>2, <1>3 DEF PlannedIsBudgeted, Open

\* The hours and the budget stay.
LEMMA BudgetStays ==
  ASSUME PlannedIsBudgeted,
         UNCHANGED <<planned, budget, approved>>,
         \A h \in RequestPart : status'[h] = "open" => Open(h)
  PROVE  PlannedIsBudgeted'
  BY DEF PlannedIsBudgeted, Open

\* A decision leaves hours that its policy has authorised.
LEMMA DecideFacts ==
  ASSUME RowsOK, PlannedIsBudgeted, NEW g \in PlanSegments,
         NEW rows \in [Quarts -> Decision \cup {None}], NEW stance,
         Decide(g, rows, stance)
  PROVE  /\ Open(g) /\ PlannedIsBudgeted'
         /\ planned' \in [PlanSegments -> Hours]
         /\ budget' \in [RequestPart -> Hours \cup {None}]
         /\ locked' \in [Quarts -> Decision \cup {None}]
         /\ target' \in [PlanSegments -> Resources \cup {None}]
         /\ UNCHANGED <<status, approved, revision>>
         /\ \A i \in Quarts :
              \/ locked'[i] = rows[i]
              \/ /\ locked'[i] = None /\ rows[i] # None
                 /\ status[rows[i].segment] # "open"
  <1>1. /\ Open(g) /\ PolicyApplied(g, rows, stance)
        /\ RebuildPlan(rows, PlannedAfter(g, rows, stance[1]), status, target)
        /\ UNCHANGED <<approved, revision>>
    BY DEF Decide
  <1>2. target \in [PlanSegments -> Resources \cup {None}]
    BY DEF RowsOK, ColumnsOK
  <1>3. /\ planned' = PlannedAfter(g, rows, stance[1]) /\ status' = status
        /\ locked' \in [Quarts -> Decision \cup {None}]
        /\ target' \in [PlanSegments -> Resources \cup {None}]
        /\ \A i \in Quarts :
             \/ locked'[i] = rows[i]
             \/ /\ locked'[i] = None /\ rows[i] # None
                /\ status[rows[i].segment] # "open"
    BY <1>1, <1>2, RebuildPlanFacts
  <1>4. PICK hours : hours = LockedHours(rows, g)
    OBVIOUS
  <1>5. hours \in Hours
    BY <1>1, <1>4 DEF PolicyApplied
  <1>6. /\ PlannedIsBudgeted'
        /\ planned' \in [PlanSegments -> Hours]
        /\ budget' \in [RequestPart -> Hours \cup {None}]
    <2>1. CASE Raised(g, rows, stance[1])
      <3>1. /\ planned' = [planned EXCEPT ![g] = hours]
            /\ budget' = WithBudget(g, hours)
            /\ PlannedAuthorised(g, hours, TRUE, stance[2])
        BY <1>1, <1>3, <1>4, <2>1 DEF PlannedAfter, PolicyApplied
      <3>2. g \in RequestPart /\ hours > approved[g].hours =>
              Delegated(hours, approved[g])
        BY <3>1 DEF PlannedAuthorised
      <3>3. \A h \in RequestPart : status'[h] = "open" => h = g \/ Open(h)
        BY <1>3 DEF Open
      <3> QED
        BY <1>1, <1>5, <3>1, <3>2, <3>3, RebudgetedStays DEF RowsOK
    <2>2. CASE ~Raised(g, rows, stance[1])
      <3>1. UNCHANGED <<planned, budget>>
        BY <1>1, <1>3, <2>2 DEF PlannedAfter, PolicyApplied
      <3>2. \A h \in RequestPart : status'[h] = "open" => Open(h)
        BY <1>3 DEF Open
      <3> QED
        BY <1>1, <3>1, <3>2, BudgetStays DEF RowsOK, ColumnsOK
    <2> QED
      BY <2>1, <2>2
  <1> QED
    BY <1>1, <1>3, <1>6

-----------------------------------------------------------------------------
(* Windows and the shifts in them.                                         *)

\* Is a shift of a request in the window of its segment?
Inside(row, windows) ==
  row.segment \in RequestPart => Includes(windows[row.segment], row.day)

\* Each locked shift of an open segment that approval rules is in its window.
InWindow(i) ==
  /\ locked[i] # None
  /\ status[locked[i].segment] = "open"
  => Inside(locked[i], window)

\* The two ways of saying so.
LEMMA InWindowEach ==
  ASSUME status \in [PlanSegments -> {"open", "closed"}],
         locked \in [Quarts -> Decision \cup {None}]
  PROVE  LockedInWindow <=> \A i \in Quarts : InWindow(i)
  BY DEF LockedInWindow, InWindow, Inside, LockedOn, Open

\* A window that a day stretches keeps its days and gains that one.
LEMMA StretchedCovers ==
  ASSUME NEW span \in Span, NEW day \in Days
  PROVE  /\ Stretched(span, day) \in Span
         /\ Covers(Stretched(span, day), span)
         /\ Includes(Stretched(span, day), day)
         /\ Includes(span, day) => Stretched(span, day) = span
  <1>1. PICK i \in Days, j \in Days : span = <<i, j>> /\ i <= j
    BY DEF Span
  <1>2. i \in Int /\ j \in Int /\ day \in Int
    BY ShiftPlanAssumption
  <1>3. Stretched(span, day) = <<IF day < i THEN day ELSE i,
                                 IF day > j THEN day ELSE j>>
    BY <1>1 DEF Stretched
  <1>4. PICK k \in Days, l \in Days :
          /\ k = IF day < i THEN day ELSE i
          /\ l = IF day > j THEN day ELSE j
    OBVIOUS
  <1>5. k \in Int /\ l \in Int /\ k <= i /\ j <= l /\ k <= day /\ day <= l
    BY <1>1, <1>2, <1>4
  <1>6. Stretched(span, day) = <<k, l>>
    BY <1>3, <1>4
  <1>7. Stretched(span, day) \in Span
    BY <1>1, <1>2, <1>5, <1>6 DEF Span
  <1>8. Includes(span, day) => k = i /\ l = j
    BY <1>1, <1>2, <1>4 DEF Includes
  <1> QED
    BY <1>1, <1>5, <1>6, <1>7, <1>8 DEF Covers, Includes

\* What is in a window is in a wider one.
LEMMA WiderIncludes ==
  ASSUME NEW outer \in Span, NEW inner \in Span, NEW day \in Days,
         Covers(outer, inner), Includes(inner, day)
  PROVE  Includes(outer, day)
  <1>1. PICK i, j, k, l : /\ i = outer[1] /\ j = outer[2]
                          /\ k = inner[1] /\ l = inner[2]
    OBVIOUS
  <1>2. i \in Int /\ j \in Int /\ k \in Int /\ l \in Int /\ day \in Int
    BY <1>1, ShiftPlanAssumption DEF Span
  <1>3. i <= k /\ l <= j /\ k <= day /\ day <= l
    BY <1>1 DEF Covers, Includes
  <1>4. i <= day /\ day <= j
    BY <1>2, <1>3
  <1> QED
    BY <1>1, <1>4 DEF Includes

\* Shifts that stay are in windows that only widen; new ones are inside.
LEMMA RowsStayInside ==
  ASSUME RowsOK, LockedInWindow, RowsOK',
         \A g \in RequestPart : Covers(window'[g], window[g]),
         \A g \in PlanSegments : status'[g] = "open" => Open(g),
         \A i \in Quarts : \/ locked'[i] = None
                           \/ locked'[i] = locked[i]
                           \/ status'[locked'[i].segment] = "open"
                                => Inside(locked'[i], window')
  PROVE  LockedInWindow'
  <1>1. ASSUME NEW i \in Quarts
        PROVE  InWindow(i)'
    <2>1. SUFFICES ASSUME locked'[i] # None, locked'[i] = locked[i],
                          status'[locked[i].segment] = "open",
                          locked[i].segment \in RequestPart
                   PROVE  Includes(window'[locked[i].segment], locked[i].day)
      BY DEF InWindow, Inside
    <2>2. PICK g \in RequestPart : g = locked[i].segment
      BY <2>1
    <2>3. PICK day \in Days : day = locked[i].day
      BY <2>1 DEF RowsOK, Decision
    <2>4. g \in PlanSegments
      BY ShiftPlanAssumption
    <2>5. Includes(window[g], day)
      <3>1. InWindow(i)
        BY InWindowEach DEF RowsOK, ColumnsOK
      <3> QED
        BY <2>1, <2>2, <2>3, <2>4, <3>1 DEF InWindow, Inside, Open
    <2>6. window[g] \in Span /\ window'[g] \in Span
      BY <2>4 DEF RowsOK, ColumnsOK
    <2> QED
      BY <2>2, <2>3, <2>5, <2>6, WiderIncludes
  <1> QED
    BY <1>1 DEF LockedInWindow, InWindow, Inside, LockedOn, Open

\* The shifts of an open segment that a manual command starts from are in its
\* window.
LEMMA SourceInside ==
  ASSUME RowsOK, LockedInWindow, NEW source \in Sources,
         Open(source[2].segment)
  PROVE  Inside(source[2], window)
  <1>1. CASE source[2] = locked[source[1]] /\ locked[source[1]] # None
    <2>1. InWindow(source[1])
      BY SourceFacts, InWindowEach DEF RowsOK, ColumnsOK
    <2> QED
      BY <1>1, <2>1 DEF InWindow, Open
  <1>2. CASE Includes(window[source[2].segment], source[2].day)
    BY <1>2 DEF Inside
  <1> QED
    BY <1>1, <1>2, SourceFacts

\* Nothing about windows changes.
LEMMA WindowsStay ==
  ASSUME WindowIsEffective,
         UNCHANGED <<approved, revision, override>>,
         \A g \in RequestPart : window'[g] = window[g],
         \A g \in RequestPart : status'[g] = "open" => Open(g)
  PROVE  WindowIsEffective'
  BY DEF WindowIsEffective, EffectiveWindow, Open

-----------------------------------------------------------------------------
(* Manual commands and composite ones.                                     *)

\* The invariant.
Authorised == RowsOK /\ SegmentAsAuthorised

\* A window covers itself.
LEMMA CoversItself ==
  ASSUME NEW span \in Span
  PROVE  Covers(span, span)
  <1>1. PICK i \in Days, j \in Days : span = <<i, j>>
    BY DEF Span
  <1> QED
    BY <1>1, ShiftPlanAssumption DEF Covers

\* A decision whose new shifts are inside windows that stay.
LEMMA DecidedInside ==
  ASSUME Authorised, NEW g \in PlanSegments,
         NEW rows \in [Quarts -> Decision \cup {None}], NEW stance,
         Decide(g, rows, stance),
         window' \in [PlanSegments -> Span], override' = override,
         \A h \in RequestPart : window'[h] = window[h],
         \A i \in Quarts : \/ rows[i] = None
                           \/ rows[i] = locked[i]
                           \/ Inside(rows[i], window)
  PROVE  Authorised'
  <1>1. /\ PlannedIsBudgeted'
        /\ planned' \in [PlanSegments -> Hours]
        /\ budget' \in [RequestPart -> Hours \cup {None}]
        /\ locked' \in [Quarts -> Decision \cup {None}]
        /\ target' \in [PlanSegments -> Resources \cup {None}]
        /\ UNCHANGED <<status, approved, revision>>
        /\ \A i \in Quarts : locked'[i] \in {rows[i], None}
    BY DecideFacts DEF Authorised, SegmentAsAuthorised
  <1>2. RowsOK'
    BY <1>1 DEF Authorised, RowsOK, ColumnsOK
  <1>3. WindowIsEffective'
    BY <1>1, WindowsStay DEF Authorised, SegmentAsAuthorised, Open
  <1>4. LockedInWindow'
    <2>1. \A h \in RequestPart : Covers(window'[h], window[h])
      BY CoversItself, ShiftPlanAssumption DEF Authorised, RowsOK, ColumnsOK
    <2>2. \A h \in PlanSegments : status'[h] = "open" => Open(h)
      BY <1>1 DEF Open
    <2>3. \A i \in Quarts : \/ locked'[i] = None
                            \/ locked'[i] = locked[i]
                            \/ Inside(locked'[i], window')
      BY <1>1 DEF Inside
    <2> QED
      BY <1>2, <2>1, <2>2, <2>3, RowsStayInside
         DEF Authorised, SegmentAsAuthorised
  <1> QED
    BY <1>1, <1>2, <1>3, <1>4 DEF Authorised, SegmentAsAuthorised

\* A shift as a command gives it.
LEMMA QuartTyped ==
  ASSUME NEW g \in PlanSegments, NEW day \in Days, NEW r \in Resources,
         NEW hours \in Hours
  PROVE  /\ Quart(g, day, r, hours) \in Decision
         /\ Quart(g, day, r, hours).segment = g
         /\ Quart(g, day, r, hours).day = day
  BY DEF Quart, Decision

\* A shift is created in the window of its segment.
LEMMA CreateManualKeeps ==
  ASSUME Authorised, NEW g \in PlanSegments, NEW day \in Days,
         NEW r \in Resources, NEW hours \in HourChoices, NEW stance,
         CreateManual(g, day, r, hours, stance)
  PROVE  Authorised'
  <1>1. PICK row : row = Quart(g, day, r, hours)
    OBVIOUS
  <1>2. row \in Decision /\ row.segment = g /\ row.day = day
    BY <1>1, QuartTyped, ShiftPlanAssumption
  <1>3. PICK i \in Unused : Decide(g, [locked EXCEPT ![i] = row], stance)
    BY <1>1 DEF CreateManual
  <1>4. PICK rows : rows = [locked EXCEPT ![i] = row]
    OBVIOUS
  <1>5. /\ Includes(window[g], day) /\ UNCHANGED <<window, override>>
        /\ i \in Quarts
    BY DEF CreateManual, Unused
  <1>6. /\ rows \in [Quarts -> Decision \cup {None}]
        /\ \A j \in Quarts : rows[j] = locked[j] \/ rows[j] = row
    BY <1>2, <1>4, <1>5 DEF Authorised, RowsOK
  <1>7. Inside(row, window)
    BY <1>2, <1>5 DEF Inside
  <1>8. /\ window' \in [PlanSegments -> Span] /\ override' = override
        /\ \A h \in RequestPart : window'[h] = window[h]
    BY <1>5 DEF Authorised, RowsOK, ColumnsOK
  <1> QED
    BY <1>3, <1>4, <1>6, <1>7, <1>8, DecidedInside

\* A shift moves within its window, which only an ad hoc segment takes along.
LEMMA UpdateManualKeeps ==
  ASSUME Authorised, NEW source \in Sources, NEW day \in Days,
         NEW r \in Resources, NEW hours \in Hours, NEW stance,
         UpdateManual(source, day, r, hours, stance)
  PROVE  Authorised'
  <1>1. PICK i, g : i = source[1] /\ g = source[2].segment
    OBVIOUS
  <1>2. i \in Quarts /\ g \in PlanSegments
    BY <1>1, SourceFacts DEF Authorised, Decision
  <1>3. PICK row : row = Quart(g, day, r, hours)
    OBVIOUS
  <1>4. row \in Decision /\ row.segment = g /\ row.day = day
    BY <1>2, <1>3, QuartTyped
  <1>5. PICK rows : rows = [locked EXCEPT ![i] = row]
    OBVIOUS
  <1>6. /\ Decide(g, rows, stance)
        /\ Includes(window[g], day) \/ g \notin RequestPart
        /\ window' = [window EXCEPT ![g] = Stretched(window[g], day)]
        /\ override' = override
    BY <1>1, <1>3, <1>5 DEF UpdateManual, WindowFor
  <1>7. /\ rows \in [Quarts -> Decision \cup {None}]
        /\ \A j \in Quarts : rows[j] = locked[j] \/ rows[j] = row
    BY <1>2, <1>4, <1>5 DEF Authorised, RowsOK
  <1>8. Inside(row, window)
    BY <1>4, <1>6 DEF Inside
  <1>9. window \in [PlanSegments -> Span] /\ window[g] \in Span
    BY <1>2 DEF Authorised, RowsOK, ColumnsOK
  <1>10. /\ window' \in [PlanSegments -> Span]
         /\ \A h \in RequestPart : window'[h] = window[h]
    BY <1>2, <1>6, <1>9, StretchedCovers, ShiftPlanAssumption
  <1> QED
    BY <1>2, <1>6, <1>7, <1>8, <1>10, DecidedInside

\* A shift leaves the window of an ad hoc segment only: what approval rules
\* is at least as wide as what is approved.
LEMMA ExtendAndMoveKeeps ==
  ASSUME Authorised, NEW source \in Sources, NEW day \in Days,
         NEW r \in Resources, NEW stance,
         ExtendAndMove(source, day, r, stance)
  PROVE  Authorised'
  <1>1. PICK i, g : i = source[1] /\ g = source[2].segment
    OBVIOUS
  <1>2. /\ i \in Quarts /\ g \in PlanSegments /\ source[2].hours \in Hours
    BY <1>1, SourceFacts DEF Authorised, Decision
  <1>3. PICK row : row = Quart(g, day, r, source[2].hours)
    OBVIOUS
  <1>4. row \in Decision /\ row.segment = g /\ row.day = day
    BY <1>2, <1>3, QuartTyped
  <1>5. PICK rows : rows = [locked EXCEPT ![i] = row]
    OBVIOUS
  <1>6. /\ Decide(g, rows, stance)
        /\ ~Includes(window[g], day)
        /\ g \in RequestPart => Includes(approved[g].window, day)
        /\ window' = [window EXCEPT ![g] = Stretched(window[g], day)]
        /\ override' = override
    BY <1>1, <1>3, <1>5 DEF ExtendAndMove, WindowFor
  <1>7. g \notin RequestPart
    <2>1. SUFFICES ASSUME g \in RequestPart PROVE FALSE
      OBVIOUS
    <2>2. Open(g)
      BY <1>6 DEF Decide
    <2>3. /\ window[g] = EffectiveWindow(g)
          /\ override[g] # None =>
               Covers(override[g].window, approved[g].window)
      BY <2>1, <2>2 DEF Authorised, SegmentAsAuthorised, WindowIsEffective
    <2>4. /\ window[g] \in Span /\ approved[g].window \in Span
          /\ override[g] # None => override[g].window \in Span
      BY <1>2, <2>1 DEF Authorised, RowsOK, ColumnsOK, Entry, WindowOverride
    <2>5. Covers(window[g], approved[g].window)
      BY <2>3, <2>4, CoversItself DEF EffectiveWindow
    <2> QED
      BY <1>6, <2>1, <2>4, <2>5, WiderIncludes
  <1>8. /\ rows \in [Quarts -> Decision \cup {None}]
        /\ \A j \in Quarts : rows[j] = locked[j] \/ rows[j] = row
    BY <1>2, <1>4, <1>5 DEF Authorised, RowsOK
  <1>9. Inside(row, window)
    BY <1>4, <1>7 DEF Inside
  <1>10. window \in [PlanSegments -> Span] /\ window[g] \in Span
    BY <1>2 DEF Authorised, RowsOK, ColumnsOK
  <1>11. /\ window' \in [PlanSegments -> Span]
         /\ \A h \in RequestPart : window'[h] = window[h]
    BY <1>2, <1>6, <1>7, <1>10, StretchedCovers, ShiftPlanAssumption
  <1> QED
    BY <1>2, <1>6, <1>8, <1>9, <1>11, DecidedInside

\* A part of a shift goes elsewhere in the window.
LEMMA SplitQuartKeeps ==
  ASSUME Authorised, NEW source \in Sources, NEW day \in Days,
         NEW r \in Resources, NEW transfer \in TransferChoices, NEW stance,
         SplitQuart(source, day, r, transfer, stance)
  PROVE  Authorised'
  <1>1. PICK i, g : i = source[1] /\ g = source[2].segment
    OBVIOUS
  <1>2. i \in Quarts /\ g \in PlanSegments /\ source[2] \in Decision
    BY <1>1, SourceFacts DEF Authorised, Decision
  <1>3. Includes(window[g], day) /\ transfer < source[2].hours
    BY <1>1 DEF SplitQuart
  <1>4. PICK row, rest :
          /\ row = Quart(g, day, r, transfer)
          /\ rest = [source[2] EXCEPT !.hours = @ - transfer]
    OBVIOUS
  <1>5. transfer \in Hours
    BY <1>2, <1>3, ShiftPlanAssumption DEF Hours, Decision
  <1>6. /\ row \in Decision /\ row.segment = g /\ row.day = day
        /\ rest \in Decision /\ rest.segment = g /\ rest.day = source[2].day
    <2>1. rest \in Decision
      BY <1>2, <1>3, <1>4, PartOfHours
    <2>2. rest.segment = g /\ rest.day = source[2].day
      BY <1>1, <1>2, <1>4 DEF Decision
    <2> QED
      BY <1>2, <1>4, <1>5, <2>1, <2>2, QuartTyped
  <1>7. PICK j \in Unused \ {i} :
          Decide(g, [locked EXCEPT ![i] = rest, ![j] = row], stance)
    BY <1>1, <1>4 DEF SplitQuart
  <1>8. PICK rows : rows = [locked EXCEPT ![i] = rest, ![j] = row]
    OBVIOUS
  <1>9. j \in Quarts
    BY <1>7 DEF Unused
  <1>10. /\ rows \in [Quarts -> Decision \cup {None}]
         /\ \A k \in Quarts :
              rows[k] = locked[k] \/ rows[k] = row \/ rows[k] = rest
    BY <1>2, <1>6, <1>8, <1>9 DEF Authorised, RowsOK
  <1>11. Inside(row, window) /\ Inside(rest, window)
    <2>1. Open(source[2].segment)
      BY <1>1, <1>7 DEF Decide
    <2>2. Inside(source[2], window)
      BY <2>1, SourceInside DEF Authorised, SegmentAsAuthorised
    <2> QED
      BY <1>1, <1>3, <1>6, <2>2 DEF Inside
  <1>12. /\ window' \in [PlanSegments -> Span] /\ override' = override
         /\ \A h \in RequestPart : window'[h] = window[h]
    BY DEF SplitQuart, Authorised, RowsOK, ColumnsOK
  <1> QED
    BY <1>2, <1>7, <1>8, <1>10, <1>11, <1>12, DecidedInside

\* A shift is given again elsewhere in the window.
LEMMA DuplicateQuartKeeps ==
  ASSUME Authorised, NEW source \in Sources, NEW day \in Days,
         NEW r \in Resources, NEW stance,
         DuplicateQuart(source, day, r, stance)
  PROVE  Authorised'
  <1>1. PICK i, g, rest :
          i = source[1] /\ g = source[2].segment /\ rest = source[2]
    OBVIOUS
  <1>2. /\ i \in Quarts /\ g \in PlanSegments /\ rest \in Decision
        /\ rest.hours \in Hours
    BY <1>1, SourceFacts DEF Authorised, Decision
  <1>3. PICK row : row = Quart(g, day, r, rest.hours)
    OBVIOUS
  <1>4. row \in Decision /\ row.segment = g /\ row.day = day
    BY <1>2, <1>3, QuartTyped
  <1>5. PICK j \in Unused \ {i} :
          Decide(g, [locked EXCEPT ![i] = rest, ![j] = row], stance)
    BY <1>1, <1>3 DEF DuplicateQuart
  <1>6. PICK rows : rows = [locked EXCEPT ![i] = rest, ![j] = row]
    OBVIOUS
  <1>7. j \in Quarts /\ Includes(window[g], day)
    BY <1>1, <1>5 DEF Unused, DuplicateQuart
  <1>8. /\ rows \in [Quarts -> Decision \cup {None}]
        /\ \A k \in Quarts :
             rows[k] = locked[k] \/ rows[k] = row \/ rows[k] = rest
    BY <1>2, <1>4, <1>6, <1>7 DEF Authorised, RowsOK
  <1>9. Inside(row, window) /\ Inside(rest, window)
    <2>1. Open(source[2].segment)
      BY <1>1, <1>5 DEF Decide
    <2>2. Inside(source[2], window)
      BY <2>1, SourceInside DEF Authorised, SegmentAsAuthorised
    <2> QED
      BY <1>1, <1>4, <1>7, <2>2 DEF Inside
  <1>10. /\ window' \in [PlanSegments -> Span] /\ override' = override
         /\ \A h \in RequestPart : window'[h] = window[h]
    BY DEF DuplicateQuart, Authorised, RowsOK, ColumnsOK
  <1> QED
    BY <1>2, <1>5, <1>6, <1>8, <1>9, <1>10, DecidedInside

\* A segment is assigned, or a shift is released: nothing else is decided.
LEMMA AssignKeeps ==
  ASSUME Authorised,
         \/ \E g \in PlanSegments, r \in Resources : AssignSegment(g, r)
         \/ \E i \in Quarts : ReleaseOrDelete(i)
  PROVE  Authorised'
  <1>1. PICK rows \in [Quarts -> Decision \cup {None}],
             targets \in [PlanSegments -> Resources \cup {None}] :
          /\ RebuildPlan(rows, planned, status, targets)
          /\ \A i \in Quarts : rows[i] \in {locked[i], None}
    <2>1. CASE \E i \in Quarts : ReleaseOrDelete(i)
      <3>1. PICK i \in Quarts : ReleaseOrDelete(i)
        BY <2>1
      <3>2. /\ [locked EXCEPT ![i] = None] \in [Quarts -> Decision \cup {None}]
            /\ target \in [PlanSegments -> Resources \cup {None}]
            /\ \A j \in Quarts :
                 [locked EXCEPT ![i] = None][j] \in {locked[j], None}
        BY DEF Authorised, RowsOK, ColumnsOK
      <3> QED
        BY <3>1, <3>2 DEF ReleaseOrDelete
    <2>2. CASE \E g \in PlanSegments, r \in Resources : AssignSegment(g, r)
      <3>1. PICK g \in PlanSegments, r \in Resources : AssignSegment(g, r)
        BY <2>2
      <3>2. PICK targets :
              targets = [h \in PlanSegments |->
                IF h = g \/ h \in Group(status, g) THEN r ELSE target[h]]
        OBVIOUS
      <3>3. targets \in [PlanSegments -> Resources \cup {None}]
        BY <3>2 DEF Authorised, RowsOK, ColumnsOK
      <3>4. RebuildPlan(locked, planned, status, targets)
        BY <3>1, <3>2 DEF AssignSegment
      <3> QED
        BY <3>3, <3>4 DEF Authorised, RowsOK
    <2> QED
      BY <2>1, <2>2
  <1>2. UNCHANGED <<window, approved, revision, override, budget>>
    BY DEF AssignSegment, ReleaseOrDelete
  <1>3. /\ planned' = planned /\ status' = status
        /\ locked' \in [Quarts -> Decision \cup {None}]
        /\ target' \in [PlanSegments -> Resources \cup {None}]
        /\ \A i \in Quarts : locked'[i] \in {locked[i], None}
    BY <1>1, RebuildPlanFacts
  <1>4. RowsOK'
    BY <1>2, <1>3 DEF Authorised, RowsOK, ColumnsOK
  <1>5. WindowIsEffective' /\ PlannedIsBudgeted'
    BY <1>2, <1>3, WindowsStay, BudgetStays
       DEF Authorised, SegmentAsAuthorised, Open
  <1>6. LockedInWindow'
    <2>1. \A g \in RequestPart : Covers(window'[g], window[g])
      BY <1>2, CoversItself, ShiftPlanAssumption
         DEF Authorised, RowsOK, ColumnsOK
    <2>2. \A g \in PlanSegments : status'[g] = "open" => Open(g)
      BY <1>3 DEF Open
    <2> QED
      BY <1>3, <1>4, <2>1, <2>2, RowsStayInside
         DEF Authorised, SegmentAsAuthorised
  <1> QED
    BY <1>4, <1>5, <1>6 DEF Authorised, SegmentAsAuthorised

-----------------------------------------------------------------------------
(* Overrides.                                                              *)

\* What an override says of its segment once it is granted.
LEMMA WidenedEffective ==
  ASSUME Authorised, NEW g \in RequestPart, NEW to \in Span, MayWiden(g, to),
         override' = Overridden(g, to),
         window' = [window EXCEPT ![g] = to],
         UNCHANGED <<status, approved, revision>>
  PROVE  /\ WindowIsEffective'
         /\ window' \in [PlanSegments -> Span]
         /\ override' \in [RequestPart -> WindowOverride \cup {None}]
         /\ \A h \in RequestPart : Covers(window'[h], window[h])
  <1>1. g \in PlanSegments /\ window \in [PlanSegments -> Span]
    BY ShiftPlanAssumption DEF Authorised, RowsOK, ColumnsOK
  <1>2. PICK row : row = [revision |-> revision, window |-> to]
    OBVIOUS
  <1>3. /\ row \in WindowOverride /\ row.revision = revision
        /\ row.window = to /\ row # None
    BY <1>2, ShiftPlanAssumption
       DEF WindowOverride, Authorised, RowsOK, ColumnsOK
  <1>4. /\ override' = [override EXCEPT ![g] = row]
        /\ override \in [RequestPart -> WindowOverride \cup {None}]
    BY <1>2 DEF Overridden, Authorised, RowsOK, ColumnsOK
  <1>5. \A h \in RequestPart :
          /\ override'[h] = IF h = g THEN row ELSE override[h]
          /\ window'[h] = IF h = g THEN to ELSE window[h]
    BY <1>1, <1>4, ShiftPlanAssumption
  <1>6. WindowIsEffective'
    BY <1>3, <1>5
       DEF MayWiden, WindowIsEffective, EffectiveWindow, Authorised,
       SegmentAsAuthorised, Open
  <1>7. \A h \in RequestPart : Covers(window'[h], window[h])
    BY <1>1, <1>5, CoversItself, ShiftPlanAssumption DEF MayWiden
  <1> QED
    BY <1>1, <1>3, <1>4, <1>6, <1>7

\* A window is widened by itself.
LEMMA ExtendPlanningWindowKeeps ==
  ASSUME Authorised, NEW g \in PlanSegments, NEW to \in Span,
         ExtendPlanningWindow(g, to)
  PROVE  Authorised'
  <1>1. /\ MayWiden(g, to) /\ override' = Overridden(g, to)
        /\ window' = [window EXCEPT ![g] = to]
        /\ RebuildPlan(locked, planned, status, target)
        /\ UNCHANGED <<approved, revision, budget>>
    BY DEF ExtendPlanningWindow
  <1>2. /\ locked \in [Quarts -> Decision \cup {None}]
        /\ target \in [PlanSegments -> Resources \cup {None}]
    BY DEF Authorised, RowsOK, ColumnsOK
  <1>3. /\ planned' = planned /\ status' = status
        /\ locked' \in [Quarts -> Decision \cup {None}]
        /\ target' \in [PlanSegments -> Resources \cup {None}]
        /\ \A i \in Quarts : locked'[i] \in {locked[i], None}
    BY <1>1, <1>2, RebuildPlanFacts
  <1>4. g \in RequestPart
    BY <1>1 DEF MayWiden
  <1>5. /\ WindowIsEffective'
        /\ window' \in [PlanSegments -> Span]
        /\ override' \in [RequestPart -> WindowOverride \cup {None}]
        /\ \A h \in RequestPart : Covers(window'[h], window[h])
    BY <1>1, <1>3, <1>4, WidenedEffective
  <1>6. RowsOK'
    BY <1>1, <1>3, <1>5 DEF Authorised, RowsOK, ColumnsOK
  <1>7. PlannedIsBudgeted'
    BY <1>1, <1>3, BudgetStays DEF Authorised, SegmentAsAuthorised, Open
  <1>8. LockedInWindow'
    BY <1>3, <1>5, <1>6, RowsStayInside
       DEF Authorised, SegmentAsAuthorised, Open
  <1> QED
    BY <1>5, <1>6, <1>7, <1>8 DEF Authorised, SegmentAsAuthorised

\* A window is widened for a shift that moves out of it.
LEMMA OverrideAndMoveKeeps ==
  ASSUME Authorised, NEW source \in Sources, NEW day \in Days,
         NEW r \in Resources, NEW stance,
         OverrideAndMove(source, day, r, stance)
  PROVE  Authorised'
  <1>1. PICK i, g : i = source[1] /\ g = source[2].segment
    OBVIOUS
  <1>2. /\ i \in Quarts /\ g \in PlanSegments /\ source[2].hours \in Hours
    BY <1>1, SourceFacts DEF Authorised, Decision
  <1>3. PICK to : to = Stretched(window[g], day)
    OBVIOUS
  <1>4. to \in Span /\ Includes(to, day)
    BY <1>2, <1>3, StretchedCovers DEF Authorised, RowsOK, ColumnsOK
  <1>5. PICK row : row = Quart(g, day, r, source[2].hours)
    OBVIOUS
  <1>6. row \in Decision /\ row.segment = g /\ row.day = day
    BY <1>2, <1>5, QuartTyped
  <1>7. PICK rows : rows = [locked EXCEPT ![i] = row]
    OBVIOUS
  <1>8. /\ g \in RequestPart /\ MayWiden(g, to)
        /\ Decide(g, rows, stance)
        /\ override' = Overridden(g, to)
        /\ window' = [window EXCEPT ![g] = to]
    BY <1>1, <1>3, <1>5, <1>7 DEF OverrideAndMove
  <1>9. /\ rows \in [Quarts -> Decision \cup {None}]
        /\ \A j \in Quarts : rows[j] = locked[j] \/ rows[j] = row
    BY <1>2, <1>6, <1>7 DEF Authorised, RowsOK
  <1>10. /\ PlannedIsBudgeted'
         /\ planned' \in [PlanSegments -> Hours]
         /\ budget' \in [RequestPart -> Hours \cup {None}]
         /\ locked' \in [Quarts -> Decision \cup {None}]
         /\ target' \in [PlanSegments -> Resources \cup {None}]
         /\ UNCHANGED <<status, approved, revision>>
         /\ \A j \in Quarts : locked'[j] \in {rows[j], None}
    BY <1>2, <1>8, <1>9, DecideFacts DEF Authorised, SegmentAsAuthorised
  <1>11. /\ WindowIsEffective'
         /\ window' \in [PlanSegments -> Span]
         /\ override' \in [RequestPart -> WindowOverride \cup {None}]
         /\ \A h \in RequestPart : Covers(window'[h], window[h])
    BY <1>4, <1>8, <1>10, WidenedEffective
  <1>12. RowsOK'
    BY <1>10, <1>11 DEF Authorised, RowsOK, ColumnsOK
  <1>13. LockedInWindow'
    <2>1. Inside(row, window')
      <3>1. window'[g] = to
        BY <1>2, <1>8 DEF Authorised, RowsOK, ColumnsOK
      <3> QED
        BY <1>4, <1>6, <3>1 DEF Inside
    <2>2. \A j \in Quarts : \/ locked'[j] = None
                            \/ locked'[j] = locked[j]
                            \/ Inside(locked'[j], window')
      BY <1>9, <1>10, <2>1
    <2>3. \A h \in PlanSegments : status'[h] = "open" => Open(h)
      BY <1>10 DEF Open
    <2> QED
      BY <1>11, <1>12, <2>2, <2>3, RowsStayInside
         DEF Authorised, SegmentAsAuthorised
  <1> QED
    BY <1>10, <1>11, <1>12, <1>13 DEF Authorised, SegmentAsAuthorised

-----------------------------------------------------------------------------
(* PATCH, approval, cancellation.                                          *)

\* A PATCH closes a segment, or changes hours within what is approved.
LEMMA PatchSegmentKeeps ==
  ASSUME ~Reopening, Authorised, NEW g \in PlanSegments, NEW to, NEW hours,
         NEW r \in Resources \cup {None}, NEW state \in {"open", "closed"},
         PatchSegment(g, to, hours, r, state)
  PROVE  Authorised'
  <1>1. PICK states, targets, rows, budgeted :
          /\ states = [status EXCEPT ![g] = state]
          /\ targets = [target EXCEPT ![g] = r]
          /\ rows = KeptQuarts(locked, states)
          /\ budgeted = [planned EXCEPT ![g] = hours]
    OBVIOUS
  <1>2. /\ hours \in 1 .. MaxHours /\ to \in PatchWindows(g)
        /\ Open(g) \/ state = "closed"
        /\ hours # planned[g] => PlannedAuthorised(g, hours, FALSE, FALSE)
        /\ budget' = IF hours # planned[g] THEN WithBudget(g, hours)
                     ELSE budget
        /\ window' = [window EXCEPT ![g] = to]
        /\ RebuildPlan(rows, budgeted, states, targets)
        /\ UNCHANGED <<approved, revision, override>>
    BY <1>1 DEF PatchSegment
  <1>3. /\ rows \in [Quarts -> Decision \cup {None}]
        /\ \A i \in Quarts : rows[i] \in {locked[i], None}
        /\ targets \in [PlanSegments -> Resources \cup {None}]
        /\ states \in [PlanSegments -> {"open", "closed"}]
    BY <1>1 DEF KeptQuarts, Authorised, RowsOK, ColumnsOK
  <1>4. /\ planned' = budgeted /\ status' = states
        /\ locked' \in [Quarts -> Decision \cup {None}]
        /\ target' \in [PlanSegments -> Resources \cup {None}]
        /\ \A i \in Quarts : locked'[i] \in {locked[i], None}
    BY <1>2, <1>3, RebuildPlanFacts
  <1>5. \A h \in PlanSegments : status'[h] = "open" => Open(h)
    BY <1>1, <1>2, <1>4 DEF Open, Authorised, RowsOK, ColumnsOK
  <1>6. hours \in Hours
    BY <1>2, ShiftPlanAssumption DEF Hours
  <1>7. /\ PlannedIsBudgeted'
        /\ planned' \in [PlanSegments -> Hours]
        /\ budget' \in [RequestPart -> Hours \cup {None}]
    <2>1. CASE hours # planned[g]
      <3>1. /\ budget' = WithBudget(g, hours)
            /\ planned' = [planned EXCEPT ![g] = hours]
        BY <1>1, <1>2, <1>4, <2>1
      <3>2. g \in RequestPart /\ hours > approved[g].hours =>
              Delegated(hours, approved[g])
        BY <1>2, <2>1 DEF PlannedAuthorised
      <3>3. \A h \in RequestPart : status'[h] = "open" => h = g \/ Open(h)
        BY <1>5, ShiftPlanAssumption
      <3> QED
        BY <1>2, <1>6, <3>1, <3>2, <3>3, RebudgetedStays
           DEF Authorised, SegmentAsAuthorised, RowsOK
    <2>2. CASE hours = planned[g]
      <3>1. UNCHANGED <<planned, budget, approved>>
        BY <1>1, <1>2, <1>4, <2>2 DEF Authorised, RowsOK, ColumnsOK
      <3>2. \A h \in RequestPart : status'[h] = "open" => Open(h)
        BY <1>5, ShiftPlanAssumption
      <3> QED
        BY <3>1, <3>2, BudgetStays
           DEF Authorised, SegmentAsAuthorised, RowsOK, ColumnsOK
    <2> QED
      BY <2>1, <2>2
  <1>8. /\ window' \in [PlanSegments -> Span]
        /\ \A h \in RequestPart : window'[h] = window[h]
    BY <1>2, ShiftPlanAssumption
       DEF PatchWindows, Authorised, RowsOK, ColumnsOK
  <1>9. RowsOK'
    BY <1>2, <1>3, <1>4, <1>7, <1>8 DEF Authorised, RowsOK, ColumnsOK
  <1>10. WindowIsEffective'
    BY <1>2, <1>5, <1>8, WindowsStay, ShiftPlanAssumption
       DEF Authorised, SegmentAsAuthorised
  <1>11. LockedInWindow'
    <2>1. \A h \in RequestPart : Covers(window'[h], window[h])
      BY <1>8, CoversItself, ShiftPlanAssumption
         DEF Authorised, RowsOK, ColumnsOK
    <2> QED
      BY <1>4, <1>5, <1>9, <2>1, RowsStayInside
         DEF Authorised, SegmentAsAuthorised
  <1> QED
    BY <1>7, <1>9, <1>10, <1>11 DEF Authorised, SegmentAsAuthorised

\* A revision replaces window and hours; the locked shifts fit them.
LEMMA ApproveRevisionKeeps ==
  ASSUME Authorised, NEW g \in RequestPart, NEW entry \in Entry,
         ApproveRevision(g, entry)
  PROVE  Authorised'
  <1>1. PICK entries : entries = [approved EXCEPT ![g] = entry]
    OBVIOUS
  <1>2. PICK hours :
          hours = [h \in PlanSegments |->
                     IF h \in RequestPart THEN entries[h].hours
                     ELSE planned[h]]
    OBVIOUS
  <1>3. /\ FitsApproval(entries) /\ approved' = entries
        /\ revision' = revision + 1
        /\ override' = [h \in RequestPart |-> None]
        /\ budget' = [h \in RequestPart |-> None]
        /\ window' = [h \in PlanSegments |->
             IF h \in RequestPart THEN entries[h].window ELSE window[h]]
    BY <1>1 DEF ApproveRevision, Retired
  <1>4. entries \in [RequestPart -> Entry]
    BY <1>1 DEF Authorised, RowsOK, ColumnsOK
  <1>5. /\ hours \in [PlanSegments -> Hours]
        /\ window' \in [PlanSegments -> Span]
    BY <1>2, <1>3, <1>4 DEF Entry, Authorised, RowsOK, ColumnsOK
  <1>6. /\ locked \in [Quarts -> Decision \cup {None}]
        /\ target \in [PlanSegments -> Resources \cup {None}]
        /\ status \in [PlanSegments -> {"open", "closed"}]
    BY DEF Authorised, RowsOK, ColumnsOK
  <1>7. PICK states \in [PlanSegments -> {"open", "closed"}],
             targets \in [PlanSegments -> Resources \cup {None}] :
          RebuildPlan(locked, hours, states, targets)
    <2>1. PICK renewed :
            RebuildPlan(locked, hours,
              [h \in PlanSegments |->
                 IF h \in renewed THEN "open" ELSE status[h]],
              [h \in PlanSegments |->
                 IF h \in renewed THEN None ELSE target[h]])
      <3>1. \E renewed :
              RebuildPlan(locked,
                [h \in PlanSegments |->
                   IF h \in RequestPart
                   THEN [approved EXCEPT ![g] = entry][h].hours
                   ELSE planned[h]],
                [h \in PlanSegments |->
                   IF h \in renewed THEN "open" ELSE status[h]],
                [h \in PlanSegments |->
                   IF h \in renewed THEN None ELSE target[h]])
        BY DEF ApproveRevision
      <3>2. hours = [h \in PlanSegments |->
                       IF h \in RequestPart
                       THEN [approved EXCEPT ![g] = entry][h].hours
                       ELSE planned[h]]
        BY <1>1, <1>2
      <3> QED
        BY <3>1, <3>2
    <2>2. PICK states, targets :
            /\ states = [h \in PlanSegments |->
                 IF h \in renewed THEN "open" ELSE status[h]]
            /\ targets = [h \in PlanSegments |->
                 IF h \in renewed THEN None ELSE target[h]]
      OBVIOUS
    <2>3. /\ states \in [PlanSegments -> {"open", "closed"}]
          /\ targets \in [PlanSegments -> Resources \cup {None}]
      BY <1>6, <2>2
    <2> QED
      BY <2>1, <2>2, <2>3
  <1>8. /\ planned' = hours /\ status' = states
        /\ locked' \in [Quarts -> Decision \cup {None}]
        /\ target' \in [PlanSegments -> Resources \cup {None}]
        /\ \A i \in Quarts : locked'[i] \in {locked[i], None}
    BY <1>6, <1>7, RebuildPlanFacts
  <1>9. RowsOK'
    BY <1>3, <1>4, <1>5, <1>7, <1>8 DEF Authorised, RowsOK, ColumnsOK
  <1>10. WindowIsEffective'
    BY <1>3, ShiftPlanAssumption DEF WindowIsEffective, EffectiveWindow
  <1>11. PlannedIsBudgeted'
    <2>1. ASSUME NEW h \in RequestPart
          PROVE  /\ planned'[h] = entries[h].hours /\ budget'[h] = None
                 /\ 5 * planned'[h] <= 6 * entries[h].hours
      <3>1. /\ planned'[h] = entries[h].hours /\ budget'[h] = None
            /\ entries[h].hours \in Nat
        BY <1>2, <1>3, <1>4, <1>8, ShiftPlanAssumption DEF Entry, Hours
      <3>2. PICK n \in Nat : n = entries[h].hours
        BY <3>1
      <3>3. 5 * n <= 6 * n
        OBVIOUS
      <3> QED
        BY <3>1, <3>2, <3>3
    <2> QED
      BY <1>3, <2>1 DEF PlannedIsBudgeted
  <1>12. LockedInWindow'
    <2>1. ASSUME NEW i \in Quarts
          PROVE  InWindow(i)'
      <3>1. SUFFICES ASSUME locked'[i] = locked[i], locked[i] # None,
                            locked[i].segment \in RequestPart
                     PROVE  Includes(window'[locked[i].segment],
                                     locked[i].day)
        BY <1>8 DEF InWindow, Inside
      <3>2. i \in LockedOn(locked, locked[i].segment)
        BY <3>1 DEF LockedOn
      <3>3. Includes(entries[locked[i].segment].window, locked[i].day)
        BY <1>3, <3>1, <3>2 DEF FitsApproval
      <3> QED
        BY <1>3, <3>1, <3>3, ShiftPlanAssumption
    <2> QED
      BY <2>1 DEF LockedInWindow, InWindow, Inside, LockedOn, Open
  <1> QED
    BY <1>9, <1>10, <1>11, <1>12 DEF Authorised, SegmentAsAuthorised

\* A request that is cancelled has no open segment left.
LEMMA CancelRequestPlanKeeps ==
  ASSUME Authorised, CancelRequestPlan
  PROVE  Authorised'
  <1>1. PICK states :
          states = [g \in PlanSegments |->
                      IF g \in RequestPart THEN "closed" ELSE status[g]]
    OBVIOUS
  <1>2. /\ override' = [g \in RequestPart |-> None]
        /\ RebuildPlan(locked, planned, states, target)
        /\ UNCHANGED <<window, approved, revision, budget>>
    BY <1>1 DEF CancelRequestPlan
  <1>3. /\ locked \in [Quarts -> Decision \cup {None}]
        /\ target \in [PlanSegments -> Resources \cup {None}]
        /\ states \in [PlanSegments -> {"open", "closed"}]
    BY <1>1 DEF Authorised, RowsOK, ColumnsOK
  <1>4. /\ planned' = planned /\ status' = states
        /\ locked' \in [Quarts -> Decision \cup {None}]
        /\ target' \in [PlanSegments -> Resources \cup {None}]
    BY <1>2, <1>3, RebuildPlanFacts
  <1>5. RowsOK'
    BY <1>2, <1>3, <1>4 DEF Authorised, RowsOK, ColumnsOK
  <1>6. \A g \in RequestPart : ~Open(g)'
    BY <1>1, <1>4, ShiftPlanAssumption DEF Open
  <1>7. SegmentAsAuthorised'
    BY <1>2, <1>6 DEF SegmentAsAuthorised, WindowIsEffective,
       PlannedIsBudgeted, LockedInWindow
  <1> QED
    BY <1>5, <1>7 DEF Authorised

\* The plan starts as it was approved.
LEMMA InitAuthorised == PlanInit => Authorised
  <1> SUFFICES ASSUME PlanInit PROVE Authorised
    OBVIOUS
  <1>1. RowsOK
    BY ShiftPlanAssumption DEF PlanInit, RowsOK, ColumnsOK, Entry
  <1>2. WindowIsEffective /\ LockedInWindow
    BY ShiftPlanAssumption
       DEF PlanInit, WindowIsEffective, EffectiveWindow, LockedInWindow,
       LockedOn
  <1>3. PlannedIsBudgeted
    <2>1. ASSUME NEW g \in RequestPart
          PROVE  /\ planned[g] = FirstApproval[g].hours /\ budget[g] = None
                 /\ approved[g] = FirstApproval[g]
                 /\ 5 * planned[g] <= 6 * approved[g].hours
      <3>1. /\ planned[g] = FirstApproval[g].hours /\ budget[g] = None
            /\ approved[g] = FirstApproval[g]
            /\ FirstApproval[g].hours \in Nat
        BY ShiftPlanAssumption DEF PlanInit, Entry, Hours
      <3>2. PICK n \in Nat : n = FirstApproval[g].hours
        BY <3>1
      <3>3. 5 * n <= 6 * n
        OBVIOUS
      <3> QED
        BY <3>1, <3>2, <3>3
    <2> QED
      BY <2>1 DEF PlannedIsBudgeted
  <1> QED
    BY <1>1, <1>2, <1>3 DEF Authorised, SegmentAsAuthorised

\* Every command keeps what somebody authorised.
LEMMA NextAuthorised ==
  ASSUME ~Reopening
  PROVE  Authorised /\ [PlanNext]_planVars => Authorised'
  <1> SUFFICES ASSUME Authorised, [PlanNext]_planVars PROVE Authorised'
    OBVIOUS
  <1>1. CASE UNCHANGED planVars
    BY <1>1 DEF planVars, Authorised, RowsOK, ColumnsOK, SegmentAsAuthorised,
       WindowIsEffective, EffectiveWindow, PlannedIsBudgeted, LockedInWindow,
       LockedOn, Open
  <1>2. CASE ManualNext
    <2>1. ASSUME NEW source \in Sources, NEW day \in Days,
                 NEW r \in Resources, MoveManual(source, day, r)
          PROVE  Authorised'
      <3>1. source[2].hours \in Hours
        BY SourceFacts DEF Authorised, Decision
      <3>2. UpdateManual(source, day, r, source[2].hours, <<None, FALSE>>)
        BY <2>1 DEF MoveManual
      <3> QED
        BY <3>1, <3>2, UpdateManualKeeps
    <2>2. ASSUME NEW source \in Sources, NEW day \in Days,
                 NEW r \in Resources, NEW hours \in HourChoices, NEW stance,
                 UpdateManual(source, day, r, hours, stance)
          PROVE  Authorised'
      BY <2>2, UpdateManualKeeps, ShiftPlanAssumption
    <2> QED
      BY <1>2, <2>1, <2>2, CreateManualKeeps, SplitQuartKeeps, AssignKeeps
         DEF ManualNext
  <1>3. CASE CompositeNext
    BY <1>3, ExtendAndMoveKeeps, DuplicateQuartKeeps, OverrideAndMoveKeeps,
       ExtendPlanningWindowKeeps DEF CompositeNext
  <1>4. CASE SegmentNext
    BY <1>4, AssignKeeps, PatchSegmentKeeps, ApproveRevisionKeeps,
       CancelRequestPlanKeeps, ShiftPlanAssumption DEF SegmentNext
  <1> QED
    BY <1>1, <1>2, <1>3, <1>4 DEF PlanNext

\* While no PATCH reopens a closed segment, each segment of a request has the
\* window and the hours that somebody authorised, and its locked shifts in
\* that window, after any sequence of commands.
THEOREM SegmentsAuthorised ==
  ASSUME ~Reopening
  PROVE  PlanSpec => []SegmentAsAuthorised
  <1>1. PlanInit => Authorised
    BY InitAuthorised
  <1>2. Authorised /\ [PlanNext]_planVars => Authorised'
    BY NextAuthorised
  <1>3. Authorised => SegmentAsAuthorised
    BY DEF Authorised
  <1> QED
    BY <1>1, <1>2, <1>3, PTL DEF PlanSpec

-----------------------------------------------------------------------------
(* What a rebuild must keep.                                               *)

\* The segments of a component are the component of each of them.
LEMMA GroupOfMember ==
  ASSUME NEW states, NEW g \in PlanSegments, NEW h \in Group(states, g)
  PROVE  h \in PlanSegments /\ Group(states, h) = Group(states, g)
  BY DEF Group

\* Locked shifts belong to open segments, and the targets of a component are
\* those a rebuild would give them again.
Aligned ==
  \A g \in PlanSegments :
    ChosenResource(locked, target, Group(status, g)) \subseteq {target[g]}

Settled ==
  /\ locked \in [Quarts -> LockedShift \cup {None}]
  /\ target \in [PlanSegments -> Resources \cup {None}]
  /\ \A g \in PlanSegments : auto[g] = 0 \/ target[g] # None
  /\ \A i \in Quarts : locked[i] # None => Open(locked[i].segment)
  /\ Aligned

\* What a step may do to a locked shift.
Upheld(i) ==
  /\ locked[i] # None /\ locked'[i] # locked[i]
  /\ status'[locked[i].segment] = "open"
  => /\ UNCHANGED <<status, approved, revision>>
     /\ \/ /\ locked' = [locked EXCEPT ![i] = None]
           /\ UNCHANGED <<window, planned, target, override, budget>>
        \/ /\ locked'[i] # None
           /\ locked'[i].segment = locked[i].segment
           /\ \A j \in Quarts \ {i} :
                locked[j] # None => locked'[j] = locked[j]

\* A rebuild aligns the targets once and for all.
LEMMA AlignedStays ==
  ASSUME NEW rows, NEW targets, NEW states,
         NEW aligned, aligned = AlignedTargets(rows, targets, states),
         SameResourceAgrees(rows, targets, states),
         NEW g \in PlanSegments
  PROVE  ChosenResource(rows, aligned, Group(states, g)) \subseteq {aligned[g]}
  <1>1. PICK group : group = Group(states, g)
    OBVIOUS
  <1>2. PICK chosen : chosen = ChosenResource(rows, targets, group)
    OBVIOUS
  <1>3. OneAtMost(chosen)
    BY <1>1, <1>2 DEF SameResourceAgrees
  <1>4. ASSUME NEW h \in group \cup {g}
        PROVE  aligned[h] = IF chosen # {} THEN CHOOSE r \in chosen : TRUE
                            ELSE targets[h]
    <2>1. h \in PlanSegments /\ Group(states, h) = group
      BY <1>1, <1>4, GroupOfMember
    <2> QED
      BY <1>2, <2>1 DEF AlignedTargets
  <1>5. CASE chosen # {}
    <2>1. \A h \in group \cup {g} : aligned[h] = CHOOSE r \in chosen : TRUE
      BY <1>4, <1>5
    <2>2. chosen \subseteq {aligned[g]}
      BY <1>3, <1>5, <2>1 DEF OneAtMost
    <2>3. \A h \in group : aligned[h] = aligned[g]
      BY <2>1
    <2>4. ChosenResource(rows, aligned, group) \subseteq {aligned[g]}
      BY <1>2, <2>2, <2>3 DEF ChosenResource
    <2> QED
      BY <1>1, <2>4
  <1>6. CASE chosen = {}
    <2>1. /\ LockedResources(rows, group) = {}
          /\ \A h \in group : targets[h] = None
      BY <1>2, <1>6 DEF ChosenResource
    <2>2. \A h \in group : aligned[h] = None
      BY <1>4, <1>6, <2>1
    <2>3. ChosenResource(rows, aligned, group) = {}
      BY <2>1, <2>2 DEF ChosenResource
    <2> QED
      BY <1>1, <2>3
  <1> QED
    BY <1>5, <1>6

\* Whatever a rebuild starts from, it settles.
LEMMA RebuildSettles ==
  ASSUME NEW rows \in [Quarts -> LockedShift \cup {None}], NEW hours,
         NEW states, NEW targets \in [PlanSegments -> Resources \cup {None}],
         RebuildPlan(rows, hours, states, targets)
  PROVE  /\ Settled'
         /\ status' = states
         /\ \A i \in Quarts :
              \/ locked'[i] = rows[i]
              \/ rows[i] # None /\ states[rows[i].segment] # "open"
  <1>1. PICK kept, aligned :
          /\ kept = KeptQuarts(rows, states)
          /\ aligned = AlignedTargets(kept, targets, states)
    OBVIOUS
  <1>2. /\ SameResourceAgrees(kept, targets, states)
        /\ locked' = kept /\ target' = aligned /\ status' = states
        /\ auto' = [g \in PlanSegments |->
             IF states[g] = "open" /\ aligned[g] # None
             THEN Excess(hours[g], LockedHours(kept, g)) ELSE 0]
    BY <1>1 DEF RebuildPlan
  <1>3. /\ kept \in [Quarts -> LockedShift \cup {None}]
        /\ \A i \in Quarts :
             /\ kept[i] # None => states[kept[i].segment] = "open"
             /\ \/ kept[i] = rows[i]
                \/ rows[i] # None /\ states[rows[i].segment] # "open"
    BY <1>1 DEF KeptQuarts
  <1>4. aligned \in [PlanSegments -> Resources \cup {None}]
    <2>1. kept \in [Quarts -> Decision \cup {None}]
      BY <1>3 DEF LockedShift, Decision
    <2> QED
      BY <1>1, <2>1, AlignedTyped
  <1>5. \A g \in PlanSegments :
          ChosenResource(kept, aligned, Group(states, g)) \subseteq {aligned[g]}
    BY <1>1, <1>2, AlignedStays
  <1>6. \A g \in PlanSegments : auto'[g] = 0 \/ target'[g] # None
    BY <1>2
  <1>7. Aligned'
    BY <1>2, <1>5 DEF Aligned
  <1> QED
    BY <1>2, <1>3, <1>4, <1>6, <1>7 DEF Settled, Open

\* A command that is about no locked shift leaves all those whose segment is
\* open.
LEMMA RebuildSparesAll ==
  ASSUME Settled, NEW rows \in [Quarts -> LockedShift \cup {None}], NEW hours,
         NEW states, NEW targets \in [PlanSegments -> Resources \cup {None}],
         RebuildPlan(rows, hours, states, targets),
         \A i \in Quarts :
           locked[i] # None /\ states[locked[i].segment] = "open" =>
             rows[i] = locked[i]
  PROVE  Settled' /\ \A i \in Quarts : Upheld(i)
  <1>1. /\ Settled' /\ status' = states
        /\ \A i \in Quarts :
             \/ locked'[i] = rows[i]
             \/ rows[i] # None /\ states[rows[i].segment] # "open"
    BY RebuildSettles
  <1>2. \A i \in Quarts : locked[i] # None
          /\ status'[locked[i].segment] = "open" => locked'[i] = locked[i]
    BY <1>1
  <1> QED
    BY <1>1, <1>2 DEF Upheld

\* A decision on the locked shift k leaves it to its segment, and the others.
LEMMA DecisionSparesOthers ==
  ASSUME Settled, NEW g, NEW rows \in [Quarts -> LockedShift \cup {None}],
         NEW stance, Decide(g, rows, stance), NEW k \in Quarts,
         \A i \in Quarts \ {k} : locked[i] # None => rows[i] = locked[i],
         locked[k] # None => /\ rows[k] # None
                             /\ rows[k].segment = locked[k].segment
  PROVE  Settled' /\ \A i \in Quarts : Upheld(i)
  <1>1. /\ RebuildPlan(rows, PlannedAfter(g, rows, stance[1]), status, target)
        /\ UNCHANGED <<approved, revision>>
    BY DEF Decide
  <1>2. target \in [PlanSegments -> Resources \cup {None}]
    BY DEF Settled
  <1>3. /\ Settled' /\ status' = status
        /\ \A i \in Quarts :
             \/ locked'[i] = rows[i]
             \/ rows[i] # None /\ status[rows[i].segment] # "open"
    BY <1>1, <1>2, RebuildSettles
  <1>4. \A i \in Quarts \ {k} : locked[i] # None => locked'[i] = locked[i]
    BY <1>3 DEF Settled, Open
  <1>5. locked[k] # None => /\ locked'[k] # None
                            /\ locked'[k].segment = locked[k].segment
    BY <1>3 DEF Settled, Open
  <1> QED
    BY <1>1, <1>3, <1>4, <1>5 DEF Upheld

\* Lifting the shift k leaves all else that was decided.
LEMMA LiftSparesOthers ==
  ASSUME Settled, NEW k \in Quarts, ReleaseOrDelete(k)
  PROVE  Settled' /\ \A i \in Quarts : Upheld(i)
  <1>1. PICK rows : rows = [locked EXCEPT ![k] = None]
    OBVIOUS
  <1>2. /\ locked \in [Quarts -> LockedShift \cup {None}]
        /\ target \in [PlanSegments -> Resources \cup {None}]
    BY DEF Settled
  <1>3. rows \in [Quarts -> LockedShift \cup {None}]
    BY <1>1, <1>2
  <1>4. /\ RebuildPlan(rows, planned, status, target)
        /\ UNCHANGED <<window, approved, revision, override, budget>>
    BY <1>1 DEF ReleaseOrDelete
  <1>5. Settled' /\ status' = status
    BY <1>2, <1>3, <1>4, RebuildSettles
  <1>6. KeptQuarts(rows, status) = rows
    <2>1. \A i \in Quarts :
            ~ (rows[i] # None /\ status[rows[i].segment] # "open")
      BY <1>1, <1>2 DEF Settled, Open
    <2> QED
      BY <1>3, <2>1 DEF KeptQuarts
  <1>7. ASSUME NEW g \in PlanSegments
        PROVE  ChosenResource(rows, target, Group(status, g))
                 \subseteq {target[g]}
    <2>1. PICK group : group = Group(status, g)
      OBVIOUS
    <2>2. LockedResources(rows, group) \subseteq LockedResources(locked, group)
      BY <1>1, <1>2 DEF LockedResources, LockedOn
    <2>3. \A h \in group : h \in PlanSegments /\ Group(status, h) = group
      BY <2>1, GroupOfMember
    <2>4. \A h \in group \cup {g} :
            ChosenResource(locked, target, group) \subseteq {target[h]}
      BY <2>1, <2>3 DEF Settled, Aligned
    <2>5. CASE LockedResources(locked, group) = {}
      <3>1. LockedResources(rows, group) = {}
        BY <2>2, <2>5
      <3>2. ChosenResource(rows, target, group)
              = ChosenResource(locked, target, group)
        BY <2>5, <3>1 DEF ChosenResource
      <3> QED
        BY <2>1, <2>4, <3>2
    <2>6. CASE LockedResources(locked, group) # {}
      <3>1. PICK r : r \in LockedResources(locked, group)
        BY <2>6
      <3>2. ChosenResource(locked, target, group)
              = LockedResources(locked, group)
        BY <2>6 DEF ChosenResource
      <3>3. \A h \in group \cup {g} : target[h] = r
        BY <2>4, <3>1, <3>2
      <3>4. LockedResources(rows, group) \subseteq {r}
        BY <2>2, <2>4, <3>2, <3>3
      <3>5. ChosenResource(rows, target, group) \subseteq {r}
        BY <3>3, <3>4 DEF ChosenResource
      <3> QED
        BY <2>1, <3>3, <3>5
    <2> QED
      BY <2>5, <2>6
  <1>8. AlignedTargets(rows, target, status) = target
    <2>1. ASSUME NEW g \in PlanSegments, NEW chosen,
                 chosen = ChosenResource(rows, target, Group(status, g)),
                 chosen # {}
          PROVE  (CHOOSE r \in chosen : TRUE) = target[g]
      BY <1>7, <2>1
    <2> QED
      BY <1>2, <2>1 DEF AlignedTargets
  <1>9. locked' = rows /\ target' = target /\ planned' = planned
    BY <1>4, <1>6, <1>8 DEF RebuildPlan
  <1>10. \A i \in Quarts : locked[i] # None /\ locked'[i] # locked[i] => i = k
    BY <1>1, <1>2, <1>9
  <1> QED
    BY <1>1, <1>4, <1>5, <1>9, <1>10 DEF Upheld

\* What a source was before its command.
LEMMA SourceRow ==
  ASSUME Settled, NEW source \in Sources
  PROVE  /\ source[1] \in Quarts /\ source[2] \in LockedShift
         /\ source[2] = locked[source[1]] \/ locked[source[1]] = None
  <1>1. CASE source \in {<<i, locked[i]>> : i \in Quarts \ Unused}
    BY <1>1 DEF Settled, Unused
  <1>2. CASE source \in Unused \X UNION {AutoSource(g) : g \in PlanSegments}
    <2>1. PICK g \in PlanSegments : source[2] \in AutoSource(g)
      BY <1>2
    <2>2. PICK day \in Days, hours \in HourChoices :
            source[2] = Quart(g, day, target[g], hours) /\ hours <= auto[g]
      BY <2>1 DEF AutoSource
    <2>3. hours \in Nat /\ hours # 0 /\ hours \in Hours
      BY ShiftPlanAssumption DEF Hours
    <2>4. auto[g] # 0
      BY <2>2, <2>3
    <2>5. target[g] \in Resources
      BY <2>4 DEF Settled
    <2>6. source[2] \in LockedShift
      BY <2>2, <2>3, <2>5 DEF Quart, LockedShift
    <2> QED
      BY <1>2, <2>6 DEF Unused
  <1> QED
    BY <1>1, <1>2 DEF Sources

\* One row is decided, on its own segment.
LEMMA OneRowDecided ==
  ASSUME Settled, NEW i \in Quarts, NEW row \in LockedShift, NEW g, NEW stance,
         Decide(g, [locked EXCEPT ![i] = row], stance),
         locked[i] # None => row.segment = locked[i].segment
  PROVE  Settled' /\ \A j \in Quarts : Upheld(j)
  <1>1. PICK rows : rows = [locked EXCEPT ![i] = row]
    OBVIOUS
  <1>2. locked \in [Quarts -> LockedShift \cup {None}] /\ row # None
    BY ShiftPlanAssumption DEF Settled
  <1>3. rows \in [Quarts -> LockedShift \cup {None}] /\ rows[i] = row
        /\ \A j \in Quarts \ {i} : rows[j] = locked[j]
    BY <1>1, <1>2
  <1> QED
    BY <1>1, <1>2, <1>3, DecisionSparesOthers

\* Or one row is decided and another one begun.
LEMMA TwoRowsDecided ==
  ASSUME Settled, NEW i \in Quarts, NEW rest \in LockedShift,
         NEW j \in Unused \ {i}, NEW row \in LockedShift, NEW g, NEW stance,
         Decide(g, [locked EXCEPT ![i] = rest, ![j] = row], stance),
         locked[i] # None => rest.segment = locked[i].segment
  PROVE  Settled' /\ \A k \in Quarts : Upheld(k)
  <1>1. PICK rows : rows = [locked EXCEPT ![i] = rest, ![j] = row]
    OBVIOUS
  <1>2. /\ locked \in [Quarts -> LockedShift \cup {None}] /\ rest # None
        /\ j \in Quarts /\ j # i /\ locked[j] = None
    BY ShiftPlanAssumption DEF Settled, Unused
  <1>3. rows \in [Quarts -> LockedShift \cup {None}] /\ rows[i] = rest
        /\ \A k \in Quarts \ {i} : locked[k] # None => rows[k] = locked[k]
    BY <1>1, <1>2
  <1> QED
    BY <1>1, <1>2, <1>3, DecisionSparesOthers

\* A manual shift command decides on the shift it names.
LEMMA ManualSparesOthers ==
  ASSUME Settled, ManualNext
  PROVE  Settled' /\ \A i \in Quarts : Upheld(i)
  <1>1. ASSUME NEW g \in PlanSegments, NEW day \in Days, NEW r \in Resources,
               NEW hours \in HourChoices, NEW stance,
               CreateManual(g, day, r, hours, stance)
        PROVE  Settled' /\ \A i \in Quarts : Upheld(i)
    <2>1. PICK i \in Unused :
            Decide(g, [locked EXCEPT ![i] = Quart(g, day, r, hours)], stance)
      BY <1>1 DEF CreateManual
    <2>2. Quart(g, day, r, hours) \in LockedShift
      BY ShiftPlanAssumption DEF Quart, LockedShift
    <2> QED
      BY <2>1, <2>2, OneRowDecided DEF Unused
  <1>2. ASSUME NEW source \in Sources, NEW day \in Days, NEW r \in Resources,
               NEW hours \in Hours, NEW stance,
               UpdateManual(source, day, r, hours, stance)
        PROVE  Settled' /\ \A i \in Quarts : Upheld(i)
    <2>1. Decide(source[2].segment,
            [locked EXCEPT ![source[1]] =
               Quart(source[2].segment, day, r, hours)], stance)
      BY <1>2 DEF UpdateManual
    <2>2. /\ source[1] \in Quarts /\ source[2] \in LockedShift
          /\ source[2] = locked[source[1]] \/ locked[source[1]] = None
      BY SourceRow
    <2>3. /\ Quart(source[2].segment, day, r, hours) \in LockedShift
          /\ Quart(source[2].segment, day, r, hours).segment
               = source[2].segment
      BY <2>2 DEF Quart, LockedShift
    <2> QED
      BY <2>1, <2>2, <2>3, OneRowDecided
  <1>3. ASSUME NEW source \in Sources, NEW day \in Days, NEW r \in Resources,
               MoveManual(source, day, r)
        PROVE  Settled' /\ \A i \in Quarts : Upheld(i)
    <2>1. source[2].hours \in Hours
      BY SourceRow DEF LockedShift
    <2> QED
      BY <1>2, <1>3, <2>1 DEF MoveManual
  <1>4. ASSUME NEW source \in Sources, NEW day \in Days, NEW r \in Resources,
               NEW transfer \in TransferChoices, NEW stance,
               SplitQuart(source, day, r, transfer, stance)
        PROVE  Settled' /\ \A i \in Quarts : Upheld(i)
    <2>1. PICK g, i, row : g = source[2].segment /\ i = source[1]
                           /\ row = source[2]
      OBVIOUS
    <2>2. /\ i \in Quarts /\ row \in LockedShift /\ row.segment = g
          /\ row = locked[i] \/ locked[i] = None
      BY <2>1, SourceRow
    <2>3. PICK rest, part : /\ rest = [row EXCEPT !.hours = @ - transfer]
                            /\ part = Quart(g, day, r, transfer)
      OBVIOUS
    <2>4. transfer \in Nat /\ transfer < row.hours
          /\ \E j \in Unused \ {i} :
               Decide(g, [locked EXCEPT ![i] = rest, ![j] = part], stance)
      BY <1>4, <2>1, <2>3, ShiftPlanAssumption DEF SplitQuart
    <2>5. row.hours \in Hours /\ transfer \in Hours
          /\ row.hours - transfer \in Hours
      BY <2>2, <2>4, ShiftPlanAssumption DEF LockedShift, Hours
    <2>6. rest \in LockedShift /\ part \in LockedShift /\ rest.segment = g
      BY <2>2, <2>3, <2>5 DEF Quart, LockedShift
    <2> QED
      BY <2>2, <2>4, <2>6, TwoRowsDecided
  <1>5. ASSUME NEW i \in Quarts, ReleaseOrDelete(i)
        PROVE  Settled' /\ \A j \in Quarts : Upheld(j)
    BY <1>5, LiftSparesOthers
  <1> QED
    BY <1>1, <1>2, <1>3, <1>4, <1>5, ShiftPlanAssumption DEF ManualNext

\* So does a composite one; a wider window decides on no shift.
LEMMA CompositeSparesOthers ==
  ASSUME Settled, CompositeNext
  PROVE  Settled' /\ \A i \in Quarts : Upheld(i)
  <1>1. ASSUME NEW source \in Sources, NEW day \in Days, NEW r \in Resources,
               NEW stance,
               \/ ExtendAndMove(source, day, r, stance)
               \/ OverrideAndMove(source, day, r, stance)
        PROVE  Settled' /\ \A i \in Quarts : Upheld(i)
    <2>1. PICK g, i, row : g = source[2].segment /\ i = source[1]
                           /\ row = Quart(g, day, r, source[2].hours)
      OBVIOUS
    <2>2. /\ i \in Quarts /\ source[2] \in LockedShift
          /\ source[2] = locked[i] \/ locked[i] = None
      BY <2>1, SourceRow
    <2>3. row \in LockedShift /\ row.segment = g
      BY <2>1, <2>2 DEF Quart, LockedShift
    <2>4. Decide(g, [locked EXCEPT ![i] = row], stance)
      BY <1>1, <2>1 DEF ExtendAndMove, OverrideAndMove
    <2> QED
      BY <2>1, <2>2, <2>3, <2>4, OneRowDecided
  <1>2. ASSUME NEW source \in Sources, NEW day \in Days, NEW r \in Resources,
               NEW stance, DuplicateQuart(source, day, r, stance)
        PROVE  Settled' /\ \A i \in Quarts : Upheld(i)
    <2>1. PICK g, i, row, copy : /\ g = source[2].segment /\ i = source[1]
                                 /\ row = source[2]
                                 /\ copy = Quart(g, day, r, row.hours)
      OBVIOUS
    <2>2. /\ i \in Quarts /\ row \in LockedShift /\ row.segment = g
          /\ row = locked[i] \/ locked[i] = None
      BY <2>1, SourceRow
    <2>3. copy \in LockedShift
      BY <2>1, <2>2 DEF Quart, LockedShift
    <2>4. PICK j \in Unused \ {i} :
            Decide(g, [locked EXCEPT ![i] = row, ![j] = copy], stance)
      BY <1>2, <2>1 DEF DuplicateQuart
    <2> QED
      BY <2>2, <2>3, <2>4, TwoRowsDecided
  <1>3. ASSUME NEW g, NEW to, ExtendPlanningWindow(g, to)
        PROVE  Settled' /\ \A i \in Quarts : Upheld(i)
    <2>1. /\ locked \in [Quarts -> LockedShift \cup {None}]
          /\ target \in [PlanSegments -> Resources \cup {None}]
      BY DEF Settled
    <2> QED
      BY <1>3, <2>1, RebuildSparesAll DEF ExtendPlanningWindow
  <1> QED
    BY <1>1, <1>2, <1>3 DEF CompositeNext

\* Assignment, PATCH, approval and cancellation decide on no shift, except
\* that a segment which closes loses its own.
LEMMA SegmentSparesOthers ==
  ASSUME Settled, SegmentNext
  PROVE  Settled' /\ \A i \in Quarts : Upheld(i)
  <1>1. /\ locked \in [Quarts -> LockedShift \cup {None}]
        /\ target \in [PlanSegments -> Resources \cup {None}]
    BY DEF Settled
  <1>2. ASSUME NEW g, NEW to, NEW hours, NEW r \in Resources \cup {None},
               NEW state, PatchSegment(g, to, hours, r, state)
        PROVE  Settled' /\ \A i \in Quarts : Upheld(i)
    <2>1. PICK states : states = [status EXCEPT ![g] = state]
      OBVIOUS
    <2>2. PICK rows : rows = KeptQuarts(locked, states)
      OBVIOUS
    <2>3. PICK targets : targets = [target EXCEPT ![g] = r]
      OBVIOUS
    <2>4. /\ rows \in [Quarts -> LockedShift \cup {None}]
          /\ \A i \in Quarts :
               locked[i] # None /\ states[locked[i].segment] = "open" =>
                 rows[i] = locked[i]
      BY <1>1, <2>2 DEF KeptQuarts
    <2>5. targets \in [PlanSegments -> Resources \cup {None}]
      BY <1>1, <2>3
    <2>6. RebuildPlan(rows, [planned EXCEPT ![g] = hours], states, targets)
      BY <1>2, <2>1, <2>2, <2>3 DEF PatchSegment
    <2> QED
      BY <2>4, <2>5, <2>6, RebuildSparesAll
  <1>3. ASSUME NEW g, NEW r \in Resources, AssignSegment(g, r)
        PROVE  Settled' /\ \A i \in Quarts : Upheld(i)
    <2>1. PICK targets :
            targets = [h \in PlanSegments |->
              IF h = g \/ h \in Group(status, g) THEN r ELSE target[h]]
      OBVIOUS
    <2>2. targets \in [PlanSegments -> Resources \cup {None}]
      BY <1>1, <2>1
    <2>3. RebuildPlan(locked, planned, status, targets)
      BY <1>3, <2>1 DEF AssignSegment
    <2> QED
      BY <1>1, <2>2, <2>3, RebuildSparesAll
  <1>4. ASSUME NEW g, NEW entry, ApproveRevision(g, entry)
        PROVE  Settled' /\ \A i \in Quarts : Upheld(i)
    <2>1. PICK hours, renewed :
            RebuildPlan(locked, hours,
              [h \in PlanSegments |->
                 IF h \in renewed THEN "open" ELSE status[h]],
              [h \in PlanSegments |->
                 IF h \in renewed THEN None ELSE target[h]])
      BY <1>4 DEF ApproveRevision
    <2>2. PICK states, targets :
            /\ states = [h \in PlanSegments |->
                 IF h \in renewed THEN "open" ELSE status[h]]
            /\ targets = [h \in PlanSegments |->
                 IF h \in renewed THEN None ELSE target[h]]
      OBVIOUS
    <2>3. targets \in [PlanSegments -> Resources \cup {None}]
      BY <1>1, <2>2
    <2>4. RebuildPlan(locked, hours, states, targets)
      BY <2>1, <2>2
    <2> QED
      BY <1>1, <2>3, <2>4, RebuildSparesAll
  <1>5. ASSUME CancelRequestPlan
        PROVE  Settled' /\ \A i \in Quarts : Upheld(i)
    BY <1>1, <1>5, RebuildSparesAll DEF CancelRequestPlan
  <1> QED
    BY <1>2, <1>3, <1>4, <1>5 DEF SegmentNext

\* As long as its segment is open, a locked shift changes only by a command
\* on that very shift, which either leaves it to its segment and the other
\* locked shifts as they are, or lifts it and leaves all else decided.
THEOREM DecisionsSurvive == PlanSpec => LockedDecisionsSurvive
  <1>1. PlanInit => Settled
    <2> SUFFICES ASSUME PlanInit PROVE Settled
      OBVIOUS
    <2>1. /\ locked \in [Quarts -> LockedShift \cup {None}]
          /\ target \in [PlanSegments -> Resources \cup {None}]
          /\ \A i \in Quarts : locked[i] = None
          /\ \A g \in PlanSegments : target[g] = None /\ auto[g] = 0
      BY DEF PlanInit
    <2>2. ASSUME NEW g \in PlanSegments
          PROVE  ChosenResource(locked, target, Group(status, g)) = {}
      <3>1. Group(status, g) \subseteq PlanSegments
        BY DEF Group
      <3> QED
        BY <2>1, <3>1 DEF ChosenResource, LockedResources, LockedOn
    <2> QED
      BY <2>1, <2>2 DEF Settled, Aligned
  <1>2. Settled /\ PlanNext => Settled' /\ \A i \in Quarts : Upheld(i)
    BY ManualSparesOthers, CompositeSparesOthers, SegmentSparesOthers
       DEF PlanNext
  <1>3. Settled /\ UNCHANGED planVars => Settled'
    <2> SUFFICES ASSUME Settled, UNCHANGED planVars PROVE Settled'
      OBVIOUS
    <2>1. UNCHANGED <<status, target, locked, auto>>
      BY DEF planVars
    <2>2. Aligned'
      BY <2>1 DEF Settled, Aligned
    <2> QED
      BY <2>1, <2>2 DEF Settled, Open
  <1>4. Settled /\ [PlanNext]_planVars => Settled'
    BY <1>2, <1>3
  <1>5. Settled /\ [PlanNext]_planVars
          => [\A i \in Quarts : Upheld(i)]_planVars
    BY <1>2
  <1>6. [][\A i \in Quarts : Upheld(i)]_planVars => LockedDecisionsSurvive
    BY DEF Upheld, LockedDecisionsSurvive
  <1> QED
    BY <1>1, <1>4, <1>5, <1>6, PTL DEF PlanSpec

-----------------------------------------------------------------------------
(* One resource per component.                                             *)

\* A rebuild aligns the targets of a component on the resource of its locked
\* shifts, or is refused.
LEMMA RebuildAligns ==
  ASSUME NEW rows, NEW hours, NEW states, NEW targets,
         RebuildPlan(rows, hours, states, targets)
  PROVE  OneResourcePerComponent'
  <1>1. PICK kept, aligned :
          /\ kept = KeptQuarts(rows, states)
          /\ aligned = AlignedTargets(kept, targets, states)
    OBVIOUS
  <1>2. /\ SameResourceAgrees(kept, targets, states)
        /\ locked' = kept /\ target' = aligned /\ status' = states
        /\ auto' = [g \in PlanSegments |->
             IF states[g] = "open" /\ aligned[g] # None
             THEN Excess(hours[g], LockedHours(kept, g)) ELSE 0]
    BY <1>1 DEF RebuildPlan
  <1>3. ASSUME NEW g \in PlanSegments, NEW group, group = Group(states, g)
        PROVE  OneAtMost(LockedResources(kept, group) \cup
                 {aligned[h] : h \in {h \in group : auto'[h] > 0}})
    <2>1. PICK chosen : chosen = ChosenResource(kept, targets, group)
      OBVIOUS
    <2>2. OneAtMost(chosen)
      BY <1>2, <1>3, <2>1 DEF SameResourceAgrees
    <2>3. LockedResources(kept, group) \subseteq chosen
      BY <2>1 DEF ChosenResource
    <2>4. ASSUME NEW h \in group, auto'[h] > 0
          PROVE  aligned[h] \in chosen
      <3>1. h \in PlanSegments /\ Group(states, h) = group
        BY <1>3, GroupOfMember
      <3>2. aligned[h] # None
        BY <1>2, <2>4, <3>1
      <3>3. aligned[h] = IF chosen # {} THEN CHOOSE r \in chosen : TRUE
                         ELSE targets[h]
        BY <1>1, <2>1, <3>1 DEF AlignedTargets
      <3>4. CASE chosen # {}
        BY <3>3, <3>4
      <3>5. CASE chosen = {}
        <4>1. {targets[x] : x \in group} \ {None} = {}
          BY <2>1, <3>5 DEF ChosenResource
        <4> QED
          BY <3>2, <3>3, <3>5, <4>1
      <3> QED
        BY <3>4, <3>5
    <2> QED
      BY <2>2, <2>3, <2>4 DEF OneAtMost
  <1>4. ASSUME NEW g \in PlanSegments
        PROVE  OneAtMost(LockedResources(locked', Group(status', g)) \cup
                 {target'[h] : h \in {h \in Group(status', g) : auto'[h] > 0}})
    BY <1>2, <1>3
  <1> QED
    BY <1>4 DEF OneResourcePerComponent

\* The shifts of a SAME_AS_PERIOD component are all worked by one resource.
THEOREM OneResource == PlanSpec => []OneResourcePerComponent
  <1>1. PlanInit => OneResourcePerComponent
    <2> SUFFICES ASSUME PlanInit, NEW g \in PlanSegments
                 PROVE  LockedResources(locked, Group(status, g)) = {} /\
                        {h \in Group(status, g) : auto[h] > 0} = {}
      BY DEF OneResourcePerComponent, OneAtMost
    <2>1. Group(status, g) \subseteq PlanSegments
      BY DEF Group
    <2> QED
      BY <2>1 DEF PlanInit, LockedResources, LockedOn
  <1>2. OneResourcePerComponent /\ [PlanNext]_planVars
          => OneResourcePerComponent'
    <2> SUFFICES ASSUME OneResourcePerComponent, [PlanNext]_planVars
                 PROVE  OneResourcePerComponent'
      OBVIOUS
    <2>1. CASE UNCHANGED planVars
      BY <2>1 DEF planVars, OneResourcePerComponent, LockedResources, LockedOn
    <2>2. ASSUME NEW g, NEW rows, NEW stance, Decide(g, rows, stance)
          PROVE  OneResourcePerComponent'
      BY <2>2, RebuildAligns DEF Decide
    <2>3. CASE ManualNext
      BY <2>2, <2>3, RebuildAligns DEF ManualNext, CreateManual, UpdateManual,
         SplitQuart, MoveManual, ReleaseOrDelete
    <2>4. CASE CompositeNext
      BY <2>2, <2>4, RebuildAligns DEF CompositeNext, ExtendAndMove,
         DuplicateQuart, OverrideAndMove, ExtendPlanningWindow
    <2>5. CASE SegmentNext
      BY <2>5, RebuildAligns DEF SegmentNext, AssignSegment, PatchSegment,
         ApproveRevision, CancelRequestPlan
    <2> QED
      BY <2>1, <2>3, <2>4, <2>5 DEF PlanNext
  <1> QED
    BY <1>1, <1>2, PTL DEF PlanSpec

-----------------------------------------------------------------------------
(* Approval scopes: what a command has read.                                *)

Tables ==
  /\ scope \in [Scopes -> [active: BOOLEAN, version: Nat,
                           approvers: SUBSET Users, subjects: SUBSET Subjects]]
  /\ DOMAIN account = Users
  /\ typeOf \in [Units -> UnitTypes]
  /\ DOMAIN unitApprovers = Units
  /\ DOMAIN clerk = Clerks

\* Commands that need the planning whatever the tables are.
AlwaysGuarded(c) ==
  \/ c.kind \in {"unitApprover", "type", "assign"}
  \/ c.kind = "mapping" /\ c.subject \in UnitTypes

Fresh(t) ==
  t.command.kind \in ScopeKinds =>
    /\ t.version \in Nat /\ t.version <= scope[t.command.scope].version
    /\ /\ t.version = scope[t.command.scope].version
       /\ t.command.kind \in {"active", "approver"}
       /\ ControlsAssets(t.command.scope)
       => t.guarded

Busy(w) ==
  /\ clerk[w].at \in {"decided", "acquired", "checked"}
  /\ clerk[w].command \in Commands
  /\ clerk[w].at # "decided" <=> holder = w
  /\ AlwaysGuarded(clerk[w].command) => clerk[w].guarded
  /\ clerk[w].at = "checked" => clerk[w].command.kind = "assign"

ClerksWork ==
  /\ \A w \in Clerks : clerk[w] = AtRest => holder # w
  /\ \A w \in Clerks : clerk[w] # AtRest => Busy(w) /\ Fresh(clerk[w])

ScopesInv == Tables /\ ClerksWork /\ AssignmentIsAuthorised

-----------------------------------------------------------------------------
\* Nobody works at the start.
LEMMA InitScopesInv == ScopesInit => ScopesInv
  <1> SUFFICES ASSUME ScopesInit PROVE ScopesInv
    OBVIOUS
  <1>1. Tables
    <2>1. PICK f \in [Scopes -> [active: {TRUE}, version: {1},
                                approvers: SUBSET Users,
                                subjects: SUBSET Subjects]] : scope = f
      BY DEF ScopesInit
    <2>2. scope \in [Scopes -> [active: BOOLEAN, version: Nat,
                               approvers: SUBSET Users,
                               subjects: SUBSET Subjects]]
      <3>1. \A x \in Scopes : f[x] \in [active: BOOLEAN, version: Nat,
                                       approvers: SUBSET Users,
                                       subjects: SUBSET Subjects]
        <4> TAKE x \in Scopes
        <4>1. f[x] \in [active: {TRUE}, version: {1},
                       approvers: SUBSET Users, subjects: SUBSET Subjects]
          OBVIOUS
        <4>2. {TRUE} \subseteq BOOLEAN /\ {1} \subseteq Nat
          OBVIOUS
        <4> QED
          BY <4>1, <4>2
      <3> QED
        BY <2>1, <3>1
    <2> QED
      BY <2>2 DEF ScopesInit, Tables
  <1>2. ClerksWork
    BY ScopesAssumption DEF ScopesInit, ClerksWork, AtRest
  <1>3. AssignmentIsAuthorised
    BY DEF ScopesInit, AssignmentIsAuthorised, AtRest
  <1> QED
    BY <1>1, <1>2, <1>3 DEF ScopesInv

Authority == <<scope, account, typeOf, unitApprovers>>

\* While the tables of authority stay, so does who may assign.
LEMMA AuthorityKept ==
  ASSUME UNCHANGED Authority, NEW u, NEW unit, MayAssign(u, unit)
  PROVE  MayAssign(u, unit)'
  BY DEF Authority, MayAssign, Resolved, Mapped, Valid

\* What a scope was read as still stands while the tables stay.
LEMMA FreshKept ==
  ASSUME UNCHANGED scope, NEW t, Fresh(t)
  PROVE  Fresh(t)'
  BY DEF Fresh, ControlsAssets

\* A command begins on the scope that is.
LEMMA AskKeeps ==
  ASSUME ScopesInv, NEW w \in Clerks, Ask(w)
  PROVE  ScopesInv'
  <1>1. PICK c \in Commands :
          clerk' = [clerk EXCEPT ![w] =
            [at |-> "decided", command |-> c, seen |-> planRow,
             guarded |-> Guarded(c),
             version |-> IF c.kind \in ScopeKinds
                         THEN scope[c.scope].version ELSE 0]]
    BY DEF Ask
  <1>2. /\ clerk[w] = AtRest /\ UNCHANGED Authority
        /\ holder' = holder /\ scope' = scope
    BY DEF Ask, Authority
  <1>3. Tables'
    BY <1>1, <1>2 DEF Authority, ScopesInv, Tables
  <1>4. holder # w
    BY <1>2 DEF ScopesInv, ClerksWork
  <1>5. AlwaysGuarded(c) => Guarded(c)
    BY DEF AlwaysGuarded, Guarded
  <1>6. clerk'[w].at = "decided" /\ clerk'[w].command = c
        /\ clerk'[w].guarded = Guarded(c)
    BY <1>1 DEF ScopesInv, Tables
  <1>7. Busy(w)'
    BY <1>2, <1>4, <1>5, <1>6 DEF Busy
  <1>8. Fresh(clerk[w])'
    <2> SUFFICES ASSUME c.kind \in ScopeKinds
        PROVE  /\ scope[c.scope].version \in Nat
               /\ c.kind \in {"active", "approver"} /\ ControlsAssets(c.scope)
                    => Guarded(c)
      BY <1>1, <1>2, <1>6 DEF ScopesInv, Tables, Fresh, ControlsAssets
    <2>1. c.scope \in Scopes
      BY DEF Commands, ScopeKinds
    <2> QED
      BY <2>1 DEF ScopesInv, Tables, Guarded
  <1>9. \A v \in Clerks \ {w} : clerk'[v] = clerk[v]
    BY <1>1 DEF ScopesInv, Tables
  <1>10. ClerksWork'
    BY <1>2, <1>4, <1>6, <1>7, <1>8, <1>9
       DEF ScopesInv, ClerksWork, Busy, Fresh, ControlsAssets
  <1>11. AssignmentIsAuthorised'
    BY <1>2, <1>6, <1>9, AuthorityKept DEF ScopesInv, AssignmentIsAuthorised
  <1> QED
    BY <1>3, <1>10, <1>11 DEF ScopesInv

\* The planning row is taken when nobody holds it.
LEMMA AcquireKeeps ==
  ASSUME ScopesInv, NEW w \in Clerks, Acquire(w)
  PROVE  ScopesInv'
  <1>1. /\ clerk[w].at = "decided" /\ holder = Nothing /\ holder' = w
        /\ clerk' = [clerk EXCEPT ![w].at = "acquired"]
        /\ UNCHANGED Authority /\ scope' = scope
    BY DEF Acquire, Authority
  <1>2. Tables'
    BY <1>1 DEF Authority, ScopesInv, Tables
  <1>3. /\ clerk'[w] = [clerk[w] EXCEPT !.at = "acquired"]
        /\ \A v \in Clerks \ {w} : clerk'[v] = clerk[v]
    BY <1>1 DEF ScopesInv, Tables
  <1>4. clerk[w] # AtRest /\ Busy(w) /\ Fresh(clerk[w])
    BY <1>1 DEF AtRest, ScopesInv, ClerksWork
  <1>5. clerk'[w].at = "acquired" /\ clerk'[w] # AtRest
        /\ clerk'[w].command = clerk[w].command
        /\ clerk'[w].guarded = clerk[w].guarded
        /\ clerk'[w].version = clerk[w].version
    BY <1>3, <1>4 DEF AtRest
  <1>6. \A v \in Clerks : holder # v
    BY <1>1, ScopesAssumption
  <1>7. Busy(w)' /\ Fresh(clerk[w])'
    BY <1>1, <1>4, <1>5 DEF Busy, Fresh, ControlsAssets
  <1>8. ClerksWork'
    BY <1>1, <1>3, <1>5, <1>6, <1>7
       DEF ScopesInv, ClerksWork, Busy, Fresh, ControlsAssets
  <1>9. AssignmentIsAuthorised'
    BY <1>1, <1>3, <1>5, AuthorityKept DEF ScopesInv, AssignmentIsAuthorised
  <1> QED
    BY <1>2, <1>8, <1>9 DEF ScopesInv

\* What is found authorised is, as the step reads the tables it leaves.
LEMMA CheckKeeps ==
  ASSUME ScopesInv, NEW w \in Clerks, CheckAuthority(w)
  PROVE  ScopesInv'
  <1>1. /\ clerk[w].at = "acquired" /\ clerk[w].command.kind = "assign"
        /\ holder' = holder
        /\ clerk' = [clerk EXCEPT ![w].at = "checked"]
        /\ UNCHANGED Authority /\ scope' = scope
        /\ MayAssign(clerk[w].command.user, clerk[w].command.unit)
    BY DEF CheckAuthority, Authority
  <1>2. Tables'
    BY <1>1 DEF Authority, ScopesInv, Tables
  <1>3. /\ clerk'[w] = [clerk[w] EXCEPT !.at = "checked"]
        /\ \A v \in Clerks \ {w} : clerk'[v] = clerk[v]
    BY <1>1 DEF ScopesInv, Tables
  <1>4. clerk[w] # AtRest /\ Busy(w) /\ Fresh(clerk[w])
    BY <1>1 DEF AtRest, ScopesInv, ClerksWork
  <1>5. clerk'[w].at = "checked" /\ clerk'[w] # AtRest
        /\ clerk'[w].command = clerk[w].command
        /\ clerk'[w].guarded = clerk[w].guarded
        /\ clerk'[w].version = clerk[w].version
    BY <1>3, <1>4 DEF AtRest
  <1>6. Busy(w)' /\ Fresh(clerk[w])'
    BY <1>1, <1>4, <1>5 DEF Busy, Fresh, ControlsAssets
  <1>7. ClerksWork'
    BY <1>1, <1>3, <1>5, <1>6
       DEF ScopesInv, ClerksWork, Busy, Fresh, ControlsAssets
  <1>8. AssignmentIsAuthorised'
    BY <1>1, <1>3, <1>5, AuthorityKept DEF ScopesInv, AssignmentIsAuthorised
  <1> QED
    BY <1>2, <1>7, <1>8 DEF ScopesInv

\* A transaction that ends releases what it holds; what the others read still
\* stands and what they found authorised still is.
LEMMA EndKeeps ==
  ASSUME ScopesInv, NEW w \in Clerks, Tables',
         clerk' = [clerk EXCEPT ![w] = AtRest],
         holder' = IF holder = w THEN Nothing ELSE holder,
         \A v \in Clerks \ {w} :
           clerk[v] # AtRest /\ Fresh(clerk[v]) => Fresh(clerk[v])',
         \A v \in Clerks \ {w} :
           clerk[v].at = "checked" =>
             MayAssign(clerk[v].command.user, clerk[v].command.unit)'
  PROVE  ScopesInv'
  <1>1. clerk'[w] = AtRest /\ \A v \in Clerks \ {w} : clerk'[v] = clerk[v]
    BY DEF ScopesInv, Tables
  <1>2. \A v \in Clerks : holder' # v \/ (holder = v /\ v # w)
    BY ScopesAssumption
  <1>3. \A v \in Clerks \ {w} : holder' = v <=> holder = v
    BY ScopesAssumption
  <1>4. ASSUME NEW v \in Clerks, clerk'[v] # AtRest
        PROVE  (Busy(v) /\ Fresh(clerk[v]))'
    <2>1. v # w /\ clerk[v] # AtRest /\ Busy(v) /\ Fresh(clerk[v])
      BY <1>1, <1>4 DEF ScopesInv, ClerksWork
    <2>2. Busy(v)'
      BY <1>1, <1>3, <2>1 DEF Busy
    <2> QED
      BY <2>1, <2>2
  <1>5. ASSUME NEW v \in Clerks, clerk'[v] = AtRest
        PROVE  holder' # v
    BY <1>1, <1>2, <1>5 DEF ScopesInv, ClerksWork
  <1>6. ClerksWork'
    BY <1>4, <1>5 DEF ClerksWork
  <1>7. AssignmentIsAuthorised'
    BY <1>1 DEF AssignmentIsAuthorised, AtRest
  <1> QED
    BY <1>6, <1>7 DEF ScopesInv

\* A command that commits without the planning decided that it does not need
\* it; whoever holds the planning row is another.
LEMMA Unguarded ==
  ASSUME ScopesInv, NEW w \in Clerks, clerk[w] # AtRest, Committed(w),
         NEW v \in Clerks \ {w}, clerk[v].at = "checked"
  PROVE  /\ Busy(w) /\ Fresh(clerk[w])
         /\ ~ clerk[w].guarded
         /\ ~ AlwaysGuarded(clerk[w].command)
  <1>1. Busy(w) /\ Fresh(clerk[w])
    BY DEF ScopesInv, ClerksWork
  <1>2. clerk[v] # AtRest /\ holder = v
    BY DEF AtRest, ScopesInv, ClerksWork, Busy
  <1>3. clerk[w].at = "decided"
    BY <1>1, <1>2 DEF Busy
  <1>4. ~ clerk[w].guarded
    BY <1>3 DEF Committed
  <1> QED
    BY <1>1, <1>4 DEF Busy, Fresh

\* A transaction that rolls back leaves the tables.
LEMMA RollBackKeeps ==
  ASSUME ScopesInv, NEW w \in Clerks, RollBack(w)
  PROVE  ScopesInv'
  <1>1. UNCHANGED Authority /\ scope' = scope
    BY DEF RollBack, Authority
  <1>2. Tables'
    BY <1>1 DEF RollBack, Authority, ScopesInv, Tables
  <1>3. \A v \in Clerks \ {w} : clerk'[v] = clerk[v]
    BY DEF RollBack, ScopesInv, Tables
  <1>4. \A v \in Clerks \ {w} :
          clerk[v] # AtRest /\ Fresh(clerk[v]) => Fresh(clerk[v])'
    BY <1>1, <1>3 DEF Fresh, ControlsAssets
  <1>5. ASSUME NEW v \in Clerks \ {w}, clerk[v].at = "checked"
        PROVE  MayAssign(clerk[v].command.user, clerk[v].command.unit)'
    BY <1>1, <1>3, <1>5, AuthorityKept DEF ScopesInv, AssignmentIsAuthorised
  <1> QED
    BY <1>2, <1>4, <1>5, EndKeeps DEF RollBack

\* A scope that changes under its version does not control the assets, or
\* changes in none of the types it is mapped to.
LEMMA ScopeKeeps ==
  ASSUME ScopesInv, NEW w \in Clerks, CommitScope(w)
  PROVE  ScopesInv'
  <1> DEFINE c == clerk[w].command
             x == c.scope
  <1>1. /\ clerk[w] # AtRest /\ c.kind \in ScopeKinds
        /\ scope[x].version = clerk[w].version
        /\ scope' = [scope EXCEPT ![x] =
                       [Edited(scope[x], c) EXCEPT !.version = @ + 1]]
        /\ UNCHANGED <<account, typeOf, unitApprovers>>
    BY DEF CommitScope
  <1>2. c \in Commands /\ x \in Scopes
    BY <1>1 DEF ScopesInv, ClerksWork, Busy, Commands, ScopeKinds
  <1>3. /\ c.kind = "active" => c.on \in BOOLEAN
        /\ c.kind = "approver" => c.user \in Users
        /\ c.kind = "mapping" => c.subject \in Subjects
    BY <1>2 DEF Commands
  <1>4. /\ Edited(scope[x], c) \in [active: BOOLEAN, version: Nat,
                              approvers: SUBSET Users,
                              subjects: SUBSET Subjects]
        /\ Edited(scope[x], c).version = scope[x].version
        /\ c.kind \in {"active", "approver"} =>
             Edited(scope[x], c).subjects = scope[x].subjects
        /\ c.kind = "mapping" =>
             /\ Edited(scope[x], c).active = scope[x].active
             /\ Edited(scope[x], c).approvers = scope[x].approvers
             /\ \A t : t # c.subject =>
                  (t \in Edited(scope[x], c).subjects
                     <=> t \in scope[x].subjects)
    BY <1>1, <1>2, <1>3 DEF ScopesInv, Tables, Edited, With, ScopeKinds
  <1> DEFINE old == Edited(scope[x], c)
             row == [old EXCEPT !.version = @ + 1]
  <1>5. scope' = [scope EXCEPT ![x] = row]
    BY <1>1
  <1> HIDE DEF old
  <1>6. /\ row \in [active: BOOLEAN, version: Nat,
                    approvers: SUBSET Users, subjects: SUBSET Subjects]
        /\ row.version = scope[x].version + 1
        /\ row.active = old.active
        /\ row.approvers = old.approvers
        /\ row.subjects = old.subjects
    <2>1. /\ old \in [active: BOOLEAN, version: Nat,
                      approvers: SUBSET Users, subjects: SUBSET Subjects]
          /\ old.version = scope[x].version
      BY <1>4 DEF old
    <2> QED
      BY <2>1
  <1>7. scope'[x] = row /\ \A y \in Scopes \ {x} : scope'[y] = scope[y]
    BY <1>2, <1>5 DEF ScopesInv, Tables
  <1> HIDE DEF row
  <1>8. row.active = Edited(scope[x], c).active
         /\ row.approvers = Edited(scope[x], c).approvers
         /\ row.subjects = Edited(scope[x], c).subjects
         /\ row.version = scope[x].version + 1
    BY <1>6 DEF old
  <1>9. Tables'
    BY <1>1, <1>6, <1>5 DEF CommitScope, Committed, ScopesInv, Tables
  <1>10. \A v \in Clerks \ {w} : clerk'[v] = clerk[v]
    BY DEF CommitScope, Committed, ScopesInv, Tables
  <1>11. ASSUME NEW v \in Clerks \ {w}, clerk[v] # AtRest, Fresh(clerk[v])
         PROVE  Fresh(clerk[v])'
    <2>1. clerk[v].command \in Commands
      BY <1>11 DEF ScopesInv, ClerksWork, Busy
    <2>2. CASE clerk[v].command.kind \in ScopeKinds
      <3>1. PICK y \in Scopes : y = clerk[v].command.scope
        BY <2>1, <2>2 DEF Commands, ScopeKinds
      <3>2. scope[x].version \in Nat /\ scope[y].version \in Nat
        BY <1>2 DEF ScopesInv, Tables
      <3>3. CASE y = x
        <4>1. scope'[x].version = scope[x].version + 1
          BY <1>7, <1>8
        <4>2. clerk[v].version \in Nat
              /\ clerk[v].version <= scope[x].version
          BY <1>11, <2>2, <3>1, <3>3 DEF Fresh
        <4>3. clerk[v].version <= scope'[x].version
              /\ clerk[v].version # scope'[x].version
          BY <3>2, <4>1, <4>2
        <4> QED
          BY <1>10, <3>1, <3>3, <4>2, <4>3 DEF Fresh
      <3>4. CASE y # x
        BY <1>7, <1>10, <1>11, <2>2, <3>1, <3>2, <3>4
           DEF Fresh, ControlsAssets
      <3> QED
        BY <3>3, <3>4
    <2> QED
      BY <1>10, <2>2 DEF Fresh
  <1>12. ASSUME NEW v \in Clerks \ {w}, clerk[v].at = "checked"
         PROVE  MayAssign(clerk[v].command.user, clerk[v].command.unit)'
    <2> DEFINE u == clerk[v].command.user
               unit == clerk[v].command.unit
               t == typeOf[unit]
    <2>1. MayAssign(u, unit)
      BY <1>12 DEF ScopesInv, AssignmentIsAuthorised
    <2>2. /\ Fresh(clerk[w]) /\ ~ clerk[w].guarded
          /\ ~ AlwaysGuarded(c)
      BY <1>1, <1>12, Unguarded DEF CommitScope
    <2>3. t \in UnitTypes
      <3>1. clerk[v] # AtRest /\ clerk[v].command \in Commands
            /\ clerk[v].command.kind = "assign"
        BY <1>12 DEF AtRest, ScopesInv, ClerksWork, Busy
      <3>2. unit \in Units
        BY <3>1 DEF Commands
      <3> QED
        BY <3>2 DEF ScopesInv, Tables
    <2>4. c.kind = "mapping" => t # c.subject
      BY <2>2, <2>3 DEF AlwaysGuarded
    <2>5. c.kind \in {"active", "approver"} => t \notin scope[x].subjects
      BY <1>1, <2>2, <2>3 DEF Fresh, ControlsAssets
    <2>6. t \in scope'[x].subjects <=> t \in scope[x].subjects
      BY <1>1, <1>4, <1>8, <1>7, <2>4 DEF ScopeKinds
    <2>7. t \in scope[x].subjects =>
            /\ scope'[x].active = scope[x].active
            /\ scope'[x].approvers = scope[x].approvers
      BY <1>1, <1>4, <1>8, <1>7, <2>5 DEF ScopeKinds
    <2>8. Mapped(t)' = Mapped(t)
      BY <1>1, <1>2, <1>7, <2>6, <1>10 DEF Mapped
    <2>9. \A y \in Mapped(t) : /\ scope'[y].active = scope[y].active
                               /\ scope'[y].approvers = scope[y].approvers
      BY <1>7, <2>7 DEF Mapped
    <2>10. PICK y \in Mapped(t) : Mapped(t) = {y} /\ scope[y].active
      BY <2>1 DEF MayAssign, Resolved
    <2>11. u \in {z \in unitApprovers[unit] \cup
                     UNION {scope[m].approvers : m \in Mapped(t)} : Valid(z)}
      BY <2>1 DEF MayAssign, Resolved
    <2>12. \A z : Valid(z)' = Valid(z)
      BY <1>1 DEF Valid
    <2>13. u \in {z \in unitApprovers[unit] \cup
                     UNION {scope'[m].approvers : m \in Mapped(t)} : Valid(z)}
      BY <2>9, <2>11
    <2> QED
      BY <1>1, <1>10, <2>1, <2>8, <2>9, <2>10, <2>12, <2>13
         DEF MayAssign, Resolved, Valid
  <1> QED
    BY <1>9, <1>11, <1>12, EndKeeps DEF CommitScope, Committed

\* The type and the approvers of a unit change under the planning only.
LEMMA UnitKeeps ==
  ASSUME ScopesInv, NEW w \in Clerks, CommitUnit(w)
  PROVE  ScopesInv'
  <1> DEFINE c == clerk[w].command
  <1>1. /\ clerk[w] # AtRest /\ c.kind \in {"unitApprover", "type"}
        /\ Committed(w) /\ scope' = scope /\ account' = account
    BY DEF CommitUnit
  <1>2. c \in Commands /\ AlwaysGuarded(c)
    BY <1>1 DEF ScopesInv, ClerksWork, Busy, AlwaysGuarded
  <1>3. Tables'
    <2>1. c.kind = "type" => c.type \in UnitTypes
      BY <1>2 DEF Commands
    <2>2. typeOf' \in [Units -> UnitTypes]
      BY <2>1 DEF CommitUnit, ScopesInv, Tables
    <2>3. DOMAIN unitApprovers' = Units
      BY DEF CommitUnit, ScopesInv, Tables
    <2> QED
      BY <1>1, <2>2, <2>3 DEF Committed, ScopesInv, Tables
  <1>4. \A v \in Clerks \ {w} : clerk'[v] = clerk[v]
    BY <1>1 DEF Committed, ScopesInv, Tables
  <1>5. \A v \in Clerks \ {w} :
          clerk[v] # AtRest /\ Fresh(clerk[v]) => Fresh(clerk[v])'
    BY <1>1, <1>4 DEF Fresh, ControlsAssets
  <1>6. \A v \in Clerks \ {w} : clerk[v].at # "checked"
    BY <1>1, <1>2, Unguarded
  <1> QED
    BY <1>1, <1>3, <1>5, <1>6, EndKeeps DEF Committed

\* An account that changes without the planning has no authority over assets.
LEMMA AccountKeeps ==
  ASSUME ~ Racing, ScopesInv, NEW w \in Clerks, CommitAccount(w)
  PROVE  ScopesInv'
  <1> DEFINE c == clerk[w].command
  <1>1. /\ clerk[w] # AtRest /\ Committed(w)
        /\ clerk[w].guarded \/ ~ HasAssetAuthority(c.user)
        /\ account' = [account EXCEPT ![c.user] = c.account]
        /\ UNCHANGED <<scope, typeOf, unitApprovers>>
    BY DEF CommitAccount
  <1>2. Tables'
    BY <1>1 DEF Committed, ScopesInv, Tables
  <1>3. \A v \in Clerks \ {w} : clerk'[v] = clerk[v]
    BY <1>1 DEF Committed, ScopesInv, Tables
  <1>4. \A v \in Clerks \ {w} :
          clerk[v] # AtRest /\ Fresh(clerk[v]) => Fresh(clerk[v])'
    BY <1>1, <1>3 DEF Fresh, ControlsAssets
  <1>5. ASSUME NEW v \in Clerks \ {w}, clerk[v].at = "checked"
        PROVE  MayAssign(clerk[v].command.user, clerk[v].command.unit)'
    <2>1. PICK u \in Users, unit \in Units :
            u = clerk[v].command.user /\ unit = clerk[v].command.unit
      <3>1. clerk[v] # AtRest /\ clerk[v].command \in Commands
            /\ clerk[v].command.kind = "assign"
        BY <1>5 DEF AtRest, ScopesInv, ClerksWork, Busy
      <3> QED
        BY <3>1 DEF Commands
    <2>2. MayAssign(u, unit)
      BY <1>5, <2>1 DEF ScopesInv, AssignmentIsAuthorised
    <2>3. HasAssetAuthority(u)
      <3>1. CASE u \in unitApprovers[unit]
        BY <3>1 DEF HasAssetAuthority
      <3>2. CASE u \notin unitApprovers[unit]
        <4>1. PICK y \in Mapped(typeOf[unit]) : u \in scope[y].approvers
          BY <2>2, <3>2 DEF MayAssign, Resolved
        <4>2. typeOf[unit] \in UnitTypes
          BY DEF ScopesInv, Tables
        <4> QED
          BY <4>1, <4>2 DEF HasAssetAuthority, ControlsAssets, Mapped
      <3> QED
        BY <3>1, <3>2
    <2>4. ~ clerk[w].guarded
      BY <1>1, <1>5, Unguarded
    <2>5. u # c.user
      BY <1>1, <2>3, <2>4
    <2>6. account'[u] = account[u]
      BY <1>1, <2>5 DEF ScopesInv, Tables
    <2>7. Mapped(typeOf[unit])' = Mapped(typeOf[unit])
      BY <1>1 DEF Mapped
    <2>8. PICK y \in Mapped(typeOf[unit]) :
            Mapped(typeOf[unit]) = {y} /\ scope[y].active
      BY <2>2 DEF MayAssign, Resolved
    <2>9. /\ u \in unitApprovers[unit]
               \cup UNION {scope[m].approvers : m \in Mapped(typeOf[unit])}
          /\ Valid(u)
      BY <2>2 DEF MayAssign, Resolved
    <2>10. Valid(u)'
      BY <2>6, <2>9 DEF Valid
    <2>11. MayAssign(u, unit)'
      BY <1>1, <2>2, <2>6, <2>7, <2>8, <2>9, <2>10 DEF MayAssign, Resolved
    <2> QED
      BY <1>3, <2>1, <2>11
  <1> QED
    BY <1>1, <1>2, <1>4, <1>5, EndKeeps DEF Committed

\* An assignment leaves the tables of authority.
LEMMA AssignmentKeeps ==
  ASSUME ScopesInv, NEW w \in Clerks, CommitAssignment(w)
  PROVE  ScopesInv'
  <1>1. UNCHANGED Authority /\ scope' = scope
    BY DEF CommitAssignment, Authority
  <1>2. holder = w
    BY DEF CommitAssignment, AtRest, ScopesInv, ClerksWork, Busy
  <1>3. Tables'
    BY <1>1 DEF CommitAssignment, Authority, ScopesInv, Tables
  <1>4. \A v \in Clerks \ {w} : clerk'[v] = clerk[v]
    BY DEF CommitAssignment, ScopesInv, Tables
  <1>5. \A v \in Clerks \ {w} :
          clerk[v] # AtRest /\ Fresh(clerk[v]) => Fresh(clerk[v])'
    BY <1>1, <1>4 DEF Fresh, ControlsAssets
  <1>6. ASSUME NEW v \in Clerks \ {w}, clerk[v].at = "checked"
        PROVE  MayAssign(clerk[v].command.user, clerk[v].command.unit)'
    BY <1>1, <1>4, <1>6, AuthorityKept DEF ScopesInv, AssignmentIsAuthorised
  <1> QED
    BY <1>2, <1>3, <1>5, <1>6, EndKeeps DEF CommitAssignment

-----------------------------------------------------------------------------
\* The invariant is inductive.
LEMMA NextScopesInv ==
  ASSUME ~ Racing, ScopesInv, [ScopesNext]_scopeVars
  PROVE  ScopesInv'
  <1>1. CASE UNCHANGED scopeVars
    <2>1. UNCHANGED <<scope, account, typeOf, unitApprovers, holder, clerk>>
      BY <1>1 DEF scopeVars
    <2>2. Tables'
      BY <2>1 DEF ScopesInv, Tables
    <2>3. ClerksWork'
      BY <2>1 DEF ScopesInv, ClerksWork, Busy, Fresh, ControlsAssets
    <2>4. AssignmentIsAuthorised'
      BY <2>1, AuthorityKept DEF ScopesInv, AssignmentIsAuthorised, Authority
    <2> QED
      BY <2>2, <2>3, <2>4 DEF ScopesInv
  <1>2. CASE ScopesNext
    <2>1. PICK w \in Clerks :
            \/ Ask(w) \/ Acquire(w) \/ CheckAuthority(w)
            \/ CommitScope(w) \/ CommitUnit(w) \/ CommitAccount(w)
            \/ CommitAssignment(w) \/ RollBack(w)
      BY <1>2 DEF ScopesNext
    <2> QED
      BY <2>1, AskKeeps, AcquireKeeps, CheckKeeps, ScopeKeeps, UnitKeeps,
         AccountKeeps, AssignmentKeeps, RollBackKeeps
  <1> QED
    BY <1>1, <1>2

\* Both routings come from the same scopes: a mapped scope that gives the
\* authority to assign also gives the one to approve, and where the task of a
\* line has scopes, only theirs approve it.
LEMMA RoutingAgreesAlways == RoutingAgrees
  <1>1. ASSUME NEW unit \in Units, NEW u \in Users, MayAssign(u, unit)
        PROVE  u \in AssetApprovers(unit)
    <2> DEFINE mapped == Mapped(typeOf[unit])
    <2>1. u \in Resolved(mapped, unitApprovers[unit])
      BY <1>1 DEF MayAssign
    <2>2. PICK x \in mapped : mapped = {x} /\ scope[x].active
      BY <2>1 DEF Resolved
    <2>3. Candidates(typeOf[unit]) = mapped
      BY <2>2 DEF Candidates
    <2> QED
      BY <2>1, <2>3 DEF AssetApprovers
  <1>2. ASSUME NEW line \in WorkforceLine, line.class = Nothing,
               Mapped(line.task) # {}
        PROVE  WorkforceApprovers(line) \subseteq
                 UNION {scope[x].approvers : x \in Mapped(line.task)}
    <2>1. RoutedBy(line) = line.task
      BY <1>2 DEF RoutedBy
    <2>2. Candidates(line.task) \subseteq Mapped(line.task)
      BY DEF Candidates
    <2>3. WorkforceApprovers(line) \subseteq
            UNION {scope[x].approvers : x \in Candidates(line.task)}
      BY <2>1 DEF WorkforceApprovers, Resolved
    <2> QED
      BY <2>2, <2>3
  <1> QED
    BY <1>1, <1>2 DEF RoutingAgrees

\* ADR-026: an assignment found authorised still is when it commits, whatever
\* scopes, mappings, units and accounts change meanwhile.
THEOREM AssignmentsStayAuthorised ==
  ASSUME ~ Racing
  PROVE  ScopesSpec => []AuthorityHolds
  <1>1. ScopesInit => ScopesInv
    BY InitScopesInv
  <1>2. ScopesInv /\ [ScopesNext]_scopeVars => ScopesInv'
    BY NextScopesInv
  <1>3. ScopesInv => AuthorityHolds
    BY RoutingAgreesAlways DEF ScopesInv, AuthorityHolds
  <1> QED
    BY <1>1, <1>2, <1>3, PTL DEF ScopesSpec
==============================================================================
