--------------------------- MODULE PlanningEngine ---------------------------
(***************************************************************************)
(* How a rebuild turns segments into shifts.  The engine is a pure         *)
(* function of a snapshot: locked shifts are kept and use capacity first,  *)
(* then fixed segments, then flexible ones, each in order of priority,     *)
(* take the capacity that is left, and what does not fit goes outside the  *)
(* schedule.  The rebuild replaces every unlocked shift by the result.     *)
(*                                                                         *)
(* The engine is a step for each segment, as its loop is; a rebuild holds  *)
(* the planning version, so that no other command comes in between.        *)
(* Hours are multiples of the precision of the engine, four decimals.      *)
(* Halves are rounded up, where floats decide.                             *)
(***************************************************************************)
EXTENDS Records, Integers, SequencesExt, Sorting

CONSTANTS
  People,       \* resources with a name
  Horizon,      \* days, an interval of integers
  Snapshots,    \* what the database may hold: segments, shifts, calendars
  Tolerance,    \* hours the engine neglects (0.001)
  StoredUnit,   \* precision of the column shift.hours (0.01)
  DailyLimit    \* hours outside the schedule per segment and day (8)

Profiles == {"UNIFORM", "FRONT_LOADED", "BACK_LOADED", "BELL"}

\* A target of 0 stands for none.
EngineSegment ==
  [person: People \cup {None}, closed: BOOLEAN,
   from: Horizon, to: Horizon, hours: Nat, fixed: BOOLEAN, rank: 0 .. 3,
   overtime: BOOLEAN, target: Nat, profile: Profiles]

\* kind: LOCKED, STANDARD, OVERTIME, or MISSING, a suggestion that counts for
\* nothing; outside: hors horaire.
EngineShift ==
  [segment: Nat, person: People, day: Horizon, hours: Nat,
   kind: {"LOCKED", "STANDARD", "OVERTIME", "MISSING"}, outside: BOOLEAN]

\* What the database may hold: availability has days, schedules hours.
Snapshot(snap) ==
  /\ snap.segments \in Seq(EngineSegment)
  /\ snap.shifts \subseteq EngineShift /\ IsFiniteSet(snap.shifts)
  /\ \A p \in People : snap.calendar[p].daily \in Nat

ASSUME EngineAssumption ==
  /\ Horizon \subseteq Int /\ \A d, e \in Horizon : d .. e \subseteq Horizon
  /\ None \notin People
  /\ Tolerance \in Nat /\ StoredUnit \in Nat \ {0} /\ DailyLimit \in Nat
  /\ \A snap \in Snapshots : Snapshot(snap)

VARIABLES
  snapshot,   \* segments by creation order, and calendars; never changes
  stored,     \* rows of the table shift
  result,     \* rows computed so far, during a rebuild
  waiting,    \* segments that are still to be placed
  lacking,    \* missing_total
  phase       \* of the rebuild: "idle", "placing" or "rebuilt"

engineVars == <<snapshot, stored, result, waiting, lacking, phase>>

Segments == snapshot.segments

EngineTypeOK ==
  /\ snapshot \in Snapshots
  /\ \A s \in DOMAIN Segments : Segments[s] \in EngineSegment
  /\ stored \in SUBSET EngineShift
  /\ result \in SUBSET EngineShift
  /\ waiting \in Seq(DOMAIN Segments)
  /\ lacking \in Nat
  /\ phase \in {"idle", "placing", "rebuilt"}

-----------------------------------------------------------------------------
(* Availability: a standard schedule with the days it is worked, vacations *)
(* and holidays.                                                           *)

\* Somebody with a standard schedule at all.
Schedulable(p) == p # None /\ snapshot.calendar[p].employed # {}

Capacity(p, d) ==
  LET c == snapshot.calendar[p] IN
  IF d \in (c.employed \cap c.worked) \ (c.vacation \cup c.holidays)
  THEN c.daily ELSE 0

\* Work outside the schedule may be suggested on weekends and holidays.
OutsideEligible(p, d) ==
  d \in snapshot.calendar[p].employed \ snapshot.calendar[p].vacation

-----------------------------------------------------------------------------
(* What the engine is given.                                               *)

Active == {s \in DOMAIN Segments : ~Segments[s].closed}

Generable == {s \in Active : Schedulable(Segments[s].person)
                               /\ Segments[s].hours > 0}

\* Fixed segments first, then by priority, start and creation.
Earlier(s, t) ==
  LET key(i) == LET g == Segments[i] IN
                  <<IF g.fixed THEN 0 ELSE 1, g.rank, g.from, i>>
  IN  \E i \in 1 .. 4 : /\ key(s)[i] < key(t)[i]
                         /\ \A j \in 1 .. i - 1 : key(s)[j] = key(t)[j]

\* What a function gives for the elements of a set, added up.
AddUp(f, S) == MapThenSumSet(LAMBDA x : f[x], S)

HoursIn(rows) == AddUp([x \in rows |-> x.hours], rows)

LockedOf(s) == {x \in result : x.kind = "LOCKED" /\ x.segment = s}

\* Hours outside the schedule use no standard capacity, locked ones do.
UsedHours(p, d) ==
  HoursIn({x \in result : /\ x.person = p /\ x.day = d
                        /\ x.kind \in {"LOCKED", "STANDARD"}})

AtLeast0(n) == IF n < 0 THEN 0 ELSE n
Least(n, m) == IF n < m THEN n ELSE m

Remaining(s) == AtLeast0(Segments[s].hours - HoursIn(LockedOf(s)))

Window(s) == Segments[s].from .. Segments[s].to

Room_LockedForgotten(s, d) ==
  LET p == Segments[s].person IN
  AtLeast0(Capacity(p, d)
             - HoursIn({x \in result : /\ x.person = p /\ x.day = d
                                     /\ x.kind = "STANDARD"}))

Room(s, d) ==
  AtLeast0(Capacity(Segments[s].person, d) - UsedHours(Segments[s].person, d))

-----------------------------------------------------------------------------
(* Which days: a flexible segment prefers its target number of days.       *)

\* Order of preference of a profile among days with the given room.
Preferred(s, room, d, e) ==
  LET g == Segments[s]
      distance(x) == IF 2 * x < g.from + g.to THEN g.from + g.to - 2 * x
                     ELSE 2 * x - (g.from + g.to)
      key(x) == CASE g.profile = "FRONT_LOADED" -> x
                  [] g.profile = "BACK_LOADED" -> -x
                  [] g.profile = "BELL" -> distance(x)
                  [] OTHER -> -room[x]
  IN  \/ key(d) < key(e)
      \/ key(d) = key(e) /\ d < e

AdditionalDays_LockedForgotten(s, locked) == Segments[s].target

\* Locked days count as days of the target, whoever works them.
AdditionalDays(s, locked) ==
  AtLeast0(Segments[s].target - Cardinality(locked))

\* The target gives way when its days cannot hold the work.  order has the
\* days with room that are not locked yet.
TargetDays(s, room, locked, order) ==
  LET held == {d \in locked \cap Window(s) : room[d] > 0}
      chosen(k) == held \cup {order[i] : i \in 1 .. k}
      fewest == Least(AdditionalDays(s, locked), Len(order))
      enough == {k \in fewest .. Len(order) :
                   AddUp(room, chosen(k)) + Tolerance >= Remaining(s)}
  IN  chosen(IF enough = {} THEN Len(order)
             ELSE CHOOSE k \in enough : \A j \in enough : k <= j)

DaysWithRoom(s, room, locked) ==
  IF Segments[s].fixed \/ Segments[s].target = 0
  THEN {d \in Window(s) : room[d] > 0}
  ELSE TargetDays(s, room, locked,
         LET new == {d \in Window(s) \ locked : room[d] > 0} IN
         Sorted(new, {d \in Pairs(new) : Preferred(s, room, d[1], d[2])}))

ActiveDays(s) ==
  DaysWithRoom(s, [d \in Window(s) |-> Room(s, d)], {x.day : x \in LockedOf(s)})

-----------------------------------------------------------------------------
(* How many hours on each of these days.  days is in order, room its room. *)

\* total * part / whole, rounded.
Share(total, part, whole) == (2 * total * part + whole) \div (2 * whole)

Total(room) == AddUp(room, DOMAIN room)

\* What is left goes to the first days with room, beyond the tolerance: each
\* day finds what those before it could not take.
ToppedUp(amounts, room, left) ==
  LET unused == [i \in DOMAIN room |-> room[i] - amounts[i]]
      rest(i) == left - AddUp(unused, 1 .. i - 1)
  IN  [i \in DOMAIN room |->
         IF rest(i) <= Tolerance THEN amounts[i]
         ELSE amounts[i] + Least(unused[i], rest(i))]

\* spread_hours: in proportion to the room; the last day takes what remains.
SpreadUniform(hours, room) ==
  LET target == Least(hours, Total(room))
      n == Len(room)
      share == [i \in 1 .. n - 1 |->
                  Least(Share(target, room[i], Total(room)), room[i])]
      last == Least(AtLeast0(target - Total(share)), room[n])
      amounts == Append(share, last)
  IN  ToppedUp(amounts, room, target - Total(amounts))

Weight(profile, i, n) ==
  CASE profile = "FRONT_LOADED" -> n - i + 1
    [] profile = "BACK_LOADED" -> i
    [] profile = "BELL" -> Least(i, n - i + 1)
    [] OTHER -> 1

\* The days that stay below their room when the others are full.
Unsaturated(target, room, weight) ==
  LET below[open \in SUBSET DOMAIN room] ==
        LET left == target - AddUp(room, DOMAIN room \ open)
            full == {i \in open :
                       left * weight[i] >= room[i] * AddUp(weight, open)}
        IN IF full = {} THEN open ELSE below[open \ full]
  IN  below[DOMAIN room]

\* What rounding lost goes to the heaviest days with room, what it added is
\* taken from the lightest ones.
Adjusted(amounts, room, heavier, error) ==
  LET days == DOMAIN room
      unused == [i \in days |-> room[i] - amounts[i]]
      gain(i) ==
        LET before == {j \in days : <<j, i>> \in heavier} IN
        Least(unused[i], AtLeast0(error - AddUp(unused, before)))
      loss(i) ==
        LET before == {j \in days : <<i, j>> \in heavier} IN
        Least(amounts[i], AtLeast0(-error - AddUp(amounts, before)))
  IN  [i \in days |-> amounts[i] + gain(i) - loss(i)]

\* spread_profile_hours: in proportion to the weights of the profile.
SpreadProfile(hours, room, profile) ==
  LET n == Len(room)
      target == Least(hours, Total(room))
      weight == [i \in 1 .. n |-> Weight(profile, i, n)]
      open == Unsaturated(target, room, weight)
      left == target - AddUp(room, 1 .. n \ open)
      heavy == AddUp(weight, open)
      amounts == [i \in 1 .. n |-> IF i \in open
                                  THEN Share(left, weight[i], heavy)
                                  ELSE room[i]]
      heavier == {i \in Pairs(1 .. n) :
                    \/ weight[i[1]] > weight[i[2]]
                    \/ weight[i[1]] = weight[i[2]] /\ i[1] < i[2]}
  IN  Adjusted(amounts, room, heavier, target - Total(amounts))

-----------------------------------------------------------------------------
(* Placing a segment.                                                      *)

Placed(s, days, amounts, kind) ==
  {[segment |-> s, person |-> Segments[s].person, day |-> days[i],
    hours |-> amounts[i], kind |-> kind, outside |-> kind = "OVERTIME"] :
     i \in {i \in DOMAIN days : amounts[i] > 0}}

StandardHours(s, days) ==
  LET room == [i \in DOMAIN days |-> Room(s, days[i])] IN
  IF Remaining(s) = 0 \/ days = <<>> THEN [i \in DOMAIN days |-> 0]
  ELSE IF Segments[s].profile = "UNIFORM" THEN SpreadUniform(Remaining(s), room)
  ELSE SpreadProfile(Remaining(s), room, Segments[s].profile)

\* Outside the schedule: days without capacity first.
OutsideDays(s) ==
  LET p == Segments[s].person
      room == [d \in Window(s) |-> Capacity(p, d)]
      off(d) == room[d] = 0
      days == {d \in Window(s) : OutsideEligible(p, d)}
  IN  Sorted(days, {d \in Pairs(days) :
                      \/ off(d[1]) /\ ~off(d[2])
                      \/ /\ off(d[1]) = off(d[2])
                         /\ Preferred(s, room, d[1], d[2])})

\* Each of them takes a full limit as long as something is missing.
OutsideHours(missing, days) ==
  [i \in DOMAIN days |->
     LET left == missing - (i - 1) * DailyLimit IN
     IF left > Tolerance THEN Least(DailyLimit, left) ELSE 0]

\* The hours of the schedule, then those outside it on the days of slots.
Place(s, days, amounts, missing, slots) ==
  LET extra == OutsideHours(missing, slots)
      overtime == Segments[s].overtime
  IN
  /\ result' = result \cup Placed(s, days, amounts, "STANDARD")
                 \cup Placed(s, slots, extra,
                             IF overtime THEN "OVERTIME" ELSE "MISSING")
  /\ lacking' = lacking + IF missing <= Tolerance THEN 0
                         ELSE IF overtime THEN AtLeast0(missing - Total(extra))
                         ELSE missing

PlaceOutside(s, days, amounts, missing) ==
  Place(s, days, amounts, missing,
        IF missing <= Tolerance THEN <<>> ELSE OutsideDays(s))

PlaceStandard(s, days, amounts) ==
  PlaceOutside(s, days, amounts, AtLeast0(Remaining(s) - Total(amounts)))

PlaceOn(s, days) == PlaceStandard(s, days, StandardHours(s, days))

PlaceSegment ==
  /\ phase = "placing" /\ waiting # <<>>
  /\ LET days == ActiveDays(Head(waiting))
     IN  PlaceOn(Head(waiting),
                 Sorted(days, {d \in Pairs(days) : d[1] < d[2]}))
  /\ waiting' = Tail(waiting)
  /\ UNCHANGED <<snapshot, stored, phase>>

-----------------------------------------------------------------------------
(* The rebuild around the engine.                                          *)

\* Locked shifts of open segments are kept, also when nothing can be
\* generated for the segment.
BeginRebuild ==
  /\ phase = "idle"
  /\ phase' = "placing"
  /\ result' = {x \in stored : x.kind = "LOCKED" /\ x.segment \in Active}
  /\ waiting' = Sorted(Generable,
                     {s \in Pairs(Generable) : Earlier(s[1], s[2])})
  /\ lacking' = 0
  /\ UNCHANGED <<snapshot, stored>>

\* A column of two decimals holds what was computed with four.
InColumn(hours) == ((2 * hours + StoredUnit) \div (2 * StoredUnit)) * StoredUnit

Rows == {IF x.kind = "LOCKED" THEN x ELSE [x EXCEPT !.hours = InColumn(@)] :
           x \in result}

\* The constraint shift_hours_positive of the table (models.py).
HoursPositive(rows) == \A x \in rows : x.hours > 0

PersistPlan ==
  /\ phase = "placing" /\ waiting = <<>>
  /\ HoursPositive(Rows)
  /\ stored' = Rows
  /\ phase' = "rebuilt"
  /\ UNCHANGED <<snapshot, result, waiting, lacking>>

\* The database refuses the rows, and the command rolls back.
RefusePlan ==
  /\ phase = "placing" /\ waiting = <<>>
  /\ ~HoursPositive(Rows)
  /\ phase' = "idle"
  /\ UNCHANGED <<snapshot, stored, result, waiting, lacking>>

EngineInit ==
  /\ snapshot \in Snapshots
  /\ stored = snapshot.shifts
  /\ result = {} /\ waiting = <<>> /\ lacking = 0
  /\ phase = "idle"

EngineNext == BeginRebuild \/ PlaceSegment \/ PersistPlan \/ RefusePlan

EngineSpec == EngineInit /\ [][EngineNext]_engineVars

-----------------------------------------------------------------------------
(* The summary of a plan that is complete.                                 *)

Complete == phase = "placing" /\ waiting = <<>>

Counted(s) == HoursIn({x \in result : x.segment = s /\ x.kind # "MISSING"})

RequestedHours == AddUp([s \in Generable |-> Segments[s].hours], Generable)
AllocatedHours == AddUp([s \in Generable |-> Counted(s)], Generable)

UnallocatedHours ==
  LET balance == RequestedHours - AllocatedHours IN
  IF balance > lacking THEN balance ELSE lacking

-----------------------------------------------------------------------------
(* Properties.                                                             *)

\* ADR-001: a locked shift uses the capacity of whoever works it, be it for
\* another segment or for one nothing can be generated for.  Automatic hours
\* within the schedule fit in what locked shifts and the segments placed
\* before leave of the day.
AutomaticFitsCapacity ==
  \A x \in result : x.kind = "STANDARD" =>
    UsedHours(x.person, x.day) <= Capacity(x.person, x.day)

\* No hour is lost: the summary reports as unallocated what each segment
\* lacks, also when another one has more locked hours than were planned.
LackingHoursReported ==
  Complete =>
    LET lacks == [s \in Generable |->
                    AtLeast0(Segments[s].hours - Counted(s))]
        error == UnallocatedHours - AddUp(lacks, Generable)
        slack == Tolerance * Cardinality(Generable)
    IN  -slack <= error /\ error <= slack

\* The hours of a plan add up, day by day and segment by segment.
HoursAddUp == AutomaticFitsCapacity /\ LackingHoursReported

\* A flexible segment works on more days than its target only if one day less
\* would not hold its hours; what people locked counts as days of the target.
TargetYieldsToCapacity ==
  phase = "placing" =>
  \A s \in Generable :
    LET g == Segments[s]
        auto == {x \in result : x.segment = s /\ x.kind = "STANDARD"}
        days == {x.day : x \in auto}
        locked == {x.day : x \in LockedOf(s)}
        room(d) == Room(s, d)
                     + HoursIn({x \in auto : x.day = d})
                     + HoursIn({x \in result : /\ x.kind = "STANDARD"
                                             /\ x.segment # s
                                             /\ x.person = g.person
                                             /\ x.day = d
                                             /\ Earlier(s, x.segment)})
    IN
    /\ ~g.fixed /\ g.target > 0
    /\ Cardinality(days \cup locked) > g.target
    /\ days \ locked # {}
    => \E d \in days \ locked :
         AddUp([e \in days |-> room(e)], days \ {d}) < Remaining(s)
=============================================================================
