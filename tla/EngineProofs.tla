---------------------------- MODULE EngineProofs ----------------------------
(***************************************************************************)
(* The hours of the planning engine add up, and the target number of days  *)
(* of a segment gives way only to them, for all snapshots.                 *)
(***************************************************************************)
EXTENDS PlanningEngine, FiniteFacts, SequenceTheorems

-----------------------------------------------------------------------------
(* Adding up.                                                              *)

\* What is added up is a sum.
LEMMA AddsUp ==
  ASSUME NEW S, IsFiniteSet(S), NEW f, Values(f, S)
  PROVE  AddUp(f, S) = SumOf(f, S) /\ AddUp(f, S) \in Int
  <1>1. AddUp(f, S) = Parts(f, S)[S]
    BY Zenon DEF AddUp, Parts, MapThenSumSet, MapThenFoldSet
  <1> QED
    BY <1>1, PartsGive, SumInteger

-----------------------------------------------------------------------------
(* Spreading hours: no day gets more than its room.                        *)

\* Amounts for days: natural numbers that do not exceed the room.
Amounts(n) == [1 .. n -> Nat]

Fits(amounts, room) == \A i \in DOMAIN room : amounts[i] <= room[i]

\* A product grows with its factors.
LEMMA ProductGrows ==
  ASSUME NEW a \in Int, NEW b \in Int, a <= b, NEW c \in Nat
  PROVE  a * c <= b * c
  <1>1. PICK d \in Nat : d = b - a
    OBVIOUS
  <1>2. d * c >= 0 /\ b * c = a * c + d * c
    BY <1>1
  <1>3. PICK u, v, w : u = a * c /\ v = b * c /\ w = d * c
    OBVIOUS
  <1>4. u \in Int /\ v \in Int /\ w \in Int
    BY <1>3
  <1> QED
    BY <1>2, <1>3, <1>4

\* A product that is less than another one has a factor that is less.
LEMMA FactorIsLess ==
  ASSUME NEW a \in Int, NEW b \in Int, NEW c \in Nat, a * c < b * c
  PROVE  a < b
  <1> SUFFICES ASSUME b <= a
               PROVE  FALSE
    OBVIOUS
  <1>1. b * c <= a * c
    BY ProductGrows
  <1>2. PICK u, v : u = a * c /\ v = b * c
    OBVIOUS
  <1>3. u \in Int /\ v \in Int
    BY <1>2
  <1> QED
    BY <1>1, <1>2, <1>3

\* What a quotient is.
LEMMA QuotientIs ==
  ASSUME NEW a \in Nat, NEW b \in Nat \ {0}
  PROVE  /\ a \div b \in Nat
         /\ b * (a \div b) <= a /\ a < b * (a \div b) + b
  <1>1. PICK q, r : q = a \div b /\ r = a % b
    OBVIOUS
  <1>2. q \in Int /\ r \in 0 .. b - 1 /\ a = b * q + r
    BY <1>1
  <1>3. PICK p \in Int : p = b * q
    BY <1>2
  <1>4. p <= a /\ a < p + b
    BY <1>2, <1>3
  <1>5. q \in Nat
    <2> SUFFICES ASSUME q <= -1
                 PROVE  FALSE
      BY <1>2
    <2>1. q * b <= (-1) * b
      BY <1>2, ProductGrows
    <2>2. (-1) * b = -b /\ q * b = p
      BY <1>2, <1>3
    <2> QED
      BY <1>4, <2>1, <2>2
  <1> QED
    BY <1>1, <1>3, <1>4, <1>5

\* A share is a number of hours.
LEMMA ShareIsNatural ==
  ASSUME NEW total \in Nat, NEW part \in Nat, NEW whole \in Nat \ {0}
  PROVE  Share(total, part, whole) \in Nat
  <1>1. PICK a : a = 2 * total * part
    OBVIOUS
  <1>2. a \in Nat
    BY <1>1
  <1>3. a + whole \in Nat /\ 2 * whole \in Nat \ {0}
    BY <1>2
  <1> QED
    BY <1>1, <1>3, QuotientIs DEF Share

\* Rounding does not lift a share above a number of hours.
LEMMA ShareIsBelow ==
  ASSUME NEW total \in Nat, NEW part \in Nat, NEW whole \in Nat \ {0},
         NEW room \in Nat, total * part < room * whole
  PROVE  Share(total, part, whole) <= room
  <1>1. PICK a, u : a = total * part /\ u = room * whole
    OBVIOUS
  <1>2. a \in Nat /\ u \in Nat /\ a < u
    BY <1>1
  <1>3. 2 * total * part = 2 * a
    <2>1. 2 * total * part = 2 * (total * part)
      OBVIOUS
    <2> QED
      BY <1>1, <2>1
  <1>4. PICK q : q = (2 * a + whole) \div (2 * whole)
    OBVIOUS
  <1>5. 2 * a + whole \in Nat /\ 2 * whole \in Nat \ {0}
    BY <1>2
  <1>6. q \in Nat /\ (2 * whole) * q <= 2 * a + whole
    BY <1>4, <1>5, QuotientIs
  <1>7. q * whole < (room + 1) * whole
    <2>1. PICK v : v = q * whole
      OBVIOUS
    <2>2. v \in Nat /\ (2 * whole) * q = 2 * v
      BY <1>6, <2>1
    <2>3. (room + 1) * whole = u + whole
      BY <1>1
    <2> QED
      BY <1>2, <1>6, <2>1, <2>2, <2>3
  <1>8. q < room + 1
    BY <1>6, <1>7, FactorIsLess
  <1> QED
    BY <1>3, <1>4, <1>6, <1>8 DEF Share

\* Sums of what is left on earlier days.
LEMMA SumOfPart ==
  ASSUME NEW n \in Nat, NEW f, Values(f, 1 .. n), NEW T, T \subseteq 1 .. n
  PROVE  /\ AddUp(f, T) = SumOf(f, T) /\ AddUp(f, T) \in Int
         /\ IsFiniteSet(T) /\ Values(f, T)
  <1>1. IsFiniteSet(1 .. n)
    BY FS_Interval
  <1>2. IsFiniteSet(T) /\ Values(f, T)
    BY <1>1, FS_Subset DEF Values
  <1> QED
    BY <1>2, AddsUp

\* What is left goes where there is room.
LEMMA ToppedUpFits ==
  ASSUME NEW n \in Nat, NEW room \in Amounts(n), NEW amounts \in Amounts(n),
         Fits(amounts, room), NEW left \in Int
  PROVE  /\ ToppedUp(amounts, room, left) \in Amounts(n)
         /\ Fits(ToppedUp(amounts, room, left), room)
  <1>1. PICK unused : unused = [i \in DOMAIN room |-> room[i] - amounts[i]]
    OBVIOUS
  <1>2. DOMAIN room = 1 .. n /\ \A i \in 1 .. n : /\ room[i] \in Nat
                                              /\ amounts[i] \in Nat
                                              /\ amounts[i] <= room[i]
    BY DEF Amounts, Fits
  <1>3. \A i \in 1 .. n : unused[i] \in Nat /\ amounts[i] + unused[i] = room[i]
    BY <1>1, <1>2
  <1>6. Values(unused, 1 .. n)
    BY <1>3 DEF Values
  <1> DEFINE rest(i) == left - AddUp(unused, 1 .. i - 1)
             new(i) == IF rest(i) <= Tolerance THEN amounts[i]
                       ELSE amounts[i] + Least(unused[i], rest(i))
  <1>4. ToppedUp(amounts, room, left) = [i \in 1 .. n |-> new(i)]
    BY <1>1, <1>2 DEF ToppedUp
  <1>5. ASSUME NEW i \in 1 .. n
        PROVE  new(i) \in Nat /\ new(i) <= room[i]
    <2>1. 1 .. i - 1 \subseteq 1 .. n
      OBVIOUS
    <2>2. AddUp(unused, 1 .. i - 1) \in Int
      BY <1>6, <2>1, SumOfPart
    <2>3. rest(i) \in Int
      BY <2>2
    <2> HIDE DEF rest
    <2> QED
      BY <1>2, <1>3, <2>3, EngineAssumption DEF Least
  <1> HIDE DEF new
  <1> QED
    BY <1>2, <1>4, <1>5 DEF Amounts, Fits

\* What is taken of a number is not more than it.
LEMMA TakenIsWithin ==
  ASSUME NEW x \in Nat, NEW y \in Int
  PROVE  Least(x, AtLeast0(y)) \in 0 .. x
  BY DEF Least, AtLeast0

\* What rounding lost or added is made up for where there is room.
LEMMA AdjustedFits ==
  ASSUME NEW n \in Nat, NEW room \in Amounts(n), NEW amounts \in Amounts(n),
         Fits(amounts, room), NEW heavier, NEW error \in Int
  PROVE  /\ Adjusted(amounts, room, heavier, error) \in Amounts(n)
         /\ Fits(Adjusted(amounts, room, heavier, error), room)
  <1>1. PICK unused : unused = [i \in DOMAIN room |-> room[i] - amounts[i]]
    OBVIOUS
  <1>2. DOMAIN room = 1 .. n /\ \A i \in 1 .. n : /\ room[i] \in Nat
                                              /\ amounts[i] \in Nat
                                              /\ amounts[i] <= room[i]
    BY DEF Amounts, Fits
  <1>3. \A i \in 1 .. n : unused[i] \in Nat /\ amounts[i] + unused[i] = room[i]
    BY <1>1, <1>2
  <1>4. Values(unused, 1 .. n) /\ Values(amounts, 1 .. n)
    BY <1>2, <1>3 DEF Values
  <1> DEFINE before(i) == {j \in 1 .. n : <<j, i>> \in heavier}
             after(i) == {j \in 1 .. n : <<i, j>> \in heavier}
             gain(i) == Least(unused[i],
                              AtLeast0(error - AddUp(unused, before(i))))
             loss(i) == Least(amounts[i],
                              AtLeast0(-error - AddUp(amounts, after(i))))
  <1>5. Adjusted(amounts, room, heavier, error)
          = [i \in 1 .. n |-> amounts[i] + gain(i) - loss(i)]
    BY <1>1, <1>2, Zenon DEF Adjusted
  <1>6. ASSUME NEW i \in 1 .. n
        PROVE  gain(i) \in 0 .. unused[i] /\ loss(i) \in 0 .. amounts[i]
    <2>1. before(i) \subseteq 1 .. n /\ after(i) \subseteq 1 .. n
      OBVIOUS
    <2> HIDE DEF before, after
    <2>2. /\ AddUp(unused, before(i)) \in Int
          /\ AddUp(amounts, after(i)) \in Int
      BY <1>4, <2>1, SumOfPart
    <2>3. PICK u, v, x, y : /\ u = unused[i] /\ v = AddUp(unused, before(i))
                            /\ x = amounts[i] /\ y = AddUp(amounts, after(i))
      OBVIOUS
    <2>4. u \in Nat /\ v \in Int /\ x \in Nat /\ y \in Int
      BY <1>2, <1>3, <2>2, <2>3
    <2>5. error - v \in Int /\ -error - y \in Int
      BY <2>4
    <2> QED
      BY <2>3, <2>4, <2>5, TakenIsWithin
  <1> HIDE DEF gain, loss
  <1>7. ASSUME NEW i \in 1 .. n
        PROVE  /\ amounts[i] + gain(i) - loss(i) \in Nat
               /\ amounts[i] + gain(i) - loss(i) <= room[i]
    <2>1. PICK a, b, u, g, l : /\ a = amounts[i] /\ b = room[i]
                               /\ u = unused[i] /\ g = gain(i) /\ l = loss(i)
      OBVIOUS
    <2>2. /\ a \in Nat /\ u \in Nat /\ a + u = b
          /\ g \in 0 .. u /\ l \in 0 .. a
      BY <1>2, <1>3, <1>6, <2>1
    <2>3. a + g - l \in Nat /\ a + g - l <= b
      BY <2>2
    <2> QED
      BY <2>1, <2>3
  <1> QED
    BY <1>2, <1>5, <1>7 DEF Amounts, Fits

Positive(room) == \A i \in DOMAIN room : room[i] > 0

\* Amounts as a sequence, and what they add up to.
LEMMA AmountsAddUp ==
  ASSUME NEW n \in Nat, NEW amounts \in Amounts(n)
  PROVE  /\ amounts \in Seq(Nat) /\ Len(amounts) = n
         /\ DOMAIN amounts = 1 .. n
         /\ IsFiniteSet(1 .. n) /\ Values(amounts, 1 .. n)
         /\ Total(amounts) = SumOf(amounts, 1 .. n) /\ Total(amounts) \in Nat
         /\ \A i \in 1 .. n : amounts[i] <= Total(amounts)
  <1>1. /\ amounts \in Seq(Nat) /\ Len(amounts) = n /\ DOMAIN amounts = 1 .. n
        /\ \A i \in 1 .. n : amounts[i] \in Nat
    BY DEF Amounts
  <1>2. IsFiniteSet(1 .. n)
    BY FS_Interval
  <1>3. Values(amounts, 1 .. n) /\ SumOf(amounts, 1 .. n) \in Nat
    BY <1>1, <1>2, SumNatural
  <1>4. Total(amounts) = SumOf(amounts, 1 .. n)
    BY <1>1, <1>2, <1>3, AddsUp DEF Total
  <1>5. ASSUME NEW i \in 1 .. n
        PROVE  amounts[i] <= SumOf(amounts, 1 .. n)
    <2>1. /\ SumOf(amounts, 1 .. n)
               = amounts[i] + SumOf(amounts, (1 .. n) \ {i})
          /\ IsFiniteSet((1 .. n) \ {i})
      BY <1>2, <1>3, SumTakes
    <2>2. PICK R : R = (1 .. n) \ {i}
      OBVIOUS
    <2>3. \A j \in R : amounts[j] \in Nat
      BY <1>1, <2>2
    <2>4. SumOf(amounts, R) \in Nat
      BY <2>1, <2>2, <2>3, SumNatural
    <2> QED
      BY <1>1, <2>1, <2>2, <2>4
  <1> QED
    BY <1>1, <1>2, <1>3, <1>4, <1>5

\* A spread in proportion to the room.
LEMMA SpreadUniformFits ==
  ASSUME NEW n \in Nat \ {0}, NEW room \in Amounts(n), Positive(room),
         NEW hours \in Nat
  PROVE  /\ SpreadUniform(hours, room) \in Amounts(n)
         /\ Fits(SpreadUniform(hours, room), room)
  <1>1. PICK total, target : /\ total = Total(room)
                             /\ target = Least(hours, total)
    OBVIOUS
  <1>2. /\ Len(room) = n /\ DOMAIN room = 1 .. n /\ 1 \in 1 .. n
        /\ \A i \in 1 .. n : room[i] \in Nat \ {0}
    BY AmountsAddUp DEF Amounts, Positive
  <1>3. total \in Nat \ {0} /\ target \in Nat
    BY <1>1, <1>2, AmountsAddUp DEF Least
  <1>4. PICK share : share = [i \in 1 .. n - 1 |->
                                Least(Share(target, room[i], total), room[i])]
    OBVIOUS
  <1>5. ASSUME NEW i \in 1 .. n - 1
        PROVE  share[i] \in Nat /\ share[i] <= room[i]
    <2>1. i \in 1 .. n
      OBVIOUS
    <2>2. PICK part \in Nat \ {0} : part = room[i]
      BY <1>2, <2>1
    <2>3. Share(target, part, total) \in Nat
      BY <1>3, ShareIsNatural
    <2> QED
      BY <1>4, <2>2, <2>3 DEF Least
  <1>6. share \in Amounts(n - 1) /\ n - 1 \in Nat
    BY <1>4, <1>5 DEF Amounts
  <1>7. /\ share \in Seq(Nat) /\ Len(share) = n - 1 /\ Total(share) \in Nat
    BY <1>6, AmountsAddUp
  <1>8. PICK last : last = Least(AtLeast0(target - Total(share)), room[n])
    OBVIOUS
  <1>9. last \in Nat /\ last <= room[n]
    BY <1>2, <1>3, <1>7, <1>8 DEF Least, AtLeast0
  <1>10. PICK amounts : amounts = Append(share, last)
    OBVIOUS
  <1>11. /\ amounts \in Seq(Nat) /\ Len(amounts) = n
         /\ \A i \in 1 .. n - 1 : amounts[i] = share[i]
         /\ amounts[n] = last
    BY <1>7, <1>9, <1>10, AppendProperties
  <1>12. amounts \in Amounts(n) /\ Fits(amounts, room)
    <2>1. \A i \in 1 .. n : i = n \/ i \in 1 .. n - 1
      OBVIOUS
    <2>2. amounts \in [1 .. n -> Nat]
      BY <1>11, LenProperties
    <2> QED
      BY <1>2, <1>5, <1>9, <1>11, <2>1, <2>2 DEF Amounts, Fits
  <1>13. target - Total(amounts) \in Int
    BY <1>3, <1>12, AmountsAddUp
  <1>14. SpreadUniform(hours, room)
           = ToppedUp(amounts, room, target - Total(amounts))
    BY <1>1, <1>2, <1>4, <1>8, <1>10 DEF SpreadUniform
  <1> QED
    BY <1>12, <1>13, <1>14, ToppedUpFits

-----------------------------------------------------------------------------
(* The water-filling of a profile.                                         *)

\* What is left for days when the others are full, and the days of them whose
\* shares reach their room.
LeftFor(open, target, room) == target - AddUp(room, (DOMAIN room) \ open)

FullAmong(open, target, room, weight) ==
  {i \in open : LeftFor(open, target, room) * weight[i]
                  >= room[i] * AddUp(weight, open)}

\* The weight of days.
LEMMA WeightOfDays ==
  ASSUME NEW n \in Nat, NEW weight \in [1 .. n -> Nat \ {0}],
         NEW T \in SUBSET (1 .. n)
  PROVE  /\ IsFiniteSet(T) /\ AddUp(weight, T) = SumOf(weight, T)
         /\ AddUp(weight, T) \in Nat
         /\ T # {} => AddUp(weight, T) # 0
  <1>1. Values(weight, 1 .. n)
    BY DEF Values
  <1>2. IsFiniteSet(T) /\ AddUp(weight, T) = SumOf(weight, T)
    BY <1>1, SumOfPart
  <1>3. \A i \in T : weight[i] \in Nat
    OBVIOUS
  <1>4. SumOf(weight, T) \in Nat /\ Values(weight, T)
    BY <1>2, <1>3, SumNatural
  <1>5. ASSUME NEW i \in T
        PROVE  SumOf(weight, T) # 0
    <2>1. /\ SumOf(weight, T) = weight[i] + SumOf(weight, T \ {i})
          /\ IsFiniteSet(T \ {i})
      BY <1>2, <1>4, SumTakes
    <2>2. PICK R : R = T \ {i}
      OBVIOUS
    <2>3. \A j \in R : weight[j] \in Nat
      BY <2>2
    <2>4. SumOf(weight, R) \in Nat
      BY <2>1, <2>2, <2>3, SumNatural
    <2>5. weight[i] \in Nat /\ weight[i] > 0
      OBVIOUS
    <2> QED
      BY <2>1, <2>2, <2>4, <2>5
  <1> QED
    BY <1>2, <1>4, <1>5

\* The days that are full need no more than there is.
LEMMA FullNeedNoMore ==
  ASSUME NEW n \in Nat, NEW room \in Amounts(n),
         NEW weight \in [1 .. n -> Nat \ {0}], NEW target \in Nat,
         NEW T \in SUBSET (1 .. n), LeftFor(T, target, room) >= 0,
         NEW F, F = FullAmong(T, target, room, weight)
  PROVE  LeftFor(T \ F, target, room) >= 0
  <1>1. CASE F = {}
    <2>1. T \ F = T
      BY <1>1
    <2> QED
      BY <2>1
  <1>2. CASE F # {}
    <2>1. PICK left, W, w : /\ left = LeftFor(T, target, room)
                            /\ W = AddUp(weight, T) /\ w = SumOf(weight, F)
      OBVIOUS
    <2>2. /\ DOMAIN room = 1 .. n /\ IsFiniteSet(1 .. n)
          /\ Values(room, 1 .. n) /\ \A i \in 1 .. n : room[i] \in Nat
      BY AmountsAddUp DEF Amounts
    <2>3. F \in SUBSET T /\ T # {} /\ F \in SUBSET (1 .. n)
      BY <1>2 DEF FullAmong
    <2>4. /\ W \in Nat \ {0} /\ W = SumOf(weight, T) /\ IsFiniteSet(T)
          /\ w \in Nat /\ IsFiniteSet(F)
      BY <2>1, <2>3, WeightOfDays
    <2>5. /\ left \in Nat
          /\ left = target - SumOf(room, (1 .. n) \ T)
          /\ SumOf(room, (1 .. n) \ T) \in Int
      <3>1. (1 .. n) \ T \subseteq 1 .. n
        OBVIOUS
      <3>2. /\ AddUp(room, (1 .. n) \ T) = SumOf(room, (1 .. n) \ T)
            /\ AddUp(room, (1 .. n) \ T) \in Int
        BY <2>2, <3>1, SumOfPart
      <3> QED
        BY <2>1, <2>2, <3>2 DEF LeftFor
    <2>6. SumOf(room, F) \in Nat /\ Values(room, F) /\ Values(weight, F)
      <3>1. \A i \in F : room[i] \in Nat
        BY <2>2, <2>3
      <3>2. \A i \in F : weight[i] \in Nat
        BY <2>3
      <3> QED
        BY <2>4, <3>1, <3>2, SumNatural
    <2>7. LeftFor(T \ F, target, room) = left - SumOf(room, F)
      <3>1. PICK A, B : A = (1 .. n) \ (T \ F) /\ B = (1 .. n) \ T
        OBVIOUS
      <3>2. A \subseteq 1 .. n /\ F \subseteq A /\ A \ F = B
        BY <2>3, <3>1
      <3>3. /\ AddUp(room, A) = SumOf(room, A) /\ IsFiniteSet(A)
            /\ Values(room, A)
        BY <2>2, <3>2, SumOfPart
      <3>4. SumOf(room, A) = SumOf(room, F) + SumOf(room, B)
        BY <3>2, <3>3, SumParts
      <3>5. PICK a, b, c : /\ a = SumOf(room, A) /\ b = SumOf(room, B)
                           /\ c = SumOf(room, F)
        OBVIOUS
      <3>6. /\ LeftFor(T \ F, target, room) = target - a
            /\ left = target - b /\ a = c + b /\ b \in Int /\ c \in Int
        BY <2>2, <2>5, <2>6, <3>1, <3>3, <3>4, <3>5 DEF LeftFor
      <3> QED
        BY <3>5, <3>6
    <2>8. SumOf(room, F) * W <= left * w
      <3>1. PICK f, g : /\ f = [i \in F |-> W * room[i]]
                        /\ g = [i \in F |-> left * weight[i]]
        OBVIOUS
      <3>2. ASSUME NEW i \in F
            PROVE  f[i] \in Int /\ g[i] \in Int /\ f[i] <= g[i]
        <4>1. left * weight[i] >= room[i] * W
          BY <2>1 DEF FullAmong
        <4>2. PICK r \in Nat, v \in Nat : r = room[i] /\ v = weight[i]
          BY <2>2, <2>3
        <4>3. f[i] = W * r /\ g[i] = left * v /\ left * v >= r * W
          BY <3>1, <4>1, <4>2
        <4> QED
          BY <2>4, <2>5, <4>3
      <3>3. Values(f, F) /\ Values(g, F)
        BY <3>2 DEF Values
      <3>4. SumOf(f, F) <= SumOf(g, F)
        BY <2>4, <3>2, <3>3, SumAtMost
      <3>5. SumOf(f, F) = W * SumOf(room, F)
        BY <2>4, <2>6, <3>1, SumScaled
      <3>6. SumOf(g, F) = left * SumOf(weight, F)
        <4>1. \A i \in F : g[i] = left * weight[i]
          BY <3>1
        <4>2. left \in Int /\ IsFiniteSet(F) /\ Values(weight, F)
          BY <2>4, <2>5, <2>6
        <4> QED
          BY <4>1, <4>2, SumScaled
      <3> QED
        BY <2>1, <2>4, <2>6, <3>4, <3>5, <3>6
    <2>9. w <= W
      <3>1. /\ SumOf(weight, T) = SumOf(weight, F) + SumOf(weight, T \ F)
            /\ SumOf(weight, T \ F) \in Int
        <4>1. Values(weight, T)
          BY DEF Values
        <4> QED
          BY <2>3, <2>4, <4>1, SumParts
      <3>2. PICK R : R = T \ F
        OBVIOUS
      <3>3. R \in SUBSET (1 .. n)
        BY <3>2
      <3>4. SumOf(weight, R) \in Nat
        BY <3>3, WeightOfDays
      <3> QED
        BY <2>1, <2>4, <3>1, <3>2, <3>4
    <2>10. SumOf(room, F) <= left
      <3>1. PICK s \in Nat : s = SumOf(room, F)
        BY <2>6
      <3>2. SUFFICES ASSUME s > left
                     PROVE  FALSE
        BY <2>5, <3>1
      <3>3. w * left <= W * left
        BY <2>4, <2>5, <2>9, ProductGrows
      <3>4. (left + 1) * W <= s * W
        <4>1. left + 1 \in Int /\ s \in Int /\ left + 1 <= s /\ W \in Nat
          BY <2>4, <2>5, <3>1, <3>2
        <4> QED
          BY <4>1, ProductGrows
      <3>5. PICK p, q, r : p = left * W /\ q = left * w /\ r = s * W
        OBVIOUS
      <3>6. /\ p \in Int /\ q \in Int /\ r \in Int
            /\ w * left = q /\ W * left = p /\ (left + 1) * W = p + W
        <4>1. left \in Int /\ W \in Int /\ w \in Int /\ s \in Int
          BY <2>4, <2>5, <3>1
        <4>2. p \in Int /\ q \in Int /\ r \in Int
          BY <3>5, <4>1
        <4>3. w * left = q /\ W * left = p
          BY <3>5, <4>1
        <4>4. (left + 1) * W = p + W
          BY <3>5, <4>1
        <4> QED
          BY <4>2, <4>3, <4>4
      <3>7. r <= q /\ q <= p /\ p + W <= r
        BY <2>8, <3>1, <3>3, <3>4, <3>5, <3>6
      <3> QED
        BY <2>4, <3>6, <3>7
    <2> QED
      BY <2>5, <2>6, <2>7, <2>10
  <1> QED
    BY <1>1, <1>2

\* What stays open has no day whose share reaches its room.
LEMMA UnsaturatedStaysBelow ==
  ASSUME NEW n \in Nat, NEW room \in Amounts(n),
         NEW weight \in [1 .. n -> Nat \ {0}],
         NEW target \in Nat, NEW open, open = Unsaturated(target, room, weight)
  PROVE  /\ open \in SUBSET (1 .. n)
         /\ LeftFor(open, target, room) >= 0
         /\ FullAmong(open, target, room, weight) = {}
  <1>1. DOMAIN room = 1 .. n /\ IsFiniteSet(1 .. n)
    BY AmountsAddUp
  <1> DEFINE Full(T) == FullAmong(T, target, room, weight)
             cut == [T \in SUBSET (1 .. n) |-> Full(T)]
             I == {T \in SUBSET (1 .. n) : LeftFor(T, target, room) >= 0}
             below == CHOOSE b : b = [T \in SUBSET (1 .. n) |->
                        IF Full(T) = {} THEN T ELSE b[T \ Full(T)]]
  <1>2. open = below[1 .. n]
    BY <1>1, Zenon DEF Unsaturated, FullAmong, LeftFor
  <1>3. Cuts(cut, 1 .. n)
    BY DEF Cuts, FullAmong
  <1>4. \A b : CutDown(b, cut, 1 .. n)
                 <=> b = [T \in SUBSET (1 .. n) |->
                            IF Full(T) = {} THEN T ELSE b[T \ Full(T)]]
    <2> HIDE DEF Full
    <2>1. \A b : [T \in SUBSET (1 .. n) |->
                    IF cut[T] = {} THEN T ELSE b[T \ cut[T]]]
                   = [T \in SUBSET (1 .. n) |->
                        IF Full(T) = {} THEN T ELSE b[T \ Full(T)]]
      OBVIOUS
    <2> QED
      BY <2>1, Zenon DEF CutDown
  <1> HIDE DEF Full
  <1>5. \E b : CutDown(b, cut, 1 .. n)
    <2> HIDE DEF cut
    <2> QED
      BY <1>1, <1>3, CutDownExists
  <1>6. CutDown(below, cut, 1 .. n)
    BY <1>4, <1>5, Zenon
  <1>7. ASSUME NEW T \in SUBSET (1 .. n), T \in I
        PROVE  T \ cut[T] \in I
    <2>1. PICK F : F = FullAmong(T, target, room, weight)
      OBVIOUS
    <2>2. LeftFor(T \ F, target, room) >= 0
      BY <1>7, <2>1, FullNeedNoMore
    <2> QED
      BY <2>1, <2>2 DEF Full
  <1>8. Keeps(I, cut, 1 .. n)
    BY <1>7 DEF Keeps
  <1>9. 1 .. n \in I
    <2>1. (1 .. n) \ (1 .. n) = {}
      OBVIOUS
    <2>2. AddUp(room, {}) = 0
      <3>1. IsFiniteSet({}) /\ Values(room, {})
        BY FS_EmptySet DEF Values
      <3> QED
        BY <3>1, AddsUp, SumNothing
    <2>3. LeftFor(1 .. n, target, room) = target - 0
      BY <1>1, <2>1, <2>2 DEF LeftFor
    <2> QED
      BY <2>3
  <1> HIDE DEF cut, I, below
  <1>10. open \in I /\ open \in SUBSET (1 .. n) /\ cut[open] = {}
    BY <1>1, <1>2, <1>3, <1>6, <1>9, <1>8, CutDownEnds
  <1> QED
    BY <1>10 DEF I, cut, Full

\* The weights of a profile are positive.
LEMMA WeightIsPositive ==
  ASSUME NEW profile, NEW n \in Nat, NEW i \in 1 .. n
  PROVE  Weight(profile, i, n) \in Nat \ {0}
  BY DEF Weight, Least

\* A spread in proportion to the weights of a profile.
LEMMA SpreadProfileFits ==
  ASSUME NEW n \in Nat, NEW room \in Amounts(n), NEW hours \in Nat, NEW profile
  PROVE  /\ SpreadProfile(hours, room, profile) \in Amounts(n)
         /\ Fits(SpreadProfile(hours, room, profile), room)
  <1>1. PICK target : target = Least(hours, Total(room))
    OBVIOUS
  <1>2. /\ Len(room) = n /\ DOMAIN room = 1 .. n
        /\ \A i \in 1 .. n : room[i] \in Nat
    BY AmountsAddUp DEF Amounts
  <1>3. target \in Nat
    BY <1>1, AmountsAddUp DEF Least
  <1>4. PICK weight : weight = [i \in 1 .. n |-> Weight(profile, i, n)]
    OBVIOUS
  <1>5. weight \in [1 .. n -> Nat \ {0}]
    BY <1>4, WeightIsPositive
  <1>6. PICK open : open = Unsaturated(target, room, weight)
    OBVIOUS
  <1>7. /\ open \in SUBSET (1 .. n)
        /\ LeftFor(open, target, room) >= 0
        /\ FullAmong(open, target, room, weight) = {}
    BY <1>3, <1>5, <1>6, UnsaturatedStaysBelow
  <1>8. PICK left, heavy : /\ left = target - AddUp(room, (1 .. n) \ open)
                           /\ heavy = AddUp(weight, open)
    OBVIOUS
  <1>9. left = LeftFor(open, target, room) /\ left \in Nat
    <2>1. left = LeftFor(open, target, room)
      BY <1>2, <1>8 DEF LeftFor
    <2>2. (1 .. n) \ open \subseteq 1 .. n /\ Values(room, 1 .. n)
      BY <1>2 DEF Values
    <2>3. AddUp(room, (1 .. n) \ open) \in Int
      BY <2>2, SumOfPart
    <2> QED
      BY <1>3, <1>7, <1>8, <2>1, <2>3
  <1>10. PICK amounts : amounts = [i \in 1 .. n |->
           IF i \in open THEN Share(left, weight[i], heavy) ELSE room[i]]
    OBVIOUS
  <1>11. ASSUME NEW i \in open
         PROVE  /\ Share(left, weight[i], heavy) \in Nat
                /\ Share(left, weight[i], heavy) <= room[i]
    <2>1. heavy \in Nat \ {0}
      BY <1>5, <1>7, <1>8, WeightOfDays
    <2>2. PICK r \in Nat, v \in Nat : r = room[i] /\ v = weight[i]
      BY <1>2, <1>5, <1>7
    <2>3. ~(left * v >= r * heavy)
      BY <1>7, <1>8, <1>9, <2>2 DEF FullAmong
    <2>4. left * v < r * heavy
      <3>1. PICK x, y : x = left * v /\ y = r * heavy
        OBVIOUS
      <3>2. x \in Int /\ y \in Int
        BY <1>9, <2>1, <3>1
      <3> QED
        BY <2>3, <3>1, <3>2
    <2>5. Share(left, v, heavy) \in Nat /\ Share(left, v, heavy) <= r
      BY <1>9, <2>1, <2>4, ShareIsNatural, ShareIsBelow
    <2> QED
      BY <2>2, <2>5
  <1>12. amounts \in Amounts(n) /\ Fits(amounts, room)
    BY <1>2, <1>7, <1>10, <1>11 DEF Amounts, Fits
  <1>13. target - Total(amounts) \in Int
    BY <1>3, <1>12, AmountsAddUp
  <1>14. PICK heavier : heavier = {i \in Pairs(1 .. n) :
                          \/ weight[i[1]] > weight[i[2]]
                          \/ weight[i[1]] = weight[i[2]] /\ i[1] < i[2]}
    OBVIOUS
  <1>15. SpreadProfile(hours, room, profile)
           = Adjusted(amounts, room, heavier, target - Total(amounts))
    BY <1>1, <1>2, <1>4, <1>6, <1>8, <1>10, <1>14, Zenon DEF SpreadProfile
  <1> QED
    BY <1>12, <1>13, <1>15, AdjustedFits

-----------------------------------------------------------------------------
(* Days.                                                                   *)

\* A segment of the snapshot.
LEMMA SegmentIs ==
  ASSUME snapshot \in Snapshots, NEW s \in DOMAIN Segments
  PROVE  /\ Segments[s] \in EngineSegment /\ s \in Nat
         /\ Segments[s].hours \in Nat /\ Segments[s].target \in Nat
         /\ Segments[s].from \in Int /\ Segments[s].to \in Int
         /\ IsFiniteSet(Window(s)) /\ Window(s) \subseteq Int
         /\ Window(s) \subseteq Horizon
  <1>1. Segments \in Seq(EngineSegment)
    BY EngineAssumption DEF Snapshot, Segments
  <1>2. Segments[s] \in EngineSegment /\ s \in Nat
    BY <1>1, LenProperties
  <1>3. /\ Segments[s].from \in Horizon /\ Segments[s].to \in Horizon
        /\ Segments[s].hours \in Nat /\ Segments[s].target \in Nat
    BY <1>2 DEF EngineSegment
  <1>4. /\ Segments[s].from \in Int /\ Segments[s].to \in Int
        /\ Window(s) \subseteq Horizon
    BY <1>3, EngineAssumption DEF Window
  <1>5. PICK a \in Int, b \in Int : Window(s) = a .. b
    BY <1>4 DEF Window
  <1>6. IsFiniteSet(Window(s)) /\ Window(s) \subseteq Int
    BY <1>5, FS_Interval
  <1> QED
    BY <1>2, <1>3, <1>4, <1>6

\* Who works a segment that can be generated has capacities.
LEMMA CapacityIsNatural ==
  ASSUME snapshot \in Snapshots, NEW s \in Generable, NEW d
  PROVE  /\ Segments[s].person \in People
         /\ Capacity(Segments[s].person, d) \in Nat
  <1>1. s \in DOMAIN Segments /\ Segments[s].person # None
    BY DEF Generable, Active, Schedulable
  <1>2. Segments[s].person \in People
    BY <1>1, SegmentIs DEF EngineSegment
  <1>3. snapshot.calendar[Segments[s].person].daily \in Nat
    BY <1>2, EngineAssumption DEF Snapshot
  <1> QED
    BY <1>2, <1>3 DEF Capacity

\* The rank of a day for a profile.
Liking(s, room, x) ==
  LET g == Segments[s] IN
  CASE g.profile = "FRONT_LOADED" -> x
    [] g.profile = "BACK_LOADED" -> -x
    [] g.profile = "BELL" -> IF 2 * x < g.from + g.to THEN g.from + g.to - 2 * x
                            ELSE 2 * x - (g.from + g.to)
    [] OTHER -> -room[x]

\* Days in the order of a profile, those of one kind first.
LEMMA PreferredIsOrdered ==
  ASSUME snapshot \in Snapshots, NEW s \in DOMAIN Segments, NEW room,
         NEW S, S \subseteq Window(s), \A d \in S : room[d] \in Nat, NEW first
  PROVE  StrictOrder({d \in Pairs(S) :
                        \/ d[1] \in first /\ d[2] \notin first
                        \/ /\ (d[1] \in first) = (d[2] \in first)
                           /\ Preferred(s, room, d[1], d[2])}, S)
  <1>1. PICK key : key = [x \in S |-> Liking(s, room, x)]
    OBVIOUS
  <1>2. ASSUME NEW x \in S
        PROVE  x \in Int /\ key[x] \in Int
    <2>1. PICK a \in Int, b \in Int : a = Segments[s].from /\ b = Segments[s].to
      BY SegmentIs
    <2>2. PICK r \in Nat : r = room[x]
      OBVIOUS
    <2>3. x \in Int
      BY SegmentIs
    <2> QED
      BY <1>1, <2>1, <2>2, <2>3 DEF Liking
  <1>3. ASSUME NEW d \in S, NEW e \in S
        PROVE  Preferred(s, room, d, e)
                 <=> key[d] < key[e] \/ (key[d] = key[e] /\ d < e)
    BY <1>1, Zenon DEF Preferred, Liking
  <1> DEFINE Before(d, e) ==
               \/ d \in first /\ e \notin first
               \/ /\ (d \in first) = (e \in first)
                  /\ key[d] < key[e] \/ (key[d] = key[e] /\ d < e)
             R == {d \in Pairs(S) :
                     \/ d[1] \in first /\ d[2] \notin first
                     \/ /\ (d[1] \in first) = (d[2] \in first)
                        /\ Preferred(s, room, d[1], d[2])}
  <1>4. \A d, e \in S : <<d, e>> \in R <=> Before(d, e)
    BY <1>3 DEF Pairs
  <1>5. ASSUME NEW d \in S
        PROVE  ~Before(d, d)
    BY <1>2
  <1>6. ASSUME NEW d \in S, NEW e \in S, NEW f \in S,
               Before(d, e), Before(e, f)
        PROVE  Before(d, f)
    BY <1>2, <1>6
  <1>7. ASSUME NEW d \in S, NEW e \in S, d # e
        PROVE  Before(d, e) \/ Before(e, d)
    BY <1>2, <1>7
  <1> HIDE DEF Before, R
  <1>8. StrictOrder(R, S)
    BY <1>4, <1>5, <1>6, <1>7 DEF StrictOrder
  <1> QED
    BY <1>8 DEF R

\* Days in the order of a profile.
LEMMA PreferenceIsOrdered ==
  ASSUME snapshot \in Snapshots, NEW s \in DOMAIN Segments, NEW room,
         NEW S, S \subseteq Window(s), \A d \in S : room[d] \in Nat
  PROVE  StrictOrder({d \in Pairs(S) : Preferred(s, room, d[1], d[2])}, S)
  <1>1. StrictOrder({d \in Pairs(S) :
             \/ d[1] \in {} /\ d[2] \notin {}
             \/ /\ (d[1] \in {}) = (d[2] \in {})
                /\ Preferred(s, room, d[1], d[2])}, S)
    BY PreferredIsOrdered
  <1>2. {d \in Pairs(S) : Preferred(s, room, d[1], d[2])}
          = {d \in Pairs(S) :
               \/ d[1] \in {} /\ d[2] \notin {}
               \/ /\ (d[1] \in {}) = (d[2] \in {})
                  /\ Preferred(s, room, d[1], d[2])}
    OBVIOUS
  <1> QED
    BY <1>1, <1>2

-----------------------------------------------------------------------------
(* Hours of rows.                                                          *)

\* Finitely many rows, with hours.
Timed(rows) == IsFiniteSet(rows) /\ \A x \in rows : x.hours \in Nat

\* The hours of rows are a number.
LEMMA HoursAreNatural ==
  ASSUME NEW rows, Timed(rows)
  PROVE  HoursIn(rows) \in Nat
  <1>1. PICK f : f = [x \in rows |-> x.hours]
    OBVIOUS
  <1>2. IsFiniteSet(rows) /\ \A x \in rows : f[x] \in Nat
    BY <1>1 DEF Timed
  <1>3. Values(f, rows) /\ SumOf(f, rows) \in Nat
    BY <1>2, SumNatural
  <1> QED
    BY <1>1, <1>2, <1>3, AddsUp DEF HoursIn

\* The hours of two sets of rows that have none in common.
LEMMA HoursOfBoth ==
  ASSUME NEW A, Timed(A), NEW B, Timed(B), A \cap B = {}
  PROVE  Timed(A \cup B) /\ HoursIn(A \cup B) = HoursIn(A) + HoursIn(B)
  <1>1. PICK f, g, h : /\ f = [x \in A \cup B |-> x.hours]
                       /\ g = [x \in A |-> x.hours]
                       /\ h = [x \in B |-> x.hours]
    OBVIOUS
  <1>2. PICK S : S = A \cup B
    OBVIOUS
  <1>3. IsFiniteSet(A) /\ IsFiniteSet(B) /\ IsFiniteSet(S) /\ Timed(S)
    BY <1>2, FS_Union DEF Timed
  <1>4. Values(f, S) /\ Values(g, A) /\ Values(h, B)
    BY <1>1, <1>2 DEF Timed, Values
  <1>5. HoursIn(S) = SumOf(f, S) /\ HoursIn(A) = SumOf(g, A)
        /\ HoursIn(B) = SumOf(h, B)
    BY <1>1, <1>2, <1>3, <1>4, AddsUp DEF HoursIn
  <1>6. /\ A \subseteq S /\ S \ A = B
        /\ SumOf(f, S) = SumOf(f, A) + SumOf(f, S \ A)
    <2>1. A \subseteq S /\ S \ A = B
      BY <1>2
    <2> QED
      BY <1>3, <1>4, <2>1, SumParts
  <1>7. SumOf(f, A) = SumOf(g, A)
    <2>1. \A x \in A : f[x] = g[x]
      BY <1>1
    <2> QED
      BY <1>3, <1>4, <2>1, SumAlike
  <1>8. SumOf(f, B) = SumOf(h, B)
    <2>1. \A x \in B : f[x] = h[x]
      BY <1>1
    <2> QED
      BY <1>3, <1>4, <2>1, SumAlike
  <1> QED
    BY <1>2, <1>3, <1>5, <1>6, <1>7, <1>8

\* The hours that one segment places.
LEMMA PlacedHours ==
  ASSUME NEW s, NEW n \in Nat, NEW days, DOMAIN days = 1 .. n,
         IsInjective(days), NEW amounts \in Amounts(n), NEW kind,
         NEW rows, rows = Placed(s, days, amounts, kind)
  PROVE  Timed(rows) /\ HoursIn(rows) = Total(amounts)
  <1>1. PICK m : m = [i \in 1 .. n |->
           [segment |-> s, person |-> Segments[s].person, day |-> days[i],
            hours |-> amounts[i], kind |-> kind, outside |-> kind = "OVERTIME"]]
    OBVIOUS
  <1>2. PICK I : I = {i \in 1 .. n : amounts[i] > 0}
    OBVIOUS
  <1>3. rows = {m[i] : i \in I}
    BY <1>1, <1>2 DEF Placed
  <1>4. /\ IsFiniteSet(1 .. n) /\ Values(amounts, 1 .. n)
        /\ Total(amounts) = SumOf(amounts, 1 .. n)
        /\ I \subseteq 1 .. n /\ IsFiniteSet(I) /\ Values(amounts, I)
    <2>1. I \subseteq 1 .. n
      BY <1>2
    <2>2. /\ IsFiniteSet(1 .. n) /\ Values(amounts, 1 .. n)
          /\ Total(amounts) = SumOf(amounts, 1 .. n)
      BY AmountsAddUp
    <2> QED
      BY <2>1, <2>2, FS_Subset DEF Values
  <1>5. IsFiniteSet(rows)
    <2>1. IsFiniteSet(I)
      BY <1>4
    <2>2. IsFiniteSet({m[i] : i \in I})
      BY <2>1, ImageIsFinite
    <2> QED
      BY <1>3, <2>2
  <1>6. PICK f : f = [x \in rows |-> x.hours]
    OBVIOUS
  <1>7. \A i \in I : m[i] \in rows /\ f[m[i]] = amounts[i] /\ amounts[i] \in Nat
    BY <1>1, <1>3, <1>4, <1>6 DEF Amounts
  <1>8. ASSUME NEW i \in I, NEW j \in I, m[i] = m[j]
        PROVE  i = j
    <2>1. m[i].day = days[i] /\ m[j].day = days[j]
      BY <1>1, <1>4
    <2> QED
      BY <1>4, <1>8, <2>1 DEF IsInjective
  <1>9. SumOf(f, rows) = SumOf(amounts, I)
    <2>1. \A i, j \in I : m[i] = m[j] => i = j
      BY <1>8
    <2>2. \A i \in I : f[m[i]] = amounts[i]
      BY <1>7
    <2>3. IsFiniteSet(I) /\ Values(amounts, I)
      BY <1>4
    <2>4. SumOf(f, {m[i] : i \in I}) = SumOf(amounts, I)
      BY <2>1, <2>2, <2>3, SumMapped
    <2> QED
      BY <1>3, <2>4
  <1>10. Timed(rows) /\ Values(f, rows)
    <2>1. \A x \in rows : x.hours \in Nat /\ f[x] = x.hours
      BY <1>1, <1>3, <1>4, <1>6 DEF Amounts
    <2> QED
      BY <1>5, <2>1 DEF Timed, Values
  <1>11. HoursIn(rows) = SumOf(f, rows)
    BY <1>5, <1>6, <1>10, AddsUp DEF HoursIn
  <1>12. SumOf(amounts, 1 .. n) = SumOf(amounts, I)
    <2>1. \A i \in (1 .. n) \ I : amounts[i] = 0
      BY <1>2 DEF Amounts
    <2>2. PICK D : D = 1 .. n
      OBVIOUS
    <2>3. IsFiniteSet(D) /\ Values(amounts, D) /\ I \subseteq D
      BY <1>4, <2>2
    <2>4. \A i \in D \ I : amounts[i] = 0
      BY <2>1, <2>2
    <2>5. SumOf(amounts, D) = SumOf(amounts, I)
      BY <2>3, <2>4, SumWithin
    <2> QED
      BY <2>2, <2>5
  <1> QED
    BY <1>4, <1>9, <1>10, <1>11, <1>12

-----------------------------------------------------------------------------
(* The days a segment is placed on.                                        *)

\* Rows as the engine has them.
Rowed(rows) == rows \subseteq EngineShift /\ IsFiniteSet(rows)

\* Some of these rows.
LEMMA SomeRows ==
  ASSUME NEW rows, Rowed(rows), NEW some, some \subseteq rows
  PROVE  Timed(some) /\ HoursIn(some) \in Nat
  <1>1. IsFiniteSet(some)
    BY FS_Subset DEF Rowed
  <1>2. Timed(some)
    BY <1>1 DEF Timed, Rowed, EngineShift
  <1> QED
    BY <1>2, HoursAreNatural

\* The room a segment finds.
LEMMA RoomIs ==
  ASSUME snapshot \in Snapshots, Rowed(result), NEW s \in Generable, NEW d
  PROVE  /\ UsedHours(Segments[s].person, d) \in Nat
         /\ Room(s, d) \in Nat
         /\ Room(s, d) > 0 => Room(s, d) + UsedHours(Segments[s].person, d)
                                = Capacity(Segments[s].person, d)
  <1>1. UsedHours(Segments[s].person, d) \in Nat
    <2>1. {x \in result : /\ x.person = Segments[s].person /\ x.day = d
                          /\ x.kind \in {"LOCKED", "STANDARD"}} \subseteq result
      OBVIOUS
    <2> QED
      BY <2>1, SomeRows DEF UsedHours
  <1>2. PICK c \in Nat, u \in Nat : /\ c = Capacity(Segments[s].person, d)
                                    /\ u = UsedHours(Segments[s].person, d)
    BY <1>1, CapacityIsNatural
  <1> QED
    BY <1>1, <1>2 DEF Room, AtLeast0

\* What a segment still needs.
LEMMA RemainingIs ==
  ASSUME snapshot \in Snapshots, Rowed(result), NEW s \in Generable
  PROVE  /\ HoursIn(LockedOf(s)) \in Nat /\ Segments[s].hours \in Nat
         /\ Remaining(s) = AtLeast0(Segments[s].hours - HoursIn(LockedOf(s)))
         /\ Remaining(s) \in Nat
  <1>1. HoursIn(LockedOf(s)) \in Nat
    <2>1. LockedOf(s) \subseteq result
      BY DEF LockedOf
    <2> QED
      BY <2>1, SomeRows
  <1>2. Segments[s].hours \in Nat
    BY SegmentIs DEF Generable, Active
  <1> QED
    BY <1>1, <1>2 DEF Remaining, AtLeast0

\* The days of a flexible segment: those of locked shifts that have room, and
\* some of the others.
Chosen(s, room, locked, order, k) ==
  {d \in locked \cap Window(s) : room[d] > 0} \cup {order[i] : i \in 1 .. k}

\* The least number of a set, or another one when there is none.
FirstOf(T, other) ==
  IF T = {} THEN other ELSE CHOOSE k \in T : \A j \in T : k <= j

\* It is within the bounds of the set.
LEMMA FirstIs ==
  ASSUME NEW f \in Nat, NEW n \in Nat, f <= n, NEW T, T \subseteq f .. n
  PROVE  /\ FirstOf(T, n) \in Nat /\ f <= FirstOf(T, n) /\ FirstOf(T, n) <= n
         /\ \A j \in T : FirstOf(T, n) <= j
  <1>1. CASE T = {}
    BY <1>1 DEF FirstOf
  <1>2. CASE T # {}
    <2>1. T \subseteq Nat
      OBVIOUS
    <2>2. \E k \in T : \A j \in T : k <= j
      BY <1>2, <2>1, LeastNumber
    <2>3. PICK k : k = CHOOSE i \in T : \A j \in T : i <= j
      OBVIOUS
    <2>4. k \in T /\ \A j \in T : k <= j
      BY <2>2, <2>3
    <2>5. FirstOf(T, n) = k
      BY <1>2, <2>3 DEF FirstOf
    <2> QED
      BY <2>4, <2>5
  <1> QED
    BY <1>1, <1>2

\* The days that locked shifts of a segment are on, and its room.
LockedDays(s) == {x.day : x \in LockedOf(s)}
RoomOf(s) == [d \in Window(s) |-> Room(s, d)]

\* They are finitely many.
LEMMA LockedDaysAre ==
  ASSUME Rowed(result), NEW s
  PROVE  IsFiniteSet(LockedDays(s)) /\ Cardinality(LockedDays(s)) \in Nat
  <1>1. PICK m : m = [x \in LockedOf(s) |-> x.day]
    OBVIOUS
  <1>2. IsFiniteSet(LockedOf(s))
    BY FS_Subset DEF LockedOf, Rowed
  <1>3. LockedDays(s) = {m[x] : x \in LockedOf(s)}
    BY <1>1 DEF LockedDays
  <1> QED
    BY <1>2, <1>3, ImageIsFinite, FS_CardinalityType

\* It has more than its additional days only if one day less would not hold
\* what it needs.
ChosenWell(s, room, locked, n, k, order) ==
  /\ n \in Nat /\ k \in Nat /\ k <= n
  /\ order \in [1 .. n -> {d \in Window(s) \ locked : room[d] > 0}]
  /\ ActiveDays(s) = Chosen(s, room, locked, order, k)
  /\ k > AdditionalDays(s, locked) =>
       AddUp(room, Chosen(s, room, locked, order, k - 1)) + Tolerance
         < Remaining(s)

\* The days of a flexible segment are chosen well.
LEMMA DaysAreChosen ==
  ASSUME snapshot \in Snapshots, Rowed(result), NEW s \in Generable,
         ~(Segments[s].fixed \/ Segments[s].target = 0),
         NEW room, room = RoomOf(s), NEW locked, locked = LockedDays(s)
  PROVE  \E n, k, order : ChosenWell(s, room, locked, n, k, order)
  <1>2. s \in DOMAIN Segments
    BY DEF Generable, Active
  <1>3. IsFiniteSet(Window(s)) /\ \A d \in Window(s) : room[d] \in Nat
    BY <1>2, SegmentIs, RoomIs DEF RoomOf
  <1>4. ActiveDays(s) = DaysWithRoom(s, room, locked)
    BY DEF ActiveDays, RoomOf, LockedDays
  <1>5. PICK new, R : /\ new = {d \in Window(s) \ locked : room[d] > 0}
                      /\ R = {d \in Pairs(new) :
                                Preferred(s, room, d[1], d[2])}
    OBVIOUS
  <1>6. PICK order : order = Sorted(new, R)
    OBVIOUS
  <1>7. ActiveDays(s) = TargetDays(s, room, locked, order)
    BY <1>4, <1>5, <1>6 DEF DaysWithRoom
  <1>8. /\ new \subseteq Window(s) /\ IsFiniteSet(new)
        /\ \A d \in new : room[d] \in Nat
    BY <1>3, <1>5, FS_Subset
  <1>9. StrictOrder(R, new)
    BY <1>2, <1>5, <1>8, PreferenceIsOrdered
  <1>10. PICK n \in Nat : n = Cardinality(new)
    BY <1>8, FS_CardinalityType
  <1>11. order \in [1 .. n -> new]
    BY <1>6, <1>8, <1>9, <1>10, SortedEnumerates
  <1>12. order \in Seq(new) /\ Len(order) = n
    BY <1>11
  <1> DEFINE fewest == Least(AdditionalDays(s, locked), Len(order))
             enough == {k \in fewest .. Len(order) :
                          AddUp(room, Chosen(s, room, locked, order, k))
                            + Tolerance >= Remaining(s)}
             number == FirstOf(enough, Len(order))
  <1>13. ActiveDays(s) = Chosen(s, room, locked, order, number)
    BY <1>7, Zenon DEF TargetDays, Chosen, FirstOf
  <1>14. PICK more \in Nat : more = AdditionalDays(s, locked)
    <2>1. Cardinality(locked) \in Nat
      BY LockedDaysAre
    <2>2. Segments[s].target \in Nat
      BY <1>2, SegmentIs
    <2> QED
      BY <2>1, <2>2 DEF AdditionalDays, AtLeast0
  <1>15. fewest \in Nat /\ fewest <= more /\ fewest <= n
    BY <1>12, <1>14 DEF Least
  <1> HIDE DEF fewest
  <1>16. enough \subseteq fewest .. n
    BY <1>12
  <1>17. \A k \in fewest .. n : k \notin enough =>
           ~(AddUp(room, Chosen(s, room, locked, order, k)) + Tolerance
               >= Remaining(s))
    BY <1>12
  <1> HIDE DEF enough
  <1>18. enough \subseteq Nat
    BY <1>15, <1>16
  <1>19. /\ number \in Nat /\ number <= n
         /\ \A j \in enough : number <= j
         /\ fewest <= number
    BY <1>12, <1>15, <1>16, <1>18, FirstIs
  <1> HIDE DEF number
  <1>20. ASSUME number > more
         PROVE  AddUp(room, Chosen(s, room, locked, order, number - 1))
                  + Tolerance < Remaining(s)
    <2>1. PICK k : k = number - 1
      OBVIOUS
    <2>2. k \in fewest .. n /\ k \notin enough
      BY <1>14, <1>15, <1>19, <1>20, <2>1
    <2>3. PICK C : C = Chosen(s, room, locked, order, k)
      OBVIOUS
    <2>4. C \subseteq Window(s)
      <3>1. \A i \in 1 .. k : order[i] \in Window(s)
        BY <1>8, <1>11, <2>2, <1>15
      <3> QED
        BY <2>3, <3>1 DEF Chosen
    <2>5. AddUp(room, C) \in Int
      <3>1. IsFiniteSet(C) /\ Values(room, C)
        BY <1>3, <2>4, FS_Subset DEF Values
      <3> QED
        BY <3>1, AddsUp
    <2>6. Remaining(s) \in Nat /\ Tolerance \in Nat
      BY RemainingIs, EngineAssumption
    <2>7. ~(AddUp(room, C) + Tolerance >= Remaining(s))
      BY <1>17, <2>2, <2>3
    <2> QED
      BY <2>1, <2>3, <2>5, <2>6, <2>7
  <1>21. order \in [1 .. n -> {d \in Window(s) \ locked : room[d] > 0}]
    BY <1>5, <1>11
  <1> QED
    BY <1>13, <1>14, <1>19, <1>20, <1>21 DEF ChosenWell

\* A segment is placed on days of its window that have room.
LEMMA ActiveDaysHaveRoom ==
  ASSUME snapshot \in Snapshots, Rowed(result), NEW s \in Generable
  PROVE  /\ ActiveDays(s) \subseteq Window(s) /\ IsFiniteSet(ActiveDays(s))
         /\ \A d \in ActiveDays(s) : Room(s, d) > 0
  <1>1. PICK room, locked : room = RoomOf(s) /\ locked = LockedDays(s)
    OBVIOUS
  <1>2. ActiveDays(s) = DaysWithRoom(s, room, locked)
    BY <1>1 DEF ActiveDays, RoomOf, LockedDays
  <1>3. ActiveDays(s) \subseteq {d \in Window(s) : room[d] > 0}
    <2>1. CASE Segments[s].fixed \/ Segments[s].target = 0
      BY <1>2, <2>1 DEF DaysWithRoom
    <2>2. CASE ~(Segments[s].fixed \/ Segments[s].target = 0)
      <3>1. PICK n, k, order : ChosenWell(s, room, locked, n, k, order)
        BY <1>1, <2>2, DaysAreChosen
      <3>2. \A i \in 1 .. k : i \in 1 .. n
        BY <3>1 DEF ChosenWell
      <3> QED
        BY <3>1, <3>2 DEF Chosen, ChosenWell
    <2> QED
      BY <2>1, <2>2
  <1>4. IsFiniteSet(ActiveDays(s))
    <2>1. ActiveDays(s) \subseteq Window(s)
      BY <1>3
    <2>2. IsFiniteSet(Window(s))
      BY SegmentIs DEF Generable, Active
    <2> QED
      BY <2>1, <2>2, FS_Subset
  <1> QED
    BY <1>1, <1>3, <1>4 DEF RoomOf

\* The hours of the schedule do not exceed the room of their days.
LEMMA StandardHoursFit ==
  ASSUME snapshot \in Snapshots, Rowed(result), NEW s \in Generable,
         NEW n \in Nat, NEW days \in [1 .. n -> ActiveDays(s)]
  PROVE  /\ StandardHours(s, days) \in Amounts(n)
         /\ \A i \in 1 .. n : StandardHours(s, days)[i] <= Room(s, days[i])
         /\ Remaining(s) = 0 => Total(StandardHours(s, days)) = 0
  <1>1. PICK room : room = [i \in DOMAIN days |-> Room(s, days[i])]
    OBVIOUS
  <1>2. DOMAIN days = 1 .. n /\ \A i \in 1 .. n : days[i] \in ActiveDays(s)
    OBVIOUS
  <1>3. room \in Amounts(n) /\ Positive(room) /\ DOMAIN room = 1 .. n
    BY <1>1, <1>2, RoomIs, ActiveDaysHaveRoom DEF Amounts, Positive
  <1>4. PICK hours \in Nat : hours = Remaining(s)
    BY RemainingIs
  <1>5. CASE hours = 0 \/ n = 0
    <2>1. StandardHours(s, days) = [i \in 1 .. n |-> 0]
      <3>1. CASE hours = 0
        BY <1>2, <1>4, <3>1 DEF StandardHours
      <3>2. CASE n = 0
        <4>1. days \in Seq(ActiveDays(s)) /\ Len(days) = 0
          BY <3>2
        <4>2. days = <<>>
          BY <4>1, EmptySeq
        <4> QED
          BY <1>2, <4>2 DEF StandardHours
      <3> QED
        BY <1>5, <3>1, <3>2
    <2>2. StandardHours(s, days) \in Amounts(n)
      BY <2>1 DEF Amounts
    <2>3. Total(StandardHours(s, days)) = 0
      <3>1. PICK f : f = StandardHours(s, days)
        OBVIOUS
      <3>2. Total(f) = SumOf(f, 1 .. n) /\ IsFiniteSet(1 .. n)
        BY <2>2, <3>1, AmountsAddUp
      <3>3. \A i \in 1 .. n : f[i] = 0
        BY <2>1, <3>1
      <3>4. PICK D : D = 1 .. n
        OBVIOUS
      <3>5. IsFiniteSet(D) /\ \A i \in D : f[i] = 0
        BY <3>2, <3>3, <3>4
      <3>6. SumOf(f, D) = 0
        BY <3>5, SumZero
      <3> QED
        BY <3>1, <3>2, <3>4, <3>6
    <2> QED
      BY <1>1, <1>2, <1>3, <2>1, <2>2, <2>3 DEF Amounts
  <1>6. CASE hours # 0 /\ n # 0
    <2>1. days # <<>> /\ n \in Nat \ {0}
      BY <1>2, <1>6
    <2>2. PICK profile : profile = Segments[s].profile
      OBVIOUS
    <2>3. StandardHours(s, days) = IF profile = "UNIFORM"
                                   THEN SpreadUniform(hours, room)
                                   ELSE SpreadProfile(hours, room, profile)
      BY <1>1, <1>4, <1>6, <2>1, <2>2 DEF StandardHours
    <2>4. /\ SpreadUniform(hours, room) \in Amounts(n)
          /\ Fits(SpreadUniform(hours, room), room)
      BY <1>3, <2>1, SpreadUniformFits
    <2>5. /\ SpreadProfile(hours, room, profile) \in Amounts(n)
          /\ Fits(SpreadProfile(hours, room, profile), room)
      BY <1>3, <2>1, SpreadProfileFits
    <2>6. PICK f : f = StandardHours(s, days)
      OBVIOUS
    <2>7. f \in Amounts(n) /\ Fits(f, room)
      BY <2>3, <2>4, <2>5, <2>6
    <2>8. \A i \in 1 .. n : f[i] <= Room(s, days[i])
      BY <1>1, <1>3, <2>7 DEF Fits
    <2> QED
      BY <1>4, <1>6, <2>6, <2>7, <2>8
  <1> QED
    BY <1>5, <1>6

\* Days outside the schedule, each once.
LEMMA OutsideDaysAre ==
  ASSUME snapshot \in Snapshots, NEW s \in Generable
  PROVE  \E n \in Nat : /\ OutsideDays(s) \in [1 .. n -> Window(s)]
                        /\ IsInjective(OutsideDays(s))
  <1>1. PICK p, room : /\ p = Segments[s].person
                       /\ room = [d \in Window(s) |-> Capacity(p, d)]
    OBVIOUS
  <1>2. PICK days, off : /\ days = {d \in Window(s) : OutsideEligible(p, d)}
                         /\ off = {d \in days : room[d] = 0}
    OBVIOUS
  <1>3. PICK R : R = {d \in Pairs(days) :
                        \/ room[d[1]] = 0 /\ ~(room[d[2]] = 0)
                        \/ /\ (room[d[1]] = 0) = (room[d[2]] = 0)
                           /\ Preferred(s, room, d[1], d[2])}
    OBVIOUS
  <1>4. OutsideDays(s) = Sorted(days, R)
    BY <1>1, <1>2, <1>3, Zenon DEF OutsideDays
  <1>5. s \in DOMAIN Segments
    BY DEF Generable, Active
  <1>6. /\ days \subseteq Window(s) /\ IsFiniteSet(days)
        /\ \A d \in days : room[d] \in Nat
    <2>1. days \subseteq Window(s)
      BY <1>2
    <2>2. IsFiniteSet(days)
      BY <1>5, <2>1, SegmentIs, FS_Subset
    <2>3. \A d \in days : room[d] \in Nat
      BY <1>1, <2>1, CapacityIsNatural
    <2> QED
      BY <2>1, <2>2, <2>3
  <1>7. StrictOrder(R, days)
    <2>1. PICK Q : Q = {d \in Pairs(days) :
                          \/ d[1] \in off /\ d[2] \notin off
                          \/ /\ (d[1] \in off) = (d[2] \in off)
                             /\ Preferred(s, room, d[1], d[2])}
      OBVIOUS
    <2>2. StrictOrder(Q, days)
      BY <1>5, <1>6, <2>1, PreferredIsOrdered
    <2>3. ASSUME NEW d \in Pairs(days)
          PROVE  d \in Q <=> d \in R
      <3>1. d[1] \in days /\ d[2] \in days
        BY DEF Pairs
      <3>2. /\ d[1] \in off <=> room[d[1]] = 0
            /\ d[2] \in off <=> room[d[2]] = 0
        BY <1>2, <3>1
      <3> QED
        BY <1>3, <2>1, <3>2
    <2>4. Q = R
      BY <1>3, <2>1, <2>3
    <2> QED
      BY <2>2, <2>4
  <1>8. PICK n \in Nat : n = Cardinality(days)
    BY <1>6, FS_CardinalityType
  <1>9. PICK order : order = Sorted(days, R)
    OBVIOUS
  <1>10. /\ order \in [1 .. n -> days]
         /\ \A i, j \in 1 .. n : order[i] = order[j] => i = j
    BY <1>6, <1>7, <1>8, <1>9, SortedEnumerates
  <1>11. order \in [1 .. n -> Window(s)] /\ IsInjective(order)
    BY <1>6, <1>10 DEF IsInjective
  <1> QED
    BY <1>4, <1>8, <1>9, <1>11

\* Hours outside the schedule.
LEMMA OutsideHoursAre ==
  ASSUME NEW missing \in Nat, NEW n \in Nat, NEW days, DOMAIN days = 1 .. n
  PROVE  OutsideHours(missing, days) \in Amounts(n)
  <1> DEFINE left(i) == missing - (i - 1) * DailyLimit
  <1>1. ASSUME NEW i \in 1 .. n
        PROVE  (IF left(i) > Tolerance THEN Least(DailyLimit, left(i)) ELSE 0)
                 \in Nat
    <2>1. PICK v : v = (i - 1) * DailyLimit
      OBVIOUS
    <2>2. v \in Int
      BY <2>1, EngineAssumption
    <2>3. PICK l \in Int : l = left(i)
      BY <2>1, <2>2
    <2> QED
      BY <2>3, EngineAssumption DEF Least
  <1> QED
    BY <1>1 DEF OutsideHours, Amounts

-----------------------------------------------------------------------------
(* One segment is placed.                                                  *)

UsedIn(rows, p, d) == {x \in rows : /\ x.person = p /\ x.day = d
                                    /\ x.kind \in {"LOCKED", "STANDARD"}}

\* Automatic hours fit in the capacity of their days.
AutomaticFits(rows) ==
  \A x \in rows : x.kind = "STANDARD" =>
    HoursIn(UsedIn(rows, x.person, x.day)) <= Capacity(x.person, x.day)

CountedIn(rows, s) == {x \in rows : x.segment = s /\ x.kind # "MISSING"}

\* What a segment lacks.
Lack(rows, s) == AtLeast0(Segments[s].hours - HoursIn(CountedIn(rows, s)))

\* The rows of a segment within its schedule, and those outside it.
Within(s, std, n, days, amounts) ==
  /\ std = Placed(s, days, amounts, "STANDARD")
  /\ n \in Nat /\ days \in [1 .. n -> ActiveDays(s)] /\ IsInjective(days)
  /\ amounts \in Amounts(n)
  /\ \A i \in 1 .. n : amounts[i] <= Room(s, days[i])

Outside(s, out, m, slots, extra, kind) ==
  /\ out = Placed(s, slots, extra, kind)
  /\ m \in Nat /\ slots \in [1 .. m -> Window(s)] /\ IsInjective(slots)
  /\ extra \in Amounts(m) /\ kind \in {"OVERTIME", "MISSING"}

\* Rows of one segment and one kind.
OwnRows(s, rows, kind) == \A x \in rows : x.segment = s /\ x.kind = kind

\* The segment has no automatic row yet.
Unplaced(s) == \A x \in result : x.kind = "LOCKED" \/ x.segment # s

\* The rows of a segment.
LEMMA PlacedRows ==
  ASSUME snapshot \in Snapshots, NEW s \in Generable, NEW n \in Nat,
         NEW days, DOMAIN days = 1 .. n, IsInjective(days),
         \A i \in 1 .. n : days[i] \in Window(s), NEW amounts \in Amounts(n),
         NEW kind \in {"STANDARD", "OVERTIME", "MISSING"},
         NEW rows, rows = Placed(s, days, amounts, kind)
  PROVE  /\ Rowed(rows)
         /\ \A x \in rows : /\ x.segment = s /\ x.kind = kind
                            /\ x.person = Segments[s].person
                            /\ \E i \in 1 .. n : /\ x.day = days[i]
                                                 /\ x.hours = amounts[i]
                                                 /\ x.hours > 0
         /\ \A x, y \in rows : x.day = y.day => x = y
  <1>1. /\ Segments[s].person \in People /\ s \in Nat
        /\ Window(s) \subseteq Horizon
    BY CapacityIsNatural, SegmentIs DEF Generable, Active
  <1>2. ASSUME NEW x \in rows
        PROVE  \E i \in 1 .. n :
                 /\ x = [segment |-> s, person |-> Segments[s].person,
                         day |-> days[i], hours |-> amounts[i],
                         kind |-> kind, outside |-> kind = "OVERTIME"]
                 /\ amounts[i] > 0
    BY DEF Placed
  <1>3. ASSUME NEW x \in rows
        PROVE  /\ x \in EngineShift
               /\ x.segment = s /\ x.kind = kind
               /\ x.person = Segments[s].person
               /\ \E i \in 1 .. n : /\ x.day = days[i] /\ x.hours = amounts[i]
                                    /\ x.hours > 0
    <2>1. PICK i \in 1 .. n :
                 /\ x = [segment |-> s, person |-> Segments[s].person,
                         day |-> days[i], hours |-> amounts[i],
                         kind |-> kind, outside |-> kind = "OVERTIME"]
                 /\ amounts[i] > 0
      BY <1>2
    <2>2. days[i] \in Horizon /\ amounts[i] \in Nat
      BY <1>1 DEF Amounts
    <2>3. x.segment = s /\ x.kind = kind /\ x.person = Segments[s].person
          /\ x.day = days[i] /\ x.hours = amounts[i] /\ x.hours > 0
      BY <2>1
    <2>4. x \in EngineShift
      BY <1>1, <2>1, <2>2 DEF EngineShift
    <2> QED
      BY <2>3, <2>4
  <1>4. ASSUME NEW x \in rows, NEW y \in rows, x.day = y.day
        PROVE  x = y
    <2>1. PICK i \in 1 .. n :
                 x = [segment |-> s, person |-> Segments[s].person,
                      day |-> days[i], hours |-> amounts[i],
                      kind |-> kind, outside |-> kind = "OVERTIME"]
      BY <1>2
    <2>2. PICK j \in 1 .. n :
                 y = [segment |-> s, person |-> Segments[s].person,
                      day |-> days[j], hours |-> amounts[j],
                      kind |-> kind, outside |-> kind = "OVERTIME"]
      BY <1>2
    <2>3. days[i] = days[j]
      BY <1>4, <2>1, <2>2
    <2>4. i = j
      BY <2>3 DEF IsInjective
    <2> QED
      BY <2>1, <2>2, <2>4
  <1>5. IsFiniteSet(rows)
    BY PlacedHours DEF Timed
  <1> QED
    BY <1>3, <1>4, <1>5 DEF Rowed

\* The hours of one row.
LEMMA HoursOfOne ==
  ASSUME NEW x, x.hours \in Nat
  PROVE  HoursIn({x}) = x.hours
  <1>1. PICK f, S : f = [y \in {x} |-> y.hours] /\ S = {x}
    OBVIOUS
  <1>2. IsFiniteSet(S) /\ Values(f, S) /\ x \in S /\ S \ {x} = {}
    <2>1. IsFiniteSet({x})
      BY FS_Singleton
    <2> QED
      BY <1>1, <2>1 DEF Values
  <1>3. SumOf(f, S) = f[x] + SumOf(f, {})
    BY <1>2, SumTakes
  <1>4. SumOf(f, {}) = 0
    BY SumNothing
  <1>5. HoursIn({x}) = SumOf(f, S)
    BY <1>1, <1>2, AddsUp DEF HoursIn
  <1> QED
    BY <1>1, <1>3, <1>4, <1>5

\* What the engine puts on a day still fits.
LEMMA PlacementFits ==
  ASSUME snapshot \in Snapshots, Rowed(result), NEW s \in Generable,
         Unplaced(s), AutomaticFitsCapacity,
         NEW std, NEW n, NEW days, NEW amounts, Within(s, std, n, days, amounts),
         NEW out, NEW m, NEW slots, NEW extra, NEW kind,
         Outside(s, out, m, slots, extra, kind),
         NEW rows, rows = result \cup std \cup out
  PROVE  /\ Rowed(rows) /\ Rowed(std) /\ Rowed(out)
         /\ OwnRows(s, std, "STANDARD") /\ OwnRows(s, out, kind)
         /\ AutomaticFits(rows)
  <1>1. /\ n \in Nat /\ days \in [1 .. n -> ActiveDays(s)] /\ IsInjective(days)
        /\ amounts \in Amounts(n) /\ DOMAIN days = 1 .. n
        /\ \A i \in 1 .. n : /\ amounts[i] <= Room(s, days[i])
                             /\ days[i] \in Window(s)
        /\ std = Placed(s, days, amounts, "STANDARD")
    BY ActiveDaysHaveRoom DEF Within
  <1>2. /\ m \in Nat /\ IsInjective(slots) /\ DOMAIN slots = 1 .. m
        /\ extra \in Amounts(m) /\ kind \in {"OVERTIME", "MISSING"}
        /\ \A i \in 1 .. m : slots[i] \in Window(s)
        /\ out = Placed(s, slots, extra, kind)
    BY DEF Outside
  <1>3. /\ Rowed(std)
        /\ \A x \in std : /\ x.segment = s /\ x.kind = "STANDARD"
                          /\ x.person = Segments[s].person
                          /\ \E i \in 1 .. n : /\ x.day = days[i]
                                               /\ x.hours = amounts[i]
                                               /\ x.hours > 0
        /\ \A x, y \in std : x.day = y.day => x = y
    BY <1>1, PlacedRows
  <1>4. Rowed(out) /\ \A x \in out : x.segment = s /\ x.kind = kind
    BY <1>2, PlacedRows
  <1>5. Rowed(rows)
    BY <1>3, <1>4, FS_Union DEF Rowed
  <1>6. \A p, d : UsedIn(rows, p, d) = UsedIn(result, p, d) \cup UsedIn(std, p, d)
    BY <1>2, <1>4 DEF UsedIn
  <1>7. ASSUME NEW x \in std
        PROVE  HoursIn(UsedIn(rows, x.person, x.day)) <= Capacity(x.person, x.day)
    <2>1. PICK i \in 1 .. n : /\ x.day = days[i] /\ x.hours = amounts[i]
                              /\ x.hours > 0
      BY <1>3
    <2>2. PICK p, d : p = x.person /\ d = x.day
      OBVIOUS
    <2>3. p = Segments[s].person /\ d = days[i]
      BY <1>3, <2>1, <2>2
    <2>4. UsedIn(std, p, d) = {x}
      BY <1>3, <2>2 DEF UsedIn
    <2>5. /\ Timed(UsedIn(result, p, d)) /\ Timed({x})
          /\ UsedIn(result, p, d) \cap {x} = {}
      <3>1. UsedIn(result, p, d) \subseteq result
        BY DEF UsedIn
      <3>2. {x} \subseteq std
        OBVIOUS
      <3>3. x \notin result
        BY <1>3 DEF Unplaced
      <3> QED
        BY <1>3, <3>1, <3>2, <3>3, SomeRows
    <2>6. HoursIn(UsedIn(rows, p, d)) = HoursIn(UsedIn(result, p, d)) + HoursIn({x})
      <3>1. PICK A, B : A = UsedIn(result, p, d) /\ B = {x}
        OBVIOUS
      <3>2. Timed(A) /\ Timed(B) /\ A \cap B = {}
        BY <2>5, <3>1
      <3>3. HoursIn(A \cup B) = HoursIn(A) + HoursIn(B)
        BY <3>2, HoursOfBoth
      <3> QED
        BY <1>6, <2>4, <3>1, <3>3
    <2>7. x.hours \in Nat /\ HoursIn({x}) = x.hours
      BY <1>3, HoursOfOne DEF Rowed, EngineShift
    <2>8. UsedHours(p, d) = HoursIn(UsedIn(result, p, d))
      BY DEF UsedHours, UsedIn
    <2>9. PICK room \in Nat, u \in Nat, c \in Nat :
            /\ room = Room(s, d) /\ u = UsedHours(p, d) /\ c = Capacity(p, d)
      BY <2>3, RoomIs, CapacityIsNatural
    <2>10. amounts[i] <= room /\ (room > 0 => room + u = c)
      BY <1>1, <2>3, <2>9, RoomIs
    <2>11. x.hours <= room
      BY <2>1, <2>10
    <2> QED
      BY <2>1, <2>2, <2>6, <2>7, <2>8, <2>9, <2>10, <2>11
  <1>8. ASSUME NEW x \in rows, x.kind = "STANDARD"
        PROVE  HoursIn(UsedIn(rows, x.person, x.day)) <= Capacity(x.person, x.day)
    <2>1. CASE x \in std
      BY <1>7, <2>1
    <2>2. CASE \E y \in std : y.person = x.person /\ y.day = x.day
      BY <1>7, <2>2
    <2>3. CASE x \notin std /\ ~\E y \in std : /\ y.person = x.person
                                              /\ y.day = x.day
      <3>1. UsedIn(std, x.person, x.day) = {}
        BY <2>3 DEF UsedIn
      <3>2. UsedIn(rows, x.person, x.day) = UsedIn(result, x.person, x.day)
        BY <1>6, <3>1
      <3>3. x \in result
        BY <1>2, <1>4, <1>8, <2>3
      <3>4. UsedHours(x.person, x.day) <= Capacity(x.person, x.day)
        BY <1>8, <3>3 DEF AutomaticFitsCapacity
      <3> QED
        BY <3>2, <3>4 DEF UsedHours, UsedIn
    <2> QED
      BY <2>1, <2>2, <2>3
  <1> QED
    BY <1>3, <1>4, <1>5, <1>8 DEF AutomaticFits, OwnRows

\* What the segment counts afterwards.
LEMMA PlacementCounts ==
  ASSUME snapshot \in Snapshots, Rowed(result), NEW s \in Generable,
         Unplaced(s), AutomaticFitsCapacity,
         NEW std, NEW n, NEW days, NEW amounts, Within(s, std, n, days, amounts),
         NEW out, NEW m, NEW slots, NEW extra, NEW kind,
         Outside(s, out, m, slots, extra, kind),
         NEW rows, rows = result \cup std \cup out
  PROVE  /\ HoursIn(CountedIn(rows, s))
              = HoursIn(LockedOf(s)) + Total(amounts)
                  + (IF kind = "OVERTIME" THEN Total(extra) ELSE 0)
         /\ \A t \in Generable \ {s} : Lack(rows, t) = Lack(result, t)
  <1>1. /\ Rowed(rows) /\ Rowed(std) /\ Rowed(out)
        /\ OwnRows(s, std, "STANDARD") /\ OwnRows(s, out, kind)
    BY PlacementFits
  <1>2. HoursIn(std) = Total(amounts) /\ Total(amounts) \in Nat
    <2>1. /\ n \in Nat /\ DOMAIN days = 1 .. n /\ IsInjective(days)
          /\ amounts \in Amounts(n)
          /\ std = Placed(s, days, amounts, "STANDARD")
      BY DEF Within
    <2> QED
      BY <2>1, PlacedHours, AmountsAddUp
  <1>3. HoursIn(out) = Total(extra) /\ Total(extra) \in Nat
    <2>1. /\ m \in Nat /\ DOMAIN slots = 1 .. m /\ IsInjective(slots)
          /\ extra \in Amounts(m) /\ out = Placed(s, slots, extra, kind)
      BY DEF Outside
    <2> QED
      BY <2>1, PlacedHours, AmountsAddUp
  <1>4. Timed(LockedOf(s)) /\ Timed(std) /\ Timed(out)
        /\ HoursIn(LockedOf(s)) \in Nat
    <2>1. LockedOf(s) \subseteq result
      BY DEF LockedOf
    <2> QED
      BY <1>1, <2>1, SomeRows
  <1>5. LockedOf(s) \cap std = {} /\ (LockedOf(s) \cup std) \cap out = {}
    BY <1>1 DEF LockedOf, Outside, OwnRows
  <1>6. /\ Timed(LockedOf(s) \cup std)
        /\ HoursIn(LockedOf(s) \cup std) = HoursIn(LockedOf(s)) + HoursIn(std)
    BY <1>4, <1>5, HoursOfBoth
  <1>7. HoursIn(LockedOf(s) \cup std \cup out)
          = HoursIn(LockedOf(s) \cup std) + HoursIn(out)
    BY <1>4, <1>5, <1>6, HoursOfBoth
  <1>8. CountedIn(rows, s) = IF kind = "OVERTIME"
                             THEN LockedOf(s) \cup std \cup out
                             ELSE LockedOf(s) \cup std
    <2>1. CountedIn(result, s) = LockedOf(s)
      BY DEF CountedIn, LockedOf, Unplaced
    <2>2. CountedIn(std, s) = std
      BY <1>1 DEF OwnRows, CountedIn
    <2>3. CountedIn(out, s) = IF kind = "OVERTIME" THEN out ELSE {}
      BY <1>1 DEF OwnRows, CountedIn, Outside
    <2>4. CountedIn(rows, s) = CountedIn(result, s) \cup CountedIn(std, s)
                                 \cup CountedIn(out, s)
      BY DEF CountedIn
    <2> QED
      BY <2>1, <2>2, <2>3, <2>4
  <1>9. ASSUME NEW t \in Generable \ {s}
        PROVE  Lack(rows, t) = Lack(result, t)
    <2>1. CountedIn(rows, t) = CountedIn(result, t)
      BY <1>1 DEF OwnRows, CountedIn
    <2> QED
      BY <2>1 DEF Lack
  <1>10. HoursIn(CountedIn(rows, s))
           = HoursIn(LockedOf(s)) + Total(amounts)
               + (IF kind = "OVERTIME" THEN Total(extra) ELSE 0)
    <2>1. CASE kind = "OVERTIME"
      BY <1>2, <1>3, <1>6, <1>7, <1>8, <2>1
    <2>2. CASE kind # "OVERTIME"
      <3>1. PICK a \in Nat, b \in Nat : /\ a = HoursIn(LockedOf(s))
                                       /\ b = Total(amounts)
        BY <1>2, <1>4
      <3>2. HoursIn(CountedIn(rows, s)) = a + b
        BY <1>2, <1>6, <1>8, <2>2, <3>1
      <3> QED
        BY <2>2, <3>1, <3>2
    <2> QED
      BY <2>1, <2>2
  <1> QED
    BY <1>9, <1>10

\* What a step of the engine places, and what it reports as missing.
Placement(s, days, rows, more) ==
  LET amounts == StandardHours(s, days)
      missing == AtLeast0(Remaining(s) - Total(amounts))
      slots == IF missing <= Tolerance THEN <<>> ELSE OutsideDays(s)
      extra == OutsideHours(missing, slots)
      overtime == Segments[s].overtime
  IN  /\ rows = result \cup Placed(s, days, amounts, "STANDARD")
                  \cup Placed(s, slots, extra,
                              IF overtime THEN "OVERTIME" ELSE "MISSING")
      /\ more = IF missing <= Tolerance THEN 0
                ELSE IF overtime THEN AtLeast0(missing - Total(extra))
                ELSE missing

\* What is placed for a segment, within the schedule on its active days.
PlacedFor(s, more) ==
  \A x \in more : /\ x.segment = s /\ x.person = Segments[s].person
                  /\ x.kind # "LOCKED"
                  /\ x.kind = "STANDARD" => x.day \in ActiveDays(s)

\* The plan after a segment is placed: what was there is kept, automatic hours
\* fit, nothing changes for others, and what the segment lacks is reported.
PlacedWell(s, rows, more) ==
  /\ Rowed(rows) /\ result \subseteq rows
  /\ PlacedFor(s, rows \ result)
  /\ AutomaticFits(rows)
  /\ \A t \in Generable \ {s} : Lack(rows, t) = Lack(result, t)
  /\ Lack(rows, s) \in Nat /\ more \in Nat
  /\ Lack(rows, s) - Tolerance <= more /\ more <= Lack(rows, s)

\* A segment is placed well.
LEMMA PlacementIsGood ==
  ASSUME snapshot \in Snapshots, Rowed(result), NEW s \in Generable,
         Unplaced(s), AutomaticFitsCapacity,
         NEW n \in Nat, NEW days \in [1 .. n -> ActiveDays(s)],
         IsInjective(days), NEW rows, NEW more, Placement(s, days, rows, more)
  PROVE  PlacedWell(s, rows, more)
  <1>1. PICK amounts : amounts = StandardHours(s, days)
    OBVIOUS
  <1>2. /\ amounts \in Amounts(n)
        /\ \A i \in 1 .. n : amounts[i] <= Room(s, days[i])
        /\ Remaining(s) = 0 => Total(amounts) = 0
    BY <1>1, StandardHoursFit
  <1>3. PICK h \in Nat, l \in Nat, a \in Nat, r \in Nat :
          /\ h = Segments[s].hours /\ l = HoursIn(LockedOf(s))
          /\ a = Total(amounts) /\ r = Remaining(s)
    BY <1>2, RemainingIs, AmountsAddUp
  <1>4. r = AtLeast0(h - l) /\ (r = 0 => a = 0)
    BY <1>2, <1>3, RemainingIs
  <1>5. PICK missing \in Nat : missing = AtLeast0(r - a)
    BY <1>3 DEF AtLeast0
  <1>6. PICK slots, kind :
          /\ slots = IF missing <= Tolerance THEN <<>> ELSE OutsideDays(s)
          /\ kind = IF Segments[s].overtime THEN "OVERTIME" ELSE "MISSING"
    OBVIOUS
  <1>7. PICK m \in Nat : slots \in [1 .. m -> Window(s)] /\ IsInjective(slots)
                         /\ (missing <= Tolerance => m = 0)
    <2>1. CASE missing <= Tolerance
      <3>1. slots = <<>>
        BY <1>6, <2>1
      <3>2. slots \in [1 .. 0 -> Window(s)] /\ IsInjective(slots)
        BY <3>1 DEF IsInjective
      <3> QED
        BY <3>2
    <2>2. CASE ~(missing <= Tolerance)
      BY <1>6, <2>2, OutsideDaysAre
    <2> QED
      BY <2>1, <2>2
  <1>8. PICK extra : extra = OutsideHours(missing, slots)
    OBVIOUS
  <1>9. extra \in Amounts(m) /\ DOMAIN slots = 1 .. m
    BY <1>5, <1>7, <1>8, OutsideHoursAre
  <1>10. PICK e \in Nat : e = Total(extra)
    BY <1>9, AmountsAddUp
  <1>11. missing <= Tolerance => e = 0
    <2> SUFFICES ASSUME missing <= Tolerance
                 PROVE  e = 0
      OBVIOUS
    <2>1. 1 .. m = {}
      BY <1>7
    <2>2. Total(extra) = SumOf(extra, 1 .. m)
      BY <1>9, AmountsAddUp
    <2>3. SumOf(extra, {}) = 0
      BY SumNothing
    <2> QED
      BY <1>10, <2>1, <2>2, <2>3
  <1>12. PICK std, out : /\ std = Placed(s, days, amounts, "STANDARD")
                         /\ out = Placed(s, slots, extra, kind)
    OBVIOUS
  <1>13. rows = result \cup std \cup out
    BY <1>1, <1>3, <1>5, <1>6, <1>8, <1>12 DEF Placement
  <1>19. more = IF missing <= Tolerance THEN 0
                ELSE IF Segments[s].overtime THEN AtLeast0(missing - e)
                ELSE missing
    <2>1. /\ missing = AtLeast0(Remaining(s) - Total(amounts))
          /\ e = Total(extra)
      BY <1>3, <1>5, <1>10
    <2> QED
      BY <1>1, <1>6, <1>8, <2>1, Zenon DEF Placement
  <1>14. Within(s, std, n, days, amounts)
    BY <1>2, <1>12 DEF Within
  <1>15. Outside(s, out, m, slots, extra, kind)
    BY <1>6, <1>7, <1>9, <1>12 DEF Outside
  <1>16. /\ Rowed(rows)
         /\ OwnRows(s, std, "STANDARD") /\ OwnRows(s, out, kind)
         /\ AutomaticFits(rows)
    BY <1>13, <1>14, <1>15, PlacementFits
  <1>17. /\ HoursIn(CountedIn(rows, s))
              = l + a + (IF kind = "OVERTIME" THEN e ELSE 0)
         /\ \A t \in Generable \ {s} : Lack(rows, t) = Lack(result, t)
    <2>1. /\ HoursIn(CountedIn(rows, s))
               = HoursIn(LockedOf(s)) + Total(amounts)
                   + (IF kind = "OVERTIME" THEN Total(extra) ELSE 0)
          /\ \A t \in Generable \ {s} : Lack(rows, t) = Lack(result, t)
      BY <1>13, <1>14, <1>15, PlacementCounts
    <2> QED
      BY <1>3, <1>10, <2>1
  <1>18. /\ Lack(rows, s) \in Nat /\ more \in Nat
         /\ Lack(rows, s) - Tolerance <= more /\ more <= Lack(rows, s)
    <2>1. Lack(rows, s)
            = AtLeast0(h - (l + a + (IF Segments[s].overtime THEN e ELSE 0)))
      BY <1>3, <1>6, <1>17 DEF Lack
    <2>2. PICK tol \in Nat : tol = Tolerance
      BY EngineAssumption
    <2>3. PICK lack : lack = Lack(rows, s)
      OBVIOUS
    <2>4. CASE missing <= tol
      BY <1>4, <1>5, <1>11, <1>19, <2>1, <2>2, <2>3, <2>4 DEF AtLeast0
    <2>5. CASE missing > tol /\ Segments[s].overtime
      BY <1>4, <1>5, <1>19, <2>1, <2>2, <2>3, <2>5 DEF AtLeast0
    <2>6. CASE missing > tol /\ ~Segments[s].overtime
      BY <1>4, <1>5, <1>19, <2>1, <2>2, <2>3, <2>6 DEF AtLeast0
    <2> QED
      BY <2>2, <2>4, <2>5, <2>6
  <1>20. PlacedFor(s, rows \ result)
    <2>1. \A i \in 1 .. n : days[i] \in Window(s) /\ days[i] \in ActiveDays(s)
      BY ActiveDaysHaveRoom
    <2>2. DOMAIN days = 1 .. n /\ DOMAIN slots = 1 .. m
          /\ \A i \in 1 .. m : slots[i] \in Window(s)
      BY <1>7
    <2>3. \A x \in std : /\ x.segment = s /\ x.kind = "STANDARD"
                          /\ x.person = Segments[s].person
                          /\ \E i \in 1 .. n : x.day = days[i]
      BY <1>2, <1>12, <2>1, <2>2, PlacedRows
    <2>4. kind \in {"OVERTIME", "MISSING"}
      BY <1>6
    <2>5. \A x \in out : /\ x.segment = s /\ x.kind = kind
                          /\ x.person = Segments[s].person
      BY <1>7, <1>9, <1>12, <2>2, <2>4, PlacedRows
    <2> QED
      BY <1>13, <2>1, <2>3, <2>4, <2>5 DEF PlacedFor
  <1> QED
    BY <1>13, <1>16, <1>17, <1>18, <1>20 DEF PlacedWell

-----------------------------------------------------------------------------
(* The invariant.                                                          *)

\* The segments that have been placed, given those that have not.
Done(list) == Generable \ {list[i] : i \in DOMAIN list}

Missing(rows) == [s \in Generable |-> Lack(rows, s)]

\* Segments wait once each and have no automatic rows before their turn;
\* what is reported as missing is what those before them lack, up to the
\* tolerance for each.
Progress(list, rows, lack) ==
  /\ list \in Seq(Generable) /\ IsInjective(list)
  /\ \A x \in rows : x.kind = "LOCKED" \/ x.segment \in Done(list)
  /\ SumOf(Missing(rows), Done(list)) - Tolerance * Cardinality(Done(list))
       <= lack
  /\ lack <= SumOf(Missing(rows), Done(list))

EngineInv ==
  /\ EngineTypeOK
  /\ IsFiniteSet(stored) /\ IsFiniteSet(result)
  /\ AutomaticFits(result)
  /\ phase = "placing" => Progress(waiting, result, lacking)

\* Segments that can be generated are finitely many.
LEMMA GenerableIsFinite ==
  ASSUME snapshot \in Snapshots
  PROVE  IsFiniteSet(Generable) /\ Generable \subseteq DOMAIN Segments
  <1>1. Segments \in Seq(EngineSegment)
    BY EngineAssumption DEF Snapshot, Segments
  <1>2. PICK n \in Nat : DOMAIN Segments = 1 .. n
    BY <1>1, LenProperties
  <1>3. IsFiniteSet(1 .. n)
    BY FS_Interval
  <1>4. Generable \subseteq DOMAIN Segments
    BY DEF Generable, Active
  <1> QED
    BY <1>2, <1>3, <1>4, FS_Subset

\* They are placed in an order.
LEMMA EarlierIsOrder ==
  ASSUME snapshot \in Snapshots
  PROVE  StrictOrder({s \in Pairs(Generable) : Earlier(s[1], s[2])}, Generable)
  <1>1. PICK a, b, c : /\ a = [s \in Generable |->
                                 IF Segments[s].fixed THEN 0 ELSE 1]
                       /\ b = [s \in Generable |-> Segments[s].rank]
                       /\ c = [s \in Generable |-> Segments[s].from]
    OBVIOUS
  <1>2. ASSUME NEW s \in Generable
        PROVE  /\ a[s] \in Int /\ b[s] \in Int /\ c[s] \in Int /\ s \in Int
    <2>1. s \in DOMAIN Segments
      BY GenerableIsFinite
    <2>2. Segments[s] \in EngineSegment /\ s \in Nat /\ Segments[s].from \in Int
      BY <2>1, SegmentIs
    <2>3. Segments[s].rank \in Int
      BY <2>2 DEF EngineSegment
    <2> QED
      BY <1>1, <2>2, <2>3
  <1> DEFINE Before(s, t) ==
               \/ a[s] < a[t]
               \/ a[s] = a[t] /\ b[s] < b[t]
               \/ a[s] = a[t] /\ b[s] = b[t] /\ c[s] < c[t]
               \/ a[s] = a[t] /\ b[s] = b[t] /\ c[s] = c[t] /\ s < t
  <1>3. ASSUME NEW s \in Generable, NEW t \in Generable
        PROVE  Earlier(s, t) <=> Before(s, t)
    <2>1. PICK k, l : k = <<a[s], b[s], c[s], s>> /\ l = <<a[t], b[t], c[t], t>>
      OBVIOUS
    <2>2. Earlier(s, t) <=> \E i \in 1 .. 4 : /\ k[i] < l[i]
                                             /\ \A j \in 1 .. i - 1 : k[j] = l[j]
      BY <1>1, <2>1 DEF Earlier
    <2>3. /\ 1 .. 1 - 1 = {} /\ 1 .. 2 - 1 = {1} /\ 1 .. 3 - 1 = {1, 2}
          /\ 1 .. 4 - 1 = {1, 2, 3} /\ 1 .. 4 = {1, 2, 3, 4}
      OBVIOUS
    <2>4. (\E i \in 1 .. 4 : k[i] < l[i] /\ \A j \in 1 .. i - 1 : k[j] = l[j])
            <=> \/ k[1] < l[1]
                \/ k[1] = l[1] /\ k[2] < l[2]
                \/ k[1] = l[1] /\ k[2] = l[2] /\ k[3] < l[3]
                \/ k[1] = l[1] /\ k[2] = l[2] /\ k[3] = l[3] /\ k[4] < l[4]
      BY <2>3
    <2> QED
      BY <2>1, <2>2, <2>4
  <1>4. ASSUME NEW s \in Generable
        PROVE  ~Before(s, s)
    BY <1>2
  <1>5. ASSUME NEW s \in Generable, NEW t \in Generable, NEW u \in Generable,
               Before(s, t), Before(t, u)
        PROVE  Before(s, u)
    BY <1>2, <1>5
  <1>6. ASSUME NEW s \in Generable, NEW t \in Generable, s # t
        PROVE  Before(s, t) \/ Before(t, s)
    BY <1>2, <1>6
  <1>7. \A s, t \in Generable :
          <<s, t>> \in {p \in Pairs(Generable) : Earlier(p[1], p[2])}
            <=> Before(s, t)
    BY <1>3 DEF Pairs
  <1> HIDE DEF Before
  <1> QED
    BY <1>4, <1>5, <1>6, <1>7 DEF StrictOrder

\* What a segment lacks is a number.
LEMMA LackIsNatural ==
  ASSUME snapshot \in Snapshots, NEW rows, Rowed(rows), NEW s \in Generable
  PROVE  /\ HoursIn(CountedIn(rows, s)) \in Nat /\ Lack(rows, s) \in Nat
         /\ Segments[s].hours \in Nat
  <1>1. HoursIn(CountedIn(rows, s)) \in Nat
    <2>1. CountedIn(rows, s) \subseteq rows
      BY DEF CountedIn
    <2> QED
      BY <2>1, SomeRows
  <1>2. Segments[s].hours \in Nat
    BY GenerableIsFinite, SegmentIs
  <1> QED
    BY <1>1, <1>2 DEF Lack, AtLeast0

\* A rebuild begins with nothing placed and nothing missing.
LEMMA BeginProgress ==
  ASSUME EngineInv, BeginRebuild
  PROVE  Progress(waiting', result', lacking')
  <1>1. snapshot \in Snapshots
    BY DEF EngineInv, EngineTypeOK
  <1>2. PICK G, R : G = Generable /\ R = {s \in Pairs(G) : Earlier(s[1], s[2])}
    OBVIOUS
  <1>3. IsFiniteSet(G) /\ StrictOrder(R, G)
    BY <1>1, <1>2, GenerableIsFinite, EarlierIsOrder
  <1>4. PICK n \in Nat : n = Cardinality(G)
    BY <1>3, FS_CardinalityType
  <1>5. PICK order : order = Sorted(G, R)
    OBVIOUS
  <1>6. /\ order \in [1 .. n -> G]
        /\ \A i, j \in 1 .. n : order[i] = order[j] => i = j
        /\ \A s \in G : \E i \in 1 .. n : order[i] = s
    BY <1>3, <1>4, <1>5, SortedEnumerates
  <1>7. order \in Seq(Generable) /\ IsInjective(order) /\ Done(order) = {}
    <2>1. order \in Seq(G) /\ DOMAIN order = 1 .. n
      BY <1>6
    <2>2. IsInjective(order)
      BY <1>6, <2>1 DEF IsInjective
    <2>3. G \ {order[i] : i \in DOMAIN order} = {}
      BY <1>6, <2>1
    <2> QED
      BY <1>2, <2>1, <2>2, <2>3 DEF Done
  <1>8. waiting' = order /\ lacking' = 0
        /\ \A x \in result' : x.kind = "LOCKED"
    BY <1>2, <1>5 DEF BeginRebuild
  <1>9. PICK rows : rows = result'
    OBVIOUS
  <1>10. SumOf(Missing(rows), {}) = 0 /\ Cardinality({}) = 0
    BY SumNothing, FS_EmptySet
  <1>11. Tolerance * 0 = 0
    BY EngineAssumption
  <1>12. Progress(order, rows, 0)
    BY <1>7, <1>8, <1>9, <1>10, <1>11 DEF Progress
  <1> QED
    BY <1>8, <1>9, <1>12

\* The step of the engine places the first segment well.
LEMMA StepPlaces ==
  ASSUME EngineInv, PlaceSegment
  PROVE  /\ Len(waiting) \in Nat \ {0} /\ waiting[1] \in Generable
         /\ \E more : /\ PlacedWell(waiting[1], result', more)
                      /\ lacking' = lacking + more
  <1>1. /\ snapshot \in Snapshots /\ Rowed(result)
        /\ AutomaticFitsCapacity /\ Progress(waiting, result, lacking)
    <2>1. AutomaticFits(result) => AutomaticFitsCapacity
      BY DEF AutomaticFits, AutomaticFitsCapacity, UsedHours, UsedIn
    <2> QED
      BY <2>1 DEF EngineInv, EngineTypeOK, Rowed, PlaceSegment
  <1>2. waiting \in Seq(Generable) /\ waiting # <<>>
    BY <1>1 DEF Progress, PlaceSegment
  <1>3. /\ Len(waiting) \in Nat \ {0} /\ 1 \in DOMAIN waiting
        /\ waiting[1] \in Generable /\ Head(waiting) = waiting[1]
    BY <1>2, EmptySeq, LenProperties, HeadTailProperties
  <1>4. PICK s \in Generable : s = waiting[1]
    BY <1>3
  <1>5. Unplaced(s)
    <2>1. s \notin Done(waiting)
      BY <1>3, <1>4 DEF Done
    <2> QED
      BY <1>1, <2>1 DEF Progress, Unplaced
  <1>6. PICK active : active = ActiveDays(s)
    OBVIOUS
  <1>7. PICK R : R = {d \in Pairs(active) : d[1] < d[2]}
    OBVIOUS
  <1>8. active \subseteq Int /\ IsFiniteSet(active)
    BY <1>1, <1>6, ActiveDaysHaveRoom, GenerableIsFinite, SegmentIs
  <1>9. StrictOrder(R, active)
    BY <1>7, <1>8, NumbersAreOrdered
  <1>10. PICK n \in Nat : n = Cardinality(active)
    BY <1>8, FS_CardinalityType
  <1>14. PICK days : days = Sorted(active, R)
    OBVIOUS
  <1>11. days \in [1 .. n -> ActiveDays(s)] /\ IsInjective(days)
    <2>1. /\ days \in [1 .. n -> active]
          /\ \A i, j \in 1 .. n : days[i] = days[j] => i = j
      BY <1>8, <1>9, <1>10, <1>14, SortedEnumerates
    <2> QED
      BY <1>6, <2>1 DEF IsInjective
  <1>12. PICK more : Placement(s, days, result', more)
                     /\ lacking' = lacking + more
    <2>1. PlaceOn(s, days)
      BY <1>3, <1>4, <1>6, <1>7, <1>14 DEF PlaceSegment
    <2> QED
      BY <2>1, Zenon DEF PlaceOn, PlaceStandard, PlaceOutside, Place, Placement
  <1>13. PlacedWell(s, result', more)
    BY <1>1, <1>5, <1>11, <1>12, PlacementIsGood
  <1> QED
    BY <1>3, <1>4, <1>12, <1>13

\* The segment that is placed no longer waits, the others do.
LEMMA NextWait ==
  ASSUME EngineInv, PlaceSegment, NEW s, s = waiting[1],
         NEW next, next = waiting'
  PROVE  /\ waiting \in Seq(Generable) /\ Len(waiting) \in Nat \ {0}
         /\ next \in Seq(Generable) /\ IsInjective(next)
         /\ DOMAIN waiting = 1 .. Len(waiting)
         /\ DOMAIN next = 1 .. Len(waiting) - 1
         /\ \A i \in DOMAIN next : next[i] = waiting[i + 1]
         /\ s \notin Done(waiting) /\ Done(waiting) \subseteq Generable
         /\ Done(next) = Done(waiting) \cup {s}
  <1>1. s \in Generable /\ Progress(waiting, result, lacking)
    BY StepPlaces DEF EngineInv, PlaceSegment
  <1>5. /\ waiting \in Seq(Generable) /\ IsInjective(waiting)
        /\ Len(waiting) \in Nat \ {0} /\ next = Tail(waiting)
    BY <1>1, StepPlaces DEF Progress, PlaceSegment
  <1>6. /\ next \in Seq(Generable) /\ Len(next) = Len(waiting) - 1
        /\ \A i \in 1 .. Len(next) : next[i] = waiting[i + 1]
    BY <1>5, EmptySeq, HeadTailProperties
  <1>7. /\ DOMAIN waiting = 1 .. Len(waiting)
        /\ DOMAIN next = 1 .. Len(waiting) - 1
    BY <1>5, <1>6, LenProperties
  <1>8. IsInjective(next)
    <2>1. ASSUME NEW i \in DOMAIN next, NEW j \in DOMAIN next, next[i] = next[j]
          PROVE  i = j
      <3>1. waiting[i + 1] = waiting[j + 1]
        BY <1>6, <1>7, <2>1
      <3>2. i + 1 \in DOMAIN waiting /\ j + 1 \in DOMAIN waiting
        BY <1>5, <1>7
      <3>3. i + 1 = j + 1
        BY <1>5, <3>1, <3>2 DEF IsInjective
      <3> QED
        BY <1>5, <1>7, <3>3
    <2> QED
      BY <2>1 DEF IsInjective
  <1>9. PICK old, new : old = Done(waiting) /\ new = Done(next)
    OBVIOUS
  <1>10. s \notin old /\ new = old \cup {s} /\ old \subseteq Generable
    <2>1. PICK L \in Nat \ {0} : L = Len(waiting)
      BY <1>5
    <2>2. 1 \in 1 .. L /\ s = waiting[1]
      BY <2>1
    <2>3. \A i \in 1 .. L - 1 : i + 1 \in 1 .. L /\ i + 1 # 1
      BY <2>1
    <2>4. \A i \in 1 .. L : i = 1 \/ (i - 1 \in 1 .. L - 1 /\ (i - 1) + 1 = i)
      BY <2>1
    <2>5. DOMAIN waiting = 1 .. L /\ DOMAIN next = 1 .. L - 1
      BY <1>7, <2>1
    <2>6. \A i \in 1 .. L - 1 : next[i] = waiting[i + 1]
      BY <1>6, <2>1
    <2>7. \A i \in 1 .. L - 1 : next[i] # s
      BY <1>5, <2>2, <2>3, <2>5, <2>6 DEF IsInjective
    <2>8. {waiting[i] : i \in 1 .. L} = {next[i] : i \in 1 .. L - 1} \cup {s}
      <3>1. \A i \in 1 .. L : waiting[i] = s
                              \/ \E j \in 1 .. L - 1 : waiting[i] = next[j]
        BY <2>2, <2>4, <2>6
      <3>2. \A i \in 1 .. L - 1 : \E j \in 1 .. L : next[i] = waiting[j]
        BY <2>3, <2>6
      <3> QED
        BY <2>2, <3>1, <3>2
    <2> QED
      BY <1>1, <1>9, <2>5, <2>7, <2>8 DEF Done
  <1> QED
    BY <1>5, <1>6, <1>7, <1>8, <1>9, <1>10

\* The step keeps what is reported as missing in line with what is lacking.
LEMMA StepProgress ==
  ASSUME EngineInv, PlaceSegment
  PROVE  /\ Progress(waiting', result', lacking')
         /\ waiting' \in Seq(Generable) /\ lacking' \in Nat
         /\ Rowed(result') /\ AutomaticFits(result')
  <1>1. /\ snapshot \in Snapshots /\ Rowed(result) /\ lacking \in Nat
        /\ Progress(waiting, result, lacking)
    BY DEF EngineInv, EngineTypeOK, Rowed, PlaceSegment
  <1>23. PICK s \in Generable : s = waiting[1]
    BY StepPlaces
  <1>2. PICK more : /\ PlacedWell(s, result', more)
                    /\ lacking' = lacking + more
    BY <1>23, StepPlaces
  <1>3. PICK rows, next : rows = result' /\ next = waiting'
    OBVIOUS
  <1>4. /\ Rowed(rows) /\ result \subseteq rows /\ AutomaticFits(rows)
        /\ \A x \in rows \ result : x.segment = s
        /\ \A t \in Generable \ {s} : Lack(rows, t) = Lack(result, t)
        /\ Lack(rows, s) \in Nat /\ more \in Nat
        /\ Lack(rows, s) - Tolerance <= more /\ more <= Lack(rows, s)
    BY <1>2, <1>3 DEF PlacedWell, PlacedFor
  <1>9. PICK old, new : old = Done(waiting) /\ new = Done(next)
    OBVIOUS
  <1>6. next \in Seq(Generable) /\ IsInjective(next)
    BY <1>3, <1>23, NextWait
  <1>10. s \notin old /\ new = old \cup {s} /\ old \subseteq Generable
    BY <1>3, <1>9, <1>23, NextWait
  <1>11. \A x \in rows : x.kind = "LOCKED" \/ x.segment \in new
    <2>1. \A x \in result : x.kind = "LOCKED" \/ x.segment \in old
      BY <1>1, <1>9 DEF Progress
    <2> QED
      BY <1>4, <1>10, <2>1
  <1>12. PICK f, g : f = Missing(result) /\ g = Missing(rows)
    OBVIOUS
  <1>13. /\ IsFiniteSet(Generable) /\ IsFiniteSet(old)
         /\ Values(f, old) /\ Values(g, Generable)
    <2>1. \A t \in Generable : f[t] \in Int /\ g[t] \in Int
      BY <1>1, <1>4, <1>12, LackIsNatural DEF Missing
    <2> QED
      BY <1>1, <1>10, <2>1, GenerableIsFinite, FS_Subset DEF Values
  <1>14. SumOf(g, new) = g[s] + SumOf(g, old)
    BY <1>10, <1>13, SumPuts
  <1>15. SumOf(g, old) = SumOf(f, old) /\ SumOf(f, old) \in Int
    <2>1. \A t \in old : g[t] = f[t]
      BY <1>4, <1>10, <1>12 DEF Missing
    <2> QED
      BY <1>13, <2>1, SumAlike, SumInteger
  <1>16. g[s] = Lack(rows, s)
    BY <1>12 DEF Missing
  <1>17. Cardinality(new) = Cardinality(old) + 1 /\ Cardinality(old) \in Nat
    BY <1>10, <1>13, FS_AddElement, FS_CardinalityType
  <1>18. /\ SumOf(f, old) - Tolerance * Cardinality(old) <= lacking
         /\ lacking <= SumOf(f, old)
    BY <1>1, <1>9, <1>12 DEF Progress
  <1>19. PICK sum \in Int, k \in Nat, tol \in Nat, l \in Nat, m \in Nat :
           /\ sum = SumOf(f, old) /\ k = Cardinality(old) /\ tol = Tolerance
           /\ l = Lack(rows, s) /\ m = more
    BY <1>4, <1>15, <1>17, EngineAssumption
  <1>20. tol * (k + 1) = tol * k + tol /\ tol * k \in Int
    OBVIOUS
  <1>21. /\ SumOf(g, new) - Tolerance * Cardinality(new) <= lacking + more
         /\ lacking + more <= SumOf(g, new)
    <2>1. PICK v \in Int : v = tol * k
      BY <1>20
    <2>2. SumOf(g, new) = l + sum
      BY <1>14, <1>15, <1>16, <1>19
    <2>3. Tolerance * Cardinality(new) = v + tol
      BY <1>17, <1>19, <1>20, <2>1
    <2>4. sum - v <= lacking /\ lacking <= sum /\ l - tol <= m /\ m <= l
      BY <1>4, <1>18, <1>19, <2>1
    <2> QED
      BY <1>1, <1>19, <2>2, <2>3, <2>4
  <1>22. Progress(next, rows, lacking + more)
    BY <1>6, <1>9, <1>11, <1>12, <1>21 DEF Progress
  <1> QED
    BY <1>1, <1>2, <1>3, <1>4, <1>6, <1>22


\* The snapshot stays, so what is proved of the next rows with the operators
\* of this state holds with those of the next.
LEMMA InvariantOfTheNext ==
  ASSUME snapshot \in Snapshots, snapshot' = snapshot,
         stored' \subseteq EngineShift, IsFiniteSet(stored'),
         result' \subseteq EngineShift, IsFiniteSet(result'),
         waiting' \in Seq(Generable), lacking' \in Nat,
         phase' \in {"idle", "placing", "rebuilt"},
         AutomaticFits(result'),
         phase' = "placing" => Progress(waiting', result', lacking')
  PROVE  EngineInv'
  <1>1. Segments' = Segments /\ Generable' = Generable
    BY DEF Segments, Generable, Active, Schedulable
  <1>2. EngineTypeOK'
    <2>1. \A s \in DOMAIN Segments : Segments[s] \in EngineSegment
      BY SegmentIs
    <2>2. waiting' \in Seq(DOMAIN Segments)
      <3>1. Generable \subseteq DOMAIN Segments
        BY GenerableIsFinite
      <3> QED
        BY <3>1
    <2> QED
      BY <1>1, <2>1, <2>2 DEF EngineTypeOK
  <1>3. AutomaticFits(result)'
    BY DEF AutomaticFits, Capacity
  <1>4. phase' = "placing" => Progress(waiting, result, lacking)'
    <2>1. Progress(waiting, result, lacking)'
            <=> Progress(waiting', result', lacking')
      BY <1>1, Zenon DEF Progress, Missing, Done, Lack, Segments
    <2> QED
      BY <2>1
  <1> QED
    BY <1>2, <1>3, <1>4 DEF EngineInv


\* A rebuild begins with the locked shifts.
LEMMA BeginKeepsInvariant ==
  ASSUME EngineInv, BeginRebuild
  PROVE  EngineInv'
  <1>1. /\ snapshot \in Snapshots /\ stored \subseteq EngineShift
        /\ IsFiniteSet(stored)
    BY DEF EngineInv, EngineTypeOK
  <1>2. /\ snapshot' = snapshot /\ stored' = stored /\ lacking' = 0
        /\ phase' = "placing"
        /\ result' \subseteq stored /\ \A x \in result' : x.kind = "LOCKED"
    BY DEF BeginRebuild
  <1>3. IsFiniteSet(result') /\ AutomaticFits(result')
    BY <1>1, <1>2, FS_Subset DEF AutomaticFits
  <1>4. Progress(waiting', result', lacking')
    BY BeginProgress
  <1>5. waiting' \in Seq(Generable)
    BY <1>4 DEF Progress
  <1> QED
    BY <1>1, <1>2, <1>3, <1>4, <1>5, InvariantOfTheNext

\* A step of the engine keeps the invariant.
LEMMA PlaceKeepsInvariant ==
  ASSUME EngineInv, PlaceSegment
  PROVE  EngineInv'
  <1>1. /\ snapshot \in Snapshots /\ stored \subseteq EngineShift
        /\ IsFiniteSet(stored)
    BY DEF EngineInv, EngineTypeOK
  <1>2. /\ snapshot' = snapshot /\ stored' = stored
        /\ phase' \in {"idle", "placing", "rebuilt"}
    BY DEF PlaceSegment
  <1>3. /\ Progress(waiting', result', lacking')
        /\ waiting' \in Seq(Generable) /\ lacking' \in Nat
        /\ Rowed(result') /\ AutomaticFits(result')
    BY StepProgress
  <1>4. result' \subseteq EngineShift /\ IsFiniteSet(result')
    BY <1>3 DEF Rowed
  <1> QED
    BY <1>1, <1>2, <1>3, <1>4, InvariantOfTheNext

\* What the column of hours holds is a number of hours.
LEMMA InColumnIsNatural ==
  ASSUME NEW h \in Nat
  PROVE  InColumn(h) \in Nat
  <1>1. PICK unit \in Nat \ {0} : unit = StoredUnit
    BY EngineAssumption
  <1>2. PICK a \in Nat, b \in Nat \ {0} : a = 2 * h + unit /\ b = 2 * unit
    <2>1. 2 * h + unit \in Nat /\ 2 * unit \in Nat \ {0}
      OBVIOUS
    <2> QED
      BY <2>1
  <1>3. PICK q \in Nat : q = a \div b
    BY QuotientIs
  <1>4. q * unit \in Nat
    OBVIOUS
  <1> QED
    BY <1>1, <1>2, <1>3, <1>4 DEF InColumn

\* The rows of a plan are stored as they are, but for the precision.
LEMMA StoredRows ==
  ASSUME Rowed(result)
  PROVE  Rowed(Rows)
  <1>1. PICK m : m = [x \in result |->
                        IF x.kind = "LOCKED" THEN x
                        ELSE [x EXCEPT !.hours = InColumn(x.hours)]]
    OBVIOUS
  <1>2. Rows = {m[x] : x \in result}
    BY <1>1 DEF Rows
  <1>3. IsFiniteSet(Rows)
    BY <1>2, ImageIsFinite DEF Rowed
  <1>4. ASSUME NEW x \in result
        PROVE  m[x] \in EngineShift
    <2>1. x \in EngineShift
      BY DEF Rowed
    <2>2. PICK h \in Nat : h = InColumn(x.hours)
      BY <2>1, InColumnIsNatural DEF EngineShift
    <2>3. m[x] = x \/ m[x] = [x EXCEPT !.hours = h]
      BY <1>1, <2>2
    <2>4. [x EXCEPT !.hours = h] \in EngineShift
      BY <2>1 DEF EngineShift
    <2> QED
      BY <2>1, <2>3, <2>4
  <1> QED
    BY <1>2, <1>3, <1>4 DEF Rowed

\* So does the end of a rebuild, and nothing else happens.
LEMMA EndKeepsInvariant ==
  ASSUME EngineInv, PersistPlan \/ RefusePlan
  PROVE  EngineInv'
  <1>1. /\ snapshot \in Snapshots /\ Rowed(stored) /\ Rowed(result)
        /\ Progress(waiting, result, lacking) /\ lacking \in Nat
        /\ AutomaticFits(result)
    BY DEF EngineInv, EngineTypeOK, Rowed, PersistPlan, RefusePlan
  <1>2. waiting \in Seq(Generable)
    BY <1>1 DEF Progress
  <1>3. /\ snapshot' = snapshot /\ result' = result /\ waiting' = waiting
        /\ lacking' = lacking /\ phase' \in {"idle", "rebuilt"}
        /\ stored' = stored \/ stored' = Rows
    BY DEF PersistPlan, RefusePlan
  <1>4. Rowed(stored')
    BY <1>1, <1>3, StoredRows
  <1>5. /\ stored' \subseteq EngineShift /\ IsFiniteSet(stored')
        /\ result' \subseteq EngineShift /\ IsFiniteSet(result')
    BY <1>1, <1>3, <1>4 DEF Rowed
  <1>6. AutomaticFits(result') /\ phase' # "placing"
    BY <1>1, <1>3
  <1> QED
    BY <1>1, <1>2, <1>3, <1>5, <1>6, InvariantOfTheNext

\* The invariant holds at first.
LEMMA EngineStarts ==
  ASSUME EngineInit
  PROVE  EngineInv
  <1>1. snapshot \in Snapshots /\ Snapshot(snapshot)
    BY EngineAssumption DEF EngineInit
  <1>2. /\ stored \subseteq EngineShift /\ IsFiniteSet(stored)
        /\ result = {} /\ waiting = <<>> /\ lacking = 0 /\ phase = "idle"
    BY <1>1 DEF EngineInit, Snapshot
  <1>3. \A s \in DOMAIN Segments : Segments[s] \in EngineSegment
    BY <1>1, SegmentIs
  <1>4. waiting \in Seq(DOMAIN Segments) /\ IsFiniteSet(result)
    BY <1>2, EmptySeq, FS_EmptySet
  <1>5. AutomaticFits(result)
    BY <1>2 DEF AutomaticFits
  <1> QED
    BY <1>1, <1>2, <1>3, <1>4, <1>5 DEF EngineInv, EngineTypeOK

\* Each step keeps the invariant.
LEMMA EngineGoesOn ==
  ASSUME EngineInv, [EngineNext]_engineVars
  PROVE  EngineInv'
  <1>1. CASE UNCHANGED engineVars
    <2>1. /\ snapshot' = snapshot /\ stored' = stored /\ result' = result
          /\ waiting' = waiting /\ lacking' = lacking /\ phase' = phase
      BY <1>1 DEF engineVars
    <2>2. EngineTypeOK'
      BY <2>1 DEF EngineInv, EngineTypeOK, Segments
    <2>3. AutomaticFits(result)'
      BY <2>1 DEF EngineInv, AutomaticFits, Capacity
    <2>4. Progress(waiting, result, lacking)'
            <=> Progress(waiting, result, lacking)
      BY <2>1, Zenon DEF Progress, Missing, Done, Lack, Generable, Active,
                        Schedulable, Segments
    <2> QED
      BY <2>1, <2>2, <2>3, <2>4 DEF EngineInv
  <1> QED
    BY <1>1, BeginKeepsInvariant, PlaceKeepsInvariant, EndKeepsInvariant
    DEF EngineNext


\* Automatic hours fit in what the invariant says they fit in.
LEMMA FitsInCapacity ==
  ASSUME AutomaticFits(result)
  PROVE  AutomaticFitsCapacity
  BY DEF AutomaticFits, AutomaticFitsCapacity, UsedHours, UsedIn

\* Once nothing waits, what is reported is what the segments lack, up to the
\* tolerance for each.
LEMMA ReportIsComplete ==
  ASSUME EngineInv
  PROVE  LackingHoursReported
  <1> SUFFICES ASSUME Complete
               PROVE  LackingHoursReported
    BY DEF LackingHoursReported
  <1>1. /\ snapshot \in Snapshots /\ Rowed(result) /\ lacking \in Nat
        /\ Progress(waiting, result, lacking) /\ waiting = <<>>
    BY DEF EngineInv, EngineTypeOK, Rowed, Complete
  <1>2. PICK G : G = Generable
    OBVIOUS
  <1>3. IsFiniteSet(G)
    BY <1>1, <1>2, GenerableIsFinite
  <1>4. Done(waiting) = G
    <2>1. DOMAIN waiting = {}
      BY <1>1
    <2> QED
      BY <1>2, <2>1 DEF Done
  <1>5. PICK f, h, c, l : /\ f = Missing(result)
                          /\ h = [s \in G |-> Segments[s].hours]
                          /\ c = [s \in G |-> Counted(s)]
                          /\ l = [s \in G |->
                                    AtLeast0(Segments[s].hours - Counted(s))]
    OBVIOUS
  <1>6. ASSUME NEW s \in G
        PROVE  h[s] \in Nat /\ c[s] \in Nat /\ l[s] = AtLeast0(h[s] - c[s])
               /\ f[s] = l[s]
    <2>1. Counted(s) = HoursIn(CountedIn(result, s))
      BY DEF Counted, CountedIn
    <2>2. Counted(s) \in Nat /\ Segments[s].hours \in Nat
      BY <1>1, <1>2, <2>1, LackIsNatural
    <2> QED
      BY <1>2, <1>5, <2>1, <2>2 DEF Missing, Lack
  <1>7. \A s \in G : l[s] \in Nat
    BY <1>6 DEF AtLeast0
  <1>8. PICK d : d = [s \in G |-> h[s] - c[s]]
    OBVIOUS
  <1>9. Values(h, G) /\ Values(c, G) /\ Values(l, G) /\ Values(d, G)
    BY <1>6, <1>7, <1>8 DEF Values
  <1>10. /\ RequestedHours = SumOf(h, G) /\ AllocatedHours = SumOf(c, G)
         /\ AddUp(l, G) = SumOf(l, G)
    BY <1>2, <1>3, <1>5, <1>9, AddsUp DEF RequestedHours, AllocatedHours
  <1>11. SumOf(h, G) = SumOf(d, G) + SumOf(c, G)
    <2>1. \A s \in G : h[s] = d[s] + c[s]
      BY <1>6, <1>8
    <2> QED
      BY <1>3, <1>9, <2>1, SumAdds
  <1>12. SumOf(d, G) <= SumOf(l, G)
    <2>1. \A s \in G : d[s] <= l[s]
      BY <1>6, <1>8 DEF AtLeast0
    <2> QED
      BY <1>3, <1>9, <2>1, SumAtMost
  <1>13. SumOf(f, G) = SumOf(l, G)
    BY <1>3, <1>6, <1>9, SumAlike
  <1>14. PICK sum \in Int, dif \in Int, req \in Int, all \in Int :
           /\ sum = SumOf(l, G) /\ dif = SumOf(d, G)
           /\ req = SumOf(h, G) /\ all = SumOf(c, G)
    BY <1>3, <1>9, SumInteger
  <1>15. PICK slack \in Nat : slack = Tolerance * Cardinality(G)
    BY <1>3, FS_CardinalityType, EngineAssumption
  <1>16. sum - slack <= lacking /\ lacking <= sum
    BY <1>1, <1>4, <1>5, <1>13, <1>14, <1>15 DEF Progress
  <1>17. UnallocatedHours = IF req - all > lacking THEN req - all ELSE lacking
    BY <1>10, <1>14 DEF UnallocatedHours
  <1>18. req - all <= sum
    BY <1>11, <1>12, <1>14
  <1>19. PICK e \in Int : e = UnallocatedHours - AddUp(l, G)
    BY <1>1, <1>10, <1>14, <1>17
  <1>20. -slack <= e /\ e <= slack
    <2>1. PICK k \in Nat : k = lacking
      BY <1>1
    <2>2. e = (IF req - all > k THEN req - all ELSE k) - sum
      BY <1>10, <1>14, <1>17, <1>19, <2>1
    <2>3. sum - slack <= k /\ k <= sum
      BY <1>16, <2>1
    <2> QED
      BY <1>18, <2>2, <2>3
  <1> QED
    BY <1>2, <1>5, <1>15, <1>19, <1>20, Zenon DEF LackingHoursReported

-----------------------------------------------------------------------------
(* The theorems.                                                           *)

\* The invariant of a rebuild: segments wait once each, automatic hours fit,
\* and what is reported as missing is what placed segments lack.
THEOREM EngineInvariant == EngineSpec => []EngineInv
  <1>1. EngineInit => EngineInv
    BY EngineStarts
  <1>2. EngineInv /\ [EngineNext]_engineVars => EngineInv'
    BY EngineGoesOn
  <1> QED
    BY <1>1, <1>2, PTL DEF EngineSpec

\* The hours of a plan add up, for all snapshots: automatic hours fit, on each
\* day, in what locked shifts and the segments placed before leave, and what
\* is reported as unallocated is what the segments lack.
THEOREM HoursAlwaysAddUp == EngineSpec => []HoursAddUp
  <1>1. EngineInv => HoursAddUp
    BY FitsInCapacity, ReportIsComplete DEF EngineInv, HoursAddUp
  <1> QED
    BY <1>1, EngineInvariant, PTL

-----------------------------------------------------------------------------
(* The target number of days gives way to the hours.                       *)

\* More days than the target, some of them not locked, are not one too many:
\* without it, what was found on the others does not hold what is needed.
Yields(s, days, locked, found, needed) ==
  /\ ~Segments[s].fixed /\ Segments[s].target > 0
  /\ Cardinality(days \cup locked) > Segments[s].target
  /\ days \ locked # {}
  => \E d \in days \ locked : AddUp(found, days \ {d}) < needed

\* A list of k days has at most k of them.
LEMMA ListedDays ==
  ASSUME NEW k \in Nat, NEW order
  PROVE  /\ IsFiniteSet({order[i] : i \in 1 .. k})
         /\ Cardinality({order[i] : i \in 1 .. k}) \in Nat
         /\ Cardinality({order[i] : i \in 1 .. k}) <= k
  <1>1. PICK f, I, T : /\ f = [i \in 1 .. k |-> order[i]] /\ I = 1 .. k
                       /\ T = {order[i] : i \in 1 .. k}
    OBVIOUS
  <1>2. IsFiniteSet(I) /\ Cardinality(I) = k
    BY <1>1, FS_Interval
  <1>3. f \in Surjection(I, T)
    BY <1>1 DEF Surjection
  <1>4. IsFiniteSet(T) /\ Cardinality(T) <= Cardinality(I)
    BY <1>2, <1>3, FS_Surjection
  <1> QED
    BY <1>1, <1>2, <1>4, FS_CardinalityType

\* Some of the active days of a segment are not more than the target unless
\* its hours need them.
LEMMA ActiveDaysYield ==
  ASSUME snapshot \in Snapshots, Rowed(result), NEW s \in Generable,
         NEW days, days \subseteq ActiveDays(s),
         NEW found, \A d \in days : found[d] = Room(s, d)
  PROVE  Yields(s, days, LockedDays(s), found, Remaining(s))
  <1>1. PICK room, locked : room = RoomOf(s) /\ locked = LockedDays(s)
    OBVIOUS
  <1> SUFFICES ASSUME ~Segments[s].fixed, Segments[s].target > 0,
                      Cardinality(days \cup locked) > Segments[s].target,
                      days \ locked # {}
               PROVE  \E d \in days \ locked :
                        AddUp(found, days \ {d}) < Remaining(s)
    BY <1>1 DEF Yields
  <1>20. PICK n, k, order : ChosenWell(s, room, locked, n, k, order)
    <2>1. ~(Segments[s].fixed \/ Segments[s].target = 0)
      BY SegmentIs DEF Generable, Active
    <2> QED
      BY <1>1, <2>1, DaysAreChosen
  <1>2. /\ n \in Nat /\ k \in Nat /\ k <= n
        /\ order \in [1 .. n -> {d \in Window(s) \ locked : room[d] > 0}]
        /\ ActiveDays(s) = Chosen(s, room, locked, order, k)
        /\ k > AdditionalDays(s, locked) =>
             AddUp(room, Chosen(s, room, locked, order, k - 1)) + Tolerance
               < Remaining(s)
    BY <1>20 DEF ChosenWell
  <1>3. PICK some : some = {order[i] : i \in 1 .. k}
    OBVIOUS
  <1>4. days \subseteq locked \cup some /\ (days \ locked) \subseteq some
    BY <1>2, <1>3 DEF Chosen
  <1>5. k > 0
    <2>1. some # {}
      BY <1>4
    <2> QED
      BY <1>2, <1>3, <2>1
  <1>6. PICK c \in Nat, t \in Nat :
          c = Cardinality(locked) /\ t = Segments[s].target
    BY <1>1, LockedDaysAre, SegmentIs DEF Generable, Active
  <1>7. t < c + k
    <2>1. IsFiniteSet(locked) /\ IsFiniteSet(some) /\ Cardinality(some) \in Nat
          /\ Cardinality(some) <= k
      BY <1>1, <1>2, <1>3, LockedDaysAre, ListedDays
    <2>2. PICK both : both = locked \cup some
      OBVIOUS
    <2>3. /\ IsFiniteSet(both) /\ Cardinality(both) \in Nat
          /\ Cardinality(both) <= c + Cardinality(some)
      <3>1. PICK m \in Nat : m = Cardinality(locked \cap some)
        BY <2>1, FS_Intersection, FS_CardinalityType
      <3>2. IsFiniteSet(both) /\ Cardinality(both) \in Nat
        BY <2>1, <2>2, FS_Union, FS_CardinalityType
      <3>3. Cardinality(both) = c + Cardinality(some) - m
        BY <1>6, <2>1, <2>2, <3>1, FS_Union
      <3> QED
        BY <2>1, <3>1, <3>2, <3>3
    <2>4. days \cup locked \subseteq both
      BY <1>4, <2>2
    <2>5. /\ Cardinality(days \cup locked) \in Nat
          /\ Cardinality(days \cup locked) <= Cardinality(both)
      BY <2>3, <2>4, FS_Subset, FS_CardinalityType
    <2> QED
      BY <1>2, <1>6, <2>1, <2>3, <2>5
  <1>8. k > AdditionalDays(s, locked)
    BY <1>2, <1>5, <1>6, <1>7 DEF AdditionalDays, AtLeast0
  <1>9. PICK C : C = Chosen(s, room, locked, order, k - 1)
    OBVIOUS
  <1>10. AddUp(room, C) + Tolerance < Remaining(s)
    BY <1>2, <1>8, <1>9
  <1>11. PICK d \in days \ locked : days \ {d} \subseteq C
    <2>1. \A i \in 1 .. k : i = k \/ i \in 1 .. k - 1
      BY <1>2
    <2>2. ActiveDays(s) \subseteq C \cup {order[k]}
      BY <1>2, <1>9, <2>1 DEF Chosen
    <2>3. CASE order[k] \in days
      <3>1. order[k] \notin locked
        BY <1>2, <1>5
      <3> QED
        BY <2>2, <2>3, <3>1
    <2>4. CASE order[k] \notin days
      BY <2>2, <2>4
    <2> QED
      BY <2>3, <2>4
  <1>12. PICK D : D = days \ {d}
    OBVIOUS
  <1>13. /\ C \subseteq Window(s) /\ IsFiniteSet(C)
         /\ \A e \in C : room[e] \in Nat
    <2>1. s \in DOMAIN Segments
      BY DEF Generable, Active
    <2>2. IsFiniteSet(Window(s)) /\ \A e \in Window(s) : room[e] \in Nat
      BY <1>1, <2>1, SegmentIs, RoomIs DEF RoomOf
    <2>3. \A i \in 1 .. k - 1 : order[i] \in Window(s)
      BY <1>2
    <2>4. C \subseteq Window(s)
      BY <1>9, <2>3 DEF Chosen
    <2> QED
      BY <2>2, <2>4, FS_Subset
  <1>14. Values(room, C) /\ Values(room, C \ D) /\ D \subseteq C
         /\ IsFiniteSet(D) /\ IsFiniteSet(C \ D) /\ Values(room, D)
    BY <1>11, <1>12, <1>13, FS_Subset DEF Values
  <1>15. SumOf(room, C) = SumOf(room, D) + SumOf(room, C \ D)
         /\ SumOf(room, D) \in Int
    BY <1>13, <1>14, SumParts
  <1>16. SumOf(room, C \ D) \in Nat
    <2>1. \A e \in C \ D : room[e] \in Nat
      BY <1>13
    <2> QED
      BY <1>14, <2>1, SumNatural
  <1>17. AddUp(found, D) = SumOf(room, D)
    <2>1. \A e \in D : found[e] = room[e]
      BY <1>1, <1>12, <1>13, <1>14 DEF RoomOf
    <2>2. Values(found, D)
      BY <1>14, <2>1 DEF Values
    <2>3. AddUp(found, D) = SumOf(found, D)
      BY <1>14, <2>2, AddsUp
    <2>4. SumOf(found, D) = SumOf(room, D)
      BY <1>14, <2>1, SumAlike
    <2> QED
      BY <2>3, <2>4
  <1>18. AddUp(room, C) = SumOf(room, C)
    BY <1>13, <1>14, AddsUp
  <1>19. AddUp(found, D) < Remaining(s)
    <2>1. Remaining(s) \in Nat /\ Tolerance \in Nat
      BY RemainingIs, EngineAssumption
    <2> QED
      BY <1>10, <1>15, <1>16, <1>17, <1>18, <2>1
  <1> QED
    BY <1>11, <1>12, <1>19

\* The locked rows of a segment, its automatic ones, and days of rows.
LockedIn(rows, s) == {x \in rows : x.kind = "LOCKED" /\ x.segment = s}
AutomaticOf(rows, s) == {x \in rows : x.segment = s /\ x.kind = "STANDARD"}
DaysOf(rows) == {x.day : x \in rows}

\* What used a day before a segment was placed, and what it found there.
UsedBefore(rows, s, d) ==
  {x \in UsedIn(rows, Segments[s].person, d) :
     x.kind = "STANDARD" => x.segment # s /\ ~Earlier(s, x.segment)}

Found(rows, s) ==
  [d \in DaysOf(AutomaticOf(rows, s)) |->
     Capacity(Segments[s].person, d) - HoursIn(UsedBefore(rows, s, d))]

\* What locked shifts leave of a segment.
Needed(rows, s) == AtLeast0(Segments[s].hours - HoursIn(LockedIn(rows, s)))

TargetYields(rows, s) ==
  Yields(s, DaysOf(AutomaticOf(rows, s)), DaysOf(LockedIn(rows, s)),
         Found(rows, s), Needed(rows, s))

\* Segments wait in their order; automatic rows are of who works the segment;
\* the target of each segment that was placed gave way to its hours.
Yielding(list, rows) ==
  /\ \A i, j \in DOMAIN list : i < j => Earlier(list[i], list[j])
  /\ \A s \in Done(list) : \A i \in DOMAIN list : Earlier(s, list[i])
  /\ \A x \in rows : x.kind = "STANDARD" =>
       x.person = Segments[x.segment].person
  /\ \A s \in Done(list) : TargetYields(rows, s)

TargetInv == EngineInv /\ (phase = "placing" => Yielding(waiting, result))

\* A segment that is placed now gives way.
LEMMA PlacedYields ==
  ASSUME snapshot \in Snapshots, Rowed(result), NEW s \in Generable, Unplaced(s),
         \A x \in result : x.kind = "STANDARD" => ~Earlier(s, x.segment),
         NEW rows, result \subseteq rows, PlacedFor(s, rows \ result)
  PROVE  TargetYields(rows, s)
  <1>1. PICK days : days = DaysOf(AutomaticOf(rows, s))
    OBVIOUS
  <1>2. days \subseteq ActiveDays(s)
    BY <1>1 DEF DaysOf, AutomaticOf, Unplaced, PlacedFor
  <1>3. LockedIn(rows, s) = LockedOf(s)
    BY DEF LockedIn, LockedOf, PlacedFor
  <1>4. \A d : UsedBefore(rows, s, d) = UsedIn(result, Segments[s].person, d)
    BY DEF UsedBefore, UsedIn, Unplaced, PlacedFor
  <1>5. \A d : HoursIn(UsedBefore(rows, s, d)) = UsedHours(Segments[s].person, d)
    BY <1>4 DEF UsedIn, UsedHours
  <1>6. ASSUME NEW d \in days
        PROVE  Found(rows, s)[d] = Room(s, d)
    <2>1. PICK r \in Nat, u \in Nat, c \in Nat :
            /\ r = Room(s, d) /\ u = UsedHours(Segments[s].person, d)
            /\ c = Capacity(Segments[s].person, d)
      BY RoomIs, CapacityIsNatural
    <2>2. r > 0
      BY <1>2, <2>1, ActiveDaysHaveRoom
    <2>3. r + u = c
      BY <2>1, <2>2, RoomIs
    <2>4. Found(rows, s)[d] = c - u
      BY <1>1, <1>5, <2>1 DEF Found
    <2> QED
      BY <2>1, <2>3, <2>4
  <1>7. PICK found : found = Found(rows, s)
    OBVIOUS
  <1>8. Yields(s, days, LockedDays(s), found, Remaining(s))
    BY <1>2, <1>6, <1>7, ActiveDaysYield
  <1>9. DaysOf(LockedIn(rows, s)) = LockedDays(s)
        /\ Needed(rows, s) = Remaining(s)
    BY <1>3 DEF DaysOf, LockedDays, Needed, Remaining
  <1> QED
    BY <1>1, <1>7, <1>8, <1>9 DEF TargetYields

\* What is placed later changes nothing for those before it.
LEMMA StaysYielding ==
  ASSUME NEW s, NEW t, s # t, Earlier(s, t), TargetYields(result, s),
         NEW rows, result \subseteq rows, PlacedFor(t, rows \ result)
  PROVE  TargetYields(rows, s)
  <1>1. LockedIn(rows, s) = LockedIn(result, s)
        /\ AutomaticOf(rows, s) = AutomaticOf(result, s)
    BY DEF LockedIn, AutomaticOf, PlacedFor
  <1>2. \A d : UsedBefore(rows, s, d) = UsedBefore(result, s, d)
    BY DEF UsedBefore, UsedIn, PlacedFor
  <1>3. Found(rows, s) = Found(result, s)
    BY <1>1, <1>2 DEF Found
  <1> QED
    BY <1>1, <1>3 DEF TargetYields, Needed

\* The room of a day now, with what the segment and those after it placed on
\* it, is what the segment found.
LEMMA RoomWasFound ==
  ASSUME snapshot \in Snapshots, Rowed(result), AutomaticFits(result),
         \A x \in result : x.kind = "STANDARD" =>
           x.person = Segments[x.segment].person,
         NEW s \in Generable, NEW d \in DaysOf(AutomaticOf(result, s))
  PROVE  Found(result, s)[d]
           = Room(s, d)
               + HoursIn({x \in AutomaticOf(result, s) : x.day = d})
               + HoursIn({x \in result : /\ x.kind = "STANDARD"
                                         /\ x.segment # s
                                         /\ x.person = Segments[s].person
                                         /\ x.day = d
                                         /\ Earlier(s, x.segment)})
  <1>1. PICK p, U, A, B, C :
          /\ p = Segments[s].person /\ U = UsedIn(result, p, d)
          /\ A = UsedBefore(result, s, d)
          /\ B = {x \in AutomaticOf(result, s) : x.day = d}
          /\ C = {x \in result : /\ x.kind = "STANDARD" /\ x.segment # s
                                 /\ x.person = p /\ x.day = d
                                 /\ Earlier(s, x.segment)}
    OBVIOUS
  <1>2. B \subseteq U /\ C \subseteq U /\ A \subseteq U
    BY <1>1 DEF AutomaticOf, UsedIn, UsedBefore
  <1>3. U = (A \cup B) \cup C /\ A \cap B = {} /\ (A \cup B) \cap C = {}
    <2>1. \A x \in U : x \in A \/ x \in B \/ x \in C
      BY <1>1 DEF AutomaticOf, UsedIn, UsedBefore
    <2>2. A \cap B = {} /\ A \cap C = {} /\ B \cap C = {}
      BY <1>1 DEF AutomaticOf, UsedBefore
    <2> QED
      BY <1>2, <2>1, <2>2
  <1>4. /\ Timed(A) /\ Timed(B) /\ Timed(C)
        /\ HoursIn(A) \in Nat /\ HoursIn(B) \in Nat /\ HoursIn(C) \in Nat
    <2>1. U \subseteq result
      BY <1>1 DEF UsedIn
    <2>2. A \subseteq result /\ B \subseteq result /\ C \subseteq result
      BY <1>2, <2>1
    <2> QED
      BY <2>2, SomeRows
  <1>5. /\ Timed(A \cup B) /\ HoursIn(A \cup B) = HoursIn(A) + HoursIn(B)
    BY <1>3, <1>4, HoursOfBoth
  <1>6. HoursIn((A \cup B) \cup C) = HoursIn(A \cup B) + HoursIn(C)
    BY <1>3, <1>4, <1>5, HoursOfBoth
  <1>7. PICK a \in Nat, b \in Nat, c \in Nat, cap \in Nat :
          /\ a = HoursIn(A) /\ b = HoursIn(B) /\ c = HoursIn(C)
          /\ cap = Capacity(p, d)
    BY <1>1, <1>4, CapacityIsNatural
  <1>8. HoursIn(U) = a + b + c
    BY <1>3, <1>5, <1>6, <1>7
  <1>9. HoursIn(U) <= cap
    <2>1. PICK x \in AutomaticOf(result, s) : x.day = d
      BY DEF DaysOf
    <2>2. x \in result /\ x.kind = "STANDARD" /\ x.person = p
      BY <1>1, <2>1 DEF AutomaticOf
    <2>3. HoursIn(UsedIn(result, x.person, x.day)) <= Capacity(x.person, x.day)
      BY <2>2 DEF AutomaticFits
    <2> QED
      BY <1>1, <1>7, <2>1, <2>2, <2>3
  <1>10. UsedHours(p, d) = HoursIn(U)
    BY <1>1 DEF UsedHours, UsedIn
  <1>11. Room(s, d) = cap - (a + b + c)
    <2>1. Room(s, d) = AtLeast0(cap - HoursIn(U))
      BY <1>1, <1>7, <1>10 DEF Room
    <2> QED
      BY <1>7, <1>8, <1>9, <2>1 DEF AtLeast0
  <1>12. Found(result, s)[d] = cap - a
    BY <1>1, <1>7 DEF Found
  <1>13. Room(s, d) + HoursIn(B) + HoursIn(C) = cap - a
    BY <1>7, <1>11
  <1> QED
    BY <1>1, <1>12, <1>13

\* The target of a segment that was placed gives way, as the room of its days
\* is seen now.
LEMMA TargetsYield ==
  ASSUME TargetInv
  PROVE  TargetYieldsToCapacity
  <1> SUFFICES ASSUME phase = "placing"
               PROVE  TargetYieldsToCapacity
    BY DEF TargetYieldsToCapacity
  <1>1. /\ snapshot \in Snapshots /\ Rowed(result) /\ AutomaticFits(result)
        /\ Progress(waiting, result, lacking) /\ Yielding(waiting, result)
    BY DEF TargetInv, EngineInv, EngineTypeOK, Rowed
  <1>2. ASSUME NEW s \in Generable, NEW auto, NEW days, NEW locked, NEW room,
               auto = {x \in result : x.segment = s /\ x.kind = "STANDARD"},
               days = {x.day : x \in auto},
               locked = {x.day : x \in LockedOf(s)},
               room = [e \in days |->
                 Room(s, e)
                   + HoursIn({x \in auto : x.day = e})
                   + HoursIn({x \in result : /\ x.kind = "STANDARD"
                                             /\ x.segment # s
                                             /\ x.person = Segments[s].person
                                             /\ x.day = e
                                             /\ Earlier(s, x.segment)})]
        PROVE  Yields(s, days, locked, room, Remaining(s))
    <2>1. auto = AutomaticOf(result, s) /\ days = DaysOf(AutomaticOf(result, s))
      BY <1>2 DEF AutomaticOf, DaysOf
    <2>2. locked = DaysOf(LockedIn(result, s)) /\ Remaining(s) = Needed(result, s)
      BY <1>2 DEF LockedOf, LockedIn, DaysOf, Remaining, Needed
    <2>3. CASE s \in Done(waiting)
      <3>1. TargetYields(result, s)
        BY <1>1, <2>3 DEF Yielding
      <3>2. PICK found : found = Found(result, s)
        OBVIOUS
      <3>3. \A x \in result : x.kind = "STANDARD" =>
              x.person = Segments[x.segment].person
        BY <1>1 DEF Yielding
      <3>4. \A e \in days : found[e] = room[e]
        BY <1>1, <1>2, <2>1, <3>2, <3>3, RoomWasFound
      <3>5. room = found
        BY <1>2, <2>1, <3>2, <3>4 DEF Found
      <3> QED
        BY <2>1, <2>2, <3>1, <3>2, <3>5 DEF TargetYields
    <2>4. CASE s \notin Done(waiting)
      <3>1. days = {}
        BY <1>1, <1>2, <2>4 DEF Progress
      <3> QED
        BY <3>1 DEF Yields
    <2> QED
      BY <2>3, <2>4
  <1>3. ASSUME NEW s \in Generable
        PROVE  LET g == Segments[s]
                   auto == {x \in result : x.segment = s /\ x.kind = "STANDARD"}
                   days == {x.day : x \in auto}
                   locked == {x.day : x \in LockedOf(s)}
                   room(d) == Room(s, d)
                     + HoursIn({x \in auto : x.day = d})
                     + HoursIn({x \in result : /\ x.kind = "STANDARD"
                                               /\ x.segment # s
                                               /\ x.person = g.person
                                               /\ x.day = d
                                               /\ Earlier(s, x.segment)})
               IN
               /\ ~g.fixed /\ g.target > 0
               /\ Cardinality(days \cup locked) > g.target
               /\ days \ locked # {}
               => \E d \in days \ locked :
                    AddUp([e \in days |-> room(e)], days \ {d}) < Remaining(s)
    <2> DEFINE auto == {x \in result : x.segment = s /\ x.kind = "STANDARD"}
               days == {x.day : x \in auto}
               locked == {x.day : x \in LockedOf(s)}
               room == [e \in days |->
                 Room(s, e)
                   + HoursIn({x \in auto : x.day = e})
                   + HoursIn({x \in result : /\ x.kind = "STANDARD"
                                             /\ x.segment # s
                                             /\ x.person = Segments[s].person
                                             /\ x.day = e
                                             /\ Earlier(s, x.segment)})]
    <2>1. Yields(s, days, locked, room, Remaining(s))
      BY <1>2, Zenon
    <2> QED
      BY <2>1, Zenon DEF Yields
  <1> QED
    BY <1>3, Zenon DEF TargetYieldsToCapacity

\* A rebuild begins with segments in their order and nothing placed.
LEMMA BeginYielding ==
  ASSUME EngineInv, BeginRebuild
  PROVE  Yielding(waiting', result')
  <1>1. PICK G, R : G = Generable /\ R = {s \in Pairs(G) : Earlier(s[1], s[2])}
    OBVIOUS
  <1>2. IsFiniteSet(G) /\ StrictOrder(R, G)
    BY <1>1, GenerableIsFinite, EarlierIsOrder DEF EngineInv, EngineTypeOK
  <1>3. PICK n \in Nat : n = Cardinality(G)
    BY <1>2, FS_CardinalityType
  <1>4. PICK order : order = Sorted(G, R)
    OBVIOUS
  <1>5. /\ order \in [1 .. n -> G]
        /\ \A s \in G : \E i \in 1 .. n : order[i] = s
        /\ \A i, j \in 1 .. n : i < j => <<order[i], order[j]>> \in R
    BY <1>2, <1>3, <1>4, SortedEnumerates
  <1>6. \A i, j \in DOMAIN order : i < j => Earlier(order[i], order[j])
    BY <1>1, <1>5
  <1>7. Done(order) = {}
    BY <1>1, <1>5 DEF Done
  <1>8. waiting' = order /\ \A x \in result' : x.kind = "LOCKED"
    BY <1>1, <1>4 DEF BeginRebuild
  <1> QED
    BY <1>6, <1>7, <1>8 DEF Yielding

\* A step places the first that waits: it gives way now, those before it
\* stay as they are.
LEMMA StepYielding ==
  ASSUME EngineInv, Yielding(waiting, result), PlaceSegment
  PROVE  Yielding(waiting', result')
  <1>1. /\ snapshot \in Snapshots /\ Rowed(result)
        /\ Progress(waiting, result, lacking)
    BY DEF EngineInv, EngineTypeOK, Rowed, PlaceSegment
  <1>2. PICK s, list, next, rows, old :
          /\ s = waiting[1] /\ list = waiting /\ next = waiting'
          /\ rows = result' /\ old = Done(waiting)
    OBVIOUS
  <1>3. s \in Generable /\ result \subseteq rows /\ PlacedFor(s, rows \ result)
    BY <1>2, StepPlaces DEF PlacedWell
  <1>4. PICK L \in Nat \ {0} : L = Len(list)
    BY <1>2, NextWait
  <1>5. /\ DOMAIN list = 1 .. L /\ DOMAIN next = 1 .. L - 1
        /\ \A i \in 1 .. L - 1 : next[i] = list[i + 1]
        /\ s \notin old /\ old \subseteq Generable /\ Done(next) = old \cup {s}
    BY <1>2, <1>4, NextWait
  <1>6. /\ \A i, j \in 1 .. L : i < j => Earlier(list[i], list[j])
        /\ \A t \in old : \A i \in 1 .. L : Earlier(t, list[i])
        /\ \A x \in result : x.kind = "STANDARD" =>
             x.person = Segments[x.segment].person
        /\ \A t \in old : TargetYields(result, t)
    BY <1>2, <1>5 DEF Yielding
  <1>7. \A i \in 1 .. L - 1 : i + 1 \in 1 .. L /\ i + 1 > 1 /\ 1 \in 1 .. L
    OBVIOUS
  <1>8. \A i, j \in 1 .. L - 1 : i < j => Earlier(next[i], next[j])
    <2> SUFFICES ASSUME NEW i \in 1 .. L - 1, NEW j \in 1 .. L - 1, i < j
                 PROVE  Earlier(next[i], next[j])
      OBVIOUS
    <2>1. i + 1 \in 1 .. L /\ j + 1 \in 1 .. L /\ i + 1 < j + 1
      OBVIOUS
    <2>2. Earlier(list[i + 1], list[j + 1])
      BY <1>6, <2>1
    <2> QED
      BY <1>5, <2>2
  <1>9. \A t \in old \cup {s} : \A i \in 1 .. L - 1 : Earlier(t, next[i])
    <2> SUFFICES ASSUME NEW t \in old \cup {s}, NEW i \in 1 .. L - 1
                 PROVE  Earlier(t, next[i])
      OBVIOUS
    <2>1. CASE t \in old
      BY <1>5, <1>6, <1>7, <2>1
    <2>2. CASE t = s
      BY <1>2, <1>5, <1>6, <1>7, <2>2
    <2> QED
      BY <2>1, <2>2
  <1>10. \A x \in rows : x.kind = "STANDARD" =>
           x.person = Segments[x.segment].person
    BY <1>3, <1>6 DEF PlacedFor
  <1>11. \A t \in old : Earlier(t, s)
    BY <1>2, <1>4, <1>6
  <1>12. ASSUME NEW t \in old
         PROVE  TargetYields(rows, t)
    BY <1>3, <1>5, <1>6, <1>11, StaysYielding
  <1>13. TargetYields(rows, s)
    <2>1. Unplaced(s) /\ \A x \in result : x.kind # "LOCKED" => x.segment \in old
      BY <1>1, <1>2, <1>5 DEF Progress, Unplaced
    <2>2. ASSUME NEW x \in result, x.kind = "STANDARD"
          PROVE  ~Earlier(s, x.segment)
      <3>1. PICK t \in old : t = x.segment
        BY <2>1, <2>2
      <3>2. PICK R : R = {p \in Pairs(Generable) : Earlier(p[1], p[2])}
        OBVIOUS
      <3>3. StrictOrder(R, Generable) /\ t \in Generable
        BY <1>1, <1>5, <3>2, EarlierIsOrder
      <3>4. <<t, s>> \in R
        BY <1>3, <1>11, <3>2, <3>3 DEF Pairs
      <3>5. <<s, t>> \notin R
        BY <1>3, <3>3, <3>4 DEF StrictOrder
      <3>6. <<s, t>> \in Pairs(Generable)
        BY <1>3, <3>3 DEF Pairs
      <3> QED
        BY <3>1, <3>2, <3>5, <3>6
    <2> QED
      BY <1>1, <1>3, <2>1, <2>2, PlacedYields
  <1>14. Yielding(next, rows)
    BY <1>5, <1>8, <1>9, <1>10, <1>12, <1>13 DEF Yielding
  <1> QED
    BY <1>2, <1>14

\* The snapshot stays, so operators of the next state are those of this one.
LEMMA YieldingOfTheNext ==
  ASSUME snapshot' = snapshot
  PROVE  Yielding(waiting, result)' <=> Yielding(waiting', result')
  <1>1. Segments' = Segments /\ Generable' = Generable
    BY DEF Segments, Generable, Active, Schedulable
  <1>2. ASSUME NEW s, NEW t
        PROVE  Earlier(s, t)' <=> Earlier(s, t)
    BY <1>1, Zenon DEF Earlier
  <1>3. ASSUME NEW p, NEW d
        PROVE  Capacity(p, d)' = Capacity(p, d)
    BY DEF Capacity
  <1>4. ASSUME NEW rows, NEW s
        PROVE  TargetYields(rows, s)' <=> TargetYields(rows, s)
    <2>1. \A d : UsedBefore(rows, s, d)' = UsedBefore(rows, s, d)
      BY <1>1, <1>2 DEF UsedBefore, UsedIn
    <2>2. Found(rows, s)' = Found(rows, s)
      BY <1>1, <1>3, <2>1 DEF Found, AutomaticOf
    <2>3. Needed(rows, s)' = Needed(rows, s)
      BY <1>1 DEF Needed, LockedIn
    <2> QED
      BY <1>1, <2>2, <2>3, Zenon DEF TargetYields, Yields, AutomaticOf, LockedIn,
         DaysOf
  <1>5. PICK list, rows : list = waiting' /\ rows = result'
    OBVIOUS
  <1>6. Yielding(list, rows)' <=> Yielding(list, rows)
    <2>1. Done(list)' = Done(list)
      BY <1>1 DEF Done
    <2> QED
      BY <1>1, <1>2, <1>4, <2>1, Zenon DEF Yielding
  <1>7. Yielding(waiting, result)' <=> Yielding(list, rows)'
    BY <1>5, Zenon DEF Yielding
  <1> QED
    BY <1>5, <1>6, <1>7

\* Each step keeps the targets.
LEMMA TargetsGoOn ==
  ASSUME TargetInv, [EngineNext]_engineVars
  PROVE  TargetInv'
  <1>1. EngineInv'
    BY EngineGoesOn DEF TargetInv
  <1>2. snapshot' = snapshot
    BY DEF EngineNext, BeginRebuild, PlaceSegment, PersistPlan, RefusePlan,
       engineVars
  <1>3. ASSUME phase' = "placing"
        PROVE  Yielding(waiting', result')
    <2>1. CASE UNCHANGED engineVars
      BY <1>3, <2>1 DEF TargetInv, engineVars
    <2>2. CASE BeginRebuild
      BY <2>2, BeginYielding DEF TargetInv
    <2>3. CASE PlaceSegment
      BY <2>3, StepYielding DEF TargetInv, PlaceSegment
    <2>4. CASE PersistPlan \/ RefusePlan
      BY <1>3, <2>4 DEF PersistPlan, RefusePlan
    <2> QED
      BY <2>1, <2>2, <2>3, <2>4 DEF EngineNext
  <1> QED
    BY <1>1, <1>2, <1>3, YieldingOfTheNext DEF TargetInv

\* A flexible segment is on more days than its target only if one day less
\* would not hold its hours, whatever is placed after it: each segment found
\* what those before it left, and those after it change nothing of that.
THEOREM TargetsGiveWay == EngineSpec => []TargetYieldsToCapacity
  <1>1. EngineInit => TargetInv
    BY EngineStarts DEF TargetInv, EngineInit
  <1>2. TargetInv /\ [EngineNext]_engineVars => TargetInv'
    BY TargetsGoOn
  <1>3. TargetInv => TargetYieldsToCapacity
    BY TargetsYield
  <1> QED
    BY <1>1, <1>2, <1>3, PTL DEF EngineSpec

=============================================================================
