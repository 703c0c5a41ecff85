----------------------------- MODULE FiniteFacts -----------------------------
(***************************************************************************)
(* Facts about finite sets that the proofs about this system share:        *)
(* induction, the number of each element in an order, and sums, as         *)
(* MapThenSumSet of FiniteSetsExt computes them, which takes out one       *)
(* element after the other.                                                *)
(*                                                                         *)
(* What is true of a set by induction is stated of a set of subsets, so    *)
(* that no fact here has an operator as a parameter.                       *)
(***************************************************************************)
EXTENDS Sorting, FiniteSetsExt, FiniteSetTheorems, FunctionTheorems,
        WellFoundedInduction, TLAPS

-----------------------------------------------------------------------------
(* Induction.                                                              *)

\* Some number of a set of numbers is the least.
LEMMA LeastNumber ==
  ASSUME NEW T, T \subseteq Nat, T # {}
  PROVE  \E x \in T : \A y \in T : x <= y
  <1> DEFINE R == {ss \in Nat \X Nat : ss[1] < ss[2]}
  <1>1. IsWellFoundedOn(R, Nat)
    BY NatLessThanWellFounded DEF OpToRel
  <1>2. PICK x \in T : \A y \in T : ~(<<y, x>> \in R)
    <2> HIDE DEF R
    <2> QED
      BY <1>1, WFMin
  <1>3. \A y \in T : ~(y < x)
    BY <1>2
  <1> QED
    BY <1>3

\* A set that has zero and with each number the next has all of them.
LEMMA NumberInduction ==
  ASSUME NEW S, 0 \in S, \A n \in Nat : n \in S => n + 1 \in S
  PROVE  Nat \subseteq S
  <1> SUFFICES ASSUME Nat \ S # {} PROVE FALSE
    OBVIOUS
  <1>1. PICK x \in Nat \ S : \A y \in Nat \ S : x <= y
    BY LeastNumber
  <1>2. x # 0 /\ x - 1 \in Nat /\ x - 1 + 1 = x
    BY <1>1
  <1>3. x - 1 \in S
    BY <1>1, <1>2
  <1> QED
    BY <1>1, <1>2, <1>3

\* One element less.
LEMMA OneLess ==
  ASSUME NEW T, IsFiniteSet(T), NEW a \in T
  PROVE  /\ IsFiniteSet(T \ {a}) /\ Cardinality(T) \in Nat \ {0}
         /\ Cardinality(T \ {a}) = Cardinality(T) - 1
         /\ Cardinality(T \ {a}) \in Nat
  <1>1. Cardinality(T) \in Nat /\ Cardinality(T) # 0
    BY FS_CardinalityType, FS_EmptySet
  <1>2. IsFiniteSet(T \ {a}) /\ Cardinality(T \ {a}) = Cardinality(T) - 1
    BY FS_RemoveElement
  <1> QED
    BY <1>1, <1>2

\* A collection of subsets that has the empty one, and with each subset what
\* is larger by one element, has the whole set.
LEMMA SubsetInduction ==
  ASSUME NEW S, IsFiniteSet(S), NEW P, {} \in P,
         \A T \in SUBSET S : \A a \in S \ T : T \in P => T \cup {a} \in P
  PROVE  S \in P
  <1> DEFINE N == {n \in Nat :
                     \A T \in SUBSET S : Cardinality(T) = n => T \in P}
  <1>1. \A T \in SUBSET S : IsFiniteSet(T)
    BY FS_Subset
  <1>2. 0 \in N
    BY <1>1, FS_EmptySet
  <1>3. ASSUME NEW n \in Nat, n \in N
        PROVE  n + 1 \in N
    <2> SUFFICES ASSUME NEW T \in SUBSET S, Cardinality(T) = n + 1
                 PROVE  T \in P
      OBVIOUS
    <2>1. T # {}
      BY <1>3, FS_EmptySet
    <2>2. PICK a \in T : TRUE
      BY <2>1
    <2>3. Cardinality(T \ {a}) = n
      BY <1>1, OneLess
    <2>4. T \ {a} \in P
      BY <1>3, <2>3
    <2>5. T = (T \ {a}) \cup {a} /\ a \in S \ (T \ {a})
      OBVIOUS
    <2> QED
      BY <2>4, <2>5
  <1> HIDE DEF N
  <1>4. Nat \subseteq N
    BY <1>2, <1>3, NumberInduction
  <1>5. Cardinality(S) \in Nat
    BY FS_CardinalityType
  <1> QED
    BY <1>4, <1>5 DEF N

-----------------------------------------------------------------------------
(* The sum.                                                                *)

One(T) == CHOOSE y \in T : TRUE

\* What each subset adds up to, one element after the other.
Step(p, f, T) == IF T = {} THEN 0 ELSE f[One(T)] + p[T \ {One(T)}]

Sums(p, f, S) == p = [T \in SUBSET S |-> Step(p, f, T)]

SumOf(f, S) == (CHOOSE p : Sums(p, f, S))[S]

\* The values of the elements are integers.
Values(f, S) == \A x \in S : f[x] \in Int

\* An element of a set that has one.
LEMMA OneIsElement ==
  ASSUME NEW T, T # {}
  PROVE  One(T) \in T
  BY DEF One

\* There are sums.
LEMMA SumsExist ==
  ASSUME NEW S, IsFiniteSet(S), NEW f, Values(f, S)
  PROVE  \E p : Sums(p, f, S)
  <1> DEFINE Space == [SUBSET S -> Int]
             Upto(p, n) == \A T \in SUBSET S :
                             Cardinality(T) <= n => p[T] = Step(p, f, T)
             N == {n \in Nat : \E p \in Space : Upto(p, n)}
  <1>1. \A T \in SUBSET S : IsFiniteSet(T) /\ Cardinality(T) \in Nat
    BY FS_Subset, FS_CardinalityType
  <1>2. 0 \in N
    <2> DEFINE p == [T \in SUBSET S |-> 0]
    <2>1. p \in Space
      OBVIOUS
    <2>2. Upto(p, 0)
      BY <1>1, FS_EmptySet DEF Step
    <2> QED
      BY <2>1, <2>2
  <1>3. ASSUME NEW n \in Nat, n \in N
        PROVE  n + 1 \in N
    <2>1. PICK p \in Space : Upto(p, n)
      BY <1>3
    <2> DEFINE q == [T \in SUBSET S |->
                       IF Cardinality(T) <= n THEN p[T] ELSE Step(p, f, T)]
    <2>2. ASSUME NEW T \in SUBSET S, T # {}
          PROVE  /\ One(T) \in T /\ T \ {One(T)} \in SUBSET S
                 /\ f[One(T)] \in Int
                 /\ Cardinality(T \ {One(T)}) = Cardinality(T) - 1
      <3>1. One(T) \in T
        BY <2>2, OneIsElement
      <3> QED
        BY <1>1, <3>1, OneLess DEF Values
    <2>3. ASSUME NEW T \in SUBSET S
          PROVE  Step(p, f, T) \in Int
      <3>1. CASE T = {}
        BY <3>1 DEF Step
      <3>2. CASE T # {}
        <4>1. PICK x : x = One(T)
          OBVIOUS
        <4>2. f[x] \in Int /\ p[T \ {x}] \in Int
          BY <2>2, <3>2, <4>1
        <4> QED
          BY <3>2, <4>1, <4>2 DEF Step
      <3> QED
        BY <3>1, <3>2
    <2>4. q \in Space
      BY <2>3
    <2>5. ASSUME NEW T \in SUBSET S, Cardinality(T) <= n + 1
          PROVE  q[T] = Step(q, f, T)
      <3>1. q[T] = Step(p, f, T)
        BY <2>1
      <3>2. CASE T = {}
        BY <3>1, <3>2 DEF Step
      <3>3. CASE T # {}
        <4>1. Cardinality(T \ {One(T)}) <= n /\ T \ {One(T)} \in SUBSET S
          BY <1>1, <2>2, <2>5, <3>3
        <4>2. q[T \ {One(T)}] = p[T \ {One(T)}]
          BY <4>1
        <4> HIDE DEF q
        <4> QED
          BY <3>1, <4>2 DEF Step
      <3> QED
        BY <3>2, <3>3
    <2>6. Upto(q, n + 1)
      BY <2>5
    <2> HIDE DEF q, Space, Upto
    <2> QED
      BY <2>4, <2>6
  <1> HIDE DEF N
  <1>4. Nat \subseteq N
    BY <1>2, <1>3, NumberInduction
  <1>5. Cardinality(S) \in Nat
    BY <1>1
  <1>6. PICK p \in Space : Upto(p, Cardinality(S))
    BY <1>4, <1>5 DEF N
  <1>7. \A T \in SUBSET S : Cardinality(T) <= Cardinality(S)
    BY FS_Subset
  <1>8. \A T \in SUBSET S : p[T] = Step(p, f, T)
    BY <1>6, <1>7
  <1>9. p = [T \in SUBSET S |-> Step(p, f, T)]
    BY <1>8
  <1> QED
    BY <1>9 DEF Sums

\* Sums are integers.
LEMMA SumsAreIntegers ==
  ASSUME NEW S, IsFiniteSet(S), NEW f, Values(f, S), NEW p, Sums(p, f, S)
  PROVE  p[{}] = 0 /\ \A T \in SUBSET S : p[T] \in Int
  <1> DEFINE N == {n \in Nat : \A T \in SUBSET S :
                     Cardinality(T) = n => p[T] \in Int}
  <1>1. \A T \in SUBSET S : IsFiniteSet(T) /\ Cardinality(T) \in Nat
    BY FS_Subset, FS_CardinalityType
  <1>2. \A T \in SUBSET S : p[T] = Step(p, f, T)
    BY DEF Sums
  <1>3. p[{}] = 0
    BY <1>2 DEF Step
  <1>4. 0 \in N
    BY <1>1, <1>3, FS_EmptySet
  <1>5. ASSUME NEW n \in Nat, n \in N
        PROVE  n + 1 \in N
    <2> SUFFICES ASSUME NEW T \in SUBSET S, Cardinality(T) = n + 1
                 PROVE  p[T] \in Int
      OBVIOUS
    <2>1. T # {}
      BY FS_EmptySet
    <2>2. PICK x \in T : x = One(T)
      BY <2>1, OneIsElement
    <2>3. p[T] = f[x] + p[T \ {x}]
      BY <1>2, <2>1, <2>2 DEF Step
    <2>4. Cardinality(T \ {x}) = n
      BY <1>1, OneLess
    <2>5. p[T \ {x}] \in Int /\ f[x] \in Int
      BY <1>5, <2>4 DEF Values
    <2> QED
      BY <2>3, <2>5
  <1> HIDE DEF N
  <1>6. Nat \subseteq N
    BY <1>4, <1>5, NumberInduction
  <1> QED
    BY <1>1, <1>3, <1>6 DEF N

\* Any element may be taken out first.
LEMMA SumsTakeOut ==
  ASSUME NEW S, IsFiniteSet(S), NEW f, Values(f, S), NEW p, Sums(p, f, S)
  PROVE  \A T \in SUBSET S : \A a \in T : p[T] = f[a] + p[T \ {a}]
  <1> DEFINE Good(T) == \A a \in T : p[T] = f[a] + p[T \ {a}]
             N == {n \in Nat :
                     \A T \in SUBSET S : Cardinality(T) = n => Good(T)}
  <1>1. \A T \in SUBSET S : IsFiniteSet(T) /\ Cardinality(T) \in Nat
    BY FS_Subset, FS_CardinalityType
  <1>2. \A T \in SUBSET S : p[T] = Step(p, f, T)
    BY DEF Sums
  <1>4. 0 \in N
    BY <1>1, FS_EmptySet
  <1>5. ASSUME NEW n \in Nat, n \in N
        PROVE  n + 1 \in N
    <2> SUFFICES ASSUME NEW T \in SUBSET S, Cardinality(T) = n + 1
                 PROVE  Good(T)
      OBVIOUS
    <2>1. T # {}
      BY FS_EmptySet
    <2>2. PICK x \in T : x = One(T)
      BY <2>1, OneIsElement
    <2>3. p[T] = f[x] + p[T \ {x}]
      BY <1>2, <2>1, <2>2 DEF Step
    <2>4. \A a \in T : /\ T \ {a} \in SUBSET S /\ Good(T \ {a})
                       /\ f[a] \in Int /\ p[T \ {a}] \in Int
      <3> SUFFICES ASSUME NEW a \in T
                   PROVE  /\ T \ {a} \in SUBSET S /\ Good(T \ {a})
                          /\ f[a] \in Int /\ p[T \ {a}] \in Int
        OBVIOUS
      <3>1. Cardinality(T \ {a}) = n
        BY <1>1, OneLess
      <3> QED
        BY <1>5, <3>1, SumsAreIntegers DEF Values
    <2>5. ASSUME NEW a \in T
          PROVE  p[T] = f[a] + p[T \ {a}]
      <3>1. CASE a = x
        BY <2>3, <3>1
      <3>2. CASE a # x
        <4>1. p[T \ {x}] = f[a] + p[(T \ {x}) \ {a}]
          BY <2>4, <3>2
        <4>2. p[T \ {a}] = f[x] + p[(T \ {a}) \ {x}]
          BY <2>4, <3>2
        <4>3. (T \ {x}) \ {a} = (T \ {a}) \ {x}
          OBVIOUS
        <4>4. f[a] \in Int /\ f[x] \in Int /\ p[T \ {a}] \in Int
              /\ p[T \ {x}] \in Int
          BY <2>4
        <4>5. PICK u, v, w, y, z : /\ u = p[T \ {x}] /\ v = p[T \ {a}]
                                   /\ w = p[(T \ {a}) \ {x}]
                                   /\ y = f[a] /\ z = f[x]
          OBVIOUS
        <4>6. u = y + w /\ v = z + w
          BY <4>1, <4>2, <4>3, <4>5
        <4>7. w \in Int
          BY <4>5, SumsAreIntegers
        <4> QED
          BY <2>3, <4>4, <4>5, <4>6, <4>7
      <3> QED
        BY <3>1, <3>2
    <2> QED
      BY <2>5
  <1> HIDE DEF N
  <1>6. Nat \subseteq N
    BY <1>4, <1>5, NumberInduction
  <1>7. \A T \in SUBSET S : Good(T)
    BY <1>1, <1>6 DEF N
  <1> QED
    BY <1>7

-----------------------------------------------------------------------------
(* What the sum is.                                                        *)

\* Two ways to add up agree.
LEMMA SumsAgree ==
  ASSUME NEW S, IsFiniteSet(S), NEW R, IsFiniteSet(R), NEW f,
         Values(f, S), Values(f, R), NEW p, Sums(p, f, S), NEW q, Sums(q, f, R),
         NEW T, T \subseteq S, T \subseteq R
  PROVE  p[T] = q[T]
  <1> DEFINE P == {U \in SUBSET T : p[U] = q[U]}
  <1>1. IsFiniteSet(T)
    BY FS_Subset
  <1>2. {} \in P
    BY SumsAreIntegers
  <1>3. ASSUME NEW U \in SUBSET T, NEW a \in T \ U, U \in P
        PROVE  U \cup {a} \in P
    <2>1. (U \cup {a}) \ {a} = U
      OBVIOUS
    <2>2. p[U \cup {a}] = f[a] + p[U]
      <3>1. U \cup {a} \in SUBSET S /\ a \in U \cup {a}
        OBVIOUS
      <3> QED
        BY <2>1, <3>1, SumsTakeOut
    <2>3. q[U \cup {a}] = f[a] + q[U]
      <3>1. U \cup {a} \in SUBSET R /\ a \in U \cup {a}
        OBVIOUS
      <3> QED
        BY <2>1, <3>1, SumsTakeOut
    <2> QED
      BY <1>3, <2>2, <2>3
  <1> HIDE DEF P
  <1>4. T \in P
    BY <1>1, <1>2, <1>3, SubsetInduction
  <1> QED
    BY <1>4 DEF P

\* However it is added up, it is the sum.
LEMMA SumsGive ==
  ASSUME NEW S, IsFiniteSet(S), NEW f, Values(f, S), NEW p, Sums(p, f, S),
         NEW T, T \subseteq S
  PROVE  p[T] = SumOf(f, T)
  <1>1. IsFiniteSet(T) /\ Values(f, T)
    BY FS_Subset DEF Values
  <1>2. \E q : Sums(q, f, T)
    BY <1>1, SumsExist
  <1>3. PICK q : Sums(q, f, T) /\ SumOf(f, T) = q[T]
    BY <1>2 DEF SumOf
  <1> QED
    BY <1>1, <1>3, SumsAgree

\* Nothing adds up to zero.
LEMMA SumNothing ==
  ASSUME NEW f
  PROVE  SumOf(f, {}) = 0
  <1>1. IsFiniteSet({}) /\ Values(f, {})
    BY FS_EmptySet DEF Values
  <1>2. PICK p : Sums(p, f, {})
    BY <1>1, SumsExist
  <1>3. p[{}] = SumOf(f, {})
    BY <1>1, <1>2, SumsGive
  <1> QED
    BY <1>1, <1>2, <1>3, SumsAreIntegers

\* A sum is an integer.
LEMMA SumInteger ==
  ASSUME NEW S, IsFiniteSet(S), NEW f, Values(f, S)
  PROVE  SumOf(f, S) \in Int
  <1>1. PICK p : Sums(p, f, S)
    BY SumsExist
  <1>2. p[S] = SumOf(f, S)
    BY <1>1, SumsGive
  <1> QED
    BY <1>1, <1>2, SumsAreIntegers

\* Any element may be taken out.
LEMMA SumTakes ==
  ASSUME NEW S, IsFiniteSet(S), NEW f, Values(f, S), NEW a \in S
  PROVE  /\ SumOf(f, S) = f[a] + SumOf(f, S \ {a})
         /\ IsFiniteSet(S \ {a}) /\ Values(f, S \ {a})
         /\ SumOf(f, S \ {a}) \in Int /\ f[a] \in Int
  <1>1. PICK p : Sums(p, f, S)
    BY SumsExist
  <1>2. p[S] = SumOf(f, S) /\ p[S \ {a}] = SumOf(f, S \ {a})
    BY <1>1, SumsGive
  <1>3. p[S] = f[a] + p[S \ {a}]
    BY <1>1, SumsTakeOut
  <1>4. IsFiniteSet(S \ {a}) /\ Values(f, S \ {a}) /\ f[a] \in Int
    BY FS_Subset DEF Values
  <1> QED
    BY <1>2, <1>3, <1>4, SumInteger

\* Any element may be put in.
LEMMA SumPuts ==
  ASSUME NEW S, IsFiniteSet(S), NEW f, Values(f, S), NEW T \in SUBSET S,
         NEW a \in S \ T
  PROVE  /\ SumOf(f, T \cup {a}) = f[a] + SumOf(f, T)
         /\ SumOf(f, T) \in Int /\ f[a] \in Int
  <1>1. IsFiniteSet(T \cup {a}) /\ Values(f, T \cup {a})
    BY FS_Subset DEF Values
  <1>2. (T \cup {a}) \ {a} = T /\ a \in T \cup {a}
    OBVIOUS
  <1> QED
    BY <1>1, <1>2, SumTakes

\* Elements with equal values add up to the same.
LEMMA SumAlike ==
  ASSUME NEW S, IsFiniteSet(S), NEW f, Values(f, S), NEW g,
         \A x \in S : g[x] = f[x]
  PROVE  SumOf(g, S) = SumOf(f, S)
  <1> DEFINE P == {T \in SUBSET S : SumOf(g, T) = SumOf(f, T)}
  <1>1. Values(g, S)
    BY DEF Values
  <1>2. {} \in P
    BY SumNothing
  <1>3. ASSUME NEW T \in SUBSET S, NEW a \in S \ T, T \in P
        PROVE  T \cup {a} \in P
    <2>1. SumOf(f, T \cup {a}) = f[a] + SumOf(f, T)
      BY SumPuts
    <2>2. SumOf(g, T \cup {a}) = g[a] + SumOf(g, T)
      BY <1>1, SumPuts
    <2> QED
      BY <1>3, <2>1, <2>2
  <1> HIDE DEF P
  <1>4. S \in P
    BY <1>2, <1>3, SubsetInduction
  <1> QED
    BY <1>4 DEF P

\* The sum of sums.
LEMMA SumAdds ==
  ASSUME NEW S, IsFiniteSet(S), NEW f, Values(f, S), NEW g, Values(g, S),
         NEW h, \A x \in S : h[x] = f[x] + g[x]
  PROVE  SumOf(h, S) = SumOf(f, S) + SumOf(g, S)
  <1> DEFINE P == {T \in SUBSET S : SumOf(h, T) = SumOf(f, T) + SumOf(g, T)}
  <1>1. Values(h, S)
    BY DEF Values
  <1>2. {} \in P
    BY SumNothing
  <1>3. ASSUME NEW T \in SUBSET S, NEW a \in S \ T, T \in P
        PROVE  T \cup {a} \in P
    <2>1. /\ SumOf(f, T \cup {a}) = f[a] + SumOf(f, T)
          /\ SumOf(f, T) \in Int /\ f[a] \in Int
      BY SumPuts
    <2>2. /\ SumOf(g, T \cup {a}) = g[a] + SumOf(g, T)
          /\ SumOf(g, T) \in Int /\ g[a] \in Int
      BY SumPuts
    <2>3. SumOf(h, T \cup {a}) = h[a] + SumOf(h, T)
      BY <1>1, SumPuts
    <2>4. SumOf(h, T) = SumOf(f, T) + SumOf(g, T) /\ h[a] = f[a] + g[a]
      BY <1>3
    <2>5. PICK u, v, x, y : /\ u = SumOf(f, T) /\ v = SumOf(g, T)
                            /\ x = f[a] /\ y = g[a]
      OBVIOUS
    <2>6. (x + y) + (u + v) = (x + u) + (y + v)
      BY <2>1, <2>2, <2>5
    <2>7. SumOf(h, T \cup {a}) = SumOf(f, T \cup {a}) + SumOf(g, T \cup {a})
      BY <2>1, <2>2, <2>3, <2>4, <2>5, <2>6
    <2> QED
      BY <2>7
  <1> HIDE DEF P
  <1>4. S \in P
    BY <1>2, <1>3, SubsetInduction
  <1> QED
    BY <1>4 DEF P

\* Zeros add up to zero.
LEMMA SumZero ==
  ASSUME NEW S, IsFiniteSet(S), NEW f, \A x \in S : f[x] = 0
  PROVE  SumOf(f, S) = 0
  <1> DEFINE P == {T \in SUBSET S : SumOf(f, T) = 0}
  <1>1. Values(f, S)
    BY DEF Values
  <1>2. {} \in P
    BY SumNothing
  <1>3. ASSUME NEW T \in SUBSET S, NEW a \in S \ T, T \in P
        PROVE  T \cup {a} \in P
    <2>1. SumOf(f, T \cup {a}) = f[a] + SumOf(f, T) /\ f[a] = 0
      BY <1>1, SumPuts
    <2> QED
      BY <1>3, <2>1
  <1> HIDE DEF P
  <1>4. S \in P
    BY <1>2, <1>3, SubsetInduction
  <1> QED
    BY <1>4 DEF P

\* Elements that are zero may be left out.
LEMMA SumWithin ==
  ASSUME NEW S, IsFiniteSet(S), NEW f, Values(f, S), NEW R, R \subseteq S,
         \A x \in S \ R : f[x] = 0
  PROVE  SumOf(f, S) = SumOf(f, R)
  <1> DEFINE P == {T \in SUBSET S : SumOf(f, T) = SumOf(f, T \cap R)}
  <1>2. {} \in P
    OBVIOUS
  <1>3. ASSUME NEW T \in SUBSET S, NEW a \in S \ T, T \in P
        PROVE  T \cup {a} \in P
    <2>1. /\ SumOf(f, T \cup {a}) = f[a] + SumOf(f, T)
          /\ SumOf(f, T) \in Int /\ f[a] \in Int
      BY SumPuts
    <2>2. CASE a \in R
      <3>1. (T \cup {a}) \cap R = (T \cap R) \cup {a}
        BY <2>2
      <3>2. T \cap R \in SUBSET S /\ a \in S \ (T \cap R)
        OBVIOUS
      <3>3. PICK U \in SUBSET S : U = T \cap R
        BY <3>2
      <3>4. SumOf(f, U \cup {a}) = f[a] + SumOf(f, U)
        BY <3>2, <3>3, SumPuts
      <3> QED
        BY <1>3, <2>1, <3>1, <3>3, <3>4
    <2>3. CASE a \notin R
      <3>1. (T \cup {a}) \cap R = T \cap R /\ f[a] = 0
        BY <2>3
      <3>2. SumOf(f, T \cup {a}) = SumOf(f, T)
        BY <2>1, <3>1
      <3> QED
        BY <1>3, <3>1, <3>2
    <2> QED
      BY <2>2, <2>3
  <1> HIDE DEF P
  <1>4. S \in P
    BY <1>2, <1>3, SubsetInduction
  <1>5. S \cap R = R
    OBVIOUS
  <1> QED
    BY <1>4, <1>5 DEF P

\* What a function gives for finitely many arguments.
LEMMA ImageIsFinite ==
  ASSUME NEW S, IsFiniteSet(S), NEW m
  PROVE  IsFiniteSet({m[x] : x \in S})
  <1> DEFINE P == {T \in SUBSET S : IsFiniteSet({m[x] : x \in T})}
  <1>1. {} \in P
    <2>1. {m[x] : x \in {}} = {}
      OBVIOUS
    <2> QED
      BY <2>1, FS_EmptySet
  <1>2. ASSUME NEW T \in SUBSET S, NEW a \in S \ T, T \in P
        PROVE  T \cup {a} \in P
    <2>1. {m[x] : x \in T \cup {a}} = {m[x] : x \in T} \cup {m[a]}
      OBVIOUS
    <2>2. PICK U : U = {m[x] : x \in T}
      OBVIOUS
    <2>3. IsFiniteSet(U \cup {m[a]})
      BY <1>2, <2>2, FS_AddElement
    <2> QED
      BY <2>1, <2>2, <2>3
  <1> HIDE DEF P
  <1>3. S \in P
    BY <1>1, <1>2, SubsetInduction
  <1> QED
    BY <1>3 DEF P

\* A sum over what an injection gives is one over what it is given.
LEMMA SumMapped ==
  ASSUME NEW S, IsFiniteSet(S), NEW g, Values(g, S), NEW m, NEW f,
         \A x, y \in S : m[x] = m[y] => x = y,
         \A x \in S : f[m[x]] = g[x]
  PROVE  SumOf(f, {m[x] : x \in S}) = SumOf(g, S)
  <1> DEFINE Image(T) == {m[x] : x \in T}
             P == {T \in SUBSET S : SumOf(f, Image(T)) = SumOf(g, T)}
  <1>1. IsFiniteSet(Image(S)) /\ Values(f, Image(S))
    BY ImageIsFinite DEF Values
  <1>2. {} \in P
    <2>1. Image({}) = {}
      OBVIOUS
    <2> QED
      BY <2>1, SumNothing
  <1>3. ASSUME NEW T \in SUBSET S, NEW a \in S \ T, T \in P
        PROVE  T \cup {a} \in P
    <2>1. SumOf(g, T \cup {a}) = g[a] + SumOf(g, T)
      BY SumPuts
    <2>2. Image(T \cup {a}) = Image(T) \cup {m[a]}
      OBVIOUS
    <2>3. Image(T) \in SUBSET Image(S) /\ m[a] \in Image(S) \ Image(T)
      OBVIOUS
    <2>4. SumOf(f, Image(T) \cup {m[a]}) = f[m[a]] + SumOf(f, Image(T))
      <3> HIDE DEF Image
      <3> QED
        BY <1>1, <2>3, SumPuts
    <2>5. SumOf(f, Image(T)) = SumOf(g, T) /\ f[m[a]] = g[a]
      BY <1>3
    <2>6. SumOf(f, Image(T \cup {a})) = SumOf(g, T \cup {a})
      BY <2>1, <2>2, <2>4, <2>5
    <2> QED
      BY <2>6
  <1> HIDE DEF P
  <1>4. S \in P
    BY <1>2, <1>3, SubsetInduction
  <1> QED
    BY <1>4 DEF P

\* A table adds up to the same by rows and by columns.
LEMMA SumExchange ==
  ASSUME NEW S, IsFiniteSet(S), NEW R, IsFiniteSet(R), NEW t,
         \A x \in S, y \in R : t[x][y] \in Int
  PROVE  SumOf([y \in R |-> SumOf([x \in S |-> t[x][y]], S)], R)
           = SumOf([x \in S |-> SumOf(t[x], R)], S)
  <1> DEFINE Column(y) == [x \in S |-> t[x][y]]
             Across(T) == [y \in R |-> SumOf(Column(y), T)]
             Down == [x \in S |-> SumOf(t[x], R)]
             P == {T \in SUBSET S : SumOf(Across(T), R) = SumOf(Down, T)}
  <1>1. \A y \in R : Values(Column(y), S)
    BY DEF Values
  <1>2. \A x \in S : Values(t[x], R) /\ SumOf(t[x], R) \in Int
    BY SumInteger DEF Values
  <1>3. Values(Down, S)
    BY <1>2 DEF Values
  <1>4. {} \in P
    <2>1. \A y \in R : Across({})[y] = 0
      BY SumNothing
    <2>2. SumOf(Across({}), R) = 0
      <3> HIDE DEF Across
      <3> QED
        BY <2>1, SumZero
    <2> HIDE DEF Across, Down
    <2> QED
      BY <2>2, SumNothing
  <1>5. ASSUME NEW T \in SUBSET S, NEW a \in S \ T, T \in P
        PROVE  T \cup {a} \in P
    <2>1. ASSUME NEW y \in R
          PROVE  /\ Across(T \cup {a})[y] = t[a][y] + Across(T)[y]
                 /\ Across(T)[y] \in Int
      <3>1. /\ SumOf(Column(y), T \cup {a}) = Column(y)[a] + SumOf(Column(y), T)
            /\ SumOf(Column(y), T) \in Int
        <4> HIDE DEF Column
        <4> QED
          BY <1>1, SumPuts
      <3> QED
        BY <3>1
    <2>2. Values(Across(T), R)
      <3> HIDE DEF Across
      <3> QED
        BY <2>1 DEF Values
    <2>3. SumOf(Across(T \cup {a}), R) = SumOf(t[a], R) + SumOf(Across(T), R)
      <3> HIDE DEF Across
      <3> QED
        BY <1>2, <2>1, <2>2, SumAdds
    <2>4. SumOf(Down, T \cup {a}) = SumOf(t[a], R) + SumOf(Down, T)
      <3>1. Down[a] = SumOf(t[a], R)
        OBVIOUS
      <3> HIDE DEF Down
      <3> QED
        BY <1>3, <3>1, SumPuts
    <2> HIDE DEF Across, Down
    <2> QED
      BY <1>5, <2>3, <2>4
  <1> HIDE DEF P
  <1>6. S \in P
    BY <1>4, <1>5, SubsetInduction
  <1> QED
    BY <1>6 DEF P

\* Smaller values add up to less.
LEMMA SumAtMost ==
  ASSUME NEW S, IsFiniteSet(S), NEW f, Values(f, S), NEW g, Values(g, S),
         \A x \in S : f[x] <= g[x]
  PROVE  SumOf(f, S) <= SumOf(g, S)
  <1> DEFINE P == {T \in SUBSET S : SumOf(f, T) <= SumOf(g, T)}
  <1>1. {} \in P
    BY SumNothing
  <1>2. ASSUME NEW T \in SUBSET S, NEW a \in S \ T, T \in P
        PROVE  T \cup {a} \in P
    <2>1. /\ SumOf(f, T \cup {a}) = f[a] + SumOf(f, T)
          /\ SumOf(f, T) \in Int /\ f[a] \in Int
      BY SumPuts
    <2>2. /\ SumOf(g, T \cup {a}) = g[a] + SumOf(g, T)
          /\ SumOf(g, T) \in Int /\ g[a] \in Int
      BY SumPuts
    <2>3. SumOf(f, T) <= SumOf(g, T) /\ f[a] <= g[a]
      BY <1>2
    <2>4. f[a] + SumOf(f, T) <= g[a] + SumOf(g, T)
      BY <2>1, <2>2, <2>3
    <2> QED
      BY <2>1, <2>2, <2>4
  <1> HIDE DEF P
  <1>3. S \in P
    BY <1>1, <1>2, SubsetInduction
  <1> QED
    BY <1>3 DEF P

\* Values that are not negative add up to what is not.
LEMMA SumNatural ==
  ASSUME NEW S, IsFiniteSet(S), NEW f, \A x \in S : f[x] \in Nat
  PROVE  Values(f, S) /\ SumOf(f, S) \in Nat
  <1>1. PICK zero : zero = [x \in S |-> 0]
    OBVIOUS
  <1>2. Values(f, S) /\ Values(zero, S) /\ \A x \in S : zero[x] <= f[x]
    BY <1>1 DEF Values
  <1>3. SumOf(zero, S) = 0
    BY <1>1, SumZero
  <1>4. SumOf(zero, S) <= SumOf(f, S)
    BY <1>2, SumAtMost
  <1> QED
    BY <1>2, <1>3, <1>4, SumInteger

\* A factor may be taken out.
LEMMA SumScaled ==
  ASSUME NEW S, IsFiniteSet(S), NEW f, Values(f, S), NEW c \in Int,
         NEW g, \A x \in S : g[x] = c * f[x]
  PROVE  SumOf(g, S) = c * SumOf(f, S)
  <1> DEFINE P == {T \in SUBSET S : SumOf(g, T) = c * SumOf(f, T)}
  <1>1. Values(g, S)
    BY DEF Values
  <1>2. {} \in P
    BY SumNothing
  <1>3. ASSUME NEW T \in SUBSET S, NEW a \in S \ T, T \in P
        PROVE  T \cup {a} \in P
    <2>1. /\ SumOf(f, T \cup {a}) = f[a] + SumOf(f, T)
          /\ SumOf(f, T) \in Int /\ f[a] \in Int
      BY SumPuts
    <2>2. SumOf(g, T \cup {a}) = g[a] + SumOf(g, T)
      BY <1>1, SumPuts
    <2>3. SumOf(g, T) = c * SumOf(f, T) /\ g[a] = c * f[a]
      BY <1>3
    <2>4. PICK u, x : u = SumOf(f, T) /\ x = f[a]
      OBVIOUS
    <2>5. c * x + c * u = c * (x + u)
      BY <2>1, <2>4
    <2>6. SumOf(g, T \cup {a}) = c * SumOf(f, T \cup {a})
      BY <2>1, <2>2, <2>3, <2>4, <2>5
    <2> QED
      BY <2>6
  <1> HIDE DEF P
  <1>4. S \in P
    BY <1>2, <1>3, SubsetInduction
  <1> QED
    BY <1>4 DEF P

\* Two parts add up to the whole.
LEMMA SumParts ==
  ASSUME NEW S, IsFiniteSet(S), NEW f, Values(f, S), NEW R, R \subseteq S
  PROVE  /\ SumOf(f, S) = SumOf(f, R) + SumOf(f, S \ R)
         /\ SumOf(f, R) \in Int /\ SumOf(f, S \ R) \in Int
  <1>1. /\ IsFiniteSet(R) /\ Values(f, R)
        /\ IsFiniteSet(S \ R) /\ Values(f, S \ R)
    BY FS_Subset DEF Values
  <1> DEFINE P == {T \in SUBSET R :
                     SumOf(f, T \cup (S \ R)) = SumOf(f, T) + SumOf(f, S \ R)}
  <1>2. {} \in P
    <2>1. {} \cup (S \ R) = S \ R /\ SumOf(f, S \ R) \in Int
      BY <1>1, SumInteger
    <2>2. SumOf(f, {}) = 0
      BY SumNothing
    <2> QED
      BY <2>1, <2>2
  <1>3. ASSUME NEW T \in SUBSET R, NEW a \in R \ T, T \in P
        PROVE  T \cup {a} \in P
    <2>1. /\ SumOf(f, T \cup {a}) = f[a] + SumOf(f, T)
          /\ SumOf(f, T) \in Int /\ f[a] \in Int
      BY <1>1, SumPuts
    <2>2. PICK U \in SUBSET S : U = T \cup (S \ R)
      OBVIOUS
    <2>3. a \in S \ U /\ (T \cup {a}) \cup (S \ R) = U \cup {a}
      BY <2>2
    <2>4. SumOf(f, U \cup {a}) = f[a] + SumOf(f, U)
      BY <2>3, SumPuts
    <2>5. SumOf(f, U) = SumOf(f, T) + SumOf(f, S \ R)
      BY <1>3, <2>2
    <2>6. SumOf(f, S \ R) \in Int
      BY <1>1, SumInteger
    <2>7. PICK u, v, x : /\ u = SumOf(f, T) /\ v = SumOf(f, S \ R)
                         /\ x = f[a]
      OBVIOUS
    <2>8. x + (u + v) = (x + u) + v
      BY <2>1, <2>6, <2>7
    <2>9. SumOf(f, (T \cup {a}) \cup (S \ R))
            = SumOf(f, T \cup {a}) + SumOf(f, S \ R)
      BY <2>1, <2>3, <2>4, <2>5, <2>7, <2>8
    <2> QED
      BY <2>9
  <1> HIDE DEF P
  <1>4. R \in P
    BY <1>1, <1>2, <1>3, SubsetInduction
  <1>5. R \cup (S \ R) = S
    OBVIOUS
  <1> QED
    BY <1>1, <1>4, <1>5, SumInteger DEF P

-----------------------------------------------------------------------------
(* The sums of the community modules.                                      *)

\* The function of subsets in which they add up a function.
Parts(f, S) ==
  CHOOSE part : part = [T \in SUBSET S |->
                          IF T = {} THEN 0
                          ELSE f[CHOOSE y \in T : TRUE]
                                 + part[T \ {CHOOSE y \in T : TRUE}]]

\* What they add up a function to is its sum.
LEMMA PartsGive ==
  ASSUME NEW S, IsFiniteSet(S), NEW f, Values(f, S)
  PROVE  Parts(f, S)[S] = SumOf(f, S)
  <1>1. \E p : Sums(p, f, S)
    BY SumsExist
  <1>2. Sums(Parts(f, S), f, S)
    BY <1>1, Zenon DEF Sums, Step, One, Parts
  <1> QED
    BY <1>2, SumsGive

-----------------------------------------------------------------------------
(* A set from which elements are cut as long as there are some to cut.     *)

Cuts(cut, S) == \A T \in SUBSET S : cut[T] \subseteq T

\* What is left of each subset.
CutDown(p, cut, S) ==
  p = [T \in SUBSET S |-> IF cut[T] = {} THEN T ELSE p[T \ cut[T]]]

\* What is left exists.
LEMMA CutDownExists ==
  ASSUME NEW S, IsFiniteSet(S), NEW cut, Cuts(cut, S)
  PROVE  \E p : CutDown(p, cut, S)
  <1> DEFINE Less(p, T) == IF cut[T] = {} THEN T ELSE p[T \ cut[T]]
             Upto(p, n) == \A T \in SUBSET S :
                             Cardinality(T) <= n => p[T] = Less(p, T)
             N == {n \in Nat : \E p \in [SUBSET S -> SUBSET S] : Upto(p, n)}
  <1>1. \A T \in SUBSET S : IsFiniteSet(T) /\ Cardinality(T) \in Nat
    BY FS_Subset, FS_CardinalityType
  <1>2. ASSUME NEW T \in SUBSET S, cut[T] # {}
        PROVE  /\ T \ cut[T] \in SUBSET S
               /\ Cardinality(T \ cut[T]) \in Nat
               /\ Cardinality(T \ cut[T]) < Cardinality(T)
    <2>1. T \ cut[T] \in SUBSET T /\ T \ cut[T] # T
      BY <1>2 DEF Cuts
    <2>2. Cardinality(T \ cut[T]) < Cardinality(T)
      BY <1>1, <2>1, FS_Subset, FS_CardinalityType
    <2> QED
      BY <1>1, <2>1, <2>2
  <1>3. 0 \in N
    <2> DEFINE p == [T \in SUBSET S |-> T]
    <2>1. p \in [SUBSET S -> SUBSET S]
      OBVIOUS
    <2>2. Upto(p, 0)
      <3> SUFFICES ASSUME NEW T \in SUBSET S, Cardinality(T) <= 0
                   PROVE  p[T] = Less(p, T)
        OBVIOUS
      <3>1. T = {}
        BY <1>1, FS_EmptySet
      <3>2. cut[T] = {}
        BY <3>1 DEF Cuts
      <3> QED
        BY <3>2
    <2> QED
      BY <2>1, <2>2
  <1>4. ASSUME NEW n \in Nat, n \in N
        PROVE  n + 1 \in N
    <2>1. PICK p \in [SUBSET S -> SUBSET S] : Upto(p, n)
      BY <1>4
    <2> DEFINE q == [T \in SUBSET S |->
                       IF Cardinality(T) <= n THEN p[T] ELSE Less(p, T)]
    <2>2. \A T \in SUBSET S : Less(p, T) \in SUBSET S
      OBVIOUS
    <2>3. q \in [SUBSET S -> SUBSET S]
      BY <2>2
    <2>4. ASSUME NEW T \in SUBSET S, Cardinality(T) <= n + 1
          PROVE  q[T] = Less(q, T)
      <3>1. q[T] = Less(p, T)
        BY <2>1
      <3>2. CASE cut[T] = {}
        BY <3>1, <3>2
      <3>3. CASE cut[T] # {}
        <4>1. PICK U \in SUBSET S : U = T \ cut[T]
          BY <1>2, <3>3
        <4>2. Cardinality(U) <= n
          BY <1>1, <1>2, <2>4, <3>3, <4>1
        <4>3. q[U] = p[U]
          BY <4>2
        <4> HIDE DEF q
        <4> QED
          BY <3>1, <3>3, <4>1, <4>3
      <3> QED
        BY <3>2, <3>3
    <2>5. Upto(q, n + 1)
      BY <2>4
    <2> HIDE DEF q, Upto
    <2> QED
      BY <2>3, <2>5
  <1> HIDE DEF N
  <1>5. Nat \subseteq N
    BY <1>3, <1>4, NumberInduction
  <1>6. PICK p \in [SUBSET S -> SUBSET S] : Upto(p, Cardinality(S))
    BY <1>1, <1>5 DEF N
  <1>7. \A T \in SUBSET S : Cardinality(T) <= Cardinality(S)
    BY FS_Subset
  <1>8. p = [T \in SUBSET S |-> Less(p, T)]
    BY <1>6, <1>7
  <1> QED
    BY <1>8 DEF CutDown

\* No cut leads out of a collection.
Keeps(I, cut, S) == \A T \in SUBSET S : T \in I => T \ cut[T] \in I

\* Nothing is left to be cut, and what each cut keeps is kept.
LEMMA CutDownEnds ==
  ASSUME NEW S, IsFiniteSet(S), NEW cut, Cuts(cut, S),
         NEW p, CutDown(p, cut, S),
         NEW I, Keeps(I, cut, S), S \in I
  PROVE  p[S] \in I /\ p[S] \in SUBSET S /\ cut[p[S]] = {}
  <1> DEFINE Good(T) == p[T] \in I /\ p[T] \in SUBSET S /\ cut[p[T]] = {}
             N == {n \in Nat : \A T \in SUBSET S :
                     Cardinality(T) <= n /\ T \in I => Good(T)}
  <1>1. \A T \in SUBSET S : IsFiniteSet(T) /\ Cardinality(T) \in Nat
    BY FS_Subset, FS_CardinalityType
  <1>2. \A T \in SUBSET S : p[T] = IF cut[T] = {} THEN T ELSE p[T \ cut[T]]
    BY DEF CutDown
  <1>3. 0 \in N
    <2> SUFFICES ASSUME NEW T \in SUBSET S, Cardinality(T) <= 0, T \in I
                 PROVE  Good(T)
      OBVIOUS
    <2>1. T = {}
      BY <1>1, FS_EmptySet
    <2>2. cut[T] = {}
      BY <2>1 DEF Cuts
    <2> QED
      BY <1>2, <2>2
  <1>4. ASSUME NEW n \in Nat, n \in N
        PROVE  n + 1 \in N
    <2> SUFFICES ASSUME NEW T \in SUBSET S, Cardinality(T) <= n + 1, T \in I
                 PROVE  Good(T)
      OBVIOUS
    <2>1. CASE cut[T] = {}
      BY <1>2, <2>1
    <2>2. CASE cut[T] # {}
      <3>1. PICK U : U = T \ cut[T]
        OBVIOUS
      <3>2. U \in SUBSET T /\ U # T
        BY <2>2, <3>1 DEF Cuts
      <3>3. Cardinality(U) < Cardinality(T)
        BY <1>1, <3>2, FS_Subset, FS_CardinalityType
      <3>4. U \in SUBSET S /\ Cardinality(U) <= n /\ U \in I
        BY <1>1, <3>1, <3>2, <3>3 DEF Keeps
      <3>5. Good(U)
        BY <1>4, <3>4
      <3> QED
        BY <1>2, <2>2, <3>1, <3>5
    <2> QED
      BY <2>1, <2>2
  <1> HIDE DEF N
  <1>5. Nat \subseteq N
    BY <1>3, <1>4, NumberInduction
  <1>6. Cardinality(S) \in N
    BY <1>1, <1>5
  <1>7. Cardinality(S) \in Nat
    BY <1>1
  <1> QED
    BY <1>6, <1>7 DEF N

-----------------------------------------------------------------------------
(* Ranks in a finite set with a strict order.                              *)

StrictOrder(R, S) ==
  /\ \A s \in S : <<s, s>> \notin R
  /\ \A s, t, u \in S : <<s, t>> \in R /\ <<t, u>> \in R => <<s, u>> \in R
  /\ \A s, t \in S : s # t => <<s, t>> \in R \/ <<t, s>> \in R

Rank(R, S) == [s \in S |-> 1 + Cardinality({t \in S : <<t, s>> \in R})]

\* What comes earlier has the smaller rank.
LEMMA RankIncreases ==
  ASSUME NEW S, IsFiniteSet(S), NEW R, StrictOrder(R, S),
         NEW s \in S, NEW t \in S, <<s, t>> \in R
  PROVE  /\ Rank(R, S)[s] \in Nat /\ Rank(R, S)[t] \in Nat
         /\ Rank(R, S)[s] < Rank(R, S)[t]
  <1> DEFINE A == {u \in S : <<u, s>> \in R}
             B == {u \in S : <<u, t>> \in R}
  <1>1. IsFiniteSet(B) /\ Cardinality(B) \in Nat
    BY FS_Subset, FS_CardinalityType
  <1>2. A \in SUBSET B
    BY DEF StrictOrder
  <1>3. s \in B /\ s \notin A
    BY DEF StrictOrder
  <1>4. A # B
    BY <1>3
  <1> HIDE DEF A, B
  <1>5. Cardinality(A) < Cardinality(B) /\ Cardinality(A) \in Nat
    BY <1>1, <1>2, <1>4, FS_Subset, FS_CardinalityType
  <1>6. Rank(R, S)[s] = 1 + Cardinality(A) /\ Rank(R, S)[t] = 1 + Cardinality(B)
    BY DEF Rank, A, B
  <1> QED
    BY <1>1, <1>5, <1>6

\* Ranks number the elements.
LEMMA RankIsBijection ==
  ASSUME NEW S, IsFiniteSet(S), NEW R, StrictOrder(R, S)
  PROVE  Rank(R, S) \in Bijection(S, 1 .. Cardinality(S))
  <1> DEFINE N == Cardinality(S)
             rank == Rank(R, S)
             below(s) == {t \in S : <<t, s>> \in R}
  <1>1. N \in Nat
    BY FS_CardinalityType
  <1>2. ASSUME NEW s \in S
        PROVE  rank[s] \in 1 .. N
    <2>1. below(s) \in SUBSET S /\ s \notin below(s)
      BY DEF StrictOrder
    <2>2. rank[s] = 1 + Cardinality(below(s))
      BY DEF Rank
    <2> HIDE DEF below, rank
    <2>3. IsFiniteSet(below(s)) /\ Cardinality(below(s)) \in Nat
          /\ Cardinality(below(s)) < N
      BY <1>1, <2>1, FS_Subset, FS_CardinalityType
    <2> QED
      BY <1>1, <2>2, <2>3
  <1>3. ASSUME NEW s \in S, NEW t \in S, rank[s] = rank[t]
        PROVE  s = t
    <2>1. CASE <<s, t>> \in R
      BY <2>1, <1>3, RankIncreases
    <2>2. CASE <<t, s>> \in R
      BY <2>2, <1>3, RankIncreases
    <2> QED
      BY <2>1, <2>2 DEF StrictOrder
  <1>4. rank \in [S -> 1 .. N]
    BY <1>2 DEF Rank
  <1> HIDE DEF rank
  <1>5. rank \in Injection(S, 1 .. N)
    BY <1>3, <1>4, Fun_IsInj
  <1>6. IsFiniteSet(1 .. N) /\ Cardinality(1 .. N) = N
    BY <1>1, FS_Interval
  <1>7. rank \in Surjection(S, 1 .. N)
    BY <1>5, <1>6, FS_Injection
  <1> QED
    BY <1>5, <1>7 DEF Bijection, rank

\* Each element has its place.
LEMMA SortedEnumerates ==
  ASSUME NEW S, IsFiniteSet(S), NEW R, StrictOrder(R, S)
  PROVE  /\ Cardinality(S) \in Nat
         /\ Sorted(S, R) \in [1 .. Cardinality(S) -> S]
         /\ \A i, j \in 1 .. Cardinality(S) :
              Sorted(S, R)[i] = Sorted(S, R)[j] => i = j
         /\ \A x \in S : \E i \in 1 .. Cardinality(S) : Sorted(S, R)[i] = x
         /\ \A i, j \in 1 .. Cardinality(S) :
              i < j => <<Sorted(S, R)[i], Sorted(S, R)[j]>> \in R
  <1> DEFINE below(x) == Cardinality({y \in S : <<y, x>> \in R})
  <1>1. PICK n, rank, order : /\ n = Cardinality(S) /\ rank = Rank(R, S)
                              /\ order = Sorted(S, R)
    OBVIOUS
  <1>2. n \in Nat
    BY <1>1, FS_CardinalityType
  <1>3. rank \in Bijection(S, 1 .. n)
    BY <1>1, RankIsBijection
  <1>4. /\ rank \in [S -> 1 .. n]
        /\ \A x, y \in S : rank[x] = rank[y] => x = y
        /\ \A i \in 1 .. n : \E x \in S : rank[x] = i
    BY <1>3, Fun_BijectionProperties DEF Bijection, Injection, Surjection
  <1>5. ASSUME NEW x \in S
        PROVE  rank[x] = 1 + below(x) /\ below(x) \in Int
    <2>1. rank[x] = 1 + below(x)
      BY <1>1 DEF Rank
    <2>2. {y \in S : <<y, x>> \in R} \in SUBSET S
      OBVIOUS
    <2>3. IsFiniteSet({y \in S : <<y, x>> \in R})
      BY <2>2, FS_Subset
    <2> QED
      BY <2>1, <2>3, FS_CardinalityType
  <1>6. ASSUME NEW i \in 1 .. n
        PROVE  order[i] \in S /\ rank[order[i]] = i
    <2>1. order[i] = CHOOSE x \in S : below(x) = i - 1
      BY <1>1 DEF Sorted
    <2>2. PICK x \in S : rank[x] = i
      BY <1>4
    <2> HIDE DEF below
    <2>3. below(x) = i - 1
      BY <1>2, <1>5, <2>2
    <2>4. order[i] \in S /\ below(order[i]) = i - 1
      BY <2>1, <2>3
    <2> QED
      BY <1>2, <1>5, <2>4
  <1>7. order \in [1 .. n -> S]
    <2> DEFINE at(i) == CHOOSE x \in S :
                          Cardinality({y \in S : <<y, x>> \in R}) = i - 1
    <2>1. order = [i \in 1 .. n |-> at(i)]
      BY <1>1, Zenon DEF Sorted
    <2> HIDE DEF at
    <2>2. \A i \in 1 .. n : at(i) \in S
      BY <1>6, <2>1
    <2> QED
      BY <2>1, <2>2
  <1>8. \A i, j \in 1 .. n : order[i] = order[j] => i = j
    BY <1>6
  <1>9. \A x \in S : \E i \in 1 .. n : order[i] = x
    BY <1>4, <1>6
  <1>10. ASSUME NEW i \in 1 .. n, NEW j \in 1 .. n, i < j
         PROVE  <<order[i], order[j]>> \in R
    <2>1. order[i] \in S /\ order[j] \in S /\ order[i] # order[j]
      BY <1>2, <1>6, <1>8, <1>10
    <2>2. CASE <<order[j], order[i]>> \in R
      <3>1. Rank(R, S)[order[j]] < Rank(R, S)[order[i]]
        BY <2>1, <2>2, RankIncreases
      <3>2. j < i
        BY <1>1, <1>6, <3>1
      <3> QED
        BY <1>2, <1>10, <3>2
    <2> QED
      BY <2>1, <2>2 DEF StrictOrder
  <1> QED
    BY <1>1, <1>2, <1>7, <1>8, <1>9, <1>10

\* Numbers have an order.
LEMMA NumbersAreOrdered ==
  ASSUME NEW S, S \subseteq Int
  PROVE  StrictOrder({d \in Pairs(S) : d[1] < d[2]}, S)
  <1>1. \A d, e \in S : <<d, e>> \in {x \in Pairs(S) : x[1] < x[2]} <=> d < e
    BY DEF Pairs
  <1>2. \A d \in S : d \in Int
    OBVIOUS
  <1> QED
    BY <1>1, <1>2 DEF StrictOrder

\* So a set of numbers can be listed.
LEMMA IncreasingEnumerates ==
  ASSUME NEW S, IsFiniteSet(S), S \subseteq Int
  PROVE  /\ Cardinality(S) \in Nat
         /\ Increasing(S) \in [1 .. Cardinality(S) -> S]
  <1>1. PICK R : R = {x \in Pairs(S) : x[1] < x[2]}
    OBVIOUS
  <1>2. StrictOrder(R, S)
    BY <1>1, NumbersAreOrdered
  <1> QED
    BY <1>1, <1>2, SortedEnumerates DEF Increasing

-----------------------------------------------------------------------------
(* Folds that take out the last element of a set first.                    *)

Lasts(last, S) == \A T \in SUBSET S : T # {} => last[T] \in T

Folded(p, last, step, base, S) ==
  p = [T \in SUBSET S |->
         IF T = {} THEN base ELSE step[last[T]][p[T \ {last[T]}]]]

Stays(p, last, A, S) ==
  \A T \in SUBSET S :
    T # {} /\ p[T \ {last[T]}] \in A => p[T] \in A

\* What holds at first, and of what is left if it held before, holds.
LEMMA FoldStays ==
  ASSUME NEW S, IsFiniteSet(S), NEW last, Lasts(last, S), NEW A, NEW p,
         p[{}] \in A, Stays(p, last, A, S)
  PROVE  \A T \in SUBSET S : p[T] \in A
  <1> DEFINE N == {n \in Nat : \A T \in SUBSET S :
                                 Cardinality(T) = n => p[T] \in A}
  <1>1. \A T \in SUBSET S : IsFiniteSet(T) /\ Cardinality(T) \in Nat
    BY FS_Subset, FS_CardinalityType
  <1>2. 0 \in N
    BY <1>1, FS_EmptySet
  <1>3. ASSUME NEW n \in Nat, n \in N
        PROVE  n + 1 \in N
    <2>1. ASSUME NEW T \in SUBSET S, Cardinality(T) = n + 1
          PROVE  p[T] \in A
      <3>1. T # {}
        BY <2>1, FS_EmptySet
      <3>2. last[T] \in T
        BY <3>1 DEF Lasts
      <3>3. Cardinality(T \ {last[T]}) = n
        <4>1. PICK a \in T : a = last[T]
          BY <3>2
        <4>2. Cardinality(T \ {a}) = Cardinality(T) - 1
          BY <1>1, OneLess
        <4> QED
          BY <2>1, <4>1, <4>2
      <3>4. p[T \ {last[T]}] \in A
        BY <1>3, <3>3
      <3> QED
        BY <3>1, <3>4 DEF Stays
    <2> QED
      BY <2>1
  <1>4. Nat \subseteq N
    <2> HIDE DEF N
    <2> QED
      BY <1>2, <1>3, NumberInduction
  <1> QED
    BY <1>1, <1>4

\* A fold exists.
LEMMA FoldExists ==
  ASSUME NEW S, IsFiniteSet(S), NEW last, Lasts(last, S), NEW A,
         NEW base \in A, NEW step \in [S -> [A -> A]]
  PROVE  \E p \in [SUBSET S -> A] : Folded(p, last, step, base, S)
  <1> DEFINE Next(p, T) == IF T = {} THEN base
                           ELSE step[last[T]][p[T \ {last[T]}]]
             Upto(p, n) == \A T \in SUBSET S :
                             Cardinality(T) <= n => p[T] = Next(p, T)
             N == {n \in Nat : \E p \in [SUBSET S -> A] : Upto(p, n)}
  <1>1. \A T \in SUBSET S : IsFiniteSet(T) /\ Cardinality(T) \in Nat
    BY FS_Subset, FS_CardinalityType
  <1>2. ASSUME NEW T \in SUBSET S, T # {}
        PROVE  /\ last[T] \in S /\ T \ {last[T]} \in SUBSET S
               /\ Cardinality(T \ {last[T]}) = Cardinality(T) - 1
    <2>1. last[T] \in T
      BY <1>2 DEF Lasts
    <2> QED
      BY <1>1, <2>1, OneLess
  <1>3. ASSUME NEW p \in [SUBSET S -> A], NEW T \in SUBSET S
        PROVE  Next(p, T) \in A
    <2>1. CASE T = {}
      BY <2>1
    <2>2. CASE T # {}
      <3>1. p[T \ {last[T]}] \in A /\ step[last[T]] \in [A -> A]
        BY <1>2, <2>2
      <3> QED
        BY <2>2, <3>1
    <2> QED
      BY <2>1, <2>2
  <1>4. 0 \in N
    <2> DEFINE p == [T \in SUBSET S |-> base]
    <2>1. p \in [SUBSET S -> A]
      OBVIOUS
    <2>2. \A T \in SUBSET S : Cardinality(T) <= 0 => T = {}
      BY <1>1, FS_EmptySet
    <2>3. Upto(p, 0)
      BY <2>2
    <2> QED
      BY <2>1, <2>3
  <1>5. ASSUME NEW n \in Nat, n \in N
        PROVE  n + 1 \in N
    <2>1. PICK p \in [SUBSET S -> A] : Upto(p, n)
      BY <1>5
    <2> DEFINE q == [T \in SUBSET S |->
                       IF Cardinality(T) <= n THEN p[T] ELSE Next(p, T)]
    <2>2. \A T \in SUBSET S : Next(p, T) \in A
      BY <1>3
    <2>3. q \in [SUBSET S -> A]
      <3> HIDE DEF Next
      <3> QED
        BY <2>2
    <2>4. ASSUME NEW T \in SUBSET S, Cardinality(T) <= n + 1
          PROVE  q[T] = Next(q, T)
      <3>1. q[T] = Next(p, T)
        BY <2>1
      <3>2. CASE T = {}
        BY <3>1, <3>2
      <3>3. CASE T # {}
        <4>1. Cardinality(T \ {last[T]}) <= n
          BY <1>1, <1>2, <2>4, <3>3
        <4>2. q[T \ {last[T]}] = p[T \ {last[T]}]
          BY <1>2, <3>3, <4>1
        <4> QED
          BY <3>1, <3>3, <4>2
      <3> QED
        BY <3>2, <3>3
    <2>5. Upto(q, n + 1)
      <3> HIDE DEF q, Next
      <3> QED
        BY <2>4
    <2> HIDE DEF q, Upto
    <2> QED
      BY <2>3, <2>5
  <1>6. Nat \subseteq N
    <2> HIDE DEF N
    <2> QED
      BY <1>4, <1>5, NumberInduction
  <1>7. Cardinality(S) \in N
    BY <1>1, <1>6
  <1>8. PICK p \in [SUBSET S -> A] : Upto(p, Cardinality(S))
    BY <1>7
  <1>9. \A T \in SUBSET S : p[T] = Next(p, T)
    BY <1>1, <1>8, FS_Subset
  <1>10. p = [T \in SUBSET S |-> Next(p, T)]
    <2> HIDE DEF Next
    <2> QED
      BY <1>9
  <1> QED
    BY <1>10 DEF Folded
=============================================================================
