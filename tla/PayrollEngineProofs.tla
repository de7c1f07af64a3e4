------------------------ MODULE PayrollEngineProofs ------------------------
(* Theorems about PayrollEngine and Receipts, for every set of inputs. *)
EXTENDS Receipts, WellFoundedInduction, FiniteSetTheorems, TLAPS

IsInput(in) == \E aspect \in DOMAIN Inputs : in \in Inputs[aspect]

----------------------------------------------------------------------------
(* Induction, with the set of the numbers that satisfy a formula for the formula *)

LEMMA SetInduction ==
  ASSUME NEW S, 0 \in S, \A n \in Nat : n \in S => n + 1 \in S
  PROVE  Nat \subseteq S
<1> SUFFICES ASSUME NEW m \in Nat, m \notin S PROVE FALSE
  OBVIOUS
<1> DEFINE T == {n \in Nat : n \notin S}
<1>1. T \subseteq Nat /\ T # {}
  OBVIOUS
<1>2. PICK x \in T : \A y \in T : ~(<<y, x>> \in OpToRel(<, Nat))
  BY <1>1, NatLessThanWellFounded, WFMin, Zenon
<1>3. \A y \in T : ~(y < x)
  BY <1>2 DEF OpToRel
<1> QED
  BY <1>3, SMT

\* A set of positive numbers that is not empty has a least one.
LEMMA LeastExists ==
  ASSUME NEW I \in SUBSET Nat, I # {}
  PROVE  /\ Min(I) \in I
         /\ \A i \in I : Min(I) <= i
<1>1. PICK x \in I : \A y \in I : ~(<<y, x>> \in OpToRel(<, Nat))
  BY NatLessThanWellFounded, WFMin, Zenon
<1>2. \A y \in I : ~(y < x)
  BY <1>1 DEF OpToRel
<1>3. \A y \in I : x <= y
  BY <1>2, SMT
<1> QED BY <1>3 DEF Min

\* g has the sums of the first elements of f.
Sums(f, n, g) ==
  /\ g = [k \in 0..n |-> g[k]]
  /\ g[0] = 0
  /\ \A k \in 1..n : g[k] = g[k - 1] + f[k]

LEMMA SumsExist ==
  ASSUME NEW f
  PROVE  \A n \in Nat : \E g : Sums(f, n, g)
<1> DEFINE S == {n \in Nat : \E g : Sums(f, n, g)}
<1>1. 0 \in S
  <2>1. Sums(f, 0, [k \in 0..0 |-> 0])
    BY SMT DEF Sums
  <2> QED BY <2>1
<1>2. ASSUME NEW n \in Nat, n \in S PROVE n + 1 \in S
  <2>1. PICK g : Sums(f, n, g)
    BY <1>2
  <2> DEFINE h == [k \in 0..(n + 1) |-> IF k = n + 1 THEN g[n] + f[n + 1] ELSE g[k]]
  <2>2. h = [k \in 0..(n + 1) |-> h[k]] /\ h[0] = 0
    BY <2>1, SMT DEF Sums
  <2>3. ASSUME NEW k \in 1..(n + 1) PROVE h[k] = h[k - 1] + f[k]
    <3>1. CASE k = n + 1
      BY <3>1, SMT
    <3>2. CASE k # n + 1
      <4>1. k \in 1..n /\ k - 1 # n + 1 /\ k \in 0..(n + 1) /\ k - 1 \in 0..(n + 1)
        BY <3>2, SMT
      <4> QED BY <2>1, <3>2, <4>1 DEF Sums
    <3> QED BY <3>1, <3>2
  <2>4. Sums(f, n + 1, h)
    <3> HIDE DEF h
    <3> QED BY <2>2, <2>3 DEF Sums
  <2> QED BY <2>4
<1> HIDE DEF S
<1>3. Nat \subseteq S
  BY <1>1, <1>2, SetInduction
<1> QED BY <1>3 DEF S

LEMMA SumsAreUnique ==
  ASSUME NEW f, NEW n \in Nat, NEW g, NEW h, Sums(f, n, g), Sums(f, n, h)
  PROVE  g = h
<1> DEFINE S == {k \in Nat : k <= n => g[k] = h[k]}
<1>1. 0 \in S
  BY DEF Sums
<1>2. ASSUME NEW k \in Nat, k \in S PROVE k + 1 \in S
  <2>1. k + 1 <= n => k + 1 \in 1..n /\ (k + 1) - 1 = k
    BY SMT
  <2>2. k + 1 <= n => g[k + 1] = g[k] + f[k + 1] /\ h[k + 1] = h[k] + f[k + 1]
    BY <2>1 DEF Sums
  <2> QED BY <1>2, <2>2, SMT
<1> HIDE DEF S
<1>3. Nat \subseteq S
  BY <1>1, <1>2, SetInduction
<1>4. \A k \in 0..n : g[k] = h[k]
  BY <1>3, SMT DEF S
<1> QED BY <1>4 DEF Sums

\* The definition of SumOf, unfolded
LEMMA SumsAre ==
  ASSUME NEW f, Len(f) \in Nat, NEW g, Sums(f, Len(f), g)
  PROVE  SumOf(f) = g[Len(f)]
<1> DEFINE n == Len(f)
           Is(h) == h = [k \in 0..n |-> IF k = 0 THEN 0 ELSE h[k - 1] + f[k]]
<1>1. Is(g)
  <2>1. ASSUME NEW k \in 0..n PROVE g[k] = IF k = 0 THEN 0 ELSE g[k - 1] + f[k]
    BY SMT DEF Sums
  <2> HIDE DEF n
  <2>2. g = [k \in 0..n |-> g[k]]
    BY DEF Sums, n
  <2> QED BY <2>1, <2>2
<1>2. ASSUME NEW h, Is(h) PROVE h = g
  <2>1. h = [k \in 0..n |-> h[k]] /\ h[0] = 0
    BY <1>2, SMT
  <2>2. \A k \in 1..n : h[k] = h[k - 1] + f[k]
    BY <1>2, SMT
  <2>3. Sums(f, n, h)
    BY <2>1, <2>2 DEF Sums
  <2> QED BY <2>3, SumsAreUnique
<1>3. (CHOOSE h : Is(h)) = g
  <2> HIDE DEF Is
  <2> QED BY <1>1, <1>2
<1>4. SumOf(f) = (CHOOSE h : Is(h))[n]
  BY DEF SumOf
<1> QED BY <1>3, <1>4

LEMMA SumsOf ==
  ASSUME NEW f, Len(f) \in Nat
  PROVE  \E g : Sums(f, Len(f), g) /\ SumOf(f) = g[Len(f)]
BY SumsExist, SumsAre

\* Integers add up to an integer, multiples of a unit to one.
LEMMA SumsAreIntegers ==
  ASSUME NEW f, NEW n \in Nat, \A k \in 1..n : f[k] \in Int, NEW g, Sums(f, n, g)
  PROVE  \A k \in 0..n : g[k] \in Int
<1> DEFINE S == {k \in Nat : k <= n => g[k] \in Int}
<1>1. 0 \in S
  BY DEF Sums
<1>2. ASSUME NEW k \in Nat, k \in S PROVE k + 1 \in S
  <2>1. k + 1 <= n => k + 1 \in 1..n /\ (k + 1) - 1 = k
    BY SMT
  <2>2. k + 1 <= n => g[k + 1] = g[k] + f[k + 1]
    BY <2>1 DEF Sums
  <2> QED BY <1>2, <2>1, <2>2, SMT
<1> HIDE DEF S
<1>3. Nat \subseteq S
  BY <1>1, <1>2, SetInduction
<1> QED BY <1>3, SMT DEF S

LEMMA SumIsInteger ==
  ASSUME NEW f \in Seq(Int)
  PROVE  SumOf(f) \in Int
<1>1. Len(f) \in Nat /\ \A k \in 1..Len(f) : f[k] \in Int
  BY SMT
<1>2. PICK g : Sums(f, Len(f), g) /\ SumOf(f) = g[Len(f)]
  BY <1>1, SumsOf
<1>3. \A k \in 0..Len(f) : g[k] \in Int
  BY <1>1, <1>2, SumsAreIntegers
<1> QED BY <1>1, <1>2, <1>3, SMT

\* A function that adds the elements one by one ends in the sum.
LEMMA SumByParts ==
  ASSUME NEW f \in Seq(Int), NEW g, g[0] = 0,
         \A k \in 1..Len(f) : g[k] = g[k - 1] + f[k]
  PROVE  SumOf(f) = g[Len(f)]
<1> DEFINE h == [k \in 0..Len(f) |-> g[k]]
<1>1. Len(f) \in Nat
  BY SMT
<1>2. h[0] = 0 /\ h = [k \in 0..Len(f) |-> h[k]]
  BY <1>1, SMT
<1>3. ASSUME NEW k \in 1..Len(f) PROVE h[k] = h[k - 1] + f[k]
  <2>1. k \in 0..Len(f) /\ k - 1 \in 0..Len(f)
    BY <1>1, SMT
  <2> QED BY <2>1
<1>4. h[Len(f)] = g[Len(f)]
  BY <1>1, SMT
<1> HIDE DEF h
<1>5. Sums(f, Len(f), h)
  BY <1>2, <1>3 DEF Sums
<1> QED BY <1>1, <1>4, <1>5, SumsAre

LEMMA SumOfNone == SumOf(<<>>) = 0
<1> DEFINE g == [k \in {0} |-> 0]
<1>1. Sums(<<>>, 0, g)
  BY SMT DEF Sums
<1> QED BY <1>1, SumsAre, Len(<<>>) = 0

LEMMA SumOfOne ==
  ASSUME NEW x \in Int
  PROVE  SumOf(<<x>>) = x
<1> DEFINE g == [k \in 0..1 |-> IF k = 0 THEN 0 ELSE x]
<1>1. <<x>> \in Seq(Int) /\ Len(<<x>>) = 1
  OBVIOUS
<1>2. g[0] = 0 /\ \A k \in 1..1 : g[k] = g[k - 1] + <<x>>[k]
  BY SMT
<1>3. g[1] = x
  BY SMT
<1> HIDE DEF g
<1> QED BY <1>1, <1>2, <1>3, SumByParts

LEMMA SumOfBoth ==
  ASSUME NEW f \in Seq(Int), NEW h \in Seq(Int)
  PROVE  SumOf(f \o h) = SumOf(f) + SumOf(h)
<1> DEFINE n == Len(f)
           m == Len(h)
<1>1. /\ n \in Nat /\ m \in Nat /\ f \o h \in Seq(Int) /\ Len(f \o h) = n + m
      /\ \A k \in 1..n : f[k] \in Int
      /\ \A k \in 1..m : h[k] \in Int
  BY SMT
<1>2. PICK a : Sums(f, n, a) /\ SumOf(f) = a[n]
  BY <1>1, SumsOf
<1>3. PICK b : Sums(h, m, b) /\ SumOf(h) = b[m]
  BY <1>1, SumsOf
<1>4. /\ \A k \in 0..n : a[k] \in Int
      /\ \A k \in 0..m : b[k] \in Int
  BY <1>1, <1>2, <1>3, SumsAreIntegers
<1> DEFINE g == [k \in 0..(n + m) |-> IF k <= n THEN a[k] ELSE a[n] + b[k - n]]
<1>5. g[0] = 0
  BY <1>1, <1>2, SMT DEF Sums
<1>6. ASSUME NEW k \in 1..(n + m)
      PROVE  g[k] = g[k - 1] + (f \o h)[k]
  <2>1. CASE k <= n
    <3>1. k \in 1..n /\ k \in 0..(n + m) /\ k - 1 \in 0..(n + m) /\ k - 1 <= n
      BY <1>1, <2>1, SMT
    <3>2. (f \o h)[k] = f[k]
      BY <3>1, SMT
    <3>3. a[k] = a[k - 1] + f[k]
      BY <3>1, <1>2 DEF Sums
    <3> QED BY <2>1, <3>1, <3>2, <3>3
  <2>2. CASE k > n
    <3>1. k - n \in 1..m /\ k \in 0..(n + m) /\ k - 1 \in 0..(n + m) /\ ~(k <= n)
          /\ (k - n) - 1 = (k - 1) - n
      BY <1>1, <2>2, SMT
    <3>2. (f \o h)[k] = h[k - n]
      BY <1>1, <2>2, <3>1, SMT
    <3>3. b[k - n] = b[(k - 1) - n] + h[k - n]
      BY <3>1, <1>3 DEF Sums
    <3>4. g[k] = a[n] + b[k - n]
      BY <3>1
    <3>5. g[k - 1] = a[n] + b[(k - 1) - n]
      <4>1. CASE k - 1 <= n
        <5>1. k - 1 = n /\ (k - 1) - n = 0
          BY <4>1, <2>2, <1>1, SMT
        <5>2. b[0] = 0
          BY <1>3 DEF Sums
        <5>3. a[n] \in Int
          BY <1>1, <1>4, SMT
        <5>4. g[k - 1] = a[n]
          BY <3>1, <4>1, <5>1
        <5> HIDE DEF n, m, g
        <5> QED BY <5>1, <5>2, <5>3, <5>4, SMT
      <4>2. CASE ~(k - 1 <= n)
        BY <4>2, <3>1
      <4> QED BY <4>1, <4>2
    <3>6. a[n] \in Int /\ b[(k - 1) - n] \in Int /\ h[k - n] \in Int
      BY <1>1, <1>4, <3>1, SMT
    <3> HIDE DEF g
    <3> QED BY <3>2, <3>3, <3>4, <3>5, <3>6, SMT
  <2> QED BY <1>1, <2>1, <2>2, SMT
<1>7. g[n + m] = a[n] + b[m]
  <2>1. CASE m = 0
    <3>1. b[m] = 0 /\ a[n] \in Int
      BY <1>1, <1>3, <1>4, <2>1, SMT DEF Sums
    <3> QED BY <1>1, <2>1, <3>1, SMT
  <2>2. CASE m # 0
    <3>1. n + m \in 0..(n + m) /\ ~(n + m <= n) /\ (n + m) - n = m
      BY <1>1, <2>2, SMT
    <3> QED BY <3>1
  <2> QED BY <2>1, <2>2
<1> HIDE DEF g
<1>8. SumOf(f \o h) = g[n + m]
  BY <1>1, <1>5, <1>6, SumByParts
<1> QED BY <1>2, <1>3, <1>7, <1>8

LEMMA SumOfZeros ==
  ASSUME NEW f \in Seq(Int), \A k \in 1..Len(f) : f[k] = 0
  PROVE  SumOf(f) = 0
<1> DEFINE g == [k \in 0..Len(f) |-> 0]
<1>1. Len(f) \in Nat
  BY SMT
<1>2. g[0] = 0 /\ g[Len(f)] = 0
  BY <1>1, SMT
<1>3. ASSUME NEW k \in 1..Len(f) PROVE g[k] = g[k - 1] + f[k]
  <2>1. k \in 0..Len(f) /\ k - 1 \in 0..Len(f)
    BY <1>1, SMT
  <2> QED BY <2>1, SMT
<1> HIDE DEF g
<1> QED BY <1>2, <1>3, SumByParts

LEMMA SumOfMultiples ==
  ASSUME NEW f \in Seq(Int), NEW unit \in Nat,
         \A k \in 1..Len(f) : \E m \in Int : f[k] = m * unit
  PROVE  \E m \in Int : SumOf(f) = m * unit
<1>1. Len(f) \in Nat
  BY SMT
<1>2. PICK g : Sums(f, Len(f), g) /\ SumOf(f) = g[Len(f)]
  BY <1>1, SumsOf
<1> DEFINE S == {k \in Nat : k <= Len(f) => \E m \in Int : g[k] = m * unit}
<1>3. 0 \in S
  <2>1. g[0] = 0
    BY <1>2 DEF Sums
  <2>2. g[0] = 0 * unit
    BY <2>1, SMT
  <2>3. \E m \in Int : g[0] = m * unit
    BY <2>2
  <2> QED BY <2>3
<1>4. ASSUME NEW k \in Nat, k \in S PROVE k + 1 \in S
  <2> SUFFICES ASSUME k + 1 <= Len(f) PROVE \E m \in Int : g[k + 1] = m * unit
    OBVIOUS
  <2>1. k + 1 \in 1..Len(f) /\ (k + 1) - 1 = k /\ k <= Len(f)
    BY <1>1, SMT
  <2>2. g[k + 1] = g[k] + f[k + 1]
    BY <1>2, <2>1 DEF Sums
  <2>3. PICK m \in Int : g[k] = m * unit
    BY <1>4, <2>1
  <2>4. PICK l \in Int : f[k + 1] = l * unit
    BY <2>1
  <2>5. g[k + 1] = (m + l) * unit /\ m + l \in Int
    BY <2>2, <2>3, <2>4, SMT
  <2> QED BY <2>5
<1> HIDE DEF S
<1>5. Nat \subseteq S
  BY <1>3, <1>4, SetInduction
<1>6. Len(f) \in S /\ Len(f) <= Len(f)
  BY <1>1, <1>5, SMT
<1> QED BY <1>2, <1>6 DEF S

LEMMA SumOfReverse ==
  ASSUME NEW f \in Seq(Int)
  PROVE  SumOf(Reverse(f)) = SumOf(f)
<1> DEFINE n == Len(f)
           r == Reverse(f)
<1>1. n \in Nat /\ \A k \in 1..n : f[k] \in Int
  BY SMT
<1>2. r \in Seq(Int) /\ Len(r) = n /\ \A k \in 1..n : r[k] = f[(n - k) + 1]
  BY <1>1, SMT DEF Reverse
<1>3. PICK a : Sums(f, n, a) /\ SumOf(f) = a[n]
  BY <1>1, SumsOf
<1>4. \A k \in 0..n : a[k] \in Int
  BY <1>1, <1>3, SumsAreIntegers
<1> DEFINE g == [k \in 0..n |-> a[n] - a[n - k]]
<1>5. a[0] = 0 /\ \A k \in 1..n : a[k] = a[k - 1] + f[k]
  BY <1>3 DEF Sums
<1> HIDE DEF n, r
<1>6. g[0] = 0 /\ g[n] = a[n]
  BY <1>1, <1>4, <1>5, SMT
<1>7. ASSUME NEW k \in 1..n PROVE g[k] = g[k - 1] + r[k]
  <2>1. /\ k \in 0..n /\ k - 1 \in 0..n /\ (n - k) + 1 \in 1..n /\ n - k \in 0..n
        /\ ((n - k) + 1) - 1 = n - k /\ n - (k - 1) = (n - k) + 1 /\ n \in 0..n
    BY <1>1, SMT
  <2>2. a[(n - k) + 1] = a[n - k] + f[(n - k) + 1]
    BY <1>5, <2>1
  <2>3. g[k] = a[n] - a[n - k] /\ g[k - 1] = a[n] - a[(n - k) + 1]
    BY <2>1
  <2>4. a[n] \in Int /\ a[n - k] \in Int /\ f[(n - k) + 1] \in Int
    BY <1>1, <1>4, <2>1
  <2> HIDE DEF g
  <2> QED BY <1>2, <2>2, <2>3, <2>4, SMT
<1> HIDE DEF g
<1>8. SumOf(r) = g[n]
  BY <1>2, <1>6, <1>7, SumByParts
<1> QED BY <1>3, <1>6, <1>8 DEF r

(* Filters *)

\* g has what is kept of the first elements of s.
Keeps(s, I, n, g) ==
  /\ g = [k \in 0..n |-> g[k]]
  /\ g[0] = <<>>
  /\ \A k \in 1..n : g[k] = IF k \in I THEN Append(g[k - 1], s[k]) ELSE g[k - 1]

LEMMA KeepsExist ==
  ASSUME NEW s, NEW I
  PROVE  \A n \in Nat : \E g : Keeps(s, I, n, g)
<1> DEFINE S == {n \in Nat : \E g : Keeps(s, I, n, g)}
<1>1. 0 \in S
  <2> DEFINE h == [k \in {0} |-> <<>>]
  <2>1. h = [k \in 0..0 |-> h[k]] /\ h[0] = <<>> /\ 1..0 = {}
    BY SMT
  <2> HIDE DEF h
  <2>2. Keeps(s, I, 0, h)
    BY <2>1 DEF Keeps
  <2> QED BY <2>2
<1>2. ASSUME NEW n \in Nat, n \in S PROVE n + 1 \in S
  <2>1. PICK g : Keeps(s, I, n, g)
    BY <1>2
  <2> DEFINE last == IF n + 1 \in I THEN Append(g[n], s[n + 1]) ELSE g[n]
             h == [k \in 0..(n + 1) |-> IF k = n + 1 THEN last ELSE g[k]]
  <2>2. h = [k \in 0..(n + 1) |-> h[k]] /\ h[0] = <<>>
    <3>1. g[0] = <<>>
      BY <2>1 DEF Keeps
    <3> HIDE DEF last
    <3> QED BY <3>1, SMT
  <2>3. ASSUME NEW k \in 1..(n + 1)
        PROVE  h[k] = IF k \in I THEN Append(h[k - 1], s[k]) ELSE h[k - 1]
    <3>1. CASE k = n + 1
      <4>1. k - 1 = n /\ k \in 0..(n + 1) /\ k - 1 \in 0..(n + 1) /\ n # n + 1
        BY <3>1, SMT
      <4>2. h[k] = last /\ h[k - 1] = g[n]
        <5> HIDE DEF last
        <5> QED BY <3>1, <4>1
      <4> HIDE DEF h
      <4> QED BY <3>1, <4>2
    <3>2. CASE k # n + 1
      <4>1. k \in 1..n /\ k - 1 # n + 1 /\ k \in 0..(n + 1) /\ k - 1 \in 0..(n + 1)
        BY <3>2, SMT
      <4>2. h[k] = g[k] /\ h[k - 1] = g[k - 1]
        <5> HIDE DEF last
        <5> QED BY <3>2, <4>1
      <4>3. g[k] = IF k \in I THEN Append(g[k - 1], s[k]) ELSE g[k - 1]
        BY <2>1, <4>1 DEF Keeps
      <4> HIDE DEF h
      <4> QED BY <4>2, <4>3
    <3> QED BY <3>1, <3>2
  <2>4. Keeps(s, I, n + 1, h)
    <3> HIDE DEF h
    <3> QED BY <2>2, <2>3 DEF Keeps
  <2> QED BY <2>4
<1> HIDE DEF S
<1>3. Nat \subseteq S
  BY <1>1, <1>2, SetInduction
<1> QED BY <1>3 DEF S

LEMMA KeepsAreUnique ==
  ASSUME NEW s, NEW I, NEW n \in Nat,
         NEW g, NEW h, Keeps(s, I, n, g), Keeps(s, I, n, h)
  PROVE  g = h
<1> DEFINE S == {k \in Nat : k <= n => g[k] = h[k]}
<1>1. 0 \in S
  BY DEF Keeps
<1>2. ASSUME NEW k \in Nat, k \in S PROVE k + 1 \in S
  <2> SUFFICES ASSUME k + 1 <= n PROVE g[k + 1] = h[k + 1]
    OBVIOUS
  <2>1. k + 1 \in 1..n /\ (k + 1) - 1 = k /\ k <= n
    BY SMT
  <2>2. g[k] = h[k]
    BY <1>2, <2>1
  <2> QED BY <2>1, <2>2 DEF Keeps
<1> HIDE DEF S
<1>3. Nat \subseteq S
  BY <1>1, <1>2, SetInduction
<1>4. \A k \in 0..n : g[k] = h[k]
  BY <1>3, SMT DEF S
<1> QED BY <1>4 DEF Keeps

\* The definition of Kept, unfolded
LEMMA KeepsAre ==
  ASSUME NEW s, Len(s) \in Nat, NEW I, NEW g, Keeps(s, I, Len(s), g)
  PROVE  Kept(s, I) = g[Len(s)]
<1> DEFINE n == Len(s)
           Is(h) == h = [k \in 0..n |->
                          IF k = 0 THEN <<>>
                          ELSE IF k \in I THEN Append(h[k - 1], s[k]) ELSE h[k - 1]]
<1>1. Is(g)
  <2>1. ASSUME NEW k \in 0..n
        PROVE  g[k] = IF k = 0 THEN <<>>
                      ELSE IF k \in I THEN Append(g[k - 1], s[k]) ELSE g[k - 1]
    <3>1. k = 0 \/ k \in 1..n
      BY SMT
    <3> QED BY <3>1 DEF Keeps
  <2> HIDE DEF n
  <2>2. g = [k \in 0..n |-> g[k]]
    BY DEF Keeps, n
  <2> QED BY <2>1, <2>2
<1>2. ASSUME NEW h, Is(h) PROVE h = g
  <2> HIDE DEF n
  <2>1. \A k \in 0..n : h[k] = IF k = 0 THEN <<>>
                        ELSE IF k \in I THEN Append(h[k - 1], s[k]) ELSE h[k - 1]
    BY <1>2
  <2>2. h = [k \in 0..n |-> h[k]]
    BY <1>2
  <2>3. 0 \in 0..n /\ \A k \in 1..n : k \in 0..n /\ k # 0
    BY SMT DEF n
  <2>4. h[0] = <<>>
    BY <2>1, <2>3
  <2>5. \A k \in 1..n : h[k] = IF k \in I THEN Append(h[k - 1], s[k]) ELSE h[k - 1]
    BY <2>1, <2>3
  <2> HIDE DEF Is
  <2>6. Keeps(s, I, n, h)
    BY <2>2, <2>4, <2>5 DEF Keeps
  <2> QED BY <2>6, KeepsAreUnique DEF n
<1>3. (CHOOSE h : Is(h)) = g
  <2> HIDE DEF Is
  <2> QED BY <1>1, <1>2
<1>4. Kept(s, I) = (CHOOSE h : Is(h))[n]
  BY DEF Kept
<1> QED BY <1>3, <1>4

LEMMA KeepsOf ==
  ASSUME NEW s, Len(s) \in Nat, NEW I
  PROVE  \E g : Keeps(s, I, Len(s), g) /\ Kept(s, I) = g[Len(s)]
BY KeepsExist, KeepsAre

\* What is kept depends on the elements at the positions only.
LEMMA KeptAgrees ==
  ASSUME NEW s, NEW t, Len(s) \in Nat, Len(t) = Len(s), NEW I, NEW J,
         \A k \in 1..Len(s) : (k \in I <=> k \in J) /\ (k \in I => s[k] = t[k])
  PROVE  Kept(s, I) = Kept(t, J)
<1>1. PICK g : Keeps(s, I, Len(s), g) /\ Kept(s, I) = g[Len(s)]
  BY KeepsOf
<1>2. Keeps(t, J, Len(t), g)
  <2>1. ASSUME NEW k \in 1..Len(s)
        PROVE  g[k] = IF k \in J THEN Append(g[k - 1], t[k]) ELSE g[k - 1]
    <3>1. g[k] = IF k \in I THEN Append(g[k - 1], s[k]) ELSE g[k - 1]
      BY <1>1 DEF Keeps
    <3> QED BY <3>1
  <2>2. g = [k \in 0..Len(s) |-> g[k]] /\ g[0] = <<>>
    BY <1>1 DEF Keeps
  <2> QED BY <2>1, <2>2 DEF Keeps
<1>3. Kept(t, J) = g[Len(t)]
  BY <1>2, KeepsAre
<1> QED BY <1>1, <1>3

LEMMA KeptIsKept ==
  ASSUME NEW T, NEW s \in Seq(T), NEW I
  PROVE  Kept(s, I) \in Seq({s[k] : k \in I \cap DOMAIN s})
<1> DEFINE n == Len(s)
           U == {s[k] : k \in I \cap DOMAIN s}
<1>1. n \in Nat /\ DOMAIN s = 1..n
  BY SMT
<1>2. PICK g : Keeps(s, I, n, g) /\ Kept(s, I) = g[n]
  BY <1>1, KeepsOf
<1> DEFINE S == {k \in Nat : k <= n => g[k] \in Seq(U)}
<1>3. 0 \in S
  BY <1>2 DEF Keeps
<1>4. ASSUME NEW k \in Nat, k \in S PROVE k + 1 \in S
  <2> SUFFICES ASSUME k + 1 <= n PROVE g[k + 1] \in Seq(U)
    OBVIOUS
  <2>1. k + 1 \in 1..n /\ (k + 1) - 1 = k /\ k <= n
    BY <1>1, SMT
  <2>2. g[k] \in Seq(U)
    BY <1>4, <2>1
  <2>3. g[k + 1] = IF k + 1 \in I THEN Append(g[k], s[k + 1]) ELSE g[k]
    BY <1>2, <2>1 DEF Keeps
  <2>4. k + 1 \in I => s[k + 1] \in U
    BY <1>1, <2>1
  <2> HIDE DEF U
  <2> QED BY <2>2, <2>3, <2>4
<1> HIDE DEF S
<1>5. Nat \subseteq S
  BY <1>3, <1>4, SetInduction
<1>6. n \in S /\ n <= n
  BY <1>1, <1>5, SMT
<1> QED BY <1>2, <1>6 DEF S

LEMMA KeptAll ==
  ASSUME NEW T, NEW s \in Seq(T), NEW I, DOMAIN s \subseteq I
  PROVE  Kept(s, I) = s
<1> DEFINE n == Len(s)
           g == [k \in 0..n |-> [i \in 1..k |-> s[i]]]
<1>1. n \in Nat /\ DOMAIN s = 1..n
  BY SMT
<1>2. g = [k \in 0..n |-> g[k]] /\ g[0] = <<>> /\ g[n] = s
  <2>1. g = [k \in 0..n |-> g[k]]
    OBVIOUS
  <2>2. g[0] = [i \in 1..0 |-> s[i]] /\ g[n] = [i \in 1..n |-> s[i]]
    <3>1. 0 \in 0..n /\ n \in 0..n
      BY <1>1, SMT
    <3> QED BY <3>1
  <2>3. [i \in 1..0 |-> s[i]] = <<>>
    BY SMT
  <2>4. [i \in 1..n |-> s[i]] = s
    BY <1>1
  <2> HIDE DEF g
  <2> QED BY <2>1, <2>2, <2>3, <2>4
<1>3. ASSUME NEW k \in 1..n
      PROVE  g[k] = IF k \in I THEN Append(g[k - 1], s[k]) ELSE g[k - 1]
  <2>1. k \in I /\ k \in 0..n /\ k - 1 \in 0..n /\ k - 1 \in Nat
    BY <1>1, SMT
  <2>2. g[k] = [i \in 1..k |-> s[i]] /\ g[k - 1] = [i \in 1..(k - 1) |-> s[i]]
    BY <2>1
  <2>3. [i \in 1..k |-> s[i]] = Append([i \in 1..(k - 1) |-> s[i]], s[k])
    <3>1. \A i \in 1..(k - 1) : s[i] \in T
      BY <1>1, SMT
    <3>2. [i \in 1..(k - 1) |-> s[i]] \in Seq(T) /\ Len([i \in 1..(k - 1) |-> s[i]]) = k - 1
      BY <2>1, <3>1, SMT
    <3> QED BY <2>1, <3>2, <1>1, SMT
  <2> HIDE DEF g
  <2> QED BY <2>1, <2>2, <2>3
<1> HIDE DEF g, n
<1>4. Keeps(s, I, n, g)
  BY <1>2, <1>3 DEF Keeps
<1> QED BY <1>1, <1>2, <1>4, KeepsAre DEF n

(* The sum over a list of what a function gives for each element *)

Weights(s, w) == [i \in DOMAIN s |-> w[s[i]]]
Weigh(s, w) == SumOf(Weights(s, w))

LEMMA WeightsAreIntegers ==
  ASSUME NEW T, NEW s \in Seq(T), NEW w, \A e \in T : w[e] \in Int
  PROVE  /\ Weights(s, w) \in Seq(Int)
         /\ Len(Weights(s, w)) = Len(s)
         /\ Weigh(s, w) \in Int
<1>1. DOMAIN s = 1..Len(s) /\ Len(s) \in Nat /\ \A i \in DOMAIN s : s[i] \in T
  OBVIOUS
<1>2. \A i \in 1..Len(s) : w[s[i]] \in Int
  BY <1>1
<1>3. /\ [i \in 1..Len(s) |-> w[s[i]]] \in Seq(Int)
      /\ Len([i \in 1..Len(s) |-> w[s[i]]]) = Len(s)
  BY <1>1, <1>2, SMT
<1> QED BY <1>1, <1>3, SumIsInteger DEF Weigh, Weights

LEMMA WeighBoth ==
  ASSUME NEW T, NEW s \in Seq(T), NEW t \in Seq(T), NEW w, \A e \in T : w[e] \in Int
  PROVE  Weigh(s \o t, w) = Weigh(s, w) + Weigh(t, w)
<1>1. /\ Weights(s, w) \in Seq(Int) /\ Weights(t, w) \in Seq(Int)
      /\ Len(Weights(s, w)) = Len(s) /\ Len(Weights(t, w)) = Len(t)
  BY WeightsAreIntegers
<1>2. /\ s \o t \in Seq(T) /\ Len(s) \in Nat /\ Len(t) \in Nat
      /\ Len(s \o t) = Len(s) + Len(t)
      /\ DOMAIN s = 1..Len(s) /\ DOMAIN t = 1..Len(t)
      /\ DOMAIN (s \o t) = 1..(Len(s) + Len(t))
  BY SMT
<1>3. ASSUME NEW i \in 1..(Len(s) + Len(t))
      PROVE  w[(s \o t)[i]] = (Weights(s, w) \o Weights(t, w))[i]
  <2>1. CASE i <= Len(s)
    <3>1. i \in DOMAIN s
      BY <1>2, <2>1, SMT
    <3>2. (s \o t)[i] = s[i]
      BY <1>2, <2>1, SMT
    <3>3. (Weights(s, w) \o Weights(t, w))[i] = Weights(s, w)[i]
      <4> QED BY <1>1, <1>2, <2>1, SMT
    <3> QED BY <3>1, <3>2, <3>3 DEF Weights
  <2>2. CASE ~(i <= Len(s))
    <3>1. i - Len(s) \in DOMAIN t
      BY <1>2, <2>2, SMT
    <3>2. (s \o t)[i] = t[i - Len(s)]
      BY <1>2, <2>2, SMT
    <3>3. (Weights(s, w) \o Weights(t, w))[i] = Weights(t, w)[i - Len(s)]
      <4> QED BY <1>1, <1>2, <2>2, SMT
    <3> QED BY <3>1, <3>2, <3>3 DEF Weights
  <2> QED BY <2>1, <2>2
<1>4. Weights(s, w) \o Weights(t, w) = [i \in 1..(Len(s) + Len(t)) |-> (Weights(s, w) \o Weights(t, w))[i]]
  <2>1. ASSUME NEW a \in Seq(Int)
        PROVE  a = [i \in 1..Len(a) |-> a[i]]
    <3>1. DOMAIN a = 1..Len(a) /\ a = [i \in DOMAIN a |-> a[i]]
      OBVIOUS
    <3> QED BY <3>1
  <2>2. Weights(s, w) \o Weights(t, w) \in Seq(Int) /\ Len(Weights(s, w) \o Weights(t, w)) = Len(s) + Len(t)
    <3>1. ASSUME NEW a \in Seq(Int), NEW b \in Seq(Int)
          PROVE  a \o b \in Seq(Int) /\ Len(a \o b) = Len(a) + Len(b)
      OBVIOUS
    <3> QED BY <1>1, <3>1
  <2> QED BY <2>1, <2>2
<1>5. Weights(s \o t, w) = Weights(s, w) \o Weights(t, w)
  BY <1>2, <1>3, <1>4 DEF Weights
<1>6. SumOf(Weights(s \o t, w)) = SumOf(Weights(s, w)) + SumOf(Weights(t, w))
  BY <1>1, <1>5, SumOfBoth
<1> QED BY <1>6 DEF Weigh

LEMMA WeighOne ==
  ASSUME NEW e, NEW w, w[e] \in Int
  PROVE  Weigh(<<e>>, w) = w[e]
<1>1. Weights(<<e>>, w) = <<w[e]>>
  BY SMT DEF Weights
<1> QED BY <1>1, SumOfOne DEF Weigh

LEMMA WeighNone ==
  ASSUME NEW w
  PROVE  Weigh(<<>>, w) = 0
<1>1. Weights(<<>>, w) = <<>>
  BY SMT DEF Weights
<1> QED BY <1>1, SumOfNone DEF Weigh

LEMMA WeighReverse ==
  ASSUME NEW T, NEW s \in Seq(T), NEW w, \A e \in T : w[e] \in Int
  PROVE  /\ Reverse(s) \in Seq(T)
         /\ Weigh(Reverse(s), w) = Weigh(s, w)
<1> DEFINE f == Weights(s, w)
<1>1. f \in Seq(Int) /\ Len(f) = Len(s)
  BY WeightsAreIntegers
<1>2. Len(s) \in Nat /\ DOMAIN s = 1..Len(s)
  OBVIOUS
<1>3. Reverse(s) \in Seq(T) /\ DOMAIN Reverse(s) = 1..Len(s)
  BY <1>2, SMT DEF Reverse
<1>4. \A i \in 1..Len(s) : (Len(s) - i) + 1 \in DOMAIN s
  BY <1>2, SMT
<1>5. Weights(Reverse(s), w) = [i \in 1..Len(s) |-> f[(Len(s) - i) + 1]]
  BY <1>2, <1>3, <1>4 DEF Reverse, Weights
<1>6. Weights(Reverse(s), w) = Reverse(f)
  BY <1>1, <1>5 DEF Reverse
<1> HIDE DEF f
<1> QED BY <1>1, <1>3, <1>6, SumOfReverse DEF Weigh, f

\* The sum over what is kept is the sum over the whole list, without the rest.
LEMMA WeighKept ==
  ASSUME NEW T, NEW s \in Seq(T), NEW I, NEW w, \A e \in T : w[e] \in Int
  PROVE  /\ Kept(s, I) \in Seq(T)
         /\ Weigh(Kept(s, I), w) = SumOf([i \in DOMAIN s |-> IF i \in I THEN w[s[i]] ELSE 0])
<1> DEFINE n == Len(s)
           f == [i \in 1..n |-> IF i \in I THEN w[s[i]] ELSE 0]
<1>1. n \in Nat /\ DOMAIN s = 1..n /\ \A i \in 1..n : s[i] \in T
  BY SMT
<1>2. PICK q : Keeps(s, I, n, q) /\ Kept(s, I) = q[n]
  BY <1>1, KeepsOf
<1>q. /\ q[0] = <<>>
      /\ \A k \in 1..n : q[k] = IF k \in I THEN Append(q[k - 1], s[k]) ELSE q[k - 1]
  BY <1>2 DEF Keeps
<1> DEFINE S == {k \in Nat : k <= n => q[k] \in Seq(T)}
<1>3. 0 \in S
  <2>1. <<>> \in Seq(T)
    OBVIOUS
  <2> QED BY <1>q, <2>1
<1>4. ASSUME NEW k \in Nat, k \in S PROVE k + 1 \in S
  <2> SUFFICES ASSUME k + 1 <= n PROVE q[k + 1] \in Seq(T)
    OBVIOUS
  <2>1. k + 1 \in 1..n /\ (k + 1) - 1 = k /\ k <= n
    BY <1>1, SMT
  <2>2. q[k] \in Seq(T) /\ s[k + 1] \in T
    BY <1>1, <1>4, <2>1
  <2>3. q[k + 1] = IF k + 1 \in I THEN Append(q[k], s[k + 1]) ELSE q[k]
    BY <1>q, <2>1
  <2> QED BY <2>2, <2>3
<1> HIDE DEF S
<1>5. Nat \subseteq S
  BY <1>3, <1>4, SetInduction
<1>6. \A k \in 0..n : q[k] \in Seq(T)
  BY <1>1, <1>5, SMT DEF S
<1> DEFINE g == [k \in 0..n |-> Weigh(q[k], w)]
<1>7. g[0] = 0 /\ g[n] = Weigh(Kept(s, I), w)
  <2>1. 0 \in 0..n /\ n \in 0..n
    BY <1>1, SMT
  <2> QED BY <1>2, <1>q, <2>1, WeighNone
<1>8. ASSUME NEW k \in 1..n PROVE g[k] = g[k - 1] + f[k]
  <2>1. k \in 0..n /\ k - 1 \in 0..n
    BY <1>1, SMT
  <2>2. g[k] = Weigh(q[k], w) /\ g[k - 1] = Weigh(q[k - 1], w)
    BY <2>1
  <2>3. q[k - 1] \in Seq(T) /\ s[k] \in T /\ w[s[k]] \in Int /\ Weigh(q[k - 1], w) \in Int
    BY <1>1, <1>6, <2>1, WeightsAreIntegers
  <2>4. CASE k \in I
    <3>1. q[k] = q[k - 1] \o <<s[k]>> /\ <<s[k]>> \in Seq(T)
      <4>1. q[k] = Append(q[k - 1], s[k])
        BY <1>q, <2>4
      <4>2. ASSUME NEW r \in Seq(T), NEW e \in T
            PROVE  Append(r, e) = r \o <<e>> /\ <<e>> \in Seq(T)
        OBVIOUS
      <4> QED BY <2>3, <4>1, <4>2
    <3>2. Weigh(q[k], w) = Weigh(q[k - 1], w) + Weigh(<<s[k]>>, w)
      <4>1. ASSUME NEW r \in Seq(T), NEW u \in Seq(T)
            PROVE  Weigh(r \o u, w) = Weigh(r, w) + Weigh(u, w)
        BY WeighBoth
      <4> QED BY <2>3, <3>1, <4>1
    <3>3. Weigh(<<s[k]>>, w) = w[s[k]]
      BY <2>3, WeighOne
    <3>4. f[k] = w[s[k]]
      BY <2>4
    <3> QED BY <2>2, <3>2, <3>3, <3>4
  <2>5. CASE k \notin I
    <3>1. q[k] = q[k - 1] /\ f[k] = 0
      BY <1>q, <2>5
    <3> HIDE DEF g, f
    <3> QED BY <2>2, <2>3, <3>1, SMT
  <2> QED BY <2>4, <2>5
<1>9. f \in Seq(Int) /\ Len(f) = n
  <2>1. \A i \in 1..n : (IF i \in I THEN w[s[i]] ELSE 0) \in Int
    BY <1>1
  <2> HIDE DEF n
  <2> QED BY <1>1, <2>1, SMT
<1> HIDE DEF g, f
<1>10. SumOf(f) = Weigh(Kept(s, I), w)
  BY <1>7, <1>8, <1>9, SumByParts
<1>11. Kept(s, I) \in Seq(T)
  <2>1. n \in 0..n
    BY <1>1, SMT
  <2> QED BY <1>2, <1>6, <2>1
<1> QED BY <1>1, <1>10, <1>11 DEF f

\* Neither the order nor what counts for nothing changes a sum.
LEMMA WeighRelevant ==
  ASSUME NEW T, NEW s \in Seq(T), NEW I, NEW w, \A e \in T : w[e] \in Int,
         \A i \in DOMAIN s : i \notin I => w[s[i]] = 0
  PROVE  /\ Reverse(Kept(s, I)) \in Seq(T)
         /\ Weigh(Reverse(Kept(s, I)), w) = Weigh(s, w)
<1>1. /\ Kept(s, I) \in Seq(T)
      /\ Weigh(Kept(s, I), w) = SumOf([i \in DOMAIN s |-> IF i \in I THEN w[s[i]] ELSE 0])
  BY WeighKept
<1>2. [i \in DOMAIN s |-> IF i \in I THEN w[s[i]] ELSE 0] = [i \in DOMAIN s |-> w[s[i]]]
  OBVIOUS
<1>3. Weigh(Kept(s, I), w) = Weigh(s, w)
  BY <1>1, <1>2 DEF Weigh, Weights
<1> QED BY <1>1, <1>3, WeighReverse

----------------------------------------------------------------------------
(* Rounding *)

\* Rounding gives a multiple of the unit, less than a unit away: away from zero
\* or towards it, whatever the mode.
THEOREM RoundingIsClose ==
  ASSUME NEW x \in Int, NEW unit \in Nat \ {0}, NEW mode
  PROVE  /\ Round(x, unit, mode) \in Int
         /\ \E n \in Int : Round(x, unit, mode) = n * unit
         /\ Round(x, unit, mode) - x < unit
         /\ x - Round(x, unit, mode) < unit
<1> DEFINE size == IF x < 0 THEN -x ELSE x
           quotient == size \div unit
           rest == size % unit
           up == IF RoundsUp(quotient, rest, unit, mode) THEN 1 ELSE 0
           rounded == (quotient + up) * unit
<1>1. size \in Nat
  BY SMT
<1>2. /\ size = quotient * unit + rest
      /\ quotient \in Nat
      /\ rest \in 0..(unit - 1)
  <2> HIDE DEF size
  <2> QED BY <1>1, SMT
<1>3. up \in {0, 1} /\ (up = 1 => rest > 0)
  <2>1. up = 1 => RoundsUp(quotient, rest, unit, mode)
    OBVIOUS
  <2>2. up = 1 => rest > 0
    <3> HIDE DEF up, rest, quotient
    <3> QED BY <2>1, <1>2, SMT DEF RoundsUp
  <2> QED BY <2>2
<1>4. Round(x, unit, mode) = IF x < 0 THEN -rounded ELSE rounded
  BY DEF Round
<1> HIDE DEF up, quotient, rest
<1>5. rounded = quotient * unit + up * unit /\ up * unit \in {0, unit}
  BY <1>2, <1>3, SMT
<1>6. /\ rounded \in Int
      /\ rounded - size < unit
      /\ size - rounded < unit
  BY <1>1, <1>2, <1>3, <1>5, SMT
<1>7. quotient + up \in Int /\ -(quotient + up) \in Int
      /\ -rounded = (-(quotient + up)) * unit
  BY <1>2, <1>3, SMT
<1>8. \E n \in Int : Round(x, unit, mode) = n * unit
  BY <1>4, <1>7
<1> HIDE DEF rounded
<1> QED BY <1>4, <1>6, <1>8, SMT

\* A multiple of the unit is left as it is, so the difference of two rounded
\* totals needs no rounding of its own.
THEOREM RoundedStays ==
  ASSUME NEW n \in Int, NEW unit \in Nat \ {0}, NEW mode
  PROVE  Round(n * unit, unit, mode) = n * unit
<1>1. PICK m \in Int : Round(n * unit, unit, mode) = m * unit
  BY RoundingIsClose, n * unit \in Int
<1>2. /\ m * unit - n * unit < unit
      /\ n * unit - m * unit < unit
  BY RoundingIsClose, <1>1, n * unit \in Int
<1>3. CASE m >= n + 1
  <2>1. m * unit >= (n + 1) * unit
    BY <1>3, SMT
  <2> QED BY <2>1, <1>2, SMT
<1>4. CASE n >= m + 1
  <2>1. n * unit >= (m + 1) * unit
    BY <1>4, SMT
  <2> QED BY <2>1, <1>2, SMT
<1>5. m >= n + 1 \/ n >= m + 1 \/ m = n
  BY SMT
<1> QED BY <1>1, <1>3, <1>4, <1>5

----------------------------------------------------------------------------
(* Seniority *)

LEMMA InputIsTyped ==
  ASSUME NEW in, IsInput(in)
  PROVE  in \in InputLike(in)
BY InputsAssumption DEF IsInput

LEMMA VersionIsTyped ==
  ASSUME NEW in, IsInput(in)
  PROVE  in.parameters \in VersionLike(in.parameters)
BY InputIsTyped DEF InputLike

LEMMA TiersAreTyped ==
  ASSUME NEW in, IsInput(in)
  PROVE  LET tiers == in.parameters.seniority.tiers IN
         /\ tiers \in Seq(Tier)
         /\ Len(tiers) \in Nat
         /\ DOMAIN tiers = 1..Len(tiers)
         /\ \A m \in DOMAIN tiers : /\ tiers[m].fromCompletedYears \in Nat
                                 /\ tiers[m].toCompletedYears \in Nat \union {Open}
<1> DEFINE tiers == in.parameters.seniority.tiers
<1>1. tiers \in Seq(Tier)
  BY VersionIsTyped DEF VersionLike
<1> HIDE DEF tiers
<1>2. Len(tiers) \in Nat /\ DOMAIN tiers = 1..Len(tiers) /\ \A m \in DOMAIN tiers : tiers[m] \in Tier
  BY <1>1
<1>3. \A t \in Tier : /\ t.fromCompletedYears \in Nat
                       /\ t.toCompletedYears \in Nat \union {Open}
  BY DEF Tier
<1>4. \A m \in DOMAIN tiers : /\ tiers[m].fromCompletedYears \in Nat
                              /\ tiers[m].toCompletedYears \in Nat \union {Open}
  BY <1>2, <1>3
<1> QED BY <1>1, <1>2, <1>4 DEF tiers

\* Comparing neighbours is enough: in a list without problems a tier ends before
\* any later one begins.
LEMMA TiersAreApart ==
  ASSUME NEW in, IsInput(in),
         TiersAreOrdered(in.parameters.seniority.tiers)
  PROVE  LET tiers == in.parameters.seniority.tiers
             sorted == SortedTiers(tiers)
         IN \A i, j \in 1..Len(tiers) :
              i < j => /\ sorted[i].toCompletedYears \in Nat
                       /\ sorted[i].toCompletedYears < sorted[j].fromCompletedYears
<1> DEFINE tiers == in.parameters.seniority.tiers
           sorted == SortedTiers(tiers)
           n == Len(tiers)
<1>1. n \in Nat /\ DOMAIN sorted = 1..n
  BY TiersAreTyped, SortAssumption DEF IsInput
<1> SUFFICES ASSUME NEW i \in 1..n, NEW j \in 1..n, i < j
             PROVE  /\ sorted[i].toCompletedYears \in Nat
                    /\ sorted[i].toCompletedYears < sorted[j].fromCompletedYears
  OBVIOUS
<1>2. i \in 1..n - 1 /\ i + 1 \in 1..n
  BY <1>1, SMT
<1>3. sorted[i].toCompletedYears # Open /\ ~Overlap(sorted[i], sorted[i + 1])
  BY <1>2 DEF TiersAreOrdered
<1>4. \A k \in 1..n : /\ sorted[k].fromCompletedYears \in Nat
                      /\ sorted[k].toCompletedYears \in Nat \union {Open}
  <2>0. PICK aspect \in DOMAIN Inputs : in \in Inputs[aspect]
    BY DEF IsInput
  <2>1. \A k \in DOMAIN sorted : \E m \in DOMAIN tiers : sorted[k] = tiers[m]
    BY <2>0, SortAssumption, Zenon
  <2>2. \A m \in DOMAIN tiers : /\ tiers[m].fromCompletedYears \in Nat
                              /\ tiers[m].toCompletedYears \in Nat \union {Open}
    BY TiersAreTyped
  <2> QED BY <1>1, <2>1, <2>2
<1>5. i + 1 < j \/ i + 1 = j
  BY <1>1, SMT
<1>6. sorted[i + 1].fromCompletedYears <= sorted[j].fromCompletedYears
  <2>1. CASE i + 1 = j
    BY <2>1, <1>2, <1>4, SMT
  <2>2. CASE i + 1 < j
    BY <2>2, <1>1, <1>2, SortAssumption DEF IsInput
  <2> QED BY <1>5, <2>1, <2>2
<1>7. sorted[i].toCompletedYears < sorted[i + 1].fromCompletedYears
  <2> HIDE DEF sorted
  <2> QED BY <1>2, <1>3, <1>4, SMT DEF Overlap
<1> HIDE DEF sorted
<1> QED BY <1>2, <1>3, <1>4, <1>6, <1>7, SMT

\* So at most one of them covers a number of years.
LEMMA OneTierCovers ==
  ASSUME NEW in, IsInput(in),
         TiersAreOrdered(in.parameters.seniority.tiers),
         NEW years \in Nat,
         NEW i \in DOMAIN in.parameters.seniority.tiers,
         NEW j \in DOMAIN in.parameters.seniority.tiers,
         Covers(in.parameters.seniority.tiers[i], years),
         Covers(in.parameters.seniority.tiers[j], years)
  PROVE  in.parameters.seniority.tiers[i] = in.parameters.seniority.tiers[j]
<1> DEFINE tiers == in.parameters.seniority.tiers
           sorted == SortedTiers(tiers)
           n == Len(tiers)
<1>1. PICK k \in 1..n : sorted[k] = tiers[i]
  BY SortAssumption DEF IsInput
<1>2. PICK l \in 1..n : sorted[l] = tiers[j]
  BY SortAssumption DEF IsInput
<1>3. n \in Nat /\ DOMAIN tiers = 1..n
  BY TiersAreTyped
<1>4. \A a \in 1..n, b \in 1..n :
        a < b => /\ sorted[a].toCompletedYears \in Nat
                 /\ sorted[a].toCompletedYears < sorted[b].fromCompletedYears
  BY TiersAreApart
<1>5. \A a \in DOMAIN tiers : tiers[a].fromCompletedYears \in Nat
  BY TiersAreTyped
<1>6. Open \notin Int
  BY InputsAssumption
<1>7. /\ Covers(sorted[k], years) /\ Covers(sorted[l], years)
      /\ sorted[k].fromCompletedYears \in Nat /\ sorted[l].fromCompletedYears \in Nat
  BY <1>1, <1>2, <1>5
<1> HIDE DEF sorted
<1>8. ~ k < l
  <2> SUFFICES ASSUME k < l PROVE FALSE
    OBVIOUS
  <2>1. /\ sorted[k].toCompletedYears \in Nat
        /\ sorted[k].toCompletedYears < sorted[l].fromCompletedYears
    BY <1>4
  <2> QED BY <2>1, <1>6, <1>7, SMT DEF Covers
<1>9. ~ l < k
  <2> SUFFICES ASSUME l < k PROVE FALSE
    OBVIOUS
  <2>1. /\ sorted[l].toCompletedYears \in Nat
        /\ sorted[l].toCompletedYears < sorted[k].fromCompletedYears
    BY <1>4
  <2> QED BY <2>1, <1>6, <1>7, SMT DEF Covers
<1>10. k = l
  BY <1>3, <1>8, <1>9, SMT
<1> QED BY <1>1, <1>2, <1>10

LEMMA YearsAreNatural ==
  ASSUME NEW in, IsInput(in)
  PROVE  YearsOf(in) \in Nat
<1>1. in.startDate \in Nat /\ in.to \in Nat
  BY InputIsTyped DEF InputLike
<1> QED BY <1>1, SMT DEF YearsOf, CompletedYears

\* What is known of a result: it is the calculation of an input.
ResultIsOfInput ==
  /\ IsInput(input)
  /\ result \in {NotYet, CalculatePayroll(input)}

\* The years of service are the anniversaries that have come, the day itself included
\* and none before the first (completedYears): with dates written yyyymmdd, the m-th
\* has come when the start moved m years on is not after the reference.
THEOREM YearsAreAnniversaries ==
  ASSUME NEW start \in Nat, NEW reference \in Nat
  PROVE  /\ CompletedYears(start, reference) \in Nat
         /\ \A m \in Nat \ {0} :
              m <= CompletedYears(start, reference) <=> start + 10000 * m <= reference
<1> DEFINE y == start \div 10000  d == start % 10000
           z == reference \div 10000  e == reference % 10000
<1>1. /\ y \in Nat /\ d \in 0..9999 /\ start = 10000 * y + d
      /\ z \in Nat /\ e \in 0..9999 /\ reference = 10000 * z + e
  BY SMT
<1>2. CompletedYears(start, reference) =
        IF z - y - (IF e < d THEN 1 ELSE 0) > 0 THEN z - y - (IF e < d THEN 1 ELSE 0) ELSE 0
  BY DEF CompletedYears
<1> HIDE DEF y, d, z, e
<1>3. CompletedYears(start, reference) \in Nat
  BY <1>1, <1>2, SMT
<1>4. ASSUME NEW m \in Nat \ {0}
      PROVE  start + 10000 * m <= reference <=> 10000 * (y + m) + d <= 10000 * z + e
  BY <1>1, SMT
<1>5. ASSUME NEW m \in Nat \ {0}
      PROVE  10000 * (y + m) + d <= 10000 * z + e <=> y + m <= z - (IF e < d THEN 1 ELSE 0)
  <2> DEFINE k == z - y - m
  <2>1. /\ k \in Int /\ z = k + (y + m)
        /\ 10000 * z = 10000 * k + 10000 * (y + m)
    BY <1>1, SMT
  <2> HIDE DEF k
  <2>2. k >= 1 \/ k = 0 \/ k <= -1
    BY <2>1, SMT
  <2>3. 10000 * (y + m) + d <= 10000 * z + e <=> d <= 10000 * k + e
    BY <1>1, <2>1, SMT
  <2>4. y + m <= z - (IF e < d THEN 1 ELSE 0) <=> (IF e < d THEN 1 ELSE 0) <= k
    BY <1>1, <2>1, SMT
  <2>5. d <= 10000 * k + e <=> (IF e < d THEN 1 ELSE 0) <= k
    <3>1. CASE k >= 1
      BY <1>1, <2>1, <3>1, SMT
    <3>2. CASE k = 0
      BY <1>1, <3>2, SMT
    <3>3. CASE k <= -1
      BY <1>1, <2>1, <3>3, SMT
    <3> QED BY <2>2, <3>1, <3>2, <3>3
  <2> QED BY <2>3, <2>4, <2>5
<1>6. ASSUME NEW m \in Nat \ {0}
      PROVE  m <= CompletedYears(start, reference) <=> start + 10000 * m <= reference
  BY <1>1, <1>2, <1>4, <1>5, SMT
<1> QED BY <1>3, <1>6

\* Every calculation whose version has no problems finds one seniority tier at
\* most, for any list of tiers and any dates.
THEOREM SeniorityHasOneAnswer == Spec => []OneTierEachYear
<1>1. Init => ResultIsOfInput
  BY DEF Init, ResultIsOfInput, IsInput
<1>2. ResultIsOfInput /\ [Calculate]_vars => ResultIsOfInput'
  BY DEF ResultIsOfInput, Calculate, vars, IsInput
<1>3. ResultIsOfInput => OneTierEachYear
  <2> SUFFICES ASSUME ResultIsOfInput, Calculated,
                      "PARAMETER_VERSION_INVALID" \notin result.errors,
                      input.parameters.seniority.enabled,
                      NEW i \in DOMAIN input.parameters.seniority.tiers,
                      NEW j \in DOMAIN input.parameters.seniority.tiers,
                      Covers(input.parameters.seniority.tiers[i], YearsOf(input)),
                      Covers(input.parameters.seniority.tiers[j], YearsOf(input))
               PROVE  input.parameters.seniority.tiers[i] = input.parameters.seniority.tiers[j]
    BY DEF OneTierEachYear
  <2>1. IsInput(input) /\ result = CalculatePayroll(input) /\ result # Thrown
    BY DEF ResultIsOfInput, Calculated
  <2>2. result.errors = BlockingErrors(input)
    BY <2>1 DEF CalculatePayroll
  <2>3. ValidVersion(input.parameters)
    BY <2>2 DEF BlockingErrors, When
  <2>4. TiersAreOrdered(input.parameters.seniority.tiers)
    BY <2>3 DEF ValidVersion
  <2> QED BY <2>1, <2>4, YearsAreNatural, OneTierCovers
<1> QED BY <1>1, <1>2, <1>3, PTL DEF Spec

----------------------------------------------------------------------------
(* The lines of a calculation *)

\* What the lines need of an input
WellTyped(in) ==
  LET v == in.parameters IN
  /\ v.conceptUnit \in Nat \ {0} /\ v.totalUnit \in Nat \ {0}
  /\ in.agreed \in Int /\ in.normalMinutes \in Nat /\ in.holidayMinutes \in Nat
  /\ in.startDate \in Nat /\ in.to \in Nat
  /\ in.overtime \in Seq([kind : STRING, minutes : Nat])
  /\ v.overtime.kinds \in [DOMAIN v.overtime.kinds -> Nat] /\ v.overtime.divisor \in Nat
  /\ v.holiday.multiplier \in Nat
  /\ v.seniority.tiers \in Seq(Tier)
  /\ v.zone.zones \in [DOMAIN v.zone.zones -> Int]
  /\ in.events \in Seq(Event)
  /\ v.vacation.divisor \in Nat /\ v.annualBonus.divisor \in Nat /\ v.absence.divisor \in Nat
  /\ in.annualBonus.best \in Int /\ in.annualBonus.months \in Int
  /\ in.additionalConcepts \in Seq(Additional)
  /\ v.contributions \in Seq(Contributed({"WORKER", "EMPLOYER"}))
  /\ v.workRisk.borneBy = "EMPLOYER"
  /\ v.workRisk.percentage \in Int /\ v.workRisk.amount \in Int

LEMMA InputIsWellTyped ==
  ASSUME NEW in, IsInput(in)
  PROVE  WellTyped(in)
<1> DEFINE v == in.parameters
<1>1. in \in InputLike(in) /\ v \in VersionLike(v)
  BY InputIsTyped, VersionIsTyped
<1> HIDE DEF v
<1>2. /\ v.conceptUnit \in Nat \ {0} /\ v.totalUnit \in Nat \ {0}
      /\ v.overtime.kinds \in [DOMAIN v.overtime.kinds -> Nat] /\ v.overtime.divisor \in Nat
      /\ v.holiday.multiplier \in Nat
      /\ v.seniority.tiers \in Seq(Tier)
      /\ v.zone.zones \in [DOMAIN v.zone.zones -> Int]
      /\ v.vacation.divisor \in Nat /\ v.annualBonus.divisor \in Nat /\ v.absence.divisor \in Nat
      /\ v.contributions \in Seq(Contributed({"WORKER", "EMPLOYER"}))
      /\ v.workRisk.borneBy = "EMPLOYER"
      /\ v.workRisk.percentage \in Int /\ v.workRisk.amount \in Int
  BY <1>1 DEF VersionLike
<1>3. /\ in.agreed \in Int /\ in.normalMinutes \in Nat /\ in.holidayMinutes \in Nat
      /\ in.startDate \in Nat /\ in.to \in Nat
      /\ in.overtime \in Seq([kind : STRING, minutes : Nat])
      /\ in.events \in Seq(Event)
      /\ in.annualBonus.best \in Int /\ in.annualBonus.months \in Int
      /\ in.additionalConcepts \in Seq(Additional)
  BY <1>1 DEF InputLike
<1> QED BY <1>2, <1>3 DEF WellTyped, v

Multiples(unit) == {m * unit : m \in Int}
ConceptCodes ==
  {"BASE_MONTHLY", "BASE_HOURLY", "OVERTIME", "HOLIDAY_WORKED", "SENIORITY",
   "UNFAVORABLE_ZONE", "VACATION", "ANNUAL_BONUS", "ABSENCE_DEDUCTION",
   "ADVANCE_DEDUCTION", "ADDITIONAL"}
ConceptLine(unit) ==
  [code : ConceptCodes, sign : {"CREDIT", "DEBIT"}, quantity : Int,
   rate : Int, amount : Multiples(unit)]
AnyLine(unit) ==
  [code : ConceptCodes \union {"CONTRIBUTION", "WORK_RISK_INSURANCE"},
   sign : {"CREDIT", "DEBIT", "INFORMATIONAL"}, quantity : Int, rate : Int, amount : Multiples(unit)]

LEMMA MultiplesAreIntegers ==
  ASSUME NEW unit \in Nat
  PROVE  \A x \in Multiples(unit) : x \in Int
BY SMT DEF Multiples

LEMMA NearestIsInteger ==
  ASSUME NEW n \in Int, NEW d \in Nat \ {0}
  PROVE  Nearest(n, d) \in Int
BY SMT DEF Nearest

LEMMA ConceptIsRounded ==
  ASSUME NEW in, WellTyped(in), NEW x \in Int
  PROVE  RoundConcept(in.parameters, x) \in Multiples(in.parameters.conceptUnit)
<1>1. in.parameters.conceptUnit \in Nat \ {0}
  BY DEF WellTyped
<1>2. \E n \in Int : Round(x, in.parameters.conceptUnit, in.parameters.mode)
                       = n * in.parameters.conceptUnit
  BY <1>1, RoundingIsClose
<1> QED BY <1>2 DEF RoundConcept, Multiples

LEMMA HourlyIsRounded ==
  ASSUME NEW in, WellTyped(in), ~DividesByZero(in), NEW tenths \in Int, NEW minutes \in Int
  PROVE  HourlyAmount(in, tenths, minutes) \in Multiples(in.parameters.conceptUnit)
<1>1. One \in Nat \ {0}
  BY InputsAssumption
<1>2. in.agreed \in Int /\ in.parameters.overtime.divisor \in Nat
  BY DEF WellTyped
<1>3. Monthly(in) => in.parameters.overtime.divisor # 0
  BY DEF DividesByZero
<1>4. HourlyValue(in) \in Int
  BY <1>2, <1>3, NearestIsInteger DEF HourlyValue
<1>5. Nearest(HourlyValue(in) * tenths, 10) \in Int
  BY <1>4, NearestIsInteger, SMT
<1>6. Hours(minutes) \in Int
  BY <1>1, NearestIsInteger, minutes * One \in Int, SMT DEF Hours
<1>7. Times(Nearest(HourlyValue(in) * tenths, 10), Hours(minutes)) \in Int
  <2> DEFINE a == Nearest(HourlyValue(in) * tenths, 10)
             b == Hours(minutes)
  <2> HIDE DEF a, b
  <2>1. a * b \in Int
    BY <1>5, <1>6, SMT DEF a, b
  <2> QED BY <1>1, <2>1, NearestIsInteger DEF Times, a, b
<1> QED BY <1>7, ConceptIsRounded DEF HourlyAmount

LEMMA BaseLineIsConcept ==
  ASSUME NEW in, WellTyped(in), ~DividesByZero(in)
  PROVE  BaseLine(in) \in ConceptLine(in.parameters.conceptUnit)
<1>1. in.agreed \in Int /\ in.normalMinutes \in Int
  BY DEF WellTyped
<1>2. RoundConcept(in.parameters, in.agreed) \in Multiples(in.parameters.conceptUnit)
  BY <1>1, ConceptIsRounded
<1>3. HourlyAmount(in, 10, in.normalMinutes) \in Multiples(in.parameters.conceptUnit)
  BY <1>1, HourlyIsRounded
<1>4. CASE Monthly(in)
  BY <1>2, <1>4, SMT DEF BaseLine, Line, ConceptLine, ConceptCodes
<1>5. CASE ~Monthly(in)
  <2>1. Line("BASE_HOURLY", "CREDIT", in.normalMinutes, 10,
             HourlyAmount(in, 10, in.normalMinutes)) \in ConceptLine(in.parameters.conceptUnit)
    BY <1>1, <1>3, SMT DEF Line, ConceptLine, ConceptCodes
  <2> QED BY <1>5, <2>1 DEF BaseLine
<1> QED BY <1>4, <1>5

LEMMA MappedConcepts ==
  ASSUME NEW unit, NEW T, NEW s \in Seq(T), NEW f, \A e \in T : f[e] \in ConceptLine(unit)
  PROVE  [i \in DOMAIN s |-> f[s[i]]] \in Seq(ConceptLine(unit))
<1>1. DOMAIN s = 1..Len(s) /\ Len(s) \in Nat /\ \A i \in DOMAIN s : s[i] \in T
  OBVIOUS
<1> QED BY <1>1

OvertimeLine(in, e) ==
  LET rate == in.parameters.overtime.kinds[e.kind] IN
  Line("OVERTIME", "CREDIT", e.minutes, rate, HourlyAmount(in, rate, e.minutes))
KnownKind(in, e) == e.minutes # 0 /\ e.kind \in DOMAIN in.parameters.overtime.kinds
KnownOvertime(in) ==
  Kept(in.overtime, {i \in DOMAIN in.overtime : KnownKind(in, in.overtime[i])})
Known(in) == {e \in [kind : STRING, minutes : Nat] : KnownKind(in, e)}

LEMMA OvertimeIsKnown ==
  ASSUME NEW in, WellTyped(in)
  PROVE  KnownOvertime(in) \in Seq(Known(in))
<1> DEFINE s == in.overtime
           I == {i \in DOMAIN s : KnownKind(in, s[i])}
           U == {s[k] : k \in I \cap DOMAIN s}
<1>1. s \in Seq([kind : STRING, minutes : Nat])
  BY DEF WellTyped
<1>2. Kept(s, I) \in Seq(U)
  <2> HIDE DEF s, I
  <2> QED BY <1>1, KeptIsKept
<1>3. U \subseteq Known(in)
  <2>1. \A k \in DOMAIN s : s[k] \in [kind : STRING, minutes : Nat]
    <3>1. ASSUME NEW T, NEW q \in Seq(T) PROVE \A k \in DOMAIN q : q[k] \in T
      OBVIOUS
    <3> QED BY <1>1, <3>1
  <2> QED BY <2>1 DEF Known
<1> HIDE DEF U
<1> QED BY <1>2, <1>3, Kept(s, I) = KnownOvertime(in) DEF KnownOvertime

LEMMA OvertimeLinesUnfolded ==
  ASSUME NEW in
  PROVE  OvertimeLines(in) =
           IF in.parameters.overtime.enabled
           THEN [i \in DOMAIN KnownOvertime(in) |-> OvertimeLine(in, KnownOvertime(in)[i])]
           ELSE <<>>
BY DEF OvertimeLines, Where, KnownOvertime, KnownKind, OvertimeLine

LEMMA OvertimeLineIsConcept ==
  ASSUME NEW in, WellTyped(in), ~DividesByZero(in), NEW e \in Known(in)
  PROVE  OvertimeLine(in, e) \in ConceptLine(in.parameters.conceptUnit)
<1> DEFINE rate == in.parameters.overtime.kinds[e.kind]
<1>1. e.minutes \in Nat /\ e.kind \in DOMAIN in.parameters.overtime.kinds
  BY DEF Known, KnownKind
<1>2. rate \in Nat
  BY <1>1 DEF WellTyped
<1>3. rate \in Int /\ e.minutes \in Int
  BY <1>1, <1>2, SMT
<1> HIDE DEF rate
<1>4. HourlyAmount(in, rate, e.minutes) \in Multiples(in.parameters.conceptUnit)
  BY <1>3, HourlyIsRounded
<1>5. Line("OVERTIME", "CREDIT", e.minutes, rate, HourlyAmount(in, rate, e.minutes))
        \in ConceptLine(in.parameters.conceptUnit)
  BY <1>3, <1>4, SMT DEF Line, ConceptLine, ConceptCodes
<1> QED BY <1>5 DEF OvertimeLine, rate

LEMMA OvertimeLinesAreConcepts ==
  ASSUME NEW in, WellTyped(in), ~DividesByZero(in)
  PROVE  OvertimeLines(in) \in Seq(ConceptLine(in.parameters.conceptUnit))
<1> DEFINE unit == in.parameters.conceptUnit
           f == [e \in Known(in) |-> OvertimeLine(in, e)]
           s == KnownOvertime(in)
<1>1. s \in Seq(Known(in))
  BY OvertimeIsKnown
<1>2. \A e \in Known(in) : f[e] \in ConceptLine(unit)
  BY OvertimeLineIsConcept
<1>3. \A i \in DOMAIN s : s[i] \in Known(in)
  <2> HIDE DEF s
  <2> QED BY <1>1
<1>4. [i \in DOMAIN s |-> f[s[i]]] = [i \in DOMAIN s |-> OvertimeLine(in, s[i])]
  <2> HIDE DEF s
  <2> QED BY <1>3
<1>5. [i \in DOMAIN s |-> f[s[i]]] \in Seq(ConceptLine(unit))
  <2> HIDE DEF f, s, unit
  <2> QED BY <1>1, <1>2, MappedConcepts
<1>6. <<>> \in Seq(ConceptLine(unit))
  OBVIOUS
<1> QED BY <1>4, <1>5, <1>6, OvertimeLinesUnfolded

LEMMA HolidayLineIsConcept ==
  ASSUME NEW in, WellTyped(in), ~DividesByZero(in)
  PROVE  HolidayLine(in) \in Seq(ConceptLine(in.parameters.conceptUnit))
<1> DEFINE rate == in.parameters.holiday.multiplier
<1>1. rate \in Int /\ in.holidayMinutes \in Int
  BY DEF WellTyped
<1>2. HourlyAmount(in, rate, in.holidayMinutes) \in Multiples(in.parameters.conceptUnit)
  BY <1>1, HourlyIsRounded
<1>3. Line("HOLIDAY_WORKED", "CREDIT", in.holidayMinutes, rate,
           HourlyAmount(in, rate, in.holidayMinutes))
        \in ConceptLine(in.parameters.conceptUnit)
  BY <1>1, <1>2, SMT DEF Line, ConceptLine, ConceptCodes
<1>4. <<>> \in Seq(ConceptLine(in.parameters.conceptUnit))
  OBVIOUS
<1>5. ASSUME NEW T, NEW l \in T PROVE <<l>> \in Seq(T)
  OBVIOUS
<1> QED BY <1>3, <1>4, <1>5, Zenon DEF HolidayLine, Only

\* What a list of lines adds up to for one sign
SignWeight(unit, sign) == [l \in AnyLine(unit) |-> IF l.sign = sign THEN l.amount ELSE 0]

LEMMA SignWeightIsInteger ==
  ASSUME NEW unit \in Nat, NEW sign
  PROVE  \A l \in AnyLine(unit) : SignWeight(unit, sign)[l] \in Int
<1>1. \A l \in AnyLine(unit) : l.amount \in Multiples(unit)
  BY DEF AnyLine
<1>2. \A l \in AnyLine(unit) : l.amount \in Int
  BY <1>1, MultiplesAreIntegers
<1> QED BY <1>2 DEF SignWeight

LEMMA TotalWeighs ==
  ASSUME NEW unit \in Nat, NEW lines \in Seq(AnyLine(unit)), NEW sign
  PROVE  /\ Total(lines, sign) = Weigh(lines, SignWeight(unit, sign))
         /\ Total(lines, sign) \in Int
<1>1. \A i \in DOMAIN lines : lines[i] \in AnyLine(unit)
  OBVIOUS
<1>2. [i \in DOMAIN lines |-> IF lines[i].sign = sign THEN lines[i].amount ELSE 0]
        = Weights(lines, SignWeight(unit, sign))
  BY <1>1 DEF Weights, SignWeight
<1>3. Total(lines, sign) = Weigh(lines, SignWeight(unit, sign))
  BY <1>2 DEF Total, AmountWhere, Weigh
<1>4. Weigh(lines, SignWeight(unit, sign)) \in Int
  BY SignWeightIsInteger, WeightsAreIntegers
<1> QED BY <1>3, <1>4

LEMMA ConceptsAreLines ==
  ASSUME NEW unit
  PROVE  /\ ConceptLine(unit) \subseteq AnyLine(unit)
         /\ Seq(ConceptLine(unit)) \subseteq Seq(AnyLine(unit))
<1>1. ConceptLine(unit) \subseteq AnyLine(unit)
  BY DEF ConceptLine, AnyLine
<1> QED BY <1>1

LEMMA TotalOfBoth ==
  ASSUME NEW unit \in Nat, NEW s \in Seq(AnyLine(unit)), NEW t \in Seq(AnyLine(unit)), NEW sign
  PROVE  /\ s \o t \in Seq(AnyLine(unit))
         /\ Total(s \o t, sign) = Total(s, sign) + Total(t, sign)
<1>1. s \o t \in Seq(AnyLine(unit))
  OBVIOUS
<1>2. Weigh(s \o t, SignWeight(unit, sign))
        = Weigh(s, SignWeight(unit, sign)) + Weigh(t, SignWeight(unit, sign))
  BY SignWeightIsInteger, WeighBoth
<1> QED BY <1>1, <1>2, TotalWeighs

\* The tier found is one of the version's.
LEMMA TierIsListed ==
  ASSUME NEW in, WellTyped(in), TierOf(in) # 0
  PROVE  TierOf(in) \in DOMAIN in.parameters.seniority.tiers
<1> DEFINE tiers == in.parameters.seniority.tiers
           I == {i \in 1..Len(tiers) : Covers(tiers[i], YearsOf(in))}
<1>1. TierOf(in) = IF I # {} THEN Min(I) ELSE 0
  BY DEF TierOf, SelectInSeq
<1>2. I # {}
  BY <1>1
<1>3. Len(tiers) \in Nat /\ DOMAIN tiers = 1..Len(tiers)
  <2>1. tiers \in Seq(Tier)
    BY DEF WellTyped
  <2> HIDE DEF tiers
  <2> QED BY <2>1
<1>4. Min(I) \in I
  <2>1. I \in SUBSET Nat
    BY <1>3, SMT
  <2> HIDE DEF I
  <2> QED BY <1>2, <2>1, LeastExists
<1> QED BY <1>1, <1>2, <1>3, <1>4

LEMMA SeniorityLineIsConcept ==
  ASSUME NEW in, WellTyped(in), ~DividesByZero(in)
  PROVE  SeniorityLine(in) \in Seq(ConceptLine(in.parameters.conceptUnit))
<1> DEFINE v == in.parameters
           rule == v.seniority
           basis == BaseLine(in).amount +
             (IF rule.basis = "BASE_PLUS_OVERTIME"
              THEN Total(OvertimeLines(in), "CREDIT") ELSE 0)
           percentage == rule.tiers[TierOf(in)].percentage
           amount == RoundConcept(v, Percentage(basis, percentage))
<1>1. CASE ~(rule.enabled /\ TierOf(in) # 0)
  <2>1. SeniorityLine(in) = <<>>
    BY <1>1 DEF SeniorityLine
  <2> QED BY <2>1
<1>2. CASE rule.enabled /\ TierOf(in) # 0
  <2>1. v.conceptUnit \in Nat
    BY DEF WellTyped
  <2>2. BaseLine(in).amount \in Int
    <3>1. BaseLine(in).amount \in Multiples(v.conceptUnit)
      BY BaseLineIsConcept DEF ConceptLine
    <3> QED BY <2>1, <3>1, MultiplesAreIntegers
  <2>3. Total(OvertimeLines(in), "CREDIT") \in Int
    BY <2>1, OvertimeLinesAreConcepts, ConceptsAreLines, TotalWeighs
  <2>4. basis \in Int
    BY <2>2, <2>3, SMT
  <2>5. percentage \in Int
    <3>1. rule.tiers \in Seq(Tier)
      BY DEF WellTyped
    <3>2. TierOf(in) \in DOMAIN rule.tiers
      BY <1>2, TierIsListed
    <3>3. rule.tiers[TierOf(in)] \in Tier
      <4> HIDE DEF rule
      <4> QED BY <3>1, <3>2
    <3> QED BY <3>3 DEF Tier
  <2> HIDE DEF basis, percentage
  <2>6. Percentage(basis, percentage) \in Int
    BY <2>4, <2>5, NearestIsInteger, basis * percentage \in Int, SMT DEF Percentage
  <2>7. amount \in Multiples(v.conceptUnit)
    BY <2>6, ConceptIsRounded
  <2>8. YearsOf(in) \in Int
    <3>1. in.startDate \in Nat /\ in.to \in Nat
      BY DEF WellTyped
    <3> QED BY <3>1, SMT DEF YearsOf, CompletedYears
  <2> HIDE DEF amount
  <2>9. Line("SENIORITY", "CREDIT", YearsOf(in), percentage, amount)
          \in ConceptLine(v.conceptUnit)
    BY <2>5, <2>7, <2>8, SMT DEF Line, ConceptLine, ConceptCodes
  <2>10. SeniorityLine(in) = <<Line("SENIORITY", "CREDIT", YearsOf(in), percentage, amount)>>
    BY <1>2 DEF SeniorityLine, basis, percentage, amount
  <2> QED BY <2>9, <2>10
<1> QED BY <1>1, <1>2

LEMMA OneOrNone ==
  ASSUME NEW T, NEW condition, NEW l, condition => l \in T
  PROVE  Only(condition, l) \in Seq(T)
<1>1. <<>> \in Seq(T)
  OBVIOUS
<1>2. ASSUME NEW e \in T PROVE <<e>> \in Seq(T)
  OBVIOUS
<1> QED BY <1>1, <1>2, Zenon DEF Only

LEMMA ZoneLineIsConcept ==
  ASSUME NEW in, WellTyped(in), ~DividesByZero(in)
  PROVE  ZoneLine(in) \in Seq(ConceptLine(in.parameters.conceptUnit))
<1> DEFINE v == in.parameters
           percentage == v.zone.zones[in.zone]
           line == Line("UNFAVORABLE_ZONE", "CREDIT", 0, percentage,
                        RoundConcept(v, Percentage(BaseLine(in).amount, percentage)))
           condition == in.zone # "none" /\ ZoneIsKnown(in)
<1>1. ZoneLine(in) = Only(condition, line)
  BY DEF ZoneLine, Only
<1>2. ASSUME condition PROVE line \in ConceptLine(v.conceptUnit)
  <2>1. percentage \in Int
    BY <1>2 DEF ZoneIsKnown, WellTyped
  <2>2. BaseLine(in).amount \in Int
    <3>1. v.conceptUnit \in Nat
      BY DEF WellTyped
    <3>2. BaseLine(in).amount \in Multiples(v.conceptUnit)
      BY BaseLineIsConcept DEF ConceptLine
    <3> QED BY <3>1, <3>2, MultiplesAreIntegers
  <2> HIDE DEF percentage
  <2>3. BaseLine(in).amount * percentage \in Int
    BY <2>1, <2>2, SMT
  <2>4. RoundConcept(v, Percentage(BaseLine(in).amount, percentage))
          \in Multiples(v.conceptUnit)
    BY <2>3, NearestIsInteger, ConceptIsRounded DEF Percentage
  <2> HIDE DEF v
  <2> QED BY <2>1, <2>4, SMT DEF Line, ConceptLine, ConceptCodes
<1> HIDE DEF condition, line
<1> QED BY <1>1, <1>2, OneOrNone

DaysWeight(type) == [e \in Event |-> IF Counts(e, type) THEN e.days ELSE 0]

LEMMA DaysWeightIsInteger ==
  ASSUME NEW type
  PROVE  \A e \in Event : DaysWeight(type)[e] \in Int
<1>1. \A e \in Event : e.days \in Int
  BY DEF Event
<1> QED BY <1>1 DEF DaysWeight

LEMMA ApprovedDaysWeigh ==
  ASSUME NEW in, WellTyped(in), NEW type
  PROVE  /\ ApprovedDays(in, type) = Weigh(in.events, DaysWeight(type))
         /\ ApprovedDays(in, type) \in Int
<1>1. in.events \in Seq(Event)
  BY DEF WellTyped
<1>2. \A i \in DOMAIN in.events : in.events[i] \in Event
  <2>1. ASSUME NEW q \in Seq(Event) PROVE \A k \in DOMAIN q : q[k] \in Event
    OBVIOUS
  <2> QED BY <1>1, <2>1
<1>3. [i \in DOMAIN in.events |-> IF Counts(in.events[i], type) THEN in.events[i].days ELSE 0]
        = Weights(in.events, DaysWeight(type))
  BY <1>2 DEF Weights, DaysWeight
<1>4. ApprovedDays(in, type) = Weigh(in.events, DaysWeight(type))
  BY <1>3 DEF ApprovedDays, Weigh
<1> QED BY <1>1, <1>4, DaysWeightIsInteger, WeightsAreIntegers

LEMMA DailyIsRounded ==
  ASSUME NEW in, WellTyped(in), NEW divisor \in Nat \ {0}, NEW days \in Int
  PROVE  RoundConcept(in.parameters, DailyValue(in, divisor) * days)
           \in Multiples(in.parameters.conceptUnit)
<1>1. DailyValue(in, divisor) \in Int
  <2>1. in.agreed \in Int
    BY DEF WellTyped
  <2> QED BY <2>1, NearestIsInteger DEF DailyValue
<1>2. DailyValue(in, divisor) * days \in Int
  BY <1>1, SMT
<1> QED BY <1>2, ConceptIsRounded

LEMMA VacationLineIsConcept ==
  ASSUME NEW in, WellTyped(in), ~DividesByZero(in)
  PROVE  VacationLine(in) \in Seq(ConceptLine(in.parameters.conceptUnit))
<1> DEFINE v == in.parameters
           days == ApprovedDays(in, "VACATION")
           divisor == v.vacation.divisor
           amount == RoundConcept(v, DailyValue(in, divisor) * days)
           condition == v.vacation.enabled /\ days > 0
           line == Line("VACATION", "CREDIT", days, divisor, amount)
<1>1. VacationLine(in) = Only(condition, line)
  BY DEF VacationLine
<1>2. ASSUME condition PROVE line \in ConceptLine(v.conceptUnit)
  <2>1. divisor \in Nat \ {0}
    BY <1>2 DEF WellTyped, DividesByZero
  <2>2. days \in Int
    BY ApprovedDaysWeigh
  <2> HIDE DEF divisor, days
  <2>3. amount \in Multiples(v.conceptUnit)
    BY <2>1, <2>2, DailyIsRounded
  <2> HIDE DEF amount, v
  <2> QED BY <2>1, <2>2, <2>3, SMT DEF Line, ConceptLine, ConceptCodes
<1> HIDE DEF condition, line
<1> QED BY <1>1, <1>2, OneOrNone

LEMMA AnnualBonusLineIsConcept ==
  ASSUME NEW in, WellTyped(in), ~DividesByZero(in)
  PROVE  AnnualBonusLine(in) \in Seq(ConceptLine(in.parameters.conceptUnit))
<1> DEFINE v == in.parameters
           months == in.annualBonus.months
           proportion == IF months < 0 THEN 0 ELSE IF months > 6 THEN 6 ELSE months
           divisor == v.annualBonus.divisor
           amount == RoundConcept(v,
                       Nearest(Nearest(in.annualBonus.best, divisor) * proportion, 6))
           condition == v.annualBonus.enabled /\ in.annualBonus.applies
           line == Line("ANNUAL_BONUS", "CREDIT", proportion, divisor, amount)
<1>1. AnnualBonusLine(in) = Only(condition, line)
  BY DEF AnnualBonusLine
<1>2. ASSUME condition PROVE line \in ConceptLine(v.conceptUnit)
  <2>1. divisor \in Nat \ {0}
    BY <1>2 DEF WellTyped, DividesByZero
  <2>2. proportion \in Int
    <3>1. months \in Int
      BY DEF WellTyped
    <3> HIDE DEF months
    <3> QED BY <3>1, SMT
  <2>3. in.annualBonus.best \in Int
    BY DEF WellTyped
  <2> HIDE DEF divisor, proportion
  <2>4. Nearest(in.annualBonus.best, divisor) * proportion \in Int
    <3>1. Nearest(in.annualBonus.best, divisor) \in Int
      BY <2>1, <2>3, NearestIsInteger
    <3> QED BY <2>2, <3>1, SMT
  <2>5. Nearest(Nearest(in.annualBonus.best, divisor) * proportion, 6) \in Int
    BY <2>4, NearestIsInteger
  <2>6. amount \in Multiples(v.conceptUnit)
    BY <2>5, ConceptIsRounded
  <2> HIDE DEF amount, v
  <2> QED BY <2>1, <2>2, <2>6, SMT DEF Line, ConceptLine, ConceptCodes
<1> HIDE DEF condition, line
<1> QED BY <1>1, <1>2, OneOrNone

LEMMA AbsenceLineIsConcept ==
  ASSUME NEW in, WellTyped(in), ~DividesByZero(in)
  PROVE  AbsenceLine(in) \in Seq(ConceptLine(in.parameters.conceptUnit))
<1> DEFINE v == in.parameters
           days == UnpaidDays(in)
           divisor == v.absence.divisor
           amount == RoundConcept(v, DailyValue(in, divisor) * days)
           condition == v.absence.enabled /\ days > 0
           line == Line("ABSENCE_DEDUCTION", "DEBIT", days, divisor, amount)
<1>1. AbsenceLine(in) = Only(condition, line)
  BY DEF AbsenceLine
<1>2. ASSUME condition PROVE line \in ConceptLine(v.conceptUnit)
  <2>1. divisor \in Nat \ {0}
    BY <1>2 DEF WellTyped, DividesByZero
  <2>2. days \in Int
    <3>1. ApprovedDays(in, "ABSENCE_UNJUSTIFIED") \in Int
      BY ApprovedDaysWeigh
    <3>2. ApprovedDays(in, "UNPAID_LEAVE") \in Int
      BY ApprovedDaysWeigh
    <3> QED BY <3>1, <3>2, SMT DEF UnpaidDays
  <2> HIDE DEF divisor, days
  <2>3. amount \in Multiples(v.conceptUnit)
    BY <2>1, <2>2, DailyIsRounded
  <2> HIDE DEF amount, v
  <2> QED BY <2>1, <2>2, <2>3, SMT DEF Line, ConceptLine, ConceptCodes
<1> HIDE DEF condition, line
<1> QED BY <1>1, <1>2, OneOrNone

AdvanceLine(in, e) ==
  Line("ADVANCE_DEDUCTION", "DEBIT", 0, 0, RoundConcept(in.parameters, e.amount))
Advances(in) ==
  Kept(in.events, {i \in DOMAIN in.events : Counts(in.events[i], "ADVANCE")})

LEMMA AdvanceLineIsConcept ==
  ASSUME NEW in, WellTyped(in), NEW e \in Event
  PROVE  AdvanceLine(in, e) \in ConceptLine(in.parameters.conceptUnit)
<1>1. e.amount \in Int
  BY DEF Event
<1>2. RoundConcept(in.parameters, e.amount) \in Multiples(in.parameters.conceptUnit)
  BY <1>1, ConceptIsRounded
<1> QED BY <1>2, SMT DEF AdvanceLine, Line, ConceptLine, ConceptCodes

LEMMA AdvanceLinesAreConcepts ==
  ASSUME NEW in, WellTyped(in)
  PROVE  /\ Advances(in) \in Seq(Event)
         /\ AdvanceLines(in) = [i \in DOMAIN Advances(in) |-> AdvanceLine(in, Advances(in)[i])]
         /\ AdvanceLines(in) \in Seq(ConceptLine(in.parameters.conceptUnit))
<1> DEFINE unit == in.parameters.conceptUnit
           f == [e \in Event |-> AdvanceLine(in, e)]
           s == Advances(in)
<1>1. s \in Seq(Event)
  <2>1. in.events \in Seq(Event)
    BY DEF WellTyped
  <2>2. \A e \in Event : [x \in Event |-> 0][e] \in Int
    OBVIOUS
  <2> QED BY <2>1, <2>2, WeighKept DEF Advances
<1>2. \A e \in Event : f[e] \in ConceptLine(unit)
  BY AdvanceLineIsConcept
<1> HIDE DEF s
<1>3. \A i \in DOMAIN s : s[i] \in Event
  BY <1>1
<1>4. [i \in DOMAIN s |-> f[s[i]]] = [i \in DOMAIN s |-> AdvanceLine(in, s[i])]
  BY <1>3
<1>5. [i \in DOMAIN s |-> f[s[i]]] \in Seq(ConceptLine(unit))
  <2> HIDE DEF f, unit
  <2> QED BY <1>1, <1>2, MappedConcepts
<1>6. AdvanceLines(in) = [i \in DOMAIN s |-> AdvanceLine(in, s[i])]
  BY DEF AdvanceLines, Where, Advances, AdvanceLine, s
<1> QED BY <1>1, <1>4, <1>5, <1>6 DEF s

AdditionalLine(in, c) ==
  Line("ADDITIONAL", c.sign, 0, 0, RoundConcept(in.parameters, c.amount))
Applied(in) ==
  Kept(in.additionalConcepts,
       {i \in DOMAIN in.additionalConcepts : ~Unjustified(in.additionalConcepts[i])})

LEMMA AdditionalLineIsConcept ==
  ASSUME NEW in, WellTyped(in), NEW c \in Additional
  PROVE  AdditionalLine(in, c) \in ConceptLine(in.parameters.conceptUnit)
<1>1. c.amount \in Int /\ c.sign \in {"CREDIT", "DEBIT"}
  BY DEF Additional
<1>2. RoundConcept(in.parameters, c.amount) \in Multiples(in.parameters.conceptUnit)
  BY <1>1, ConceptIsRounded
<1> QED BY <1>1, <1>2, SMT DEF AdditionalLine, Line, ConceptLine, ConceptCodes

LEMMA AdditionalLinesAreConcepts ==
  ASSUME NEW in, WellTyped(in)
  PROVE  /\ Applied(in) \in Seq(Additional)
         /\ AdditionalLines(in) = [i \in DOMAIN Applied(in) |-> AdditionalLine(in, Applied(in)[i])]
         /\ AdditionalLines(in) \in Seq(ConceptLine(in.parameters.conceptUnit))
<1> DEFINE unit == in.parameters.conceptUnit
           f == [c \in Additional |-> AdditionalLine(in, c)]
           s == Applied(in)
<1>1. s \in Seq(Additional)
  <2>1. in.additionalConcepts \in Seq(Additional)
    BY DEF WellTyped
  <2>2. \A c \in Additional : [x \in Additional |-> 0][c] \in Int
    OBVIOUS
  <2> QED BY <2>1, <2>2, WeighKept DEF Applied
<1>2. \A c \in Additional : f[c] \in ConceptLine(unit)
  BY AdditionalLineIsConcept
<1> HIDE DEF s
<1>3. \A i \in DOMAIN s : s[i] \in Additional
  BY <1>1
<1>4. [i \in DOMAIN s |-> f[s[i]]] = [i \in DOMAIN s |-> AdditionalLine(in, s[i])]
  BY <1>3
<1>5. [i \in DOMAIN s |-> f[s[i]]] \in Seq(ConceptLine(unit))
  <2> HIDE DEF f, unit
  <2> QED BY <1>1, <1>2, MappedConcepts
<1>6. AdditionalLines(in) = [i \in DOMAIN s |-> AdditionalLine(in, s[i])]
  BY DEF AdditionalLines, Where, Applied, AdditionalLine, s
<1> QED BY <1>1, <1>4, <1>5, <1>6 DEF s

LEMMA ConcatIsSeq ==
  ASSUME NEW T, NEW a \in Seq(T), NEW b \in Seq(T)
  PROVE  a \o b \in Seq(T)
OBVIOUS

LEMMA ConceptLinesAreConcepts ==
  ASSUME NEW in, WellTyped(in), ~DividesByZero(in)
  PROVE  ConceptLines(in) \in Seq(ConceptLine(in.parameters.conceptUnit))
<1> DEFINE T == ConceptLine(in.parameters.conceptUnit)
<1>1. <<BaseLine(in)>> \in Seq(T)
  BY BaseLineIsConcept
<1>2. /\ OvertimeLines(in) \in Seq(T) /\ HolidayLine(in) \in Seq(T)
      /\ SeniorityLine(in) \in Seq(T) /\ ZoneLine(in) \in Seq(T)
      /\ VacationLine(in) \in Seq(T) /\ AnnualBonusLine(in) \in Seq(T)
      /\ AbsenceLine(in) \in Seq(T)
  BY OvertimeLinesAreConcepts, HolidayLineIsConcept, SeniorityLineIsConcept,
     ZoneLineIsConcept, VacationLineIsConcept, AnnualBonusLineIsConcept, AbsenceLineIsConcept
<1>3. AdvanceLines(in) \in Seq(T) /\ AdditionalLines(in) \in Seq(T)
  BY AdvanceLinesAreConcepts, AdditionalLinesAreConcepts
<1> HIDE DEF T
<1> QED BY <1>1, <1>2, <1>3, ConcatIsSeq DEF ConceptLines, T

\* A total of the concepts, list by list
LEMMA TotalOfConcepts ==
  ASSUME NEW in, WellTyped(in), ~DividesByZero(in), NEW sign
  PROVE  Total(ConceptLines(in), sign)
           = Total(<<BaseLine(in)>>, sign) + Total(OvertimeLines(in), sign)
             + Total(HolidayLine(in), sign) + Total(SeniorityLine(in), sign)
             + Total(ZoneLine(in), sign) + Total(VacationLine(in), sign)
             + Total(AnnualBonusLine(in), sign) + Total(AbsenceLine(in), sign)
             + Total(AdvanceLines(in), sign) + Total(AdditionalLines(in), sign)
<1> DEFINE unit == in.parameters.conceptUnit
           T == AnyLine(unit)
<1>0. unit \in Nat
  BY DEF WellTyped
<1>1. <<BaseLine(in)>> \in Seq(T)
  BY BaseLineIsConcept, ConceptsAreLines
<1>2. /\ OvertimeLines(in) \in Seq(T) /\ HolidayLine(in) \in Seq(T)
      /\ SeniorityLine(in) \in Seq(T) /\ ZoneLine(in) \in Seq(T)
      /\ VacationLine(in) \in Seq(T) /\ AnnualBonusLine(in) \in Seq(T)
      /\ AbsenceLine(in) \in Seq(T)
  <2>1. Seq(ConceptLine(unit)) \subseteq Seq(T)
    BY ConceptsAreLines
  <2> QED
    BY <2>1, OvertimeLinesAreConcepts, HolidayLineIsConcept, SeniorityLineIsConcept,
       ZoneLineIsConcept, VacationLineIsConcept, AnnualBonusLineIsConcept, AbsenceLineIsConcept
<1>3. AdvanceLines(in) \in Seq(T) /\ AdditionalLines(in) \in Seq(T)
  BY AdvanceLinesAreConcepts, AdditionalLinesAreConcepts, ConceptsAreLines
<1>4. ASSUME NEW a \in Seq(T), NEW b \in Seq(T)
      PROVE  a \o b \in Seq(T) /\ Total(a \o b, sign) = Total(a, sign) + Total(b, sign)
  BY <1>0, TotalOfBoth
<1> HIDE DEF T, unit
<1> DEFINE l1 == <<BaseLine(in)>> \o OvertimeLines(in)
           l2 == l1 \o HolidayLine(in)
           l3 == l2 \o SeniorityLine(in)
           l4 == l3 \o ZoneLine(in)
           l5 == l4 \o VacationLine(in)
           l6 == l5 \o AnnualBonusLine(in)
           l7 == l6 \o AbsenceLine(in)
           l8 == l7 \o AdvanceLines(in)
           l9 == l8 \o AdditionalLines(in)
<1>5. l1 \in Seq(T) /\ Total(l1, sign) = Total(<<BaseLine(in)>>, sign) + Total(OvertimeLines(in), sign)
  BY <1>1, <1>2, <1>4
<1>6. l2 \in Seq(T) /\ Total(l2, sign) = Total(l1, sign) + Total(HolidayLine(in), sign)
  <2> HIDE DEF l1
  <2> QED BY <1>5, <1>2, <1>4
<1>7. l3 \in Seq(T) /\ Total(l3, sign) = Total(l2, sign) + Total(SeniorityLine(in), sign)
  <2> HIDE DEF l2
  <2> QED BY <1>6, <1>2, <1>4
<1>8. l4 \in Seq(T) /\ Total(l4, sign) = Total(l3, sign) + Total(ZoneLine(in), sign)
  <2> HIDE DEF l3
  <2> QED BY <1>7, <1>2, <1>4
<1>9. l5 \in Seq(T) /\ Total(l5, sign) = Total(l4, sign) + Total(VacationLine(in), sign)
  <2> HIDE DEF l4
  <2> QED BY <1>8, <1>2, <1>4
<1>10. l6 \in Seq(T) /\ Total(l6, sign) = Total(l5, sign) + Total(AnnualBonusLine(in), sign)
  <2> HIDE DEF l5
  <2> QED BY <1>9, <1>2, <1>4
<1>11. l7 \in Seq(T) /\ Total(l7, sign) = Total(l6, sign) + Total(AbsenceLine(in), sign)
  <2> HIDE DEF l6
  <2> QED BY <1>10, <1>2, <1>4
<1>12. l8 \in Seq(T) /\ Total(l8, sign) = Total(l7, sign) + Total(AdvanceLines(in), sign)
  <2> HIDE DEF l7
  <2> QED BY <1>11, <1>3, <1>4
<1>13. Total(l9, sign) = Total(l8, sign) + Total(AdditionalLines(in), sign)
  <2> HIDE DEF l8
  <2> QED BY <1>12, <1>3, <1>4
<1>14. ConceptLines(in) = l9
  BY DEF ConceptLines
<1> HIDE DEF l1, l2, l3, l4, l5, l6, l7, l8, l9
<1> QED BY <1>5, <1>6, <1>7, <1>8, <1>9, <1>10, <1>11, <1>12, <1>13, <1>14

----------------------------------------------------------------------------
(* Contributions *)

ContributionLine(unit) ==
  [code : {"CONTRIBUTION", "WORK_RISK_INSURANCE"}, sign : {"DEBIT", "INFORMATIONAL"},
   quantity : Int, rate : Int, amount : Multiples(unit)]

LEMMA ContributionsAreLines ==
  ASSUME NEW unit
  PROVE  /\ ContributionLine(unit) \subseteq AnyLine(unit)
         /\ Seq(ContributionLine(unit)) \subseteq Seq(AnyLine(unit))
<1>1. ContributionLine(unit) \subseteq AnyLine(unit)
  BY DEF ContributionLine, AnyLine
<1> QED BY <1>1

LEMMA ContributionIsRounded ==
  ASSUME NEW in, WellTyped(in), NEW c, c.percentage \in Int, c.amount \in Int, NEW gross \in Int
  PROVE  Contribution(in, c, gross) \in Multiples(in.parameters.conceptUnit)
<1>1. gross * c.percentage \in Int
  BY SMT
<1>2. Percentage(gross, c.percentage) \in Int
  BY <1>1, NearestIsInteger DEF Percentage
<1> QED BY <1>2, ConceptIsRounded DEF Contribution

ItemLine(in, c, gross) == Line("CONTRIBUTION", SignOf(c), 0, 0, Contribution(in, c, gross))
RiskLine(in, gross) ==
  Line("WORK_RISK_INSURANCE", "INFORMATIONAL", 0, 0,
       Contribution(in, in.parameters.workRisk, gross))
ItemLines(in, gross) ==
  LET items == in.parameters.contributions IN
  [i \in DOMAIN items |-> ItemLine(in, items[i], gross)]

LEMMA ContributionLinesUnfolded ==
  ASSUME NEW in, NEW gross
  PROVE  ContributionLines(in, gross)
           = ItemLines(in, gross) \o Only(in.parameters.workRisk.enabled, RiskLine(in, gross))
BY DEF ContributionLines, ItemLines, ItemLine, RiskLine

LEMMA ItemLineIsLine ==
  ASSUME NEW in, WellTyped(in), NEW gross \in Int, NEW c \in Contributed({"WORKER", "EMPLOYER"})
  PROVE  ItemLine(in, c, gross) \in ContributionLine(in.parameters.conceptUnit)
<1>1. c.percentage \in Int /\ c.amount \in Int
  BY DEF Contributed
<1>2. Contribution(in, c, gross) \in Multiples(in.parameters.conceptUnit)
  BY <1>1, ContributionIsRounded
<1> QED BY <1>2, SMT DEF ItemLine, SignOf, Line, ContributionLine

LEMMA ContributionLinesAreLines ==
  ASSUME NEW in, WellTyped(in), NEW gross \in Int
  PROVE  /\ ItemLines(in, gross) \in Seq(ContributionLine(in.parameters.conceptUnit))
         /\ RiskLine(in, gross) \in ContributionLine(in.parameters.conceptUnit)
         /\ Only(in.parameters.workRisk.enabled, RiskLine(in, gross))
              \in Seq(ContributionLine(in.parameters.conceptUnit))
         /\ ContributionLines(in, gross) \in Seq(ContributionLine(in.parameters.conceptUnit))
<1> DEFINE T == ContributionLine(in.parameters.conceptUnit)
           U == Contributed({"WORKER", "EMPLOYER"})
           items == in.parameters.contributions
<1>1. items \in Seq(U)
  BY DEF WellTyped
<1>2. ItemLines(in, gross) \in Seq(T)
  <2>1. DOMAIN items = 1..Len(items) /\ Len(items) \in Nat /\ \A i \in DOMAIN items : items[i] \in U
    <3> HIDE DEF items, U
    <3> QED BY <1>1
  <2>2. \A i \in DOMAIN items : ItemLine(in, items[i], gross) \in T
    BY <2>1, ItemLineIsLine
  <2> HIDE DEF items, T
  <2>3. [i \in 1..Len(items) |-> ItemLine(in, items[i], gross)] \in Seq(T)
    BY <2>1, <2>2
  <2> QED BY <2>1, <2>3 DEF ItemLines, items
<1>3. RiskLine(in, gross) \in T
  <2>1. in.parameters.workRisk.percentage \in Int /\ in.parameters.workRisk.amount \in Int
    BY DEF WellTyped
  <2>2. Contribution(in, in.parameters.workRisk, gross)
          \in Multiples(in.parameters.conceptUnit)
    BY <2>1, ContributionIsRounded
  <2> QED BY <2>2, SMT DEF RiskLine, Line, ContributionLine
<1> HIDE DEF T
<1>4. Only(in.parameters.workRisk.enabled, RiskLine(in, gross)) \in Seq(T)
  BY <1>3, OneOrNone
<1>5. ContributionLines(in, gross) \in Seq(T)
  BY <1>2, <1>4, ContributionLinesUnfolded, ConcatIsSeq
<1> QED BY <1>2, <1>3, <1>4, <1>5 DEF T

\* Each obligation is the line of a contribution: of the worker when the line is
\* charged, of the employer when it is informative.
LEMMA ObligationsAreLines ==
  ASSUME NEW in, WellTyped(in), NEW gross \in Int
  PROVE  LET lines == ContributionLines(in, gross)
             obligations == Obligations(in, gross)
         IN /\ DOMAIN obligations = DOMAIN lines
            /\ \A i \in DOMAIN lines :
                 /\ obligations[i].amount = lines[i].amount
                 /\ obligations[i].borneBy = "WORKER"
                      <=> lines[i].code = "CONTRIBUTION" /\ lines[i].sign = "DEBIT"
                 /\ obligations[i].borneBy = "EMPLOYER" <=> lines[i].sign = "INFORMATIONAL"
<1> DEFINE items == in.parameters.contributions
           risk == in.parameters.workRisk
           n == Len(items)
           U == Contributed({"WORKER", "EMPLOYER"})
           Owed(c) == [borneBy |-> c.borneBy, amount |-> Contribution(in, c, gross)]
           owed == [i \in DOMAIN items |-> Owed(items[i])]
           itemLines == ItemLines(in, gross)
           Match(o, l) ==
             /\ o.amount = l.amount
             /\ o.borneBy = "WORKER" <=> l.code = "CONTRIBUTION" /\ l.sign = "DEBIT"
             /\ o.borneBy = "EMPLOYER" <=> l.sign = "INFORMATIONAL"
<1>1. n \in Nat /\ DOMAIN items = 1..n /\ \A i \in DOMAIN items : items[i] \in U
  <2>1. items \in Seq(U)
    BY DEF WellTyped
  <2>2. ASSUME NEW q \in Seq(U)
        PROVE  Len(q) \in Nat /\ DOMAIN q = 1..Len(q) /\ \A i \in DOMAIN q : q[i] \in U
    OBVIOUS
  <2> QED BY <2>1, <2>2
<1>2. ASSUME NEW c \in U
      PROVE  Match(Owed(c), ItemLine(in, c, gross))
  <2>1. c.borneBy \in {"WORKER", "EMPLOYER"}
    BY DEF Contributed
  <2> QED BY <2>1 DEF ItemLine, SignOf, Line
<1>3. Match(Owed(risk), RiskLine(in, gross))
  <2>1. risk.borneBy = "EMPLOYER"
    BY DEF WellTyped
  <2> QED BY <2>1 DEF RiskLine, Line
<1> HIDE DEF Match, Owed
<1>4. \A i \in 1..n : Match(owed[i], itemLines[i])
  BY <1>1, <1>2 DEF ItemLines
<1>5. /\ owed = [i \in 1..n |-> owed[i]]
      /\ itemLines = [i \in 1..n |-> itemLines[i]]
  BY <1>1 DEF ItemLines
<1>6. Obligations(in, gross) = owed \o Only(risk.enabled, Owed(risk))
  BY DEF Obligations, Owed
<1>7. ContributionLines(in, gross) = itemLines \o Only(risk.enabled, RiskLine(in, gross))
  BY ContributionLinesUnfolded
<1> HIDE DEF owed, itemLines, n, items, U
<1>8. ASSUME NEW f, f = [i \in 1..n |-> f[i]], NEW e
      PROVE  /\ DOMAIN (f \o <<e>>) = 1..(n + 1)
             /\ \A i \in 1..n : (f \o <<e>>)[i] = f[i]
             /\ (f \o <<e>>)[n + 1] = e
             /\ f \o <<>> = f
  <2> DEFINE T == {f[i] : i \in 1..n} \union {e}
  <2>1. ASSUME NEW q \in Seq(T), Len(q) = n, NEW d \in T
        PROVE  /\ DOMAIN (q \o <<d>>) = 1..(n + 1)
               /\ \A i \in 1..n : (q \o <<d>>)[i] = q[i]
               /\ (q \o <<d>>)[n + 1] = d
               /\ q \o <<>> = q
    <3> HIDE DEF T
    <3> QED BY <1>1, <2>1, SMT
  <2>2. f \in Seq(T) /\ Len(f) = n
    <3>1. \A i \in 1..n : f[i] \in T
      OBVIOUS
    <3> HIDE DEF T
    <3>2. [i \in 1..n |-> f[i]] \in Seq(T) /\ Len([i \in 1..n |-> f[i]]) = n
      BY <1>1, <3>1
    <3> QED BY <1>8, <3>2
  <2>3. e \in T
    OBVIOUS
  <2> HIDE DEF T
  <2> QED BY <2>1, <2>2, <2>3
<1>9. /\ DOMAIN Obligations(in, gross) = DOMAIN ContributionLines(in, gross)
      /\ \A i \in DOMAIN ContributionLines(in, gross) :
           Match(Obligations(in, gross)[i], ContributionLines(in, gross)[i])
  <2>1. CASE risk.enabled
    <3>1. /\ Obligations(in, gross) = owed \o <<Owed(risk)>>
          /\ ContributionLines(in, gross) = itemLines \o <<RiskLine(in, gross)>>
      BY <1>6, <1>7, <2>1 DEF Only
    <3>2. /\ DOMAIN (owed \o <<Owed(risk)>>) = 1..(n + 1)
          /\ \A i \in 1..n : (owed \o <<Owed(risk)>>)[i] = owed[i]
          /\ (owed \o <<Owed(risk)>>)[n + 1] = Owed(risk)
      BY <1>5, <1>8
    <3>3. /\ DOMAIN (itemLines \o <<RiskLine(in, gross)>>) = 1..(n + 1)
          /\ \A i \in 1..n : (itemLines \o <<RiskLine(in, gross)>>)[i] = itemLines[i]
          /\ (itemLines \o <<RiskLine(in, gross)>>)[n + 1] = RiskLine(in, gross)
      BY <1>5, <1>8
    <3>4. \A i \in 1..(n + 1) : i \in 1..n \/ i = n + 1
      BY <1>1, SMT
    <3> QED BY <3>1, <3>2, <3>3, <3>4, <1>3, <1>4
  <2>2. CASE ~risk.enabled
    <3>1. /\ Obligations(in, gross) = owed \o <<>>
          /\ ContributionLines(in, gross) = itemLines \o <<>>
      BY <1>6, <1>7, <2>2 DEF Only
    <3>2. Obligations(in, gross) = owed /\ ContributionLines(in, gross) = itemLines
      BY <3>1, <1>5, <1>8
    <3> QED BY <3>2, <1>4, <1>5
  <2> QED BY <2>1, <2>2
<1> QED BY <1>9, Zenon DEF Match

ChargedWeight(unit) ==
  [l \in AnyLine(unit) |-> IF l.code = "CONTRIBUTION" /\ l.sign = "DEBIT" THEN l.amount ELSE 0]
Charged(lines) ==
  AmountWhere(lines, LAMBDA l : l.code = "CONTRIBUTION" /\ l.sign = "DEBIT")

LEMMA ChargedWeighs ==
  ASSUME NEW unit \in Nat, NEW lines \in Seq(AnyLine(unit))
  PROVE  /\ Charged(lines) = Weigh(lines, ChargedWeight(unit))
         /\ \A l \in AnyLine(unit) : ChargedWeight(unit)[l] \in Int
<1>1. \A i \in DOMAIN lines : lines[i] \in AnyLine(unit)
  OBVIOUS
<1>2. [i \in DOMAIN lines |-> IF lines[i].code = "CONTRIBUTION" /\ lines[i].sign = "DEBIT"
                              THEN lines[i].amount ELSE 0]
        = Weights(lines, ChargedWeight(unit))
  BY <1>1 DEF Weights, ChargedWeight
<1>3. \A l \in AnyLine(unit) : l.amount \in Int
  <2>1. \A l \in AnyLine(unit) : l.amount \in Multiples(unit)
    BY DEF AnyLine
  <2> QED BY <2>1, MultiplesAreIntegers
<1>4. Charged(lines) = Weigh(lines, ChargedWeight(unit))
  BY <1>2 DEF Charged, AmountWhere, Weigh
<1>5. \A l \in AnyLine(unit) : ChargedWeight(unit)[l] \in Int
  BY <1>3 DEF ChargedWeight
<1> QED BY <1>4, <1>5

LEMMA WeighZeros ==
  ASSUME NEW T, NEW s \in Seq(T), NEW w, \A e \in T : w[e] = 0
  PROVE  Weigh(s, w) = 0
<1>1. \A i \in DOMAIN s : s[i] \in T
  OBVIOUS
<1>2. \A e \in T : w[e] \in Int
  OBVIOUS
<1>3. Weights(s, w) \in Seq(Int) /\ Len(Weights(s, w)) = Len(s)
  BY <1>2, WeightsAreIntegers
<1>4. DOMAIN s = 1..Len(s)
  OBVIOUS
<1>5. \A i \in 1..Len(Weights(s, w)) : Weights(s, w)[i] = 0
  BY <1>1, <1>3, <1>4 DEF Weights
<1> QED BY <1>3, <1>5, SumOfZeros DEF Weigh

LEMMA TotalIsMultiple ==
  ASSUME NEW unit \in Nat, NEW lines \in Seq(AnyLine(unit)), NEW sign
  PROVE  \E m \in Int : Total(lines, sign) = m * unit
<1> DEFINE f == Weights(lines, SignWeight(unit, sign))
<1>1. f \in Seq(Int) /\ Len(f) = Len(lines)
  BY SignWeightIsInteger, WeightsAreIntegers
<1>2. DOMAIN lines = 1..Len(lines) /\ \A i \in DOMAIN lines : lines[i] \in AnyLine(unit)
  OBVIOUS
<1>3. ASSUME NEW l \in AnyLine(unit)
      PROVE  \E m \in Int : SignWeight(unit, sign)[l] = m * unit
  <2>1. SignWeight(unit, sign)[l] = IF l.sign = sign THEN l.amount ELSE 0
    BY DEF SignWeight
  <2>2. l.amount \in Multiples(unit)
    BY DEF AnyLine
  <2>3. PICK m \in Int : l.amount = m * unit
    BY <2>2 DEF Multiples
  <2>4. 0 = 0 * unit
    BY SMT
  <2> QED BY <2>1, <2>3, <2>4
<1>4. \A i \in 1..Len(f) : \E m \in Int : f[i] = m * unit
  BY <1>1, <1>2, <1>3 DEF Weights
<1> HIDE DEF f
<1>5. \E m \in Int : SumOf(f) = m * unit
  BY <1>1, <1>4, SumOfMultiples
<1> QED BY <1>5, TotalWeighs DEF Weigh, f

LEMMA MultipleOfMultiple ==
  ASSUME NEW unit \in Nat \ {0}, NEW coarse \in Nat \ {0}, unit % coarse = 0, NEW m \in Int
  PROVE  \E n \in Int : m * unit = n * coarse
<1>1. unit = (unit \div coarse) * coarse /\ unit \div coarse \in Int
  BY SMT
<1> DEFINE k == unit \div coarse
<1> HIDE DEF k
<1>2. m * unit = (m * k) * coarse /\ m * k \in Int
  BY <1>1, SMT DEF k
<1> QED BY <1>2

----------------------------------------------------------------------------
(* The totals *)

LEMMA TotalsUnfolded ==
  ASSUME NEW in
  PROVE  /\ Totals(in).lines = ConceptLines(in) \o ContributionLines(in, Totals(in).gross)
         /\ Totals(in).obligations = Obligations(in, Totals(in).gross)
         /\ Totals(in).gross = RoundTotal(in.parameters, Total(ConceptLines(in), "CREDIT"))
         /\ Totals(in).deductions = RoundTotal(in.parameters, Total(Totals(in).lines, "DEBIT"))
         /\ Totals(in).net = RoundTotal(in.parameters, Totals(in).gross - Totals(in).deductions)
BY DEF Totals, Deductions

\* Of which sign each part of the lines is
LEMMA TotalsBySign ==
  ASSUME NEW in, WellTyped(in), ~DividesByZero(in)
  PROVE  LET t == Totals(in)
             unit == in.parameters.conceptUnit
             contributions == ContributionLines(in, t.gross)
         IN /\ t.gross \in Int
            /\ t.lines \in Seq(AnyLine(unit))
            /\ Total(t.lines, "CREDIT") = Total(ConceptLines(in), "CREDIT")
            /\ Total(t.lines, "INFORMATIONAL") = Total(contributions, "INFORMATIONAL")
            /\ Charged(t.lines) = Charged(contributions)
<1> DEFINE t == Totals(in)
           unit == in.parameters.conceptUnit
           T == AnyLine(unit)
           concepts == ConceptLines(in)
           contributions == ContributionLines(in, t.gross)
<1>1. unit \in Nat /\ in.parameters.totalUnit \in Nat \ {0}
  BY DEF WellTyped
<1>2. concepts \in Seq(ConceptLine(unit))
  BY ConceptLinesAreConcepts
<1>3. concepts \in Seq(T)
  BY <1>2, ConceptsAreLines
<1>4. t.gross \in Int
  <2>1. Total(concepts, "CREDIT") \in Int
    BY <1>1, <1>3, TotalWeighs
  <2>2. RoundTotal(in.parameters, Total(concepts, "CREDIT")) \in Int
    BY <1>1, <2>1, RoundingIsClose DEF RoundTotal
  <2>3. t.gross = RoundTotal(in.parameters, Total(concepts, "CREDIT"))
    BY TotalsUnfolded
  <2> QED BY <2>2, <2>3
<1>5. contributions \in Seq(ContributionLine(unit))
  BY <1>4, ContributionLinesAreLines
<1>6. contributions \in Seq(T)
  BY <1>5, ContributionsAreLines
<1>7. t.lines = concepts \o contributions
  BY TotalsUnfolded
<1>8. ConceptLine(unit) \subseteq T /\ ContributionLine(unit) \subseteq T
  BY ConceptsAreLines, ContributionsAreLines
<1> HIDE DEF t, concepts, contributions, unit
<1>9. t.lines \in Seq(T)
  BY <1>3, <1>6, <1>7, ConcatIsSeq
<1>10. Total(t.lines, "CREDIT") = Total(concepts, "CREDIT")
  <2>1. \A l \in ContributionLine(unit) : SignWeight(unit, "CREDIT")[l] = 0
    <3>1. \A l \in ContributionLine(unit) : l.sign # "CREDIT"
      BY DEF ContributionLine
    <3> QED BY <1>8, <3>1 DEF SignWeight
  <2>2. Total(contributions, "CREDIT") = 0
    BY <1>1, <1>5, <1>6, <2>1, WeighZeros, TotalWeighs
  <2>3. Total(concepts, "CREDIT") \in Int
    BY <1>1, <1>3, TotalWeighs
  <2>4. Total(t.lines, "CREDIT") = Total(concepts, "CREDIT") + Total(contributions, "CREDIT")
    BY <1>1, <1>3, <1>6, <1>7, TotalOfBoth
  <2> QED BY <2>2, <2>3, <2>4, SMT
<1>11. Total(t.lines, "INFORMATIONAL") = Total(contributions, "INFORMATIONAL")
  <2>1. \A l \in ConceptLine(unit) : SignWeight(unit, "INFORMATIONAL")[l] = 0
    <3>1. \A l \in ConceptLine(unit) : l.sign # "INFORMATIONAL"
      BY DEF ConceptLine
    <3> QED BY <1>8, <3>1 DEF SignWeight
  <2>2. Total(concepts, "INFORMATIONAL") = 0
    BY <1>1, <1>2, <1>3, <2>1, WeighZeros, TotalWeighs
  <2>3. Total(contributions, "INFORMATIONAL") \in Int
    BY <1>1, <1>6, TotalWeighs
  <2>4. Total(t.lines, "INFORMATIONAL")
          = Total(concepts, "INFORMATIONAL") + Total(contributions, "INFORMATIONAL")
    BY <1>1, <1>3, <1>6, <1>7, TotalOfBoth
  <2> QED BY <2>2, <2>3, <2>4, SMT
<1>12. Charged(t.lines) = Charged(contributions)
  <2> DEFINE w == ChargedWeight(unit)
  <2>1. \A l \in ConceptLine(unit) : w[l] = 0
    <3>1. \A l \in ConceptLine(unit) : l.code # "CONTRIBUTION"
      BY DEF ConceptLine, ConceptCodes
    <3> QED BY <1>8, <3>1 DEF ChargedWeight
  <2>2. \A l \in T : w[l] \in Int
    BY <1>1, <1>3, ChargedWeighs
  <2> HIDE DEF w
  <2>3. Weigh(concepts, w) = 0
    BY <1>2, <2>1, WeighZeros
  <2>4. Weigh(contributions, w) \in Int
    BY <1>6, <2>2, WeightsAreIntegers
  <2>5. Weigh(t.lines, w) = Weigh(concepts, w) + Weigh(contributions, w)
    BY <1>3, <1>6, <1>7, <2>2, WeighBoth
  <2>6. Weigh(t.lines, w) = Weigh(contributions, w)
    BY <2>3, <2>4, <2>5, SMT
  <2> QED BY <1>1, <1>6, <1>9, <2>6, ChargedWeighs DEF w
<1> QED BY <1>4, <1>9, <1>10, <1>11, <1>12 DEF t, unit, concepts, contributions

\* The totals of an input are those of its lines.
LEMMA TotalsAddUp ==
  ASSUME NEW in, WellTyped(in), ~DividesByZero(in)
  PROVE  LET t == Totals(in)
             v == in.parameters
             Differ(a, b) == IF a < b THEN b - a ELSE a - b
             Owed(who) == AmountWhere(t.obligations, LAMBDA o : o.borneBy = who)
         IN /\ Differ(t.gross, Total(t.lines, "CREDIT")) < v.totalUnit
            /\ Differ(t.deductions, Total(t.lines, "DEBIT")) < v.totalUnit
            /\ t.net = t.gross - t.deductions
            /\ v.conceptUnit % v.totalUnit = 0 =>
                 t.net = Total(t.lines, "CREDIT") - Total(t.lines, "DEBIT")
            /\ Owed("WORKER") = Charged(t.lines)
            /\ Owed("EMPLOYER") = Total(t.lines, "INFORMATIONAL")
<1> DEFINE t == Totals(in)
           v == in.parameters
           unit == v.conceptUnit
           coarse == v.totalUnit
           credit == Total(t.lines, "CREDIT")
           debit == Total(t.lines, "DEBIT")
           contributions == ContributionLines(in, t.gross)
<1>1. unit \in Nat \ {0} /\ coarse \in Nat \ {0}
  BY DEF WellTyped
<1>2. t.lines \in Seq(AnyLine(unit)) /\ t.gross \in Int
  BY TotalsBySign
<1>3. /\ t.gross = RoundTotal(v, credit)
      /\ t.deductions = RoundTotal(v, debit)
      /\ t.net = RoundTotal(v, t.gross - t.deductions)
  BY TotalsUnfolded, TotalsBySign
<1>4. credit \in Int /\ debit \in Int
  BY <1>1, <1>2, TotalWeighs
<1>5. ASSUME NEW x \in Int
      PROVE  /\ RoundTotal(v, x) \in Int
             /\ \E n \in Int : RoundTotal(v, x) = n * coarse
             /\ RoundTotal(v, x) - x < coarse
             /\ x - RoundTotal(v, x) < coarse
  BY <1>1, RoundingIsClose DEF RoundTotal
<1>6. ASSUME NEW n \in Int
      PROVE  RoundTotal(v, n * coarse) = n * coarse
  BY <1>1, RoundedStays DEF RoundTotal
<1>7. t.net = t.gross - t.deductions
  <2>1. PICK n \in Int : t.gross = n * coarse
    BY <1>3, <1>4, <1>5
  <2>2. PICK m \in Int : t.deductions = m * coarse
    BY <1>3, <1>4, <1>5
  <2>3. t.gross - t.deductions = (n - m) * coarse /\ n - m \in Int
    BY <1>1, <2>1, <2>2, SMT
  <2> QED BY <1>3, <1>6, <2>3
<1>8. unit % coarse = 0 => t.net = credit - debit
  <2> SUFFICES ASSUME unit % coarse = 0 PROVE t.net = credit - debit
    OBVIOUS
  <2>1. ASSUME NEW sign PROVE RoundTotal(v, Total(t.lines, sign)) = Total(t.lines, sign)
    <3>1. PICK m \in Int : Total(t.lines, sign) = m * unit
      BY <1>1, <1>2, TotalIsMultiple
    <3>2. \E n \in Int : m * unit = n * coarse
      BY <1>1, MultipleOfMultiple
    <3> QED BY <1>6, <3>1, <3>2
  <2> QED BY <1>3, <1>7, <2>1
<1>9. /\ DOMAIN t.obligations = DOMAIN contributions
      /\ \A i \in DOMAIN contributions :
           /\ t.obligations[i].amount = contributions[i].amount
           /\ t.obligations[i].borneBy = "WORKER"
                <=> contributions[i].code = "CONTRIBUTION" /\ contributions[i].sign = "DEBIT"
           /\ t.obligations[i].borneBy = "EMPLOYER" <=> contributions[i].sign = "INFORMATIONAL"
  <2>1. t.obligations = Obligations(in, t.gross)
    BY TotalsUnfolded
  <2>2. t.gross \in Int
    BY <1>2
  <2> HIDE DEF t
  <2> QED BY <2>1, <2>2, ObligationsAreLines
<1> DEFINE Owed(who) == AmountWhere(t.obligations, LAMBDA o : o.borneBy = who)
<1>10. Owed("WORKER") = Charged(contributions)
  <2> HIDE DEF t, contributions
  <2>1. [i \in DOMAIN t.obligations |->
           IF t.obligations[i].borneBy = "WORKER" THEN t.obligations[i].amount ELSE 0]
        = [i \in DOMAIN contributions |->
             IF contributions[i].code = "CONTRIBUTION" /\ contributions[i].sign = "DEBIT"
             THEN contributions[i].amount ELSE 0]
    BY <1>9
  <2> QED BY <2>1 DEF AmountWhere, Charged
<1>11. Owed("EMPLOYER") = Total(contributions, "INFORMATIONAL")
  <2> HIDE DEF t, contributions
  <2>1. [i \in DOMAIN t.obligations |->
           IF t.obligations[i].borneBy = "EMPLOYER" THEN t.obligations[i].amount ELSE 0]
        = [i \in DOMAIN contributions |->
             IF contributions[i].sign = "INFORMATIONAL" THEN contributions[i].amount ELSE 0]
    BY <1>9
  <2> QED BY <2>1 DEF AmountWhere, Total
<1>12. /\ Charged(t.lines) = Charged(contributions)
       /\ Total(t.lines, "INFORMATIONAL") = Total(contributions, "INFORMATIONAL")
  BY TotalsBySign
<1>13. /\ (IF t.gross < credit THEN credit - t.gross ELSE t.gross - credit) < coarse
       /\ (IF t.deductions < debit THEN debit - t.deductions ELSE t.deductions - debit) < coarse
  <2> DEFINE g == RoundTotal(v, credit)
             d == RoundTotal(v, debit)
  <2>1. g \in Int /\ g - credit < coarse /\ credit - g < coarse
    BY <1>4, <1>5
  <2>2. d \in Int /\ d - debit < coarse /\ debit - d < coarse
    BY <1>4, <1>5
  <2>3. t.gross = g /\ t.deductions = d
    BY <1>3
  <2> HIDE DEF g, d, credit, debit, coarse
  <2> QED BY <1>4, <2>1, <2>2, <2>3
<1> HIDE DEF contributions
<1> QED BY <1>7, <1>8, <1>10, <1>11, <1>12, <1>13

\* What is known of a result with numbers
LEMMA CalculatedIs ==
  ASSUME ResultIsOfInput, Calculated
  PROVE  /\ IsInput(input) /\ WellTyped(input)
         /\ FindScale(input) # 0 /\ ~DividesByZero(input)
         /\ result.totals = Totals(input)
         /\ result.errors = BlockingErrors(input)
         /\ result.warnings = Warnings(input)
<1>1. IsInput(input) /\ result = CalculatePayroll(input) /\ result # Thrown
      /\ result.totals # EmptyTotals
  BY DEF ResultIsOfInput, Calculated
<1>2. FindScale(input) # 0
  BY <1>1 DEF CalculatePayroll
<1>3. ~DividesByZero(input)
  BY <1>1, <1>2 DEF CalculatePayroll
<1>4. result = [totals |-> Totals(input), errors |-> BlockingErrors(input),
                warnings |-> Warnings(input)]
  BY <1>1, <1>2, <1>3 DEF CalculatePayroll
<1>5. /\ result.totals = Totals(input)
      /\ result.errors = BlockingErrors(input)
      /\ result.warnings = Warnings(input)
  BY <1>4
<1> QED BY <1>1, <1>2, <1>3, <1>5, InputIsWellTyped

LEMMA ResultStays == Spec => []ResultIsOfInput
<1>1. Init => ResultIsOfInput
  BY DEF Init, ResultIsOfInput, IsInput
<1>2. ResultIsOfInput /\ [Calculate]_vars => ResultIsOfInput'
  BY DEF ResultIsOfInput, Calculate, vars, IsInput
<1> QED BY <1>1, <1>2, PTL DEF Spec

\* Every total is what its lines say, for every input and whatever the rounding.
THEOREM TotalsAddTheLines == Spec => []TotalsAreTheLines
<1>1. ResultIsOfInput => TotalsAreTheLines
  <2> SUFFICES ASSUME ResultIsOfInput, Calculated PROVE TotalsAreTheLines
    BY DEF TotalsAreTheLines
  <2>1. WellTyped(input) /\ ~DividesByZero(input) /\ result.totals = Totals(input)
    BY CalculatedIs
  <2> QED BY <2>1, TotalsAddUp DEF TotalsAreTheLines, Charged
<1> QED BY <1>1, ResultStays, PTL

----------------------------------------------------------------------------
(* What is left out *)

\* The two inputs agree on everything but their lists and their contributions.
SameTerms(a, b) ==
  /\ a.agreed = b.agreed /\ a.scheme = b.scheme
  /\ a.normalMinutes = b.normalMinutes /\ a.holidayMinutes = b.holidayMinutes
  /\ a.startDate = b.startDate /\ a.to = b.to
  /\ a.zone = b.zone /\ a.annualBonus = b.annualBonus
  /\ a.parameters.conceptUnit = b.parameters.conceptUnit
  /\ a.parameters.totalUnit = b.parameters.totalUnit
  /\ a.parameters.mode = b.parameters.mode
  /\ a.parameters.overtime = b.parameters.overtime
  /\ a.parameters.holiday = b.parameters.holiday
  /\ a.parameters.seniority = b.parameters.seniority
  /\ a.parameters.zone = b.parameters.zone
  /\ a.parameters.vacation = b.parameters.vacation
  /\ a.parameters.annualBonus = b.parameters.annualBonus
  /\ a.parameters.absence = b.parameters.absence

LEMMA SameLines ==
  ASSUME NEW a, NEW b, SameTerms(a, b)
  PROVE  /\ \A x : RoundConcept(a.parameters, x) = RoundConcept(b.parameters, x)
         /\ \A x : RoundTotal(a.parameters, x) = RoundTotal(b.parameters, x)
         /\ \A t, m : HourlyAmount(a, t, m) = HourlyAmount(b, t, m)
         /\ \A d : DailyValue(a, d) = DailyValue(b, d)
         /\ Monthly(a) <=> Monthly(b)
         /\ BaseLine(a) = BaseLine(b)
         /\ HolidayLine(a) = HolidayLine(b)
         /\ ZoneLine(a) = ZoneLine(b)
         /\ AnnualBonusLine(a) = AnnualBonusLine(b)
         /\ YearsOf(a) = YearsOf(b)
         /\ TierOf(a) = TierOf(b)
<1>1. \A x : RoundConcept(a.parameters, x) = RoundConcept(b.parameters, x)
  BY DEF RoundConcept, SameTerms
<1>2. \A x : RoundTotal(a.parameters, x) = RoundTotal(b.parameters, x)
  BY DEF RoundTotal, SameTerms
<1>3. (Monthly(a) <=> Monthly(b)) /\ HourlyValue(a) = HourlyValue(b)
  BY DEF Monthly, HourlyValue, SameTerms
<1>4. \A t, m : HourlyAmount(a, t, m) = HourlyAmount(b, t, m)
  BY <1>1, <1>3 DEF HourlyAmount
<1>5. \A d : DailyValue(a, d) = DailyValue(b, d)
  BY DEF DailyValue, SameTerms
<1>6. BaseLine(a) = BaseLine(b)
  BY <1>1, <1>3, <1>4 DEF BaseLine, SameTerms
<1>7. HolidayLine(a) = HolidayLine(b)
  BY <1>4 DEF HolidayLine, SameTerms
<1>8. ZoneLine(a) = ZoneLine(b)
  BY <1>1, <1>6 DEF ZoneLine, ZoneIsKnown, SameTerms
<1>9. AnnualBonusLine(a) = AnnualBonusLine(b)
  BY <1>1 DEF AnnualBonusLine, SameTerms
<1>10. YearsOf(a) = YearsOf(b)
  BY DEF YearsOf, SameTerms
<1>11. TierOf(a) = TierOf(b)
  BY <1>10 DEF TierOf, SelectInSeq, SameTerms
<1> QED BY <1>1, <1>2, <1>3, <1>4, <1>5, <1>6, <1>7, <1>8, <1>9, <1>10, <1>11

\* Then the lines that depend on the lists agree when the lists do.
LEMMA SameSeniority ==
  ASSUME NEW a, NEW b, SameTerms(a, b),
         Total(OvertimeLines(a), "CREDIT") = Total(OvertimeLines(b), "CREDIT")
  PROVE  SeniorityLine(a) = SeniorityLine(b)
<1>1. a.parameters.seniority = b.parameters.seniority
  BY DEF SameTerms
<1>2. /\ TierOf(a) = TierOf(b) /\ YearsOf(a) = YearsOf(b) /\ BaseLine(a) = BaseLine(b)
      /\ \A x : RoundConcept(a.parameters, x) = RoundConcept(b.parameters, x)
  BY SameLines
<1> QED BY <1>1, <1>2 DEF SeniorityLine

LEMMA SameDays ==
  ASSUME NEW a, NEW b, SameTerms(a, b),
         \A type \in Dated : ApprovedDays(a, type) = ApprovedDays(b, type)
  PROVE  /\ VacationLine(a) = VacationLine(b)
         /\ AbsenceLine(a) = AbsenceLine(b)
<1>1. /\ \A x : RoundConcept(a.parameters, x) = RoundConcept(b.parameters, x)
      /\ \A d : DailyValue(a, d) = DailyValue(b, d)
  BY SameLines
<1>2. ApprovedDays(a, "VACATION") = ApprovedDays(b, "VACATION")
  BY DEF Dated
<1>3. UnpaidDays(a) = UnpaidDays(b)
  BY DEF Dated, UnpaidDays
<1>4. /\ a.parameters.vacation = b.parameters.vacation
      /\ a.parameters.absence = b.parameters.absence
  BY DEF SameTerms
<1>5. VacationLine(a) = VacationLine(b)
  BY <1>1, <1>2, <1>4 DEF VacationLine
<1>6. AbsenceLine(a) = AbsenceLine(b)
  BY <1>1, <1>3, <1>4 DEF AbsenceLine
<1> QED BY <1>5, <1>6

LEMMA SeqElements ==
  ASSUME NEW T, NEW s \in Seq(T)
  PROVE  Len(s) \in Nat /\ DOMAIN s = 1..Len(s) /\ \A i \in DOMAIN s : s[i] \in T
OBVIOUS

LEMMA MappedSeq ==
  ASSUME NEW T, NEW U, NEW s \in Seq(T), NEW f, DOMAIN f = DOMAIN s,
         f = [i \in DOMAIN s |-> f[i]], \A i \in DOMAIN s : f[i] \in U
  PROVE  f \in Seq(U) /\ Len(f) = Len(s)
<1>1. Len(s) \in Nat /\ DOMAIN s = 1..Len(s)
  OBVIOUS
<1>2. [i \in 1..Len(s) |-> f[i]] \in Seq(U) /\ Len([i \in 1..Len(s) |-> f[i]]) = Len(s)
  BY <1>1
<1> QED BY <1>1, <1>2

LEMMA GrantedIs ==
  ASSUME NEW in, IsInput(in)
  PROVE  /\ SameTerms(Granted(in), in)
         /\ Granted(in).parameters = in.parameters
         /\ Granted(in).overtime = in.overtime
         /\ Granted(in).events
              = [i \in DOMAIN in.events |-> [in.events[i] EXCEPT !.approved = TRUE]]
         /\ Granted(in).additionalConcepts
              = [i \in DOMAIN in.additionalConcepts |->
                  [in.additionalConcepts[i] EXCEPT !.justified = TRUE]]
<1> DEFINE g == Granted(in)
<1>1. in \in InputLike(in)
  BY InputIsTyped
<1>2. DOMAIN in = {"parameters", "month", "calendarDays", "from", "to", "category", "liveIn",
                   "scheme", "agreed", "normalMinutes", "overtime", "holidayMinutes",
                   "startDate", "zone", "events", "annualBonus", "additionalConcepts"}
  BY <1>1 DEF InputLike
<1>3. /\ g.parameters = in.parameters /\ g.overtime = in.overtime
      /\ g.agreed = in.agreed /\ g.scheme = in.scheme
      /\ g.normalMinutes = in.normalMinutes /\ g.holidayMinutes = in.holidayMinutes
      /\ g.startDate = in.startDate /\ g.to = in.to
      /\ g.zone = in.zone /\ g.annualBonus = in.annualBonus
  BY <1>2 DEF Granted
<1>4. /\ g.events = [i \in DOMAIN in.events |-> [in.events[i] EXCEPT !.approved = TRUE]]
      /\ g.additionalConcepts = [i \in DOMAIN in.additionalConcepts |->
                                  [in.additionalConcepts[i] EXCEPT !.justified = TRUE]]
  BY <1>2 DEF Granted
<1> HIDE DEF g
<1>5. SameTerms(g, in)
  BY <1>3 DEF SameTerms
<1> QED BY <1>3, <1>4, <1>5 DEF g

\* When nothing is pending, approving everything gives the same totals.
LEMMA GrantedTotals ==
  ASSUME NEW in, IsInput(in), ~Some(in.events, IsPending),
         ~Some(in.additionalConcepts, Unjustified)
  PROVE  Totals(Granted(in)) = Totals(in)
<1> DEFINE g == Granted(in)
           s == in.events
           c == in.additionalConcepts
<1>1. /\ SameTerms(g, in) /\ g.parameters = in.parameters /\ g.overtime = in.overtime
      /\ g.events = [i \in DOMAIN s |-> [s[i] EXCEPT !.approved = TRUE]]
      /\ g.additionalConcepts = [i \in DOMAIN c |-> [c[i] EXCEPT !.justified = TRUE]]
  BY GrantedIs
<1>2. WellTyped(in)
  BY InputIsWellTyped
<1>3. s \in Seq(Event) /\ c \in Seq(Additional)
  BY <1>2 DEF WellTyped
<1>4. /\ Len(s) \in Nat /\ DOMAIN s = 1..Len(s) /\ \A i \in DOMAIN s : s[i] \in Event
      /\ Len(c) \in Nat /\ DOMAIN c = 1..Len(c) /\ \A i \in DOMAIN c : c[i] \in Additional
  BY <1>3, SeqElements
<1> HIDE DEF g, s, c
<1>5. \A i \in DOMAIN s : s[i].type \in Dated \union {"ADVANCE"} => s[i].approved = TRUE
  <2>1. \A i \in DOMAIN s : ~IsPending(s[i])
    BY DEF Some, s
  <2>2. \A i \in DOMAIN s : s[i].approved \in BOOLEAN
    BY <1>4 DEF Event
  <2> QED BY <2>1, <2>2 DEF IsPending
<1>6. ASSUME NEW e \in Event
      PROVE  LET h == [e EXCEPT !.approved = TRUE] IN
             /\ h \in Event /\ h.type = e.type /\ h.days = e.days /\ h.approved = TRUE
             /\ e.approved = TRUE => h = e
  BY DEF Event
<1>7. \A i \in DOMAIN s :
        /\ g.events[i].type = s[i].type /\ g.events[i].days = s[i].days
        /\ g.events[i].approved = TRUE /\ g.events[i] \in Event
        /\ s[i].approved = TRUE => g.events[i] = s[i]
  <2> SUFFICES ASSUME NEW i \in DOMAIN s
               PROVE  /\ g.events[i].type = s[i].type /\ g.events[i].days = s[i].days
                      /\ g.events[i].approved = TRUE /\ g.events[i] \in Event
                      /\ s[i].approved = TRUE => g.events[i] = s[i]
    OBVIOUS
  <2>1. g.events[i] = [s[i] EXCEPT !.approved = TRUE] /\ s[i] \in Event
    BY <1>1, <1>4
  <2> QED BY <1>6, <2>1, Zenon
<1>8. ASSUME NEW type \in Dated \union {"ADVANCE"}, NEW i \in DOMAIN s
      PROVE  Counts(g.events[i], type) <=> Counts(s[i], type)
  BY <1>5, <1>7 DEF Counts
<1>9. ASSUME NEW type \in Dated PROVE ApprovedDays(g, type) = ApprovedDays(in, type)
  <2>1. DOMAIN g.events = DOMAIN s
    BY <1>1
  <2>2. [i \in DOMAIN s |-> IF Counts(g.events[i], type) THEN g.events[i].days ELSE 0]
          = [i \in DOMAIN s |-> IF Counts(s[i], type) THEN s[i].days ELSE 0]
    BY <1>7, <1>8
  <2> QED BY <2>1, <2>2 DEF ApprovedDays, s
<1>10. g.events \in Seq(Event) /\ Len(g.events) = Len(s)
  <2>1. DOMAIN g.events = DOMAIN s /\ g.events = [i \in DOMAIN s |-> g.events[i]]
    BY <1>1
  <2> QED BY <1>3, <1>7, <2>1, MappedSeq
<1>11. AdvanceLines(g) = AdvanceLines(in)
  <2> DEFINE I == {i \in DOMAIN g.events : Counts(g.events[i], "ADVANCE")}
             J == {i \in DOMAIN s : Counts(s[i], "ADVANCE")}
  <2>1. \A k \in 1..Len(g.events) : (k \in I <=> k \in J) /\ (k \in I => g.events[k] = s[k])
    <3>1. DOMAIN g.events = DOMAIN s
      BY <1>1
    <3>2. \A k \in DOMAIN s : Counts(s[k], "ADVANCE") => s[k].approved = TRUE
      BY <1>5 DEF Counts
    <3> QED BY <1>4, <1>7, <1>8, <1>10, <3>1, <3>2
  <2>2. Len(g.events) \in Nat /\ Len(s) = Len(g.events)
    BY <1>4, <1>10
  <2> HIDE DEF I, J
  <2>3. Kept(g.events, I) = Kept(s, J)
    BY <2>1, <2>2, KeptAgrees
  <2>4. Advances(g) = Advances(in)
    BY <2>3 DEF Advances, I, J, s
  <2>5. \A e : AdvanceLine(g, e) = AdvanceLine(in, e)
    BY <1>1 DEF AdvanceLine
  <2>6. /\ AdvanceLines(g) = [i \in DOMAIN Advances(g) |-> AdvanceLine(g, Advances(g)[i])]
        /\ AdvanceLines(in) = [i \in DOMAIN Advances(in) |-> AdvanceLine(in, Advances(in)[i])]
    BY DEF AdvanceLines, Advances, AdvanceLine, Where
  <2> QED BY <2>4, <2>5, <2>6
<1>12. AdditionalLines(g) = AdditionalLines(in)
  <2>1. ASSUME NEW a \in Additional
        PROVE  LET h == [a EXCEPT !.justified = TRUE] IN
               h \in Additional /\ h.sign = a.sign /\ h.amount = a.amount /\ h.justified = TRUE
    BY DEF Additional
  <2>2. \A i \in DOMAIN c :
          /\ g.additionalConcepts[i] \in Additional
          /\ g.additionalConcepts[i].sign = c[i].sign
          /\ g.additionalConcepts[i].amount = c[i].amount
          /\ ~Unjustified(g.additionalConcepts[i])
    <3> SUFFICES ASSUME NEW i \in DOMAIN c
                 PROVE  /\ g.additionalConcepts[i] \in Additional
                        /\ g.additionalConcepts[i].sign = c[i].sign
                        /\ g.additionalConcepts[i].amount = c[i].amount
                        /\ ~Unjustified(g.additionalConcepts[i])
      OBVIOUS
    <3>1. g.additionalConcepts[i] = [c[i] EXCEPT !.justified = TRUE] /\ c[i] \in Additional
      BY <1>1, <1>4
    <3> QED BY <2>1, <3>1, Zenon DEF Unjustified
  <2>3. DOMAIN g.additionalConcepts = DOMAIN c
        /\ g.additionalConcepts = [i \in DOMAIN c |-> g.additionalConcepts[i]]
    BY <1>1
  <2>4. g.additionalConcepts \in Seq(Additional)
    BY <1>3, <2>2, <2>3, MappedSeq
  <2>5. Applied(g) = g.additionalConcepts
    <3> DEFINE I == {i \in DOMAIN g.additionalConcepts : ~Unjustified(g.additionalConcepts[i])}
    <3>1. DOMAIN g.additionalConcepts \subseteq I
      BY <2>2, <2>3
    <3> HIDE DEF I
    <3> QED BY <2>4, <3>1, KeptAll DEF Applied, I
  <2>6. Applied(in) = c
    <3> DEFINE I == {i \in DOMAIN c : ~Unjustified(c[i])}
    <3>1. DOMAIN c \subseteq I
      BY DEF Some, c
    <3> HIDE DEF I
    <3> QED BY <1>3, <3>1, KeptAll DEF Applied, I, c
  <2>7. /\ AdditionalLines(g) = [i \in DOMAIN Applied(g) |-> AdditionalLine(g, Applied(g)[i])]
        /\ AdditionalLines(in) = [i \in DOMAIN Applied(in) |-> AdditionalLine(in, Applied(in)[i])]
    BY DEF AdditionalLines, Applied, AdditionalLine, Where
  <2>8. \A i \in DOMAIN c : AdditionalLine(g, g.additionalConcepts[i]) = AdditionalLine(in, c[i])
    BY <1>1, <2>2 DEF AdditionalLine
  <2> QED BY <2>3, <2>5, <2>6, <2>7, <2>8
<1>13. OvertimeLines(g) = OvertimeLines(in)
  <2>1. KnownOvertime(g) = KnownOvertime(in)
    BY <1>1 DEF KnownOvertime, KnownKind
  <2>2. \A e : OvertimeLine(g, e) = OvertimeLine(in, e)
    <3>1. \A t, m : HourlyAmount(g, t, m) = HourlyAmount(in, t, m)
      BY <1>1, SameLines
    <3> QED BY <1>1, <3>1 DEF OvertimeLine
  <2> QED BY <1>1, <2>1, <2>2, OvertimeLinesUnfolded
<1>14. ConceptLines(g) = ConceptLines(in)
  <2>1. SeniorityLine(g) = SeniorityLine(in)
    BY <1>1, <1>13, SameSeniority
  <2>2. VacationLine(g) = VacationLine(in) /\ AbsenceLine(g) = AbsenceLine(in)
    BY <1>1, <1>9, SameDays
  <2>3. /\ BaseLine(g) = BaseLine(in) /\ HolidayLine(g) = HolidayLine(in)
        /\ ZoneLine(g) = ZoneLine(in) /\ AnnualBonusLine(g) = AnnualBonusLine(in)
    BY <1>1, SameLines
  <2> QED BY <1>11, <1>12, <1>13, <2>1, <2>2, <2>3 DEF ConceptLines
<1>15. \A x : /\ ContributionLines(g, x) = ContributionLines(in, x)
              /\ Obligations(g, x) = Obligations(in, x)
  BY <1>1 DEF ContributionLines, Obligations, Contribution
<1>16. \A l : Deductions(g, l) = Deductions(in, l)
  BY <1>1 DEF Deductions
<1> QED BY <1>1, <1>14, <1>15, <1>16 DEF Totals, g

\* Nothing is left out in silence, for every input.
THEOREM NothingLeftOutInSilence == Spec => []LeftOutIsAnnounced
<1>1. ResultIsOfInput => LeftOutIsAnnounced
  <2> SUFFICES ASSUME ResultIsOfInput, Calculated,
                      "UNAPPROVED_EVENT_IGNORED" \notin result.warnings,
                      "UNJUSTIFIED_DISCOUNT" \notin result.errors
               PROVE  result.totals = Totals(Granted(input))
    BY DEF LeftOutIsAnnounced
  <2>1. /\ IsInput(input) /\ FindScale(input) # 0
        /\ result.totals = Totals(input)
        /\ result.errors = BlockingErrors(input)
        /\ result.warnings = Warnings(input)
    BY CalculatedIs
  <2>2. ~Some(input.events, IsPending)
    BY <2>1 DEF Warnings, When
  <2>3. ~Some(input.additionalConcepts, Unjustified)
    BY <2>1 DEF BlockingErrors, When, Some
  <2> QED BY <2>1, <2>2, <2>3, GrantedTotals
<1> QED BY <1>1, ResultStays, PTL

----------------------------------------------------------------------------
(* What counts: the totals of a list of lines, from the list they come from *)

Hour == [kind : STRING, minutes : Nat]
OvertimeWeight(in, sign) ==
  [e \in Hour |->
    IF in.parameters.overtime.enabled /\ sign = "CREDIT" /\ KnownKind(in, e)
    THEN OvertimeLine(in, e).amount ELSE 0]
AdvanceWeight(in, sign) ==
  [e \in Event |->
    IF Counts(e, "ADVANCE") /\ sign = "DEBIT" THEN AdvanceLine(in, e).amount ELSE 0]
AdditionalWeight(in, sign) ==
  [c \in Additional |->
    IF ~Unjustified(c) /\ c.sign = sign THEN AdditionalLine(in, c).amount ELSE 0]
ItemWeight(in, gross, sign) ==
  [c \in Contributed({"WORKER", "EMPLOYER"}) |->
    IF SignOf(c) = sign THEN ItemLine(in, c, gross).amount ELSE 0]

LEMMA WeighKeptCounts ==
  ASSUME NEW T, NEW s \in Seq(T), NEW I, NEW w, \A e \in T : w[e] \in Int,
         \A i \in DOMAIN s : i \notin I => w[s[i]] = 0
  PROVE  Weigh(Kept(s, I), w) = Weigh(s, w)
<1>1. Weigh(Kept(s, I), w) = SumOf([i \in DOMAIN s |-> IF i \in I THEN w[s[i]] ELSE 0])
  BY WeighKept
<1>2. [i \in DOMAIN s |-> IF i \in I THEN w[s[i]] ELSE 0] = [i \in DOMAIN s |-> w[s[i]]]
  OBVIOUS
<1> QED BY <1>1, <1>2 DEF Weigh, Weights

\* A list of lines, made of the elements of a list
LEMMA TotalOfMapped ==
  ASSUME NEW T, NEW s \in Seq(T), NEW lines, NEW sign, NEW w,
         DOMAIN lines = DOMAIN s,
         \A i \in DOMAIN s :
           w[s[i]] = IF lines[i].sign = sign THEN lines[i].amount ELSE 0
  PROVE  Total(lines, sign) = Weigh(s, w)
<1>1. [i \in DOMAIN lines |-> IF lines[i].sign = sign THEN lines[i].amount ELSE 0]
        = Weights(s, w)
  BY DEF Weights
<1> QED BY <1>1 DEF Total, AmountWhere, Weigh

LEMMA OvertimeWeightIsInteger ==
  ASSUME NEW in, WellTyped(in), ~DividesByZero(in), NEW sign
  PROVE  \A e \in Hour : OvertimeWeight(in, sign)[e] \in Int
<1> SUFFICES ASSUME NEW e \in Hour PROVE OvertimeWeight(in, sign)[e] \in Int
  OBVIOUS
<1>1. KnownKind(in, e) => OvertimeLine(in, e) \in ConceptLine(in.parameters.conceptUnit)
  BY OvertimeLineIsConcept DEF Known, Hour
<1>2. KnownKind(in, e) => OvertimeLine(in, e).amount \in Multiples(in.parameters.conceptUnit)
  BY <1>1 DEF ConceptLine
<1>3. in.parameters.conceptUnit \in Nat
  BY DEF WellTyped
<1>4. KnownKind(in, e) => OvertimeLine(in, e).amount \in Int
  BY <1>2, <1>3, MultiplesAreIntegers
<1> QED BY <1>4 DEF OvertimeWeight

LEMMA OvertimeTotal ==
  ASSUME NEW in, WellTyped(in), ~DividesByZero(in), NEW sign
  PROVE  Total(OvertimeLines(in), sign) = Weigh(in.overtime, OvertimeWeight(in, sign))
<1> DEFINE s == in.overtime
           I == {i \in DOMAIN s : KnownKind(in, s[i])}
           w == OvertimeWeight(in, sign)
           k == KnownOvertime(in)
<1>1. s \in Seq(Hour)
  BY DEF WellTyped, Hour
<1>2. DOMAIN s = 1..Len(s) /\ \A i \in DOMAIN s : s[i] \in Hour
  <2> HIDE DEF s
  <2> QED BY <1>1, SeqElements
<1>3. \A e \in Hour : w[e] \in Int
  BY OvertimeWeightIsInteger
<1>4. \A i \in DOMAIN s : i \notin I => w[s[i]] = 0
  BY <1>2 DEF OvertimeWeight
<1>5. k = Kept(s, I)
  BY DEF KnownOvertime
<1>6. Weigh(k, w) = Weigh(s, w)
  <2> HIDE DEF s, I, w, k
  <2> QED BY <1>1, <1>3, <1>4, <1>5, WeighKeptCounts
<1>7. k \in Seq(Known(in))
  BY OvertimeIsKnown
<1>8. \A i \in DOMAIN k : k[i] \in Known(in)
  <2> HIDE DEF k
  <2> QED BY <1>7, SeqElements
<1>9. Known(in) \subseteq Hour
  BY DEF Known, Hour
<1>10. CASE in.parameters.overtime.enabled
  <2> DEFINE lines == OvertimeLines(in)
  <2>1. lines = [i \in DOMAIN k |-> OvertimeLine(in, k[i])]
    BY <1>10, OvertimeLinesUnfolded
  <2>2. \A e : OvertimeLine(in, e).sign = "CREDIT"
    BY DEF OvertimeLine, Line
  <2>3. \A e \in Known(in) : w[e] = IF sign = "CREDIT" THEN OvertimeLine(in, e).amount ELSE 0
    BY <1>9, <1>10 DEF OvertimeWeight, Known
  <2> HIDE DEF lines, k, w
  <2>4. DOMAIN lines = DOMAIN k
    BY <2>1
  <2>5. \A i \in DOMAIN k : w[k[i]] = IF lines[i].sign = sign THEN lines[i].amount ELSE 0
    BY <1>8, <2>1, <2>2, <2>3
  <2>6. Total(lines, sign) = Weigh(k, w)
    BY <1>7, <2>4, <2>5, TotalOfMapped
  <2> QED BY <1>6, <2>6 DEF lines, w
<1>11. CASE ~in.parameters.overtime.enabled
  <2>1. OvertimeLines(in) = <<>>
    BY <1>11, OvertimeLinesUnfolded
  <2>2. \A e \in Hour : w[e] = 0
    BY <1>11 DEF OvertimeWeight
  <2>3. Weigh(s, w) = 0
    <3> HIDE DEF s, w
    <3> QED BY <1>1, <2>2, WeighZeros
  <2>4. Total(<<>>, sign) = Weigh(<<>>, w)
    <3> HIDE DEF w
    <3>1. <<>> \in Seq(Hour) /\ DOMAIN <<>> = {}
      OBVIOUS
    <3> QED BY <3>1, TotalOfMapped
  <2> QED BY <2>1, <2>3, <2>4, WeighNone
<1> QED BY <1>10, <1>11

LEMMA AdvanceWeightIsInteger ==
  ASSUME NEW in, WellTyped(in), NEW sign
  PROVE  \A e \in Event : AdvanceWeight(in, sign)[e] \in Int
<1>1. in.parameters.conceptUnit \in Nat
  BY DEF WellTyped
<1>2. \A e \in Event : AdvanceLine(in, e).amount \in Multiples(in.parameters.conceptUnit)
  BY AdvanceLineIsConcept DEF ConceptLine
<1>3. \A e \in Event : AdvanceLine(in, e).amount \in Int
  BY <1>1, <1>2, MultiplesAreIntegers
<1> QED BY <1>3 DEF AdvanceWeight

LEMMA AdvanceTotal ==
  ASSUME NEW in, WellTyped(in), NEW sign
  PROVE  Total(AdvanceLines(in), sign) = Weigh(in.events, AdvanceWeight(in, sign))
<1> DEFINE s == in.events
           I == {i \in DOMAIN s : Counts(s[i], "ADVANCE")}
           w == AdvanceWeight(in, sign)
           k == Advances(in)
           lines == AdvanceLines(in)
           U == {s[i] : i \in I \cap DOMAIN s}
<1>1. s \in Seq(Event)
  BY DEF WellTyped
<1>2. DOMAIN s = 1..Len(s) /\ \A i \in DOMAIN s : s[i] \in Event
  <2> HIDE DEF s
  <2> QED BY <1>1, SeqElements
<1>3. \A e \in Event : w[e] \in Int
  BY AdvanceWeightIsInteger
<1>4. \A i \in DOMAIN s : i \notin I => w[s[i]] = 0
  BY <1>2 DEF AdvanceWeight
<1>5. k = Kept(s, I)
  BY DEF Advances
<1>6. Weigh(k, w) = Weigh(s, w)
  <2> HIDE DEF s, I, w, k
  <2> QED BY <1>1, <1>3, <1>4, <1>5, WeighKeptCounts
<1>7. k \in Seq(U)
  <2> HIDE DEF s, I, k
  <2> QED BY <1>1, <1>5, KeptIsKept
<1>8. \A e \in U : e \in Event /\ Counts(e, "ADVANCE")
  BY <1>2
<1>9. lines = [i \in DOMAIN k |-> AdvanceLine(in, k[i])]
  BY AdvanceLinesAreConcepts
<1>10. \A e : AdvanceLine(in, e).sign = "DEBIT"
  BY DEF AdvanceLine, Line
<1>11. \A e \in U : w[e] = IF sign = "DEBIT" THEN AdvanceLine(in, e).amount ELSE 0
  <2> HIDE DEF U
  <2> QED BY <1>8 DEF AdvanceWeight
<1> HIDE DEF lines, k, w, U
<1>12. \A i \in DOMAIN k : k[i] \in U
  BY <1>7, SeqElements
<1>13. DOMAIN lines = DOMAIN k
  BY <1>9
<1>14. \A i \in DOMAIN k : w[k[i]] = IF lines[i].sign = sign THEN lines[i].amount ELSE 0
  BY <1>9, <1>10, <1>11, <1>12
<1>15. Total(lines, sign) = Weigh(k, w)
  BY <1>7, <1>13, <1>14, TotalOfMapped
<1> QED BY <1>6, <1>15 DEF lines, w

LEMMA AdditionalWeightIsInteger ==
  ASSUME NEW in, WellTyped(in), NEW sign
  PROVE  \A c \in Additional : AdditionalWeight(in, sign)[c] \in Int
<1>1. in.parameters.conceptUnit \in Nat
  BY DEF WellTyped
<1>2. \A c \in Additional : AdditionalLine(in, c).amount \in Multiples(in.parameters.conceptUnit)
  BY AdditionalLineIsConcept DEF ConceptLine
<1>3. \A c \in Additional : AdditionalLine(in, c).amount \in Int
  BY <1>1, <1>2, MultiplesAreIntegers
<1> QED BY <1>3 DEF AdditionalWeight

LEMMA AdditionalTotal ==
  ASSUME NEW in, WellTyped(in), NEW sign
  PROVE  Total(AdditionalLines(in), sign)
           = Weigh(in.additionalConcepts, AdditionalWeight(in, sign))
<1> DEFINE s == in.additionalConcepts
           I == {i \in DOMAIN s : ~Unjustified(s[i])}
           w == AdditionalWeight(in, sign)
           k == Applied(in)
           lines == AdditionalLines(in)
           U == {s[i] : i \in I \cap DOMAIN s}
<1>1. s \in Seq(Additional)
  BY DEF WellTyped
<1>2. DOMAIN s = 1..Len(s) /\ \A i \in DOMAIN s : s[i] \in Additional
  <2> HIDE DEF s
  <2> QED BY <1>1, SeqElements
<1>3. \A c \in Additional : w[c] \in Int
  BY AdditionalWeightIsInteger
<1>4. \A i \in DOMAIN s : i \notin I => w[s[i]] = 0
  BY <1>2 DEF AdditionalWeight
<1>5. k = Kept(s, I)
  BY DEF Applied
<1>6. Weigh(k, w) = Weigh(s, w)
  <2> HIDE DEF s, I, w, k
  <2> QED BY <1>1, <1>3, <1>4, <1>5, WeighKeptCounts
<1>7. k \in Seq(U)
  <2> HIDE DEF s, I, k
  <2> QED BY <1>1, <1>5, KeptIsKept
<1>8. \A c \in U : c \in Additional /\ ~Unjustified(c)
  BY <1>2
<1>9. lines = [i \in DOMAIN k |-> AdditionalLine(in, k[i])]
  BY AdditionalLinesAreConcepts
<1>10. \A c : AdditionalLine(in, c).sign = c.sign
  BY DEF AdditionalLine, Line
<1>11. \A c \in U : w[c] = IF c.sign = sign THEN AdditionalLine(in, c).amount ELSE 0
  <2> HIDE DEF U
  <2> QED BY <1>8 DEF AdditionalWeight
<1> HIDE DEF lines, k, w, U
<1>12. \A i \in DOMAIN k : k[i] \in U
  BY <1>7, SeqElements
<1>13. DOMAIN lines = DOMAIN k
  BY <1>9
<1>14. \A i \in DOMAIN k : w[k[i]] = IF lines[i].sign = sign THEN lines[i].amount ELSE 0
  BY <1>9, <1>10, <1>11, <1>12
<1>15. Total(lines, sign) = Weigh(k, w)
  BY <1>7, <1>13, <1>14, TotalOfMapped
<1> QED BY <1>6, <1>15 DEF lines, w

LEMMA ItemTotal ==
  ASSUME NEW in, WellTyped(in), NEW gross \in Int, NEW sign
  PROVE  /\ \A c \in Contributed({"WORKER", "EMPLOYER"}) : ItemWeight(in, gross, sign)[c] \in Int
         /\ Total(ItemLines(in, gross), sign)
              = Weigh(in.parameters.contributions, ItemWeight(in, gross, sign))
<1> DEFINE s == in.parameters.contributions
           U == Contributed({"WORKER", "EMPLOYER"})
           w == ItemWeight(in, gross, sign)
           lines == ItemLines(in, gross)
<1>1. s \in Seq(U)
  BY DEF WellTyped
<1>2. \A i \in DOMAIN s : s[i] \in U
  <2> HIDE DEF s, U
  <2> QED BY <1>1, SeqElements
<1>3. \A c \in U : w[c] \in Int
  <2>1. in.parameters.conceptUnit \in Nat
    BY DEF WellTyped
  <2>2. \A c \in U : ItemLine(in, c, gross).amount \in Multiples(in.parameters.conceptUnit)
    BY ItemLineIsLine DEF ContributionLine
  <2>3. \A c \in U : ItemLine(in, c, gross).amount \in Int
    BY <2>1, <2>2, MultiplesAreIntegers
  <2> HIDE DEF U
  <2> QED BY <2>3 DEF ItemWeight, U
<1>4. lines = [i \in DOMAIN s |-> ItemLine(in, s[i], gross)]
  BY DEF ItemLines
<1>5. \A c : ItemLine(in, c, gross).sign = SignOf(c)
  BY DEF ItemLine, Line
<1>6. \A c \in U : w[c] = IF SignOf(c) = sign THEN ItemLine(in, c, gross).amount ELSE 0
  BY DEF ItemWeight
<1> HIDE DEF lines, s, w, U
<1>7. DOMAIN lines = DOMAIN s
  BY <1>4
<1>8. \A i \in DOMAIN s : w[s[i]] = IF lines[i].sign = sign THEN lines[i].amount ELSE 0
  BY <1>2, <1>4, <1>5, <1>6
<1>9. Total(lines, sign) = Weigh(s, w)
  BY <1>1, <1>7, <1>8, TotalOfMapped
<1> QED BY <1>3, <1>9 DEF lines, s, w, U

LEMMA RelevantIs ==
  ASSUME NEW in, IsInput(in)
  PROVE  LET r == Relevant(in)
             s == in.events
             c == in.parameters.contributions
         IN /\ SameTerms(r, in)
            /\ r.overtime = Reverse(KnownOvertime(in))
            /\ r.events = Reverse(Kept(s, {i \in DOMAIN s : s[i].approved}))
            /\ r.additionalConcepts = Reverse(Applied(in))
            /\ r.parameters.contributions
                 = Reverse(Kept(c, {i \in DOMAIN c : c[i].borneBy = "WORKER"}))
            /\ r.parameters.workRisk.enabled = FALSE
            /\ r.parameters.workRisk.borneBy = in.parameters.workRisk.borneBy
            /\ r.parameters.workRisk.percentage = in.parameters.workRisk.percentage
            /\ r.parameters.workRisk.amount = in.parameters.workRisk.amount
<1> DEFINE r == Relevant(in)
           v == in.parameters
           s == in.events
           c == v.contributions
           keptC == Reverse(Kept(c, {i \in DOMAIN c : c[i].borneBy = "WORKER"}))
           keptE == Reverse(Kept(s, {i \in DOMAIN s : s[i].approved}))
<1>1. in \in InputLike(in) /\ v \in VersionLike(v)
  BY InputIsTyped, VersionIsTyped
<1>2. DOMAIN in = {"parameters", "month", "calendarDays", "from", "to", "category", "liveIn",
                   "scheme", "agreed", "normalMinutes", "overtime", "holidayMinutes",
                   "startDate", "zone", "events", "annualBonus", "additionalConcepts"}
  BY <1>1 DEF InputLike
<1>3. DOMAIN v = {"status", "source", "isFixture", "preparedBy", "approvedBy",
                  "effectiveFrom", "effectiveTo", "conceptUnit", "totalUnit", "mode",
                  "categories", "seniority", "overtime", "holiday", "zone", "vacation",
                  "annualBonus", "absence", "contributions", "workRisk"}
  <2> HIDE DEF v
  <2> QED BY <1>1 DEF VersionLike
<1>4. DOMAIN v.workRisk = {"enabled", "borneBy", "basis", "percentage", "amount"}
  <2> HIDE DEF v
  <2> QED BY <1>1 DEF VersionLike
<1>5. /\ r.events = keptE
      /\ r.overtime = Reverse(KnownOvertime(in))
      /\ r.additionalConcepts = Reverse(Applied(in))
  BY <1>2 DEF Relevant, Where, KnownOvertime, KnownKind, Applied
<1>6. /\ r.agreed = in.agreed /\ r.scheme = in.scheme
      /\ r.normalMinutes = in.normalMinutes /\ r.holidayMinutes = in.holidayMinutes
      /\ r.startDate = in.startDate /\ r.to = in.to
      /\ r.zone = in.zone /\ r.annualBonus = in.annualBonus
  BY <1>2 DEF Relevant
<1>7. r.parameters.contributions = keptC
  BY <1>2, <1>3 DEF Relevant, Where
<1>8. /\ r.parameters.workRisk.enabled = FALSE
      /\ r.parameters.workRisk.borneBy = v.workRisk.borneBy
      /\ r.parameters.workRisk.percentage = v.workRisk.percentage
      /\ r.parameters.workRisk.amount = v.workRisk.amount
  BY <1>2, <1>3, <1>4 DEF Relevant
<1>9. /\ r.parameters.conceptUnit = v.conceptUnit /\ r.parameters.totalUnit = v.totalUnit
      /\ r.parameters.mode = v.mode /\ r.parameters.overtime = v.overtime
      /\ r.parameters.holiday = v.holiday /\ r.parameters.seniority = v.seniority
      /\ r.parameters.zone = v.zone /\ r.parameters.vacation = v.vacation
      /\ r.parameters.annualBonus = v.annualBonus /\ r.parameters.absence = v.absence
  BY <1>2, <1>3 DEF Relevant
<1> HIDE DEF r
<1>10. SameTerms(r, in)
  BY <1>6, <1>9 DEF SameTerms
<1> QED BY <1>5, <1>7, <1>8, <1>10 DEF r

LEMMA RelevantIsTyped ==
  ASSUME NEW in, IsInput(in), NEW type
  PROVE  /\ WellTyped(Relevant(in))
         /\ ApprovedDays(Relevant(in), type) = ApprovedDays(in, type)
<1> DEFINE r == Relevant(in)
           s == in.events
           c == in.parameters.contributions
           U == Contributed({"WORKER", "EMPLOYER"})
           I == {i \in DOMAIN s : s[i].approved}
           J == {i \in DOMAIN c : c[i].borneBy = "WORKER"}
<1>1. WellTyped(in)
  BY InputIsWellTyped
<1>2. /\ SameTerms(r, in)
      /\ r.overtime = Reverse(KnownOvertime(in))
      /\ r.events = Reverse(Kept(s, I))
      /\ r.additionalConcepts = Reverse(Applied(in))
      /\ r.parameters.contributions = Reverse(Kept(c, J))
      /\ r.parameters.workRisk.borneBy = in.parameters.workRisk.borneBy
      /\ r.parameters.workRisk.percentage = in.parameters.workRisk.percentage
      /\ r.parameters.workRisk.amount = in.parameters.workRisk.amount
  BY RelevantIs
<1>3. /\ in.overtime \in Seq(Hour) /\ s \in Seq(Event)
      /\ in.additionalConcepts \in Seq(Additional) /\ c \in Seq(U)
  BY <1>1 DEF WellTyped, Hour
<1>4. s \in Seq(Event) /\ \A i \in DOMAIN s : s[i] \in Event
  <2> HIDE DEF s
  <2> QED BY <1>3, SeqElements
<1> HIDE DEF r, s, c, U, I, J
<1>5. ASSUME NEW T, NEW q \in Seq(T), NEW K
      PROVE  Kept(q, K) \in Seq(T) /\ Reverse(Kept(q, K)) \in Seq(T)
  <2> DEFINE w == [e \in T |-> 0]
  <2>1. \A e \in T : w[e] \in Int
    OBVIOUS
  <2> HIDE DEF w
  <2> QED BY <2>1, WeighKept, WeighReverse
<1>6. /\ r.overtime \in Seq(Hour) /\ r.events \in Seq(Event)
      /\ r.additionalConcepts \in Seq(Additional)
      /\ r.parameters.contributions \in Seq(U)
  BY <1>2, <1>3, <1>5 DEF KnownOvertime, Applied
<1>7. WellTyped(r)
  BY <1>1, <1>2, <1>6 DEF WellTyped, SameTerms, Hour, U
<1>8. ApprovedDays(r, type) = ApprovedDays(in, type)
  <2> DEFINE w == DaysWeight(type)
  <2>1. \A e \in Event : w[e] \in Int
    BY DaysWeightIsInteger
  <2>2. \A i \in DOMAIN s : i \notin I => w[s[i]] = 0
    BY <1>4 DEF I, DaysWeight, Counts
  <2> HIDE DEF w
  <2>3. Weigh(Reverse(Kept(s, I)), w) = Weigh(s, w)
    BY <1>3, <2>1, <2>2, WeighRelevant
  <2> QED BY <1>1, <1>2, <1>7, <2>3, ApprovedDaysWeigh DEF w, s
<1> QED BY <1>7, <1>8 DEF r

LEMMA RelevantDivides ==
  ASSUME NEW in, IsInput(in), ~DividesByZero(in)
  PROVE  ~DividesByZero(Relevant(in))
<1> DEFINE r == Relevant(in)
<1>1. SameTerms(r, in)
  BY RelevantIs
<1>2. \A type : ApprovedDays(r, type) = ApprovedDays(in, type)
  BY RelevantIsTyped
<1> HIDE DEF r
<1>3. UnpaidDays(r) = UnpaidDays(in) /\ (Monthly(r) <=> Monthly(in))
  BY <1>1, <1>2 DEF UnpaidDays, Monthly, SameTerms
<1>4. /\ r.parameters.overtime = in.parameters.overtime
      /\ r.parameters.vacation = in.parameters.vacation
      /\ r.parameters.annualBonus = in.parameters.annualBonus
      /\ r.parameters.absence = in.parameters.absence
      /\ r.annualBonus = in.annualBonus
  BY <1>1 DEF SameTerms
<1> QED BY <1>2, <1>3, <1>4 DEF DividesByZero, r

\* Each list of lines adds up to the same without what does not count.
LEMMA RelevantTotals ==
  ASSUME NEW in, IsInput(in), ~DividesByZero(in), NEW sign
  PROVE  /\ Total(OvertimeLines(Relevant(in)), sign) = Total(OvertimeLines(in), sign)
         /\ Total(AdvanceLines(Relevant(in)), sign) = Total(AdvanceLines(in), sign)
         /\ Total(AdditionalLines(Relevant(in)), sign) = Total(AdditionalLines(in), sign)
<1> DEFINE r == Relevant(in)
           s == in.events
           I == {i \in DOMAIN s : s[i].approved}
<1>1. /\ SameTerms(r, in)
      /\ r.overtime = Reverse(KnownOvertime(in))
      /\ r.events = Reverse(Kept(s, I))
      /\ r.additionalConcepts = Reverse(Applied(in))
  BY RelevantIs
<1>2. WellTyped(in) /\ WellTyped(r) /\ ~DividesByZero(r)
  BY InputIsWellTyped, RelevantIsTyped, RelevantDivides
<1>3. /\ in.overtime \in Seq(Hour) /\ s \in Seq(Event)
      /\ in.additionalConcepts \in Seq(Additional)
  BY <1>2 DEF WellTyped, Hour
<1>4. /\ \A x : RoundConcept(r.parameters, x) = RoundConcept(in.parameters, x)
      /\ \A t, m : HourlyAmount(r, t, m) = HourlyAmount(in, t, m)
      /\ r.parameters.overtime = in.parameters.overtime
  BY <1>1, SameLines DEF SameTerms
<1> HIDE DEF r
<1>5. Total(OvertimeLines(r), sign) = Total(OvertimeLines(in), sign)
  <2> DEFINE q == in.overtime
             K == {i \in DOMAIN q : KnownKind(in, q[i])}
             w == OvertimeWeight(in, sign)
  <2>1. OvertimeWeight(r, sign) = w
    BY <1>4 DEF OvertimeWeight, KnownKind, OvertimeLine
  <2>2. \A e \in Hour : w[e] \in Int
    BY <1>2, OvertimeWeightIsInteger
  <2>3. \A i \in DOMAIN q : q[i] \in Hour
    <3> HIDE DEF q
    <3> QED BY <1>3, SeqElements DEF q
  <2>4. \A i \in DOMAIN q : i \notin K => w[q[i]] = 0
    BY <2>3 DEF OvertimeWeight
  <2>5. r.overtime = Reverse(Kept(q, K))
    BY <1>1 DEF KnownOvertime
  <2> HIDE DEF w, K
  <2>6. Weigh(Reverse(Kept(q, K)), w) = Weigh(q, w)
    BY <1>3, <2>2, <2>4, WeighRelevant
  <2> QED BY <1>2, <2>1, <2>5, <2>6, OvertimeTotal DEF w
<1>6. Total(AdvanceLines(r), sign) = Total(AdvanceLines(in), sign)
  <2> DEFINE w == AdvanceWeight(in, sign)
  <2>1. AdvanceWeight(r, sign) = w
    BY <1>4 DEF AdvanceWeight, AdvanceLine
  <2>2. \A e \in Event : w[e] \in Int
    BY <1>2, AdvanceWeightIsInteger
  <2>3. \A i \in DOMAIN s : s[i] \in Event
    <3> HIDE DEF s
    <3> QED BY <1>3, SeqElements DEF s
  <2>4. \A i \in DOMAIN s : i \notin I => w[s[i]] = 0
    BY <2>3 DEF AdvanceWeight, Counts
  <2> HIDE DEF w, I
  <2>5. Weigh(Reverse(Kept(s, I)), w) = Weigh(s, w)
    BY <1>3, <2>2, <2>4, WeighRelevant
  <2> QED BY <1>1, <1>2, <2>1, <2>5, AdvanceTotal DEF w
<1>7. Total(AdditionalLines(r), sign) = Total(AdditionalLines(in), sign)
  <2> DEFINE q == in.additionalConcepts
             K == {i \in DOMAIN q : ~Unjustified(q[i])}
             w == AdditionalWeight(in, sign)
  <2>1. AdditionalWeight(r, sign) = w
    BY <1>4 DEF AdditionalWeight, AdditionalLine
  <2>2. \A c \in Additional : w[c] \in Int
    BY <1>2, AdditionalWeightIsInteger
  <2>3. \A i \in DOMAIN q : q[i] \in Additional
    <3> HIDE DEF q
    <3> QED BY <1>3, SeqElements DEF q
  <2>4. \A i \in DOMAIN q : i \notin K => w[q[i]] = 0
    BY <2>3 DEF AdditionalWeight
  <2>5. r.additionalConcepts = Reverse(Kept(q, K))
    BY <1>1 DEF Applied
  <2> HIDE DEF w, K
  <2>6. Weigh(Reverse(Kept(q, K)), w) = Weigh(q, w)
    BY <1>3, <2>2, <2>4, WeighRelevant
  <2> QED BY <1>2, <2>1, <2>5, <2>6, AdditionalTotal DEF w
<1> QED BY <1>5, <1>6, <1>7 DEF r

\* What the family pays is not a deduction.
LEMMA RelevantContributions ==
  ASSUME NEW in, IsInput(in), NEW gross \in Int
  PROVE  Total(ContributionLines(Relevant(in), gross), "DEBIT")
           = Total(ContributionLines(in, gross), "DEBIT")
<1> DEFINE r == Relevant(in)
           c == in.parameters.contributions
           U == Contributed({"WORKER", "EMPLOYER"})
           J == {i \in DOMAIN c : c[i].borneBy = "WORKER"}
           w == ItemWeight(in, gross, "DEBIT")
<1>1. /\ SameTerms(r, in)
      /\ r.parameters.contributions = Reverse(Kept(c, J))
  BY RelevantIs
<1>2. WellTyped(in) /\ WellTyped(r)
  BY InputIsWellTyped, RelevantIsTyped
<1>3. ASSUME NEW a, WellTyped(a)
      PROVE  Total(ContributionLines(a, gross), "DEBIT") = Total(ItemLines(a, gross), "DEBIT")
  <2> DEFINE unit == a.parameters.conceptUnit
             risk == Only(a.parameters.workRisk.enabled, RiskLine(a, gross))
  <2>1. unit \in Nat
    BY <1>3 DEF WellTyped
  <2>2. /\ ItemLines(a, gross) \in Seq(ContributionLine(unit))
        /\ RiskLine(a, gross) \in ContributionLine(unit)
        /\ risk \in Seq(ContributionLine(unit))
    BY <1>3, ContributionLinesAreLines
  <2>3. /\ ItemLines(a, gross) \in Seq(AnyLine(unit)) /\ RiskLine(a, gross) \in AnyLine(unit)
        /\ risk \in Seq(AnyLine(unit))
    BY <2>2, ContributionsAreLines
  <2>4. Total(ContributionLines(a, gross), "DEBIT")
          = Total(ItemLines(a, gross), "DEBIT") + Total(risk, "DEBIT")
    BY <2>1, <2>3, TotalOfBoth, ContributionLinesUnfolded
  <2>5. Total(risk, "DEBIT") = 0
    <3> DEFINE T == {l \in AnyLine(unit) : l.sign = "INFORMATIONAL"}
               weight == SignWeight(unit, "DEBIT")
    <3>1. RiskLine(a, gross) \in T
      BY <2>3 DEF RiskLine, Line
    <3>2. \A l \in T : weight[l] = 0
      BY DEF SignWeight
    <3> HIDE DEF T, weight
    <3>3. risk \in Seq(T)
      BY <3>1, OneOrNone
    <3>4. Weigh(risk, weight) = 0
      <4> HIDE DEF risk
      <4> QED BY <3>2, <3>3, WeighZeros
    <3> QED BY <2>1, <2>3, <3>4, TotalWeighs DEF weight
  <2>6. Total(ItemLines(a, gross), "DEBIT") \in Int
    BY <2>1, <2>3, TotalWeighs
  <2> QED BY <2>4, <2>5, <2>6, SMT
<1> HIDE DEF r
<1>4. ItemWeight(r, gross, "DEBIT") = w
  <2>1. \A x : RoundConcept(r.parameters, x) = RoundConcept(in.parameters, x)
    BY <1>1, SameLines
  <2> QED BY <2>1 DEF ItemWeight, ItemLine, Contribution
<1>5. /\ Total(ItemLines(r, gross), "DEBIT") = Weigh(r.parameters.contributions, w)
      /\ Total(ItemLines(in, gross), "DEBIT") = Weigh(c, w)
      /\ \A e \in U : w[e] \in Int
  BY <1>2, <1>4, ItemTotal
<1>6. Weigh(Reverse(Kept(c, J)), w) = Weigh(c, w)
  <2>1. c \in Seq(U)
    BY <1>2 DEF WellTyped
  <2>2. \A i \in DOMAIN c : c[i] \in U
    <3> HIDE DEF c, U
    <3> QED BY <2>1, SeqElements
  <2>3. \A i \in DOMAIN c : i \notin J => w[c[i]] = 0
    BY <2>2 DEF ItemWeight, SignOf
  <2> HIDE DEF w, J, c, U
  <2> QED BY <1>5, <2>1, <2>3, WeighRelevant
<1> QED BY <1>1, <1>2, <1>3, <1>5, <1>6 DEF r

LEMMA RelevantCounts ==
  ASSUME NEW in, IsInput(in), ~DividesByZero(in)
  PROVE  /\ Totals(Relevant(in)).gross = Totals(in).gross
         /\ Totals(Relevant(in)).deductions = Totals(in).deductions
         /\ Totals(Relevant(in)).net = Totals(in).net
<1> DEFINE r == Relevant(in)
           unit == in.parameters.conceptUnit
<1>1. SameTerms(r, in)
  BY RelevantIs
<1>2. WellTyped(in) /\ WellTyped(r) /\ ~DividesByZero(r)
  BY InputIsWellTyped, RelevantIsTyped, RelevantDivides
<1>3. /\ BaseLine(r) = BaseLine(in) /\ HolidayLine(r) = HolidayLine(in)
      /\ ZoneLine(r) = ZoneLine(in) /\ AnnualBonusLine(r) = AnnualBonusLine(in)
      /\ \A x : RoundTotal(r.parameters, x) = RoundTotal(in.parameters, x)
  BY <1>1, SameLines
<1>4. SeniorityLine(r) = SeniorityLine(in)
  BY <1>1, RelevantTotals, SameSeniority
<1>5. VacationLine(r) = VacationLine(in) /\ AbsenceLine(r) = AbsenceLine(in)
  BY <1>1, RelevantIsTyped, SameDays
<1>6. ASSUME NEW sign
      PROVE  Total(ConceptLines(r), sign) = Total(ConceptLines(in), sign)
  <2>1. /\ Total(OvertimeLines(r), sign) = Total(OvertimeLines(in), sign)
        /\ Total(AdvanceLines(r), sign) = Total(AdvanceLines(in), sign)
        /\ Total(AdditionalLines(r), sign) = Total(AdditionalLines(in), sign)
    BY RelevantTotals
  <2> HIDE DEF r
  <2> QED BY <1>2, <1>3, <1>4, <1>5, <2>1, TotalOfConcepts
<1>7. Totals(r).gross = Totals(in).gross
  <2> HIDE DEF r
  <2> QED BY <1>3, <1>6, TotalsUnfolded
<1>8. ASSUME NEW a, WellTyped(a), ~DividesByZero(a)
      PROVE  Total(Totals(a).lines, "DEBIT")
               = Total(ConceptLines(a), "DEBIT")
                 + Total(ContributionLines(a, Totals(a).gross), "DEBIT")
  <2> DEFINE T == AnyLine(a.parameters.conceptUnit)
  <2>1. a.parameters.conceptUnit \in Nat /\ Totals(a).gross \in Int
    BY <1>8, TotalsBySign DEF WellTyped
  <2>2. ConceptLines(a) \in Seq(T)
    BY <1>8, ConceptLinesAreConcepts, ConceptsAreLines
  <2>3. ContributionLines(a, Totals(a).gross) \in Seq(T)
    BY <1>8, <2>1, ContributionLinesAreLines, ContributionsAreLines
  <2>4. Totals(a).lines = ConceptLines(a) \o ContributionLines(a, Totals(a).gross)
    BY TotalsUnfolded
  <2> QED BY <2>1, <2>2, <2>3, <2>4, TotalOfBoth
<1>9. Totals(in).gross \in Int
  BY <1>2, TotalsBySign
<1>10. Total(Totals(r).lines, "DEBIT") = Total(Totals(in).lines, "DEBIT")
  <2>1. Total(ContributionLines(r, Totals(in).gross), "DEBIT")
          = Total(ContributionLines(in, Totals(in).gross), "DEBIT")
    BY <1>9, RelevantContributions
  <2> HIDE DEF r
  <2> QED BY <1>2, <1>6, <1>7, <1>8, <2>1
<1> HIDE DEF r
<1>11. Totals(r).deductions = Totals(in).deductions
  BY <1>3, <1>10, TotalsUnfolded
<1>12. Totals(r).net = Totals(in).net
  BY <1>3, <1>7, <1>11, TotalsUnfolded
<1> QED BY <1>7, <1>11, <1>12 DEF r

\* What is not approved or justified, what the family pays and the order of the
\* lists move no total of the worker, for every input.
THEOREM OnlyTheRelevantMoves == Spec => []OnlyTheRelevantCounts
<1>1. ResultIsOfInput => OnlyTheRelevantCounts
  <2> SUFFICES ASSUME ResultIsOfInput, Calculated PROVE OnlyTheRelevantCounts
    BY DEF OnlyTheRelevantCounts
  <2>1. IsInput(input) /\ ~DividesByZero(input) /\ result.totals = Totals(input)
    BY CalculatedIs
  <2> QED BY <2>1, RelevantCounts DEF OnlyTheRelevantCounts
<1> QED BY <1>1, ResultStays, PTL

----------------------------------------------------------------------------
(* Sums of lists that have the same at other places *)

\* One element that moves moves the sum by as much.
LEMMA SumMoves ==
  ASSUME NEW f \in Seq(Int), NEW h \in Seq(Int), Len(h) = Len(f),
         NEW i \in 1..Len(f), NEW x \in Int, h[i] = f[i] + x,
         \A k \in 1..Len(f) : k # i => h[k] = f[k]
  PROVE  SumOf(h) = SumOf(f) + x
<1> DEFINE n == Len(f)
<1>0. \A a, b, c \in Int : a = b + c => a + x = b + (c + x) /\ a + x = (b + x) + c
  BY SMT
<1>1. n \in Nat /\ \A k \in 1..n : f[k] \in Int
  BY SMT
<1>2. PICK g : Sums(f, n, g) /\ SumOf(f) = g[n]
  BY <1>1, SumsOf
<1>3. \A k \in 0..n : g[k] \in Int
  BY <1>1, <1>2, SumsAreIntegers
<1> DEFINE moved == [k \in 0..n |-> IF k >= i THEN g[k] + x ELSE g[k]]
<1>4. moved[0] = 0
  BY <1>1, <1>2, SMT DEF Sums
<1>5. ASSUME NEW k \in 1..n PROVE moved[k] = moved[k - 1] + h[k]
  <2>0. n \in Nat /\ k \in 1..n /\ k \in Int /\ i \in Int
    BY <1>1, SMT
  <2>1. g[k] = g[k - 1] + f[k] /\ k - 1 \in 0..n /\ k \in 0..n
    <3>1. g[k] = g[k - 1] + f[k]
      BY <1>2 DEF Sums
    <3> HIDE DEF n
    <3> QED BY <2>0, <3>1, SMT
  <2>2. g[k] \in Int /\ g[k - 1] \in Int /\ f[k] \in Int
    BY <1>1, <1>3, <2>1
  <2>3. g[k] + x = g[k - 1] + (f[k] + x) /\ g[k] + x = (g[k - 1] + x) + f[k]
    BY <1>0, <2>1, <2>2
  <2>4. CASE k < i
    <3>1. moved[k] = g[k] /\ moved[k - 1] = g[k - 1] /\ h[k] = f[k]
      BY <2>0, <2>1, <2>4, SMT
    <3> HIDE DEF moved
    <3> QED BY <2>1, <3>1
  <2>5. CASE k = i
    <3>1. moved[k] = g[k] + x /\ moved[k - 1] = g[k - 1] /\ h[k] = f[k] + x
      BY <2>0, <2>1, <2>5, SMT
    <3> HIDE DEF moved
    <3> QED BY <2>3, <3>1
  <2>6. CASE k > i
    <3>0. k >= i /\ k - 1 >= i /\ k # i
      BY <2>0, <2>6, SMT
    <3>1. moved[k] = g[k] + x /\ moved[k - 1] = g[k - 1] + x /\ h[k] = f[k]
      BY <2>1, <3>0
    <3> HIDE DEF moved
    <3> QED BY <2>3, <3>1
  <2> QED BY <2>0, <2>4, <2>5, <2>6, SMT
<1>6. moved[n] = g[n] + x
  BY <1>1, SMT
<1> HIDE DEF moved, n
<1>7. SumOf(h) = moved[n]
  <2>1. Len(h) = n
    BY DEF n
  <2> QED BY <1>4, <1>5, <2>1, SumByParts
<1> QED BY <1>2, <1>6, <1>7

\* The sum of two lists, place by place
LEMMA SumOfTwo ==
  ASSUME NEW f \in Seq(Int), NEW h \in Seq(Int), NEW s \in Seq(Int),
         Len(h) = Len(f), Len(s) = Len(f), \A k \in 1..Len(f) : s[k] = f[k] + h[k]
  PROVE  SumOf(s) = SumOf(f) + SumOf(h)
<1> DEFINE n == Len(f)
<1>1. n \in Nat /\ \A k \in 1..n : f[k] \in Int /\ h[k] \in Int
  BY SMT
<1>2. PICK a : Sums(f, n, a) /\ SumOf(f) = a[n]
  BY <1>1, SumsOf
<1>3. PICK b : Sums(h, n, b) /\ SumOf(h) = b[n]
  <2>1. Len(h) \in Nat
    BY <1>1
  <2> QED BY <2>1, SumsOf
<1>4. \A k \in 0..n : a[k] \in Int /\ b[k] \in Int
  BY <1>1, <1>2, <1>3, SumsAreIntegers
<1> DEFINE g == [k \in 0..n |-> a[k] + b[k]]
<1>5. g[0] = 0 /\ g[n] = a[n] + b[n]
  <2>1. a[0] = 0 /\ b[0] = 0
    BY <1>2, <1>3 DEF Sums
  <2>2. 0 \in 0..n /\ n \in 0..n
    BY <1>1, SMT
  <2>3. g[0] = 0 + 0 /\ g[n] = a[n] + b[n]
    BY <2>1, <2>2
  <2> QED BY <2>3
<1>6. ASSUME NEW k \in 1..n PROVE g[k] = g[k - 1] + s[k]
  <2>1. k \in 0..n /\ k - 1 \in 0..n
    BY <1>1, SMT
  <2>2. a[k] = a[k - 1] + f[k] /\ b[k] = b[k - 1] + h[k] /\ s[k] = f[k] + h[k]
    BY <1>2, <1>3 DEF Sums
  <2>3. a[k] \in Int /\ a[k - 1] \in Int /\ b[k] \in Int /\ b[k - 1] \in Int /\ f[k] \in Int /\ h[k] \in Int
    BY <1>1, <1>4, <2>1
  <2>4. g[k] = a[k] + b[k] /\ g[k - 1] = a[k - 1] + b[k - 1]
    BY <2>1
  <2>5. \A p, q, u, v \in Int : (p + u) + (q + v) = (p + q) + (u + v)
    BY SMT
  <2>6. g[k] = (a[k - 1] + f[k]) + (b[k - 1] + h[k])
    BY <2>2, <2>4
  <2>7. (a[k - 1] + f[k]) + (b[k - 1] + h[k]) = (a[k - 1] + b[k - 1]) + (f[k] + h[k])
    <3> DEFINE p == a[k - 1]
               q == b[k - 1]
               u == f[k]
               v == h[k]
    <3>1. p \in Int /\ q \in Int /\ u \in Int /\ v \in Int
      BY <2>3
    <3> HIDE DEF g, n, p, q, u, v
    <3>2. (p + u) + (q + v) = (p + q) + (u + v)
      BY <3>1, <2>5
    <3> QED BY <3>2 DEF p, q, u, v
  <2>8. g[k - 1] + s[k] = (a[k - 1] + b[k - 1]) + (f[k] + h[k])
    BY <2>2, <2>4
  <2> HIDE DEF g, n
  <2> QED BY ONLY <2>6, <2>7, <2>8
<1> HIDE DEF g
<1>7. SumOf(s) = g[n]
  BY <1>5, <1>6, SumByParts
<1> QED BY <1>2, <1>3, <1>5, <1>7

\* The sum of a list is that of its front and its last element.
LEMMA SumOfFront ==
  ASSUME NEW f \in Seq(Int), NEW n \in Nat, Len(f) = n + 1
  PROVE  /\ [k \in 1..n |-> f[k]] \in Seq(Int)
         /\ Len([k \in 1..n |-> f[k]]) = n
         /\ f[n + 1] \in Int
         /\ SumOf(f) = SumOf([k \in 1..n |-> f[k]]) + f[n + 1]
<1> DEFINE h == [k \in 1..n |-> f[k]]
           x == f[n + 1]
<1>1. /\ x \in Int
      /\ \A k \in 1..n : f[k] \in Int
  BY SMT
<1>2. h \in Seq(Int) /\ Len(h) = n /\ \A k \in 1..n : h[k] = f[k]
  BY <1>1
<1>3. f = h \o <<x>>
  <2>1. Len(<<x>>) = 1 /\ <<x>>[1] = x /\ <<x>> \in Seq(Int)
    BY <1>1
  <2>2. h \o <<x>> = [k \in 1..n + 1 |-> IF k <= n THEN h[k] ELSE <<x>>[k - n]]
    <3> HIDE DEF h, x
    <3> QED BY <1>2, <2>1
  <2>3. f = [k \in 1..n + 1 |-> f[k]]
    OBVIOUS
  <2>4. ASSUME NEW k \in 1..n + 1 PROVE f[k] = IF k <= n THEN h[k] ELSE <<x>>[k - n]
    <3>1. CASE k <= n
      <4>1. k \in 1..n
        BY <3>1, SMT
      <4> QED BY <3>1, <4>1, <1>2
    <3>2. CASE ~(k <= n)
      <4>1. k = n + 1 /\ k - n = 1
        BY <3>2, SMT
      <4> QED BY <3>2, <4>1, <2>1
    <3> QED BY <3>1, <3>2
  <2> HIDE DEF h, x
  <2> QED BY <2>2, <2>3, <2>4
<1>4. SumOf(h \o <<x>>) = SumOf(h) + SumOf(<<x>>)
  <2>1. <<x>> \in Seq(Int)
    BY <1>1
  <2> HIDE DEF h, x
  <2> QED BY <1>2, <2>1, SumOfBoth
<1>5. SumOf(<<x>>) = x
  <2> HIDE DEF x
  <2> QED BY <1>1, SumOfOne
<1>6. SumOf(f) = SumOf(h) + x
  <2> HIDE DEF h, x
  <2> QED BY <1>3, <1>4, <1>5
<1> QED BY <1>1, <1>2, <1>6

\* A list that has another one at different places, and zeros elsewhere, has its sum.
Places(p, n, f, h) ==
  /\ p \in [1..n -> 1..Len(h)]
  /\ \A i \in 1..n : h[p[i]] = f[i]
  /\ \A i, j \in 1..n : p[i] = p[j] => i = j
  /\ \A k \in 1..Len(h) : (\A i \in 1..n : p[i] # k) => h[k] = 0

LEMMA SumAtPlaces ==
  ASSUME NEW f \in Seq(Int), NEW h \in Seq(Int), NEW p, Places(p, Len(f), f, h)
  PROVE  SumOf(h) = SumOf(f)
<1> DEFINE S == {n \in Nat : \A a \in Seq(Int), b \in Seq(Int) :
                   Len(a) = n /\ (\E q : Places(q, n, a, b)) => SumOf(b) = SumOf(a)}
<1>1. 0 \in S
  <2> SUFFICES ASSUME NEW a \in Seq(Int), NEW b \in Seq(Int), Len(a) = 0,
                      NEW q, Places(q, 0, a, b)
               PROVE  SumOf(b) = SumOf(a)
    OBVIOUS
  <2>1. \A k \in 1..Len(b) : b[k] = 0
    BY SMT DEF Places
  <2>2. \A k \in 1..Len(a) : a[k] = 0
    BY SMT
  <2> QED BY <2>1, <2>2, SumOfZeros
<1>2. ASSUME NEW n \in Nat, n \in S PROVE n + 1 \in S
  <2> SUFFICES ASSUME NEW a \in Seq(Int), NEW b \in Seq(Int), Len(a) = n + 1,
                      NEW q, Places(q, n + 1, a, b)
               PROVE  SumOf(b) = SumOf(a)
    OBVIOUS
  <2> DEFINE front == [k \in 1..n |-> a[k]]
             x == a[n + 1]
             at == q[n + 1]
             rest == [b EXCEPT ![at] = 0]
             r == [k \in 1..n |-> q[k]]
  <2>1. front \in Seq(Int) /\ Len(front) = n /\ x \in Int /\ SumOf(a) = SumOf(front) + x
    BY SumOfFront
  <2>2. n + 1 \in 1..n + 1 /\ \A k \in 1..n : k \in 1..n + 1 /\ k # n + 1
    BY SMT
  <2>3. at \in 1..Len(b) /\ b[at] = x /\ \A k \in 1..n : q[k] \in 1..Len(b) /\ q[k] # at
    BY <2>2 DEF Places
  <2>4. /\ rest \in Seq(Int) /\ Len(rest) = Len(b) /\ rest[at] = 0
        /\ \A k \in 1..Len(b) : k # at => rest[k] = b[k]
    BY <2>3
  <2>5. Places(r, n, front, rest)
    <3>1. r \in [1..n -> 1..Len(rest)]
      BY <2>3, <2>4
    <3>2. \A i \in 1..n : rest[r[i]] = front[i]
      <4> SUFFICES ASSUME NEW i \in 1..n PROVE rest[r[i]] = front[i]
        OBVIOUS
      <4>1. r[i] = q[i] /\ front[i] = a[i] /\ b[q[i]] = a[i]
        BY <2>2 DEF Places
      <4>2. rest[q[i]] = b[q[i]]
        BY <2>3, <2>4
      <4> QED BY <4>1, <4>2
    <3>3. \A i, j \in 1..n : r[i] = r[j] => i = j
      BY <2>2 DEF Places
    <3>4. \A k \in 1..Len(rest) : (\A i \in 1..n : r[i] # k) => rest[k] = 0
      <4> SUFFICES ASSUME NEW k \in 1..Len(b), \A i \in 1..n : r[i] # k PROVE rest[k] = 0
        BY <2>4
      <4>1. CASE k = at
        BY <4>1, <2>4
      <4>2. CASE k # at
        <5>1. \A i \in 1..n + 1 : i \in 1..n \/ i = n + 1
          BY SMT
        <5>2. \A i \in 1..n + 1 : q[i] # k
          BY <4>2, <5>1
        <5>3. b[k] = 0
          BY <5>2 DEF Places
        <5> QED BY <4>2, <5>3, <2>4
      <4> QED BY <4>1, <4>2
    <3> HIDE DEF r, front, rest
    <3> QED BY <3>1, <3>2, <3>3, <3>4 DEF Places
  <2>6. SumOf(rest) = SumOf(front)
    <3> HIDE DEF r, front, rest
    <3> QED BY <1>2, <2>1, <2>4, <2>5
  <2>7. SumOf(b) = SumOf(rest) + x
    <3>1. b[at] = rest[at] + x /\ \A k \in 1..Len(rest) : k # at => b[k] = rest[k]
      BY <2>1, <2>3, <2>4, SMT
    <3> HIDE DEF at, rest, x
    <3>2. /\ rest \in Seq(Int) /\ b \in Seq(Int) /\ Len(b) = Len(rest)
          /\ at \in 1..Len(rest) /\ x \in Int /\ b[at] = rest[at] + x
          /\ \A k \in 1..Len(rest) : k # at => b[k] = rest[k]
      BY <2>1, <2>3, <2>4, <3>1
    <3> QED BY ONLY <3>2, SumMoves
  <2> QED BY <2>1, <2>6, <2>7
<1> HIDE DEF S
<1>3. Nat \subseteq S
  BY <1>1, <1>2, SetInduction
<1>4. Len(f) \in Nat
  OBVIOUS
<1> QED BY <1>3, <1>4 DEF S

\* A sum of small numbers is as small as there are some that are not zero.
NotZero(f, n) == {k \in 1..n : f[k] # 0}

LEMMA SumIsWithin ==
  ASSUME NEW f \in Seq(Int), NEW most \in Nat,
         \A k \in 1..Len(f) : f[k] <= most /\ -f[k] <= most
  PROVE  /\ Cardinality(NotZero(f, Len(f))) \in Nat
         /\ SumOf(f) <= most * Cardinality(NotZero(f, Len(f)))
         /\ -SumOf(f) <= most * Cardinality(NotZero(f, Len(f)))
<1> DEFINE Holds(a, n) == /\ Cardinality(NotZero(a, n)) \in Nat
                          /\ SumOf(a) <= most * Cardinality(NotZero(a, n))
                          /\ -SumOf(a) <= most * Cardinality(NotZero(a, n))
           S == {n \in Nat : \A a \in Seq(Int) :
                   Len(a) = n /\ (\A k \in 1..n : a[k] <= most /\ -a[k] <= most) => Holds(a, n)}
<1>1. 0 \in S
  <2> SUFFICES ASSUME NEW a \in Seq(Int), Len(a) = 0 PROVE Holds(a, 0)
    OBVIOUS
  <2>1. SumOf(a) = 0
    <3>1. \A k \in 1..Len(a) : a[k] = 0
      BY SMT
    <3> QED BY <3>1, SumOfZeros
  <2>2. NotZero(a, 0) = {}
    BY SMT DEF NotZero
  <2>3. Cardinality(NotZero(a, 0)) = 0
    BY <2>2, FS_EmptySet
  <2> QED BY <2>1, <2>3, SMT
<1>2. ASSUME NEW n \in Nat, n \in S PROVE n + 1 \in S
  <2> SUFFICES ASSUME NEW a \in Seq(Int), Len(a) = n + 1,
                      \A k \in 1..n + 1 : a[k] <= most /\ -a[k] <= most
               PROVE  Holds(a, n + 1)
    OBVIOUS
  <2> DEFINE front == [k \in 1..n |-> a[k]]
             x == a[n + 1]
  <2>1. front \in Seq(Int) /\ Len(front) = n /\ x \in Int /\ SumOf(a) = SumOf(front) + x
    BY SumOfFront
  <2>2. n + 1 \in 1..n + 1 /\ n + 1 \notin 1..n /\ 1..n + 1 = (1..n) \union {n + 1}
    BY SMT
  <2>3. Holds(front, n)
    <3>1. \A k \in 1..n : front[k] = a[k] /\ k \in 1..n + 1
      BY SMT
    <3> HIDE DEF Holds, front
    <3> QED BY <1>2, <2>1, <3>1
  <2> DEFINE some == NotZero(front, n)
             all == NotZero(a, n + 1)
  <2>4. IsFiniteSet(some)
    <3>1. some \in SUBSET (1..n) /\ n \in Int /\ 1 \in Int
      BY DEF NotZero
    <3>2. IsFiniteSet(1..n)
      BY FS_Interval
    <3> HIDE DEF some
    <3> QED BY <3>1, <3>2, FS_Subset
  <2>5. \A k \in 1..n : front[k] = a[k]
    OBVIOUS
  <2>6. SumOf(front) \in Int
    <3> HIDE DEF front
    <3> QED BY <2>1, SumIsInteger
  <2>7. CASE x = 0
    <3>1. all = some
      BY <2>2, <2>5, <2>7 DEF NotZero
    <3> HIDE DEF some, all, front, x
    <3>2. SumOf(a) = SumOf(front)
      BY <2>1, <2>6, <2>7, SMT
    <3> QED BY <2>3, <3>1, <3>2 DEF some, all
  <2>8. CASE x # 0
    <3>1. all = some \union {n + 1} /\ n + 1 \notin some
      BY <2>2, <2>5, <2>8 DEF NotZero
    <3>2. Cardinality(all) = Cardinality(some) + 1
      <4> HIDE DEF some, all
      <4> QED BY <2>4, <3>1, FS_AddElement
    <3>3. x <= most /\ -x <= most
      BY <2>2
    <3>4. /\ Cardinality(some) \in Nat
          /\ SumOf(front) <= most * Cardinality(some) /\ -SumOf(front) <= most * Cardinality(some)
      BY <2>3
    <3>5. most * (Cardinality(some) + 1) = most * Cardinality(some) + most
      <4>1. \A u, v \in Nat : u * (v + 1) = u * v + u
        BY SMT
      <4> HIDE DEF some
      <4> QED BY <3>4, <4>1
    <3>6. most * Cardinality(some) \in Nat
      <4>1. \A u, v \in Nat : u * v \in Nat
        BY SMT
      <4> HIDE DEF some
      <4> QED BY <3>4, <4>1
    <3>9. \A u, v, w, m, t \in Int : /\ u = v + w /\ v <= m /\ -v <= m /\ w <= t /\ -w <= t
                                    => u <= m + t /\ -u <= m + t
      BY SMT
    <3> HIDE DEF some, all, front, x
    <3>7. /\ SumOf(a) <= most * Cardinality(some) + most
          /\ -SumOf(a) <= most * Cardinality(some) + most
      <4>1. SumOf(a) \in Int /\ most * Cardinality(some) \in Int /\ most \in Int
        BY <3>6, SumIsInteger
      <4> QED BY <2>1, <2>6, <3>3, <3>4, <3>9, <4>1
    <3>8. Cardinality(all) \in Nat
      BY <3>2, <3>4
    <3> QED BY <3>2, <3>5, <3>7, <3>8 DEF all
  <2> QED BY <2>7, <2>8
<1> HIDE DEF S, Holds
<1>3. Nat \subseteq S
  BY <1>1, <1>2, SetInduction
<1>4. Len(f) \in Nat
  OBVIOUS
<1>5. Holds(f, Len(f))
  BY <1>3, <1>4 DEF S
<1> QED BY <1>5 DEF Holds

----------------------------------------------------------------------------
(* Receipts *)

\* What a receipt is compared with: a code and an amount for each line
Codename == ConceptCodes \union {"CONTRIBUTION", "WORK_RISK_INSURANCE"}
Value == [code : Codename, amount : Int]

LEMMA ValuesArePrepared ==
  ASSUME ResultIsOfInput, IsPrepared
  PROVE  /\ Expected \in Seq(Value)
         /\ PreparedValues = Expected
         /\ DOMAIN Expected = DOMAIN result.totals.lines
         /\ \A i \in DOMAIN Expected :
              /\ Expected[i] = Concept(result.totals.lines[i].code, result.totals.lines[i].amount)
              /\ Expected[i] \in Value
<1> DEFINE unit == input.parameters.conceptUnit
           lines == result.totals.lines
<1>1. IsInput(input) /\ result = CalculatePayroll(input) /\ result # Thrown
      /\ result.errors = {}
  BY DEF ResultIsOfInput, IsPrepared
<1>2. FindScale(input) # 0
  <2> SUFFICES ASSUME FindScale(input) = 0 PROVE FALSE
    OBVIOUS
  <2>1. result.errors = BlockingErrors(input)
    BY <1>1 DEF CalculatePayroll
  <2>2. "CATEGORY_SCALE_NOT_FOUND" \in BlockingErrors(input)
    BY DEF BlockingErrors
  <2> QED BY <1>1, <2>1, <2>2
<1>3. ~DividesByZero(input)
  BY <1>1, <1>2 DEF CalculatePayroll
<1>4. result.totals = Totals(input)
  BY <1>1, <1>2, <1>3 DEF CalculatePayroll
<1>5. lines \in Seq(AnyLine(unit)) /\ unit \in Nat
  BY <1>1, <1>3, <1>4, InputIsWellTyped, TotalsBySign DEF WellTyped
<1>6. /\ DOMAIN Expected = DOMAIN lines
      /\ \A i \in DOMAIN Expected : Expected[i] = Concept(lines[i].code, lines[i].amount)
      /\ Expected = [i \in DOMAIN lines |-> Expected[i]]
  BY DEF Expected
<1>7. PreparedValues = Expected
  BY DEF PreparedValues, Expected, ToReport
<1>8. ASSUME NEW i \in DOMAIN lines PROVE Expected[i] \in Value
  <2>1. lines[i] \in AnyLine(unit)
    <3> HIDE DEF lines, unit
    <3> QED BY <1>5, SeqElements
  <2>2. lines[i].code \in Codename /\ lines[i].amount \in Int
    BY <1>5, <2>1, MultiplesAreIntegers DEF AnyLine, Codename
  <2>3. Expected[i] = Concept(lines[i].code, lines[i].amount)
    BY <1>6
  <2> HIDE DEF lines
  <2> QED BY <2>2, <2>3 DEF Concept, Value
<1>9. Expected \in Seq(Value)
  <2> HIDE DEF lines, unit
  <2>1. DOMAIN Expected = DOMAIN lines
    BY <1>6
  <2>2. Expected = [i \in DOMAIN lines |-> Expected[i]]
    BY <1>6
  <2> QED BY <1>5, <1>8, <2>1, <2>2, MappedSeq
<1> QED BY <1>6, <1>7, <1>8, <1>9

\* What a receipt can name and how much
Reported == [code : Codename \union {"UNKNOWN"}, amount : Int]

\* What is known of a receipt, and of one that was compared
ReceiptIsCompared ==
  /\ receipt # None => /\ IsPrepared
                       /\ \/ receipt = Unreadable
                          \/ \E c \in Seq(Reported) : receipt = Readable(c)
  /\ validation # None => receipt # None /\ validation = Comparison(receipt)

\* Importing a receipt changes nothing of the calculation.
THEOREM ReceiptsCalculate == ReceiptsSpec => Spec
<1>1. ReceiptsInit => Init
  BY DEF ReceiptsInit
<1>2. [ReceiptsNext]_receiptVars => [Calculate]_vars
  BY DEF ReceiptsNext, Issue, MakeMistake, Validate, receiptVars
<1> QED BY <1>1, <1>2, PTL DEF ReceiptsSpec, Spec

\* A list with a mistake more names codes and amounts still.
LEMMA MistakenIsReported ==
  ASSUME NEW concepts \in Seq(Reported), NEW c \in Mistaken(concepts)
  PROVE  c \in Seq(Reported)
<1> DEFINE n == Len(concepts)
<1>1. n \in Nat /\ DOMAIN concepts = 1..n /\ \A i \in 1..n : concepts[i] \in Reported
  BY SeqElements
<1>2. ASSUME NEW i \in 1..n, NEW d \in Int
      PROVE  Concept(concepts[i].code, concepts[i].amount + d) \in Reported
  <2>1. concepts[i].code \in Codename \union {"UNKNOWN"} /\ concepts[i].amount + d \in Int
    BY <1>1 DEF Reported
  <2> QED BY <2>1 DEF Concept, Reported
<1>3. Deltas \subseteq Int /\ Deltas \union {0} \subseteq Int
  BY ReceiptsAssumption
<1>4. CASE \E i \in DOMAIN concepts : c = RemoveAt(concepts, i)
  <2>1. PICK i \in 1..n : c = RemoveAt(concepts, i)
    BY <1>1, <1>4
  <2>2. c = SubSeq(concepts, 1, i - 1) \o SubSeq(concepts, i + 1, n)
    BY <2>1 DEF RemoveAt
  <2>3. SubSeq(concepts, 1, i - 1) \in Seq(Reported) /\ SubSeq(concepts, i + 1, n) \in Seq(Reported)
    BY <1>1, SMT
  <2> QED BY <2>2, <2>3, ConcatIsSeq
<1>5. CASE \E i \in DOMAIN concepts, d \in Deltas :
             c = [concepts EXCEPT ![i] = Concept(concepts[i].code, concepts[i].amount + d)]
  <2>1. PICK i \in 1..n, d \in Int :
          c = [concepts EXCEPT ![i] = Concept(concepts[i].code, concepts[i].amount + d)]
    BY <1>1, <1>3, <1>5
  <2> DEFINE v == Concept(concepts[i].code, concepts[i].amount + d)
  <2>2. v \in Reported
    BY <1>2
  <2> HIDE DEF v
  <2> QED BY <2>1, <2>2 DEF v
<1>6. CASE \E i \in DOMAIN concepts, d \in Deltas \union {0} :
             c = Append(concepts, Concept(concepts[i].code, concepts[i].amount + d))
  <2>1. PICK i \in 1..n, d \in Int : c = Append(concepts, Concept(concepts[i].code, concepts[i].amount + d))
    BY <1>1, <1>3, <1>6
  <2> DEFINE v == Concept(concepts[i].code, concepts[i].amount + d)
  <2>2. v \in Reported
    BY <1>2
  <2> HIDE DEF v
  <2> QED BY <2>1, <2>2 DEF v
<1>7. CASE c = Append(concepts, Concept("UNKNOWN", 100))
  <2>1. Concept("UNKNOWN", 100) \in Reported
    BY DEF Concept, Reported
  <2> QED BY <1>7, <2>1
<1> QED BY <1>4, <1>5, <1>6, <1>7 DEF Mistaken

LEMMA ReceiptStays == ReceiptsSpec => [](ResultIsOfInput /\ ReceiptIsCompared)
<1>1. ReceiptsInit => ReceiptIsCompared
  BY DEF ReceiptsInit, ReceiptIsCompared
<1>2. ASSUME ResultIsOfInput, ReceiptIsCompared, [ReceiptsNext]_receiptVars
      PROVE  ReceiptIsCompared'
  <2>1. CASE Calculate /\ UNCHANGED <<receipt, mistakes, validation>>
    <3>1. ~IsPrepared
      BY <2>1 DEF Calculate, IsPrepared
    <3>2. receipt = None /\ validation = None
      BY <1>2, <3>1 DEF ReceiptIsCompared
    <3> QED BY <2>1, <3>2 DEF ReceiptIsCompared
  <2>2. ASSUME UNCHANGED result PROVE (IsPrepared' <=> IsPrepared) /\ Expected' = Expected
    BY <2>2 DEF IsPrepared, Expected
  <2>3. CASE Issue
    <3>1. receipt = None /\ IsPrepared /\ UNCHANGED result /\ UNCHANGED validation
      BY <2>3 DEF Issue, vars
    <3>2. Expected \in Seq(Value) /\ PreparedValues = Expected
      BY <1>2, <3>1, ValuesArePrepared
    <3>3. Expected \in Seq(Reported)
      <4>1. Value \subseteq Reported
        BY DEF Value, Reported
      <4> QED BY <3>2, <4>1
    <3>4. receipt' = Unreadable \/ receipt' = Readable(Expected)
      BY <2>3, <3>2 DEF Issue
    <3>5. validation = None
      BY <1>2, <3>1 DEF ReceiptIsCompared
    <3> QED BY <2>2, <3>1, <3>3, <3>4, <3>5 DEF ReceiptIsCompared, Unreadable, Readable
  <2>4. CASE MakeMistake
    <3>1. receipt # None /\ validation = None /\ receipt.readable
          /\ UNCHANGED result /\ UNCHANGED validation
      BY <2>4 DEF MakeMistake, vars
    <3>2. PICK c \in Seq(Reported) : receipt = Readable(c)
      BY <1>2, <3>1 DEF ReceiptIsCompared, Unreadable
    <3>3. PICK m \in Mistaken(c) : receipt' = Readable(m)
      BY <2>4, <3>2 DEF MakeMistake, Readable
    <3>4. m \in Seq(Reported)
      BY MistakenIsReported
    <3> QED BY <1>2, <2>2, <3>1, <3>3, <3>4 DEF ReceiptIsCompared, Unreadable, Readable
  <2>5. CASE Validate
    <3>1. receipt # None /\ validation' = Comparison(receipt) /\ UNCHANGED result /\ UNCHANGED receipt
      BY <2>5 DEF Validate, vars
    <3>2. Comparison(receipt)' = Comparison(receipt)
      BY <2>2, <3>1 DEF Comparison, Differences, CompareConcepts, Unexpected
    <3> QED BY <1>2, <2>2, <3>1, <3>2 DEF ReceiptIsCompared, Unreadable, Readable
  <2>6. CASE UNCHANGED receiptVars
    <3>1. UNCHANGED result /\ UNCHANGED receipt /\ UNCHANGED validation
      BY <2>6 DEF receiptVars, vars
    <3>2. Comparison(receipt)' = Comparison(receipt)
      BY <2>2, <3>1 DEF Comparison, Differences, CompareConcepts, Unexpected
    <3> QED BY <1>2, <2>2, <3>1, <3>2 DEF ReceiptIsCompared, Unreadable, Readable
  <2> QED BY <1>2, <2>1, <2>3, <2>4, <2>5, <2>6 DEF ReceiptsNext
<1>3. ReceiptsSpec => []ResultIsOfInput
  BY ReceiptsCalculate, ResultStays, PTL
<1> QED BY <1>1, <1>2, <1>3, PTL DEF ReceiptsSpec

\* A set of positions that is not empty has a last one.
LEMMA LastExists ==
  ASSUME NEW n \in Nat, NEW I \in SUBSET (1..n), I # {}
  PROVE  Max(I) \in I /\ \A y \in I : Max(I) >= y
<1> DEFINE J == {n - i : i \in I}
<1>0. \A i \in I : i \in Nat /\ i <= n
  BY SMT
<1>1. J \in SUBSET Nat /\ J # {}
  <2>1. \A i \in I : n - i \in Nat
    BY <1>0, SMT
  <2> QED BY <2>1
<1>2. Min(J) \in J /\ \A j \in J : Min(J) <= j
  <2> HIDE DEF J
  <2> QED BY <1>1, LeastExists
<1>3. PICK x \in I : Min(J) = n - x
  BY <1>2
<1>4. \A y \in I : x >= y
  <2> SUFFICES ASSUME NEW y \in I PROVE x >= y
    OBVIOUS
  <2>1. Min(J) <= n - y
    BY <1>2
  <2> HIDE DEF J
  <2> QED BY <1>0, <1>3, <2>1, SMT
<1> QED BY <1>4 DEF Max

\* The value of a code is that of the last position with the code.
LEMMA FoundIs ==
  ASSUME NEW T, NEW concepts \in Seq(T), NEW code \in Codes(concepts)
  PROVE  \E j \in DOMAIN concepts : /\ concepts[j].code = code
                                    /\ Found(concepts, code) = concepts[j].amount
                                    /\ ~Overwritten(concepts, j)
<1> DEFINE I == {i \in 1..Len(concepts) : concepts[i].code = code}
<1>1. Len(concepts) \in Nat /\ DOMAIN concepts = 1..Len(concepts)
  OBVIOUS
<1>2. I # {} /\ I \in SUBSET (1..Len(concepts))
  BY <1>1 DEF Codes
<1>3. Max(I) \in I /\ \A y \in I : Max(I) >= y
  <2> HIDE DEF I
  <2> QED BY <1>1, <1>2, LastExists
<1>4. SelectLastInSeq(concepts, LAMBDA c : c.code = code) = Max(I)
  BY <1>2 DEF SelectLastInSeq
<1>5. Found(concepts, code) = concepts[Max(I)].amount
  BY <1>4 DEF Found
<1>6. ~Overwritten(concepts, Max(I))
  <2> SUFFICES ASSUME NEW j \in 1..Len(concepts), j > Max(I), concepts[j].code = concepts[Max(I)].code
               PROVE  FALSE
    BY <1>1 DEF Overwritten
  <2>1. j \in I /\ j \in Int /\ Max(I) \in Int
    BY <1>1, <1>3, SMT
  <2>2. Max(I) >= j
    BY <1>3, <2>1
  <2> HIDE DEF I
  <2> QED BY <2>1, <2>2, SMT
<1> HIDE DEF I
<1>7. concepts[Max(I)].code = code /\ Max(I) \in DOMAIN concepts
  BY <1>1, <1>3 DEF I
<1> QED BY <1>5, <1>6, <1>7

\* A receipt issued with the prepared values blocks only over two lines with a
\* code whose amounts are not within the tolerance, for every calculation.
THEOREM FaithfulPassesTheCheck == ReceiptsSpec => []FaithfulPasses
<1>1. ResultIsOfInput /\ ReceiptIsCompared => FaithfulPasses
  <2> SUFFICES ASSUME ResultIsOfInput, ReceiptIsCompared, validation # None,
                      receipt = Readable(PreparedValues), validation.blocking
               PROVE  \E i, j \in DOMAIN Expected :
                        /\ Expected[i].code = Expected[j].code
                        /\ ~Within(Expected[i].amount - Expected[j].amount)
    BY DEF FaithfulPasses
  <2>1. IsPrepared /\ validation = Comparison(receipt)
    BY DEF ReceiptIsCompared
  <2>2. Expected \in Seq(Value) /\ receipt = Readable(Expected)
    BY <2>1, ValuesArePrepared
  <2>3. Differences(receipt) = CompareConcepts(Expected)
    BY <2>2 DEF Differences, Readable
  <2>4. PICK d \in CompareConcepts(Expected) : d.blocking
    BY <2>1, <2>3 DEF Comparison
  <2>5. Unexpected(Expected) = {}
    BY DEF Unexpected
  <2>6. PICK i \in DOMAIN Expected : d \in Compared(Expected, Expected[i])
    BY <2>4, <2>5 DEF CompareConcepts
  <2>7. Expected[i].code \in Codes(Expected)
    BY DEF Codes
  <2>8. ~Within(Expected[i].amount - Found(Expected, Expected[i].code))
    BY <2>4, <2>6, <2>7 DEF Compared, Difference
  <2>9. PICK j \in DOMAIN Expected : /\ Expected[j].code = Expected[i].code
                                     /\ Found(Expected, Expected[i].code) = Expected[j].amount
    BY <2>2, <2>7, FoundIs
  <2> QED BY <2>8, <2>9
<1> QED BY <1>1, ReceiptStays, PTL

\* What an amount is for the worker, by the sign of its code
LEMMA SignedIs ==
  ASSUME NEW c, c.amount \in Int
  PROVE  Signed(c) \in Int
BY DEF Signed

LEMMA SignedMoves ==
  ASSUME NEW c, NEW e, c.code = e.code, c.amount \in Int, e.amount \in Int
  PROVE  LET x == Signed(c) - Signed(e)
             d == e.amount - c.amount
         IN  x = d \/ x = -d \/ x = 0
<1>1. SignIn(c.code) = SignIn(e.code)
  OBVIOUS
<1>2. CASE SignIn(e.code) = "CREDIT"
  <2>1. Signed(c) = c.amount /\ Signed(e) = e.amount
    BY <1>1, <1>2 DEF Signed
  <2> QED BY <2>1, SMT
<1>3. CASE SignIn(e.code) = "DEBIT"
  <2>1. Signed(c) = -c.amount /\ Signed(e) = -e.amount
    BY <1>1, <1>3 DEF Signed
  <2> QED BY <2>1, SMT
<1>4. CASE SignIn(e.code) # "CREDIT" /\ SignIn(e.code) # "DEBIT"
  <2>1. Signed(c) = 0 /\ Signed(e) = 0
    BY <1>1, <1>4 DEF Signed
  <2> QED BY <2>1, SMT
<1> QED BY <1>2, <1>3, <1>4

SignedValues(concepts) == [i \in DOMAIN concepts |-> Signed(concepts[i])]

LEMMA NetSums ==
  ASSUME NEW concepts \in Seq(Reported)
  PROVE  /\ SignedValues(concepts) \in Seq(Int)
         /\ Len(SignedValues(concepts)) = Len(concepts)
         /\ Net(concepts) = SumOf(SignedValues(concepts))
         /\ Net(concepts) \in Int
<1> DEFINE f == SignedValues(concepts)
<1>1. \A i \in DOMAIN concepts : concepts[i].amount \in Int
  <2>1. \A i \in DOMAIN concepts : concepts[i] \in Reported
    BY SeqElements
  <2> QED BY <2>1 DEF Reported
<1>2. /\ DOMAIN f = DOMAIN concepts
      /\ f = [i \in DOMAIN concepts |-> f[i]]
      /\ \A i \in DOMAIN concepts : f[i] = Signed(concepts[i])
  BY DEF SignedValues
<1>3. Net(concepts) = SumOf(f)
  BY DEF Net, SignedValues
<1> HIDE DEF f
<1>4. \A i \in DOMAIN concepts : f[i] \in Int
  BY <1>1, <1>2, SignedIs
<1>5. f \in Seq(Int) /\ Len(f) = Len(concepts)
  BY <1>2, <1>4, MappedSeq
<1> QED BY <1>3, <1>5, SumIsInteger DEF f

\* No two concepts have a code.
Distinct(concepts) == \A i, j \in DOMAIN concepts : concepts[i].code = concepts[j].code => i = j

LEMMA DistinctCodes ==
  ASSUME NEW concepts, Repeated(concepts) = {}
  PROVE  Distinct(concepts)
<1> SUFFICES ASSUME NEW i \in DOMAIN concepts, NEW j \in DOMAIN concepts,
                    concepts[i].code = concepts[j].code
             PROVE  i = j
  BY DEF Distinct
<1>1. concepts[i].code \in Codes(concepts)
  BY DEF Codes
<1>2. OnlyOne(concepts, concepts[i].code)
  BY <1>1 DEF Repeated
<1> QED BY <1>2 DEF OnlyOne

\* What the comparison keeps of a receipt, and what it drops
AmountsKept(concepts) ==
  [i \in DOMAIN concepts |-> IF Overwritten(concepts, i) THEN 0 ELSE Signed(concepts[i])]
Dropped(concepts) ==
  [i \in DOMAIN concepts |-> IF Overwritten(concepts, i) THEN Signed(concepts[i]) ELSE 0]

LEMMA NetIsKeptAndDropped ==
  ASSUME NEW c \in Seq(Reported)
  PROVE  /\ AmountsKept(c) \in Seq(Int) /\ Len(AmountsKept(c)) = Len(c)
         /\ Overlooked(c) \in Int /\ SumOf(AmountsKept(c)) \in Int
         /\ Net(c) = SumOf(AmountsKept(c)) + Overlooked(c)
<1> DEFINE kept == AmountsKept(c)
           dropped == Dropped(c)
           all == SignedValues(c)
<1>1. \A v \in Reported : v.amount \in Int
  BY DEF Reported
<1>2. all \in Seq(Int) /\ Len(all) = Len(c) /\ Net(c) = SumOf(all)
  BY NetSums
<1>3. Len(c) \in Nat /\ DOMAIN c = 1..Len(c) /\ \A i \in DOMAIN c : Signed(c[i]) \in Int
  <2>1. Len(c) \in Nat /\ DOMAIN c = 1..Len(c) /\ \A i \in DOMAIN c : c[i] \in Reported
    BY SeqElements
  <2> QED BY <1>1, <2>1, SignedIs
<1>4. kept \in Seq(Int) /\ Len(kept) = Len(c)
  <2>1. /\ DOMAIN kept = DOMAIN c /\ kept = [i \in DOMAIN c |-> kept[i]]
        /\ \A i \in DOMAIN c : kept[i] \in Int
    BY <1>3 DEF AmountsKept
  <2> HIDE DEF kept
  <2> QED BY <2>1, MappedSeq
<1>5. dropped \in Seq(Int) /\ Len(dropped) = Len(c)
  <2>1. /\ DOMAIN dropped = DOMAIN c /\ dropped = [i \in DOMAIN c |-> dropped[i]]
        /\ \A i \in DOMAIN c : dropped[i] \in Int
    BY <1>3 DEF Dropped
  <2> HIDE DEF dropped
  <2> QED BY <2>1, MappedSeq
<1>6. \A i \in 1..Len(kept) : all[i] = kept[i] + dropped[i]
  <2> SUFFICES ASSUME NEW i \in DOMAIN c PROVE all[i] = kept[i] + dropped[i]
    BY <1>3, <1>4
  <2>1. all[i] = Signed(c[i]) /\ Signed(c[i]) \in Int
    BY <1>3 DEF SignedValues
  <2>2. \/ kept[i] = 0 /\ dropped[i] = Signed(c[i])
        \/ kept[i] = Signed(c[i]) /\ dropped[i] = 0
    BY DEF AmountsKept, Dropped
  <2> HIDE DEF all, kept, dropped
  <2> QED BY <2>1, <2>2, SMT
<1>7. Overlooked(c) = SumOf(dropped)
  BY DEF Overlooked, Dropped
<1> HIDE DEF all, kept, dropped
<1>8. SumOf(all) = SumOf(kept) + SumOf(dropped)
  BY <1>2, <1>4, <1>5, <1>6, SumOfTwo
<1>9. SumOf(kept) \in Int /\ SumOf(dropped) \in Int
  BY <1>4, <1>5, SumIsInteger
<1> QED BY <1>2, <1>4, <1>7, <1>8, <1>9 DEF kept

Blocks(concepts) == \E d \in CompareConcepts(concepts) : d.blocking

\* What a value that was prepared differs by from the one that is found
Off(concepts, i) == Expected[i].amount - Found(concepts, Expected[i].code)

\* A receipt that does not block has the codes that were prepared, with amounts
\* that are the same or make a rounding difference.
LEMMA NothingBlocks ==
  ASSUME NEW c, ~Blocks(c)
  PROVE  /\ Codes(c) \subseteq Codes(Expected)
         /\ \A i \in DOMAIN Expected :
              /\ Expected[i].code \in Codes(c)
              /\ Compared(c, Expected[i]) \subseteq {Difference("ROUNDING", Expected[i].code, FALSE)}
              /\ Off(c, i) # 0 => /\ Within(Off(c, i))
                                  /\ Difference("ROUNDING", Expected[i].code, FALSE) \in CompareConcepts(c)
         /\ CompareConcepts(c) \subseteq {Difference("ROUNDING", Expected[i].code, FALSE) : i \in DOMAIN Expected}
<1>1. \A class, code : Difference(class, code, TRUE) \notin CompareConcepts(c)
  BY DEF Blocks, Difference
<1>2. Unexpected(c) = {} /\ Codes(c) \subseteq Codes(Expected)
  <2>1. \A code \in Codes(c) \ Codes(Expected) :
          Difference("CONCEPT_MISMATCH", code, TRUE) \in CompareConcepts(c)
    BY DEF CompareConcepts, Unexpected
  <2>2. Codes(c) \ Codes(Expected) = {}
    BY <1>1, <2>1
  <2> QED BY <2>2 DEF Unexpected
<1>3. ASSUME NEW i \in DOMAIN Expected
      PROVE  /\ Expected[i].code \in Codes(c)
             /\ Compared(c, Expected[i]) \subseteq {Difference("ROUNDING", Expected[i].code, FALSE)}
             /\ Off(c, i) # 0 => /\ Within(Off(c, i))
                                 /\ Difference("ROUNDING", Expected[i].code, FALSE) \in CompareConcepts(c)
  <2>1. Compared(c, Expected[i]) \subseteq CompareConcepts(c)
    BY DEF CompareConcepts
  <2>2. Expected[i].code \in Codes(c)
    <3>1. Expected[i].code \notin Codes(c) =>
            Compared(c, Expected[i]) = {Difference("CONCEPT_MISMATCH", Expected[i].code, TRUE)}
      BY DEF Compared
    <3> QED BY <1>1, <2>1, <3>1
  <2>3. Compared(c, Expected[i]) =
          IF Off(c, i) = 0 THEN {}
          ELSE IF Within(Off(c, i)) THEN {Difference("ROUNDING", Expected[i].code, FALSE)}
          ELSE {Difference("AMOUNT_MISMATCH", Expected[i].code, TRUE)}
    BY <2>2 DEF Compared, Off
  <2>4. Off(c, i) # 0 => Within(Off(c, i))
    BY <1>1, <2>1, <2>3
  <2> QED BY <2>1, <2>2, <2>3, <2>4
<1>4. CompareConcepts(c) = UNION {Compared(c, Expected[i]) : i \in DOMAIN Expected}
  BY <1>2 DEF CompareConcepts
<1>5. CompareConcepts(c) \subseteq {Difference("ROUNDING", Expected[i].code, FALSE) : i \in DOMAIN Expected}
  <2> SUFFICES ASSUME NEW d \in CompareConcepts(c)
               PROVE  \E i \in DOMAIN Expected : d = Difference("ROUNDING", Expected[i].code, FALSE)
    OBVIOUS
  <2>1. PICK i \in DOMAIN Expected : d \in Compared(c, Expected[i])
    BY <1>4
  <2> QED BY <1>3, <2>1
<1> QED BY <1>2, <1>3, <1>5

\* Then each value that was prepared has a place in the receipt, and what has no
\* value is overlooked.
PlacesOf(p, c) ==
  /\ p \in [1..Len(Expected) -> 1..Len(c)]
  /\ \A i \in 1..Len(Expected) : /\ c[p[i]].code = Expected[i].code
                                 /\ c[p[i]].amount = Found(c, Expected[i].code)
                                 /\ ~Overwritten(c, p[i])
  /\ \A i, j \in 1..Len(Expected) : p[i] = p[j] => i = j
  /\ \A k \in 1..Len(c) : (\A i \in 1..Len(Expected) : p[i] # k) => Overwritten(c, k)

LEMMA PlacesAreFound ==
  ASSUME Expected \in Seq(Value), Distinct(Expected), NEW c \in Seq(Reported), ~Blocks(c)
  PROVE  \E p : PlacesOf(p, c)
<1> DEFINE n == Len(Expected)
           Is(i, k) == /\ c[k].code = Expected[i].code
                       /\ c[k].amount = Found(c, Expected[i].code)
                       /\ ~Overwritten(c, k)
           p == [i \in 1..n |-> CHOOSE k \in 1..Len(c) : Is(i, k)]
<1>1. /\ DOMAIN Expected = 1..n /\ DOMAIN c = 1..Len(c)
      /\ \A k \in 1..Len(c) : k \in Int
  BY SMT
<1>2. \A i \in 1..n : \E k \in 1..Len(c) : Is(i, k)
  <2> SUFFICES ASSUME NEW i \in 1..n PROVE \E k \in 1..Len(c) : Is(i, k)
    OBVIOUS
  <2>1. Expected[i].code \in Codes(c)
    BY <1>1, NothingBlocks
  <2>2. \E k \in DOMAIN c : /\ c[k].code = Expected[i].code
                            /\ Found(c, Expected[i].code) = c[k].amount
                            /\ ~Overwritten(c, k)
    BY <2>1, FoundIs
  <2> QED BY <1>1, <2>2
<1>3. \A i \in 1..n : p[i] \in 1..Len(c) /\ Is(i, p[i])
  <2> HIDE DEF Is
  <2> QED BY <1>2
<1>4. p \in [1..n -> 1..Len(c)]
  BY <1>3
<1>5. \A i, j \in 1..n : p[i] = p[j] => i = j
  <2> SUFFICES ASSUME NEW i \in 1..n, NEW j \in 1..n, p[i] = p[j] PROVE i = j
    OBVIOUS
  <2> HIDE DEF p
  <2>1. Expected[i].code = Expected[j].code
    BY <1>3
  <2> QED BY <1>1, <2>1 DEF Distinct
<1>6. ASSUME NEW k \in 1..Len(c), ~Overwritten(c, k) PROVE \E i \in 1..n : p[i] = k
  <2>1. c[k].code \in Codes(Expected)
    <3>1. c[k].code \in Codes(c)
      BY <1>1 DEF Codes
    <3> QED BY <3>1, NothingBlocks
  <2>2. PICK i \in 1..n : Expected[i].code = c[k].code
    BY <1>1, <2>1 DEF Codes
  <2>3. p[i] \in 1..Len(c) /\ c[p[i]].code = c[k].code /\ ~Overwritten(c, p[i])
    BY <1>3, <2>2
  <2> HIDE DEF p
  <2>4. ~(p[i] > k) /\ ~(k > p[i])
    BY <1>1, <1>6, <2>3 DEF Overwritten
  <2>5. p[i] = k
    BY <1>1, <2>3, <2>4, SMT
  <2> QED BY <2>5
<1>7. PlacesOf(p, c)
  <2> HIDE DEF p
  <2> QED BY <1>3, <1>4, <1>5, <1>6 DEF PlacesOf
<1> QED BY <1>7

\* There are as many differences as values that are off.
LEMMA DifferencesCount ==
  ASSUME Expected \in Seq(Value), Distinct(Expected), NEW c, ~Blocks(c),
         NEW I \in SUBSET (1..Len(Expected)), \A i \in I : Off(c, i) # 0
  PROVE  /\ Cardinality(CompareConcepts(c)) \in Nat
         /\ Cardinality(I) <= Cardinality(CompareConcepts(c))
<1> DEFINE n == Len(Expected)
           D(i) == Difference("ROUNDING", Expected[i].code, FALSE)
           all == [i \in 1..n |-> D(i)]
           some == [i \in I |-> D(i)]
           T == {D(i) : i \in DOMAIN Expected}
<1>1. n \in Nat /\ DOMAIN Expected = 1..n
  BY SMT
<1>2. IsFiniteSet(T)
  <2>1. all \in Surjection(1..n, T)
    BY <1>1 DEF Surjection
  <2>2. IsFiniteSet(1..n)
    BY <1>1, FS_Interval
  <2> HIDE DEF all, T
  <2> QED BY <2>1, <2>2, FS_Surjection
<1>3. CompareConcepts(c) \in SUBSET T
  BY NothingBlocks
<1>4. IsFiniteSet(CompareConcepts(c))
  <2> HIDE DEF T
  <2> QED BY <1>2, <1>3, FS_Subset
<1>5. some \in Injection(I, CompareConcepts(c))
  <2>1. \A i \in I : D(i) \in CompareConcepts(c)
    BY <1>1, NothingBlocks
  <2>2. \A i, j \in I : D(i) = D(j) => i = j
    BY <1>1 DEF Difference, Distinct
  <2> HIDE DEF D
  <2> QED BY <2>1, <2>2 DEF Injection, IsInjective
<1> HIDE DEF some
<1>6. IsFiniteSet(I) /\ Cardinality(I) <= Cardinality(CompareConcepts(c))
  BY <1>4, <1>5, FS_Injection
<1> QED BY <1>4, <1>6, FS_CardinalityType

LEMMA ListOf ==
  ASSUME NEW T, NEW n \in Nat, NEW f, f = [i \in 1..n |-> f[i]], \A i \in 1..n : f[i] \in T
  PROVE  f \in Seq(T) /\ Len(f) = n
<1>1. [i \in 1..n |-> f[i]] \in Seq(T) /\ Len([i \in 1..n |-> f[i]]) = n
  OBVIOUS
<1> QED BY <1>1

\* A receipt that pays what was calculated and what was overlooked, up to the
\* differences it is told of
PaysTheNet(concepts) ==
  LET off == Net(concepts) - Overlooked(concepts) - Net(Expected)
      margin == Tolerance * Cardinality(CompareConcepts(concepts))
  IN off <= margin /\ -off <= margin

LEMMA UnblockedPays ==
  ASSUME Expected \in Seq(Value), Distinct(Expected), NEW c \in Seq(Reported), ~Blocks(c)
  PROVE  PaysTheNet(c)
<1> DEFINE n == Len(Expected)
           e == SignedValues(Expected)
           kept == AmountsKept(c)
<1>1. PICK p : PlacesOf(p, c)
  BY PlacesAreFound
<1>2. /\ n \in Nat /\ DOMAIN Expected = 1..n /\ DOMAIN c = 1..Len(c)
      /\ Expected \in Seq(Reported)
  <2>1. Value \subseteq Reported
    BY DEF Value, Reported
  <2> QED BY <2>1
<1>3. e \in Seq(Int) /\ Len(e) = n /\ Net(Expected) = SumOf(e)
  BY <1>2, NetSums
<1>4. /\ kept \in Seq(Int) /\ Len(kept) = Len(c)
      /\ Overlooked(c) \in Int /\ SumOf(kept) \in Int
      /\ Net(c) = SumOf(kept) + Overlooked(c)
  BY NetIsKeptAndDropped
<1> DEFINE f == [i \in 1..n |-> kept[p[i]]]
           x == [i \in 1..n |-> f[i] - e[i]]
<1>5. \A i \in 1..n : /\ p[i] \in 1..Len(c) /\ f[i] = Signed(c[p[i]]) /\ e[i] = Signed(Expected[i])
                      /\ kept[p[i]] = f[i]
                      /\ f[i] \in Int /\ e[i] \in Int
  <2> SUFFICES ASSUME NEW i \in 1..n
               PROVE  /\ p[i] \in 1..Len(c) /\ f[i] = Signed(c[p[i]]) /\ e[i] = Signed(Expected[i])
                      /\ kept[p[i]] = f[i]
                      /\ f[i] \in Int /\ e[i] \in Int
    OBVIOUS
  <2>1. p[i] \in 1..Len(c) /\ ~Overwritten(c, p[i])
    BY <1>1 DEF PlacesOf
  <2>2. kept[p[i]] = Signed(c[p[i]])
    BY <1>2, <2>1 DEF AmountsKept
  <2>3. e[i] = Signed(Expected[i])
    BY <1>2 DEF SignedValues
  <2>4. f[i] = kept[p[i]]
    OBVIOUS
  <2>5. e[i] \in Int
    <3> HIDE DEF e, n
    <3> QED BY <1>3
  <2>6. kept[p[i]] \in Int
    <3> HIDE DEF kept, n
    <3> QED BY <1>4, <2>1
  <2> HIDE DEF f, e, kept, n
  <2> QED BY <2>1, <2>2, <2>3, <2>4, <2>5, <2>6
<1>6. f \in Seq(Int) /\ Len(f) = n
  <2>1. \A i \in 1..n : f[i] \in Int
    BY <1>5
  <2>2. f = [i \in 1..n |-> f[i]]
    OBVIOUS
  <2> HIDE DEF f, n
  <2> QED BY <1>2, <2>1, <2>2, ListOf
<1>7. x \in Seq(Int) /\ Len(x) = n /\ \A i \in 1..n : x[i] = f[i] - e[i] /\ f[i] = e[i] + x[i]
  <2>1. \A i \in 1..n : x[i] = f[i] - e[i]
    OBVIOUS
  <2>2. x = [i \in 1..n |-> x[i]]
    OBVIOUS
  <2> HIDE DEF f, e, x, n
  <2>3. \A i \in 1..n : x[i] \in Int /\ f[i] = e[i] + x[i]
    BY <1>5, <2>1, SMT
  <2>4. x \in Seq(Int) /\ Len(x) = n
    BY <1>2, <2>2, <2>3, ListOf
  <2> QED BY <2>1, <2>3, <2>4
<1>8. SumOf(kept) = SumOf(f)
  <2>1. Places(p, Len(f), f, kept)
    <3> HIDE DEF f, e, x
    <3>1. p \in [1..n -> 1..Len(kept)]
      BY <1>1, <1>4 DEF PlacesOf
    <3>2. \A i, j \in 1..n : p[i] = p[j] => i = j
      BY <1>1 DEF PlacesOf
    <3>3. ASSUME NEW k \in 1..Len(kept), \A i \in 1..n : p[i] # k PROVE kept[k] = 0
      <4>1. k \in DOMAIN c /\ Overwritten(c, k)
        BY <1>1, <1>2, <1>4, <3>3 DEF PlacesOf
      <4> QED BY <4>1 DEF AmountsKept
    <3> HIDE DEF kept, n
    <3> QED BY <1>5, <1>6, <3>1, <3>2, <3>3 DEF Places
  <2> HIDE DEF f, kept
  <2> QED BY <1>4, <1>6, <2>1, SumAtPlaces
<1>9. SumOf(f) = SumOf(e) + SumOf(x)
  <2> HIDE DEF f, e, x, n
  <2>1. /\ e \in Seq(Int) /\ x \in Seq(Int) /\ f \in Seq(Int) /\ Len(x) = Len(e) /\ Len(f) = Len(e)
        /\ \A k \in 1..Len(e) : f[k] = e[k] + x[k]
    BY <1>3, <1>6, <1>7
  <2> QED BY ONLY <2>1, SumOfTwo
<1>10. Tolerance \in Nat
  BY ReceiptsAssumption
<1>11. ASSUME NEW i \in 1..n
       PROVE  /\ x[i] <= Tolerance /\ -x[i] <= Tolerance
              /\ x[i] # 0 => Off(c, i) # 0
  <2>1. /\ c[p[i]].code = Expected[i].code /\ p[i] \in 1..Len(c)
        /\ Off(c, i) = Expected[i].amount - c[p[i]].amount
    BY <1>1 DEF PlacesOf, Off
  <2>2. c[p[i]].amount \in Int /\ Expected[i].amount \in Int
    <3>1. c[p[i]] \in Reported /\ Expected[i] \in Reported
      BY <1>2, <2>1, SeqElements
    <3> QED BY <3>1 DEF Reported
  <2>3. x[i] = Signed(c[p[i]]) - Signed(Expected[i])
    BY <1>5, <1>7
  <2> DEFINE y == x[i]
             d == Off(c, i)
  <2>4. d \in Int /\ (y = d \/ y = -d \/ y = 0)
    <3> DEFINE a == c[p[i]]
               b == Expected[i]
    <3>1. a.code = b.code /\ a.amount \in Int /\ b.amount \in Int
      BY <2>1, <2>2
    <3>2. y = Signed(a) - Signed(b) /\ d = b.amount - a.amount
      BY <2>1, <2>3
    <3> HIDE DEF a, b, y, d
    <3>3. LET z == Signed(a) - Signed(b)
              m == b.amount - a.amount
          IN  z = m \/ z = -m \/ z = 0
      BY ONLY <3>1, SignedMoves
    <3>4. d \in Int
      BY <3>1, <3>2
    <3> QED BY ONLY <3>2, <3>3, <3>4
  <2>5. d # 0 => d <= Tolerance /\ -d <= Tolerance
    BY <1>2, NothingBlocks DEF Within
  <2> HIDE DEF y, d, x
  <2>6. y <= Tolerance /\ -y <= Tolerance /\ (y # 0 => d # 0)
    <3>1. CASE d = 0
      <4>1. -d = 0
        <5>1. d <= 0 /\ d >= 0
          BY <3>1, SMT
        <5> QED BY <2>4, <5>1, SMT
      <4>2. y = 0
        BY <2>4, <3>1, <4>1
      <4> QED BY <1>10, <4>2, SMT
    <3>2. CASE d # 0
      BY <1>10, <2>4, <2>5, <3>2, SMT
    <3> QED BY <3>1, <3>2
  <2> QED BY <2>6 DEF y, d
<1> DEFINE I == NotZero(x, n)
<1>12. /\ Cardinality(I) \in Nat
       /\ SumOf(x) <= Tolerance * Cardinality(I) /\ -SumOf(x) <= Tolerance * Cardinality(I)
  <2> HIDE DEF x, n
  <2> QED BY <1>7, <1>10, <1>11, SumIsWithin
<1>13. /\ Cardinality(CompareConcepts(c)) \in Nat
       /\ Cardinality(I) <= Cardinality(CompareConcepts(c))
  <2>1. I \in SUBSET (1..n) /\ \A i \in I : Off(c, i) # 0
    <3> HIDE DEF x, n
    <3> QED BY <1>11 DEF NotZero
  <2> HIDE DEF I
  <2> QED BY <2>1, DifferencesCount
<1> HIDE DEF I, x, f, e, kept, n
<1>14. Tolerance * Cardinality(I) <= Tolerance * Cardinality(CompareConcepts(c))
  <2>1. \A t, a, b \in Nat : a <= b => t * a <= t * b
    <3> SUFFICES ASSUME NEW t \in Nat, NEW a \in Nat, NEW b \in Nat, a <= b PROVE t * a <= t * b
      OBVIOUS
    <3>1. b - a \in Nat /\ b = a + (b - a)
      BY SMT
    <3>2. \A u, v \in Nat : t * (u + v) = t * u + t * v /\ t * v \in Nat /\ t * u \in Nat
      BY SMT
    <3> DEFINE r == b - a
    <3>3. r \in Nat /\ b = a + r
      BY <3>1
    <3> HIDE DEF r
    <3>4. t * b = t * a + t * r /\ t * r \in Nat /\ t * a \in Nat
      BY <3>2, <3>3
    <3> QED BY <3>4, SMT
  <2> QED BY <1>10, <1>12, <1>13, <2>1
<1>15. SumOf(x) \in Int /\ SumOf(e) \in Int
  BY <1>3, <1>7, SumIsInteger
<1>16. Tolerance * Cardinality(I) \in Int /\ Tolerance * Cardinality(CompareConcepts(c)) \in Int
  <2>1. \A a, b \in Nat : a * b \in Int
    BY SMT
  <2> QED BY <1>10, <1>12, <1>13, <2>1
<1>17. Net(c) - Overlooked(c) - Net(Expected) = SumOf(x)
  <2>1. \A u, v, w, o \in Int : (u + v) + o - o - u = v
    BY SMT
  <2>2. Net(c) = (SumOf(e) + SumOf(x)) + Overlooked(c)
    BY <1>4, <1>8, <1>9
  <2> QED BY <1>3, <1>4, <1>15, <2>1, <2>2
<1>18. /\ SumOf(x) <= Tolerance * Cardinality(CompareConcepts(c))
       /\ -SumOf(x) <= Tolerance * Cardinality(CompareConcepts(c))
  <2>1. \A u, v, w \in Int : /\ u <= v /\ v <= w => u <= w
                             /\ -u <= v /\ v <= w => -u <= w
    BY SMT
  <2> QED BY <1>12, <1>14, <1>15, <1>16, <2>1
<1> QED BY <1>17, <1>18 DEF PaysTheNet

\* A receipt that does not block pays what was calculated and what the comparison
\* overlooked, up to the tolerance once per rounding difference it was told of,
\* for every calculation whose lines do not share a code, every tolerance and
\* every number of mistakes.
THEOREM PassedReceiptsPay == ReceiptsSpec => []PassedPaysTheNet
<1>1. ResultIsOfInput /\ ReceiptIsCompared => PassedPaysTheNet
  <2> SUFFICES ASSUME ResultIsOfInput, ReceiptIsCompared, validation # None,
                      ~validation.blocking, Repeated(Expected) = {}
               PROVE  LET off == Net(receipt.concepts) - Overlooked(receipt.concepts) - Net(Expected)
                          margin == Tolerance * Cardinality(validation.differences)
                      IN off <= margin /\ -off <= margin
    BY DEF PassedPaysTheNet
  <2>1. IsPrepared /\ receipt # None /\ validation = Comparison(receipt)
    BY DEF ReceiptIsCompared
  <2>2. Expected \in Seq(Value) /\ Distinct(Expected)
    BY <2>1, ValuesArePrepared, DistinctCodes
  <2>3. /\ validation.differences = Differences(receipt)
        /\ ~\E d \in Differences(receipt) : d.blocking
    BY <2>1 DEF Comparison
  <2>4. receipt # Unreadable
    <3> SUFFICES ASSUME receipt = Unreadable PROVE FALSE
      OBVIOUS
    <3>1. Differences(receipt) = {Difference("UNREADABLE", None, TRUE)}
      BY DEF Differences, Unreadable
    <3> QED BY <2>3, <3>1 DEF Difference
  <2>5. PICK c \in Seq(Reported) : receipt = Readable(c)
    BY <2>1, <2>4 DEF ReceiptIsCompared
  <2>6. Differences(receipt) = CompareConcepts(c) /\ receipt.concepts = c
    BY <2>5 DEF Differences, Readable
  <2>7. ~Blocks(c)
    BY <2>3, <2>6 DEF Blocks
  <2>8. PaysTheNet(c)
    BY <2>2, <2>7, UnblockedPays
  <2> QED BY <2>3, <2>6, <2>8 DEF PaysTheNet
<1> QED BY <1>1, ReceiptStays, PTL

----------------------------------------------------------------------------
(* Rounding once *)

LEMMA ScaleKeepsOrder ==
  ASSUME NEW x \in Int, NEW y \in Int, NEW k \in Nat, x <= y
  PROVE  k * x <= k * y
<1>1. y - x \in Nat
  BY SMT
<1>2. k * (y - x) >= 0
  BY <1>1, SMT
<1> QED BY <1>2, SMT

LEMMA ProductIsBounded ==
  ASSUME NEW x \in Int, NEW y \in Int, NEW X \in Int, NEW Y \in Int,
         -X <= x, x <= X, -Y <= y, y <= Y
  PROVE  x * y \in Int /\ X * Y \in Int /\ -(X * Y) <= x * y /\ x * y <= X * Y
<1>1. X - x \in Nat /\ X + x \in Nat /\ Y - y \in Nat /\ Y + y \in Nat
  BY SMT
<1>2. (X - x) * (Y + y) >= 0 /\ (X + x) * (Y - y) >= 0
  BY <1>1, SMT
<1>3. (X - x) * (Y - y) >= 0 /\ (X + x) * (Y + y) >= 0
  BY <1>1, SMT
<1>4. x * y <= X * Y
  BY <1>2, SMT
<1>5. -(X * Y) <= x * y
  BY <1>3, SMT
<1> QED BY <1>4, <1>5, SMT

\* A quotient is at most half a fraction away.
LEMMA NearestIsClose ==
  ASSUME NEW n \in Int, NEW d \in Nat \ {0}
  PROVE  /\ Nearest(n, d) \in Int
         /\ 2 * (d * Nearest(n, d) - n) <= d
         /\ 2 * (n - d * Nearest(n, d)) <= d
<1>1. ASSUME NEW a \in Nat
      PROVE  LET q == (2*a + d) \div (2*d) IN
             q \in Int /\ 2 * (d * q - a) <= d /\ 2 * (a - d * q) <= d
  <2> DEFINE b == 2*d
             c == 2*a + d
             q == c \div b
             r == c % b
  <2>1. b \in Nat \ {0} /\ c \in Nat
    BY SMT
  <2>2. q \in Int /\ r \in Int /\ c = b * q + r /\ 0 <= r /\ r < b
    <3> HIDE DEF b, c
    <3> QED BY <2>1, SMT
  <2>3. b * q = 2 * (d * q)
    <3> HIDE DEF q
    <3> QED BY <2>2, SMT
  <2> HIDE DEF q, r
  <2> DEFINE p == d * q
  <2>4. p \in Int
    BY <2>2, SMT
  <2> HIDE DEF p
  <2>5. 2 * (p - a) <= d /\ 2 * (a - p) <= d
    BY <2>2, <2>3, <2>4, SMT DEF p
  <2> QED BY <2>2, <2>5 DEF p, q
<1>2. CASE n >= 0
  BY <1>1, <1>2 DEF Nearest
<1>3. CASE n < 0
  <2> DEFINE a == -n
             q == (2*a + d) \div (2*d)
  <2>1. a \in Nat
    BY <1>3, SMT
  <2>2. q \in Int /\ 2 * (d * q - a) <= d /\ 2 * (a - d * q) <= d
    <3> HIDE DEF a
    <3> QED BY <1>1, <2>1
  <2>3. Nearest(n, d) = -q
    <3>1. 2*a + d = d - 2*n
      BY SMT
    <3> QED BY <1>3, <3>1, SMT DEF Nearest
  <2> HIDE DEF q
  <2>4. d * (-q) = -(d * q) /\ d * q \in Int
    BY <2>2, SMT
  <2> QED BY <2>2, <2>3, <2>4, SMT
<1> QED BY <1>2, <1>3, SMT

\* What the value of an hour, its rate, the hours and their product lose together
LEMMA HourlyErrors ==
  ASSUME NEW a \in Int, NEW A \in Int, -A <= a, a <= A,
         NEW t \in Nat, NEW m \in Nat, NEW D \in Nat \ {0}, NEW O \in Nat \ {0}, NEW u \in Nat,
         NEW V \in Int, NEW R \in Int, NEW H \in Int, NEW T \in Int,
         2 * (D * V - a) <= D, 2 * (a - D * V) <= D,
         2 * (10 * R - V * t) <= 10, 2 * (V * t - 10 * R) <= 10,
         2 * (60 * H - m * O) <= 60, 2 * (m * O - 60 * H) <= 60,
         2 * (O * T - R * H) <= O, 2 * (R * H - O * T) <= O,
         (t + 10) * (m * O + 30) + 60 * (A * t) + 600 * O < 600 * (u * O)
  PROVE  /\ 2 * (T * (D * 600) - a * t * m) < u * (D * 600)
         /\ 2 * (a * t * m - T * (D * 600)) < u * (D * 600)
<1> DEFINE x1 == 2 * (D * V - a)
           x2 == 2 * (10 * R - V * t)
           x3 == 60 * H - m * O
           x4 == 2 * (O * T - R * H)
           y == x1 * t + D * x2
           e == T * (D * 600) - a * t * m
           h == m * O + 30
           s == t + 10
           k == 600 * (u * O)
<1>1. x1 \in Int /\ x2 \in Int /\ x3 \in Int /\ x4 \in Int /\ e \in Int /\ h \in Int /\ s \in Nat
      /\ 60 * H \in Int /\ k \in Int
  BY SMT
<1>2. O * (2 * e) = 2 * ((a * t) * x3) + y * (60 * H) + 600 * (D * x4)
  BY SMT
<1>3. -30 <= x3 /\ x3 <= 30 /\ -h <= 60 * H /\ 60 * H <= h
  <2>1. m * O \in Nat
    BY SMT
  <2> QED BY <2>1, SMT
<1>4. -D <= x1 /\ x1 <= D /\ -10 <= x2 /\ x2 <= 10 /\ -O <= x4 /\ x4 <= O
  BY SMT
<1> HIDE DEF x1, x2, x3, x4, h, k, e
<1>5. /\ a * t \in Int /\ A * t \in Int /\ A * t >= 0
      /\ -(A * t) <= a * t /\ a * t <= A * t
  <2>1. A \in Nat /\ -t <= t /\ t <= t
    BY SMT
  <2> QED BY <2>1, ProductIsBounded, SMT
<1>6. /\ (a * t) * x3 \in Int
      /\ -((A * t) * 30) <= (a * t) * x3 /\ (a * t) * x3 <= (A * t) * 30
  BY <1>1, <1>3, <1>5, ProductIsBounded
<1>7. y \in Int /\ D * s \in Int /\ -(D * s) <= y /\ y <= D * s
  <2>1. -t <= t /\ t <= t /\ -D <= D /\ D <= D
    BY SMT
  <2>2. x1 * t \in Int /\ -(D * t) <= x1 * t /\ x1 * t <= D * t
    BY <1>1, <1>4, <2>1, ProductIsBounded
  <2>3. D * x2 \in Int /\ -(D * 10) <= D * x2 /\ D * x2 <= D * 10
    BY <1>1, <1>4, <2>1, ProductIsBounded
  <2>4. D * s = D * t + D * 10
    BY SMT
  <2> QED BY <2>2, <2>3, <2>4, SMT
<1>8. /\ y * (60 * H) \in Int
      /\ -((D * s) * h) <= y * (60 * H) /\ y * (60 * H) <= (D * s) * h
  <2> HIDE DEF y, s
  <2> QED BY <1>1, <1>3, <1>7, ProductIsBounded
<1>9. D * x4 \in Int /\ -(D * O) <= D * x4 /\ D * x4 <= D * O
  <2>1. -D <= D /\ D <= D
    BY SMT
  <2> QED BY <1>1, <1>4, <2>1, ProductIsBounded
<1> HIDE DEF s, y
<1>10. /\ O * (2 * e) <= 60 * (A * t) + (D * s) * h + 600 * (D * O)
       /\ -(O * (2 * e)) <= 60 * (A * t) + (D * s) * h + 600 * (D * O)
  <2> DEFINE p == (a * t) * x3
             q == y * (60 * H)
             r == D * x4
             P == A * t
             Q == (D * s) * h
             S == D * O
  <2>1. p \in Int /\ q \in Int /\ r \in Int /\ P \in Int /\ Q \in Int /\ S \in Int
    BY <1>1, <1>5, <1>6, <1>8, <1>9, SMT
  <2>2. -(P * 30) <= p /\ p <= P * 30 /\ -Q <= q /\ q <= Q /\ -S <= r /\ r <= S
    BY <1>6, <1>8, <1>9
  <2>3. O * (2 * e) = 2 * p + q + 600 * r
    BY <1>2
  <2> HIDE DEF p, q, r, P, Q, S
  <2>4. O * (2 * e) <= 60 * P + Q + 600 * S /\ -(O * (2 * e)) <= 60 * P + Q + 600 * S
    BY <2>1, <2>2, <2>3, SMT
  <2> QED BY <2>4 DEF P, Q, S
<1>11. 60 * (A * t) + (D * s) * h + 600 * (D * O) <= D * (s * h + 60 * (A * t) + 600 * O)
  <2> DEFINE P == A * t
  <2>1. P \in Nat
    BY <1>5, SMT
  <2> HIDE DEF P
  <2>2. D - 1 \in Nat
    BY SMT
  <2>3. (D - 1) * P >= 0
    BY <2>1, <2>2, SMT
  <2>4. D * (s * h + 60 * P + 600 * O) = (D * s) * h + 60 * (D * P) + 600 * (D * O)
    BY <1>1, <2>1, SMT
  <2>5. D * P = (D - 1) * P + P
    BY <2>1, SMT
  <2>6. 60 * P + (D * s) * h + 600 * (D * O) <= D * (s * h + 60 * P + 600 * O)
    BY <1>1, <2>1, <2>3, <2>4, <2>5, SMT
  <2> QED BY <2>6 DEF P
<1>12. s * h + 60 * (A * t) + 600 * O + 1 <= k
  BY <1>1, <1>5, SMT DEF s, h, k
<1>13. D * (s * h + 60 * (A * t) + 600 * O) + D <= D * k
  <2> DEFINE w == s * h + 60 * (A * t) + 600 * O
  <2>1. w \in Int /\ w + 1 \in Int
    BY <1>1, <1>5, SMT
  <2>2. D * (w + 1) <= D * k
    <3> HIDE DEF w
    <3> QED BY <1>1, <1>12, <2>1, ScaleKeepsOrder DEF w
  <2> HIDE DEF w
  <2>3. D * (w + 1) = D * w + D
    BY <2>1, SMT
  <2>4. D * w + D <= D * k
    BY <2>2, <2>3
  <2> QED BY <2>4 DEF w
<1>14. D * k = O * (u * (D * 600))
  BY SMT DEF k
<1>15. O * (2 * e) < O * (u * (D * 600)) /\ -(O * (2 * e)) < O * (u * (D * 600))
  <2> DEFINE w == D * (s * h + 60 * (A * t) + 600 * O)
             z == O * (2 * e)
             b == 60 * (A * t) + (D * s) * h + 600 * (D * O)
             g == O * (u * (D * 600))
  <2>1. w \in Int /\ z \in Int /\ b \in Int /\ g \in Int
    BY <1>1, <1>5, SMT
  <2>2. z <= b /\ -z <= b /\ b <= w /\ w + D <= g
    BY <1>10, <1>11, <1>13, <1>14
  <2> HIDE DEF w, z, b, g
  <2>3. z < g /\ -z < g
    BY <2>1, <2>2, SMT
  <2> QED BY <2>3 DEF z, g
<1>16. ASSUME NEW x \in Int, NEW z \in Int, O * x < O * z PROVE x < z
  <2>1. CASE z <= x
    <3>1. O * z <= O * x
      BY <2>1, ScaleKeepsOrder
    <3>2. O * x \in Int /\ O * z \in Int
      BY SMT
    <3> QED BY <1>16, <3>1, <3>2, SMT
  <2> QED BY <2>1, SMT
<1> DEFINE g == u * (D * 600)
<1>17. 2 * e \in Int /\ -(2 * e) \in Int /\ g \in Int /\ O * (-(2 * e)) = -(O * (2 * e))
  BY <1>1, SMT
<1>18. 2 * e < g /\ -(2 * e) < g
  <2> HIDE DEF g
  <2> QED BY <1>15, <1>16, <1>17 DEF g
<1> QED BY <1>1, <1>18, SMT DEF e

\* To the nearest, a rounding moves at most half a unit.
LEMMA RoundingToTheNearest ==
  ASSUME NEW x \in Int, NEW unit \in Nat \ {0}, NEW mode \in {"HALF_UP", "HALF_EVEN"}
  PROVE  /\ 2 * (Round(x, unit, mode) - x) <= unit
         /\ 2 * (x - Round(x, unit, mode)) <= unit
<1> DEFINE size == IF x < 0 THEN -x ELSE x
           quotient == size \div unit
           rest == size % unit
           up == IF RoundsUp(quotient, rest, unit, mode) THEN 1 ELSE 0
           rounded == (quotient + up) * unit
<1>1. size \in Nat
  BY SMT
<1>2. /\ size = quotient * unit + rest
      /\ quotient \in Nat
      /\ rest \in 0..(unit - 1)
  <2> HIDE DEF size
  <2> QED BY <1>1, SMT
<1>3. up \in {0, 1} /\ (up = 1 => 2 * rest >= unit) /\ (up = 0 => 2 * rest <= unit)
  <2>1. (up = 1 <=> RoundsUp(quotient, rest, unit, mode)) /\ up \in {0, 1}
    OBVIOUS
  <2>2. RoundsUp(quotient, rest, unit, mode) => 2 * rest >= unit
    <3> HIDE DEF up, rest, quotient
    <3> QED BY <1>2, SMT DEF RoundsUp
  <2>3. ~RoundsUp(quotient, rest, unit, mode) => 2 * rest <= unit
    <3> HIDE DEF up, rest, quotient
    <3> QED BY <1>2, SMT DEF RoundsUp
  <2> HIDE DEF up
  <2> QED BY <2>1, <2>2, <2>3
<1>4. Round(x, unit, mode) = IF x < 0 THEN -rounded ELSE rounded
  BY DEF Round
<1> HIDE DEF up, quotient, rest
<1>5. rounded = quotient * unit + up * unit /\ up * unit = (IF up = 1 THEN unit ELSE 0)
      /\ quotient * unit \in Int
  BY <1>2, <1>3, SMT
<1>6. /\ rounded \in Int
      /\ 2 * (rounded - size) <= unit
      /\ 2 * (size - rounded) <= unit
  BY <1>1, <1>2, <1>3, <1>5, SMT
<1> HIDE DEF rounded
<1> QED BY <1>4, <1>6, SMT

\* What an amount may be away from the exact value
Margin(v) == IF v.mode \in {"UP", "DOWN"} THEN 2 * v.conceptUnit ELSE v.conceptUnit
CloseTo(v, amount, numerator, denominator) ==
  /\ amount * denominator - numerator < Margin(v) * denominator
  /\ -(amount * denominator - numerator) < Margin(v) * denominator

\* Less than half a unit before the rounding, so less than the margin after it
LEMMA RoundedIsClose ==
  ASSUME NEW in, IsInput(in), NEW x \in Int, NEW n \in Int, NEW d \in Nat \ {0},
         2 * (x * d - n) < in.parameters.conceptUnit * d,
         2 * (n - x * d) < in.parameters.conceptUnit * d
  PROVE  CloseTo(in.parameters, RoundConcept(in.parameters, x), n, d)
<1> DEFINE v == in.parameters
           unit == v.conceptUnit
           L == Round(x, unit, v.mode)
           ud == unit * d
           xd == x * d
           Ld == L * d
<1>1. unit \in Nat \ {0} /\ v.mode \in {"HALF_UP", "HALF_EVEN", "DOWN", "UP"}
  <2>1. v \in VersionLike(v)
    BY VersionIsTyped
  <2> HIDE DEF v
  <2> QED BY <2>1 DEF VersionLike, unit
<1>2. RoundConcept(v, x) = L
  BY DEF RoundConcept
<1>3. L \in Int /\ L - x < unit /\ x - L < unit
  <2> HIDE DEF unit
  <2> QED BY <1>1, RoundingIsClose
<1>4. v.mode \in {"HALF_UP", "HALF_EVEN"} => 2 * (L - x) <= unit /\ 2 * (x - L) <= unit
  <2> HIDE DEF unit, v
  <2> QED BY <1>1, RoundingToTheNearest
<1> HIDE DEF unit, L
<1>5. ud \in Int /\ xd \in Int /\ Ld \in Int
  BY <1>1, <1>3, SMT
<1>6. Ld - xd <= ud /\ xd - Ld <= ud
  <2>1. -unit <= L - x /\ L - x <= unit /\ -d <= d /\ d <= d /\ L - x \in Int
    BY <1>1, <1>3, SMT
  <2>2. -(unit * d) <= (L - x) * d /\ (L - x) * d <= unit * d
    BY <1>1, <2>1, ProductIsBounded
  <2>3. (L - x) * d = Ld - xd
    BY <1>3, SMT
  <2> HIDE DEF Ld, xd
  <2> QED BY <1>5, <2>2, <2>3, SMT
<1>7. v.mode \in {"HALF_UP", "HALF_EVEN"} => 2 * (Ld - xd) <= ud /\ 2 * (xd - Ld) <= ud
  <2> SUFFICES ASSUME v.mode \in {"HALF_UP", "HALF_EVEN"}
               PROVE  2 * (Ld - xd) <= ud /\ 2 * (xd - Ld) <= ud
    OBVIOUS
  <2>1. -unit <= 2 * (L - x) /\ 2 * (L - x) <= unit /\ -d <= d /\ d <= d /\ 2 * (L - x) \in Int
    BY <1>1, <1>3, <1>4, SMT
  <2>2. -(unit * d) <= (2 * (L - x)) * d /\ (2 * (L - x)) * d <= unit * d
    BY <1>1, <2>1, ProductIsBounded
  <2>3. (2 * (L - x)) * d = 2 * (Ld - xd)
    BY <1>3, SMT
  <2> HIDE DEF Ld, xd
  <2> QED BY <1>5, <2>2, <2>3, SMT
<1>8. 2 * (xd - n) < ud /\ 2 * (n - xd) < ud
  BY DEF unit
<1> HIDE DEF xd, Ld, ud
<1>9. CASE v.mode \in {"UP", "DOWN"}
  <2>1. Margin(v) * d = 2 * ud
    BY <1>1, <1>9, SMT DEF Margin, unit, ud
  <2>2. Ld - n < 2 * ud /\ -(Ld - n) < 2 * ud
    BY <1>5, <1>6, <1>8, SMT
  <2> QED BY <1>2, <2>1, <2>2 DEF CloseTo, Ld
<1>10. CASE v.mode \in {"HALF_UP", "HALF_EVEN"}
  <2>1. Margin(v) * d = ud
    BY <1>1, <1>10 DEF Margin, unit, ud
  <2>2. Ld - n < ud /\ -(Ld - n) < ud
    BY <1>5, <1>7, <1>8, <1>10, SMT
  <2> QED BY <1>2, <2>1, <2>2 DEF CloseTo, Ld
<1> QED BY <1>1, <1>9, <1>10

\* The hours of an agreed amount
AgreedHours(in) == IF Monthly(in) THEN in.parameters.overtime.divisor ELSE 1

LEMMA HourlyIsClose ==
  ASSUME NEW in, IsInput(in), ~DividesByZero(in), NEW t \in Rates(in), NEW m \in Minutes(in),
         t \in Nat, m \in Nat
  PROVE  CloseTo(in.parameters, HourlyAmount(in, t, m),
                 in.agreed * t * m, AgreedHours(in) * 600)
<1> DEFINE a == in.agreed
           unit == in.parameters.conceptUnit
           D == AgreedHours(in)
           V == HourlyValue(in)
           R == Nearest(V * t, 10)
           H == Hours(m)
           T == Times(R, H)
           A == IF a < 0 THEN -a ELSE a
<1>1. a \in Int /\ unit \in Nat \ {0} /\ in.parameters.overtime.divisor \in Nat
      /\ (Monthly(in) => in.parameters.overtime.divisor # 0) /\ One \in Nat \ {0}
  BY InputIsWellTyped, InputsAssumption DEF WellTyped, DividesByZero
<1>2. D \in Nat \ {0}
  BY <1>1 DEF AgreedHours
<1>3. V \in Int /\ 2 * (D * V - a) <= D /\ 2 * (a - D * V) <= D
  <2>1. CASE Monthly(in)
    <3>1. in.parameters.overtime.divisor \in Nat \ {0}
      BY <1>1, <2>1
    <3>2. V = Nearest(a, in.parameters.overtime.divisor) /\ D = in.parameters.overtime.divisor
      BY <2>1 DEF HourlyValue, AgreedHours
    <3> HIDE DEF a, V, D
    <3> QED BY <1>1, <3>1, <3>2, NearestIsClose
  <2>2. CASE ~Monthly(in)
    <3>1. V = a /\ D = 1
      BY <2>2 DEF HourlyValue, AgreedHours
    <3> HIDE DEF a, V, D
    <3> QED BY <1>1, <3>1, SMT
  <2> QED BY <2>1, <2>2
<1> HIDE DEF V, D
<1>4. R \in Int /\ 2 * (10 * R - V * t) <= 10 /\ 2 * (V * t - 10 * R) <= 10
  BY <1>3, NearestIsClose, V * t \in Int, 10 \in Nat \ {0}
<1> HIDE DEF R
<1>5. H \in Int /\ 2 * (60 * H - m * One) <= 60 /\ 2 * (m * One - 60 * H) <= 60
  BY <1>1, NearestIsClose, m * One \in Int, 60 \in Nat \ {0} DEF Hours
<1> HIDE DEF H
<1>6. T \in Int /\ 2 * (One * T - R * H) <= One /\ 2 * (R * H - One * T) <= One
  BY <1>1, <1>4, <1>5, NearestIsClose, R * H \in Int DEF Times
<1> HIDE DEF T
<1>7. A \in Int /\ -A <= a /\ a <= A /\ A \in {a, -a}
  <2> HIDE DEF a
  <2> QED BY <1>1, SMT
<1>8. (t + 10) * (m * One + 30) + 60 * (A * t) + 600 * One < 600 * (unit * One)
  <2> HIDE DEF A
  <2> QED BY <1>7, PrecisionAssumption DEF IsInput
<1> HIDE DEF A
<1>9. /\ 2 * (T * (D * 600) - a * t * m) < unit * (D * 600)
      /\ 2 * (a * t * m - T * (D * 600)) < unit * (D * 600)
  <2> HIDE DEF a, unit
  <2> QED BY <1>1, <1>2, <1>3, <1>4, <1>5, <1>6, <1>7, <1>8, HourlyErrors
<1>10. D * 600 \in Nat \ {0} /\ a * t * m \in Int
  <2> HIDE DEF a
  <2> QED BY <1>1, <1>2, SMT
<1>11. HourlyAmount(in, t, m) = RoundConcept(in.parameters, T)
  BY DEF HourlyAmount, V, R, H, T
<1>12. CloseTo(in.parameters, RoundConcept(in.parameters, T), a * t * m, D * 600)
  <2> DEFINE n == a * t * m
             d == D * 600
  <2>1. /\ n \in Int /\ d \in Nat \ {0}
        /\ 2 * (T * d - n) < in.parameters.conceptUnit * d
        /\ 2 * (n - T * d) < in.parameters.conceptUnit * d
    BY <1>9, <1>10
  <2> HIDE DEF n, d
  <2>2. CloseTo(in.parameters, RoundConcept(in.parameters, T), n, d)
    BY <1>6, <2>1, RoundedIsClose
  <2> QED BY <2>2 DEF n, d
<1> QED BY <1>11, <1>12 DEF D

LEMMA DailyIsClose ==
  ASSUME NEW in, IsInput(in), NEW divisor \in Nat \ {0}, NEW days \in Nat,
         days < in.parameters.conceptUnit
  PROVE  CloseTo(in.parameters, RoundConcept(in.parameters, DailyValue(in, divisor) * days),
                 in.agreed * days, divisor)
<1> DEFINE a == in.agreed
           unit == in.parameters.conceptUnit
           N == DailyValue(in, divisor)
           e == 2 * (divisor * N - a)
<1>1. a \in Int /\ unit \in Nat \ {0}
  BY InputIsWellTyped DEF WellTyped
<1>2. N \in Int /\ e <= divisor /\ 2 * (a - divisor * N) <= divisor
  <2> HIDE DEF a
  <2> QED BY <1>1, NearestIsClose DEF DailyValue, a
<1>3. N * days \in Int /\ a * days \in Int
  <2> HIDE DEF a, N
  <2> QED BY <1>1, <1>2, SMT
<1>4. /\ 2 * ((N * days) * divisor - a * days) < unit * divisor
      /\ 2 * (a * days - (N * days) * divisor) < unit * divisor
  <2> HIDE DEF a, unit, N
  <2>1. e \in Int /\ -divisor <= e /\ e <= divisor /\ -days <= days /\ days <= days
    BY <1>1, <1>2, SMT
  <2>2. e * days = 2 * ((N * days) * divisor - a * days)
        /\ 2 * (a * days - (N * days) * divisor) = -(e * days)
    BY <1>1, <1>2, SMT
  <2> HIDE DEF e
  <2>3. e * days \in Int /\ -(divisor * days) <= e * days /\ e * days <= divisor * days
    BY <2>1, ProductIsBounded
  <2>4. divisor * days < unit * divisor
    <3>1. days + 1 <= unit /\ days + 1 \in Int /\ unit \in Int /\ divisor \in Nat
      BY <1>1, SMT DEF unit
    <3>2. divisor * (days + 1) <= divisor * unit
      BY <1>1, <3>1, ScaleKeepsOrder
    <3> QED BY <1>1, <3>2, SMT
  <2>5. e * days < unit * divisor /\ -(e * days) < unit * divisor
    BY <1>1, <2>3, <2>4, SMT
  <2> QED BY <2>2, <2>5
<1> HIDE DEF N
<1>5. CloseTo(in.parameters, RoundConcept(in.parameters, N * days), a * days, divisor)
  BY <1>3, <1>4, RoundedIsClose
<1> QED BY <1>5 DEF N

LEMMA BonusIsClose ==
  ASSUME NEW in, IsInput(in), NEW divisor \in Nat \ {0}, NEW p \in 0..6, NEW best \in Int
  PROVE  CloseTo(in.parameters,
                 RoundConcept(in.parameters, Nearest(Nearest(best, divisor) * p, 6)),
                 best * p, divisor * 6)
<1> DEFINE unit == in.parameters.conceptUnit
           N == Nearest(best, divisor)
           x == Nearest(N * p, 6)
           e == 2 * (divisor * N - best)
           f == 2 * (6 * x - N * p)
<1>1. unit \in Nat /\ unit > 2
  BY InputIsWellTyped, PrecisionAssumption DEF WellTyped, IsInput
<1>2. N \in Int /\ e <= divisor /\ 2 * (best - divisor * N) <= divisor
  BY NearestIsClose
<1> HIDE DEF N
<1>3. x \in Int /\ f <= 6 /\ 2 * (N * p - 6 * x) <= 6
  BY <1>2, NearestIsClose, N * p \in Int, 6 \in Nat \ {0}
<1> HIDE DEF x, unit
<1>4. /\ 2 * (x * (divisor * 6) - best * p) < unit * (divisor * 6)
      /\ 2 * (best * p - x * (divisor * 6)) < unit * (divisor * 6)
  <2>1. /\ e \in Int /\ -divisor <= e /\ e <= divisor
        /\ f \in Int /\ -6 <= f /\ f <= 6
        /\ -6 <= p /\ p <= 6 /\ -divisor <= divisor /\ divisor <= divisor /\ p \in Int
    BY <1>2, <1>3, SMT
  <2>2. 2 * (x * (divisor * 6) - best * p) = divisor * f + e * p
        /\ 2 * (best * p - x * (divisor * 6)) = -(divisor * f + e * p)
    BY <1>2, <1>3, SMT
  <2> HIDE DEF e, f
  <2>3. divisor * f \in Int /\ -(divisor * 6) <= divisor * f /\ divisor * f <= divisor * 6
    BY <2>1, ProductIsBounded
  <2>4. e * p \in Int /\ -(divisor * 6) <= e * p /\ e * p <= divisor * 6
    BY <2>1, ProductIsBounded
  <2>5. (divisor * 6) * 3 <= (divisor * 6) * unit
    <3>1. divisor * 6 \in Nat /\ 3 <= unit
      BY <1>1, SMT
    <3> QED BY <1>1, <3>1, ScaleKeepsOrder
  <2>6. unit * (divisor * 6) = (divisor * 6) * unit /\ unit * (divisor * 6) \in Int
    BY <1>1, SMT
  <2>7. divisor * f + e * p < unit * (divisor * 6) /\ -(divisor * f + e * p) < unit * (divisor * 6)
    BY <2>3, <2>4, <2>5, <2>6, SMT
  <2> QED BY <2>2, <2>7
<1>5. best * p \in Int /\ divisor * 6 \in Nat \ {0}
  BY SMT
<1>6. CloseTo(in.parameters, RoundConcept(in.parameters, x), best * p, divisor * 6)
  BY <1>3, <1>4, <1>5, RoundedIsClose DEF unit
<1> QED BY <1>6 DEF x, N

\* The lines

Divided == {"BASE_HOURLY", "OVERTIME", "HOLIDAY_WORKED", "VACATION", "ABSENCE_DEDUCTION",
            "ANNUAL_BONUS"}
IsClose(in, l) == CloseTo(in.parameters, l.amount, Exact(in, l)[1], Exact(in, l)[2])

LEMMA UndividedIsClose ==
  ASSUME NEW in, WellTyped(in), NEW l \in AnyLine(in.parameters.conceptUnit), l.code \notin Divided
  PROVE  IsClose(in, l)
<1>1. in.parameters.conceptUnit \in Nat \ {0}
  BY DEF WellTyped
<1>2. l.amount \in Int
  <2>1. l.amount \in Multiples(in.parameters.conceptUnit)
    BY DEF AnyLine
  <2> QED BY <1>1, <2>1, MultiplesAreIntegers
<1>3. Exact(in, l) = <<l.amount, 1>>
  BY DEF Exact, Divided
<1>4. Margin(in.parameters) \in Nat \ {0}
  BY <1>1, SMT DEF Margin
<1>5. ASSUME NEW x \in Int, NEW k \in Nat \ {0} PROVE x * 1 - x < k * 1 /\ -(x * 1 - x) < k * 1
  BY SMT
<1>6. Exact(in, l)[1] = l.amount /\ Exact(in, l)[2] = 1
  BY <1>3
<1> QED BY <1>2, <1>4, <1>5, <1>6 DEF IsClose, CloseTo

LEMMA HourlyLineIsClose ==
  ASSUME NEW in, IsInput(in), ~DividesByZero(in), NEW t \in Rates(in), NEW m \in Minutes(in),
         t \in Nat, m \in Nat, NEW code \in {"BASE_HOURLY", "OVERTIME", "HOLIDAY_WORKED"},
         NEW sign
  PROVE  IsClose(in, Line(code, sign, m, t, HourlyAmount(in, t, m)))
<1> DEFINE l == Line(code, sign, m, t, HourlyAmount(in, t, m))
<1>1. l.code = code /\ l.quantity = m /\ l.rate = t /\ l.amount = HourlyAmount(in, t, m)
  BY DEF Line
<1> HIDE DEF l
<1>2. Exact(in, l) = <<in.agreed * t * m, AgreedHours(in) * 600>>
  BY <1>1 DEF Exact, AgreedHours
<1>3. Exact(in, l)[1] = in.agreed * t * m /\ Exact(in, l)[2] = AgreedHours(in) * 600
  BY <1>2
<1>4. IsClose(in, l)
  BY <1>1, <1>3, HourlyIsClose DEF IsClose
<1> QED BY <1>4 DEF l

LEMMA ClosedSeq ==
  ASSUME NEW S, NEW T, NEW s \in Seq(S), \A i \in DOMAIN s : s[i] \in T
  PROVE  s \in Seq(T)
OBVIOUS

\* A list of one line or none
LEMMA OnlyCloseIsClose ==
  ASSUME NEW in, NEW condition, NEW l, condition => IsClose(in, l)
  PROVE  \A i \in DOMAIN Only(condition, l) : IsClose(in, Only(condition, l)[i])
<1>1. CASE condition
  <2>1. Only(condition, l) = <<l>>
    BY <1>1 DEF Only
  <2>2. \A i \in DOMAIN <<l>> : <<l>>[i] = l
    OBVIOUS
  <2> QED BY <1>1, <2>1, <2>2
<1>2. CASE ~condition
  <2>1. Only(condition, l) = <<>>
    BY <1>2 DEF Only
  <2>2. \A i \in DOMAIN <<>> : FALSE
    OBVIOUS
  <2> QED BY <2>1, <2>2
<1> QED BY <1>1, <1>2

LEMMA BaseLineIsClose ==
  ASSUME NEW in, IsInput(in), WellTyped(in), ~DividesByZero(in)
  PROVE  IsClose(in, BaseLine(in))
<1>1. CASE Monthly(in)
  <2>1. BaseLine(in) \in AnyLine(in.parameters.conceptUnit)
    BY BaseLineIsConcept, ConceptsAreLines
  <2>2. BaseLine(in).code = "BASE_MONTHLY"
    BY <1>1 DEF BaseLine, Line
  <2> QED BY <2>1, <2>2, UndividedIsClose DEF Divided
<1>2. CASE ~Monthly(in)
  <2>1. in.normalMinutes \in Nat /\ in.normalMinutes \in Minutes(in) /\ 10 \in Rates(in)
    BY DEF WellTyped, Minutes, Rates
  <2>2. BaseLine(in) = Line("BASE_HOURLY", "CREDIT", in.normalMinutes, 10,
                            HourlyAmount(in, 10, in.normalMinutes))
    BY <1>2 DEF BaseLine
  <2> QED BY <2>1, <2>2, 10 \in Nat, HourlyLineIsClose
<1> QED BY <1>1, <1>2

LEMMA OvertimeIsClose ==
  ASSUME NEW in, IsInput(in), WellTyped(in), ~DividesByZero(in)
  PROVE  \A i \in DOMAIN OvertimeLines(in) : IsClose(in, OvertimeLines(in)[i])
<1> DEFINE s == KnownOvertime(in)
           I == {i \in DOMAIN in.overtime : KnownKind(in, in.overtime[i])}
<1>1. s \in Seq({in.overtime[k] : k \in I \cap DOMAIN in.overtime})
  <2>1. in.overtime \in Seq([kind : STRING, minutes : Nat])
    BY DEF WellTyped
  <2> QED BY <2>1, KeptIsKept DEF KnownOvertime
<1>2. ASSUME NEW i \in DOMAIN s PROVE IsClose(in, OvertimeLine(in, s[i]))
  <2>1. s[i] \in {in.overtime[k] : k \in I \cap DOMAIN in.overtime}
    <3> HIDE DEF s, I
    <3> QED BY <1>1, SeqElements
  <2>2. PICK k \in DOMAIN in.overtime : s[i] = in.overtime[k]
    BY <2>1
  <2>3. s[i] \in Known(in)
    <3>1. s \in Seq(Known(in))
      BY OvertimeIsKnown
    <3> HIDE DEF s
    <3> QED BY <3>1, SeqElements
  <2> HIDE DEF s
  <2> DEFINE rate == in.parameters.overtime.kinds[s[i].kind]
  <2>4. s[i].minutes \in Nat /\ s[i].minutes \in Minutes(in)
    BY <2>2, <2>3 DEF Known, Minutes
  <2>5. rate \in Nat /\ rate \in Rates(in)
    <3>1. s[i].kind \in DOMAIN in.parameters.overtime.kinds
      BY <2>3 DEF Known, KnownKind
    <3> QED BY <3>1 DEF WellTyped, Rates
  <2> HIDE DEF rate
  <2>6. IsClose(in, Line("OVERTIME", "CREDIT", s[i].minutes, rate,
                         HourlyAmount(in, rate, s[i].minutes)))
    BY <2>4, <2>5, HourlyLineIsClose
  <2> QED BY <2>6 DEF OvertimeLine, rate
<1>3. CASE in.parameters.overtime.enabled
  <2>1. OvertimeLines(in) = [i \in DOMAIN s |-> OvertimeLine(in, s[i])]
    BY <1>3, OvertimeLinesUnfolded
  <2> HIDE DEF s
  <2> QED BY <1>2, <2>1
<1>4. CASE ~in.parameters.overtime.enabled
  <2>1. OvertimeLines(in) = <<>>
    BY <1>4, OvertimeLinesUnfolded
  <2>2. \A i \in DOMAIN <<>> : FALSE
    OBVIOUS
  <2> QED BY <2>1, <2>2
<1> QED BY <1>3, <1>4

LEMMA HolidayIsClose ==
  ASSUME NEW in, IsInput(in), WellTyped(in), ~DividesByZero(in)
  PROVE  \A i \in DOMAIN HolidayLine(in) : IsClose(in, HolidayLine(in)[i])
<1> DEFINE rate == in.parameters.holiday.multiplier
           line == Line("HOLIDAY_WORKED", "CREDIT", in.holidayMinutes, rate,
                        HourlyAmount(in, rate, in.holidayMinutes))
           condition == in.parameters.holiday.enabled /\ in.holidayMinutes > 0
<1>1. /\ rate \in Nat /\ rate \in Rates(in)
      /\ in.holidayMinutes \in Nat /\ in.holidayMinutes \in Minutes(in)
  BY DEF WellTyped, Minutes, Rates
<1>2. IsClose(in, line)
  <2> HIDE DEF rate
  <2> QED BY <1>1, HourlyLineIsClose
<1>3. HolidayLine(in) = Only(condition, line)
  BY DEF HolidayLine
<1> HIDE DEF condition, line
<1> QED BY <1>2, <1>3, OnlyCloseIsClose

LEMMA DailyLineIsClose ==
  ASSUME NEW in, IsInput(in), NEW divisor \in Nat \ {0}, NEW days \in Nat,
         days < in.parameters.conceptUnit, NEW sign,
         NEW code \in {"VACATION", "ABSENCE_DEDUCTION"}
  PROVE  IsClose(in, Line(code, sign, days, divisor,
                          RoundConcept(in.parameters, DailyValue(in, divisor) * days)))
<1> DEFINE l == Line(code, sign, days, divisor,
                     RoundConcept(in.parameters, DailyValue(in, divisor) * days))
<1>1. /\ l.code = code /\ l.quantity = days /\ l.rate = divisor
      /\ l.amount = RoundConcept(in.parameters, DailyValue(in, divisor) * days)
  BY DEF Line
<1> HIDE DEF l
<1>2. Exact(in, l) = <<in.agreed * days, divisor>>
  BY <1>1 DEF Exact
<1>3. Exact(in, l)[1] = in.agreed * days /\ Exact(in, l)[2] = divisor
  BY <1>2
<1>4. IsClose(in, l)
  BY <1>1, <1>3, DailyIsClose DEF IsClose
<1> QED BY <1>4 DEF l

LEMMA VacationIsClose ==
  ASSUME NEW in, IsInput(in), WellTyped(in), ~DividesByZero(in)
  PROVE  \A i \in DOMAIN VacationLine(in) : IsClose(in, VacationLine(in)[i])
<1> DEFINE v == in.parameters
           days == ApprovedDays(in, "VACATION")
           divisor == v.vacation.divisor
           condition == v.vacation.enabled /\ days > 0
           line == Line("VACATION", "CREDIT", days, divisor,
                        RoundConcept(v, DailyValue(in, divisor) * days))
<1>1. VacationLine(in) = Only(condition, line)
  BY DEF VacationLine
<1>2. ASSUME condition PROVE IsClose(in, line)
  <2>1. divisor \in Nat \ {0}
    BY <1>2 DEF WellTyped, DividesByZero
  <2>2. days \in Int /\ days < v.conceptUnit
    BY ApprovedDaysWeigh, PrecisionAssumption DEF IsInput
  <2>3. days \in Nat
    <3> HIDE DEF days
    <3> QED BY <1>2, <2>2, SMT
  <2> HIDE DEF divisor, days
  <2> QED BY <2>1, <2>2, <2>3, DailyLineIsClose
<1> HIDE DEF condition, line
<1> QED BY <1>1, <1>2, OnlyCloseIsClose

LEMMA AbsenceIsClose ==
  ASSUME NEW in, IsInput(in), WellTyped(in), ~DividesByZero(in)
  PROVE  \A i \in DOMAIN AbsenceLine(in) : IsClose(in, AbsenceLine(in)[i])
<1> DEFINE v == in.parameters
           days == UnpaidDays(in)
           divisor == v.absence.divisor
           condition == v.absence.enabled /\ days > 0
           line == Line("ABSENCE_DEDUCTION", "DEBIT", days, divisor,
                        RoundConcept(v, DailyValue(in, divisor) * days))
<1>1. AbsenceLine(in) = Only(condition, line)
  BY DEF AbsenceLine
<1>2. ASSUME condition PROVE IsClose(in, line)
  <2>1. divisor \in Nat \ {0}
    BY <1>2 DEF WellTyped, DividesByZero
  <2>2. days < v.conceptUnit
    BY PrecisionAssumption DEF IsInput
  <2>3. days \in Nat
    <3>1. ApprovedDays(in, "ABSENCE_UNJUSTIFIED") \in Int
      BY ApprovedDaysWeigh
    <3>2. ApprovedDays(in, "UNPAID_LEAVE") \in Int
      BY ApprovedDaysWeigh
    <3>3. days \in Int
      BY <3>1, <3>2, SMT DEF UnpaidDays
    <3> HIDE DEF days
    <3> QED BY <1>2, <3>3, SMT
  <2> HIDE DEF divisor, days
  <2> QED BY <2>1, <2>2, <2>3, DailyLineIsClose
<1> HIDE DEF condition, line
<1> QED BY <1>1, <1>2, OnlyCloseIsClose

LEMMA AnnualBonusIsClose ==
  ASSUME NEW in, IsInput(in), WellTyped(in), ~DividesByZero(in)
  PROVE  \A i \in DOMAIN AnnualBonusLine(in) : IsClose(in, AnnualBonusLine(in)[i])
<1> DEFINE v == in.parameters
           months == in.annualBonus.months
           best == in.annualBonus.best
           proportion == IF months < 0 THEN 0 ELSE IF months > 6 THEN 6 ELSE months
           divisor == v.annualBonus.divisor
           amount == RoundConcept(v, Nearest(Nearest(best, divisor) * proportion, 6))
           condition == v.annualBonus.enabled /\ in.annualBonus.applies
           line == Line("ANNUAL_BONUS", "CREDIT", proportion, divisor, amount)
<1>1. AnnualBonusLine(in) = Only(condition, line)
  BY DEF AnnualBonusLine
<1>2. ASSUME condition PROVE IsClose(in, line)
  <2>1. divisor \in Nat \ {0} /\ best \in Int
    BY <1>2 DEF WellTyped, DividesByZero
  <2>2. proportion \in 0..6
    <3>1. months \in Int
      BY DEF WellTyped
    <3> HIDE DEF months
    <3> QED BY <3>1, SMT
  <2>3. /\ line.code = "ANNUAL_BONUS" /\ line.quantity = proportion /\ line.rate = divisor
        /\ line.amount = amount
    <3> HIDE DEF proportion, divisor, amount
    <3> QED BY DEF Line
  <2>4. Exact(in, line) = <<best * proportion, divisor * 6>>
    <3> HIDE DEF proportion, divisor, amount, line
    <3> QED BY <2>3 DEF Exact, best
  <2> HIDE DEF proportion, divisor, line, best
  <2>5. Exact(in, line)[1] = best * proportion /\ Exact(in, line)[2] = divisor * 6
    BY <2>4
  <2>6. CloseTo(v, amount, best * proportion, divisor * 6)
    BY <2>1, <2>2, BonusIsClose
  <2> QED BY <2>3, <2>5, <2>6 DEF IsClose
<1> HIDE DEF condition, line
<1> QED BY <1>1, <1>2, OnlyCloseIsClose

\* The lines of an input that are within the margin
CloseLines(in) == {l \in AnyLine(in.parameters.conceptUnit) : IsClose(in, l)}

LEMMA CloseSeq ==
  ASSUME NEW in, NEW s \in Seq(AnyLine(in.parameters.conceptUnit)),
         \A i \in DOMAIN s : IsClose(in, s[i])
  PROVE  s \in Seq(CloseLines(in))
<1> DEFINE T == AnyLine(in.parameters.conceptUnit)
<1>1. \A i \in DOMAIN s : s[i] \in T
  <2> HIDE DEF T
  <2> QED BY SeqElements DEF T
<1>2. \A i \in DOMAIN s : s[i] \in CloseLines(in)
  BY <1>1 DEF CloseLines
<1> HIDE DEF T
<1> QED BY <1>2, ClosedSeq DEF T

LEMMA UndividedSeq ==
  ASSUME NEW in, WellTyped(in), NEW s \in Seq(AnyLine(in.parameters.conceptUnit)),
         \A i \in DOMAIN s : s[i].code \notin Divided
  PROVE  s \in Seq(CloseLines(in))
<1> DEFINE T == AnyLine(in.parameters.conceptUnit)
<1>1. \A i \in DOMAIN s : s[i] \in T
  <2> HIDE DEF T
  <2> QED BY SeqElements DEF T
<1>2. \A i \in DOMAIN s : IsClose(in, s[i])
  BY <1>1, UndividedIsClose
<1> QED BY <1>2, CloseSeq

LEMMA ConceptLinesAreClose ==
  ASSUME NEW in, IsInput(in), WellTyped(in), ~DividesByZero(in)
  PROVE  ConceptLines(in) \in Seq(CloseLines(in))
<1> DEFINE unit == in.parameters.conceptUnit
           T == CloseLines(in)
<1>1. <<BaseLine(in)>> \in Seq(T)
  <2>1. BaseLine(in) \in AnyLine(unit)
    BY BaseLineIsConcept, ConceptsAreLines
  <2>2. BaseLine(in) \in T
    BY <2>1, BaseLineIsClose DEF CloseLines
  <2> QED BY <2>2
<1>2. /\ OvertimeLines(in) \in Seq(AnyLine(unit)) /\ HolidayLine(in) \in Seq(AnyLine(unit))
      /\ VacationLine(in) \in Seq(AnyLine(unit)) /\ AnnualBonusLine(in) \in Seq(AnyLine(unit))
      /\ AbsenceLine(in) \in Seq(AnyLine(unit))
  BY ConceptsAreLines, OvertimeLinesAreConcepts, HolidayLineIsConcept, VacationLineIsConcept,
     AnnualBonusLineIsConcept, AbsenceLineIsConcept
<1>3. /\ OvertimeLines(in) \in Seq(T) /\ HolidayLine(in) \in Seq(T)
      /\ VacationLine(in) \in Seq(T) /\ AnnualBonusLine(in) \in Seq(T)
      /\ AbsenceLine(in) \in Seq(T)
  BY <1>2, CloseSeq, OvertimeIsClose, HolidayIsClose, VacationIsClose, AnnualBonusIsClose,
     AbsenceIsClose
<1>4. /\ SeniorityLine(in) \in Seq(AnyLine(unit)) /\ ZoneLine(in) \in Seq(AnyLine(unit))
      /\ AdvanceLines(in) \in Seq(AnyLine(unit)) /\ AdditionalLines(in) \in Seq(AnyLine(unit))
  BY ConceptsAreLines, SeniorityLineIsConcept, ZoneLineIsConcept, AdvanceLinesAreConcepts,
     AdditionalLinesAreConcepts
<1>5. \A i \in DOMAIN SeniorityLine(in) : SeniorityLine(in)[i].code = "SENIORITY"
  BY DEF SeniorityLine, Line
<1>6. \A i \in DOMAIN ZoneLine(in) : ZoneLine(in)[i].code = "UNFAVORABLE_ZONE"
  BY DEF ZoneLine, Line
<1>7. \A i \in DOMAIN AdvanceLines(in) : AdvanceLines(in)[i].code = "ADVANCE_DEDUCTION"
  BY AdvanceLinesAreConcepts DEF AdvanceLine, Line
<1>8. \A i \in DOMAIN AdditionalLines(in) : AdditionalLines(in)[i].code = "ADDITIONAL"
  BY AdditionalLinesAreConcepts DEF AdditionalLine, Line
<1>9. /\ "SENIORITY" \notin Divided /\ "UNFAVORABLE_ZONE" \notin Divided
      /\ "ADVANCE_DEDUCTION" \notin Divided /\ "ADDITIONAL" \notin Divided
  BY DEF Divided
<1>10. SeniorityLine(in) \in Seq(T) /\ ZoneLine(in) \in Seq(T)
  BY <1>4, <1>5, <1>6, <1>9, UndividedSeq
<1>11. AdvanceLines(in) \in Seq(T) /\ AdditionalLines(in) \in Seq(T)
  BY <1>4, <1>7, <1>8, <1>9, UndividedSeq
<1> HIDE DEF T
<1> QED BY <1>1, <1>3, <1>10, <1>11, ConcatIsSeq DEF ConceptLines, T

LEMMA ContributionLinesAreClose ==
  ASSUME NEW in, WellTyped(in), NEW gross \in Int
  PROVE  ContributionLines(in, gross) \in Seq(CloseLines(in))
<1> DEFINE T == ContributionLine(in.parameters.conceptUnit)
           s == ContributionLines(in, gross)
<1>1. s \in Seq(T) /\ s \in Seq(AnyLine(in.parameters.conceptUnit))
  BY ContributionLinesAreLines, ContributionsAreLines
<1>2. \A i \in DOMAIN s : s[i] \in T
  <2> HIDE DEF T, s
  <2> QED BY <1>1, SeqElements
<1>3. \A i \in DOMAIN s : s[i].code \notin Divided
  <2>1. \A l \in T : l.code \notin Divided
    BY DEF ContributionLine, Divided
  <2> HIDE DEF T, s
  <2> QED BY <1>2, <2>1
<1> HIDE DEF s
<1>4. s \in Seq(CloseLines(in))
  BY <1>1, <1>3, UndividedSeq
<1> QED BY <1>4 DEF s

\* However many quotients and products a concept takes (roundMoney, money.ts), its amount
\* is rounded once: no line is further from the exact value than the margin of its mode.
THEOREM ConceptsAreRoundedOnce == Spec => []RoundedOnce
<1>1. ResultIsOfInput => RoundedOnce
  <2> SUFFICES ASSUME ResultIsOfInput, Calculated PROVE RoundedOnce
    BY DEF RoundedOnce
  <2> DEFINE lines == Totals(input).lines
             T == CloseLines(input)
  <2>1. /\ IsInput(input) /\ WellTyped(input) /\ ~DividesByZero(input)
        /\ result.totals = Totals(input)
    BY CalculatedIs
  <2>2. Totals(input).gross \in Int
    BY <2>1, TotalsBySign
  <2>3. lines \in Seq(T)
    <3>1. ConceptLines(input) \in Seq(T)
      BY <2>1, ConceptLinesAreClose
    <3>2. ContributionLines(input, Totals(input).gross) \in Seq(T)
      BY <2>1, <2>2, ContributionLinesAreClose
    <3>3. lines = ConceptLines(input) \o ContributionLines(input, Totals(input).gross)
      BY TotalsUnfolded
    <3> HIDE DEF lines, T
    <3> QED BY <3>1, <3>2, <3>3, ConcatIsSeq
  <2>4. \A i \in DOMAIN lines : lines[i] \in T
    <3> HIDE DEF lines, T
    <3> QED BY <2>3, SeqElements
  <2> HIDE DEF lines
  <2>5. \A i \in DOMAIN lines : IsClose(input, lines[i])
    BY <2>4 DEF CloseLines
  <2>6. result.totals.lines = lines
    BY <2>1 DEF lines
  <2> QED BY <2>5, <2>6 DEF RoundedOnce, IsClose, CloseTo, Margin
<1> QED BY <1>1, ResultStays, PTL

----------------------------------------------------------------------------
(* More work, more pay *)

LEMMA QuotientIs ==
  ASSUME NEW c \in Int, NEW d \in Nat \ {0}
  PROVE  /\ c \div d \in Int /\ c % d \in Int /\ c = d * (c \div d) + (c % d)
         /\ 0 <= c % d /\ c % d < d
BY SMT

LEMMA QuotientGrows ==
  ASSUME NEW a \in Int, NEW b \in Int, NEW d \in Nat \ {0}, a <= b
  PROVE  a \div d \in Int /\ b \div d \in Int /\ a \div d <= b \div d
<1> DEFINE p == a \div d
           q == b \div d
<1>1. /\ p \in Int /\ a % d \in Int /\ a = d * p + (a % d) /\ 0 <= a % d /\ a % d < d
      /\ q \in Int /\ b % d \in Int /\ b = d * q + (b % d) /\ 0 <= b % d /\ b % d < d
  BY QuotientIs
<1> HIDE DEF p, q
<1>2. CASE q + 1 <= p
  <2>1. d * (q + 1) <= d * p
    BY <1>1, <1>2, q + 1 \in Int, d \in Nat, ScaleKeepsOrder
  <2>2. d * (q + 1) = d * q + d /\ d * q \in Int /\ d * p \in Int
    BY <1>1, SMT
  <2> DEFINE dq == d * q
             dp == d * p
  <2>3. dq + d <= dp /\ dq \in Int /\ dp \in Int /\ a = dp + (a % d) /\ b = dq + (b % d)
    BY <1>1, <2>1, <2>2
  <2> HIDE DEF dq, dp
  <2> QED BY <1>1, <2>3, SMT
<1> QED BY <1>1, <1>2, SMT DEF p, q

\* A larger dividend has no smaller quotient, on either side of zero.
LEMMA NearestGrows ==
  ASSUME NEW n \in Int, NEW m \in Int, NEW d \in Nat \ {0}, n <= m
  PROVE  Nearest(n, d) <= Nearest(m, d)
<1>1. /\ 2*d \in Nat \ {0} /\ 2*n + d \in Int /\ 2*m + d \in Int /\ 2*n + d <= 2*m + d
      /\ d - 2*n \in Int /\ d - 2*m \in Int /\ d - 2*m <= d - 2*n
  BY SMT
<1>2. CASE n >= 0
  <2>1. m >= 0
    BY <1>2, SMT
  <2> QED BY <1>1, <1>2, <2>1, QuotientGrows DEF Nearest
<1>3. CASE m < 0
  <2>1. ~(n >= 0) /\ ~(m >= 0)
    BY <1>3, SMT
  <2> DEFINE p == (d - 2*m) \div (2*d)
             q == (d - 2*n) \div (2*d)
  <2>2. p \in Int /\ q \in Int /\ p <= q
    BY <1>1, QuotientGrows
  <2>3. Nearest(n, d) = -q /\ Nearest(m, d) = -p
    BY <2>1 DEF Nearest
  <2> HIDE DEF p, q
  <2> QED BY <2>2, <2>3, SMT
<1>4. CASE n < 0 /\ m >= 0
  <2> DEFINE p == (2*m + d) \div (2*d)
             q == (d - 2*n) \div (2*d)
  <2>1. 0 \div (2*d) = 0
    BY <1>1, SMT
  <2>2. 0 <= p /\ 0 <= q /\ p \in Int /\ q \in Int
    <3>1. 0 <= 2*m + d /\ 0 <= d - 2*n
      BY <1>4, SMT
    <3> QED BY <1>1, <2>1, <3>1, 0 \in Int, QuotientGrows
  <2>3. Nearest(n, d) = -q /\ Nearest(m, d) = p
    BY <1>4, SMT DEF Nearest
  <2> HIDE DEF p, q
  <2> QED BY <2>2, <2>3, SMT
<1> QED BY <1>2, <1>3, <1>4, SMT

\* Rounding moves no size past another.
LEMMA SizesKeepOrder ==
  ASSUME NEW s \in Nat, NEW t \in Nat, s <= t, NEW unit \in Nat \ {0}, NEW mode
  PROVE  /\ Round(s, unit, mode) \in Int /\ Round(t, unit, mode) \in Int
         /\ Round(s, unit, mode) <= Round(t, unit, mode)
<1> DEFINE p == s \div unit
           q == t \div unit
           i == IF RoundsUp(p, s % unit, unit, mode) THEN 1 ELSE 0
           j == IF RoundsUp(q, t % unit, unit, mode) THEN 1 ELSE 0
<1>1. /\ p \in Int /\ s % unit \in Int /\ s = unit * p + (s % unit) /\ 0 <= s % unit
      /\ q \in Int /\ t % unit \in Int /\ t = unit * q + (t % unit) /\ 0 <= t % unit
  BY s \in Int, t \in Int, QuotientIs
<1>2. p <= q
  BY QuotientGrows
<1>3. Round(s, unit, mode) = (p + i) * unit /\ Round(t, unit, mode) = (q + j) * unit
  BY SMT DEF Round
<1>4. p = q => (RoundsUp(p, s % unit, unit, mode) => RoundsUp(q, t % unit, unit, mode))
  <2> SUFFICES ASSUME p = q, RoundsUp(p, s % unit, unit, mode)
               PROVE  RoundsUp(q, t % unit, unit, mode)
    OBVIOUS
  <2> DEFINE u == unit * p
  <2>1. u \in Int /\ s = u + (s % unit) /\ t = u + (t % unit)
    BY <1>1, SMT
  <2> HIDE DEF u
  <2>2. s % unit <= t % unit
    BY <1>1, <2>1, SMT
  <2> HIDE DEF p, q
  <2> QED BY <1>1, <2>2, SMT DEF RoundsUp
<1>5. i \in {0, 1} /\ j \in {0, 1} /\ (p = q => i <= j)
  BY <1>4
<1> HIDE DEF p, q, i, j
<1>6. p + i \in Int /\ q + j \in Int /\ p + i <= q + j
  BY <1>1, <1>2, <1>5, SMT
<1>7. unit * (p + i) <= unit * (q + j)
  BY <1>6, unit \in Nat, ScaleKeepsOrder
<1>8. (p + i) * unit = unit * (p + i) /\ (q + j) * unit = unit * (q + j)
      /\ (p + i) * unit \in Int /\ (q + j) * unit \in Int
  BY <1>6, SMT
<1> QED BY <1>3, <1>7, <1>8

LEMMA RoundOfNone ==
  ASSUME NEW unit \in Nat \ {0}, NEW mode
  PROVE  Round(0, unit, mode) = 0
<1>1. Round(0 * unit, unit, mode) = 0 * unit
  BY 0 \in Int, RoundedStays
<1>2. 0 * unit = 0
  BY SMT
<1> QED BY <1>1, <1>2

\* In every mode a larger amount is rounded to no smaller one, on either side of zero
\* (Money.round): no rounding turns an order of amounts around.
THEOREM RoundingKeepsOrder ==
  ASSUME NEW x \in Int, NEW y \in Int, x <= y, NEW unit \in Nat \ {0}, NEW mode
  PROVE  Round(x, unit, mode) <= Round(y, unit, mode)
<1>1. ASSUME NEW z \in Int, z < 0
      PROVE  Round(z, unit, mode) = -Round(-z, unit, mode) /\ -z \in Nat
  BY <1>1, SMT DEF Round
<1>2. CASE 0 <= x
  BY <1>2, x \in Nat, y \in Nat, SizesKeepOrder
<1>3. CASE y < 0
  <2>1. -y <= -x /\ x < 0
    BY <1>3, SMT
  <2>2. /\ Round(-y, unit, mode) \in Int /\ Round(-x, unit, mode) \in Int
        /\ Round(-y, unit, mode) <= Round(-x, unit, mode)
    BY <1>1, <1>3, <2>1, SizesKeepOrder
  <2>3. /\ Round(x, unit, mode) = -Round(-x, unit, mode)
        /\ Round(y, unit, mode) = -Round(-y, unit, mode)
    BY <1>1, <1>3, <2>1
  <2> QED BY <2>2, <2>3, SMT
<1>4. CASE x < 0 /\ 0 <= y
  <2>1. -x \in Nat /\ y \in Nat
    BY <1>4, SMT
  <2>2. ASSUME NEW s \in Nat PROVE 0 <= Round(s, unit, mode) /\ Round(s, unit, mode) \in Int
    BY 0 \in Nat, 0 <= s, RoundOfNone, SizesKeepOrder
  <2>3. 0 <= Round(-x, unit, mode) /\ 0 <= Round(y, unit, mode)
        /\ Round(-x, unit, mode) \in Int /\ Round(y, unit, mode) \in Int
    BY <2>1, <2>2
  <2>4. Round(x, unit, mode) = -Round(-x, unit, mode)
    BY <1>1, <1>4
  <2> QED BY <2>3, <2>4, SMT
<1> QED BY <1>2, <1>3, <1>4, SMT

LEMMA ProductsGrow ==
  ASSUME NEW x \in Int, NEW y \in Int, NEW h \in Int, NEW k \in Int,
         0 <= x, x <= y, 0 <= h, h <= k
  PROVE  0 <= x * h /\ x * h <= y * k /\ x * h \in Int /\ y * k \in Int
<1>1. h * x <= h * y /\ y * h <= y * k
  BY h \in Nat, y \in Nat, ScaleKeepsOrder
<1>2. h * 0 <= h * x
  BY h \in Nat, 0 \in Int, ScaleKeepsOrder
<1>3. /\ x * h = h * x /\ y * h = h * y /\ h * 0 = 0
      /\ x * h \in Int /\ y * k \in Int /\ h * y \in Int
  BY SMT
<1> QED BY <1>1, <1>2, <1>3, SMT

LEMMA NearestOfNone ==
  ASSUME NEW d \in Nat \ {0}
  PROVE  Nearest(0, d) = 0
<1>1. Nearest(0, d) \in Int /\ 2 * (d * Nearest(0, d) - 0) <= d /\ 2 * (0 - d * Nearest(0, d)) <= d
  BY 0 \in Int, NearestIsClose
<1>2. Nearest(0, d) = (2*0 + d) \div (2*d)
  BY SMT DEF Nearest
<1>3. (2*0 + d) \div (2*d) = 0
  BY SMT
<1> QED BY <1>2, <1>3

\* So a quotient of what is not negative is not negative.
LEMMA NearestIsNatural ==
  ASSUME NEW n \in Int, 0 <= n, NEW d \in Nat \ {0}
  PROVE  Nearest(n, d) \in Int /\ 0 <= Nearest(n, d)
BY 0 \in Int, NearestOfNone, NearestGrows, NearestIsInteger

\* b is the month of a with no less salary and no fewer minutes.
Grows(a, b) ==
  /\ b.parameters = a.parameters /\ b.scheme = a.scheme
  /\ b.startDate = a.startDate /\ b.to = a.to /\ b.zone = a.zone
  /\ b.events = a.events /\ b.annualBonus = a.annualBonus
  /\ b.additionalConcepts = a.additionalConcepts
  /\ a.agreed <= b.agreed /\ a.normalMinutes <= b.normalMinutes
  /\ a.holidayMinutes <= b.holidayMinutes
  /\ DOMAIN b.overtime = DOMAIN a.overtime
  /\ \A i \in DOMAIN a.overtime : /\ b.overtime[i].kind = a.overtime[i].kind
                                  /\ a.overtime[i].minutes <= b.overtime[i].minutes

\* Two months with numbers, the second with more
Comparable(a, b) ==
  /\ WellTyped(a) /\ ~DividesByZero(a) /\ WellTyped(b) /\ ~DividesByZero(b)
  /\ NothingIsNegative(a) /\ Grows(a, b)

LEMMA ConceptsKeepOrder ==
  ASSUME NEW a, NEW b, Comparable(a, b), NEW x \in Int, NEW y \in Int, x <= y
  PROVE  RoundConcept(a.parameters, x) <= RoundConcept(b.parameters, y)
<1>1. b.parameters = a.parameters /\ a.parameters.conceptUnit \in Nat \ {0}
  BY DEF Comparable, Grows, WellTyped
<1> QED BY <1>1, RoundingKeepsOrder DEF RoundConcept

LEMMA ConceptsAreNatural ==
  ASSUME NEW in, WellTyped(in), NEW x \in Int, 0 <= x
  PROVE  0 <= RoundConcept(in.parameters, x)
<1>1. in.parameters.conceptUnit \in Nat \ {0}
  BY DEF WellTyped
<1> QED BY <1>1, 0 \in Int, RoundOfNone, RoundingKeepsOrder DEF RoundConcept

\* The quotients and products on the way to an hourly amount, none negative
LEMMA HoursGrow ==
  ASSUME NEW x \in Int, NEW y \in Int, 0 <= x, x <= y, NEW t \in Nat,
         NEW m \in Nat, NEW n \in Nat, m <= n
  PROVE  LET small == Times(Nearest(x * t, 10), Hours(m))
             large == Times(Nearest(y * t, 10), Hours(n))
         IN small \in Int /\ large \in Int /\ 0 <= small /\ small <= large
<1>1. One \in Nat \ {0} /\ One \in Int /\ 0 <= One
  BY InputsAssumption
<1> DEFINE p == Nearest(x * t, 10)
           q == Nearest(y * t, 10)
           h == Hours(m)
           k == Hours(n)
<1>2. p \in Int /\ q \in Int /\ 0 <= p /\ p <= q
  <2>1. 0 <= x * t /\ x * t <= y * t /\ x * t \in Int /\ y * t \in Int
    BY t \in Int, 0 <= t, t <= t, ProductsGrow
  <2> QED BY <2>1, 10 \in Nat \ {0}, NearestGrows, NearestIsNatural, NearestIsInteger
<1>3. h \in Int /\ k \in Int /\ 0 <= h /\ h <= k
  <2>1. 0 <= m * One /\ m * One <= n * One /\ m * One \in Int /\ n * One \in Int
    BY <1>1, m \in Int, n \in Int, 0 <= m, One <= One, ProductsGrow
  <2> QED BY <2>1, 60 \in Nat \ {0}, NearestGrows, NearestIsNatural, NearestIsInteger DEF Hours
<1> HIDE DEF p, q, h, k
<1>4. 0 <= p * h /\ p * h <= q * k /\ p * h \in Int /\ q * k \in Int
  BY <1>2, <1>3, ProductsGrow
<1>5. /\ Times(p, h) \in Int /\ Times(q, k) \in Int
      /\ 0 <= Times(p, h) /\ Times(p, h) <= Times(q, k)
  BY <1>1, <1>4, NearestGrows, NearestIsNatural, NearestIsInteger DEF Times
<1> QED BY <1>5 DEF p, q, h, k

LEMMA HourlyValueGrows ==
  ASSUME NEW a, NEW b, Comparable(a, b)
  PROVE  /\ HourlyValue(a) \in Int /\ HourlyValue(b) \in Int
         /\ 0 <= HourlyValue(a) /\ HourlyValue(a) <= HourlyValue(b)
<1>1. /\ a.agreed \in Int /\ b.agreed \in Int /\ 0 <= a.agreed /\ a.agreed <= b.agreed
      /\ b.parameters = a.parameters /\ b.scheme = a.scheme
  BY DEF Comparable, Grows, WellTyped, NothingIsNegative
<1>2. Monthly(b) <=> Monthly(a)
  BY <1>1 DEF Monthly
<1>3. Monthly(a) => a.parameters.overtime.divisor \in Nat \ {0}
  BY DEF Comparable, DividesByZero, WellTyped
<1>4. CASE Monthly(a)
  BY <1>1, <1>2, <1>3, <1>4, NearestGrows, NearestIsNatural, NearestIsInteger DEF HourlyValue
<1>5. CASE ~Monthly(a)
  BY <1>1, <1>2, <1>5 DEF HourlyValue
<1> QED BY <1>4, <1>5

LEMMA HourlyGrows ==
  ASSUME NEW a, NEW b, Comparable(a, b), NEW t \in Nat, NEW m \in Nat, NEW n \in Nat, m <= n
  PROVE  /\ HourlyAmount(a, t, m) <= HourlyAmount(b, t, n)
         /\ 0 <= HourlyAmount(a, t, m) /\ 0 <= HourlyAmount(b, t, n)
<1> DEFINE small == Times(Nearest(HourlyValue(a) * t, 10), Hours(m))
           large == Times(Nearest(HourlyValue(b) * t, 10), Hours(n))
<1>1. small \in Int /\ large \in Int /\ 0 <= small /\ small <= large
  BY HourlyValueGrows, HoursGrow
<1>2. 0 <= large
  <2> HIDE DEF small, large
  <2> QED BY <1>1, SMT
<1> HIDE DEF small, large
<1>3. RoundConcept(a.parameters, small) <= RoundConcept(b.parameters, large)
  BY <1>1, ConceptsKeepOrder
<1>4. 0 <= RoundConcept(a.parameters, small) /\ 0 <= RoundConcept(b.parameters, large)
  BY <1>1, <1>2, ConceptsAreNatural DEF Comparable
<1> QED BY <1>3, <1>4 DEF HourlyAmount, small, large

\* What a list of one line, or none, adds up to
LEMMA TotalOfOne ==
  ASSUME NEW unit \in Nat, NEW l \in AnyLine(unit), NEW sign
  PROVE  Total(<<l>>, sign) = IF l.sign = sign THEN l.amount ELSE 0
<1>1. <<l>> \in Seq(AnyLine(unit))
  OBVIOUS
<1>2. SignWeight(unit, sign)[l] \in Int
  BY SignWeightIsInteger
<1>3. Weigh(<<l>>, SignWeight(unit, sign)) = SignWeight(unit, sign)[l]
  BY <1>2, WeighOne
<1> QED BY <1>1, <1>3, TotalWeighs DEF SignWeight

LEMMA TotalOfEmpty ==
  ASSUME NEW sign
  PROVE  Total(<<>>, sign) = 0
<1>1. [i \in DOMAIN <<>> |-> IF <<>>[i].sign = sign THEN <<>>[i].amount ELSE 0] = <<>>
  BY SMT
<1> QED BY <1>1, SumOfNone DEF Total, AmountWhere

LEMMA TotalOfOnly ==
  ASSUME NEW unit \in Nat, NEW condition, NEW l, NEW sign,
         Only(condition, l) \in Seq(ConceptLine(unit))
  PROVE  Total(Only(condition, l), sign) = IF condition /\ l.sign = sign THEN l.amount ELSE 0
<1>1. CASE condition
  <2>1. Only(condition, l) = <<l>>
    BY <1>1 DEF Only
  <2>2. l \in AnyLine(unit)
    <3>1. ASSUME <<l>> \in Seq(ConceptLine(unit)) PROVE l \in ConceptLine(unit)
      <4>1. <<l>>[1] \in ConceptLine(unit)
        BY <3>1, 1 \in DOMAIN <<l>>, SeqElements
      <4> QED BY <4>1
    <3> QED BY <2>1, <3>1, ConceptsAreLines
  <2> QED BY <1>1, <2>1, <2>2, TotalOfOne
<1>2. CASE ~condition
  BY <1>2, TotalOfEmpty, Zenon DEF Only
<1> QED BY <1>1, <1>2

\* Larger elements add up to no less.
LEMMA SumGrows ==
  ASSUME NEW f \in Seq(Int), NEW h \in Seq(Int), Len(f) = Len(h),
         \A i \in 1..Len(f) : f[i] <= h[i]
  PROVE  SumOf(f) <= SumOf(h)
<1> DEFINE n == Len(f)
<1>1. n \in Nat /\ (\A k \in 1..n : f[k] \in Int) /\ (\A k \in 1..n : h[k] \in Int)
  BY SMT
<1>2. PICK p : Sums(f, n, p) /\ SumOf(f) = p[n]
  BY <1>1, SumsOf
<1>3. PICK q : Sums(h, n, q) /\ SumOf(h) = q[n]
  BY <1>1, SumsOf
<1> HIDE DEF n
<1>4. \A k \in 0..n : p[k] \in Int /\ q[k] \in Int
  BY <1>1, <1>2, <1>3, SumsAreIntegers
<1> DEFINE S == {k \in Nat : k <= n => p[k] <= q[k]}
<1>5. 0 \in S
  BY <1>2, <1>3, SMT DEF Sums
<1>6. ASSUME NEW k \in Nat, k \in S PROVE k + 1 \in S
  <2> SUFFICES ASSUME k + 1 <= n PROVE p[k + 1] <= q[k + 1]
    BY <1>6, SMT
  <2>1. k + 1 \in 1..n /\ (k + 1) - 1 = k /\ k \in 0..n /\ k + 1 \in 0..n /\ k <= n
    BY <1>1, SMT
  <2>2. p[k + 1] = p[k] + f[k + 1] /\ q[k + 1] = q[k] + h[k + 1]
    BY <1>2, <1>3, <2>1 DEF Sums
  <2>3. p[k] <= q[k] /\ f[k + 1] <= h[k + 1]
    BY <1>6, <2>1 DEF n
  <2>4. p[k] \in Int /\ q[k] \in Int /\ f[k + 1] \in Int /\ h[k + 1] \in Int
    BY <1>1, <1>4, <2>1
  <2> QED BY <2>2, <2>3, <2>4, SMT
<1> HIDE DEF S
<1>7. n \in S
  BY <1>1, <1>5, <1>6, SetInduction
<1> QED BY <1>1, <1>2, <1>3, <1>7, SMT DEF S

LEMMA BaseGrows ==
  ASSUME NEW a, NEW b, Comparable(a, b)
  PROVE  /\ BaseLine(a).amount \in Int /\ BaseLine(b).amount \in Int
         /\ BaseLine(a).amount <= BaseLine(b).amount
         /\ Total(<<BaseLine(a)>>, "CREDIT") = BaseLine(a).amount
         /\ Total(<<BaseLine(b)>>, "CREDIT") = BaseLine(b).amount
<1>1. ASSUME NEW in, WellTyped(in), ~DividesByZero(in)
      PROVE  /\ BaseLine(in).amount \in Int
             /\ Total(<<BaseLine(in)>>, "CREDIT") = BaseLine(in).amount
  <2>1. in.parameters.conceptUnit \in Nat
    BY <1>1 DEF WellTyped
  <2>2. BaseLine(in) \in ConceptLine(in.parameters.conceptUnit)
    BY <1>1, BaseLineIsConcept
  <2>3. BaseLine(in).amount \in Multiples(in.parameters.conceptUnit)
    BY <2>2 DEF ConceptLine
  <2>4. BaseLine(in).sign = "CREDIT"
    BY DEF BaseLine, Line
  <2> QED BY <2>1, <2>2, <2>3, <2>4, MultiplesAreIntegers, ConceptsAreLines, TotalOfOne
<1>2. /\ b.scheme = a.scheme /\ a.agreed \in Int /\ b.agreed \in Int /\ a.agreed <= b.agreed
      /\ a.normalMinutes \in Nat /\ b.normalMinutes \in Nat
      /\ a.normalMinutes <= b.normalMinutes
  BY DEF Comparable, Grows, WellTyped
<1>3. RoundConcept(a.parameters, a.agreed) <= RoundConcept(b.parameters, b.agreed)
  BY <1>2, ConceptsKeepOrder
<1>4. HourlyAmount(a, 10, a.normalMinutes) <= HourlyAmount(b, 10, b.normalMinutes)
  BY <1>2, 10 \in Nat, HourlyGrows
<1>5. BaseLine(a).amount <= BaseLine(b).amount
  BY <1>2, <1>3, <1>4 DEF BaseLine, Monthly, Line
<1> QED BY <1>1, <1>5 DEF Comparable

LEMMA OvertimeGrows ==
  ASSUME NEW a, NEW b, Comparable(a, b)
  PROVE  /\ Total(OvertimeLines(a), "CREDIT") \in Int
         /\ Total(OvertimeLines(b), "CREDIT") \in Int
         /\ Total(OvertimeLines(a), "CREDIT") <= Total(OvertimeLines(b), "CREDIT")
<1> DEFINE s == a.overtime
           t == b.overtime
           v == OvertimeWeight(a, "CREDIT")
           w == OvertimeWeight(b, "CREDIT")
<1>1. WellTyped(a) /\ ~DividesByZero(a) /\ WellTyped(b) /\ ~DividesByZero(b) /\ Grows(a, b)
  BY DEF Comparable
<1>2. s \in Seq(Hour) /\ t \in Seq(Hour)
  BY <1>1 DEF WellTyped, Hour
<1>3. (\A e \in Hour : v[e] \in Int) /\ (\A e \in Hour : w[e] \in Int)
  BY <1>1, OvertimeWeightIsInteger
<1>4. /\ Total(OvertimeLines(a), "CREDIT") = Weigh(s, v)
      /\ Total(OvertimeLines(b), "CREDIT") = Weigh(t, w)
  BY <1>1, OvertimeTotal
<1>5. b.parameters = a.parameters
  BY <1>1 DEF Grows
<1>6. ASSUME NEW e \in Hour, NEW f \in Hour, f.kind = e.kind, e.minutes <= f.minutes
      PROVE  v[e] <= w[f]
  <2> DEFINE rate == a.parameters.overtime.kinds[e.kind]
  <2>1. e.minutes \in Nat /\ f.minutes \in Nat
    BY DEF Hour
  <2>2. v[e] = IF a.parameters.overtime.enabled /\ KnownKind(a, e)
               THEN HourlyAmount(a, rate, e.minutes) ELSE 0
    BY DEF OvertimeWeight, OvertimeLine, Line
  <2>3. w[f] = IF a.parameters.overtime.enabled /\ KnownKind(b, f)
               THEN HourlyAmount(b, rate, f.minutes) ELSE 0
    BY <1>5, <1>6 DEF OvertimeWeight, OvertimeLine, Line
  <2>4. CASE KnownKind(b, f)
    <3>1. e.kind \in DOMAIN a.parameters.overtime.kinds
      BY <1>5, <1>6, <2>4 DEF KnownKind
    <3>2. rate \in Nat
      BY <1>1, <3>1 DEF WellTyped
    <3> HIDE DEF rate, v, w
    <3>3. /\ HourlyAmount(a, rate, e.minutes) <= HourlyAmount(b, rate, f.minutes)
          /\ 0 <= HourlyAmount(b, rate, f.minutes)
      BY <1>6, <2>1, <3>2, HourlyGrows
    <3> QED BY <2>2, <2>3, <2>4, <3>3
  <2>5. CASE ~KnownKind(b, f)
    <3>1. ~KnownKind(a, e)
      <4>1. e.minutes # 0 => f.minutes # 0
        BY <1>6, <2>1, SMT
      <4> QED BY <1>5, <1>6, <2>5, <4>1 DEF KnownKind
    <3>2. v[e] = 0 /\ w[f] = 0
      BY <2>2, <2>3, <2>5, <3>1
    <3> QED BY <3>2
  <2> QED BY <2>4, <2>5
<1>7. /\ Len(s) \in Nat /\ DOMAIN s = 1..Len(s) /\ \A i \in DOMAIN s : s[i] \in Hour
      /\ Len(t) \in Nat /\ DOMAIN t = 1..Len(t) /\ \A i \in DOMAIN t : t[i] \in Hour
  <2> HIDE DEF s, t
  <2> QED BY <1>2, SeqElements
<1>8. /\ DOMAIN t = DOMAIN s
      /\ \A i \in DOMAIN s : t[i].kind = s[i].kind /\ s[i].minutes <= t[i].minutes
  BY <1>1 DEF Grows
<1> HIDE DEF s, t, v, w
<1>9. Len(t) = Len(s)
  <2>1. \A n \in Nat, m \in Nat : 1..n = 1..m => n <= m
    <3>1. ASSUME NEW n \in Nat, NEW m \in Nat, 1..n = 1..m, ~(n <= m) PROVE FALSE
      <4>1. n \in 1..n /\ n \notin 1..m
        BY <3>1, SMT
      <4> QED BY <3>1, <4>1
    <3> QED BY <3>1
  <2>2. /\ 1..Len(s) = 1..Len(t) /\ 1..Len(t) = 1..Len(s)
        /\ Len(s) \in Nat /\ Len(t) \in Nat
    BY <1>7, <1>8
  <2>3. Len(s) <= Len(t)
    BY <2>1, <2>2
  <2>4. Len(t) <= Len(s)
    BY <2>1, <2>2
  <2> QED BY <2>2, <2>3, <2>4, SMT
<1>10. /\ Weights(s, v) \in Seq(Int) /\ Len(Weights(s, v)) = Len(s) /\ Weigh(s, v) \in Int
       /\ Weights(t, w) \in Seq(Int) /\ Len(Weights(t, w)) = Len(t) /\ Weigh(t, w) \in Int
  BY <1>2, <1>3, WeightsAreIntegers
<1>11. \A i \in 1..Len(s) : Weights(s, v)[i] <= Weights(t, w)[i]
  BY <1>6, <1>7, <1>8 DEF Weights
<1>12. Weigh(s, v) <= Weigh(t, w)
  BY <1>9, <1>10, <1>11, SumGrows DEF Weigh
<1> QED BY <1>4, <1>10, <1>12

LEMMA HolidayGrows ==
  ASSUME NEW a, NEW b, Comparable(a, b)
  PROVE  Total(HolidayLine(a), "CREDIT") <= Total(HolidayLine(b), "CREDIT")
<1> DEFINE rate == a.parameters.holiday.multiplier
           worth(in) == IF in.parameters.holiday.enabled /\ in.holidayMinutes > 0
                        THEN HourlyAmount(in, rate, in.holidayMinutes) ELSE 0
<1>1. WellTyped(a) /\ ~DividesByZero(a) /\ WellTyped(b) /\ ~DividesByZero(b) /\ Grows(a, b)
  BY DEF Comparable
<1>2. b.parameters = a.parameters /\ rate \in Nat
  BY <1>1 DEF Grows, WellTyped
<1>3. ASSUME NEW in, WellTyped(in), ~DividesByZero(in), in.parameters = a.parameters
      PROVE  Total(HolidayLine(in), "CREDIT") = worth(in)
  <2> DEFINE condition == in.parameters.holiday.enabled /\ in.holidayMinutes > 0
             l == Line("HOLIDAY_WORKED", "CREDIT", in.holidayMinutes, rate,
                       HourlyAmount(in, rate, in.holidayMinutes))
  <2>1. HolidayLine(in) = Only(condition, l)
    BY <1>3 DEF HolidayLine
  <2>2. in.parameters.conceptUnit \in Nat
    BY <1>3 DEF WellTyped
  <2>3. HolidayLine(in) \in Seq(ConceptLine(in.parameters.conceptUnit))
    BY <1>3, HolidayLineIsConcept
  <2>4. l.sign = "CREDIT" /\ l.amount = HourlyAmount(in, rate, in.holidayMinutes)
    BY DEF Line
  <2>5. Total(Only(condition, l), "CREDIT") = IF condition /\ l.sign = "CREDIT" THEN l.amount ELSE 0
    <3> HIDE DEF condition, l
    <3> QED BY <2>1, <2>2, <2>3, TotalOfOnly
  <2> QED BY <2>1, <2>4, <2>5
<1>4. /\ a.holidayMinutes \in Nat /\ b.holidayMinutes \in Nat
      /\ a.holidayMinutes <= b.holidayMinutes
  BY <1>1 DEF Grows, WellTyped
<1>5. a.holidayMinutes > 0 => b.holidayMinutes > 0
  BY <1>4, SMT
<1> HIDE DEF rate
<1>6. /\ HourlyAmount(a, rate, a.holidayMinutes) <= HourlyAmount(b, rate, b.holidayMinutes)
      /\ 0 <= HourlyAmount(b, rate, b.holidayMinutes)
  BY <1>2, <1>4, HourlyGrows
<1>7. worth(a) <= worth(b)
  BY <1>2, <1>5, <1>6
<1> QED BY <1>1, <1>2, <1>3, <1>7

\* A percentage of more is no less.
LEMMA PercentageGrows ==
  ASSUME NEW a, NEW b, Comparable(a, b), NEW x \in Int, NEW y \in Int, x <= y, NEW p \in Nat
  PROVE  RoundConcept(a.parameters, Percentage(x, p))
           <= RoundConcept(b.parameters, Percentage(y, p))
<1>1. x * p \in Int /\ y * p \in Int /\ x * p <= y * p
  <2>1. p * x <= p * y
    BY ScaleKeepsOrder
  <2>2. p * x = x * p /\ p * y = y * p /\ x * p \in Int /\ y * p \in Int
    BY SMT
  <2> QED BY <2>1, <2>2
<1>2. /\ Percentage(x, p) \in Int /\ Percentage(y, p) \in Int
      /\ Percentage(x, p) <= Percentage(y, p)
  BY <1>1, 100 \in Nat \ {0}, NearestGrows, NearestIsInteger DEF Percentage
<1> QED BY <1>2, ConceptsKeepOrder

\* What is added to the base of other concepts
LEMMA SeniorityGrows ==
  ASSUME NEW a, NEW b, Comparable(a, b)
  PROVE  Total(SeniorityLine(a), "CREDIT") <= Total(SeniorityLine(b), "CREDIT")
<1> DEFINE rule == a.parameters.seniority
           p == rule.tiers[TierOf(a)].percentage
           basis(in) == BaseLine(in).amount +
             (IF rule.basis = "BASE_PLUS_OVERTIME" THEN Total(OvertimeLines(in), "CREDIT") ELSE 0)
           worth(in) == RoundConcept(in.parameters, Percentage(basis(in), p))
           condition == rule.enabled /\ TierOf(a) # 0
<1>1. WellTyped(a) /\ ~DividesByZero(a) /\ WellTyped(b) /\ ~DividesByZero(b) /\ Grows(a, b)
  BY DEF Comparable
<1>2. b.parameters = a.parameters /\ YearsOf(b) = YearsOf(a) /\ TierOf(b) = TierOf(a)
  <2>1. b.parameters = a.parameters /\ YearsOf(b) = YearsOf(a)
    BY <1>1 DEF Grows, YearsOf
  <2> QED BY <2>1 DEF TierOf, SelectInSeq
<1>3. ASSUME NEW in, WellTyped(in), ~DividesByZero(in), in.parameters = a.parameters,
             TierOf(in) = TierOf(a)
      PROVE  Total(SeniorityLine(in), "CREDIT") = IF condition THEN worth(in) ELSE 0
  <2> DEFINE l == Line("SENIORITY", "CREDIT", YearsOf(in), p, worth(in))
  <2>1. SeniorityLine(in) = Only(condition, l)
    BY <1>3 DEF SeniorityLine, Only
  <2>2. in.parameters.conceptUnit \in Nat
    BY <1>3 DEF WellTyped
  <2>3. SeniorityLine(in) \in Seq(ConceptLine(in.parameters.conceptUnit))
    BY <1>3, SeniorityLineIsConcept
  <2>4. l.sign = "CREDIT" /\ l.amount = worth(in)
    BY DEF Line
  <2>5. Total(Only(condition, l), "CREDIT")
          = IF condition /\ l.sign = "CREDIT" THEN l.amount ELSE 0
    <3> HIDE DEF condition, l
    <3> QED BY <2>1, <2>2, <2>3, TotalOfOnly
  <2> HIDE DEF condition, l, worth
  <2> QED BY <2>1, <2>4, <2>5
<1>4. ASSUME condition PROVE worth(a) <= worth(b)
  <2>1. p \in Nat
    <3>1. TierOf(a) \in DOMAIN rule.tiers
      BY <1>1, <1>4, TierIsListed
    <3>2. rule.tiers \in Seq(Tier)
      BY <1>1 DEF WellTyped
    <3>3. rule.tiers[TierOf(a)] \in Tier
      <4> HIDE DEF rule
      <4> QED BY <3>1, <3>2, SeqElements
    <3>4. p \in Int
      BY <3>3 DEF Tier
    <3>5. p >= 0
      BY <3>1 DEF Comparable, NothingIsNegative
    <3> HIDE DEF p
    <3> QED BY <3>4, <3>5, SMT
  <2>2. basis(a) \in Int /\ basis(b) \in Int /\ basis(a) <= basis(b)
    <3>1. /\ BaseLine(a).amount \in Int /\ BaseLine(b).amount \in Int
          /\ BaseLine(a).amount <= BaseLine(b).amount
      BY BaseGrows
    <3>2. /\ Total(OvertimeLines(a), "CREDIT") \in Int
          /\ Total(OvertimeLines(b), "CREDIT") \in Int
          /\ Total(OvertimeLines(a), "CREDIT") <= Total(OvertimeLines(b), "CREDIT")
      BY OvertimeGrows
    <3> QED BY <3>1, <3>2, SMT
  <2> HIDE DEF p, basis
  <2> QED BY <2>1, <2>2, PercentageGrows
<1> HIDE DEF condition, worth
<1> QED BY <1>1, <1>2, <1>3, <1>4

LEMMA ZoneGrows ==
  ASSUME NEW a, NEW b, Comparable(a, b)
  PROVE  Total(ZoneLine(a), "CREDIT") <= Total(ZoneLine(b), "CREDIT")
<1> DEFINE p == a.parameters.zone.zones[a.zone]
           worth(in) == RoundConcept(in.parameters, Percentage(BaseLine(in).amount, p))
           condition == a.zone # "none" /\ ZoneIsKnown(a)
<1>1. WellTyped(a) /\ ~DividesByZero(a) /\ WellTyped(b) /\ ~DividesByZero(b) /\ Grows(a, b)
  BY DEF Comparable
<1>2. b.parameters = a.parameters /\ b.zone = a.zone
  BY <1>1 DEF Grows
<1>3. ASSUME NEW in, WellTyped(in), ~DividesByZero(in), in.parameters = a.parameters,
             in.zone = a.zone
      PROVE  Total(ZoneLine(in), "CREDIT") = IF condition THEN worth(in) ELSE 0
  <2> DEFINE l == Line("UNFAVORABLE_ZONE", "CREDIT", 0, p, worth(in))
  <2>1. ZoneLine(in) = Only(condition, l)
    BY <1>3 DEF ZoneLine, ZoneIsKnown, Only
  <2>2. in.parameters.conceptUnit \in Nat
    BY <1>3 DEF WellTyped
  <2>3. ZoneLine(in) \in Seq(ConceptLine(in.parameters.conceptUnit))
    BY <1>3, ZoneLineIsConcept
  <2>4. l.sign = "CREDIT" /\ l.amount = worth(in)
    BY DEF Line
  <2>5. Total(Only(condition, l), "CREDIT")
          = IF condition /\ l.sign = "CREDIT" THEN l.amount ELSE 0
    <3> HIDE DEF condition, l
    <3> QED BY <2>1, <2>2, <2>3, TotalOfOnly
  <2> HIDE DEF condition, l, worth
  <2> QED BY <2>1, <2>4, <2>5
<1>4. ASSUME condition PROVE worth(a) <= worth(b)
  <2>1. a.zone \in DOMAIN a.parameters.zone.zones
    BY <1>4 DEF ZoneIsKnown
  <2>2. p \in Int
    BY <1>1, <2>1 DEF WellTyped
  <2>3. p >= 0
    BY <2>1 DEF Comparable, NothingIsNegative
  <2> HIDE DEF p
  <2>4. p \in Nat
    BY <2>2, <2>3, SMT
  <2> QED BY <2>4, BaseGrows, PercentageGrows
<1> HIDE DEF condition, worth
<1> QED BY <1>1, <1>2, <1>3, <1>4

LEMMA VacationGrows ==
  ASSUME NEW a, NEW b, Comparable(a, b)
  PROVE  Total(VacationLine(a), "CREDIT") <= Total(VacationLine(b), "CREDIT")
<1> DEFINE divisor == a.parameters.vacation.divisor
           days == ApprovedDays(a, "VACATION")
           worth(in) == RoundConcept(in.parameters, DailyValue(in, divisor) * days)
           condition == a.parameters.vacation.enabled /\ days > 0
<1>1. WellTyped(a) /\ ~DividesByZero(a) /\ WellTyped(b) /\ ~DividesByZero(b) /\ Grows(a, b)
  BY DEF Comparable
<1>2. /\ b.parameters = a.parameters
      /\ ApprovedDays(a, "VACATION") = days /\ ApprovedDays(b, "VACATION") = days
  BY <1>1 DEF Grows, ApprovedDays
<1>3. ASSUME NEW in, WellTyped(in), ~DividesByZero(in), in.parameters = a.parameters,
             ApprovedDays(in, "VACATION") = days
      PROVE  Total(VacationLine(in), "CREDIT") = IF condition THEN worth(in) ELSE 0
  <2> DEFINE l == Line("VACATION", "CREDIT", days, divisor, worth(in))
  <2>1. VacationLine(in) = Only(condition, l)
    <3> HIDE DEF days
    <3> QED BY <1>3 DEF VacationLine
  <2>2. in.parameters.conceptUnit \in Nat
    BY <1>3 DEF WellTyped
  <2>3. VacationLine(in) \in Seq(ConceptLine(in.parameters.conceptUnit))
    BY <1>3, VacationLineIsConcept
  <2>4. l.sign = "CREDIT" /\ l.amount = worth(in)
    BY DEF Line
  <2>5. Total(Only(condition, l), "CREDIT")
          = IF condition /\ l.sign = "CREDIT" THEN l.amount ELSE 0
    <3> HIDE DEF condition, l
    <3> QED BY <2>1, <2>2, <2>3, TotalOfOnly
  <2> HIDE DEF condition, l, worth
  <2> QED BY <2>1, <2>4, <2>5
<1>4. ASSUME condition PROVE worth(a) <= worth(b)
  <2>1. divisor \in Nat \ {0}
    BY <1>1, <1>4 DEF WellTyped, DividesByZero
  <2>2. days \in Int /\ days > 0
    BY <1>1, <1>4, ApprovedDaysWeigh
  <2>3. a.agreed \in Int /\ b.agreed \in Int /\ a.agreed <= b.agreed
    BY <1>1 DEF WellTyped, Grows
  <2> HIDE DEF divisor, days
  <2>4. /\ DailyValue(a, divisor) \in Int /\ DailyValue(b, divisor) \in Int
        /\ DailyValue(a, divisor) <= DailyValue(b, divisor)
    BY <2>1, <2>3, NearestGrows, NearestIsInteger DEF DailyValue
  <2>5. /\ DailyValue(a, divisor) * days \in Int /\ DailyValue(b, divisor) * days \in Int
        /\ DailyValue(a, divisor) * days <= DailyValue(b, divisor) * days
    <3>1. ASSUME NEW x \in Int, NEW y \in Int, x <= y
          PROVE  x * days \in Int /\ y * days \in Int /\ x * days <= y * days
      <4>1. days \in Nat
        BY <2>2, SMT
      <4>2. days * x <= days * y
        BY <3>1, <4>1, ScaleKeepsOrder
      <4>3. days * x = x * days /\ days * y = y * days /\ x * days \in Int /\ y * days \in Int
        BY <2>2, SMT
      <4> QED BY <4>2, <4>3
    <3> QED BY <2>4, <3>1
  <2> QED BY <2>5, ConceptsKeepOrder
<1> HIDE DEF condition, worth, days
<1> QED BY <1>1, <1>2, <1>3, <1>4

\* The lines that do not depend on the salary or on the minutes, and the deduction
\* for absences, which no credit contains
LEMMA OtherConceptsStay ==
  ASSUME NEW a, NEW b, Comparable(a, b)
  PROVE  /\ AnnualBonusLine(b) = AnnualBonusLine(a)
         /\ AdvanceLines(b) = AdvanceLines(a)
         /\ AdditionalLines(b) = AdditionalLines(a)
         /\ Total(AbsenceLine(a), "CREDIT") = 0
         /\ Total(AbsenceLine(b), "CREDIT") = 0
<1>1. WellTyped(a) /\ ~DividesByZero(a) /\ WellTyped(b) /\ ~DividesByZero(b) /\ Grows(a, b)
  BY DEF Comparable
<1>2. /\ b.parameters = a.parameters /\ b.annualBonus = a.annualBonus
      /\ b.events = a.events /\ b.additionalConcepts = a.additionalConcepts
  BY <1>1 DEF Grows
<1>3. AnnualBonusLine(b) = AnnualBonusLine(a)
  BY <1>2 DEF AnnualBonusLine
<1>4. AdvanceLines(b) = AdvanceLines(a)
  BY <1>2 DEF AdvanceLines, Where
<1>5. AdditionalLines(b) = AdditionalLines(a)
  BY <1>2 DEF AdditionalLines, Where
<1>6. ASSUME NEW in, WellTyped(in), ~DividesByZero(in)
      PROVE  Total(AbsenceLine(in), "CREDIT") = 0
  <2> DEFINE rule == in.parameters.absence
             condition == rule.enabled /\ UnpaidDays(in) > 0
             l == Line("ABSENCE_DEDUCTION", "DEBIT", UnpaidDays(in), rule.divisor,
                       RoundConcept(in.parameters,
                         DailyValue(in, rule.divisor) * UnpaidDays(in)))
  <2>1. AbsenceLine(in) = Only(condition, l)
    BY DEF AbsenceLine
  <2>2. in.parameters.conceptUnit \in Nat
    BY <1>6 DEF WellTyped
  <2>3. AbsenceLine(in) \in Seq(ConceptLine(in.parameters.conceptUnit))
    BY <1>6, AbsenceLineIsConcept
  <2>4. l.sign # "CREDIT"
    BY DEF Line
  <2> HIDE DEF condition, l
  <2> QED BY <2>1, <2>2, <2>3, <2>4, TotalOfOnly
<1> QED BY <1>1, <1>3, <1>4, <1>5, <1>6

\* The gross of a month grows with the salary and with the minutes, whatever the
\* rounding and whichever concepts take another for their base (calculatePayroll).
THEOREM MoreWorkIsMorePay ==
  ASSUME NEW a, NEW b, Comparable(a, b)
  PROVE  Totals(a).gross <= Totals(b).gross
<1>1. WellTyped(a) /\ ~DividesByZero(a) /\ WellTyped(b) /\ ~DividesByZero(b) /\ Grows(a, b)
  BY DEF Comparable
<1>2. b.parameters = a.parameters
  BY <1>1 DEF Grows
<1>3. ASSUME NEW in, WellTyped(in), ~DividesByZero(in)
      PROVE  /\ Total(HolidayLine(in), "CREDIT") \in Int
             /\ Total(SeniorityLine(in), "CREDIT") \in Int
             /\ Total(ZoneLine(in), "CREDIT") \in Int
             /\ Total(VacationLine(in), "CREDIT") \in Int
             /\ Total(AnnualBonusLine(in), "CREDIT") \in Int
             /\ Total(AdvanceLines(in), "CREDIT") \in Int
             /\ Total(AdditionalLines(in), "CREDIT") \in Int
  <2> DEFINE unit == in.parameters.conceptUnit
  <2>1. unit \in Nat
    BY <1>3 DEF WellTyped
  <2>2. \A s \in Seq(ConceptLine(unit)) : Total(s, "CREDIT") \in Int
    <3> HIDE DEF unit
    <3> QED BY <2>1, ConceptsAreLines, TotalWeighs
  <2> QED
    BY <1>3, <2>2, HolidayLineIsConcept, SeniorityLineIsConcept, ZoneLineIsConcept,
       VacationLineIsConcept, AnnualBonusLineIsConcept, AdvanceLinesAreConcepts,
       AdditionalLinesAreConcepts
<1> DEFINE x == Total(ConceptLines(a), "CREDIT")
           y == Total(ConceptLines(b), "CREDIT")
<1>4. x = Total(<<BaseLine(a)>>, "CREDIT") + Total(OvertimeLines(a), "CREDIT")
             + Total(HolidayLine(a), "CREDIT") + Total(SeniorityLine(a), "CREDIT")
             + Total(ZoneLine(a), "CREDIT") + Total(VacationLine(a), "CREDIT")
             + Total(AnnualBonusLine(a), "CREDIT") + Total(AbsenceLine(a), "CREDIT")
             + Total(AdvanceLines(a), "CREDIT") + Total(AdditionalLines(a), "CREDIT")
  BY <1>1, TotalOfConcepts
<1>5. y = Total(<<BaseLine(b)>>, "CREDIT") + Total(OvertimeLines(b), "CREDIT")
             + Total(HolidayLine(b), "CREDIT") + Total(SeniorityLine(b), "CREDIT")
             + Total(ZoneLine(b), "CREDIT") + Total(VacationLine(b), "CREDIT")
             + Total(AnnualBonusLine(b), "CREDIT") + Total(AbsenceLine(b), "CREDIT")
             + Total(AdvanceLines(b), "CREDIT") + Total(AdditionalLines(b), "CREDIT")
  BY <1>1, TotalOfConcepts
<1> HIDE DEF x, y
<1>6. /\ Total(<<BaseLine(a)>>, "CREDIT") \in Int /\ Total(<<BaseLine(b)>>, "CREDIT") \in Int
      /\ Total(<<BaseLine(a)>>, "CREDIT") <= Total(<<BaseLine(b)>>, "CREDIT")
  BY BaseGrows
<1>7. /\ Total(OvertimeLines(a), "CREDIT") \in Int /\ Total(OvertimeLines(b), "CREDIT") \in Int
      /\ Total(OvertimeLines(a), "CREDIT") <= Total(OvertimeLines(b), "CREDIT")
  BY OvertimeGrows
<1>8. /\ Total(HolidayLine(a), "CREDIT") <= Total(HolidayLine(b), "CREDIT")
      /\ Total(SeniorityLine(a), "CREDIT") <= Total(SeniorityLine(b), "CREDIT")
      /\ Total(ZoneLine(a), "CREDIT") <= Total(ZoneLine(b), "CREDIT")
      /\ Total(VacationLine(a), "CREDIT") <= Total(VacationLine(b), "CREDIT")
  BY HolidayGrows, SeniorityGrows, ZoneGrows, VacationGrows
<1>9. x \in Int /\ y \in Int /\ x <= y
  BY <1>1, <1>3, <1>4, <1>5, <1>6, <1>7, <1>8, OtherConceptsStay
<1>10. a.parameters.totalUnit \in Nat \ {0}
  BY <1>1 DEF WellTyped
<1>11. RoundTotal(a.parameters, x) <= RoundTotal(b.parameters, y)
  BY <1>2, <1>9, <1>10, RoundingKeepsOrder DEF RoundTotal
<1> QED BY <1>11, TotalsUnfolded DEF x, y

\* Each of the months with a little more is comparable with the month itself.
LEMMA MoreIsComparable ==
  ASSUME NEW in, IsInput(in), ~DividesByZero(in), NothingIsNegative(in),
         NEW more \in More(in)
  PROVE  Comparable(in, more)
<1>1. WellTyped(in)
  BY InputIsWellTyped
<1>2. /\ in.agreed \in Int /\ in.normalMinutes \in Nat /\ in.holidayMinutes \in Nat
      /\ in.overtime \in Seq(Hour)
  BY <1>1 DEF WellTyped, Hour
<1>3. DOMAIN in = {"parameters", "month", "calendarDays", "from", "to", "category", "liveIn",
                   "scheme", "agreed", "normalMinutes", "overtime", "holidayMinutes",
                   "startDate", "zone", "events", "annualBonus", "additionalConcepts"}
  <2>1. in \in InputLike(in)
    BY InputIsTyped
  <2> QED BY <2>1 DEF InputLike
<1> DEFINE longer == [i \in DOMAIN in.overtime |-> Longer(in.overtime[i])]
<1>4. /\ longer \in Seq(Hour) /\ DOMAIN longer = DOMAIN in.overtime
      /\ \A i \in DOMAIN in.overtime : /\ longer[i].kind = in.overtime[i].kind
                                       /\ in.overtime[i].minutes <= longer[i].minutes
  <2>1. ASSUME NEW e \in Hour
        PROVE  /\ Longer(e) \in Hour /\ Longer(e).kind = e.kind
               /\ e.minutes <= Longer(e).minutes
    BY SMT DEF Hour, Longer
  <2>2. \A i \in DOMAIN in.overtime : in.overtime[i] \in Hour
    BY <1>2, SeqElements
  <2>3. \A i \in DOMAIN in.overtime :
          /\ longer[i] \in Hour /\ longer[i].kind = in.overtime[i].kind
          /\ in.overtime[i].minutes <= longer[i].minutes
    <3> SUFFICES ASSUME NEW i \in DOMAIN in.overtime
                 PROVE  /\ longer[i] \in Hour /\ longer[i].kind = in.overtime[i].kind
                        /\ in.overtime[i].minutes <= longer[i].minutes
      OBVIOUS
    <3>1. longer[i] = Longer(in.overtime[i]) /\ in.overtime[i] \in Hour
      BY <2>2
    <3> QED BY <2>1, <3>1, Zenon
  <2>4. DOMAIN longer = DOMAIN in.overtime
        /\ longer = [i \in DOMAIN in.overtime |-> longer[i]]
    OBVIOUS
  <2> HIDE DEF longer
  <2> QED BY <1>2, <2>3, <2>4, MappedSeq
<1>5. \A n \in Int : n + 1 \in Int /\ n <= n + 1 /\ n <= n
  BY SMT
<1>6. \A n \in Nat : n + 1 \in Nat /\ n <= n + 1 /\ n <= n
  BY SMT
<1> HIDE DEF longer
<1>7. more \in {[in EXCEPT !.agreed = @ + 1], [in EXCEPT !.normalMinutes = @ + 1],
                [in EXCEPT !.holidayMinutes = @ + 1], [in EXCEPT !.overtime = longer]}
  <2>1. longer = [i \in DOMAIN in.overtime |-> Longer(in.overtime[i])]
    BY DEF longer
  <2>2. [in EXCEPT !.overtime = [i \in DOMAIN @ |-> Longer(@[i])]]
          = [in EXCEPT !.overtime = longer]
    BY <2>1
  <2> QED BY <2>2, Zenon DEF More
<1>8. /\ more.parameters = in.parameters /\ more.scheme = in.scheme
      /\ more.startDate = in.startDate /\ more.to = in.to /\ more.zone = in.zone
      /\ more.events = in.events /\ more.annualBonus = in.annualBonus
      /\ more.additionalConcepts = in.additionalConcepts
  BY <1>3, <1>7
<1>9. /\ more.agreed \in {in.agreed, in.agreed + 1}
      /\ more.normalMinutes \in {in.normalMinutes, in.normalMinutes + 1}
      /\ more.holidayMinutes \in {in.holidayMinutes, in.holidayMinutes + 1}
      /\ more.overtime \in {in.overtime, longer}
  <2>1. CASE more = [in EXCEPT !.agreed = @ + 1]
    BY <1>3, <2>1
  <2>2. CASE more = [in EXCEPT !.normalMinutes = @ + 1]
    BY <1>3, <2>2
  <2>3. CASE more = [in EXCEPT !.holidayMinutes = @ + 1]
    BY <1>3, <2>3
  <2>4. CASE more = [in EXCEPT !.overtime = longer]
    BY <1>3, <2>4
  <2> QED BY <1>7, <2>1, <2>2, <2>3, <2>4
<1>10. /\ more.agreed \in Int /\ in.agreed <= more.agreed
       /\ more.normalMinutes \in Nat /\ in.normalMinutes <= more.normalMinutes
       /\ more.holidayMinutes \in Nat /\ in.holidayMinutes <= more.holidayMinutes
  BY <1>2, <1>5, <1>6, <1>9
<1>11. /\ more.overtime \in Seq(Hour) /\ DOMAIN more.overtime = DOMAIN in.overtime
       /\ \A i \in DOMAIN in.overtime : /\ more.overtime[i].kind = in.overtime[i].kind
                                        /\ in.overtime[i].minutes <= more.overtime[i].minutes
  <2>1. \A i \in DOMAIN in.overtime : in.overtime[i].minutes \in Nat
    <3>1. \A i \in DOMAIN in.overtime : in.overtime[i] \in Hour
      BY <1>2, SeqElements
    <3> QED BY <3>1 DEF Hour
  <2>2. \A i \in DOMAIN in.overtime : in.overtime[i].minutes <= in.overtime[i].minutes
    BY <1>6, <2>1
  <2>3. CASE more.overtime = in.overtime
    BY <1>2, <2>2, <2>3
  <2>4. CASE more.overtime = longer
    BY <1>4, <2>4
  <2> QED BY <1>9, <2>3, <2>4
<1>12. WellTyped(more)
  BY <1>1, <1>8, <1>10, <1>11 DEF WellTyped, Hour
<1>13. ~DividesByZero(more)
  <2>1. \A type : ApprovedDays(more, type) = ApprovedDays(in, type)
    BY <1>8 DEF ApprovedDays
  <2>2. UnpaidDays(more) = UnpaidDays(in)
    BY <2>1 DEF UnpaidDays
  <2> QED BY <1>8, <2>1, <2>2 DEF DividesByZero, Monthly
<1>14. Grows(in, more)
  BY <1>8, <1>10, <1>11 DEF Grows
<1> QED BY <1>1, <1>12, <1>13, <1>14 DEF Comparable

\* Who earns or works a little more is never paid less, for every input whose
\* surcharges take nothing away.
THEOREM MoreIsPaidNoLess == Spec => []MoreIsNeverLess
<1>1. ResultIsOfInput => MoreIsNeverLess
  <2> SUFFICES ASSUME ResultIsOfInput, Calculated, NothingIsNegative(input),
                      NEW more \in More(input)
               PROVE  Totals(more).gross >= result.totals.gross
    BY DEF MoreIsNeverLess
  <2>1. IsInput(input) /\ ~DividesByZero(input) /\ result.totals = Totals(input)
    BY CalculatedIs
  <2>2. Totals(input).gross <= Totals(more).gross
    BY <2>1, MoreIsComparable, MoreWorkIsMorePay
  <2> QED BY <2>1, <2>2
<1> QED BY <1>1, ResultStays, PTL
============================================================================
