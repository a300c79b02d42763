----------------------------- MODULE FieldsProofs -----------------------------
(***************************************************************************)
(* What SumOf computes.  The provers cannot use an induction theorem, for  *)
(* it takes the property as an operator; every induction here is over the  *)
(* least number at which the property would fail.                          *)
(***************************************************************************)
EXTENDS Fields, FiniteSetTheorems, SequenceTheorems, WellFoundedInduction, TLAPS

\* A set of natural numbers that is not empty has a least element.
LEMMA LeastNat ==
    ASSUME NEW T \in SUBSET Nat, T # {}
    PROVE  \E n \in T : \A m \in T : n <= m
  <1>1. IsWellFoundedOn(OpToRel(<, Nat), Nat)
    BY NatLessThanWellFounded
  <1>2. PICK n \in T : \A m \in Nat : <<m, n>> \in OpToRel(<, Nat) => m \notin T
    BY <1>1, WFMin
  <1>3. ASSUME NEW m \in T PROVE n <= m
    <2>1. CASE m < n
      BY <1>2, <2>1 DEF OpToRel
    <2> QED BY <2>1
  <1> QED BY <1>3

\* f holds the sums of the first 0, 1, ... n elements of s.
Sums(f, s, n) == f = [i \in 0..n |-> IF i = 0 THEN 0 ELSE f[i - 1] + s[i]]

LEMMA SumsExist ==
    ASSUME NEW s, NEW n \in Nat
    PROVE  \E f : Sums(f, s, n)
  <1> DEFINE Bad == {k \in Nat : ~\E f : Sums(f, s, k)}
  <1> SUFFICES ASSUME Bad # {} PROVE FALSE
    OBVIOUS
  <1>1. PICK k \in Bad : \A m \in Bad : k <= m
    BY LeastNat
  <1>2. CASE k = 0
    <2>1. Sums([i \in 0..0 |-> 0], s, 0)
      BY DEF Sums
    <2> QED BY <1>2, <2>1
  <1>3. CASE k # 0
    <2>1. k - 1 \in Nat /\ k - 1 \notin Bad
      BY <1>1, <1>3
    <2>2. PICK f : Sums(f, s, k - 1)
      BY <2>1
    <2> DEFINE g == [i \in 0..k |-> IF i = k THEN f[k - 1] + s[k] ELSE f[i]]
    <2>3. \A i \in 0..k - 1 : f[i] = IF i = 0 THEN 0 ELSE f[i - 1] + s[i]
      BY <2>2 DEF Sums
    <2>4. \A i \in 0..k : g[i] = IF i = 0 THEN 0 ELSE g[i - 1] + s[i]
      <3> SUFFICES ASSUME NEW i \in 0..k PROVE g[i] = IF i = 0 THEN 0 ELSE g[i - 1] + s[i]
        OBVIOUS
      <3>1. CASE i = 0
        BY <1>3, <2>3, <3>1
      <3>2. CASE i # 0 /\ i # k
        <4>1. i \in 0..k - 1 /\ i - 1 \in 0..k /\ i - 1 # k
          BY <3>2
        <4> QED BY <2>3, <3>2, <4>1
      <3>3. CASE i = k
        <4>1. k - 1 \in 0..k /\ k - 1 # k
          BY <1>3
        <4> QED BY <1>3, <3>3, <4>1
      <3> QED BY <3>1, <3>2, <3>3
    <2>5. Sums(g, s, k)
      BY <2>4 DEF Sums
    <2> QED BY <2>5
  <1> QED BY <1>2, <1>3

\* The sum is the last of the partial sums.
LEMMA SumIsPartial ==
    ASSUME NEW S, NEW s \in Seq(S)
    PROVE  \E f : Sums(f, s, Len(s)) /\ SumOf(s) = f[Len(s)]
  <1>1. Len(s) \in Nat
    OBVIOUS
  <1>2. \E f : f = [i \in 0..Len(s) |-> IF i = 0 THEN 0 ELSE f[i - 1] + s[i]]
    BY <1>1, SumsExist DEF Sums
  <1> DEFINE g == CHOOSE f : f = [i \in 0..Len(s) |-> IF i = 0 THEN 0 ELSE f[i - 1] + s[i]]
  <1>3. g = [i \in 0..Len(s) |-> IF i = 0 THEN 0 ELSE g[i - 1] + s[i]]
    BY <1>2
  <1>4. SumOf(s) = g[Len(s)]
    BY DEF SumOf
  <1> QED BY <1>3, <1>4 DEF Sums

LEMMA SumOfEmpty == SumOf(<<>>) = 0
  <1>1. <<>> \in Seq({}) /\ Len(<<>>) = 0
    OBVIOUS
  <1>2. PICK f : Sums(f, <<>>, 0) /\ SumOf(<<>>) = f[0]
    BY <1>1, SumIsPartial
  <1> QED BY <1>2 DEF Sums

\* One element more adds to the sum, and to nothing before it.
LEMMA SumOfAppend ==
    ASSUME NEW S, NEW s \in Seq(S), NEW e \in S
    PROVE  SumOf(Append(s, e)) = SumOf(s) + e
  <1> DEFINE n == Len(s)
             t == Append(s, e)
  <1>1. t \in Seq(S) /\ Len(t) = n + 1 /\ t[n + 1] = e /\ n \in Nat
    OBVIOUS
  <1>2. \A i \in 1..n : t[i] = s[i]
    OBVIOUS
  <1> HIDE DEF t
  <1>3. PICK f : Sums(f, s, n) /\ SumOf(s) = f[n]
    BY SumIsPartial
  <1>4. PICK g : Sums(g, t, n + 1) /\ SumOf(t) = g[n + 1]
    BY <1>1, SumIsPartial
  <1> DEFINE Bad == {k \in 0..n : f[k] # g[k]}
  <1>5. Bad = {}
    <2> SUFFICES ASSUME Bad # {} PROVE FALSE
      OBVIOUS
    <2>1. PICK k \in Bad : \A m \in Bad : k <= m
      <3>1. Bad \in SUBSET Nat
        OBVIOUS
      <3> QED BY <3>1, LeastNat
    <2>2. f[k] = IF k = 0 THEN 0 ELSE f[k - 1] + s[k]
      BY <1>3 DEF Sums
    <2>3. g[k] = IF k = 0 THEN 0 ELSE g[k - 1] + t[k]
      <3>1. k \in 0..n + 1
        BY <1>1
      <3> QED BY <1>4, <3>1 DEF Sums
    <2>4. CASE k = 0
      BY <2>2, <2>3, <2>4
    <2>5. CASE k # 0
      <3>1. k - 1 \in 0..n /\ k - 1 \notin Bad /\ k \in 1..n
        BY <1>1, <2>1, <2>5
      <3> QED BY <1>2, <2>2, <2>3, <2>5, <3>1
    <2> QED BY <2>4, <2>5
  <1>6. g[n] = f[n]
    BY <1>1, <1>5
  <1>7. g[n + 1] = g[n] + e
    <2>1. g[n + 1] = IF n + 1 = 0 THEN 0 ELSE g[n + 1 - 1] + t[n + 1]
      BY <1>1, <1>4 DEF Sums
    <2>2. n + 1 # 0 /\ n + 1 - 1 = n
      BY <1>1
    <2> QED BY <1>1, <2>1, <2>2
  <1> QED BY <1>3, <1>4, <1>6, <1>7 DEF t

LEMMA SumOfOne ==
    ASSUME NEW a \in Int
    PROVE  SumOf(<<a>>) = a
  <1>1. <<>> \in Seq(Int) /\ Append(<<>>, a) = <<a>>
    OBVIOUS
  <1>2. SumOf(Append(<<>>, a)) = SumOf(<<>>) + a
    BY <1>1, SumOfAppend
  <1> QED BY <1>1, <1>2, SumOfEmpty

LEMMA SumOfTwo ==
    ASSUME NEW a \in Int, NEW b \in Int
    PROVE  SumOf(<<a, b>>) = a + b
  <1>1. <<a>> \in Seq(Int)
    OBVIOUS
  <1>2. Append(<<a>>, b) = <<a, b>>
    <2>1. Append(<<a>>, b) \in Seq(Int) /\ <<a, b>> \in Seq(Int)
      BY <1>1
    <2>2. Len(Append(<<a>>, b)) = 2 /\ Append(<<a>>, b)[1] = a /\ Append(<<a>>, b)[2] = b
      BY <1>1
    <2>3. Len(<<a, b>>) = 2 /\ \A i \in 1..2 : Append(<<a>>, b)[i] = <<a, b>>[i]
      BY <2>2
    <2> QED BY <2>1, <2>2, <2>3, SeqEqual
  <1>3. SumOf(Append(<<a>>, b)) = SumOf(<<a>>) + b
    BY <1>1, SumOfAppend
  <1> QED BY <1>2, <1>3, SumOfOne

\* No part of a sum of natural numbers is more than the sum.
LEMMA PartsAreAtMostTheSum ==
    ASSUME NEW s \in Seq(Nat)
    PROVE  /\ SumOf(s) \in Nat
           /\ \A i \in DOMAIN s : s[i] <= SumOf(s)
  <1> DEFINE n == Len(s)
  <1>1. n \in Nat /\ DOMAIN s = 1..n /\ \A i \in 1..n : s[i] \in Nat
    OBVIOUS
  <1>2. PICK f : Sums(f, s, n) /\ SumOf(s) = f[n]
    BY SumIsPartial
  <1> DEFINE Good(k) == f[k] \in Nat /\ \A i \in 1..k : s[i] <= f[k]
             Bad == {k \in 0..n : ~Good(k)}
  <1>3. Bad = {}
    <2> SUFFICES ASSUME Bad # {} PROVE FALSE
      OBVIOUS
    <2>1. PICK k \in Bad : \A m \in Bad : k <= m
      <3>1. Bad \in SUBSET Nat
        OBVIOUS
      <3> QED BY <3>1, LeastNat
    <2>2. f[k] = IF k = 0 THEN 0 ELSE f[k - 1] + s[k]
      BY <1>2 DEF Sums
    <2>3. CASE k = 0
      <3>1. f[k] = 0 /\ 1..k = {}
        BY <2>2, <2>3
      <3> QED BY <3>1
    <2>4. CASE k # 0
      <3>1. k - 1 \in 0..n /\ k - 1 \notin Bad /\ k \in 1..n
        BY <1>1, <2>1, <2>4
      <3>2. f[k - 1] \in Nat /\ (\A i \in 1..k - 1 : s[i] <= f[k - 1]) /\ s[k] \in Nat
        BY <1>1, <3>1
      <3>3. f[k] = f[k - 1] + s[k]
        BY <2>2, <2>4
      <3>4. ASSUME NEW i \in 1..k PROVE s[i] <= f[k]
        <4>1. CASE i = k
          BY <3>2, <3>3, <4>1
        <4>2. CASE i # k
          <5>1. i \in 1..k - 1 /\ i \in 1..n
            BY <3>1, <4>2
          <5>2. s[i] <= f[k - 1] /\ s[i] \in Nat
            BY <1>1, <3>2, <5>1
          <5> QED BY <3>2, <3>3, <5>2
        <4> QED BY <4>1, <4>2
      <3> QED BY <3>2, <3>3, <3>4
    <2> QED BY <2>3, <2>4
  <1>4. Good(n)
    BY <1>1, <1>3
  <1> QED BY <1>1, <1>2, <1>4

\* What is left of a sum without one of its parts.
LEMMA SumOfTheOthers ==
    ASSUME NEW s \in Seq(Nat), NEW k \in DOMAIN s
    PROVE  SumOf(s) = SumOf([s EXCEPT ![k] = 0]) + s[k]
  <1> DEFINE n == Len(s)
             t == [s EXCEPT ![k] = 0]
  <1>1. n \in Nat /\ k \in 1..n /\ t \in Seq(Nat) /\ Len(t) = n /\ t[k] = 0
    OBVIOUS
  <1>2. \A i \in 1..n : s[i] \in Nat /\ t[i] \in Nat /\ (i # k => t[i] = s[i])
    OBVIOUS
  <1> HIDE DEF t
  <1>3. PICK f : Sums(f, s, n) /\ SumOf(s) = f[n]
    BY SumIsPartial
  <1>4. PICK g : Sums(g, t, n) /\ SumOf(t) = g[n]
    BY <1>1, SumIsPartial
  <1> DEFINE Good(i) == f[i] \in Nat /\ g[i] \in Nat
                        /\ f[i] = IF i < k THEN g[i] ELSE g[i] + s[k]
             Bad == {i \in 0..n : ~Good(i)}
  <1>5. Bad = {}
    <2> SUFFICES ASSUME Bad # {} PROVE FALSE
      OBVIOUS
    <2>1. PICK j \in Bad : \A m \in Bad : j <= m
      <3>1. Bad \in SUBSET Nat
        OBVIOUS
      <3> QED BY <3>1, LeastNat
    <2>2. j \in 0..n /\ j \in Nat /\ ~Good(j)
      BY <1>1, <2>1
    <2>3. j # 0 => j \in 1..n /\ j - 1 \in 0..n /\ Good(j - 1)
      BY <1>1, <2>1
    <2>4. f[j] = IF j = 0 THEN 0 ELSE f[j - 1] + s[j]
      BY <1>3, <2>2 DEF Sums
    <2>5. g[j] = IF j = 0 THEN 0 ELSE g[j - 1] + t[j]
      BY <1>4, <2>2 DEF Sums
    <2> HIDE DEF Bad
    <2>6. CASE j = 0
      <3>1. f[j] = 0 /\ g[j] = 0 /\ j < k
        BY <1>1, <2>4, <2>5, <2>6
      <3> QED BY <2>2, <3>1
    <2>7. CASE j # 0
      <3> DEFINE a == f[j - 1]
                 b == g[j - 1]
                 x == s[j]
                 y == t[j]
                 z == s[k]
      <3>1. a \in Nat /\ b \in Nat /\ a = IF j - 1 < k THEN b ELSE b + z
        BY <2>3, <2>7
      <3>2. f[j] = a + x /\ g[j] = b + y
        BY <2>4, <2>5, <2>7
      <3>3. x \in Nat /\ y \in Nat /\ z \in Nat /\ y = IF j = k THEN 0 ELSE x
        BY <1>1, <1>2, <2>3, <2>7
      <3>4. j = k => x = z
        OBVIOUS
      <3>5. k \in Nat
        BY <1>1
      <3>6. Good(j) <=> f[j] \in Nat /\ g[j] \in Nat /\ f[j] = IF j < k THEN g[j] ELSE g[j] + z
        OBVIOUS
      <3> HIDE DEF Good, a, b, x, y, z
      <3>7. a + x \in Nat /\ b + y \in Nat
        BY <3>1, <3>3
      <3>8. a + x = IF j < k THEN b + y ELSE b + y + z
        BY <2>2, <3>1, <3>3, <3>4, <3>5
      <3> QED BY <2>2, <3>2, <3>6, <3>7, <3>8
    <2> QED BY <2>6, <2>7
  <1>6. Good(n)
    <2>1. n \in 0..n
      BY <1>1
    <2> HIDE DEF Good
    <2> QED BY <1>5, <2>1
  <1> QED BY <1>1, <1>3, <1>4, <1>6 DEF t

\* A list names as many different things as it is long only if it names each
\* of them once.
LEMMA AllDifferent ==
    ASSUME NEW n \in Nat, NEW f, DOMAIN f = 1..n, f = [k \in 1..n |-> f[k]]
    PROVE  /\ IsFiniteSet({f[k] : k \in 1..n})
           /\ Cardinality({f[k] : k \in 1..n}) = n
              <=> \A i, j \in 1..n : i # j => f[i] # f[j]
  <1> DEFINE T == {f[k] : k \in 1..n}
  <1>1. IsFiniteSet(1..n) /\ Cardinality(1..n) = n
    BY FS_Interval
  <1>2. f \in [1..n -> T]
    OBVIOUS
  <1>3. f \in Surjection(1..n, T)
    BY <1>2 DEF Surjection
  <1>4. IsFiniteSet(T) /\ (Cardinality(T) = n <=> f \in Injection(1..n, T))
    BY <1>1, <1>3, FS_Surjection
  <1>5. f \in Injection(1..n, T) <=> \A i, j \in 1..n : i # j => f[i] # f[j]
    BY <1>2 DEF Injection, IsInjective
  <1> QED BY <1>4, <1>5

=============================================================================
