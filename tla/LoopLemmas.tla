----------------------------- MODULE LoopLemmas -----------------------------
(***************************************************************************)
(* Facts about loops, cited wherever a C loop is written as a recursive    *)
(* function over its counter.  Induction is carried out by looking at the  *)
(* least counterexample (LeastElement), which needs no schematic theorem.  *)
(* And facts about the arithmetic of pages, of indices that wrap and of    *)
(* machine words: quotients, remainders and powers of two, in which a      *)
(* lemma names each product and each power, because the provers multiply   *)
(* only what is a variable.                                                *)
(***************************************************************************)
EXTENDS Integers, FiniteSetTheorems, TLAPS

\* Every non-empty set of naturals has a least element.
LEMMA LeastElement ==
  ASSUME NEW T \in SUBSET Nat, T # {}
  PROVE  \E m \in T : \A n \in T : m <= n
<1> DEFINE Below(n) == 0 .. n - 1
           D == {Below(n) : n \in T}
<1>1. D \subseteq FiniteSubsetsOf(Nat)
  <2> SUFFICES ASSUME NEW n \in T PROVE Below(n) \in FiniteSubsetsOf(Nat)
    OBVIOUS
  <2>1. IsFiniteSet(Below(n))
    BY FS_Interval
  <2> QED BY <2>1 DEF FiniteSubsetsOf
<1>2. IsWellFoundedOn(StrictSubsetOrdering(Nat), FiniteSubsetsOf(Nat))
  BY FS_StrictSubsetOrderingWellFounded
<1>3. D # {}
  OBVIOUS
<1> HIDE DEF D
<1>4. \E x \in D : \A y \in D : ~ (<<y, x>> \in StrictSubsetOrdering(Nat))
  BY <1>1, <1>2, <1>3, WFMin
<1>5. PICK m \in T : \A y \in D : ~ (<<y, Below(m)>> \in StrictSubsetOrdering(Nat))
  BY <1>4 DEF D
<1>6. ASSUME NEW n \in T, n < m PROVE FALSE
  <2>1. <<Below(n), Below(m)>> \in (SUBSET Nat) \X (SUBSET Nat)
    OBVIOUS
  <2>2. n \in Below(m) /\ n \notin Below(n) /\ Below(n) \subseteq Below(m)
    BY <1>6
  <2>3. <<Below(n), Below(m)>> \in StrictSubsetOrdering(Nat)
    BY <2>1, <2>2 DEF StrictSubsetOrdering
  <2> QED BY <1>5, <2>3 DEF D
<1> QED BY <1>6

\* Induction over a loop counter: a set of counter values that holds the first
\* one and, with every value but the last, its successor, holds them all.
LEMMA CounterInduction ==
  ASSUME NEW N \in Nat, NEW Good, 0 \in Good,
         \A k \in 1 .. N : k - 1 \in Good => k \in Good
  PROVE  0 .. N \subseteq Good
<1> DEFINE Missing == {k \in 0 .. N : k \notin Good}
<1> SUFFICES ASSUME Missing # {} PROVE FALSE
  OBVIOUS
<1>1. Missing \in SUBSET Nat
  OBVIOUS
<1> HIDE DEF Missing
<1>2. PICK m \in Missing : \A n \in Missing : m <= n
  BY <1>1, LeastElement
<1>3. m \in 1 .. N /\ m - 1 \notin Missing
  BY <1>1, <1>2 DEF Missing
<1> QED BY <1>2, <1>3 DEF Missing

\* f gives the state of a loop of N rounds after each round: it is z before the
\* first one, and round i takes state s to step[<<s, i>>].
IsLoop(f, N, S, z, step) ==
  /\ f \in [0 .. N -> S]
  /\ f[0] = z
  /\ \A i \in 1 .. N : f[i] = step[<<f[i - 1], i>>]

\* A loop has such a function.
LEMMA LoopDefined ==
  ASSUME NEW N \in Nat, NEW S, NEW z \in S, NEW step \in [S \X (1 .. N) -> S]
  PROVE  \E f : IsLoop(f, N, S, z, step)
<1> DEFINE Good == {k \in 0 .. N : \E f : IsLoop(f, k, S, z, step)}
<1>1. 0 \in Good
  <2>1. IsLoop([i \in 0 .. 0 |-> z], 0, S, z, step)
    BY DEF IsLoop
  <2> QED BY <2>1
<1>2. ASSUME NEW k \in 1 .. N, k - 1 \in Good PROVE k \in Good
  <2>1. PICK f : IsLoop(f, k - 1, S, z, step)
    BY <1>2
  <2> DEFINE g == [i \in 0 .. k |-> IF i = k THEN step[<<f[k - 1], k>>] ELSE f[i]]
  <2>2. g \in [0 .. k -> S]
    BY <2>1 DEF IsLoop
  <2>3. ASSUME NEW i \in 1 .. k PROVE g[i] = step[<<g[i - 1], i>>]
    <3>1. g[i - 1] = f[i - 1]
      OBVIOUS
    <3>2. CASE i = k
      <4>1. g[k] = step[<<f[k - 1], k>>]
        OBVIOUS
      <4> HIDE DEF g
      <4> QED BY <3>1, <3>2, <4>1
    <3>3. CASE i # k
      BY <2>1, <3>1, <3>3 DEF IsLoop
    <3> QED BY <3>2, <3>3
  <2>4. g[0] = z
    BY <2>1 DEF IsLoop
  <2> HIDE DEF g
  <2>5. IsLoop(g, k, S, z, step)
    BY <2>2, <2>3, <2>4 DEF IsLoop
  <2> QED BY <2>5
<1> HIDE DEF Good
<1>3. 0 .. N \subseteq Good
  BY <1>1, <1>2, CounterInduction
<1> QED BY <1>3 DEF Good
-----------------------------------------------------------------------------
(* Quotient and remainder are the only ones.                               *)
LEMMA Division ==
  ASSUME NEW x \in Int, NEW n \in Nat \ {0}
  PROVE  /\ x \div n \in Int /\ x % n \in 0 .. n - 1
         /\ x = n * (x \div n) + (x % n)
         /\ \A q \in Int, r \in 0 .. n - 1 : x = n * q + r => q = x \div n /\ r = x % n
<1> DEFINE p == x \div n
           s == x % n
<1>1. p \in Int /\ s \in 0 .. n - 1 /\ x = n * p + s
  <2>1. x \div n \in Int /\ x % n \in 0 .. n - 1 /\ x = n * (x \div n) + (x % n)
    BY Z3
  <2> QED BY <2>1
<1>2. ASSUME NEW q \in Int, NEW r \in 0 .. n - 1, x = n * q + r
      PROVE  q = p /\ r = s
  <2> HIDE DEF p, s
  <2>1. n * (q - p) = s - r
    BY <1>1, <1>2, Z3
  <2>2. q - p = 0
    <3>1. q - p >= 1 => n * (q - p) >= n
      BY <1>1, Z3
    <3>2. q - p <= -1 => n * (q - p) <= -n
      BY <1>1, Z3
    <3> QED BY <1>1, <2>1, <3>1, <3>2
  <2>3. n * (q - p) = 0
    BY <1>1, <2>2, Z3
  <2> QED BY <1>1, <2>1, <2>2, <2>3
<1> QED BY <1>1, <1>2
-----------------------------------------------------------------------------
\* Products, with variables in the place of the terms that a lemma multiplies.
LEMMA Products ==
  ASSUME NEW x \in Int, NEW y \in Int, NEW z \in Int
  PROVE  /\ x * y \in Int /\ x * y = y * x
         /\ x * (y * z) = y * (x * z) /\ x * (y * z) = (x * y) * z
         /\ x * (y + z) = x * y + x * z /\ x * (y - z) = x * y - x * z
         /\ x >= 0 /\ y <= z => x * y <= x * z
         /\ x > 0 /\ y > 0 => x * y > 0
         /\ x * 1 = x /\ x * 0 = 0 /\ x * (-1) = -x
<1>1. x * y \in Int /\ x * y = y * x
  BY Z3
<1>2. x * (y * z) = y * (x * z) /\ x * (y * z) = (x * y) * z
  BY Z3
<1>3. x * (y + z) = x * y + x * z
  BY Z3
<1>4. x * (y - z) = x * y - x * z
  BY Z3
<1>5. x >= 0 /\ y <= z => x * y <= x * z
  BY Z3
<1>6. x > 0 /\ y > 0 => x * y > 0
  BY Z3
<1>7. x * 1 = x /\ x * 0 = 0 /\ x * (-1) = -x
  BY Z3
<1> QED BY <1>1, <1>2, <1>3, <1>4, <1>5, <1>6, <1>7

(* Powers of two, counted as the subsets of an interval: the prover has no *)
(* rule for the exponent.                                                  *)
LEMMA PowerCounts ==
  ASSUME NEW n \in Nat
  PROVE  /\ IsFiniteSet(1 .. n) /\ Cardinality(1 .. n) = n
         /\ IsFiniteSet(SUBSET (1 .. n)) /\ Cardinality(SUBSET (1 .. n)) = 2^n
         /\ 2^n \in Nat
<1>1. IsFiniteSet(1 .. n) /\ Cardinality(1 .. n) = n
  BY FS_Interval
<1>2. IsFiniteSet(SUBSET (1 .. n)) /\ Cardinality(SUBSET (1 .. n)) = 2^Cardinality(1 .. n)
  BY <1>1, FS_SUBSET
<1>3. Cardinality(SUBSET (1 .. n)) \in Nat
  BY <1>2, FS_CardinalityType
<1> QED BY <1>1, <1>2, <1>3

\* The zeroth power, and the step to the next one.
LEMMA PowerZero == 2^0 = 1
<1>1. SUBSET (1 .. 0) = {{}}
  OBVIOUS
<1>2. Cardinality({{}}) = 1
  BY FS_Singleton
<1> QED BY <1>1, <1>2, PowerCounts

LEMMA PowerDoubles ==
  ASSUME NEW n \in Nat
  PROVE  2^(n + 1) = 2 * 2^n /\ 2^n \in Nat \ {0}
<1> DEFINE A == SUBSET (1 .. n)
           B == {T \cup {n + 1} : T \in A}
           f == [T \in A |-> T \cup {n + 1}]
<1>0. n + 1 \notin 1 .. n /\ 1 .. n + 1 = (1 .. n) \cup {n + 1}
  OBVIOUS
<1>1. SUBSET (1 .. n + 1) = A \cup B
  <2>1. ASSUME NEW T \in SUBSET (1 .. n + 1), T \notin A PROVE T \in B
    <3>1. T \ {n + 1} \in A /\ T = (T \ {n + 1}) \cup {n + 1}
      BY <1>0, <2>1
    <3> QED BY <3>1
  <2> QED BY <1>0, <2>1
<1>2. A \cap B = {}
  BY <1>0
<1>3. f \in Bijection(A, B)
  <2>1. f \in Surjection(A, B)
    BY DEF Surjection
  <2>2. f \in Injection(A, B)
    <3>1. \A S, T \in A : f[S] = f[T] => S = T
      <4> SUFFICES ASSUME NEW S \in A, NEW T \in A, S \cup {n + 1} = T \cup {n + 1} PROVE S = T
        OBVIOUS
      <4>1. n + 1 \notin S /\ n + 1 \notin T
        BY <1>0
      <4> QED BY <4>1
    <3>2. f \in [A -> B]
      OBVIOUS
    <3> HIDE DEF f, A, B
    <3> QED BY <3>1, <3>2 DEF Injection, IsInjective
  <2> HIDE DEF f, A, B
  <2> QED BY <2>1, <2>2 DEF Bijection
<1>4. IsFiniteSet(A) /\ Cardinality(A) = 2^n /\ 2^n \in Nat
  BY PowerCounts
<1>5. Cardinality(SUBSET (1 .. n + 1)) = 2^(n + 1)
  BY PowerCounts
<1>6. 2^n # 0
  <2>1. {} \in A
    OBVIOUS
  <2> HIDE DEF A
  <2> QED BY <1>4, <2>1, FS_EmptySet
<1> HIDE DEF f, A, B
<1>7. IsFiniteSet(B) /\ Cardinality(B) = 2^n
  BY <1>3, <1>4, FS_Bijection DEF ExistsBijection
<1>8. Cardinality(A \cup B) = 2^n + 2^n
  BY <1>2, <1>4, <1>7, FS_Union, FS_EmptySet
<1>9. 2^(n + 1) = 2^n + 2^n
  BY <1>1, <1>5, <1>8
<1> QED BY <1>4, <1>6, <1>9

\* The power of a sum.
LEMMA PowerAdds ==
  ASSUME NEW a \in Nat, NEW b \in Nat
  PROVE  2^(a + b) = 2^a * 2^b
<1> DEFINE Good == {k \in Nat : 2^(a + k) = 2^a * 2^k}
<1>1. 0 \in Good
  BY PowerZero, PowerDoubles
<1>2. ASSUME NEW k \in 1 .. b, k - 1 \in Good PROVE k \in Good
  <2>1. k - 1 \in Nat /\ a + (k - 1) \in Nat /\ (k - 1) + 1 = k /\ (a + (k - 1)) + 1 = a + k
    OBVIOUS
  <2>2. 2^k = 2 * 2^(k - 1) /\ 2^(k - 1) \in Nat
    BY <2>1, PowerDoubles
  <2>3. 2^(a + k) = 2 * 2^(a + (k - 1))
    BY <2>1, PowerDoubles
  <2>4. 2^(a + (k - 1)) = 2^a * 2^(k - 1) /\ 2^a \in Nat
    BY <1>2, <2>1, PowerDoubles
  <2>5. 2^(a + k) = 2 * (2^a * 2^(k - 1))
    BY <2>3, <2>4
  <2>6. 2^a * (2 * 2^(k - 1)) = 2 * (2^a * 2^(k - 1))
    BY <2>2, <2>4, Products
  <2> QED BY <2>2, <2>5, <2>6
<1> HIDE DEF Good
<1>3. 0 .. b \subseteq Good
  BY <1>1, <1>2, CounterInduction
<1> QED BY <1>3 DEF Good

\* A power, its half, and that it exceeds its exponent.
LEMMA PowerFacts ==
  ASSUME NEW n \in Nat \ {0}
  PROVE  /\ 2^n \in Nat \ {0} /\ 2^(n - 1) \in Nat \ {0}
         /\ 2^n = 2 * 2^(n - 1)
         /\ n < 2^n
<1>1. n - 1 \in Nat /\ (n - 1) + 1 = n
  OBVIOUS
<1>2. 2^n = 2 * 2^(n - 1) /\ 2^(n - 1) \in Nat \ {0}
  BY <1>1, PowerDoubles
<1> DEFINE Good == {k \in Nat : k < 2^k}
<1>3. 0 \in Good
  BY PowerZero
<1>4. ASSUME NEW k \in 1 .. n, k - 1 \in Good PROVE k \in Good
  <2>1. k - 1 \in Nat /\ (k - 1) + 1 = k
    OBVIOUS
  <2>2. 2^k = 2 * 2^(k - 1) /\ 2^(k - 1) \in Nat
    BY <2>1, PowerDoubles
  <2> QED BY <1>4, <2>2
<1> HIDE DEF Good
<1>5. 0 .. n \subseteq Good
  BY <1>3, <1>4, CounterInduction
<1> QED BY <1>2, <1>5 DEF Good

(* A smaller power divides a larger one.                                   *)
LEMMA PowerDivides ==
  ASSUME NEW a \in Nat, NEW b \in Nat, a <= b
  PROVE  /\ 2^b = 2^a * 2^(b - a) /\ 2^a \in Nat \ {0} /\ 2^(b - a) \in Nat \ {0}
         /\ 2^a <= 2^b
<1>1. b - a \in Nat /\ a + (b - a) = b
  OBVIOUS
<1>2. 2^b = 2^a * 2^(b - a)
  BY <1>1, PowerAdds
<1>3. 2^a \in Nat \ {0} /\ 2^(b - a) \in Nat \ {0}
  BY <1>1, PowerDoubles
<1>4. 2^a * 1 <= 2^a * 2^(b - a)
  BY <1>3, Products
<1> QED BY <1>2, <1>3, <1>4

-----------------------------------------------------------------------------
(* Arithmetic modulo n.                                                    *)
LEMMA Remainder ==
  ASSUME NEW x \in Int, NEW n \in Nat \ {0}
  PROVE  /\ x % n \in 0 .. n - 1
         /\ \E q \in Int : x = (x % n) + n * q
         /\ x \in 0 .. n - 1 => x % n = x /\ x \div n = 0
         /\ \A q \in Int : (x + n * q) % n = x % n
         /\ (x % n) % n = x % n
<1>1. /\ x \div n \in Int /\ x % n \in 0 .. n - 1
      /\ x = n * (x \div n) + (x % n)
  BY Division
<1>2. ASSUME NEW y \in Int, NEW q \in Int, NEW r \in 0 .. n - 1, y = n * q + r
      PROVE  y % n = r /\ y \div n = q
  BY <1>2, Division
<1>3. \E q \in Int : x = (x % n) + n * q
  <2> DEFINE p == x \div n
  <2>1. x = n * p + (x % n) /\ p \in Int /\ x % n \in Int /\ n * p \in Int
    BY <1>1, Products
  <2> HIDE DEF p
  <2>2. x = (x % n) + n * p
    BY <2>1
  <2> QED BY <2>1, <2>2
<1>4. ASSUME NEW y \in 0 .. n - 1 PROVE y % n = y /\ y \div n = 0
  <2>1. n * 0 = 0
    BY Products
  <2>2. y = n * 0 + y
    BY <2>1
  <2> QED BY <1>2, <2>2
<1>5. ASSUME NEW q \in Int PROVE (x + n * q) % n = x % n
  <2>1. n * q \in Int /\ n * (x \div n) \in Int /\ n * ((x \div n) + q) = n * (x \div n) + n * q
    BY <1>1, Products
  <2>2. x + n * q = n * ((x \div n) + q) + (x % n)
    BY <1>1, <2>1
  <2>3. (x \div n) + q \in Int /\ x + n * q \in Int
    BY <1>1, <2>1
  <2> QED BY <1>1, <1>2, <2>2, <2>3
<1> QED BY <1>1, <1>3, <1>4, <1>5

\* Numbers have the same remainder when a multiple lies between them.
LEMMA SameRemainder ==
  ASSUME NEW x \in Int, NEW y \in Int, NEW n \in Nat \ {0}
  PROVE  x % n = y % n <=> \E q \in Int : x = y + n * q
<1>1. ASSUME x % n = y % n PROVE \E q \in Int : x = y + n * q
  <2>1. PICK q \in Int : x = (x % n) + n * q
    BY Remainder
  <2>2. PICK r \in Int : y = (y % n) + n * r
    BY Remainder
  <2>3. n * (q - r) = n * q - n * r /\ n * q \in Int /\ n * r \in Int
    BY Products
  <2>4. x % n \in Int
    BY Remainder
  <2>5. x = y + n * (q - r)
    BY <1>1, <2>1, <2>2, <2>3, <2>4
  <2> QED BY <2>5
<1>2. ASSUME NEW q \in Int, x = y + n * q PROVE x % n = y % n
  BY <1>2, Remainder
<1> QED BY <1>1, <1>2

Congruent(x, y, n) == x % n = y % n

\* Congruence is kept by sums, differences and products.
LEMMA CongruentSums ==
  ASSUME NEW x \in Int, NEW y \in Int, NEW v \in Int, NEW w \in Int, NEW n \in Nat \ {0},
         Congruent(x, v, n), Congruent(y, w, n)
  PROVE  Congruent(x + y, v + w, n) /\ Congruent(x - y, v - w, n) /\ Congruent(x * y, v * w, n)
<1>1. PICK q \in Int : x = v + n * q
  BY SameRemainder DEF Congruent
<1>2. PICK r \in Int : y = w + n * r
  BY SameRemainder DEF Congruent
<1>3. n * q \in Int /\ n * r \in Int /\ n * (q + r) = n * q + n * r /\ n * (q - r) = n * q - n * r
  BY Products
<1>4. x + y = (v + w) + n * (q + r) /\ x - y = (v - w) + n * (q - r)
  BY <1>1, <1>2, <1>3
<1>5. (x + y) % n = (v + w) % n
  <2>1. q + r \in Int /\ x + y \in Int /\ v + w \in Int
    OBVIOUS
  <2> DEFINE t == q + r
           a == x + y
           b == v + w
  <2>2. a = b + n * t /\ t \in Int /\ a \in Int /\ b \in Int
    BY <1>4, <2>1
  <2> HIDE DEF t, a, b
  <2>3. a % n = b % n
    BY <2>2, SameRemainder
  <2> QED BY <2>3 DEF a, b
<1>6. (x - y) % n = (v - w) % n
  <2>1. q - r \in Int /\ x - y \in Int /\ v - w \in Int
    OBVIOUS
  <2> DEFINE t == q - r
           a == x - y
           b == v - w
  <2>2. a = b + n * t /\ t \in Int /\ a \in Int /\ b \in Int
    BY <1>4, <2>1
  <2> HIDE DEF t, a, b
  <2>3. a % n = b % n
    BY <2>2, SameRemainder
  <2> QED BY <2>3 DEF a, b
<1>7. (x * y) % n = (v * w) % n
  <2> DEFINE t == v * r + q * y
  <2>1. v * w \in Int /\ v * r \in Int /\ q * y \in Int /\ x * y \in Int /\ t \in Int
    BY Products
  <2>2. x * y = v * y + (n * q) * y
    BY <1>1, <1>3, Products
  <2>3. v * y = v * w + v * (n * r)
    BY <1>2, <1>3, Products
  <2>4. (n * q) * y = n * (q * y) /\ v * (n * r) = n * (v * r)
    BY Products
  <2>5. n * t = n * (v * r) + n * (q * y)
    BY <2>1, Products
  <2>6. n * (v * r) \in Int /\ n * (q * y) \in Int /\ n * t \in Int
    BY <2>1, Products
  <2> HIDE DEF t
  <2>7. x * y = v * w + n * t
    BY <2>1, <2>2, <2>3, <2>4, <2>5, <2>6
  <2>8. PICK a \in Int, b \in Int, s \in Int : a = x * y /\ b = v * w /\ s = t
    BY <2>1
  <2>9. a = b + n * s
    BY <2>7, <2>8
  <2>10. a % n = b % n
    BY <2>9, SameRemainder
  <2> QED BY <2>8, <2>10
<1> QED BY <1>5, <1>6, <1>7 DEF Congruent

\* Adding a multiple changes no remainder.
LEMMA CongruentStep ==
  ASSUME NEW x \in Int, NEW y \in Int, NEW q \in Int, NEW n \in Nat \ {0}, x = y + n * q
  PROVE  Congruent(x, y, n)
BY SameRemainder DEF Congruent

(* The low part of a low part.                                             *)
LEMMA RemainderOfMultiple ==
  ASSUME NEW x \in Int, NEW m \in Nat \ {0}, NEW k \in Nat \ {0}
  PROVE  /\ m * k \in Nat \ {0}
         /\ (x % (m * k)) % m = x % m
         /\ \A y \in Int : x % (m * k) = y % (m * k) => x % m = y % m
<1>1. m * k \in Nat \ {0}
  BY Products
<1>2. ASSUME NEW y \in Int, x % (m * k) = y % (m * k) PROVE x % m = y % m
  <2> DEFINE n == m * k
  <2>0. n \in Nat \ {0} /\ x % n = y % n
    BY <1>1, <1>2
  <2> HIDE DEF n
  <2>1. PICK q \in Int : x = y + n * q
    BY <2>0, SameRemainder
  <2>2. (m * k) * q = m * (k * q) /\ k * q \in Int
    BY Products
  <2>3. x = y + m * (k * q)
    BY <2>1, <2>2 DEF n
  <2> QED BY <2>2, <2>3, SameRemainder
<1>3. x % (m * k) \in Int /\ (x % (m * k)) % (m * k) = x % (m * k)
  <2> DEFINE n == m * k
  <2>0. n \in Nat \ {0}
    BY <1>1
  <2> HIDE DEF n
  <2>1. x % n \in 0 .. n - 1 /\ (x % n) % n = x % n
    BY <2>0, Remainder
  <2>2. x % n \in Int
    BY <2>0, <2>1
  <2> QED BY <2>1, <2>2 DEF n
<1> QED BY <1>1, <1>2, <1>3

(* The quotient of a product's multiple, and of what stays below it.       *)
LEMMA QuotientBounds ==
  ASSUME NEW x \in Int, NEW n \in Nat \ {0}
  PROVE  /\ x \div n \in Int
         /\ x >= 0 => x \div n \in 0 .. x
         /\ \A m \in Nat : x < n * m => x \div n < m
         /\ \A m \in Nat : x >= -m => x \div n >= -m
         /\ \A m \in Nat : x < m => x \div n < m
<1> DEFINE p == x \div n
           s == x % n
<1>1. p \in Int /\ s \in 0 .. n - 1 /\ x = n * p + s
  BY Division
<1> HIDE DEF p, s
<1>2. n * p \in Int /\ (p >= 0 => 1 * p <= n * p) /\ (p <= 0 => n * p <= 1 * p)
  BY <1>1, Z3
<1>3. p < 0 => n * p <= -n
  <2>1. p <= -1 => n * p <= n * (-1)
    BY <1>1, Products
  <2> QED BY <1>1, <2>1, Products
<1>4. \A m \in Nat : x < n * m => p < m
  <2> SUFFICES ASSUME NEW m \in Nat, x < n * m, p >= m PROVE FALSE
    BY <1>1
  <2>1. n * m <= n * p /\ n * m \in Int
    BY <1>1, Products
  <2> QED BY <1>1, <1>2, <2>1
<1>5. x >= 0 => p \in 0 .. x
  BY <1>1, <1>2, <1>3
<1>6. ASSUME NEW m \in Nat, x >= -m PROVE p >= -m
  <2> SUFFICES ASSUME p < -m PROVE FALSE
    BY <1>1
  <2>1. p <= -m - 1 /\ -m - 1 \in Int
    BY <1>1
  <2>2. n * p <= n * (-m - 1) /\ n * (-m - 1) = n * (-m) - n * 1 /\ n * 1 = n
    BY <1>1, <2>1, Products
  <2>3. n * (-m) <= 1 * (-m) /\ n * (-m) \in Int
    BY Z3
  <2> QED BY <1>1, <1>2, <1>6, <2>2, <2>3
<1>7. ASSUME NEW m \in Nat, x < m PROVE p < m
  BY <1>1, <1>2, <1>7
<1> QED BY <1>1, <1>4, <1>5, <1>6, <1>7 DEF p
=============================================================================
