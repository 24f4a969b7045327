------------------------------ MODULE BasicFacts -----------------------------
(***************************************************************************)
(* Facts that the proofs of several components cite: about sets and        *)
(* numbers, and about Grants, what Lowest picks and how RunsOf cuts it.    *)
(* The rank of a block in a finite set, the number of blocks below it,     *)
(* runs through 0, 1, 2 and so on; and the blocks up to the next start of  *)
(* a run are consecutive, since a run starts after every gap.  Then how    *)
(* long the runs are, and the sizes of sets in parts.                      *)
(***************************************************************************)
EXTENDS Grants, SealedLayout, FiniteSetTheorems, WellFoundedInduction, TLAPS

\* A set of naturals that is not empty has a least member.
LEMMA LeastNatural ==
  ASSUME NEW S \in SUBSET Nat, S # {}
  PROVE  \E m \in S : \A k \in S : m <= k
<1> DEFINE R == OpToRel(<, Nat)
<1>1. IsWellFoundedOn(R, Nat)
  BY NatLessThanWellFounded
<1>2. \A y, x \in Nat : <<y, x>> \in R <=> y < x
  BY DEF OpToRel
<1> HIDE DEF R
<1>3. PICK x \in S : \A y \in S : ~ (<<y, x>> \in R)
  BY <1>1, WFMin
<1>4. ASSUME NEW k \in S PROVE x <= k
  <2>1. x \in Nat /\ k \in Nat
    OBVIOUS
  <2>2. ~ (k < x)
    BY <1>2, <1>3, <2>1
  <2>3. QED
    BY <2>1, <2>2
<1>5. QED
  BY <1>4

LEMMA UpTo ==
  ASSUME NEW n \in Nat
  PROVE  IsFiniteSet(1 .. n) /\ Cardinality(1 .. n) = n
<1>1. 1 \in Int /\ n \in Int
  OBVIOUS
<1>2. IsFiniteSet(1 .. n) /\ Cardinality(1 .. n) = IF 1 > n THEN 0 ELSE n - 1 + 1
  BY <1>1, FS_Interval
<1>3. QED
  BY <1>2

\* Sets that a function matches member by member are equally large.
LEMMA SameSize ==
  ASSUME NEW S, NEW T, IsFiniteSet(S), NEW f \in [S -> T],
         \A x, y \in S : f[x] = f[y] => x = y,
         \A t \in T : \E x \in S : f[x] = t
  PROVE  IsFiniteSet(T) /\ Cardinality(T) = Cardinality(S)
<1>1. f \in Bijection(S, T)
  BY DEF Bijection, Injection, Surjection, IsInjective
<1>2. ExistsBijection(S, T)
  BY <1>1 DEF ExistsBijection
<1>3. QED
  BY <1>2, FS_Bijection

LEMMA ImageIsFinite ==
  ASSUME NEW S, IsFiniteSet(S), NEW T, NEW f, \A t \in T : \E x \in S : f[x] = t
  PROVE  IsFiniteSet(T)
<1> DEFINE R == {f[x] : x \in S}
           h == [x \in S |-> f[x]]
<1>1. h \in Surjection(S, R)
  BY DEF Surjection
<1>2. T \subseteq R
  OBVIOUS
<1> HIDE DEF R, h
<1>3. IsFiniteSet(R)
  BY <1>1, FS_Surjection
<1>4. QED
  BY <1>2, <1>3, FS_Subset

LEMMA NonEmptyIsPositive ==
  ASSUME NEW S, IsFiniteSet(S), S # {}
  PROVE  Cardinality(S) \in Nat /\ Cardinality(S) > 0
<1>1. Cardinality(S) \in Nat /\ Cardinality(S) # 0
  BY FS_CardinalityType, FS_EmptySet
<1>2. QED
  BY <1>1

LEMMA SizeOfUnion ==
  ASSUME NEW A, NEW B, IsFiniteSet(A), IsFiniteSet(B), A \cap B = {}
  PROVE  /\ IsFiniteSet(A \cup B) /\ Cardinality(A) \in Nat /\ Cardinality(B) \in Nat
         /\ Cardinality(A \cup B) = Cardinality(A) + Cardinality(B)
<1>1. IsFiniteSet(A \cup B) /\ Cardinality(A \cup B) = Cardinality(A) + Cardinality(B) - Cardinality(A \cap B)
  BY FS_Union
<1>2. Cardinality(A \cap B) = 0
  BY FS_EmptySet
<1>3. Cardinality(A) \in Nat /\ Cardinality(B) \in Nat
  BY FS_CardinalityType
<1>4. QED
  BY <1>1, <1>2, <1>3

-----------------------------------------------------------------------------
(* Sums of sizes, as the size of a set: one pair per unit of each member.  *)

Units(g, S) == UNION {{s} \X (1 .. g[s]) : s \in S}

LEMMA UnitMember ==
  ASSUME NEW g, NEW S, NEW p
  PROVE  p \in Units(g, S) <=> p[1] \in S /\ p[2] \in 1 .. g[p[1]] /\ p = <<p[1], p[2]>>
BY DEF Units

LEMMA UnitsFinite ==
  ASSUME NEW S, IsFiniteSet(S), NEW g, \A s \in S : g[s] \in Nat
  PROVE  IsFiniteSet(Units(g, S)) /\ Cardinality(Units(g, S)) \in Nat
<1> DEFINE Part(s) == {s} \X (1 .. g[s])
           Parts == {Part(s) : s \in S}
           f == [s \in S |-> Part(s)]
<1>1. f \in Surjection(S, Parts)
  BY DEF Surjection
<1>2. IsFiniteSet(Parts)
  <2> HIDE DEF f, Parts
  <2> QED BY <1>1, FS_Surjection
<1>3. ASSUME NEW s \in S PROVE IsFiniteSet(Part(s))
  <2>1. IsFiniteSet({s})
    BY FS_Singleton
  <2>2. g[s] \in Int
    OBVIOUS
  <2>3. IsFiniteSet(1 .. g[s])
    BY <2>2, FS_Interval
  <2>4. QED
    BY <2>1, <2>3, FS_Product
<1>4. \A T \in Parts : IsFiniteSet(T)
  BY <1>3
<1>5. IsFiniteSet(UNION Parts)
  <2> HIDE DEF Parts
  <2> QED BY <1>2, <1>4, FS_UNION
<1>6. QED
  BY <1>5, FS_CardinalityType DEF Units

\* A new member adds its size.
LEMMA UnitsOfOneMore ==
  ASSUME NEW S, IsFiniteSet(S), NEW g, NEW x, x \notin S, \A s \in S \cup {x} : g[s] \in Nat
  PROVE  Cardinality(Units(g, S \cup {x})) = Cardinality(Units(g, S)) + g[x]
<1> DEFINE New == {x} \X (1 .. g[x])
<1>1. Units(g, S \cup {x}) = Units(g, S) \cup New
  BY DEF Units
<1>2. Units(g, S) \cap New = {}
  BY UnitMember
<1>3. IsFiniteSet(New) /\ Cardinality(New) = g[x]
  <2>1. IsFiniteSet({x}) /\ Cardinality({x}) = 1
    BY FS_Singleton
  <2>2. PICK n \in Nat : n = g[x]
    OBVIOUS
  <2>3. PICK K : K = 1 .. n
    OBVIOUS
  <2>4. IsFiniteSet(K) /\ Cardinality(K) = n
    BY <2>3, UpTo
  <2>5. New = {x} \X K
    BY <2>2, <2>3
  <2>6. IsFiniteSet(New) /\ Cardinality(New) = 1 * n
    BY <2>1, <2>4, <2>5, FS_Product
  <2>7. QED
    BY <2>2, <2>6
<1>4. IsFiniteSet(Units(g, S)) /\ Cardinality(Units(g, S)) \in Nat
  BY UnitsFinite
<1> HIDE DEF New
<1>5. Cardinality(Units(g, S) \cup New) = Cardinality(Units(g, S)) + Cardinality(New) - Cardinality({})
  BY <1>2, <1>3, <1>4, FS_Union
<1>6. g[x] \in Nat /\ Cardinality({}) = 0
  BY FS_EmptySet
<1>7. Cardinality(Units(g, S) \cup New) = Cardinality(Units(g, S)) + g[x]
  BY <1>3, <1>4, <1>5, <1>6
<1>8. QED
  BY <1>1, <1>7

\* The sizes of some members are the rest's less.
LEMMA UnitsOfTheRest ==
  ASSUME NEW S, IsFiniteSet(S), NEW T \in SUBSET S, NEW g, \A s \in S : g[s] \in Nat
  PROVE  Cardinality(Units(g, S \ T)) = Cardinality(Units(g, S)) - Cardinality(Units(g, T))
<1>1. IsFiniteSet(T) /\ \A s \in T : g[s] \in Nat
  BY FS_Subset
<1>2. IsFiniteSet(Units(g, S)) /\ IsFiniteSet(Units(g, T)) /\ Cardinality(Units(g, T)) \in Nat
  BY <1>1, UnitsFinite
<1>3. Units(g, S \ T) = Units(g, S) \ Units(g, T)
  BY UnitMember
<1>4. Units(g, S) \cap Units(g, T) = Units(g, T)
  BY UnitMember
<1>5. QED
  BY <1>2, <1>3, <1>4, FS_Difference

LEMMA UnitsAgree ==
  ASSUME NEW S, NEW g, NEW h, \A s \in S : g[s] = h[s]
  PROVE  Units(g, S) = Units(h, S)
<1>1. \A p : p \in Units(g, S) <=> p \in Units(h, S)
  BY UnitMember
<1>2. QED
  BY <1>1

\* Members of size zero do not count.
LEMMA UnitsOfNothing ==
  ASSUME NEW S, NEW T \in SUBSET S, NEW g, \A s \in S \ T : g[s] = 0
  PROVE  Units(g, S) = Units(g, T)
<1>1. \A s \in S \ T : 1 .. g[s] = {}
  OBVIOUS
<1>2. \A p : p \in Units(g, S) <=> p \in Units(g, T)
  BY <1>1, UnitMember
<1>3. QED
  BY <1>2

-----------------------------------------------------------------------------
(* Multiples of b, the length of a block: u is in block u \div b. *)

LEMMA TimesKeepsOrder ==
  ASSUME NEW b \in Nat \ {0}, NEW x \in Int, NEW y \in Int, x <= y
  PROVE  x * b <= y * b
OBVIOUS

LEMMA TimesShowsOrder ==
  ASSUME NEW b \in Nat \ {0}, NEW x \in Int, NEW y \in Int, x * b < y * b
  PROVE  x < y
OBVIOUS

LEMMA QuotientAndRest ==
  ASSUME NEW b \in Nat \ {0}, NEW u \in Nat
  PROVE  u \div b \in Nat /\ u % b \in 0 .. b - 1 /\ u = b * (u \div b) + (u % b)
OBVIOUS

LEMMA BelowBlock ==
  ASSUME NEW b \in Nat \ {0}, NEW u \in Nat, NEW x \in Nat
  PROVE  u < x * b <=> u \div b < x
<1>1. PICK d \in Nat, m \in 0 .. b - 1 : d = u \div b /\ u = b * d + m
  BY QuotientAndRest
<1>2. ASSUME d < x PROVE u < x * b
  <2>1. (d + 1) * b <= x * b
    BY <1>2, TimesKeepsOrder
  <2>2. (d + 1) * b = d * b + b /\ d * b = b * d
    OBVIOUS
  <2>3. QED
    BY <1>1, <2>1, <2>2
<1>3. ASSUME u < x * b PROVE d < x
  <2>1. d * b < x * b
    BY <1>1, <1>3
  <2>2. QED
    BY <2>1, TimesShowsOrder
<1>4. QED
  BY <1>1, <1>2, <1>3

\* What is missing to the end of block x - 1 for something that ends in it.
LEMMA PadToBlock ==
  ASSUME NEW b \in Nat \ {0}, NEW u \in Nat, NEW x \in Nat, (x - 1) * b < u, u <= x * b
  PROVE  (b - (u % b)) % b = x * b - u
<1>1. PICK d \in Nat, m \in 0 .. b - 1 : d = u \div b /\ m = u % b /\ u = b * d + m
  BY QuotientAndRest
<1>2. CASE m = 0
  <2>1. b % b = 0
    OBVIOUS
  <2>2. (x - 1) * b < d * b /\ d * b < (x + 1) * b
    BY <1>1, <1>2
  <2>3. x - 1 < d /\ d < x + 1
    BY <2>2, TimesShowsOrder
  <2>4. x = d
    BY <2>3
  <2>5. QED
    BY <1>1, <1>2, <2>1, <2>4
<1>3. CASE m # 0
  <2>1. (b - m) % b = b - m
    BY <1>1, <1>3
  <2>2. d * b < x * b /\ (x - 1) * b < (d + 1) * b
    BY <1>1, <1>3
  <2>3. d < x /\ x - 1 < d + 1
    BY <2>2, TimesShowsOrder
  <2>4. x = d + 1
    BY <2>3
  <2>5. QED
    BY <1>1, <2>1, <2>4
<1>4. QED
  BY <1>2, <1>3

\* A number has one quotient and one rest, the rest counted from 1.
LEMMA OneQuotient ==
  ASSUME NEW u \in Nat \ {0}, NEW a \in Nat, NEW b \in Nat, NEW v \in 1 .. u, NEW w \in 1 .. u,
         u * a + v = u * b + w
  PROVE  a = b /\ v = w
<1>1. ASSUME NEW x \in Nat, NEW y \in Nat, NEW p \in 1 .. u, NEW q \in 1 .. u, x < y
      PROVE  u * x + p < u * y + q
  <2>1. (x + 1) * u <= y * u
    BY <1>1, TimesKeepsOrder
  <2>2. (x + 1) * u = u * x + u /\ y * u = u * y /\ u * x \in Nat /\ u * y \in Nat
    OBVIOUS
  <2>3. QED
    BY <2>1, <2>2
<1>2. ~(a < b)
  <2>1. a < b => u * a + v < u * b + w
    BY <1>1
  <2>2. u * a \in Nat /\ u * b \in Nat
    OBVIOUS
  <2>3. QED
    BY <2>1, <2>2
<1>3. ~(b < a)
  <2>1. b < a => u * b + w < u * a + v
    BY <1>1
  <2>2. u * a \in Nat /\ u * b \in Nat
    OBVIOUS
  <2>3. QED
    BY <2>1, <2>2
<1>4. a = b
  BY <1>2, <1>3
<1>5. u * a \in Nat
  OBVIOUS
<1>6. QED
  BY <1>4, <1>5

\* Sizes that are all u times as large have a sum that is.
LEMMA UnitsTimes ==
  ASSUME NEW S, IsFiniteSet(S), NEW u \in Nat \ {0}, NEW c, NEW d,
         \A s \in S : c[s] \in Nat /\ d[s] = u * c[s]
  PROVE  Cardinality(Units(d, S)) = u * Cardinality(Units(c, S))
<1> DEFINE P == Units(c, S) \X (1 .. u)
           D == Units(d, S)
           f == [q \in P |-> <<q[1][1], u * (q[1][2] - 1) + q[2]>>]
<1>1. IsFiniteSet(P) /\ Cardinality(P) = u * Cardinality(Units(c, S))
  <2>1. IsFiniteSet(Units(c, S)) /\ Cardinality(Units(c, S)) \in Nat
    BY UnitsFinite
  <2>2. IsFiniteSet(1 .. u) /\ Cardinality(1 .. u) = u
    BY FS_Interval
  <2>3. Cardinality(P) = Cardinality(Units(c, S)) * u /\ IsFiniteSet(P)
    BY <2>1, <2>2, FS_Product
  <2>4. QED
    BY <2>1, <2>3
<1>2. ASSUME NEW q \in P
      PROVE  /\ q[1][1] \in S /\ q[1][2] \in 1 .. c[q[1][1]] /\ q[2] \in 1 .. u
             /\ q[1] = <<q[1][1], q[1][2]>> /\ q = <<q[1], q[2]>>
             /\ q[1][2] - 1 \in Nat /\ q[1][2] \in Int
             /\ f[q] = <<q[1][1], u * (q[1][2] - 1) + q[2]>>
  <2>1. q[1] \in Units(c, S) /\ q[2] \in 1 .. u /\ q = <<q[1], q[2]>>
    OBVIOUS
  <2>2. q[1][1] \in S /\ q[1][2] \in 1 .. c[q[1][1]] /\ q[1] = <<q[1][1], q[1][2]>>
    BY <2>1, UnitMember
  <2>3. q[1][2] - 1 \in Nat /\ q[1][2] \in Int
    BY <2>2
  <2>4. QED
    BY <2>1, <2>2, <2>3
<1>3. ASSUME NEW s \in S, NEW j \in 1 .. c[s], NEW v \in 1 .. u
      PROVE  u * (j - 1) + v \in 1 .. d[s]
  <2>1. d[s] = u * c[s] /\ c[s] \in Nat /\ j \in Int /\ j <= c[s]
    OBVIOUS
  <2>2. j * u <= c[s] * u
    BY <2>1, TimesKeepsOrder
  <2>3. j * u = u * (j - 1) + u /\ c[s] * u = u * c[s] /\ u * (j - 1) \in Nat
    BY <2>1
  <2>4. QED
    BY <2>1, <2>2, <2>3
<1>4. \A q \in P : f[q] \in D
  BY <1>2, <1>3, UnitMember
<1>5. ASSUME NEW q \in P, NEW r \in P, f[q] = f[r] PROVE q = r
  <2>1. /\ q[1][1] = r[1][1]
        /\ u * (q[1][2] - 1) + q[2] = u * (r[1][2] - 1) + r[2]
    BY <1>2, <1>5
  <2>2. /\ q[1][2] - 1 \in Nat /\ r[1][2] - 1 \in Nat /\ q[2] \in 1 .. u /\ r[2] \in 1 .. u
        /\ q[1][2] \in Int /\ r[1][2] \in Int
    BY <1>2, Zenon
  <2>3. q[1][2] - 1 = r[1][2] - 1 /\ q[2] = r[2]
    <3>1. PICK a \in Nat, b \in Nat : a = q[1][2] - 1 /\ b = r[1][2] - 1
      BY <2>2
    <3>2. PICK v \in 1 .. u, w \in 1 .. u : v = q[2] /\ w = r[2]
      BY <2>2
    <3>3. u * a + v = u * b + w
      BY <2>1, <3>1, <3>2, Zenon
    <3>4. a = b /\ v = w
      BY <3>3, OneQuotient
    <3>5. QED
      BY <3>1, <3>2, <3>4
  <2>4. q[1][2] = r[1][2]
    BY <2>2, <2>3
  <2>5. q[1] = r[1]
    <3>1. q[1] = <<q[1][1], q[1][2]>> /\ r[1] = <<r[1][1], r[1][2]>>
      BY <1>2, Zenon
    <3>2. PICK s, j : s = q[1][1] /\ j = q[1][2]
      OBVIOUS
    <3>3. q[1] = <<s, j>>
      BY <3>1, <3>2, Zenon
    <3>4. s = r[1][1] /\ j = r[1][2]
      BY <2>1, <2>4, <3>2, Zenon
    <3>5. r[1] = <<s, j>>
      BY <3>1, <3>4, Zenon
    <3>6. QED
      BY <3>3, <3>5, Zenon
  <2>6. QED
    BY <1>2, <2>3, <2>5, Zenon
<1>6. ASSUME NEW p \in D PROVE \E q \in P : f[q] = p
  <2>1. /\ p[1] \in S /\ p[2] \in 1 .. d[p[1]] /\ p = <<p[1], p[2]>>
        /\ c[p[1]] \in Nat /\ d[p[1]] = u * c[p[1]]
    BY UnitMember
  <2>2. PICK k \in Nat : k = p[2] - 1
    BY <2>1
  <2>3. PICK a \in Nat, m \in 0 .. u - 1 : a = k \div u /\ k = u * a + m
    BY QuotientAndRest
  <2>4. a < c[p[1]]
    <3>1. k < c[p[1]] * u
      BY <2>1, <2>2
    <3>2. QED
      BY <2>1, <2>3, <3>1, BelowBlock
  <2>5. a + 1 \in 1 .. c[p[1]] /\ m + 1 \in 1 .. u
    BY <2>1, <2>3, <2>4
  <2>6. PICK q : q = <<<<p[1], a + 1>>, m + 1>>
    OBVIOUS
  <2>7. <<p[1], a + 1>> \in Units(c, S)
    BY <2>1, <2>5, UnitMember
  <2>8. q \in P
    BY <2>5, <2>6, <2>7
  <2>9. u * ((a + 1) - 1) + (m + 1) = p[2]
    BY <2>1, <2>2, <2>3
  <2>10. f[q] = <<p[1], u * ((a + 1) - 1) + (m + 1)>>
    BY <2>6, <2>8
  <2>11. QED
    BY <2>1, <2>8, <2>9, <2>10
<1>7. f \in [P -> D]
  BY <1>4
<1> HIDE DEF P, D, f
<1>8. IsFiniteSet(D) /\ Cardinality(D) = Cardinality(P)
  BY <1>1, <1>5, <1>6, <1>7, SameSize
<1>9. QED
  BY <1>1, <1>8 DEF D

-----------------------------------------------------------------------------
(* Recursion over 0 .. n.  A function that is defined from its value one    *)
(* before exists: partial ones grow step by step.                           *)

Steps(D, n) == [D \X (1 .. n) -> D]
Iterates(f, D, base, n, step) ==
  f \in [0 .. n -> D] /\ f[0] = base /\ \A k \in 1 .. n : f[k] = step[<<f[k - 1], k>>]

LEMMA RecursionExists ==
  ASSUME NEW D, NEW base \in D, NEW n \in Nat, NEW step \in Steps(D, n)
  PROVE  \E f : Iterates(f, D, base, n, step)
<1> DEFINE P(m) == \E f \in [0 .. m -> D] : \A k \in 0 .. m :
                     f[k] = IF k = 0 THEN base ELSE step[<<f[k - 1], k>>]
           Bad == {m \in 0 .. n : ~P(m)}
<1>1. P(0)
  <2>1. [k \in 0 .. 0 |-> base] \in [0 .. 0 -> D]
    OBVIOUS
  <2>2. \A k \in 0 .. 0 : [j \in 0 .. 0 |-> base][k] = base /\ k = 0
    OBVIOUS
  <2>3. QED
    BY <2>1, <2>2
<1>2. ASSUME NEW m \in 1 .. n, P(m - 1) PROVE P(m)
  <2>1. PICK g \in [0 .. m - 1 -> D] : \A k \in 0 .. m - 1 :
               g[k] = IF k = 0 THEN base ELSE step[<<g[k - 1], k>>]
    BY <1>2
  <2> DEFINE f == [k \in 0 .. m |-> IF k = m THEN step[<<g[m - 1], m>>] ELSE g[k]]
  <2>2. step[<<g[m - 1], m>>] \in D
    <3>1. m - 1 \in 0 .. m - 1
      OBVIOUS
    <3>2. g[m - 1] \in D
      BY <3>1
    <3>3. QED
      BY <3>2 DEF Steps
  <2>3. f \in [0 .. m -> D]
    BY <2>2
  <2>4. ASSUME NEW k \in 0 .. m
        PROVE  f[k] = IF k = 0 THEN base ELSE step[<<f[k - 1], k>>]
    <3>1. CASE k = m
      <4>1. f[k] = step[<<g[m - 1], m>>] /\ f[k - 1] = g[m - 1] /\ k # 0
        BY <3>1
      <4>2. QED
        BY <3>1, <4>1
    <3>2. CASE k # m
      <4>1. f[k] = g[k] /\ k \in 0 .. m - 1
        BY <3>2
      <4>2. k # 0 => f[k - 1] = g[k - 1]
        BY <3>2
      <4>3. QED
        BY <2>1, <4>1, <4>2
    <3>3. QED
      BY <3>1, <3>2
  <2>5. QED
    BY <2>3, <2>4
<1>3. Bad = {}
  <2>1. SUFFICES ASSUME Bad # {} PROVE FALSE
    OBVIOUS
  <2>2. Bad \in SUBSET Nat
    OBVIOUS
  <2>3. PICK m \in Bad : \A k \in Bad : m <= k
    BY <2>1, <2>2, LeastNatural
  <2>4. m \in 0 .. n /\ ~P(m)
    OBVIOUS
  <2>5. m # 0
    BY <1>1, <2>4
  <2>6. m \in 1 .. n /\ m - 1 \in 0 .. n /\ ~(m <= m - 1)
    BY <2>4, <2>5
  <2>7. m - 1 \notin Bad
    BY <2>3, <2>6
  <2>8. P(m - 1)
    BY <2>6, <2>7
  <2>9. QED
    BY <1>2, <2>4, <2>6, <2>8
<1>4. P(n)
  BY <1>3
<1>5. PICK f \in [0 .. n -> D] : \A k \in 0 .. n :
             f[k] = IF k = 0 THEN base ELSE step[<<f[k - 1], k>>]
  BY <1>4
<1>6. f[0] = base
  <2>1. 0 \in 0 .. n
    OBVIOUS
  <2>2. QED
    BY <1>5, <2>1
<1>7. ASSUME NEW k \in 1 .. n PROVE f[k] = step[<<f[k - 1], k>>]
  <2>1. k \in 0 .. n /\ k # 0
    OBVIOUS
  <2>2. f[k] = IF k = 0 THEN base ELSE step[<<f[k - 1], k>>]
    BY <1>5, <2>1
  <2>3. QED
    BY <2>1, <2>2
<1>8. QED
  BY <1>6, <1>7 DEF Iterates

\* What holds at 0 and passes on from each number to the next, as a set of
\* the numbers it holds of.
LEMMA StepByStep ==
  ASSUME NEW n \in Nat, NEW S, 0 \in S, \A k \in 1 .. n : k - 1 \in S => k \in S
  PROVE  \A k \in 0 .. n : k \in S
<1> DEFINE Bad == {m \in 0 .. n : m \notin S}
<1>1. SUFFICES ASSUME Bad # {} PROVE FALSE
  OBVIOUS
<1>2. Bad \in SUBSET Nat
  OBVIOUS
<1>3. PICK m \in Bad : \A k \in Bad : m <= k
  BY <1>1, <1>2, LeastNatural
<1>4. m \in 1 .. n /\ m \notin S /\ m - 1 \in 0 .. n /\ ~(m <= m - 1)
  <2>1. m \in 0 .. n /\ m \notin S /\ m # 0
    OBVIOUS
  <2>2. QED
    BY <2>1
<1>5. m - 1 \in S
  BY <1>3, <1>4
<1>6. QED
  BY <1>4, <1>5

-----------------------------------------------------------------------------
(* Blocks of n for m units, the last one perhaps not full.                  *)

LEMMA RoundedUp ==
  ASSUME NEW m \in Nat, NEW n \in Nat \ {0}, NEW c, c = (m + n - 1) \div n
  PROVE  /\ c \in Nat
         /\ \A k \in Nat : c <= k <=> m <= k * n
         /\ m > 0 => c > 0 /\ (c - 1) * n < m
         /\ m <= c * n
<1>1. PICK u \in Nat : u = (m + n) - 1
  OBVIOUS
<1>2. c = u \div n
  BY <1>1
<1>3. c \in Nat
  BY <1>2, QuotientAndRest
<1>4. ASSUME NEW k \in Nat PROVE c <= k <=> m <= k * n
  <2>1. u < (k + 1) * n <=> c < k + 1
    BY <1>2, BelowBlock
  <2>2. (k + 1) * n = k * n + n /\ k * n \in Nat
    OBVIOUS
  <2>3. QED
    BY <1>1, <1>3, <2>1, <2>2
<1>5. m <= c * n
  BY <1>3, <1>4
<1>6. ASSUME m > 0 PROVE c > 0 /\ (c - 1) * n < m
  <2>1. c # 0
    BY <1>3, <1>5, <1>6
  <2>2. PICK k \in Nat : k = c - 1
    BY <1>3, <2>1
  <2>3. ~(m <= k * n) /\ k * n \in Nat
    BY <1>3, <1>4, <2>2
  <2>4. QED
    BY <1>3, <2>1, <2>2, <2>3
<1>7. QED
  BY <1>3, <1>4, <1>5, <1>6

-----------------------------------------------------------------------------
(* Ranks. *)

Below(S, b) == {c \in S : c < b}
Rank(S, b) == Cardinality(Below(S, b))

LEMMA RankType ==
  ASSUME NEW S \in SUBSET Nat, IsFiniteSet(S), NEW b
  PROVE  /\ Below(S, b) \in SUBSET S /\ IsFiniteSet(Below(S, b))
         /\ Rank(S, b) \in Nat /\ Rank(S, b) <= Cardinality(S) /\ Cardinality(S) \in Nat
<1>1. Below(S, b) \in SUBSET S
  BY DEF Below
<1>2. IsFiniteSet(Below(S, b)) /\ Cardinality(Below(S, b)) <= Cardinality(S)
  BY <1>1, FS_Subset
<1>3. QED
  BY <1>1, <1>2, FS_CardinalityType DEF Rank

\* A block counts towards the rank of those above it.
LEMMA RankGrows ==
  ASSUME NEW S \in SUBSET Nat, IsFiniteSet(S), NEW a \in S, NEW b \in Nat, a < b
  PROVE  Rank(S, a) < Rank(S, b)
<1>1. Below(S, a) \cup {a} \in SUBSET Below(S, b)
  <2>1. \A c \in S : c < a => c < b
    OBVIOUS
  <2>2. QED
    BY <2>1 DEF Below
<1>2. IsFiniteSet(Below(S, a)) /\ IsFiniteSet(Below(S, b)) /\ a \notin Below(S, a)
  BY RankType DEF Below
<1>3. Cardinality(Below(S, a) \cup {a}) = Cardinality(Below(S, a)) + 1
  BY <1>2, FS_AddElement
<1>4. Cardinality(Below(S, a) \cup {a}) <= Cardinality(Below(S, b))
  BY <1>1, <1>2, FS_Subset
<1>5. Rank(S, a) \in Nat /\ Rank(S, b) \in Nat
  BY RankType
<1>6. QED
  BY <1>3, <1>4, <1>5 DEF Rank

LEMMA RankOrders ==
  ASSUME NEW S \in SUBSET Nat, IsFiniteSet(S), NEW a \in S, NEW b \in S
  PROVE  /\ Rank(S, a) < Rank(S, b) <=> a < b
         /\ Rank(S, a) = Rank(S, b) => a = b
<1>1. Rank(S, a) \in Nat /\ Rank(S, b) \in Nat
  BY RankType
<1>2. a < b => Rank(S, a) < Rank(S, b)
  BY RankGrows
<1>3. b < a => Rank(S, b) < Rank(S, a)
  BY RankGrows
<1>4. QED
  BY <1>1, <1>2, <1>3

LEMMA RankBelowSize ==
  ASSUME NEW S \in SUBSET Nat, IsFiniteSet(S), NEW a \in S
  PROVE  Rank(S, a) \in 0 .. Cardinality(S) - 1
<1>1. Below(S, a) \in SUBSET S /\ Below(S, a) # S
  BY DEF Below
<1>2. Cardinality(Below(S, a)) <= Cardinality(S) /\ Cardinality(S) # Cardinality(Below(S, a))
  BY <1>1, FS_Subset
<1>3. QED
  BY <1>2, RankType DEF Rank

\* Every rank is taken.
LEMMA RankIsTaken ==
  ASSUME NEW S \in SUBSET Nat, IsFiniteSet(S), NEW k \in 0 .. Cardinality(S) - 1
  PROVE  \E a \in S : Rank(S, a) = k
<1>1. SUFFICES ASSUME \A a \in S : Rank(S, a) # k PROVE FALSE
  OBVIOUS
<1> DEFINE n == Cardinality(S)
           T == (0 .. n - 1) \ {k}
           f == [a \in S |-> Rank(S, a)]
<1>2. n \in Nat
  BY FS_CardinalityType
<1>3. IsFiniteSet(0 .. n - 1) /\ Cardinality(0 .. n - 1) = n
  BY <1>2, FS_Interval
<1>4. IsFiniteSet(T) /\ Cardinality(T) = n - 1
  BY <1>3, FS_RemoveElement
<1>5. f \in [S -> T]
  BY <1>1, RankBelowSize
<1>6. Cardinality(T) < Cardinality(S)
  BY <1>2, <1>4
<1> HIDE DEF T, f
<1>7. PICK a \in S, b \in S : a # b /\ f[a] = f[b]
  BY <1>4, <1>5, <1>6, FS_PigeonHole
<1>8. Rank(S, a) = Rank(S, b)
  BY <1>7 DEF f
<1>9. QED
  BY <1>7, <1>8, RankOrders

LEMMA GreatestOfFinite ==
  ASSUME NEW S \in SUBSET Nat, IsFiniteSet(S), S # {}
  PROVE  \E m \in S : \A k \in S : k <= m
<1>1. Cardinality(S) \in Nat /\ Cardinality(S) > 0
  BY NonEmptyIsPositive
<1>2. Cardinality(S) - 1 \in 0 .. Cardinality(S) - 1
  BY <1>1
<1>3. PICK m \in S : Rank(S, m) = Cardinality(S) - 1
  BY <1>2, RankIsTaken
<1>4. ASSUME NEW k \in S PROVE k <= m
  <2>1. Rank(S, k) \in 0 .. Cardinality(S) - 1
    BY RankBelowSize
  <2>2. ~(Rank(S, m) < Rank(S, k))
    BY <1>1, <1>3, <2>1
  <2>3. ~(m < k)
    BY <2>2, RankOrders
  <2>4. QED
    BY <2>3
<1>5. QED
  BY <1>4

-----------------------------------------------------------------------------
(* Lowest and Nth. *)

LEMMA LowestByRank ==
  ASSUME NEW S, NEW n
  PROVE  Lowest(n, S) = {b \in S : Rank(S, b) < n}
BY DEF Lowest, Rank, Below

\* The lowest blocks are among those on offer and before the others.
LEMMA LowestComeFirst ==
  ASSUME NEW S \in SUBSET Nat, IsFiniteSet(S), NEW n \in Nat
  PROVE  /\ Lowest(n, S) \in SUBSET S
         /\ \A a \in Lowest(n, S), b \in S \ Lowest(n, S) : a < b
<1>1. ASSUME NEW a \in Lowest(n, S), NEW b \in S \ Lowest(n, S) PROVE a < b
  <2>1. a \in S /\ b \in S /\ Rank(S, a) < n /\ ~(Rank(S, b) < n)
    BY LowestByRank
  <2>2. Rank(S, a) \in Nat /\ Rank(S, b) \in Nat
    BY RankType
  <2>3. Rank(S, a) < Rank(S, b)
    BY <2>1, <2>2
  <2>4. QED
    BY <2>1, <2>3, RankOrders
<1>2. QED
  BY <1>1, LowestByRank

\* As many as asked for, if there are so many.
LEMMA LowestSize ==
  ASSUME NEW S \in SUBSET Nat, IsFiniteSet(S), NEW n \in Nat
  PROVE  /\ IsFiniteSet(Lowest(n, S)) /\ Cardinality(Lowest(n, S)) \in Nat
         /\ Cardinality(Lowest(n, S)) <= n
         /\ n <= Cardinality(S) => Cardinality(Lowest(n, S)) = n
         /\ Cardinality(S) <= n => Lowest(n, S) = S
<1> DEFINE L == Lowest(n, S)
           f == [a \in L |-> Rank(S, a)]
<1>1. L \in SUBSET S /\ \A a \in L : Rank(S, a) \in 0 .. n - 1
  BY LowestByRank, RankType
<1>2. IsFiniteSet(L) /\ Cardinality(L) \in Nat
  BY <1>1, FS_Subset, FS_CardinalityType
<1>3. \A a, b \in L : f[a] = f[b] => a = b
  BY <1>1, RankOrders
<1>4. IsFiniteSet(0 .. n - 1) /\ Cardinality(0 .. n - 1) = n
  BY FS_Interval
<1>5. Cardinality(L) <= n
  <2>1. f \in Injection(L, 0 .. n - 1)
    BY <1>1, <1>3 DEF Injection, IsInjective
  <2>2. QED
    BY <1>4, <2>1, FS_Injection
<1>6. ASSUME n <= Cardinality(S) PROVE Cardinality(L) = n
  <2>1. \A k \in 0 .. n - 1 : \E a \in L : f[a] = k
    <3>1. SUFFICES ASSUME NEW k \in 0 .. n - 1 PROVE \E a \in L : f[a] = k
      OBVIOUS
    <3>2. k \in 0 .. Cardinality(S) - 1
      BY <1>6, FS_CardinalityType
    <3>3. PICK a \in S : Rank(S, a) = k
      BY <3>2, RankIsTaken
    <3>4. a \in L
      BY <3>3, LowestByRank
    <3>5. QED
      BY <3>3, <3>4
  <2>2. f \in [L -> 0 .. n - 1]
    BY <1>1
  <2>3. QED
    BY <1>2, <1>3, <1>4, <2>1, <2>2, SameSize
<1>7. ASSUME Cardinality(S) <= n PROVE L = S
  <2>1. \A a \in S : Rank(S, a) < n
    <3>1. SUFFICES ASSUME NEW a \in S PROVE Rank(S, a) < n
      OBVIOUS
    <3>2. Rank(S, a) \in 0 .. Cardinality(S) - 1 /\ Cardinality(S) \in Nat
      BY RankBelowSize, FS_CardinalityType
    <3>3. QED
      BY <1>7, <3>2
  <2>2. QED
    BY <2>1, LowestByRank
<1>8. QED
  BY <1>2, <1>5, <1>6, <1>7

\* The k-th block is one, and different k name different blocks.
LEMMA NthMember ==
  ASSUME NEW S \in SUBSET Nat, IsFiniteSet(S), NEW k \in 1 .. Cardinality(S)
  PROVE  Nth(S, k) \in S /\ Rank(S, Nth(S, k)) = k - 1
<1>1. k - 1 \in 0 .. Cardinality(S) - 1
  BY FS_CardinalityType
<1>2. \E b \in S : Rank(S, b) = k - 1
  BY <1>1, RankIsTaken
<1>3. Nth(S, k) = CHOOSE b \in S : Rank(S, b) = k - 1
  BY DEF Nth, Rank, Below
<1>4. QED
  BY <1>2, <1>3

LEMMA NthOrders ==
  ASSUME NEW S \in SUBSET Nat, IsFiniteSet(S),
         NEW i \in 1 .. Cardinality(S), NEW j \in 1 .. Cardinality(S), i < j
  PROVE  Nth(S, i) < Nth(S, j)
<1>1. Nth(S, i) \in S /\ Nth(S, j) \in S /\ Rank(S, Nth(S, i)) = i - 1 /\ Rank(S, Nth(S, j)) = j - 1
  BY NthMember
<1>2. i - 1 < j - 1
  BY FS_CardinalityType
<1>3. QED
  BY <1>1, <1>2, RankOrders

\* Every block is the k-th for some k.
LEMMA NthIsOnto ==
  ASSUME NEW S \in SUBSET Nat, IsFiniteSet(S), NEW b \in S
  PROVE  \E k \in 1 .. Cardinality(S) : Nth(S, k) = b
<1>1. Rank(S, b) \in 0 .. Cardinality(S) - 1 /\ Cardinality(S) \in Nat
  BY RankBelowSize, FS_CardinalityType
<1>2. PICK k \in 1 .. Cardinality(S) : k = Rank(S, b) + 1
  BY <1>1
<1>3. Nth(S, k) \in S /\ Rank(S, Nth(S, k)) = k - 1
  BY NthMember
<1>4. Rank(S, Nth(S, k)) = Rank(S, b)
  BY <1>1, <1>2, <1>3
<1>5. QED
  BY <1>3, <1>4, RankOrders
-----------------------------------------------------------------------------
(* RunsOf. *)

\* What RunsOf computes on its way, under names.
Begins(S, F, b) == b \in S /\ (b - 1 \notin S \/ b \in F)
HeadOf(S, F, b) == CHOOSE h \in S : h <= b /\ Begins(S, F, h) /\ \A c \in h + 1 .. b : ~Begins(S, F, c)
Starts(S, F, n) == {b \in S : (b - HeadOf(S, F, b)) % n = 0}
Stretch(S, F, n, b) == {c \in S : c >= b /\ Starts(S, F, n) \cap (b + 1 .. c) = {}}

LEMMA RunsInFull ==
  ASSUME NEW S, NEW F, NEW n
  PROVE  RunsOf(S, F, n) =
           [i \in 1 .. Cardinality(Starts(S, F, n)) |->
              [start |-> Nth(Starts(S, F, n), i),
               len   |-> Cardinality(Stretch(S, F, n, Nth(Starts(S, F, n), i)))]]
BY DEF RunsOf, Begins, HeadOf, Starts, Stretch

\* A block after a gap, or one of F, starts a run.
LEMMA BeginningStarts ==
  ASSUME NEW S \in SUBSET Nat, NEW F, NEW n \in Nat \ {0}, NEW b \in S, Begins(S, F, b)
  PROVE  b \in Starts(S, F, n)
<1>1. b <= b /\ \A c \in b + 1 .. b : ~Begins(S, F, c)
  OBVIOUS
<1>2. \A h \in S : h <= b /\ (\A c \in h + 1 .. b : ~Begins(S, F, c)) => h = b
  OBVIOUS
<1>3. HeadOf(S, F, b) = b
  BY <1>1, <1>2 DEF HeadOf
<1>4. (b - b) % n = 0
  OBVIOUS
<1>5. QED
  BY <1>3, <1>4 DEF Starts

\* So between a start and a block the stretch reaches there is no gap.
LEMMA StretchHasNoGap ==
  ASSUME NEW S \in SUBSET Nat, NEW F, NEW n \in Nat \ {0}, NEW b \in S,
         NEW c \in Stretch(S, F, n, b), NEW d \in b .. c
  PROVE  d \in Stretch(S, F, n, b)
<1>1. c \in S /\ c \in Nat /\ b \in Nat /\ d \in Nat /\ b <= d /\ d <= c
      /\ Starts(S, F, n) \cap (b + 1 .. c) = {}
  BY DEF Stretch
<1>2. d \in S
  <2>1. SUFFICES ASSUME d \notin S PROVE FALSE
    OBVIOUS
  <2>2. b < d
    <3>1. b # d
      BY <2>1
    <3>2. QED
      BY <1>1, <3>1
  <2>3. PICK e \in S : e > d /\ \A k \in S : k > d => e <= k
    <3>1. c > d
      <4>1. c # d
        BY <1>1, <2>1
      <4>2. QED
        BY <1>1, <4>1
    <3>2. {k \in S : k > d} \in SUBSET Nat /\ {k \in S : k > d} # {}
      BY <1>1, <3>1
    <3>3. PICK e \in {k \in S : k > d} : \A k \in {k \in S : k > d} : e <= k
      BY <3>2, LeastNatural
    <3>4. QED
      BY <3>3
  <2>4. e - 1 \notin S
    <3>1. SUFFICES ASSUME e - 1 \in S PROVE FALSE
      OBVIOUS
    <3>2. e - 1 # d
      BY <2>1, <3>1
    <3>3. e \in Nat /\ e - 1 > d
      BY <1>1, <2>3, <3>2
    <3>4. e <= e - 1
      BY <2>3, <3>1, <3>3
    <3>5. QED
      BY <3>3, <3>4
  <2>5. e \in Starts(S, F, n)
    BY <2>4, BeginningStarts DEF Begins
  <2>6. e \in b + 1 .. c
    <3>1. e \in Nat /\ e <= c
      <4>1. c > d
        <5>1. c # d
          BY <1>1, <2>1
        <5>2. QED
          BY <1>1, <5>1
      <4>2. QED
        BY <1>1, <2>3, <4>1
    <3>2. QED
      BY <1>1, <2>2, <2>3, <3>1
  <2>7. QED
    BY <1>1, <2>5, <2>6
<1>3. b + 1 .. d \in SUBSET (b + 1 .. c)
  BY <1>1
<1>4. QED
  BY <1>1, <1>2, <1>3 DEF Stretch

\* A finite stretch is all blocks from its start on.
LEMMA StretchIsInterval ==
  ASSUME NEW S \in SUBSET Nat, IsFiniteSet(S), NEW F, NEW n \in Nat \ {0}, NEW b \in S
  PROVE  /\ Stretch(S, F, n, b) = b .. b + Cardinality(Stretch(S, F, n, b)) - 1
         /\ Cardinality(Stretch(S, F, n, b)) \in Nat \ {0}
<1> DEFINE C == Stretch(S, F, n, b)
<1>1. C \in SUBSET S /\ C \in SUBSET Nat /\ \A c \in C : b <= c
  BY DEF Stretch
<1>2. IsFiniteSet(C) /\ Cardinality(C) \in Nat
  BY <1>1, FS_Subset, FS_CardinalityType
<1>3. b \in C
  <2>1. b + 1 .. b = {}
    OBVIOUS
  <2>2. QED
    BY <2>1 DEF Stretch
<1>4. PICK m \in C : \A c \in C : c <= m
  BY <1>1, <1>2, <1>3, GreatestOfFinite
<1>5. b \in Nat /\ m \in Nat /\ b <= m
  BY <1>1, <1>3
<1>6. \A d \in b .. m : d \in C
  BY StretchHasNoGap
<1>7. \A c \in C : c \in b .. m
  BY <1>1, <1>4, <1>5
<1> HIDE DEF C
<1>8. C = b .. m
  BY <1>6, <1>7
<1>9. Cardinality(b .. m) = m - b + 1
  BY <1>5, FS_Interval
<1>10. C = b .. b + Cardinality(C) - 1 /\ Cardinality(C) # 0
  BY <1>5, <1>8, <1>9
<1>11. QED
  BY <1>2, <1>10 DEF C

\* Different stretches share no block.
LEMMA StretchesApart ==
  ASSUME NEW S \in SUBSET Nat, NEW F, NEW n \in Nat \ {0},
         NEW a \in Starts(S, F, n), NEW b \in Starts(S, F, n), a # b
  PROVE  Stretch(S, F, n, a) \cap Stretch(S, F, n, b) = {}
<1>1. a \in Nat /\ b \in Nat
  BY DEF Starts
<1>2. SUFFICES ASSUME NEW c \in Stretch(S, F, n, a), c \in Stretch(S, F, n, b) PROVE FALSE
  OBVIOUS
<1>3. /\ c \in Nat /\ a <= c /\ b <= c
      /\ Starts(S, F, n) \cap (a + 1 .. c) = {} /\ Starts(S, F, n) \cap (b + 1 .. c) = {}
  BY <1>2 DEF Stretch
<1>4. b \in a + 1 .. c \/ a \in b + 1 .. c
  BY <1>1, <1>3
<1>5. QED
  BY <1>3, <1>4

\* Every block is in the stretch of the last start before it.
LEMMA StretchesCover ==
  ASSUME NEW S \in SUBSET Nat, IsFiniteSet(S), NEW F, NEW n \in Nat \ {0}, NEW c \in S
  PROVE  \E b \in Starts(S, F, n) : c \in Stretch(S, F, n, b)
<1>1. PICK m \in Nat : m <= c /\ m .. c \in SUBSET S /\ \A k \in Nat : k .. c \in SUBSET S => m <= k
  <2> DEFINE M == {m \in Nat : m <= c /\ m .. c \in SUBSET S}
  <2>1. c \in Nat /\ c .. c = {c}
    OBVIOUS
  <2>2. M \in SUBSET Nat /\ M # {}
    BY <2>1
  <2>3. PICK m \in M : \A k \in M : m <= k
    BY <2>2, LeastNatural
  <2>4. ASSUME NEW k \in Nat, k .. c \in SUBSET S PROVE m <= k
    <3>1. CASE k <= c
      BY <2>3, <2>4, <3>1
    <3>2. CASE ~(k <= c)
      BY <2>1, <2>3, <3>2
    <3>3. QED
      BY <3>1, <3>2
  <2>5. QED
    BY <2>3, <2>4
<1>2. m \in S
  <2>1. m \in m .. c
    BY <1>1
  <2>2. QED
    BY <1>1, <2>1
<1>3. m - 1 \notin S
  <2>1. SUFFICES ASSUME m - 1 \in S PROVE FALSE
    OBVIOUS
  <2>2. m - 1 \in Nat
    BY <2>1
  <2>3. ASSUME NEW k \in m - 1 .. c PROVE k \in S
    <3>1. k = m - 1 \/ k \in m .. c
      BY <1>1, <2>2
    <3>2. QED
      BY <1>1, <2>1, <3>1
  <2>4. m <= m - 1
    BY <1>1, <2>2, <2>3
  <2>5. QED
    BY <2>2, <2>4
<1>4. m \in Starts(S, F, n)
  BY <1>2, <1>3, BeginningStarts DEF Begins
<1> DEFINE B == {b \in Starts(S, F, n) : b <= c}
<1>5. B \in SUBSET Nat /\ B # {} /\ B \in SUBSET S
  BY <1>1, <1>4 DEF Starts
<1>6. IsFiniteSet(B)
  BY <1>5, FS_Subset
<1>7. PICK b \in B : \A k \in B : k <= b
  BY <1>5, <1>6, GreatestOfFinite
<1>8. ASSUME NEW k \in Starts(S, F, n), k \in b + 1 .. c PROVE FALSE
  <2>1. k \in B
    BY <1>8
  <2>2. b \in Nat /\ k \in Nat /\ k <= b
    BY <1>5, <1>7, <2>1
  <2>3. QED
    BY <1>8, <2>2
<1>9. c \in Stretch(S, F, n, b)
  BY <1>5, <1>7, <1>8 DEF Stretch
<1>10. QED
  BY <1>9

\* What it is for runs to tile a set of blocks: they are in it, in ascending
\* order and apart, and leave none of it out.
Tiles(runs, S) ==
  /\ runs \in Seq(Run)
  /\ \A i \in DOMAIN runs : BlocksOf(runs[i]) \in SUBSET S
  /\ \A i, j \in DOMAIN runs : i < j => RunEnd(runs[i]) <= runs[j].start
  /\ \A c \in S : \E i \in DOMAIN runs : c \in BlocksOf(runs[i])

\* A run from b as long as the stretch of b is that stretch.
LEMMA RunOfStretch ==
  ASSUME NEW S \in SUBSET Nat, IsFiniteSet(S), NEW F, NEW n \in Nat \ {0}, NEW b \in Starts(S, F, n),
         NEW r, r = [start |-> b, len |-> Cardinality(Stretch(S, F, n, b))]
  PROVE  /\ r \in Run /\ r.start = b
         /\ BlocksOf(r) = Stretch(S, F, n, b)
<1>1. b \in S /\ b \in Nat
  BY DEF Starts
<1>2. PICK len \in Nat \ {0} : /\ len = Cardinality(Stretch(S, F, n, b))
                               /\ Stretch(S, F, n, b) = b .. b + len - 1
  BY <1>1, StretchIsInterval
<1>3. r \in Run /\ r.start = b /\ r.len = len
  BY <1>1, <1>2 DEF Run
<1>4. (b + len) - 1 = b + len - 1
  BY <1>1
<1>5. QED
  BY <1>2, <1>3, <1>4 DEF BlocksOf, RunEnd

\* A run that starts before another and is apart from it ends before it.
LEMMA ApartAscend ==
  ASSUME NEW q \in Run, NEW r \in Run, q.start < r.start, BlocksOf(q) \cap BlocksOf(r) = {}
  PROVE  RunEnd(q) <= r.start
<1>1. /\ q.start \in Nat /\ q.len \in Nat \ {0} /\ RunEnd(q) = q.start + q.len
      /\ r.start \in Nat /\ r.len \in Nat \ {0} /\ RunEnd(r) = r.start + r.len
      /\ BlocksOf(q) = q.start .. RunEnd(q) - 1 /\ BlocksOf(r) = r.start .. RunEnd(r) - 1
  BY DEF Run, RunEnd, BlocksOf
<1>2. r.start \in BlocksOf(r)
  BY <1>1
<1>3. r.start \notin BlocksOf(q)
  BY <1>2
<1>4. QED
  BY <1>1, <1>3

LEMMA SequenceOf ==
  ASSUME NEW R, NEW m \in Nat, NEW f \in [1 .. m -> R]
  PROVE  f \in Seq(R)
OBVIOUS

LEMMA RunsTile ==
  ASSUME NEW S \in SUBSET Nat, IsFiniteSet(S), NEW F, NEW n \in Nat \ {0}
  PROVE  Tiles(RunsOf(S, F, n), S)
<1> DEFINE T == Starts(S, F, n)
           runs == RunsOf(S, F, n)
<1>1. T \in SUBSET S /\ T \in SUBSET Nat
  BY DEF Starts
<1>2. IsFiniteSet(T) /\ Cardinality(T) \in Nat
  BY <1>1, FS_Subset, FS_CardinalityType
<1>3. /\ runs = [i \in 1 .. Cardinality(T) |->
                   [start |-> Nth(T, i), len |-> Cardinality(Stretch(S, F, n, Nth(T, i)))]]
  BY RunsInFull
<1>4. DOMAIN runs = 1 .. Cardinality(T)
  BY <1>3
<1>5. ASSUME NEW i \in DOMAIN runs
      PROVE  /\ Nth(T, i) \in T /\ runs[i].start = Nth(T, i)
             /\ runs[i] \in Run
             /\ BlocksOf(runs[i]) = Stretch(S, F, n, Nth(T, i))
  <2>1. Nth(T, i) \in T
    BY <1>1, <1>2, <1>4, NthMember
  <2>2. runs[i] = [start |-> Nth(T, i), len |-> Cardinality(Stretch(S, F, n, Nth(T, i)))]
    BY <1>3, <1>4
  <2>3. QED
    BY <2>1, <2>2, RunOfStretch
<1> HIDE DEF T, runs
<1>6. runs \in Seq(Run)
  <2>1. runs = [i \in 1 .. Cardinality(T) |-> runs[i]]
    BY <1>3
  <2>2. \A i \in 1 .. Cardinality(T) : runs[i] \in Run
    BY <1>4, <1>5
  <2>3. PICK m \in Nat : m = Cardinality(T)
    BY <1>2
  <2>4. runs \in [1 .. m -> Run]
    BY <2>1, <2>2, <2>3
  <2>5. QED
    BY <2>4, SequenceOf
<1>7. ASSUME NEW i \in DOMAIN runs PROVE BlocksOf(runs[i]) \in SUBSET S
  BY <1>5 DEF Stretch
<1>8. ASSUME NEW i \in DOMAIN runs, NEW j \in DOMAIN runs, i < j
      PROVE  RunEnd(runs[i]) <= runs[j].start
  <2>1. Nth(T, i) < Nth(T, j)
    BY <1>1, <1>2, <1>4, <1>8, NthOrders
  <2>2. Nth(T, i) # Nth(T, j) /\ Nth(T, i) \in T /\ Nth(T, j) \in T
    <3>1. Nth(T, i) \in T /\ Nth(T, j) \in T
      BY <1>5, Zenon
    <3>2. Nth(T, i) \in Nat
      BY <1>1, <3>1
    <3>3. Nth(T, i) # Nth(T, j)
      BY <2>1, <3>2
    <3>4. QED
      BY <3>1, <3>3
  <2>3. BlocksOf(runs[i]) \cap BlocksOf(runs[j]) = {}
    BY <1>5, <2>2, StretchesApart DEF T
  <2>4. runs[i] \in Run /\ runs[j] \in Run /\ runs[i].start < runs[j].start
    BY <1>5, <2>1
  <2>5. QED
    BY <2>3, <2>4, ApartAscend
<1>9. ASSUME NEW c \in S PROVE \E i \in DOMAIN runs : c \in BlocksOf(runs[i])
  <2>1. PICK b \in T : c \in Stretch(S, F, n, b)
    BY StretchesCover DEF T
  <2>2. PICK i \in 1 .. Cardinality(T) : Nth(T, i) = b
    BY <1>1, <1>2, NthIsOnto
  <2>3. QED
    BY <1>4, <1>5, <2>1, <2>2
<1>10. QED
  BY <1>6, <1>7, <1>8, <1>9 DEF Tiles, runs
-----------------------------------------------------------------------------
(* How long runs are. *)

\* Every block has the beginning of its run-up behind it, and only one.
LEMMA HeadExists ==
  ASSUME NEW S \in SUBSET Nat, IsFiniteSet(S), NEW F, NEW b \in S
  PROVE  /\ HeadOf(S, F, b) \in S /\ HeadOf(S, F, b) <= b /\ Begins(S, F, HeadOf(S, F, b))
         /\ \A c \in HeadOf(S, F, b) + 1 .. b : ~Begins(S, F, c)
<1> DEFINE M == {m \in Nat : m <= b /\ m .. b \in SUBSET S}
           B == {c \in S : c <= b /\ Begins(S, F, c)}
<1>1. PICK m \in M : \A k \in M : m <= k
  <2>1. b \in Nat /\ b .. b = {b}
    OBVIOUS
  <2>2. M \in SUBSET Nat /\ M # {}
    BY <2>1
  <2>3. QED
    BY <2>2, LeastNatural
<1>2. m \in S /\ m <= b /\ b \in Nat
  <2>1. m \in m .. b /\ m \in Nat /\ m <= b
    BY <1>1
  <2>2. QED
    BY <1>1, <2>1
<1>3. m - 1 \notin S
  <2>1. SUFFICES ASSUME m - 1 \in S PROVE FALSE
    OBVIOUS
  <2>2. m - 1 \in Nat
    BY <2>1
  <2>3. ASSUME NEW k \in m - 1 .. b PROVE k \in S
    <3>1. k = m - 1 \/ k \in m .. b
      BY <1>2, <2>2
    <3>2. QED
      BY <1>1, <2>1, <3>1
  <2>4. m - 1 \in M
    BY <1>2, <2>2, <2>3
  <2>5. QED
    BY <1>1, <2>2, <2>4
<1>4. B \in SUBSET S /\ B \in SUBSET Nat /\ B # {}
  BY <1>2, <1>3 DEF Begins
<1>5. IsFiniteSet(B)
  BY <1>4, FS_Subset
<1>6. PICK h \in B : \A k \in B : k <= h
  BY <1>4, <1>5, GreatestOfFinite
<1>7. ASSUME NEW c \in h + 1 .. b, Begins(S, F, c) PROVE FALSE
  <2>1. c \in B
    BY <1>7 DEF Begins
  <2>2. c <= h /\ h \in Nat /\ c \in Nat
    BY <1>4, <1>6, <2>1
  <2>3. QED
    BY <1>7, <2>2
<1>8. h \in S /\ h <= b /\ Begins(S, F, h) /\ \A c \in h + 1 .. b : ~Begins(S, F, c)
  BY <1>6, <1>7
<1>9. QED
  BY <1>8 DEF HeadOf

\* A number n after a multiple of n is one.
LEMMA NextMultiple ==
  ASSUME NEW n \in Nat \ {0}, NEW x \in Nat, x % n = 0
  PROVE  (x + n) % n = 0
<1>1. PICK q \in Nat : q = x \div n /\ x = n * q + 0
  BY QuotientAndRest
<1>2. PICK d \in Nat, m \in 0 .. n - 1 : m = (x + n) % n /\ x + n = n * d + m
  <2>1. x + n \in Nat
    OBVIOUS
  <2>2. QED
    BY <2>1, QuotientAndRest, ZenonT(30)
<1>3. n * (q + 1) = n * q + n /\ q + 1 \in Nat /\ n * q \in Nat /\ n * d \in Nat
  OBVIOUS
<1>4. n * d + (m + 1) = n * (q + 1) + 1
  BY <1>1, <1>2, <1>3
<1>5. m + 1 \in 1 .. n /\ 1 \in 1 .. n
  OBVIOUS
<1>6. m + 1 = 1
  BY <1>3, <1>4, <1>5, OneQuotient
<1>7. QED
  BY <1>2, <1>6

\* No stretch is longer than asked for: n blocks on, the next would start.
LEMMA StretchIsShort ==
  ASSUME NEW S \in SUBSET Nat, IsFiniteSet(S), NEW F, NEW n \in Nat \ {0}, NEW b \in Starts(S, F, n)
  PROVE  Cardinality(Stretch(S, F, n, b)) <= n
<1>1. b \in S /\ b \in Nat /\ (b - HeadOf(S, F, b)) % n = 0
  BY DEF Starts
<1>2. PICK k \in Nat \ {0} : k = Cardinality(Stretch(S, F, n, b)) /\ Stretch(S, F, n, b) = b .. b + k - 1
  BY <1>1, StretchIsInterval
<1>3. SUFFICES ASSUME n < k PROVE FALSE
  BY <1>2
<1>4. PICK c \in Nat : c = b + n /\ c \in Stretch(S, F, n, b)
  <2>1. b + n \in Nat /\ b + n \in b .. b + k - 1
    BY <1>1, <1>2, <1>3
  <2>2. b + n \in Stretch(S, F, n, b)
    BY <1>2, <2>1, Zenon
  <2>3. QED
    BY <2>1, <2>2
<1>5. c \in S /\ Starts(S, F, n) \cap (b + 1 .. c) = {}
  BY <1>4 DEF Stretch
<1>6. PICK h : h = HeadOf(S, F, b)
  OBVIOUS
<1>7. /\ h \in S /\ h \in Nat /\ h <= b /\ Begins(S, F, h)
      /\ \A d \in h + 1 .. b : ~Begins(S, F, d)
  BY <1>1, <1>6, HeadExists
<1>8. ASSUME NEW d \in h + 1 .. c, Begins(S, F, d) PROVE FALSE
  <2>1. d \in S
    BY <1>8 DEF Begins
  <2>2. d \in Starts(S, F, n)
    BY <1>8, <2>1, BeginningStarts
  <2>3. ~(d <= b)
    BY <1>1, <1>7, <1>8
  <2>4. d \in b + 1 .. c
    BY <1>1, <1>4, <1>7, <2>3
  <2>5. QED
    BY <1>5, <2>2, <2>4
<1>9. PICK e : e = HeadOf(S, F, c)
  OBVIOUS
<1>10. e \in Nat /\ e <= c /\ Begins(S, F, e) /\ \A d \in e + 1 .. c : ~Begins(S, F, d)
  BY <1>5, <1>9, HeadExists
<1>11. e = h
  <2>1. ~(h < e)
    <3>1. h < e => e \in h + 1 .. c
      BY <1>4, <1>7, <1>10
    <3>2. QED
      BY <1>8, <1>10, <3>1
  <2>2. ~(e < h)
    <3>1. e < h => h \in e + 1 .. c
      BY <1>1, <1>4, <1>7, <1>10
    <3>2. QED
      BY <1>7, <1>10, <3>1
  <2>3. QED
    BY <1>7, <1>10, <2>1, <2>2
<1>12. (c - h) % n = 0
  <2>1. b - h \in Nat /\ (b - h) % n = 0
    BY <1>1, <1>6, <1>7
  <2>2. ((b - h) + n) % n = 0
    BY <2>1, NextMultiple
  <2>3. (b - h) + n = c - h
    BY <1>1, <1>4, <1>7
  <2>4. QED
    BY <2>2, <2>3
<1>13. c \in Starts(S, F, n)
  BY <1>5, <1>9, <1>11, <1>12 DEF Starts
<1>14. c \in b + 1 .. c
  BY <1>1, <1>4
<1>15. QED
  BY <1>5, <1>13, <1>14

LEMMA RunsAreShort ==
  ASSUME NEW S \in SUBSET Nat, IsFiniteSet(S), NEW F, NEW n \in Nat \ {0}, NEW i \in DOMAIN RunsOf(S, F, n)
  PROVE  RunsOf(S, F, n)[i].len <= n
<1> DEFINE T == Starts(S, F, n)
<1>1. T \in SUBSET S /\ T \in SUBSET Nat
  BY DEF Starts
<1>2. IsFiniteSet(T)
  BY <1>1, FS_Subset
<1>3. RunsOf(S, F, n) = [k \in 1 .. Cardinality(T) |->
                           [start |-> Nth(T, k), len |-> Cardinality(Stretch(S, F, n, Nth(T, k)))]]
  BY RunsInFull
<1>4. i \in 1 .. Cardinality(T)
  BY <1>3
<1>5. RunsOf(S, F, n)[i].len = Cardinality(Stretch(S, F, n, Nth(T, i)))
  BY <1>3, <1>4
<1>6. Nth(T, i) \in T
  <2> HIDE DEF T
  <2>1. QED
    BY <1>1, <1>2, <1>4, NthMember
<1>7. QED
  BY <1>5, <1>6, StretchIsShort

-----------------------------------------------------------------------------
(* Sizes. *)

\* Together, sets that are apart have as many members as they have each.
LEMMA SizeOfParts ==
  ASSUME NEW S, IsFiniteSet(S), NEW part,
         \A s \in S : part[s] \in SUBSET Nat /\ IsFiniteSet(part[s]),
         \A s, t \in S : s # t => part[s] \cap part[t] = {},
         NEW g, \A s \in S : g[s] = Cardinality(part[s])
  PROVE  /\ IsFiniteSet(UNION {part[s] : s \in S})
         /\ Cardinality(UNION {part[s] : s \in S}) = SumOf(g, S)
<1> DEFINE P == Units(g, S)
           W == UNION {part[s] : s \in S}
           f == [p \in P |-> Nth(part[p[1]], p[2])]
<1>1. \A s \in S : g[s] \in Nat
  BY FS_CardinalityType
<1>2. IsFiniteSet(P) /\ Cardinality(P) \in Nat
  BY <1>1, UnitsFinite
<1>3. ASSUME NEW p \in P
      PROVE  /\ p[1] \in S /\ p[2] \in 1 .. Cardinality(part[p[1]]) /\ p = <<p[1], p[2]>>
             /\ f[p] = Nth(part[p[1]], p[2]) /\ f[p] \in part[p[1]]
  <2>1. p[1] \in S /\ p[2] \in 1 .. g[p[1]] /\ p = <<p[1], p[2]>>
    BY UnitMember
  <2>2. p[2] \in 1 .. Cardinality(part[p[1]])
    BY <2>1
  <2>3. Nth(part[p[1]], p[2]) \in part[p[1]]
    BY <2>1, <2>2, NthMember
  <2>4. QED
    BY <2>1, <2>2, <2>3
<1>4. \A p \in P : f[p] \in W
  BY <1>3
<1>5. f \in [P -> W]
  BY <1>4
<1>6. ASSUME NEW p \in P, NEW q \in P, f[p] = f[q] PROVE p = q
  <2>1. p[1] = q[1]
    BY <1>3, <1>6
  <2>2. PICK T, i, j : T = part[p[1]] /\ i = p[2] /\ j = q[2]
    OBVIOUS
  <2>3. /\ T \in SUBSET Nat /\ IsFiniteSet(T) /\ i \in 1 .. Cardinality(T) /\ j \in 1 .. Cardinality(T)
        /\ Nth(T, i) = Nth(T, j)
    BY <1>3, <1>6, <2>1, <2>2, Zenon
  <2>4. Cardinality(T) \in Nat
    BY <2>3, FS_CardinalityType
  <2>5. Nth(T, i) \in Nat
    BY <2>3, NthMember
  <2>6. i < j => Nth(T, i) < Nth(T, j)
    BY <2>3, NthOrders
  <2>7. j < i => Nth(T, j) < Nth(T, i)
    BY <2>3, NthOrders
  <2>8. i = j
    BY <2>3, <2>4, <2>5, <2>6, <2>7
  <2>9. p[2] = q[2]
    BY <2>2, <2>8
  <2>10. p = <<p[1], p[2]>> /\ q = <<q[1], q[2]>>
    BY <1>3
  <2>11. QED
    BY <2>1, <2>9, <2>10
<1>7. ASSUME NEW b \in W PROVE \E p \in P : f[p] = b
  <2>1. PICK s \in S : b \in part[s]
    OBVIOUS
  <2>2. PICK k \in 1 .. Cardinality(part[s]) : Nth(part[s], k) = b
    BY <2>1, NthIsOnto
  <2>3. PICK p : p = <<s, k>>
    OBVIOUS
  <2>4. p[1] = s /\ p[2] = k /\ p = <<p[1], p[2]>> /\ k \in 1 .. g[s]
    BY <2>3
  <2>5. p \in P
    BY <2>4, UnitMember
  <2>6. QED
    BY <1>3, <2>2, <2>4, <2>5
<1> HIDE DEF f, W, P
<1>8. IsFiniteSet(W) /\ Cardinality(W) = Cardinality(P)
  BY <1>2, <1>5, <1>6, <1>7, SameSize, SMTT(30)
<1>9. QED
  BY <1>8 DEF W, P, SumOf, Units

\* Sizes that are all the same.
LEMMA SumOfSame ==
  ASSUME NEW S, IsFiniteSet(S), NEW k \in Nat, NEW g, \A s \in S : g[s] = k
  PROVE  SumOf(g, S) = Cardinality(S) * k
<1> DEFINE K == 1 .. k
<1>1. IsFiniteSet(K) /\ Cardinality(K) = k
  BY FS_Interval
<1>2. UNION {{s} \X (1 .. g[s]) : s \in S} = S \X K
  OBVIOUS
<1> HIDE DEF K
<1>3. Cardinality(S \X K) = Cardinality(S) * Cardinality(K)
  BY <1>1, FS_Product
<1>4. QED
  BY <1>1, <1>2, <1>3 DEF SumOf
\* One size changes.
LEMMA SumOfOneChanged ==
  ASSUME NEW S, IsFiniteSet(S), NEW x \in S, NEW g, NEW h, \A s \in S : g[s] \in Nat /\ h[s] \in Nat,
         \A s \in S : s # x => h[s] = g[s]
  PROVE  SumOf(h, S) + g[x] = SumOf(g, S) + h[x] /\ SumOf(g, S) \in Nat /\ SumOf(h, S) \in Nat
<1> DEFINE R == S \ {x}
<1>1. IsFiniteSet(R) /\ x \notin R /\ R \cup {x} = S
  BY FS_Subset
<1>2. \A s \in R : g[s] = h[s] /\ g[s] \in Nat /\ h[s] \in Nat
  OBVIOUS
<1>3. \A s \in R \cup {x} : g[s] \in Nat /\ h[s] \in Nat
  BY <1>1
<1> HIDE DEF R
<1>4. Cardinality(Units(g, R)) = Cardinality(Units(h, R)) /\ Cardinality(Units(g, R)) \in Nat
  BY <1>1, <1>2, UnitsAgree, UnitsFinite
<1>5. Cardinality(Units(g, R \cup {x})) = Cardinality(Units(g, R)) + g[x]
  BY <1>1, <1>3, UnitsOfOneMore
<1>6. Cardinality(Units(h, R \cup {x})) = Cardinality(Units(h, R)) + h[x]
  BY <1>1, <1>3, UnitsOfOneMore
<1>7. /\ SumOf(g, S) = Cardinality(Units(g, R \cup {x}))
      /\ SumOf(h, S) = Cardinality(Units(h, R \cup {x}))
  BY <1>1 DEF SumOf, Units
<1>8. g[x] \in Nat /\ h[x] \in Nat
  OBVIOUS
<1>9. QED
  BY <1>4, <1>5, <1>6, <1>7, <1>8

-----------------------------------------------------------------------------
(* Lengths of a sequence of items up to the i-th. *)

LensOf(s) == [k \in DOMAIN s |-> s[k].len]

LEMMA BeforeIsUnits ==
  ASSUME NEW s, NEW i
  PROVE  Before(s, i) = Cardinality(Units(LensOf(s), 1 .. i - 1))
BY DEF Before, SumOf, Units, LensOf

LEMMA BeforeGrows ==
  ASSUME NEW s, NEW n \in Nat, DOMAIN s = 1 .. n, \A k \in 1 .. n : s[k].len \in Nat
  PROVE  /\ Before(s, 1) = 0
         /\ \A i \in 1 .. n + 1 : Before(s, i) \in Nat
         /\ \A i \in 1 .. n : Before(s, i + 1) = Before(s, i) + s[i].len
         /\ \A i, j \in 1 .. n + 1 : i <= j => Before(s, i) <= Before(s, j)
<1>1. PICK g : g = LensOf(s)
  OBVIOUS
<1>2. \A k \in 1 .. n : g[k] = s[k].len /\ g[k] \in Nat
  BY <1>1 DEF LensOf
<1>3. ASSUME NEW i \in 1 .. n + 1
      PROVE  /\ 1 .. i - 1 \in SUBSET (1 .. n) /\ IsFiniteSet(1 .. i - 1)
             /\ \A k \in 1 .. i - 1 : g[k] \in Nat
             /\ Before(s, i) = Cardinality(Units(g, 1 .. i - 1))
  <2>1. PICK m \in Nat : m = i - 1
    OBVIOUS
  <2>2. IsFiniteSet(1 .. m)
    BY UpTo
  <2>3. m <= n
    BY <2>1
  <2>4. QED
    BY <1>1, <1>2, <2>1, <2>2, <2>3, BeforeIsUnits
<1>4. ASSUME NEW i \in 1 .. n + 1 PROVE Before(s, i) \in Nat
  BY <1>3, UnitsFinite
<1>5. Before(s, 1) = 0
  <2>1. 1 .. 1 - 1 = {} /\ 1 \in 1 .. n + 1
    OBVIOUS
  <2>2. Units(g, {}) = {}
    BY DEF Units
  <2>3. QED
    BY <1>3, <2>1, <2>2, FS_EmptySet
<1>6. ASSUME NEW i \in 1 .. n PROVE Before(s, i + 1) = Before(s, i) + s[i].len
  <2>1. i \in 1 .. n + 1 /\ i + 1 \in 1 .. n + 1 /\ (i + 1) - 1 = i
    OBVIOUS
  <2>2. 1 .. i = (1 .. i - 1) \cup {i} /\ i \notin 1 .. i - 1
    OBVIOUS
  <2>3. \A k \in (1 .. i - 1) \cup {i} : g[k] \in Nat
    BY <1>2
  <2>4. IsFiniteSet(1 .. i - 1)
    BY <1>3, <2>1
  <2>5. PICK L : L = 1 .. i - 1
    OBVIOUS
  <2>6. Cardinality(Units(g, L \cup {i})) = Cardinality(Units(g, L)) + g[i]
    <3>1. IsFiniteSet(L) /\ i \notin L
      BY <2>2, <2>4, <2>5
    <3>2. \A k \in L \cup {i} : g[k] \in Nat
      BY <2>3, <2>5
    <3>3. QED
      BY <3>1, <3>2, UnitsOfOneMore
  <2>7. Before(s, i + 1) = Cardinality(Units(g, 1 .. i))
    BY <1>3, <2>1
  <2>8. Before(s, i) = Cardinality(Units(g, L))
    BY <1>3, <2>1, <2>5
  <2>9. QED
    BY <1>2, <2>2, <2>5, <2>6, <2>7, <2>8
<1>7. ASSUME NEW i \in 1 .. n + 1, NEW j \in 1 .. n + 1, i <= j
      PROVE  Before(s, i) <= Before(s, j)
  <2>1. 1 .. i - 1 \in SUBSET (1 .. j - 1)
    BY <1>7
  <2>2. Units(g, 1 .. i - 1) \in SUBSET Units(g, 1 .. j - 1)
    BY <2>1, UnitMember
  <2>3. IsFiniteSet(Units(g, 1 .. j - 1))
    BY <1>3, UnitsFinite
  <2>4. Cardinality(Units(g, 1 .. i - 1)) <= Cardinality(Units(g, 1 .. j - 1))
    BY <2>2, <2>3, FS_Subset
  <2>5. QED
    BY <1>3, <2>4
<1>8. QED
  BY <1>4, <1>5, <1>6, <1>7

\* Runs that tile a set are as long together as it is large.
LEMMA TilesSum ==
  ASSUME NEW runs, NEW S \in SUBSET Nat, IsFiniteSet(S), Tiles(runs, S)
  PROVE  Before(runs, Len(runs) + 1) = Cardinality(S)
<1>1. PICK n \in Nat : n = Len(runs) /\ DOMAIN runs = 1 .. n
  BY DEF Tiles
<1> DEFINE part == [i \in 1 .. n |-> BlocksOf(runs[i])]
           g == [i \in 1 .. n |-> runs[i].len]
<1>2. \A i \in 1 .. n : runs[i] \in Run
  BY <1>1 DEF Tiles
<1>3. ASSUME NEW i \in 1 .. n
      PROVE  /\ part[i] \in SUBSET Nat /\ IsFiniteSet(part[i]) /\ g[i] = Cardinality(part[i])
  <2>1. runs[i].start \in Nat /\ runs[i].len \in Nat \ {0}
    BY <1>2 DEF Run
  <2>2. PICK a \in Nat, l \in Nat \ {0} : a = runs[i].start /\ l = runs[i].len
    BY <2>1
  <2>3. part[i] = a .. (a + l) - 1
    BY <2>2 DEF BlocksOf, RunEnd
  <2>4. PICK z \in Int : z = (a + l) - 1
    OBVIOUS
  <2>5. IsFiniteSet(a .. z) /\ Cardinality(a .. z) = IF a > z THEN 0 ELSE z - a + 1
    BY FS_Interval
  <2>6. z >= a /\ z - a + 1 = l
    BY <2>4
  <2>7. \A x \in a .. z : x \in Nat
    OBVIOUS
  <2>8. part[i] = a .. z /\ g[i] = l
    BY <2>2, <2>3, <2>4
  <2>9. Cardinality(a .. z) = l
    BY <2>5, <2>6
  <2>10. QED
    BY <2>5, <2>7, <2>8, <2>9
<1>4. ASSUME NEW i \in 1 .. n, NEW j \in 1 .. n, i # j PROVE part[i] \cap part[j] = {}
  <2>1. ASSUME NEW a \in 1 .. n, NEW b \in 1 .. n, a < b PROVE part[a] \cap part[b] = {}
    <3>1. RunEnd(runs[a]) <= runs[b].start
      BY <1>1, <2>1 DEF Tiles
    <3>2. runs[a].start \in Nat /\ runs[b].start \in Nat /\ RunEnd(runs[a]) \in Nat /\ RunEnd(runs[b]) \in Nat
      BY <1>2 DEF Run, RunEnd
    <3>3. part[a] = runs[a].start .. RunEnd(runs[a]) - 1 /\ part[b] = runs[b].start .. RunEnd(runs[b]) - 1
      BY DEF BlocksOf
    <3>4. QED
      BY <3>1, <3>2, <3>3
  <2>2. i < j \/ j < i
    BY <1>4
  <2>3. QED
    BY <2>1, <2>2
<1>5. UNION {part[i] : i \in 1 .. n} = S
  <2>1. \A i \in 1 .. n : part[i] \in SUBSET S
    BY <1>1 DEF Tiles
  <2>2. \A c \in S : \E i \in 1 .. n : c \in part[i]
    BY <1>1 DEF Tiles
  <2>3. QED
    BY <2>1, <2>2
<1>6. IsFiniteSet(1 .. n)
  BY UpTo
<1> HIDE DEF part, g
<1>7. Cardinality(UNION {part[i] : i \in 1 .. n}) = SumOf(g, 1 .. n)
  <2>1. \A i \in 1 .. n : part[i] \in SUBSET Nat /\ IsFiniteSet(part[i])
    BY <1>3
  <2>2. \A i \in 1 .. n : g[i] = Cardinality(part[i])
    BY <1>3
  <2>3. \A i, j \in 1 .. n : i # j => part[i] \cap part[j] = {}
    BY <1>4
  <2>4. QED
    BY <1>6, <2>1, <2>2, <2>3, SizeOfParts
<1>8. Before(runs, Len(runs) + 1) = SumOf(g, 1 .. n)
  <2>1. (n + 1) - 1 = n
    OBVIOUS
  <2>2. QED
    BY <1>1, <2>1 DEF Before, g
<1>9. QED
  BY <1>5, <1>7, <1>8
==============================================================================
