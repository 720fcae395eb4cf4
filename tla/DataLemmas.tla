----------------------------- MODULE DataLemmas -----------------------------
(***************************************************************************)
(* Facts about data that the proofs of several components use: induction   *)
(* over naturals and finite sets, sums over a set, concatenations of many  *)
(* sequences, and arithmetic modulo m as the ring buffers use it.          *)
(*                                                                         *)
(* The induction theorems of the library have an operator as a parameter.  *)
(* Here induction is about a set: the naturals, or the subsets of a finite *)
(* set, that have the property.                                            *)
(***************************************************************************)
EXTENDS SequenceOps, Functions, FiniteSetTheorems, SequenceTheorems, WellFoundedInduction, TLAPS

\* Every non-empty set of naturals has a least element.
LEMMA LeastNatural ==
  ASSUME NEW T \in SUBSET Nat, T # {}
  PROVE  \E m \in T : \A k \in T : m <= k
<1> DEFINE R == OpToRel(<, Nat)
<1>1. IsWellFoundedOn(R, Nat)
  BY NatLessThanWellFounded, Zenon
<1>2. \A x, y \in Nat : <<y, x>> \in R <=> y < x
  BY DEF OpToRel
<1> HIDE DEF R
<1>3. PICK m \in T : \A y \in T : ~ (<<y, m>> \in R)
  BY <1>1, WFMin
<1>4. ASSUME NEW k \in T PROVE m <= k
  <2>1. k \in Nat /\ m \in Nat
    OBVIOUS
  <2>2. ~(k < m)
    BY <1>2, <1>3, <2>1
  <2> QED
    BY <2>1, <2>2
<1> QED
  BY <1>4

\* Induction, for the set of the naturals that have the property.
LEMMA SetInduction ==
  ASSUME NEW T \in SUBSET Nat, 0 \in T, \A n \in T : n + 1 \in T
  PROVE  \A n \in Nat : n \in T
<1> SUFFICES ASSUME Nat \ T # {} PROVE FALSE
  OBVIOUS
<1>1. PICK m \in Nat \ T : \A k \in Nat \ T : m <= k
  BY LeastNatural
<1>2. m - 1 \in Nat /\ ~(m <= m - 1)
  <2>1. m \in Nat /\ m # 0
    OBVIOUS
  <2> QED
    BY <2>1
<1>3. m - 1 \in T
  BY <1>1, <1>2
<1>4. (m - 1) + 1 = m
  OBVIOUS
<1> QED
  BY <1>3, <1>4
-----------------------------------------------------------------------------
Pick(s) == CHOOSE x \in s : TRUE

\* The function that SumFunctionOnSet(f, S) is the value of, at S.
SumOf(sum, f, s) == IF s = {} THEN 0 ELSE f[Pick(s)] + sum[s \ {Pick(s)}]
Sums(sum, f, S) == sum = [s \in SUBSET S |-> SumOf(sum, f, s)]

LEMMA PickIn ==
  ASSUME NEW s, s # {}
  PROVE  Pick(s) \in s
  BY DEF Pick

\* Taking an element out makes a finite set smaller.
LEMMA Smaller ==
  ASSUME NEW S, IsFiniteSet(S), NEW s \in SUBSET S, NEW x \in s
  PROVE  /\ IsFiniteSet(s) /\ Cardinality(s) \in Nat \ {0}
         /\ s \ {x} \in SUBSET S /\ Cardinality(s \ {x}) = Cardinality(s) - 1
<1>1. IsFiniteSet(s)
  BY FS_Subset
<1>2. Cardinality(s \ {x}) = Cardinality(s) - 1 /\ IsFiniteSet(s \ {x})
  BY <1>1, FS_RemoveElement
<1>3. Cardinality(s) \in Nat /\ Cardinality(s \ {x}) \in Nat
  BY <1>1, <1>2, FS_CardinalityType
<1> QED
  BY <1>1, <1>2, <1>3

\* Induction over the subsets of a finite set, for a set P of them.
LEMMA SubsetInduction ==
  ASSUME NEW S, IsFiniteSet(S), NEW P, {} \in P,
         \A s \in SUBSET S : s # {} /\ (\A x \in s : s \ {x} \in P) => s \in P
  PROVE  \A s \in SUBSET S : s \in P
<1> DEFINE T == {n \in Nat : \A s \in SUBSET S : Cardinality(s) = n => s \in P}
<1>1. \A s \in SUBSET S : Cardinality(s) \in Nat /\ (Cardinality(s) = 0 => s = {})
  BY FS_Subset, FS_CardinalityType, FS_EmptySet
<1>2. 0 \in T
  BY <1>1
<1>3. ASSUME NEW n \in T PROVE n + 1 \in T
  <2> SUFFICES ASSUME NEW s \in SUBSET S, Cardinality(s) = n + 1 PROVE s \in P
    OBVIOUS
  <2>1. n \in Nat
    OBVIOUS
  <2>2. s # {}
    BY <2>1, FS_EmptySet
  <2>3. ASSUME NEW x \in s PROVE s \ {x} \in P
    <3>1. s \ {x} \in SUBSET S /\ Cardinality(s \ {x}) = n
      BY <2>1, Smaller
    <3> QED
      BY <3>1
  <2> QED
    BY <2>2, <2>3
<1>4. \A n \in Nat : n \in T
  <2> HIDE DEF T
  <2>1. T \in SUBSET Nat
    BY DEF T
  <2> QED
    BY <1>2, <1>3, <2>1, SetInduction
<1> QED
  BY <1>1, <1>4

LEMMA SumsExist ==
  ASSUME NEW f, NEW S, IsFiniteSet(S)
  PROVE  \E sum : Sums(sum, f, S)
<1> DEFINE UpTo(n) == {s \in SUBSET S : Cardinality(s) <= n}
           Part(sum, n) == sum = [s \in UpTo(n) |-> SumOf(sum, f, s)]
           T == {n \in Nat : \E sum : Part(sum, n)}
<1>1. \A s \in SUBSET S : Cardinality(s) \in Nat /\ (Cardinality(s) = 0 => s = {})
  BY FS_Subset, FS_CardinalityType, FS_EmptySet
<1>2. 0 \in T
  <2> DEFINE sum == [s \in UpTo(0) |-> 0]
  <2>1. \A s \in UpTo(0) : s = {}
    BY <1>1
  <2>2. \A s \in UpTo(0) : SumOf(sum, f, s) = 0
    BY <2>1 DEF SumOf
  <2>3. Part(sum, 0)
    BY <2>2
  <2> QED
    BY <2>3
<1>3. ASSUME NEW n \in T PROVE n + 1 \in T
  <2>1. n \in Nat
    OBVIOUS
  <2>2. PICK h : Part(h, n)
    OBVIOUS
  <2> DEFINE g == [s \in UpTo(n + 1) |-> SumOf(h, f, s)]
  <2>3. \A s \in UpTo(n) : s \in UpTo(n + 1)
    BY <1>1, <2>1
  <2>4. \A s \in UpTo(n + 1) : s # {} => s \ {Pick(s)} \in UpTo(n)
    <3> SUFFICES ASSUME NEW s \in UpTo(n + 1), s # {} PROVE s \ {Pick(s)} \in UpTo(n)
      OBVIOUS
    <3>1. s \in SUBSET S /\ Cardinality(s) <= n + 1 /\ Cardinality(s) \in Nat
      BY <1>1
    <3>2. s \ {Pick(s)} \in SUBSET S /\ Cardinality(s \ {Pick(s)}) = Cardinality(s) - 1
      BY <3>1, PickIn, Smaller
    <3> QED
      BY <2>1, <3>1, <3>2
  <2>5. \A s \in UpTo(n) : h[s] = g[s]
    <3> HIDE DEF UpTo
    <3> QED
      BY <2>2, <2>3
  <2>6. \A s \in UpTo(n + 1) : SumOf(h, f, s) = SumOf(g, f, s)
    <3> HIDE DEF UpTo, g
    <3> QED
      BY <2>4, <2>5 DEF SumOf
  <2>7. Part(g, n + 1)
    BY <2>6
  <2>8. \E sum : Part(sum, n + 1)
    <3> HIDE DEF Part, g
    <3> QED
      BY <2>7
  <2> HIDE DEF Part
  <2> QED
    BY <2>1, <2>8
<1>4. \A n \in Nat : n \in T
  <2> HIDE DEF T
  <2>1. T \in SUBSET Nat
    BY DEF T
  <2> QED
    BY <1>2, <1>3, <2>1, SetInduction
<1>5. Cardinality(S) \in Nat /\ UpTo(Cardinality(S)) = SUBSET S
  BY FS_Subset, FS_CardinalityType
<1>6. PICK sum : Part(sum, Cardinality(S))
  BY <1>4, <1>5
<1>7. Sums(sum, f, S)
  BY <1>5, <1>6 DEF Sums
<1> QED
  BY <1>7

\* A sum of integers is an integer.
LEMMA SumsType ==
  ASSUME NEW f, NEW S, IsFiniteSet(S), \A x \in S : f[x] \in Int,
         NEW sum, Sums(sum, f, S)
  PROVE  \A s \in SUBSET S : sum[s] \in Int
<1> DEFINE P == {s \in SUBSET S : sum[s] \in Int}
<1>1. \A s \in SUBSET S : sum[s] = SumOf(sum, f, s)
  BY DEF Sums
<1>2. {} \in P
  BY <1>1 DEF SumOf
<1>3. ASSUME NEW s \in SUBSET S, s # {}, \A x \in s : s \ {x} \in P
      PROVE  s \in P
  <2>1. Pick(s) \in s
    BY <1>3, PickIn
  <2>2. f[Pick(s)] \in Int /\ sum[s \ {Pick(s)}] \in Int
    BY <1>3, <2>1
  <2>3. sum[s] = f[Pick(s)] + sum[s \ {Pick(s)}]
    BY <1>1, <1>3 DEF SumOf
  <2> QED
    BY <2>2, <2>3
<1> HIDE DEF P
<1>4. \A s \in SUBSET S : s \in P
  BY <1>2, <1>3, SubsetInduction
<1> QED
  BY <1>4 DEF P

\* Any element may be taken out first.
LEMMA SumsAny ==
  ASSUME NEW f, NEW S, IsFiniteSet(S), \A x \in S : f[x] \in Int,
         NEW sum, Sums(sum, f, S)
  PROVE  \A s \in SUBSET S : \A x \in s : sum[s] = f[x] + sum[s \ {x}]
<1> DEFINE P == {s \in SUBSET S : \A x \in s : sum[s] = f[x] + sum[s \ {x}]}
<1>1. \A s \in SUBSET S : sum[s] = SumOf(sum, f, s)
  BY DEF Sums
<1>2. \A s \in SUBSET S : sum[s] \in Int
  BY SumsType
<1>3. {} \in P
  OBVIOUS
<1>4. ASSUME NEW s \in SUBSET S, s # {}, \A x \in s : s \ {x} \in P
      PROVE  s \in P
  <2> SUFFICES ASSUME NEW x \in s PROVE sum[s] = f[x] + sum[s \ {x}]
    OBVIOUS
  <2> DEFINE c == Pick(s)
  <2>1. c \in s
    BY <1>4, PickIn
  <2>2. sum[s] = f[c] + sum[s \ {c}]
    BY <1>1, <1>4 DEF SumOf
  <2>3. CASE x = c
    BY <2>2, <2>3
  <2>4. CASE x # c
    <3> DEFINE r == s \ {c, x}
    <3>1. s \ {c} \in P /\ s \ {x} \in P /\ x \in s \ {c} /\ c \in s \ {x}
      BY <1>4, <2>1, <2>4
    <3>2. (s \ {c}) \ {x} = r /\ (s \ {x}) \ {c} = r
      OBVIOUS
    <3>3. sum[s \ {c}] = f[x] + sum[r]
      BY <3>1, <3>2
    <3>4. sum[s \ {x}] = f[c] + sum[r]
      BY <3>1, <3>2
    <3>5. r \in SUBSET S /\ x \in S /\ c \in S
      BY <2>1
    <3>6. sum[r] \in Int /\ f[x] \in Int /\ f[c] \in Int
      BY <1>2, <3>5
    <3> HIDE DEF c, r
    <3> QED
      BY <2>2, <3>3, <3>4, <3>6
  <2> QED
    BY <2>3, <2>4
<1> HIDE DEF P
<1>5. \A s \in SUBSET S : s \in P
  BY <1>3, <1>4, SubsetInduction
<1> QED
  BY <1>5 DEF P

\* The sum over a set depends on the values there and on nothing else.
LEMMA SumsAgree ==
  ASSUME NEW S, IsFiniteSet(S), NEW R, IsFiniteSet(R),
         NEW f, NEW g, NEW sf, Sums(sf, f, S), NEW sg, Sums(sg, g, R),
         NEW A, A \subseteq S, A \subseteq R, \A x \in A : f[x] = g[x]
  PROVE  sf[A] = sg[A]
<1> DEFINE P == {s \in SUBSET A : sf[s] = sg[s]}
<1>0. IsFiniteSet(A)
  BY FS_Subset
<1>1. \A s \in SUBSET A : sf[s] = SumOf(sf, f, s) /\ sg[s] = SumOf(sg, g, s)
  BY DEF Sums
<1>2. {} \in P
  BY <1>1 DEF SumOf
<1>3. ASSUME NEW s \in SUBSET A, s # {}, \A x \in s : s \ {x} \in P
      PROVE  s \in P
  <2>1. Pick(s) \in s
    BY <1>3, PickIn
  <2>2. f[Pick(s)] = g[Pick(s)] /\ sf[s \ {Pick(s)}] = sg[s \ {Pick(s)}]
    BY <1>3, <2>1
  <2> QED
    BY <1>1, <1>3, <2>2 DEF SumOf
<1> HIDE DEF P
<1>4. \A s \in SUBSET A : s \in P
  BY <1>0, <1>2, <1>3, SubsetInduction
<1> QED
  BY <1>4 DEF P

LEMMA SumIs ==
  ASSUME NEW f, NEW S, IsFiniteSet(S)
  PROVE  \E sum : Sums(sum, f, S) /\ SumFunctionOnSet(f, S) = sum[S]
<1> DEFINE sum == CHOOSE sum : Sums(sum, f, S)
<1>1. Sums(sum, f, S)
  BY SumsExist
<1>2. SumFunctionOnSet(f, S) = sum[S]
  BY DEF SumFunctionOnSet, FoldFunctionOnSet, MapThenFoldSet, Sums, SumOf, Pick
<1> QED
  BY <1>1, <1>2

LEMMA SumEmpty ==
  ASSUME NEW f
  PROVE  SumFunctionOnSet(f, {}) = 0
<1>1. PICK sum : Sums(sum, f, {}) /\ SumFunctionOnSet(f, {}) = sum[{}]
  BY FS_EmptySet, SumIs
<1> QED
  BY <1>1 DEF Sums, SumOf

LEMMA SumType ==
  ASSUME NEW f, NEW S, IsFiniteSet(S), \A x \in S : f[x] \in Int
  PROVE  SumFunctionOnSet(f, S) \in Int
  BY SumIs, SumsType

LEMMA SumSplit ==
  ASSUME NEW f, NEW S, IsFiniteSet(S), \A x \in S : f[x] \in Int, NEW x \in S
  PROVE  SumFunctionOnSet(f, S) = f[x] + SumFunctionOnSet(f, S \ {x})
<1> DEFINE R == S \ {x}
<1>0. IsFiniteSet(R) /\ R \subseteq S
  BY FS_Subset
<1> HIDE DEF R
<1>1. PICK s : Sums(s, f, S) /\ SumFunctionOnSet(f, S) = s[S]
  BY SumIs
<1>2. PICK r : Sums(r, f, R) /\ SumFunctionOnSet(f, R) = r[R]
  BY <1>0, SumIs
<1>3. s[S] = f[x] + s[S \ {x}]
  BY <1>1, SumsAny
<1>4. s[R] = r[R]
  BY <1>0, <1>1, <1>2, SumsAgree
<1> QED
  BY <1>1, <1>2, <1>3, <1>4 DEF R

LEMMA SumAgree ==
  ASSUME NEW f, NEW g, NEW S, IsFiniteSet(S), \A x \in S : f[x] = g[x]
  PROVE  SumFunctionOnSet(f, S) = SumFunctionOnSet(g, S)
<1>1. PICK s : Sums(s, f, S) /\ SumFunctionOnSet(f, S) = s[S]
  BY SumIs
<1>2. PICK r : Sums(r, g, S) /\ SumFunctionOnSet(g, S) = r[S]
  BY SumIs
<1> QED
  BY <1>1, <1>2, SumsAgree
-----------------------------------------------------------------------------
\* Division with remainder.
LEMMA DivMod ==
  ASSUME NEW a \in Nat, NEW m \in Nat \ {0}
  PROVE  /\ a \div m \in Nat
         /\ a % m \in 0 .. m - 1
         /\ a = (a \div m) * m + (a % m)
<1>1. a % m \in 0 .. m - 1
  BY SMT
<1>2. a \div m \in Nat
  BY SMT
<1>3. a = (a \div m) * m + (a % m)
  BY Z3T(60)
<1> QED
  BY <1>1, <1>2, <1>3

\* The remainder is the only one.
LEMMA ModUnique ==
  ASSUME NEW m \in Nat \ {0}, NEW q \in Int, NEW r \in 0 .. m - 1
  PROVE  (m * q + r) % m = r
  BY SMT

\* An increment, and a longer step, of a reduced index.
LEMMA ModPlus ==
  ASSUME NEW m \in Nat \ {0}, NEW a \in Nat, NEW j \in Nat
  PROVE  ((a % m) + j) % m = (a + j) % m
<1> DEFINE x == (a % m) + j
<1>1. a % m \in 0 .. m - 1 /\ a \div m \in Nat /\ a = (a \div m) * m + (a % m)
  BY DivMod
<1>2. x \in Nat
  BY <1>1
<1>3. x % m \in 0 .. m - 1 /\ x \div m \in Nat /\ x = (x \div m) * m + (x % m)
  BY <1>2, DivMod
<1>4. a + j = m * ((a \div m) + (x \div m)) + (x % m)
  <2> DEFINE k == a \div m
             l == x \div m
             s == x % m
             r == a % m
  <2>1. k \in Nat /\ l \in Nat /\ s \in Nat /\ r \in Nat /\ a = k * m + r /\ r + j = l * m + s
    BY <1>1, <1>3
  <2> HIDE DEF k, l, s, r, x
  <2> SUFFICES a + j = m * (k + l) + s
    BY DEF k, l, s
  <2> QED
    BY <2>1
<1>5. (a \div m) + (x \div m) \in Int
  BY <1>1, <1>3
<1> HIDE DEF x
<1>6. (a + j) % m = x % m
  BY <1>3, <1>4, <1>5, ModUnique
<1> QED
  BY <1>6 DEF x

\* The distance of two reduced indices is the distance of the counters.
LEMMA ModDistance ==
  ASSUME NEW m \in Nat \ {0}, NEW a \in Nat, NEW b \in Nat, b <= a, a - b < m
  PROVE  ((a % m) - (b % m)) % m = a - b
<1> DEFINE k == a \div m
           l == b \div m
           s == a % m
           r == b % m
           d == a - b
<1>1. k \in Nat /\ l \in Nat /\ s \in 0 .. m - 1 /\ r \in 0 .. m - 1
  BY DivMod
<1>2. a = k * m + s /\ b = l * m + r
  BY DivMod
<1>3. d \in 0 .. m - 1
  OBVIOUS
<1> HIDE DEF k, l, s, r
<1>4. s - r = m * (l - k) + d
  BY <1>1, <1>2
<1> HIDE DEF d
<1>5. (m * (l - k) + d) % m = d
  BY <1>1, <1>3, ModUnique
<1>6. (s - r) % m = d
  BY <1>4, <1>5
<1> QED
  BY <1>6 DEF s, r, d

\* Counters less than m apart do not share a residue.
LEMMA ModDistinct ==
  ASSUME NEW m \in Nat \ {0}, NEW a \in Nat, NEW b \in Nat, b < a, a - b < m
  PROVE  a % m # b % m
<1>1. ((a % m) - (b % m)) % m = a - b
  <2>1. b <= a
    OBVIOUS
  <2> QED
    BY <2>1, ModDistance
<1> SUFFICES ASSUME a % m = b % m PROVE FALSE
  OBVIOUS
<1>2. (a % m) - (b % m) = 0
  BY DivMod
<1>3. 0 % m = 0
  BY SMT
<1>4. a - b = 0
  BY <1>1, <1>2, <1>3
<1> QED
  BY <1>4

\* Reducing by a multiple first changes nothing.
LEMMA ModMod ==
  ASSUME NEW m \in Nat \ {0}, NEW n \in Nat \ {0}, n % m = 0, NEW a \in Nat
  PROVE  (a % n) % m = a % m
<1> DEFINE c == n \div m
           q == a \div n
           r == a % n
           k == r \div m
           s == r % m
<1>1. c \in Nat /\ n = c * m
  BY DivMod
<1>2. q \in Nat /\ r \in Nat /\ a = q * n + r
  BY DivMod
<1>3. k \in Nat /\ s \in 0 .. m - 1 /\ r = k * m + s
  BY <1>2, DivMod
<1> HIDE DEF c, q, k, s
<1>4. a = m * (q * c + k) + s
  <2>1. q * n = q * (c * m)
    BY <1>1
  <2>2. q * (c * m) = m * (q * c)
    BY <1>1, <1>2
  <2>3. q * c \in Nat
    BY <1>1, <1>2
  <2> DEFINE z == q * c
  <2> HIDE DEF z, r
  <2>4. a = m * z + (k * m + s)
    BY <1>1, <1>2, <1>3, <2>1, <2>2 DEF z
  <2>5. a = m * (z + k) + s
    BY <1>3, <2>3, <2>4 DEF z
  <2> QED
    BY <2>5 DEF z
<1>5. q * c + k \in Int
  BY <1>1, <1>2, <1>3
<1>6. a % m = s
  BY <1>3, <1>4, <1>5, ModUnique
<1> QED
  BY <1>6 DEF s
-----------------------------------------------------------------------------
\* The function that Flattened(s) is the value of, at n = Len(s).
FlatOf(flat, s, i) == IF i = 1 THEN s[i] ELSE flat[i - 1] \o s[i]
Flattens(flat, s, n) == flat = [i \in 1 .. n |-> FlatOf(flat, s, i)]

LEMMA FlattensExists ==
  ASSUME NEW s
  PROVE  \A n \in Nat : \E flat : Flattens(flat, s, n)
<1> DEFINE T == {n \in Nat : \E flat : Flattens(flat, s, n)}
<1>1. 0 \in T
  <2> DEFINE g == [i \in 1 .. 0 |-> s[i]]
  <2>1. Flattens(g, s, 0)
    BY DEF Flattens
  <2> QED
    BY <2>1
<1>2. ASSUME NEW n \in T PROVE n + 1 \in T
  <2>1. n \in Nat
    OBVIOUS
  <2>2. PICK h : Flattens(h, s, n)
    OBVIOUS
  <2> DEFINE g == [i \in 1 .. n + 1 |-> FlatOf(h, s, i)]
  <2>3. \A i \in 1 .. n : h[i] = g[i]
    BY <2>1, <2>2 DEF Flattens
  <2>4. \A i \in 1 .. n + 1 : FlatOf(h, s, i) = FlatOf(g, s, i)
    <3> HIDE DEF g
    <3> QED
      BY <2>1, <2>3 DEF FlatOf
  <2>5. Flattens(g, s, n + 1)
    BY <2>4 DEF Flattens
  <2> HIDE DEF g
  <2> QED
    BY <2>1, <2>5
<1>3. T \in SUBSET Nat
  OBVIOUS
<1> HIDE DEF T
<1>4. \A n \in Nat : n \in T
  BY <1>1, <1>2, <1>3, SetInduction
<1> QED
  BY <1>4 DEF T

\* A sequence and the one that goes on for one element more flatten to the same
\* up to there.
LEMMA FlattensAgree ==
  ASSUME NEW s, NEW t, NEW n \in Nat, \A i \in 1 .. n : s[i] = t[i],
         NEW f, Flattens(f, s, n), NEW g, Flattens(g, t, n + 1)
  PROVE  \A i \in 1 .. n : f[i] = g[i]
<1> DEFINE T == {i \in Nat : i \in 1 .. n => f[i] = g[i]}
<1>1. 0 \in T
  OBVIOUS
<1>2. ASSUME NEW i \in T PROVE i + 1 \in T
  <2> SUFFICES ASSUME i + 1 \in 1 .. n PROVE f[i + 1] = g[i + 1]
    OBVIOUS
  <2>1. i \in Nat /\ i + 1 \in 1 .. n /\ i + 1 \in 1 .. n + 1
    OBVIOUS
  <2>2. f[i + 1] = FlatOf(f, s, i + 1) /\ g[i + 1] = FlatOf(g, t, i + 1)
    BY <2>1 DEF Flattens
  <2>3. CASE i = 0
    BY <2>2, <2>3 DEF FlatOf
  <2>4. CASE i # 0
    <3>1. f[i] = g[i] /\ (i + 1) - 1 = i /\ i + 1 # 1
      BY <2>1, <2>4
    <3> QED
      BY <2>2, <3>1 DEF FlatOf
  <2> QED
    BY <2>3, <2>4
<1>3. T \in SUBSET Nat
  OBVIOUS
<1> HIDE DEF T
<1>4. \A i \in Nat : i \in T
  BY <1>1, <1>2, <1>3, SetInduction
<1> QED
  BY <1>4 DEF T

LEMMA FlattenedIs ==
  ASSUME NEW s, Len(s) \in Nat \ {0}
  PROVE  \E flat : Flattens(flat, s, Len(s)) /\ Flattened(s) = flat[Len(s)]
<1> DEFINE flat == CHOOSE flat : Flattens(flat, s, Len(s))
<1>1. Flattens(flat, s, Len(s))
  BY FlattensExists
<1>2. Flattened(s) = flat[Len(s)]
  BY DEF Flattened, Flattens, FlatOf
<1> QED
  BY <1>1, <1>2

LEMMA FlattenedEmpty == Flattened(<<>>) = <<>>
  BY DEF Flattened

\* One more sequence at the end is concatenated at the end.
LEMMA FlattenedAppend ==
  ASSUME NEW S, NEW s \in Seq(Seq(S)), NEW e \in Seq(S)
  PROVE  Flattened(Append(s, e)) = Flattened(s) \o e
<1> DEFINE t == Append(s, e)
           n == Len(s)
<1>1. n \in Nat /\ Len(t) = n + 1 /\ t[n + 1] = e /\ \A i \in 1 .. n : t[i] = s[i]
  OBVIOUS
<1> HIDE DEF t, n
<1>2. PICK g : Flattens(g, t, n + 1) /\ Flattened(t) = g[n + 1]
  BY <1>1, FlattenedIs
<1>3. g[n + 1] = FlatOf(g, t, n + 1)
  <2>1. n + 1 \in 1 .. n + 1
    BY <1>1
  <2> QED
    BY <1>2, <2>1 DEF Flattens
<1>4. CASE n = 0
  <2>1. g[n + 1] = e
    BY <1>1, <1>3, <1>4 DEF FlatOf
  <2>2. s = <<>>
    BY <1>4 DEF n
  <2>3. <<>> \o e = e
    OBVIOUS
  <2> QED
    BY <1>2, <2>1, <2>2, <2>3, FlattenedEmpty DEF t
<1>5. CASE n # 0
  <2>1. PICK f : Flattens(f, s, n) /\ Flattened(s) = f[n]
    BY <1>1, <1>5, FlattenedIs DEF n
  <2>2. f[n] = g[n]
    <3>1. n \in 1 .. n
      BY <1>1, <1>5
    <3>2. \A i \in 1 .. n : s[i] = t[i]
      BY <1>1
    <3>3. Flattens(f, s, n) /\ Flattens(g, t, n + 1)
      BY <1>2, <2>1
    <3>4. \A i \in 1 .. n : f[i] = g[i]
      BY <1>1, <3>2, <3>3, FlattensAgree
    <3> QED
      BY <3>1, <3>4
  <2>3. g[n + 1] = g[n] \o e
    <3>1. n + 1 # 1 /\ (n + 1) - 1 = n
      BY <1>1, <1>5
    <3> QED
      BY <1>1, <1>3, <3>1 DEF FlatOf
  <2> QED
    BY <1>2, <2>1, <2>2, <2>3 DEF t
<1> QED
  BY <1>4, <1>5

LEMMA FlattenedType ==
  ASSUME NEW S, NEW s \in Seq(Seq(S))
  PROVE  Flattened(s) \in Seq(S)
<1> DEFINE T == {n \in Nat : \A t \in Seq(Seq(S)) : Len(t) = n => Flattened(t) \in Seq(S)}
<1>1. 0 \in T
  <2> SUFFICES ASSUME NEW t \in Seq(Seq(S)), Len(t) = 0 PROVE Flattened(t) \in Seq(S)
    OBVIOUS
  <2>1. t = <<>>
    OBVIOUS
  <2>2. <<>> \in Seq(S)
    OBVIOUS
  <2>3. Flattened(t) = <<>>
    BY <2>1, FlattenedEmpty
  <2> QED
    BY <2>2, <2>3
<1>2. ASSUME NEW n \in T PROVE n + 1 \in T
  <2> SUFFICES ASSUME NEW t \in Seq(Seq(S)), Len(t) = n + 1 PROVE Flattened(t) \in Seq(S)
    OBVIOUS
  <2>1. n \in Nat
    OBVIOUS
  <2>2. t # <<>>
    BY <2>1
  <2>3. PICK r \in Seq(Seq(S)), e \in Seq(S) : t = Append(r, e)
    BY <2>2, SequenceEmptyOrAppend
  <2>4. Len(r) = n
    BY <2>1, <2>3
  <2>5. Flattened(r) \in Seq(S)
    BY <2>4
  <2>6. Flattened(t) = Flattened(r) \o e
    BY <2>3, FlattenedAppend
  <2> QED
    BY <2>5, <2>6
<1>3. T \in SUBSET Nat
  OBVIOUS
<1> HIDE DEF T
<1>4. \A n \in Nat : n \in T
  BY <1>1, <1>2, <1>3, SetInduction
<1>5. Len(s) \in T
  BY <1>4
<1> QED
  BY <1>5 DEF T

LEMMA AppendAtEnd ==
  ASSUME NEW X, NEW s \in Seq(X), NEW t \in Seq(X), NEW x \in X
  PROVE  s \o t \in Seq(X) /\ s \o Append(t, x) = Append(s \o t, x)
<1> DEFINE d == <<x>>
<1>1. d \in Seq(X) /\ s \o t \in Seq(X)
  OBVIOUS
<1>2. Append(t, x) = t \o d /\ Append(s \o t, x) = (s \o t) \o d
  BY <1>1, AppendIsConcat
<1> HIDE DEF d
<1>3. (s \o t) \o d = s \o (t \o d)
  BY <1>1, ConcatAssociative, SMTT(60)
<1> QED
  BY <1>1, <1>2, <1>3

\* Two sequences of sequences, one after the other.
LEMMA FlattenedConcat ==
  ASSUME NEW S, NEW s \in Seq(Seq(S)), NEW t \in Seq(Seq(S))
  PROVE  Flattened(s \o t) = Flattened(s) \o Flattened(t)
<1> DEFINE OK(u) == Flattened(s \o u) = Flattened(s) \o Flattened(u)
           T == {n \in Nat : \A u \in Seq(Seq(S)) : Len(u) = n => OK(u)}
<1>0. Flattened(s) \in Seq(S)
  BY FlattenedType
<1>1. 0 \in T
  <2> SUFFICES ASSUME NEW u \in Seq(Seq(S)), Len(u) = 0 PROVE OK(u)
    OBVIOUS
  <2>1. u = <<>>
    OBVIOUS
  <2>2. s \o <<>> = s /\ Flattened(s) \o <<>> = Flattened(s)
    BY <1>0, ConcatEmptySeq
  <2> QED
    BY <2>1, <2>2, FlattenedEmpty
<1>2. ASSUME NEW n \in T PROVE n + 1 \in T
  <2> SUFFICES ASSUME NEW u \in Seq(Seq(S)), Len(u) = n + 1 PROVE OK(u)
    OBVIOUS
  <2>1. n \in Nat
    OBVIOUS
  <2>2. u # <<>>
    BY <2>1
  <2>3. PICK r \in Seq(Seq(S)), e \in Seq(S) : u = Append(r, e)
    BY <2>2, SequenceEmptyOrAppend
  <2>4. Len(r) = n
    BY <2>1, <2>3
  <2>5. Flattened(s \o r) = Flattened(s) \o Flattened(r)
    BY <2>4
  <2> HIDE DEF T
  <2>6. s \o r \in Seq(Seq(S)) /\ s \o Append(r, e) = Append(s \o r, e)
    BY AppendAtEnd
  <2>7. Flattened(u) = Flattened(r) \o e /\ Flattened(Append(s \o r, e)) = Flattened(s \o r) \o e
    BY <2>3, <2>6, FlattenedAppend
  <2>8. Flattened(r) \in Seq(S)
    BY FlattenedType
  <2>9. (Flattened(s) \o Flattened(r)) \o e = Flattened(s) \o (Flattened(r) \o e)
    <3> DEFINE a == Flattened(s)
               b == Flattened(r)
    <3>1. a \in Seq(S) /\ b \in Seq(S) /\ e \in Seq(S)
      BY <1>0, <2>8
    <3> HIDE DEF a, b
    <3>2. (a \o b) \o e = a \o (b \o e)
      BY ONLY <3>1, ConcatAssociative, SMTT(60)
    <3> QED
      BY <3>2 DEF a, b
  <2> QED
    BY <2>3, <2>5, <2>6, <2>7, <2>9
<1>3. T \in SUBSET Nat
  OBVIOUS
<1> HIDE DEF T
<1>4. \A n \in Nat : n \in T
  BY <1>1, <1>2, <1>3, SetInduction
<1>5. Len(t) \in T
  BY <1>4
<1> QED
  BY <1>5 DEF T
=============================================================================
