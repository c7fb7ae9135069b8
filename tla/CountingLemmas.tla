--------------------------- MODULE CountingLemmas ---------------------------
(***************************************************************************)
(* Facts about numbers, finite sets and sequences that the proofs share.   *)
(* Induction is by a least counterexample: LeastNat is a statement about   *)
(* sets of numbers, so it can be cited with any set.                       *)
(***************************************************************************)
EXTENDS Integers, Sequences, FiniteSets, FiniteSetsExt, SequencesExt,
        FiniteSetTheorems, SequenceTheorems, WellFoundedInduction, TLAPS

\* A set of numbers that is not empty has a least element.
LEMMA LeastNat ==
  ASSUME NEW T, T \subseteq Nat, T # {}
  PROVE  \E n \in T : \A m \in T : n <= m
  <1>1. PICK n \in T : \A m \in T : <<m, n>> \notin OpToRel(<, Nat)
    BY NatLessThanWellFounded, WFMin
  <1>2. ASSUME NEW m \in T PROVE ~ (m < n)
    <2>1. m \in Nat /\ n \in Nat
      OBVIOUS
    <2>2. <<m, n>>[1] = m /\ <<m, n>>[2] = n /\ <<m, n>> \in Nat \X Nat
      BY <2>1
    <2>3. <<m, n>> \notin OpToRel(<, Nat)
      BY <1>1
    <2>. QED BY <2>2, <2>3, Zenon DEF OpToRel
  <1>. QED BY <1>2

\* In a sequence without repetition RemoveFirst takes out the one position.
LEMMA RemoveFirstFacts ==
  ASSUME NEW S, NEW q \in Seq(S), NEW k \in 1 .. Len(q),
         \A i, j \in 1 .. Len(q) : q[i] = q[j] => i = j
  PROVE  /\ RemoveFirst(q, q[k]) \in Seq(S)
         /\ Len(RemoveFirst(q, q[k])) = Len(q) - 1
         /\ \A i \in 1 .. Len(q) - 1 :
               RemoveFirst(q, q[k])[i] = IF i < k THEN q[i] ELSE q[i + 1]
  <1> DEFINE I == {i \in 1 .. Len(q) : q[i] = q[k]}
             front == SubSeq(q, 1, k - 1)
             back == SubSeq(q, k + 1, Len(q))
  <1>1. I = {k}
    OBVIOUS
  <1>2. Min(I) = k
    BY <1>1 DEF Min
  <1>3. RemoveFirst(q, q[k]) = front \o back
    <2>1. SelectInSeq(q, LAMBDA v : v = q[k]) = k
      BY <1>1, <1>2, Zenon DEF SelectInSeq
    <2>2. \E i \in 1 .. Len(q) : q[i] = q[k]
      OBVIOUS
    <2>. QED BY <2>1, <2>2, Zenon DEF RemoveFirst, RemoveAt
  <1>4. front \in Seq(S) /\ Len(front) = k - 1 /\ \A i \in 1 .. k - 1 : front[i] = q[i]
    OBVIOUS
  <1>5. back \in Seq(S) /\ Len(back) = Len(q) - k /\ \A i \in 1 .. Len(q) - k : back[i] = q[k + i]
    OBVIOUS
  <1> DEFINE n == Len(q)
  <1>5a. n \in Nat /\ k \in Nat /\ 1 <= k /\ k <= n
    OBVIOUS
  <1> HIDE DEF front, back, n
  <1>5b. Len(front) + Len(back) = n - 1
    BY <1>4, <1>5, <1>5a DEF n
  <1>6. front \o back \in Seq(S) /\ Len(front \o back) = n - 1
    <2>1. front \in Seq(S) /\ back \in Seq(S)
      BY <1>4, <1>5
    <2>2. front \o back \in Seq(S) /\ Len(front \o back) = Len(front) + Len(back)
      BY <2>1, ConcatProperties
    <2>. QED BY <1>5b, <2>2
  <1>7. \A i \in 1 .. n - 1 : (front \o back)[i] = IF i <= k - 1 THEN front[i] ELSE back[i - (k - 1)]
    BY <1>4, <1>5, <1>5b, ConcatProperties
  <1>8. ASSUME NEW i \in 1 .. n - 1
        PROVE  (front \o back)[i] = IF i < k THEN q[i] ELSE q[i + 1]
    <2>2. CASE i < k
      <3>1. i \in 1 .. k - 1
        BY <2>2, <1>5a
      <3>. QED BY <2>2, <3>1, <1>4, <1>7
    <2>3. CASE ~(i < k)
      <3>1. /\ i - (k - 1) \in 1 .. n - k /\ k + (i - (k - 1)) = i + 1
            /\ ~(i <= k - 1)
        BY <2>3, <1>5a
      <3>2. back[i - (k - 1)] = q[k + (i - (k - 1))]
        BY <3>1, <1>5 DEF n
      <3>. QED BY <2>3, <3>1, <3>2, <1>7
    <2>. QED BY <2>2, <2>3
  <1>. QED BY <1>3, <1>6, <1>8 DEF n

\* What is left is the rest, still without repetition.
LEMMA RemoveFirstRest ==
  ASSUME NEW S, NEW q \in Seq(S), NEW x \in ToSet(q),
         \A i, j \in 1 .. Len(q) : q[i] = q[j] => i = j
  PROVE  LET r == RemoveFirst(q, x) IN
         /\ r \in Seq(S) /\ Len(r) = Len(q) - 1
         /\ ToSet(r) = ToSet(q) \ {x}
         /\ \A i, j \in 1 .. Len(r) : r[i] = r[j] => i = j
  <1> DEFINE r == RemoveFirst(q, x)
  <1>1. PICK k \in 1 .. Len(q) : q[k] = x
    BY DEF ToSet
  <1>2. /\ r \in Seq(S) /\ Len(r) = Len(q) - 1
        /\ \A i \in 1 .. Len(q) - 1 : r[i] = IF i < k THEN q[i] ELSE q[i + 1]
    BY <1>1, RemoveFirstFacts
  <1> HIDE DEF r
  <1>3. \A i, j \in 1 .. Len(r) : r[i] = r[j] => i = j
    <2> SUFFICES ASSUME NEW i \in 1 .. Len(r), NEW j \in 1 .. Len(r), r[i] = r[j]
                 PROVE  i = j
      OBVIOUS
    <2> DEFINE at(n) == IF n < k THEN n ELSE n + 1
    <2>1. q[at(i)] = q[at(j)] /\ at(i) \in 1 .. Len(q) /\ at(j) \in 1 .. Len(q)
      BY <1>2
    <2>. QED BY <2>1
  <1>4. ToSet(r) \subseteq ToSet(q) \ {x}
    <2> SUFFICES ASSUME NEW i \in 1 .. Len(r) PROVE r[i] \in ToSet(q) \ {x}
      BY <1>2 DEF ToSet
    <2> DEFINE n == IF i < k THEN i ELSE i + 1
    <2>1. n \in 1 .. Len(q) /\ n # k /\ r[i] = q[n]
      BY <1>2
    <2>. QED BY <1>1, <2>1 DEF ToSet
  <1>5. ToSet(q) \ {x} \subseteq ToSet(r)
    <2> SUFFICES ASSUME NEW i \in 1 .. Len(q), q[i] # x PROVE q[i] \in ToSet(r)
      BY DEF ToSet
    <2> DEFINE n == IF i < k THEN i ELSE i - 1
    <2>1. n \in 1 .. Len(r) /\ r[n] = q[i]
      BY <1>1, <1>2
    <2>. QED BY <1>2, <2>1 DEF ToSet
  <1>. QED BY <1>2, <1>3, <1>4, <1>5 DEF r

\* Two sets without a common element.
LEMMA DisjointUnion ==
  ASSUME NEW S, NEW T, IsFiniteSet(S), IsFiniteSet(T), S \intersect T = {}
  PROVE  Cardinality(S \union T) = Cardinality(S) + Cardinality(T)
  <1>1. Cardinality(S \intersect T) = 0
    BY FS_EmptySet
  <1>2. Cardinality(S) \in Nat /\ Cardinality(T) \in Nat
    BY FS_CardinalityType
  <1>3. Cardinality(S \union T) = Cardinality(S) + Cardinality(T) - Cardinality(S \intersect T)
    BY FS_Union
  <1>. QED BY <1>1, <1>2, <1>3

Injective(f, S) == \A x, y \in S : f[x] = f[y] => x = y
Image(f, S) == {f[x] : x \in S}

\* The image of a finite set under a function that repeats no value.
LEMMA ImageCardinality ==
  ASSUME NEW S, IsFiniteSet(S), NEW T, NEW f \in [S -> T], Injective(f, S)
  PROVE  IsFiniteSet(Image(f, S)) /\ Cardinality(Image(f, S)) = Cardinality(S)
  <1> DEFINE image == Image(f, S)
  <1>1. f \in [S -> image]
    BY DEF Image
  <1>2. f \in Bijection(S, image)
    BY <1>1 DEF Image, Injective, Bijection, Injection, Surjection, IsInjective
  <1> HIDE DEF image
  <1>3. ExistsBijection(S, image)
    BY <1>2 DEF ExistsBijection
  <1>4. IsFiniteSet(image) /\ Cardinality(image) = Cardinality(S)
    BY <1>3, FS_Bijection
  <1>. QED BY <1>4 DEF image

\* A sequence without repetition has as many members as positions.
LEMMA DistinctLength ==
  ASSUME NEW S, NEW q \in Seq(S), \A i, j \in DOMAIN q : q[i] = q[j] => i = j
  PROVE  IsFiniteSet(ToSet(q)) /\ Cardinality(ToSet(q)) = Len(q)
  <1>1. q \in [1 .. Len(q) -> S] /\ DOMAIN q = 1 .. Len(q) /\ Len(q) \in Nat
    OBVIOUS
  <1>2. IsFiniteSet(1 .. Len(q)) /\ Cardinality(1 .. Len(q)) = Len(q)
    <2> DEFINE n == Len(q)
    <2>1. n \in Int /\ 1 \in Int /\ n >= 0
      BY <1>1
    <2> HIDE DEF n
    <2>2. IsFiniteSet(1 .. n) /\ Cardinality(1 .. n) = IF 1 > n THEN 0 ELSE n - 1 + 1
      BY <2>1, FS_Interval
    <2>3. Cardinality(1 .. n) = n
      BY <2>1, <2>2
    <2>. QED BY <2>2, <2>3 DEF n
  <1>3. ToSet(q) = Image(q, 1 .. Len(q))
    BY <1>1 DEF ToSet, Image
  <1> DEFINE D == 1 .. Len(q)
  <1>4. q \in [D -> S] /\ IsFiniteSet(D) /\ Injective(q, D)
    BY <1>1, <1>2 DEF Injective
  <1> HIDE DEF D
  <1>5. IsFiniteSet(Image(q, D)) /\ Cardinality(Image(q, D)) = Cardinality(D)
    BY <1>4, ImageCardinality
  <1>. QED BY <1>2, <1>3, <1>5 DEF D

-----------------------------------------------------------------------------
(* Sums over finite sets                                                   *)

Total(f, S) == MapThenSumSet(LAMBDA x : f[x], S)

Numeric(f, S) == \A x \in S : f[x] \in Nat

Pick(s) == CHOOSE x \in s : TRUE

\* One level of the recursion by which the library defines a sum over s.
Unfold(f, g, s) == IF s = {} THEN 0 ELSE f[Pick(s)] + g[s \ {Pick(s)}]

Sums(f, D, g) == \A s \in SUBSET D : g[s] = Unfold(f, g, s)

LEMMA PickFacts ==
  ASSUME NEW D, IsFiniteSet(D), NEW s \in SUBSET D, s # {}
  PROVE  /\ IsFiniteSet(s) /\ Cardinality(s) \in Nat /\ Cardinality(s) # 0
         /\ Pick(s) \in s
         /\ s \ {Pick(s)} \in SUBSET D
         /\ Cardinality(s \ {Pick(s)}) = Cardinality(s) - 1
  <1>1. IsFiniteSet(s)
    BY FS_Subset
  <1>2. Pick(s) \in s
    BY Zenon DEF Pick
  <1>3. Cardinality(s) \in Nat /\ Cardinality(s) # 0
    BY <1>1, FS_CardinalityType, FS_EmptySet
  <1>4. Cardinality(s \ {Pick(s)}) = Cardinality(s) - 1
    BY <1>1, <1>2, FS_RemoveElement
  <1>. QED BY <1>1, <1>2, <1>3, <1>4

\* The recursion has a solution.
LEMMA SumsExist ==
  ASSUME NEW D, IsFiniteSet(D), NEW f, Numeric(f, D)
  PROVE  \E g \in [SUBSET D -> Nat] : Sums(f, D, g)
  <1> DEFINE Upto(n, g) == \A s \in SUBSET D : Cardinality(s) <= n => g[s] = Unfold(f, g, s)
             T == {n \in Nat : ~ \E g \in [SUBSET D -> Nat] : Upto(n, g)}
  <1>1. \A s \in SUBSET D : IsFiniteSet(s) /\ Cardinality(s) \in Nat
    BY FS_Subset, FS_CardinalityType
  <1>2. T = {}
    <2> SUFFICES ASSUME T # {} PROVE FALSE
      OBVIOUS
    <2>1. PICK n \in T : \A m \in T : n <= m
      <3> HIDE DEF T
      <3>1. T \subseteq Nat
        BY DEF T
      <3>. QED BY <3>1, LeastNat
    <2>2. CASE n = 0
      <3> DEFINE g == [s \in SUBSET D |-> 0]
      <3>1. \A s \in SUBSET D : Cardinality(s) <= 0 => s = {}
        BY <1>1, FS_EmptySet
      <3>2. g \in [SUBSET D -> Nat] /\ Upto(0, g)
        BY <3>1 DEF Unfold
      <3>. QED BY <2>2, <3>2
    <2>3. CASE n # 0
      <3>1. n \in Nat /\ n - 1 \in Nat /\ n - 1 \notin T
        <4>1. n \in Nat
          OBVIOUS
        <4>. HIDE DEF T
        <4>. QED BY <4>1, <2>1, <2>3
      <3>2. PICK g \in [SUBSET D -> Nat] : Upto(n - 1, g)
        BY <3>1
      <3> DEFINE h == [s \in SUBSET D |-> IF Cardinality(s) = n THEN Unfold(f, g, s) ELSE g[s]]
      <3>3. ASSUME NEW s \in SUBSET D PROVE Unfold(f, g, s) \in Nat
        <4>1. CASE s = {}
          BY <4>1 DEF Unfold
        <4>2. CASE s # {}
          <5>1. f[Pick(s)] \in Nat /\ g[s \ {Pick(s)}] \in Nat
            BY <4>2, PickFacts DEF Numeric
          <5>. QED BY <4>2, <5>1 DEF Unfold
        <4>. QED BY <4>1, <4>2
      <3>4. h \in [SUBSET D -> Nat]
        BY <3>3
      <3>5. ASSUME NEW s \in SUBSET D, Cardinality(s) <= n PROVE h[s] = Unfold(f, h, s)
        <4>1. CASE s = {}
          <5>1. Cardinality(s) # n /\ Cardinality(s) <= n - 1
            BY <4>1, <2>3, <3>1, FS_EmptySet
          <5>2. h[s] = g[s] /\ g[s] = 0
            BY <3>2, <4>1, <5>1 DEF Unfold
          <5>. QED BY <4>1, <5>2 DEF Unfold
        <4>2. CASE s # {}
          <5> DEFINE r == s \ {Pick(s)}
          <5>1. r \in SUBSET D /\ Cardinality(s) \in Nat /\ Cardinality(r) = Cardinality(s) - 1
            BY <4>2, PickFacts
          <5>2. h[r] = g[r]
            BY <3>1, <3>5, <5>1
          <5>3. h[s] = Unfold(f, g, s)
            BY <3>1, <3>2, <3>5, <5>1
          <5>. QED BY <4>2, <5>2, <5>3 DEF Unfold
        <4>. QED BY <4>1, <4>2
      <3>6. Upto(n, h)
        BY <3>5
      <3> HIDE DEF h, Upto
      <3>7. n \notin T
        BY <3>1, <3>4, <3>6
      <3>. QED BY <3>7, <2>1
    <2>. QED BY <2>2, <2>3
  <1>3. Cardinality(D) \in Nat /\ Cardinality(D) \notin T
    BY <1>1, <1>2
  <1>4. PICK g \in [SUBSET D -> Nat] : Upto(Cardinality(D), g)
    BY <1>3
  <1>5. \A s \in SUBSET D : Cardinality(s) <= Cardinality(D)
    BY FS_Subset
  <1>. QED BY <1>4, <1>5 DEF Sums

\* It has only one, also on a smaller set.
LEMMA SumsUnique ==
  ASSUME NEW D, IsFiniteSet(D), NEW f, NEW g, NEW h, NEW E \in SUBSET D,
         Sums(f, D, g), Sums(f, E, h)
  PROVE  \A s \in SUBSET E : h[s] = g[s]
  <1> DEFINE T == {n \in Nat : \E s \in SUBSET E : Cardinality(s) = n /\ h[s] # g[s]}
  <1>0. IsFiniteSet(E) /\ \A s \in SUBSET E : s \in SUBSET D
    BY FS_Subset
  <1> SUFFICES ASSUME NEW u \in SUBSET E, h[u] # g[u] PROVE FALSE
    OBVIOUS
  <1>1. Cardinality(u) \in T
    BY <1>0, FS_Subset, FS_CardinalityType
  <1>2. PICK n \in T : \A m \in T : n <= m
    <2>1. T \subseteq Nat /\ T # {}
      BY <1>1
    <2> HIDE DEF T
    <2>. QED BY <2>1, LeastNat
  <1>3. PICK s \in SUBSET E : Cardinality(s) = n /\ h[s] # g[s]
    BY <1>2
  <1>4. s # {}
    BY <1>0, <1>3 DEF Sums, Unfold
  <1> DEFINE r == s \ {Pick(s)}
  <1>5. r \in SUBSET E /\ n \in Nat /\ n # 0 /\ Cardinality(r) = n - 1
    BY <1>0, <1>3, <1>4, PickFacts
  <1>6. h[r] = g[r]
    BY <1>2, <1>5
  <1>. QED BY <1>0, <1>3, <1>4, <1>5, <1>6 DEF Sums, Unfold

\* g holds what the library's sum computes on every subset of D.
Table(f, D, g) ==
    /\ g \in [SUBSET D -> Nat]
    /\ Sums(f, D, g)
    /\ \A s \in SUBSET D : Total(f, s) = g[s]

LEMMA TotalAs ==
  ASSUME NEW D, IsFiniteSet(D), NEW f, Numeric(f, D)
  PROVE  \E g : Table(f, D, g)
  <1>1. PICK g \in [SUBSET D -> Nat] : Sums(f, D, g)
    BY SumsExist
  <1>2. ASSUME NEW s \in SUBSET D PROVE Total(f, s) = g[s]
    <2> DEFINE G == CHOOSE h : h = [u \in SUBSET s |-> Unfold(f, h, u)]
    <2>1. Total(f, s) = G[s]
      BY Zenon DEF Total, MapThenSumSet, MapThenFoldSet, Unfold, Pick
    <2>2. IsFiniteSet(s) /\ Numeric(f, s)
      BY FS_Subset DEF Numeric
    <2>3. PICK h \in [SUBSET s -> Nat] : Sums(f, s, h)
      BY <2>2, SumsExist
    <2>4. h = [u \in SUBSET s |-> Unfold(f, h, u)]
      BY <2>3 DEF Sums
    <2>5. G = [u \in SUBSET s |-> Unfold(f, G, u)]
      BY <2>4, Zenon
    <2> HIDE DEF G
    <2>6. Sums(f, s, G)
      BY <2>5, Zenon DEF Sums
    <2>7. G[s] = g[s]
      BY <1>1, <2>6, SumsUnique
    <2>. QED BY <2>1, <2>7
  <1>. QED BY <1>1, <1>2 DEF Table

\* Any element may be taken out first.
LEMMA SumsAnyOrder ==
  ASSUME NEW D, IsFiniteSet(D), NEW f, Numeric(f, D),
         NEW g, g \in [SUBSET D -> Nat], Sums(f, D, g), NEW u \in SUBSET D, NEW v \in u
  PROVE  g[u] = f[v] + g[u \ {v}]
  <1> DEFINE T == {n \in Nat : \E s \in SUBSET D : \E x \in s :
                                  Cardinality(s) = n /\ g[s] # f[x] + g[s \ {x}]}
  <1> SUFFICES ASSUME g[u] # f[v] + g[u \ {v}]
               PROVE  FALSE
    OBVIOUS
  <1>1. Cardinality(u) \in T
    BY FS_Subset, FS_CardinalityType
  <1>2. PICK n \in T : \A m \in T : n <= m
    <2>1. T \subseteq Nat /\ T # {}
      BY <1>1
    <2> HIDE DEF T
    <2>. QED BY <2>1, LeastNat
  <1>3a. PICK s \in SUBSET D : \E x \in s : Cardinality(s) = n /\ g[s] # f[x] + g[s \ {x}]
    BY <1>2
  <1>3. PICK x \in s : Cardinality(s) = n /\ g[s] # f[x] + g[s \ {x}]
    BY <1>3a
  <1> DEFINE y == Pick(s)
             r == s \ {y}
             q == s \ {x}
  <1>4. y \in s /\ r \in SUBSET D /\ n \in Nat /\ n # 0 /\ Cardinality(r) = n - 1
    BY <1>3, PickFacts
  <1>5. q \in SUBSET D /\ Cardinality(q) = n - 1
    BY <1>3, FS_Subset, FS_RemoveElement
  <1>6. g[s] = f[y] + g[r]
    BY <1>3 DEF Sums, Unfold
  <1>7. x # y
    BY <1>3, <1>6
  <1>8. n - 1 \notin T
    <2> HIDE DEF T
    <2>. QED BY <1>2, <1>4
  <1>9. x \in r /\ y \in q /\ r \ {x} = q \ {y} /\ r \ {x} \in SUBSET D
    BY <1>4, <1>5, <1>7
  <1>10. g[r] = f[x] + g[r \ {x}]
    <2> HIDE DEF r, y
    <2>1. n - 1 \in Nat
      BY <1>4
    <2>2. g[r] # f[x] + g[r \ {x}] => n - 1 \in T
      BY <2>1, <1>4, <1>9
    <2> HIDE DEF T
    <2>. QED BY <2>2, <1>8
  <1>11. g[q] = f[y] + g[q \ {y}]
    <2> HIDE DEF q, y
    <2>1. n - 1 \in Nat
      BY <1>4
    <2>2. g[q] # f[y] + g[q \ {y}] => n - 1 \in T
      BY <2>1, <1>5, <1>9
    <2> HIDE DEF T
    <2>. QED BY <2>2, <1>8
  <1>12. f[x] \in Nat /\ f[y] \in Nat /\ g[r \ {x}] \in Nat
    BY <1>4, <1>9 DEF Numeric
  <1>13. g[s] # f[x] + g[q]
    BY <1>3
  <1> HIDE DEF q, r, y
  <1>14. g[q] = f[y] + g[r \ {x}]
    BY <1>9, <1>11
  <1>15. ASSUME NEW a \in Nat, NEW b \in Nat, NEW c \in Nat PROVE a + (b + c) = b + (a + c)
    OBVIOUS
  <1>16. f[y] + (f[x] + g[r \ {x}]) = f[x] + (f[y] + g[r \ {x}])
    BY <1>12, <1>15
  <1>. QED BY <1>6, <1>10, <1>13, <1>14, <1>16

LEMMA TotalEmpty == ASSUME NEW f PROVE Total(f, {}) = 0
  <1>1. IsFiniteSet({}) /\ Numeric(f, {})
    BY FS_EmptySet DEF Numeric
  <1>2. PICK g : Table(f, {}, g)
    BY <1>1, TotalAs
  <1>. QED BY <1>2 DEF Table, Sums, Unfold

LEMMA TotalNat ==
  ASSUME NEW S, IsFiniteSet(S), NEW f, Numeric(f, S)
  PROVE  Total(f, S) \in Nat
  <1>1. PICK g : Table(f, S, g)
    BY TotalAs
  <1>. QED BY <1>1 DEF Table

LEMMA TotalRemove ==
  ASSUME NEW S, IsFiniteSet(S), NEW f, Numeric(f, S), NEW x \in S
  PROVE  Total(f, S) = f[x] + Total(f, S \ {x})
  <1>1. PICK g : Table(f, S, g)
    BY TotalAs
  <1>2. g[S] = f[x] + g[S \ {x}]
    BY <1>1, SumsAnyOrder DEF Table
  <1>. QED BY <1>1, <1>2 DEF Table

LEMMA TotalAdd ==
  ASSUME NEW S, IsFiniteSet(S), NEW f, Numeric(f, S),
         NEW x, x \notin S, f[x] \in Nat
  PROVE  Total(f, S \union {x}) = f[x] + Total(f, S)
  <1> DEFINE R == S \union {x}
  <1>1. IsFiniteSet(R) /\ x \in R /\ R \ {x} = S /\ Numeric(f, R)
    BY FS_AddElement DEF Numeric
  <1> HIDE DEF R
  <1>2. Total(f, R) = f[x] + Total(f, R \ {x})
    BY <1>1, TotalRemove
  <1>. QED BY <1>1, <1>2 DEF R

\* A sum of numbers does not grow when elements are dropped.
LEMMA TotalMonotone ==
  ASSUME NEW S, IsFiniteSet(S), NEW f, Numeric(f, S), NEW R \in SUBSET S
  PROVE  Total(f, R) <= Total(f, S)
  <1> DEFINE T == {n \in Nat : \E s \in SUBSET S : R \subseteq s /\ Cardinality(s) = n
                                                 /\ ~(Total(f, R) <= Total(f, s))}
  <1> SUFFICES ASSUME ~(Total(f, R) <= Total(f, S)) PROVE FALSE
    OBVIOUS
  <1>1. \A s \in SUBSET S : /\ IsFiniteSet(s) /\ Cardinality(s) \in Nat
                            /\ Numeric(f, s) /\ Total(f, s) \in Nat
    <2> SUFFICES ASSUME NEW s \in SUBSET S
                 PROVE  /\ IsFiniteSet(s) /\ Cardinality(s) \in Nat
                        /\ Numeric(f, s) /\ Total(f, s) \in Nat
      OBVIOUS
    <2>1. IsFiniteSet(s) /\ Numeric(f, s)
      BY FS_Subset DEF Numeric
    <2>. QED BY <2>1, FS_CardinalityType, TotalNat
  <1>2. Cardinality(S) \in T
    BY <1>1
  <1>3. PICK n \in T : \A m \in T : n <= m
    <2>1. T \subseteq Nat /\ T # {}
      BY <1>2
    <2> HIDE DEF T
    <2>. QED BY <2>1, LeastNat
  <1>4. PICK s \in SUBSET S : R \subseteq s /\ Cardinality(s) = n /\ ~(Total(f, R) <= Total(f, s))
    BY <1>3
  <1>5. PICK x \in s : x \notin R
    BY <1>1, <1>4
  <1>6. /\ Total(f, s) = f[x] + Total(f, s \ {x})
        /\ Cardinality(s \ {x}) = n - 1
    BY <1>1, <1>4, <1>5, TotalRemove, FS_RemoveElement
  <1>7. s \ {x} \in SUBSET S /\ R \subseteq s \ {x} /\ f[x] \in Nat
    BY <1>4, <1>5 DEF Numeric
  <1>8. n - 1 \in Nat
    BY <1>1, <1>6, <1>7
  <1>9. Total(f, R) <= Total(f, s \ {x})
    <2>1. n \in Nat /\ n - 1 \notin T
      <3>1. n \in Nat
        OBVIOUS
      <3>. HIDE DEF T
      <3>. QED BY <3>1, <1>3, <1>8
    <2>. QED BY <2>1, <1>6, <1>7, <1>8
  <1>. QED BY <1>1, <1>4, <1>6, <1>7, <1>9

\* f counts, for every d, the elements of S with the key d.
Counts(f, D, key, S) == \A d \in D : f[d] = Cardinality({x \in S : key[x] = d})

\* What is counted key by key is all there is.
LEMMA TotalOfCounts ==
  ASSUME NEW D, IsFiniteSet(D), NEW S, IsFiniteSet(S), NEW key \in [S -> D],
         NEW f, Counts(f, D, key, S)
  PROVE  Total(f, D) = Cardinality(S)
  <1> DEFINE Of(E) == {x \in S : key[x] \in E}
             T == {n \in Nat : \E E \in SUBSET D : Cardinality(E) = n
                                                   /\ Total(f, E) # Cardinality(Of(E))}
  <1>1. /\ \A s \in SUBSET S : IsFiniteSet(s) /\ Cardinality(s) \in Nat
        /\ \A E \in SUBSET D : IsFiniteSet(E) /\ Cardinality(E) \in Nat
    BY FS_Subset, FS_CardinalityType
  <1>2. ASSUME NEW E \in SUBSET D PROVE Numeric(f, E)
    BY <1>1 DEF Numeric, Counts
  <1> SUFFICES ASSUME Total(f, D) # Cardinality(S) PROVE FALSE
    OBVIOUS
  <1>3. Cardinality(D) \in T
    <2>1. Of(D) = S
      OBVIOUS
    <2>. QED BY <1>1, <2>1
  <1>4. PICK n \in T : \A m \in T : n <= m
    <2>1. T \subseteq Nat /\ T # {}
      BY <1>3
    <2> HIDE DEF T
    <2>. QED BY <2>1, LeastNat
  <1>5. PICK E \in SUBSET D : Cardinality(E) = n /\ Total(f, E) # Cardinality(Of(E))
    BY <1>4
  <1>6. E # {}
    <2>1. Of({}) = {} /\ Total(f, {}) = 0 /\ Cardinality({}) = 0
      BY TotalEmpty, FS_EmptySet
    <2>. QED BY <1>5, <2>1
  <1>7. PICK d \in E : TRUE
    BY <1>6
  <1> DEFINE R == E \ {d}
  <1>8. R \in SUBSET D /\ n \in Nat /\ Cardinality(R) = n - 1 /\ n - 1 \in Nat
    <2>1. Cardinality(R) = Cardinality(E) - 1
      BY <1>1, <1>7, FS_RemoveElement
    <2>. QED BY <1>1, <1>5, <2>1
  <1>9. Total(f, E) = f[d] + Total(f, R)
    BY <1>1, <1>2, <1>7, TotalRemove
  <1>10. Cardinality(Of(E)) = f[d] + Cardinality(Of(R))
    <2> DEFINE one == {x \in S : key[x] = d}
    <2>1. Of(E) = one \union Of(R) /\ one \intersect Of(R) = {}
      BY <1>7
    <2>2. f[d] = Cardinality(one)
      BY <1>7 DEF Counts
    <2>3. IsFiniteSet(one) /\ IsFiniteSet(Of(R))
      BY <1>1
    <2> HIDE DEF one
    <2>. QED BY <2>1, <2>2, <2>3, DisjointUnion
  <1>11. Total(f, R) = Cardinality(Of(R))
    <2>1. n - 1 \notin T
      <3> HIDE DEF T
      <3>. QED BY <1>4, <1>8
    <2>. QED BY <1>8, <2>1
  <1>. QED BY <1>5, <1>9, <1>10, <1>11
-----------------------------------------------------------------------------
(* Concatenations, and how often a value occurs in a sequence              *)

Occurrences(s, x) == {i \in 1 .. Len(s) : s[i] = x}
HowMany(s, x) == Cardinality(Occurrences(s, x))

LEMMA HowManyNat ==
  ASSUME NEW S, NEW s \in Seq(S), NEW x
  PROVE  IsFiniteSet(Occurrences(s, x)) /\ HowMany(s, x) \in Nat
  <1>1. Len(s) \in Nat
    OBVIOUS
  <1>2. IsFiniteSet(1 .. Len(s))
    BY <1>1, FS_Interval
  <1>3. Occurrences(s, x) \in SUBSET (1 .. Len(s))
    BY DEF Occurrences
  <1>. QED BY <1>2, <1>3, FS_Subset, FS_CardinalityType DEF HowMany

\* A value occurs in a concatenation as often as in its two parts together.
LEMMA ConcatCount ==
  ASSUME NEW S, NEW s \in Seq(S), NEW t \in Seq(S), NEW x
  PROVE  HowMany(s \o t, x) = HowMany(s, x) + HowMany(t, x)
  <1> DEFINE n == Len(s)
             A == Occurrences(s, x)
             B == Occurrences(t, x)
             shift == [i \in B |-> i + n]
             C == Image(shift, B)
  <1>1. n \in Nat /\ Len(t) \in Nat /\ Len(s \o t) = n + Len(t)
    OBVIOUS
  <1>2. A \subseteq 1 .. n /\ B \subseteq 1 .. Len(t)
    BY DEF Occurrences
  <1>3. Occurrences(s \o t, x) = A \union C
    <2>1. \A i \in 1 .. n + Len(t) : (s \o t)[i] = IF i <= n THEN s[i] ELSE t[i - n]
      BY ConcatProperties
    <2>2. ASSUME NEW i \in Occurrences(s \o t, x) PROVE i \in A \union C
      <3>1. i \in 1 .. n + Len(t) /\ (s \o t)[i] = x
        BY <1>1 DEF Occurrences
      <3>2. CASE i <= n
        BY <1>1, <2>1, <3>1, <3>2 DEF Occurrences
      <3>3. CASE ~(i <= n)
        <4>1. i - n \in 1 .. Len(t) /\ t[i - n] = x
          BY <1>1, <2>1, <3>1, <3>3
        <4>2. i - n \in B
          BY <4>1 DEF Occurrences
        <4>3. shift[i - n] = i
          BY <1>1, <3>1, <4>2
        <4>. QED BY <4>2, <4>3 DEF Image
      <3>. QED BY <3>2, <3>3
    <2>3. ASSUME NEW i \in A PROVE i \in Occurrences(s \o t, x)
      BY <1>1, <2>1, <2>3 DEF Occurrences
    <2>4. ASSUME NEW j \in B PROVE shift[j] \in Occurrences(s \o t, x)
      <3>1. j \in 1 .. Len(t) /\ t[j] = x
        BY DEF Occurrences
      <3>2. j + n \in 1 .. n + Len(t) /\ ~(j + n <= n) /\ (j + n) - n = j
        BY <1>1, <3>1
      <3>. QED BY <1>1, <2>1, <3>1, <3>2 DEF Occurrences
    <2>. QED BY <2>2, <2>3, <2>4 DEF Image
  <1>4. A \intersect C = {}
    BY <1>1, <1>2 DEF Image
  <1>5. IsFiniteSet(A) /\ IsFiniteSet(B)
    BY HowManyNat
  <1>6. IsFiniteSet(C) /\ Cardinality(C) = Cardinality(B)
    <2>1. shift \in [B -> Int] /\ Injective(shift, B)
      BY <1>1, <1>2 DEF Injective
    <2>. HIDE DEF shift, B
    <2>. QED BY <1>5, <2>1, ImageCardinality
  <1>. HIDE DEF A, B, C
  <1>7. Cardinality(A \union C) = Cardinality(A) + Cardinality(B)
    BY <1>4, <1>5, <1>6, DisjointUnion
  <1>. QED BY <1>3, <1>7 DEF HowMany, A, B

\* A sequence that repeats one value.
LEMMA ConstantCount ==
  ASSUME NEW S, NEW s \in Seq(S), NEW v, \A k \in 1 .. Len(s) : s[k] = v, NEW x
  PROVE  HowMany(s, x) = IF x = v THEN Len(s) ELSE 0
  <1>1. CASE x = v
    <2>1. Occurrences(s, x) = 1 .. Len(s)
      BY <1>1 DEF Occurrences
    <2>2. Len(s) \in Nat
      OBVIOUS
    <2>3. Cardinality(1 .. Len(s)) = Len(s)
      BY <2>2, FS_Interval
    <2>. QED BY <1>1, <2>1, <2>3 DEF HowMany
  <1>2. CASE x # v
    <2>1. Occurrences(s, x) = {}
      BY <1>2 DEF Occurrences
    <2>. QED BY <1>2, <2>1, FS_EmptySet DEF HowMany
  <1>. QED BY <1>1, <1>2

\* f[i] is the concatenation of the first i sequences.
Chain(f, n, seqs) ==
    \A i \in 1 .. n : f[i] = IF i = 1 THEN seqs[i] ELSE f[i - 1] \o seqs[i]

LEMMA ChainExists ==
  ASSUME NEW S, NEW n \in Nat, NEW seqs \in [1 .. n -> Seq(S)]
  PROVE  \E f \in [1 .. n -> Seq(S)] : Chain(f, n, seqs)
  <1> DEFINE T == {m \in 0 .. n : ~ \E f \in [1 .. m -> Seq(S)] : Chain(f, m, seqs)}
  <1>. SUFFICES ASSUME T # {} PROVE FALSE
    OBVIOUS
  <1>1. PICK m \in T : \A k \in T : m <= k
    <2>1. T \subseteq Nat
      OBVIOUS
    <2>. HIDE DEF T
    <2>. QED BY <2>1, LeastNat
  <1>2. CASE m = 0
    <2>1. [i \in 1 .. 0 |-> <<>>] \in [1 .. 0 -> Seq(S)] /\ Chain([i \in 1 .. 0 |-> <<>>], 0, seqs)
      BY DEF Chain
    <2>. QED BY <1>1, <1>2, <2>1
  <1>3. CASE m # 0
    <2>1. m \in 1 .. n /\ m - 1 \in 0 .. n /\ m - 1 \notin T
      <3>1. m \in 0 .. n
        OBVIOUS
      <3>. HIDE DEF T
      <3>. QED BY <1>1, <1>3, <3>1
    <2>2. PICK f \in [1 .. m - 1 -> Seq(S)] : Chain(f, m - 1, seqs)
      BY <2>1
    <2> DEFINE v == IF m = 1 THEN seqs[m] ELSE f[m - 1] \o seqs[m]
               g == [i \in 1 .. m |-> IF i = m THEN v ELSE f[i]]
    <2>3. v \in Seq(S)
      <3>1. seqs[m] \in Seq(S)
        BY <2>1
      <3>2. CASE m = 1
        BY <3>1, <3>2
      <3>3. CASE m # 1
        <4>1. f[m - 1] \in Seq(S)
          BY <2>1, <3>3
        <4>. QED BY <3>1, <3>3, <4>1, ConcatProperties
      <3>. QED BY <3>2, <3>3
    <2>4. g \in [1 .. m -> Seq(S)]
      BY <2>1, <2>3
    <2>5. ASSUME NEW i \in 1 .. m
          PROVE  g[i] = IF i = 1 THEN seqs[i] ELSE g[i - 1] \o seqs[i]
      <3>. HIDE DEF v
      <3>1. i # 1 => i - 1 \in 1 .. m /\ i - 1 # m /\ g[i - 1] = f[i - 1]
        BY <2>1
      <3>2. CASE i = m
        BY <3>1, <3>2 DEF v
      <3>3. CASE i # m
        <4>1. i \in 1 .. m - 1 /\ g[i] = f[i]
          BY <2>1, <3>3
        <4>. QED BY <2>2, <3>1, <4>1 DEF Chain
      <3>. QED BY <3>2, <3>3
    <2>6. Chain(g, m, seqs)
      BY <2>5 DEF Chain
    <2>. HIDE DEF g
    <2>. QED BY <1>1, <2>4, <2>6
  <1>. QED BY <1>2, <1>3

\* The library's concatenation is the end of a chain.
LEMMA FlattenIs ==
  ASSUME NEW S, NEW n \in Nat \ {0}, NEW seqs \in [1 .. n -> Seq(S)]
  PROVE  \E f \in [1 .. n -> Seq(S)] : Chain(f, n, seqs) /\ FlattenSeq(seqs) = f[n]
  <1> DEFINE Step(h, i) == IF i = 1 THEN seqs[i] ELSE h[i - 1] \o seqs[i]
             F == CHOOSE h : h = [i \in 1 .. n |-> Step(h, i)]
  <1>1. Len(seqs) = n
    BY LenProperties
  <1>2. FlattenSeq(seqs) = F[n]
    <2>1. Len(seqs) # 0
      BY <1>1
    <2>. QED BY <1>1, <2>1, Zenon DEF FlattenSeq
  <1>3. PICK f \in [1 .. n -> Seq(S)] : Chain(f, n, seqs)
    BY ChainExists
  <1>4. f = [i \in 1 .. n |-> Step(f, i)]
    BY <1>3 DEF Chain
  <1>5. F = [i \in 1 .. n |-> Step(F, i)]
    BY <1>4, Zenon
  <1>. HIDE DEF F
  <1>6. Chain(F, n, seqs)
    BY <1>5 DEF Chain
  <1>7. \A i \in 1 .. n : F[i] = f[i]
    <2> DEFINE T == {i \in 1 .. n : F[i] # f[i]}
    <2>. SUFFICES ASSUME T # {} PROVE FALSE
      OBVIOUS
    <2>1. PICK m \in T : \A k \in T : m <= k
      <3>1. T \subseteq Nat
        OBVIOUS
      <3>. HIDE DEF T
      <3>. QED BY <3>1, LeastNat
    <2>2. CASE m = 1
      BY <1>3, <1>6, <2>1, <2>2 DEF Chain
    <2>3. CASE m # 1
      <3>1. m - 1 \in 1 .. n /\ m - 1 \notin T
        BY <2>1, <2>3
      <3>2. F[m - 1] = f[m - 1]
        BY <3>1
      <3>3. f[m] = f[m - 1] \o seqs[m] /\ F[m] = F[m - 1] \o seqs[m]
        BY <1>3, <1>6, <2>3 DEF Chain
      <3>. QED BY <2>1, <3>2, <3>3
    <2>. QED BY <2>2, <2>3
  <1>8. FlattenSeq(seqs) = f[n]
    <2>1. n \in 1 .. n
      OBVIOUS
    <2>. QED BY <1>2, <1>7, <2>1
  <1>. QED BY <1>3, <1>8

-----------------------------------------------------------------------------
(* Rotation                                                                *)

LEMMA DivMod ==
  ASSUME NEW x \in Nat, NEW l \in Nat \ {0}
  PROVE  x \div l \in Nat /\ x % l \in 0 .. l - 1 /\ x = l * (x \div l) + (x % l)
  OBVIOUS

\* l numbers in a row have different remainders modulo l.
LEMMA RemaindersDiffer ==
  ASSUME NEW c \in Nat, NEW l \in Nat \ {0}, NEW i \in 0 .. l - 1, NEW j \in 0 .. l - 1,
         (c + i) % l = (c + j) % l
  PROVE  i = j
  <1> DEFINE p == (c + i) \div l
             q == (c + j) \div l
             r == (c + i) % l
  <1>1. p \in Nat /\ q \in Nat /\ r \in Int /\ c + i = l * p + r /\ c + j = l * q + r
    <2>1. c + i \in Nat /\ c + j \in Nat
      OBVIOUS
    <2>2. \A x \in Nat : /\ x \div l \in Nat /\ x % l \in Int
                         /\ x = l * (x \div l) + (x % l)
      BY DivMod
    <2>3. (c + j) % l = r
      OBVIOUS
    <2>. QED BY <2>1, <2>2, <2>3, Zenon
  <1>. HIDE DEF p, q, r
  <1>2. i - j = l * p - l * q /\ j - i = l * q - l * p
    BY <1>1
  <1>3. p > q => l * p - l * q >= l
    BY <1>1
  <1>4. q > p => l * q - l * p >= l
    BY <1>1
  <1>5. i - j < l /\ j - i < l
    OBVIOUS
  <1>6. p = q
    BY <1>1, <1>2, <1>3, <1>4, <1>5
  <1>. QED BY <1>1, <1>6

\* A full round over a sequence, from wherever it starts, meets each value as
\* often as it occurs.
LEMMA FullRound ==
  ASSUME NEW S, NEW s \in Seq(S), Len(s) # 0, NEW c \in Nat, NEW x
  PROVE  Cardinality({k \in 0 .. Len(s) - 1 : s[((c + k) % Len(s)) + 1] = x}) = HowMany(s, x)
  <1> DEFINE l == Len(s)
             D == 0 .. l - 1
             R == 1 .. l
             at == [k \in D |-> ((c + k) % l) + 1]
             K == {k \in D : s[((c + k) % l) + 1] = x}
  <1>1. l \in Nat \ {0}
    OBVIOUS
  <1>. HIDE DEF l
  <1>2. at \in [D -> R]
    <2>1. ASSUME NEW k \in D PROVE ((c + k) % l) + 1 \in R
      BY <1>1, DivMod
    <2>. QED BY <2>1
  <1>3. Injective(at, D)
    <2>1. ASSUME NEW i \in D, NEW j \in D, at[i] = at[j] PROVE i = j
      <3>1. (c + i) % l \in Int /\ (c + j) % l \in Int
        BY <1>1, DivMod
      <3>2. (c + i) % l = (c + j) % l
        BY <2>1, <3>1
      <3>. QED BY <1>1, <3>2, RemaindersDiffer
    <2>. QED BY <2>1, Zenon DEF Injective
  <1>4. IsFiniteSet(D) /\ IsFiniteSet(R) /\ Cardinality(D) = Cardinality(R)
    BY <1>1, FS_Interval
  <1>5. \A k \in D : at[k] = ((c + k) % l) + 1
    OBVIOUS
  <1>6. \A i \in R : \E k \in D : at[k] = i
    <2>. HIDE DEF D, R, at
    <2>1. at \in Injection(D, R)
      BY <1>2, <1>3 DEF Injection, IsInjective, Injective
    <2>2. at \in Surjection(D, R)
      BY <1>4, <2>1, FS_Injection
    <2>. QED BY <2>2 DEF Surjection
  <1>7. Image(at, K) = Occurrences(s, x)
    <2>. HIDE DEF at
    <2>1. \A i : i \in Occurrences(s, x) <=> i \in R /\ s[i] = x
      BY DEF Occurrences, l
    <2>2. \A k : k \in K <=> k \in D /\ s[at[k]] = x
      BY <1>5
    <2>. HIDE DEF D, R, K
    <2>. QED BY <1>2, <1>6, <2>1, <2>2 DEF Image
  <1>8. IsFiniteSet(K) /\ K \subseteq D
    BY <1>4, FS_Subset
  <1>9. Cardinality(Image(at, K)) = Cardinality(K)
    <2> DEFINE on == [k \in K |-> at[k]]
    <2>. HIDE DEF K, D, R, at
    <2>1. on \in [K -> R] /\ Injective(on, K) /\ Image(on, K) = Image(at, K)
      BY <1>2, <1>3, <1>8 DEF Injective, Image
    <2>. HIDE DEF on
    <2>. QED BY <1>8, <2>1, ImageCardinality
  <1>. QED BY <1>7, <1>9 DEF HowMany, l

=============================================================================
