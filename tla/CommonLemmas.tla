---------------------------- MODULE CommonLemmas ----------------------------
(***************************************************************************)
(* Facts that the proofs of several modules rest on: induction, sequences, *)
(* and what the count and the membership of the added capabilities amount  *)
(* to.                                                                     *)
(***************************************************************************)
EXTENDS SecurityProfile, SequencesExt, FiniteSetTheorems, TLAPS

-----------------------------------------------------------------------------
(* Induction, over sets instead of predicates.                             *)

\* A set of numbers has a least element: of its initial segments, which are finite sets,
\* one is contained in all others.
LEMMA LeastElement ==
  ASSUME NEW S \in SUBSET Nat, S # {}
  PROVE  \E m \in S : \A n \in S : m <= n
<1> DEFINE Up(n) == 0..n
           T == {Up(n) : n \in S}
<1>1. T \subseteq FiniteSubsetsOf(Nat)
  <2> SUFFICES ASSUME NEW n \in S PROVE Up(n) \in FiniteSubsetsOf(Nat)
    OBVIOUS
  <2>1. 0 \in Int /\ n \in Int
    OBVIOUS
  <2>2. IsFiniteSet(0..n)
    BY <2>1, FS_Interval
  <2> QED BY <2>2 DEF FiniteSubsetsOf
<1>2. T # {}
  OBVIOUS
<1>3. PICK x \in T : \A y \in T : ~(<<y, x>> \in StrictSubsetOrdering(Nat))
  <2>1. IsWellFoundedOn(StrictSubsetOrdering(Nat), FiniteSubsetsOf(Nat))
    BY FS_StrictSubsetOrderingWellFounded
  <2> HIDE DEF T
  <2> QED BY <1>1, <1>2, <2>1, WFMin
<1>4. PICK m \in S : x = Up(m)
  OBVIOUS
<1>5. ASSUME NEW n \in S, n < m PROVE FALSE
  <2>1. Up(n) \in T /\ Up(n) \subseteq x /\ Up(n) # x
    BY <1>4, <1>5
  <2>2. <<Up(n), x>> \in StrictSubsetOrdering(Nat)
    BY <1>4, <2>1 DEF StrictSubsetOrdering
  <2> QED BY <1>3, <2>1, <2>2
<1> QED BY <1>5

LEMMA SetInduction ==
  ASSUME NEW S, 0 \in S, \A n \in Nat : n \in S => n + 1 \in S
  PROVE  Nat \subseteq S
<1> SUFFICES ASSUME Nat \ S # {} PROVE FALSE
  OBVIOUS
<1>1. PICK m \in Nat \ S : \A n \in Nat \ S : m <= n
  BY LeastElement
<1>2. m - 1 \in Nat /\ m - 1 \in S
  BY <1>1
<1> QED BY <1>1, <1>2

-----------------------------------------------------------------------------
(* FlattenSeq.                                                             *)

\* f holds the concatenations of the first i elements, for i up to n.
Flattens(f, seqs, n) ==
  /\ f = [i \in 1..n |-> f[i]]
  /\ \A i \in 1..n : f[i] = IF i = 1 THEN seqs[i] ELSE f[i - 1] \o seqs[i]

LEMMA FlattensEquation ==
  ASSUME NEW f, NEW seqs, NEW n
  PROVE  Flattens(f, seqs, n)
         <=> f = [i \in 1..n |-> IF i = 1 THEN seqs[i] ELSE f[i - 1] \o seqs[i]]
<1> DEFINE g == [i \in 1..n |-> IF i = 1 THEN seqs[i] ELSE f[i - 1] \o seqs[i]]
<1>1. /\ g = [i \in 1..n |-> g[i]]
      /\ \A i \in 1..n : g[i] = IF i = 1 THEN seqs[i] ELSE f[i - 1] \o seqs[i]
  OBVIOUS
<1> HIDE DEF g
<1>2. ASSUME f = g PROVE Flattens(f, seqs, n)
  BY <1>1, <1>2 DEF Flattens
<1>3. ASSUME Flattens(f, seqs, n) PROVE f = g
  <2>1. /\ f = [i \in 1..n |-> f[i]]
        /\ \A i \in 1..n : f[i] = g[i]
    BY <1>1, <1>3 DEF Flattens
  <2> QED BY <1>1, <2>1
<1> QED BY <1>2, <1>3 DEF g

LEMMA FlattensExists ==
  ASSUME NEW seqs, NEW n \in Nat
  PROVE  \E f : Flattens(f, seqs, n)
<1> DEFINE S == {k \in Nat : \E f : Flattens(f, seqs, k)}
<1>1. 0 \in S
  <2>1. Flattens([i \in {} |-> 0], seqs, 0)
    BY DEF Flattens
  <2> QED BY <2>1
<1>2. ASSUME NEW k \in Nat, k \in S PROVE k + 1 \in S
  <2>1. PICK f : Flattens(f, seqs, k)
    BY <1>2
  <2> DEFINE g == [i \in 1..(k + 1) |->
                     IF i <= k THEN f[i] ELSE IF i = 1 THEN seqs[i] ELSE f[i - 1] \o seqs[i]]
  <2>2. ASSUME NEW i \in 1..(k + 1)
        PROVE  g[i] = IF i = 1 THEN seqs[i] ELSE g[i - 1] \o seqs[i]
    <3>1. CASE i <= k
      <4>1. f[i] = IF i = 1 THEN seqs[i] ELSE f[i - 1] \o seqs[i]
        <5>1. i \in 1..k
          BY <3>1
        <5> QED BY <2>1, <5>1, Zenon DEF Flattens
      <4>2. i # 1 => i - 1 \in 1..(k + 1) /\ i - 1 <= k
        OBVIOUS
      <4> QED BY <3>1, <4>1, <4>2
    <3>2. CASE i = k + 1
      <4>1. i # 1 => i - 1 \in 1..(k + 1) /\ i - 1 <= k
        OBVIOUS
      <4> QED BY <3>2, <4>1
    <3> QED BY <3>1, <3>2
  <2>3. g = [i \in 1..(k + 1) |-> g[i]]
    OBVIOUS
  <2>4. Flattens(g, seqs, k + 1)
    <3> HIDE DEF g
    <3> QED BY <2>2, <2>3 DEF Flattens
  <2> QED BY <2>4
<1>3. Nat \subseteq S
  <2> HIDE DEF S
  <2> QED BY <1>1, <1>2, SetInduction
<1> QED BY <1>3

\* Up to n, s and t are the same.
Agree(s, t, n) == \A i \in 1..n : s[i] = t[i]

LEMMA FlattensUnique ==
  ASSUME NEW n \in Nat, NEW m \in Nat, n <= m,
         NEW s, NEW t, Agree(s, t, n),
         NEW f, Flattens(f, s, n), NEW g, Flattens(g, t, m)
  PROVE  Agree(f, g, n)
<1> USE DEF Agree
<1> DEFINE S == {j \in Nat : j \in 1..n => f[j] = g[j]}
<1>1. 0 \in S
  OBVIOUS
<1>2. ASSUME NEW j \in Nat, j \in S PROVE j + 1 \in S
  <2> SUFFICES ASSUME j + 1 \in 1..n PROVE f[j + 1] = g[j + 1]
    OBVIOUS
  <2>1. j + 1 \in 1..n /\ j + 1 \in 1..m /\ (j + 1) - 1 = j
    OBVIOUS
  <2>2. f[j + 1] = IF j + 1 = 1 THEN s[j + 1] ELSE f[j] \o s[j + 1]
    BY <2>1, Zenon DEF Flattens
  <2>3. g[j + 1] = IF j + 1 = 1 THEN t[j + 1] ELSE g[j] \o t[j + 1]
    BY <2>1, Zenon DEF Flattens
  <2>4. j + 1 # 1 => f[j] = g[j]
    BY <1>2
  <2>5. s[j + 1] = t[j + 1]
    OBVIOUS
  <2> QED BY <2>2, <2>3, <2>4, <2>5
<1>3. Nat \subseteq S
  <2> HIDE DEF S
  <2> QED BY <1>1, <1>2, SetInduction
<1> QED BY <1>3

LEMMA FlattenValue ==
  ASSUME NEW n \in Nat \ {0}, NEW s, Len(s) = n
  PROVE  \E f : Flattens(f, s, n) /\ FlattenSeq(s) = f[n]
<1> DEFINE E(f) == f = [i \in 1..n |-> IF i = 1 THEN s[i] ELSE f[i - 1] \o s[i]]
           F == CHOOSE f : E(f)
<1>1. \E f : E(f)
  <2>1. PICK f : Flattens(f, s, n)
    BY FlattensExists
  <2>2. E(f)
    BY <2>1, FlattensEquation
  <2> QED BY <2>2
<1>2. E(F)
  <2> HIDE DEF E
  <2> QED BY <1>1
<1>3. FlattenSeq(s) = F[n]
  BY DEF FlattenSeq
<1>4. Flattens(F, s, n)
  <2> HIDE DEF F
  <2> QED BY <1>2, FlattensEquation
<1> QED BY <1>3, <1>4

\* FlattenSeq by its equations.
LEMMA FlattenEmpty == FlattenSeq(<<>>) = <<>>
BY DEF FlattenSeq

LEMMA FlattenAppend ==
  ASSUME NEW S, NEW s \in Seq(Seq(S)), NEW x \in Seq(S)
  PROVE  FlattenSeq(Append(s, x)) = FlattenSeq(s) \o x
<1> DEFINE n == Len(s)
           t == Append(s, x)
<1>1. /\ n \in Nat /\ Len(t) = n + 1 /\ t[n + 1] = x
      /\ \A i \in 1..n : t[i] = s[i]
  OBVIOUS
<1>2. PICK g : Flattens(g, t, n + 1) /\ FlattenSeq(t) = g[n + 1]
  <2> HIDE DEF t, n
  <2> QED BY <1>1, FlattenValue
<1>3. g[n + 1] = IF n + 1 = 1 THEN x ELSE g[n] \o x
  <2>1. n + 1 \in 1..(n + 1) /\ (n + 1) - 1 = n
    BY <1>1
  <2> HIDE DEF n, t
  <2> QED BY <1>1, <1>2, <2>1, Zenon DEF Flattens
<1>4. CASE n = 0
  <2>1. s = <<>>
    BY <1>4
  <2> QED BY <1>2, <1>3, <1>4, <2>1, FlattenEmpty
<1>5. CASE n # 0
  <2>1. PICK f : Flattens(f, s, n) /\ FlattenSeq(s) = f[n]
    <3> HIDE DEF n
    <3>1. n \in Nat \ {0} /\ Len(s) = n
      BY <1>1, <1>5 DEF n
    <3> QED BY <3>1, FlattenValue
  <2>2. f[n] = g[n]
    <3>1. /\ n \in Nat /\ n + 1 \in Nat /\ n <= n /\ n <= n + 1 /\ n \in 1..n
          /\ \A i \in 1..n : s[i] = t[i]
      BY <1>1, <1>5
    <3> HIDE DEF n, t
    <3> DEFINE m == n + 1
    <3>2. m \in Nat /\ n <= m /\ Flattens(g, t, m)
      BY <1>2, <3>1
    <3> HIDE DEF m
    <3>3. \A i \in 1..n : f[i] = g[i]
      <4>1. Agree(s, t, n)
        BY <3>1 DEF Agree
      <4>2. Agree(f, g, n)
        BY <2>1, <3>1, <3>2, <4>1, FlattensUnique
      <4> QED BY <4>2 DEF Agree
    <3> QED BY <3>1, <3>3
  <2> QED BY <1>2, <1>3, <1>5, <2>1, <2>2, <1>1
<1> QED BY <1>4, <1>5

LEMMA FlattenOne ==
  ASSUME NEW S, NEW x \in Seq(S)
  PROVE  FlattenSeq(<<x>>) = x
<1>1. <<>> \in Seq(Seq(S)) /\ <<x>> = Append(<<>>, x)
  OBVIOUS
<1>2. FlattenSeq(<<x>>) = FlattenSeq(<<>>) \o x
  BY <1>1, FlattenAppend
<1> QED BY <1>2, FlattenEmpty

\* Concatenation, for facts in which it is not to be expanded.
Cat(s, t) == s \o t

LEMMA FlattenThree ==
  ASSUME NEW S, NEW x \in Seq(S), NEW y \in Seq(S), NEW z \in Seq(S)
  PROVE  FlattenSeq(<<x, y, z>>) = Cat(Cat(x, y), z)
<1>1. /\ <<x>> \in Seq(Seq(S)) /\ <<x, y>> = Append(<<x>>, y)
      /\ <<x, y>> \in Seq(Seq(S)) /\ <<x, y, z>> = Append(<<x, y>>, z)
  OBVIOUS
<1>2. FlattenSeq(<<x, y>>) = FlattenSeq(<<x>>) \o y
  BY <1>1, FlattenAppend
<1>3. FlattenSeq(<<x, y, z>>) = FlattenSeq(<<x, y>>) \o z
  BY <1>1, FlattenAppend
<1> QED BY <1>2, <1>3, FlattenOne DEF Cat

-----------------------------------------------------------------------------
(* Minimum.                                                                *)

LEMMA MinProperty ==
  ASSUME NEW S \in SUBSET Nat, S # {}
  PROVE  Min(S) \in S /\ \A n \in S : Min(S) <= n
  BY LeastElement DEF Min

-----------------------------------------------------------------------------
(* The elements of a set of positions by their rank.                       *)

UpTo(keep, i) == {j \in keep : j <= i}
Place(keep, m) == CHOOSE i \in keep : Cardinality(UpTo(keep, i)) = m

LEMMA UpToFinite ==
  ASSUME NEW keep, IsFiniteSet(keep), NEW i
  PROVE  /\ IsFiniteSet(UpTo(keep, i))
         /\ Cardinality(UpTo(keep, i)) \in Nat
         /\ Cardinality(UpTo(keep, i)) <= Cardinality(keep)
<1>1. UpTo(keep, i) \in SUBSET keep
  BY DEF UpTo
<1> QED BY <1>1, FS_Subset, FS_CardinalityType

\* Of two positions, the later one has the higher rank.
LEMMA RankInjective ==
  ASSUME NEW keep, keep \subseteq Int, IsFiniteSet(keep), NEW i \in keep, NEW k \in keep,
         Cardinality(UpTo(keep, i)) = Cardinality(UpTo(keep, k))
  PROVE  i = k
<1>1. ASSUME NEW a \in keep, NEW b \in keep, a < b,
             Cardinality(UpTo(keep, a)) = Cardinality(UpTo(keep, b))
      PROVE  FALSE
  <2>1. UpTo(keep, a) \in SUBSET UpTo(keep, b) /\ b \in UpTo(keep, b) /\ b \notin UpTo(keep, a)
    <3>1. a \in Int /\ b \in Int /\ \A j \in keep : j \in Int
      OBVIOUS
    <3>2. \A j \in keep : j <= a => j <= b
      BY <1>1, <3>1
    <3>3. UpTo(keep, a) \in SUBSET UpTo(keep, b)
      BY <3>2 DEF UpTo
    <3>4. b <= b /\ ~(b <= a)
      BY <1>1, <3>1
    <3> QED BY <3>3, <3>4 DEF UpTo
  <2>2. UpTo(keep, b) = UpTo(keep, a)
    BY <1>1, <2>1, UpToFinite, FS_Subset
  <2> QED BY <2>1, <2>2
<1>2. i \in Int /\ k \in Int
  OBVIOUS
<1> QED BY <1>1, <1>2

\* Every rank is taken.
LEMMA PlaceExists ==
  ASSUME NEW keep, keep \subseteq Int, IsFiniteSet(keep), NEW m \in 1..Cardinality(keep)
  PROVE  Place(keep, m) \in keep /\ Cardinality(UpTo(keep, Place(keep, m))) = m
<1> DEFINE c == Cardinality(keep)
           r == [i \in keep |-> Cardinality(UpTo(keep, i))]
<1>1. c \in Nat
  BY FS_CardinalityType
<1>2. \A i \in keep : r[i] \in 1..c
  <2> TAKE i \in keep
  <2>1. i \in UpTo(keep, i)
    BY DEF UpTo
  <2>2. IsFiniteSet(UpTo(keep, i)) /\ r[i] = Cardinality(UpTo(keep, i)) /\ r[i] \in Nat /\ r[i] <= c
    BY UpToFinite
  <2>3. r[i] # 0
    BY <2>1, <2>2, FS_EmptySet
  <2> QED BY <1>1, <2>2, <2>3
<1>3. r \in Injection(keep, 1..c)
  <2>1. \A i, k \in keep : r[i] = r[k] => i = k
    BY RankInjective
  <2>2. r \in [keep -> 1..c]
    <3> HIDE DEF c
    <3> QED BY <1>2
  <2> QED BY <2>1, <2>2 DEF Injection, IsInjective
<1>4. IsFiniteSet(1..c) /\ Cardinality(1..c) = c
  <2>1. 1 \in Int /\ c \in Int
    BY <1>1
  <2>2. IsFiniteSet(1..c) /\ Cardinality(1..c) = IF 1 > c THEN 0 ELSE c - 1 + 1
    BY <2>1, FS_Interval
  <2> HIDE DEF c
  <2> QED BY <1>1, <2>2
<1>5. r \in Surjection(keep, 1..c)
  <2> HIDE DEF r
  <2> QED BY <1>3, <1>4, FS_Injection
<1>6. \E i \in keep : r[i] = m
  BY <1>5 DEF Surjection
<1>7. \E i \in keep : Cardinality(UpTo(keep, i)) = m
  BY <1>6
<1> QED BY <1>7 DEF Place

\* A map of one set of positions onto another that keeps their order keeps their ranks.
Onto(p, keep, kept) ==
  /\ \A i \in keep : p[i] \in kept
  /\ \A q \in kept : \E i \in keep : q = p[i]
  /\ \A i, k \in keep : i <= k <=> p[i] <= p[k]

RanksKept(p, keep, kept) ==
  \A i \in keep : Cardinality(UpTo(kept, p[i])) = Cardinality(UpTo(keep, i))

LEMMA RankKept ==
  ASSUME NEW keep, keep \subseteq Int, NEW kept, kept \subseteq Int, IsFiniteSet(keep), NEW p,
         Onto(p, keep, kept)
  PROVE  /\ IsFiniteSet(kept) /\ Cardinality(kept) = Cardinality(keep)
         /\ RanksKept(p, keep, kept)
<1>0. \A i, k \in keep : p[i] = p[k] => i = k
  <2> SUFFICES ASSUME NEW i \in keep, NEW k \in keep, p[i] = p[k] PROVE i = k
    OBVIOUS
  <2>1. p[i] <= p[k] /\ p[k] <= p[i]
    BY DEF Onto
  <2>2. i <= k /\ k <= i
    BY <2>1 DEF Onto
  <2> QED BY <2>2
<1>1. ASSUME NEW A \in SUBSET keep, NEW B \in SUBSET kept, \A i \in keep : i \in A <=> p[i] \in B
      PROVE  IsFiniteSet(B) /\ Cardinality(B) = Cardinality(A)
  <2> DEFINE f == [i \in A |-> p[i]]
  <2>1. f \in [A -> B]
    BY <1>1
  <2>2. \A q \in B : \E i \in A : f[i] = q
    BY <1>1 DEF Onto
  <2>3. \A i, k \in A : f[i] = f[k] => i = k
    BY <1>0
  <2>4. f \in Bijection(A, B)
    BY <2>1, <2>2, <2>3 DEF Bijection, Injection, IsInjective, Surjection
  <2>5. IsFiniteSet(A)
    BY FS_Subset
  <2>6. ExistsBijection(A, B)
    BY <2>4 DEF ExistsBijection
  <2> QED BY <2>5, <2>6, FS_Bijection
<1>2. IsFiniteSet(kept) /\ Cardinality(kept) = Cardinality(keep)
  BY <1>1 DEF Onto
<1>3. ASSUME NEW i \in keep
      PROVE  Cardinality(UpTo(kept, p[i])) = Cardinality(UpTo(keep, i))
  <2>1. \A j \in keep : j \in UpTo(keep, i) <=> p[j] \in UpTo(kept, p[i])
    BY DEF Onto, UpTo
  <2>2. UpTo(keep, i) \in SUBSET keep /\ UpTo(kept, p[i]) \in SUBSET kept
    BY DEF UpTo
  <2> QED BY <1>1, <2>1, <2>2
<1> QED BY <1>2, <1>3 DEF RanksKept

LEMMA PlaceKept ==
  ASSUME NEW keep, keep \subseteq Int, NEW kept, kept \subseteq Int, IsFiniteSet(keep), NEW p,
         Onto(p, keep, kept), NEW m \in 1..Cardinality(keep)
  PROVE  Place(kept, m) = p[Place(keep, m)]
<1> DEFINE i == Place(keep, m)
           q == Place(kept, m)
<1>1. i \in keep /\ Cardinality(UpTo(keep, i)) = m
  BY PlaceExists
<1>2. IsFiniteSet(kept) /\ Cardinality(kept) = Cardinality(keep)
  BY RankKept
<1>3. q \in kept /\ Cardinality(UpTo(kept, q)) = m
  BY <1>2, PlaceExists
<1> HIDE DEF i, q
<1>4. p[i] \in kept /\ Cardinality(UpTo(kept, p[i])) = m
  <2>1. p[i] \in kept
    BY <1>1 DEF Onto
  <2>2. RanksKept(p, keep, kept)
    BY RankKept
  <2> QED BY <1>1, <2>1, <2>2 DEF RanksKept
<1>5. q = p[i]
  <2>1. Cardinality(UpTo(kept, q)) = Cardinality(UpTo(kept, p[i]))
    BY <1>3, <1>4
  <2>2. IsFiniteSet(kept) /\ q \in kept /\ p[i] \in kept
    BY <1>2, <1>3, <1>4
  <2> QED BY <2>1, <2>2, RankInjective
<1> QED BY <1>5 DEF i, q

-----------------------------------------------------------------------------
(* Lists without doubles.                                                  *)

\* What a concatenation holds.
LEMMA ConcatRange ==
  ASSUME NEW X, NEW s \in Seq(X), NEW t \in Seq(X)
  PROVE  Range(s \o t) = Range(s) \cup Range(t)
<1>1. ASSUME NEW i \in DOMAIN s PROVE i \in DOMAIN (s \o t) /\ (s \o t)[i] = s[i]
  OBVIOUS
<1>2. ASSUME NEW i \in DOMAIN t
      PROVE  i + Len(s) \in DOMAIN (s \o t) /\ (s \o t)[i + Len(s)] = t[i]
  OBVIOUS
<1>3. ASSUME NEW i \in DOMAIN (s \o t)
      PROVE  \/ i \in DOMAIN s /\ (s \o t)[i] = s[i]
             \/ i - Len(s) \in DOMAIN t /\ (s \o t)[i] = t[i - Len(s)]
  OBVIOUS
<1> DEFINE u == s \o t
<1> HIDE DEF u
<1>4. Range(s) \cup Range(t) \subseteq Range(u)
  BY <1>1, <1>2 DEF Range, u
<1>5. Range(u) \subseteq Range(s) \cup Range(t)
  BY <1>3 DEF Range, u
<1> QED BY <1>4, <1>5 DEF u

\* s lists the elements of X, each once.
Lists(s, X) ==
  /\ s \in Seq(X) /\ Range(s) = X
  /\ \A i, j \in DOMAIN s : s[i] = s[j] => i = j

LEMMA ListsConcat ==
  ASSUME NEW X, NEW Y, X \cap Y = {}, NEW s, NEW t, Lists(s, X), Lists(t, Y)
  PROVE  Lists(s \o t, X \cup Y)
<1> DEFINE u == s \o t
<1>1. /\ s \in Seq(X) /\ t \in Seq(Y)
      /\ Len(s) \in Nat /\ Len(t) \in Nat /\ DOMAIN s = 1..Len(s) /\ DOMAIN t = 1..Len(t)
  BY DEF Lists
<1>2. /\ s \in Seq(X \cup Y) /\ t \in Seq(X \cup Y)
  BY <1>1
<1>3. /\ u \in Seq(X \cup Y) /\ DOMAIN u = 1..(Len(s) + Len(t))
      /\ \A i \in 1..(Len(s) + Len(t)) : u[i] = IF i <= Len(s) THEN s[i] ELSE t[i - Len(s)]
  BY <1>1, <1>2
<1>4. \A i \in 1..(Len(s) + Len(t)) :
        \/ i \in DOMAIN s /\ u[i] = s[i] /\ u[i] \in X
        \/ i - Len(s) \in DOMAIN t /\ u[i] = t[i - Len(s)] /\ u[i] \in Y
  <2> SUFFICES ASSUME NEW i \in 1..(Len(s) + Len(t))
               PROVE  \/ i \in DOMAIN s /\ u[i] = s[i] /\ u[i] \in X
                      \/ i - Len(s) \in DOMAIN t /\ u[i] = t[i - Len(s)] /\ u[i] \in Y
    OBVIOUS
  <2> HIDE DEF u
  <2>1. CASE i <= Len(s)
    BY <1>1, <1>3, <2>1
  <2>2. CASE ~(i <= Len(s))
    <3>1. i - Len(s) \in 1..Len(t)
      BY <1>1, <2>2
    <3> QED BY <1>1, <1>3, <2>2, <3>1
  <2> QED BY <2>1, <2>2
<1> HIDE DEF u
<1>5. ASSUME NEW i \in DOMAIN u, NEW j \in DOMAIN u, u[i] = u[j] PROVE i = j
  <2>1. i \in Int /\ j \in Int /\ Len(s) \in Int
    BY <1>1, <1>3
  <2>2. CASE i \in DOMAIN s /\ u[i] = s[i] /\ u[i] \in X
    <3>1. j \in DOMAIN s /\ u[j] = s[j]
      BY <1>3, <1>4, <1>5, <2>2
    <3> QED BY <1>5, <2>2, <3>1 DEF Lists
  <2>3. CASE i - Len(s) \in DOMAIN t /\ u[i] = t[i - Len(s)] /\ u[i] \in Y
    <3>1. j - Len(s) \in DOMAIN t /\ u[j] = t[j - Len(s)]
      BY <1>3, <1>4, <1>5, <2>3
    <3>2. i - Len(s) = j - Len(s)
      BY <1>5, <2>3, <3>1, Zenon DEF Lists
    <3> QED BY <2>1, <3>2
  <2> QED BY <1>3, <1>4, <2>2, <2>3
<1>6. Range(u) = X \cup Y
  BY <1>1, <1>2, ConcatRange DEF Lists, u
<1> QED BY <1>3, <1>5, <1>6 DEF Lists, u

-----------------------------------------------------------------------------
(* The capabilities of the rootful-sudo profile.                           *)

\* The required capabilities are six.
LEMMA SixRequired ==
  IsFiniteSet(ROOTFUL_SUDO_CAPS) /\ Cardinality(ROOTFUL_SUDO_CAPS) = 6
<1> DEFINE A == {"CHOWN"}
           B == A \cup {"DAC_OVERRIDE"}
           C == B \cup {"FOWNER"}
           D == C \cup {"SETGID"}
           E == D \cup {"SETUID"}
           F == E \cup {"AUDIT_WRITE"}
<1>1. IsFiniteSet(A) /\ Cardinality(A) = 1
  BY FS_Singleton
<1>2. IsFiniteSet(B) /\ Cardinality(B) = 2
  <2>1. "DAC_OVERRIDE" \notin A
    OBVIOUS
  <2> QED BY <1>1, <2>1, FS_AddElement
<1>3. IsFiniteSet(C) /\ Cardinality(C) = 3
  <2>1. "FOWNER" \notin B
    OBVIOUS
  <2> HIDE DEF B
  <2> QED BY <1>2, <2>1, FS_AddElement
<1>4. IsFiniteSet(D) /\ Cardinality(D) = 4
  <2>1. "SETGID" \notin C
    OBVIOUS
  <2> HIDE DEF C
  <2> QED BY <1>3, <2>1, FS_AddElement
<1>5. IsFiniteSet(E) /\ Cardinality(E) = 5
  <2>1. "SETUID" \notin D
    OBVIOUS
  <2> HIDE DEF D
  <2> QED BY <1>4, <2>1, FS_AddElement
<1>6. IsFiniteSet(F) /\ Cardinality(F) = 6
  <2>1. "AUDIT_WRITE" \notin E
    OBVIOUS
  <2> HIDE DEF E
  <2> QED BY <1>5, <2>1, FS_AddElement
<1>7. ROOTFUL_SUDO_CAPS = F
  BY DEF ROOTFUL_SUDO_CAPS
<1> HIDE DEF F
<1> QED BY <1>6, <1>7

\* Six entries among which all six required capabilities are found hold nothing else and
\* repeat none of them (policy.rs, capabilities_match_rootful_sudo).
THEOREM SudoExact ==
  ASSUME NEW caps \in Capabilities, CapabilitiesMatchRootfulSudo(caps)
  PROVE  ExactlySudo(caps.add)
<1> DEFINE add   == caps.add
           names == CapNames(add)
           f     == [i \in 1..6 |-> add[i].name]
<1>1. /\ add \in Seq(Capability) /\ Len(add) = 6 /\ DOMAIN add = 1..6
      /\ ROOTFUL_SUDO_CAPS \subseteq names
  BY DEF Capabilities, CapabilitiesMatchRootfulSudo
<1>2. names = {add[i].name : i \in 1..6}
  BY <1>1 DEF CapNames, Range
<1>3. f \in Surjection(1..6, names)
  BY <1>2 DEF Surjection
<1>4. IsFiniteSet(1..6) /\ Cardinality(1..6) = 6
  <2>1. /\ IsFiniteSet(1..6)
        /\ Cardinality(1..6) = IF 1 > 6 THEN 0 ELSE 6 - 1 + 1
    <3>1. 1 \in Int /\ 6 \in Int
      OBVIOUS
    <3> QED BY <3>1, FS_Interval, Zenon
  <2> QED BY <2>1
<1>5. /\ IsFiniteSet(names) /\ Cardinality(names) <= 6
      /\ Cardinality(names) = 6 => f \in Injection(1..6, names)
  BY <1>3, <1>4, FS_Surjection
<1>6. /\ Cardinality(names) \in Nat
      /\ Cardinality(ROOTFUL_SUDO_CAPS) <= Cardinality(names)
      /\ Cardinality(names) = Cardinality(ROOTFUL_SUDO_CAPS) => names = ROOTFUL_SUDO_CAPS
  BY <1>1, <1>5, FS_Subset, FS_CardinalityType
<1>7. Cardinality(names) = 6
  BY <1>5, <1>6, SixRequired
<1>8. names = ROOTFUL_SUDO_CAPS
  BY <1>6, <1>7, SixRequired
<1>9. \A i, j \in 1..6 : f[i] = f[j] => i = j
  BY <1>5, <1>7 DEF Injection, IsInjective
<1>10. \A i, j \in DOMAIN add : add[i].name = add[j].name => i = j
  BY <1>1, <1>9
<1> QED BY <1>8, <1>10 DEF ExactlySudo

-----------------------------------------------------------------------------
(* Texts in which every element is replaced by a text.                     *)

Subst(t, f) == FlattenSeq([i \in DOMAIN t |-> f[t[i]]])

LEMMA FrontLast ==
  ASSUME NEW A, NEW t \in Seq(A), NEW n \in Nat, Len(t) = n + 1
  PROVE  /\ Front(t) \in Seq(A) /\ Len(Front(t)) = n /\ Last(t) \in A
         /\ t = Append(Front(t), Last(t))
<1> DEFINE u == SubSeq(t, 1, n)
<1>1. u = [i \in 1..n |-> t[i]]
  OBVIOUS
<1>2. u \in Seq(A) /\ Len(u) = n /\ t[n + 1] \in A
  BY <1>1
<1>3. t = Append(u, t[n + 1])
  BY <1>1
<1>4. Front(t) = u /\ Last(t) = t[n + 1]
  BY DEF Front, Last
<1> QED BY <1>2, <1>3, <1>4

LEMMA CatAssociates ==
  ASSUME NEW A, NEW a \in Seq(A), NEW b \in Seq(A), NEW c \in Seq(A)
  PROVE  Cat(a, b) \in Seq(A) /\ Cat(Cat(a, b), c) = Cat(a, Cat(b, c))
<1>1. (a \o b) \o c = a \o (b \o c)
  OBVIOUS
<1> QED BY <1>1 DEF Cat

LEMMA SubstEmpty ==
  ASSUME NEW f
  PROVE  Subst(<<>>, f) = <<>>
<1>1. [i \in DOMAIN <<>> |-> f[<<>>[i]]] = <<>>
  OBVIOUS
<1> QED BY <1>1, FlattenEmpty DEF Subst

LEMMA SubstAppend ==
  ASSUME NEW A, NEW B, NEW t \in Seq(A), NEW x \in A, NEW f \in [A -> Seq(B)]
  PROVE  Subst(Append(t, x), f) = Cat(Subst(t, f), f[x])
<1> DEFINE s == [i \in DOMAIN t |-> f[t[i]]]
           u == [i \in DOMAIN Append(t, x) |-> f[Append(t, x)[i]]]
<1>1. s \in Seq(Seq(B)) /\ f[x] \in Seq(B)
  <2>1. \A i \in 1..Len(t) : f[t[i]] \in Seq(B)
    OBVIOUS
  <2>2. s = [i \in 1..Len(t) |-> f[t[i]]]
    OBVIOUS
  <2> QED BY <2>1, <2>2
<1>2. u = Append(s, f[x])
  <2>1. DOMAIN Append(t, x) = 1..(Len(t) + 1)
    OBVIOUS
  <2>2. \A i \in 1..(Len(t) + 1) : Append(t, x)[i] = IF i <= Len(t) THEN t[i] ELSE x
    OBVIOUS
  <2>3. u = [i \in 1..(Len(t) + 1) |-> IF i <= Len(t) THEN f[t[i]] ELSE f[x]]
    BY <2>1, <2>2
  <2>4. Len(s) = Len(t) /\ \A i \in 1..Len(t) : s[i] = f[t[i]]
    OBVIOUS
  <2> HIDE DEF s, u
  <2>5. Append(s, f[x]) = [i \in 1..(Len(t) + 1) |-> IF i <= Len(t) THEN f[t[i]] ELSE f[x]]
    BY <1>1, <2>4
  <2> QED BY <2>3, <2>5
<1> HIDE DEF s, u
<1>3. FlattenSeq(u) = FlattenSeq(s) \o f[x]
  BY <1>1, <1>2, FlattenAppend
<1> QED BY <1>3 DEF Subst, Cat, s, u

Appends(f, A) ==
  \A t \in Seq(A), x \in A : Subst(Append(t, x), f) = Cat(Subst(t, f), f[x])
LEMMA SubstAppends ==
  ASSUME NEW A, NEW B, NEW f \in [A -> Seq(B)]
  PROVE  Appends(f, A)
<1> SUFFICES ASSUME NEW t \in Seq(A), NEW x \in A
             PROVE  Subst(Append(t, x), f) = Cat(Subst(t, f), f[x])
  BY DEF Appends
<1> QED BY SubstAppend

LEMMA SubstType ==
  ASSUME NEW A, NEW B, NEW f \in [A -> Seq(B)]
  PROVE  \A t \in Seq(A) : Subst(t, f) \in Seq(B)
<1> DEFINE S == {n \in Nat : \A t \in Seq(A) : Len(t) = n => Subst(t, f) \in Seq(B)}
<1>1. 0 \in S
  <2>1. \A t \in Seq(A) : Len(t) = 0 => t = <<>>
    OBVIOUS
  <2> QED BY <2>1, SubstEmpty
<1>2. ASSUME NEW n \in Nat, n \in S PROVE n + 1 \in S
  <2> SUFFICES ASSUME NEW t \in Seq(A), Len(t) = n + 1 PROVE Subst(t, f) \in Seq(B)
    OBVIOUS
  <2> DEFINE u == Front(t)
             x == Last(t)
  <2>2. u \in Seq(A) /\ Len(u) = n /\ x \in A /\ t = Append(u, x)
    BY FrontLast
  <2> HIDE DEF u, x
  <2>3. Subst(t, f) = Cat(Subst(u, f), f[x])
    BY <2>2, SubstAppend
  <2>4. Subst(u, f) \in Seq(B) /\ f[x] \in Seq(B)
    BY <1>2, <2>2
  <2> QED BY <2>3, <2>4 DEF Cat
<1>3. Nat \subseteq S
  <2> HIDE DEF S
  <2> QED BY <1>1, <1>2, SetInduction
<1> QED BY <1>3

LEMMA SubstConcat ==
  ASSUME NEW A, NEW B, NEW f \in [A -> Seq(B)], NEW s \in Seq(A)
  PROVE  \A t \in Seq(A) : Subst(Cat(s, t), f) = Cat(Subst(s, f), Subst(t, f))
<1> DEFINE S == {n \in Nat : \A t \in Seq(A) :
                   Len(t) = n => Subst(Cat(s, t), f) = Cat(Subst(s, f), Subst(t, f))}
<1>0. Subst(s, f) \in Seq(B)
  BY SubstType
<1>1. 0 \in S
  <2>1. \A t \in Seq(A) : Len(t) = 0 => t = <<>> /\ Cat(s, t) = s
    BY DEF Cat
  <2>2. Cat(Subst(s, f), <<>>) = Subst(s, f)
    BY <1>0 DEF Cat
  <2> QED BY <2>1, <2>2, SubstEmpty
<1>2. ASSUME NEW n \in Nat, n \in S PROVE n + 1 \in S
  <2> SUFFICES ASSUME NEW t \in Seq(A), Len(t) = n + 1
               PROVE  Subst(Cat(s, t), f) = Cat(Subst(s, f), Subst(t, f))
    OBVIOUS
  <2> DEFINE u == Front(t)
             x == Last(t)
  <2>2. u \in Seq(A) /\ Len(u) = n /\ x \in A /\ t = Append(u, x)
    BY FrontLast
  <2> HIDE DEF u, x
  <2>3. Cat(s, t) = Append(Cat(s, u), x) /\ Cat(s, u) \in Seq(A)
    BY <2>2 DEF Cat
  <2>4. Subst(Cat(s, t), f) = Cat(Subst(Cat(s, u), f), f[x])
    <3>1. Subst(Append(Cat(s, u), x), f) = Cat(Subst(Cat(s, u), f), f[x])
      BY <2>2, <2>3, SubstAppend
    <3> QED BY <2>3, <3>1
  <2>5. Subst(t, f) = Cat(Subst(u, f), f[x])
    BY <2>2, SubstAppend
  <2>6. Subst(Cat(s, u), f) = Cat(Subst(s, f), Subst(u, f))
    BY <1>2, <2>2
  <2>7. Subst(u, f) \in Seq(B) /\ f[x] \in Seq(B)
    BY <2>2, SubstType
  <2>8. Cat(Cat(Subst(s, f), Subst(u, f)), f[x]) = Cat(Subst(s, f), Cat(Subst(u, f), f[x]))
    <3> DEFINE p == Subst(s, f)
               q == Subst(u, f)
               r == f[x]
    <3>1. p \in Seq(B) /\ q \in Seq(B) /\ r \in Seq(B)
      BY <1>0, <2>7
    <3> HIDE DEF p, q, r
    <3>2. Cat(Cat(p, q), r) = Cat(p, Cat(q, r))
      BY <3>1, CatAssociates
    <3> QED BY <3>2 DEF p, q, r
  <2> QED BY <1>0, <2>4, <2>5, <2>6, <2>7, <2>8
<1>3. Nat \subseteq S
  <2> HIDE DEF S
  <2> QED BY <1>1, <1>2, SetInduction
<1> QED BY <1>3

\* One replacement after the other, in one.
Maps(f, A, B) == f \in [A -> Seq(B)]
Composes(h, f, g, A) == \A x \in A : h[x] = Subst(f[x], g)
Composed(h, f, g, A) == \A t \in Seq(A) : Subst(Subst(t, f), g) = Subst(t, h)

LEMMA SubstComposed ==
  ASSUME NEW A, NEW B, NEW C, NEW f, Maps(f, A, B), NEW g, Maps(g, B, C),
         NEW h, Maps(h, A, C), Composes(h, f, g, A)
  PROVE  Composed(h, f, g, A)
<1> SUFFICES ASSUME f \in [A -> Seq(B)], g \in [B -> Seq(C)], h \in [A -> Seq(C)]
             PROVE  \A t \in Seq(A) : Subst(Subst(t, f), g) = Subst(t, h)
  BY DEF Maps, Composed
<1> DEFINE S == {n \in Nat : \A t \in Seq(A) :
                   Len(t) = n => Subst(Subst(t, f), g) = Subst(t, h)}
<1>0. Appends(f, A) /\ Appends(h, A)
  BY SubstAppends
<1>1. 0 \in S
  <2>1. \A t \in Seq(A) : Len(t) = 0 => t = <<>>
    OBVIOUS
  <2>2. Subst(<<>>, f) = <<>> /\ Subst(<<>>, g) = <<>> /\ Subst(<<>>, h) = <<>>
    BY SubstEmpty
  <2> QED BY <2>1, <2>2
<1>2. ASSUME NEW n \in Nat, n \in S PROVE n + 1 \in S
  <2> SUFFICES ASSUME NEW t \in Seq(A), Len(t) = n + 1
               PROVE  Subst(Subst(t, f), g) = Subst(t, h)
    OBVIOUS
  <2> DEFINE u == Front(t)
             x == Last(t)
  <2>1. u \in Seq(A) /\ Len(u) = n /\ x \in A /\ t = Append(u, x)
    BY FrontLast
  <2> HIDE DEF u, x
  <2> DEFINE p == Subst(u, f)
             q == f[x]
  <2>2. p \in Seq(B) /\ q \in Seq(B)
    BY <2>1, SubstType
  <2>3. Subst(t, f) = Cat(p, q)
    <3>1. Subst(Append(u, x), f) = Cat(Subst(u, f), f[x])
      BY <1>0, <2>1 DEF Appends
    <3> QED BY <2>1, <3>1
  <2>4. Subst(t, h) = Cat(Subst(u, h), h[x])
    <3>1. Subst(Append(u, x), h) = Cat(Subst(u, h), h[x])
      BY <1>0, <2>1 DEF Appends
    <3> QED BY <2>1, <3>1
  <2>5. Subst(p, g) = Subst(u, h) /\ Subst(q, g) = h[x]
    BY <1>2, <2>1 DEF Composes
  <2> HIDE DEF p, q
  <2>6. Subst(Cat(p, q), g) = Cat(Subst(p, g), Subst(q, g))
    BY <2>2, SubstConcat
  <2> QED BY <2>3, <2>4, <2>5, <2>6
<1>3. Nat \subseteq S
  <2> HIDE DEF S
  <2> QED BY <1>1, <1>2, SetInduction
<1> QED BY <1>3

\* A text in which every element is replaced by itself.
LEMMA SubstSelf ==
  ASSUME NEW A, NEW f
  PROVE  \A t \in Seq(A) : (\A i \in DOMAIN t : f[t[i]] = <<t[i]>>) => Subst(t, f) = t
<1> DEFINE id == [x \in A |-> <<x>>]
           S == {n \in Nat : \A t \in Seq(A) : Len(t) = n => Subst(t, id) = t}
<1>0. id \in [A -> Seq(A)]
  OBVIOUS
<1>1. 0 \in S
  <2>1. \A t \in Seq(A) : Len(t) = 0 => t = <<>>
    OBVIOUS
  <2>2. Subst(<<>>, id) = <<>>
    BY SubstEmpty
  <2> QED BY <2>1, <2>2
<1>2. ASSUME NEW n \in Nat, n \in S PROVE n + 1 \in S
  <2> SUFFICES ASSUME NEW t \in Seq(A), Len(t) = n + 1 PROVE Subst(t, id) = t
    OBVIOUS
  <2> DEFINE u == Front(t)
             x == Last(t)
  <2>1. u \in Seq(A) /\ Len(u) = n /\ x \in A /\ t = Append(u, x)
    BY FrontLast
  <2> HIDE DEF u, x
  <2>2. id[x] = <<x>> /\ Subst(u, id) = u
    BY <1>2, <2>1
  <2> HIDE DEF id
  <2>3. Subst(t, id) = Cat(u, <<x>>)
    BY <1>0, <2>1, <2>2, SubstAppend
  <2>4. Cat(u, <<x>>) = Append(u, x)
    BY <2>1 DEF Cat
  <2> QED BY <2>1, <2>3, <2>4
<1>3. Nat \subseteq S
  <2> HIDE DEF S
  <2> QED BY <1>1, <1>2, SetInduction
<1>4. ASSUME NEW t \in Seq(A), \A i \in DOMAIN t : f[t[i]] = <<t[i]>> PROVE Subst(t, f) = t
  <2>1. Subst(t, id) = t
    BY <1>3
  <2>2. \A i \in DOMAIN t : id[t[i]] = f[t[i]]
    BY <1>4
  <2> HIDE DEF id
  <2>3. Subst(t, id) = Subst(t, f)
    BY <2>2 DEF Subst
  <2> QED BY <2>1, <2>3
<1> QED BY <1>4

LEMMA SubstOne ==
  ASSUME NEW A, NEW B, NEW f \in [A -> Seq(B)], NEW x \in A
  PROVE  Subst(<<x>>, f) = f[x]
<1>1. Appends(f, A)
  BY SubstAppends
<1>2. <<>> \in Seq(A) /\ <<x>> = Append(<<>>, x)
  OBVIOUS
<1>3. Subst(Append(<<>>, x), f) = Cat(Subst(<<>>, f), f[x])
  BY <1>1, <1>2 DEF Appends
<1>4. f[x] \in Seq(B) /\ Cat(<<>>, f[x]) = f[x]
  BY DEF Cat
<1> QED BY <1>2, <1>3, <1>4, SubstEmpty

\* A text in which every element is replaced by nothing.
LEMMA SubstNothing ==
  ASSUME NEW A, NEW f
  PROVE  \A t \in Seq(A) : (\A i \in DOMAIN t : f[t[i]] = <<>>) => Subst(t, f) = <<>>
<1> DEFINE none == [x \in A |-> <<>>]
           S == {n \in Nat : \A t \in Seq(A) : Len(t) = n => Subst(t, none) = <<>>}
<1>0. none \in [A -> Seq(A)]
  OBVIOUS
<1>1. 0 \in S
  <2>1. \A t \in Seq(A) : Len(t) = 0 => t = <<>>
    OBVIOUS
  <2>2. Subst(<<>>, none) = <<>>
    BY SubstEmpty
  <2> QED BY <2>1, <2>2
<1>2. ASSUME NEW n \in Nat, n \in S PROVE n + 1 \in S
  <2> SUFFICES ASSUME NEW t \in Seq(A), Len(t) = n + 1 PROVE Subst(t, none) = <<>>
    OBVIOUS
  <2> DEFINE u == Front(t)
             x == Last(t)
  <2>1. u \in Seq(A) /\ Len(u) = n /\ x \in A /\ t = Append(u, x)
    BY FrontLast
  <2> HIDE DEF u, x
  <2>2. none[x] = <<>> /\ Subst(u, none) = <<>>
    BY <1>2, <2>1
  <2> HIDE DEF none
  <2>3. Subst(t, none) = Cat(<<>>, <<>>)
    BY <1>0, <2>1, <2>2, SubstAppend
  <2> QED BY <2>3 DEF Cat
<1>3. Nat \subseteq S
  <2> HIDE DEF S
  <2> QED BY <1>1, <1>2, SetInduction
<1>4. ASSUME NEW t \in Seq(A), \A i \in DOMAIN t : f[t[i]] = <<>> PROVE Subst(t, f) = <<>>
  <2>1. Subst(t, none) = <<>>
    BY <1>3
  <2>2. \A i \in DOMAIN t : none[t[i]] = f[t[i]]
    BY <1>4
  <2> HIDE DEF none
  <2>3. Subst(t, none) = Subst(t, f)
    BY <2>2 DEF Subst
  <2> QED BY <2>1, <2>3
<1> QED BY <1>4
=============================================================================
