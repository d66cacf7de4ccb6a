---------------------------- MODULE TotalsProofs ----------------------------
(***************************************************************************)
(* What a total does when one entry changes, is added or goes: the facts   *)
(* every proof about a running counter rests on.                           *)
(***************************************************************************)
EXTENDS Totals, FiniteSetTheorems, TLAPS

\* The units of one entry.
Own(f, x) == {x} \X (1 .. f[x])
Positive(n) == IF n > 0 THEN n ELSE 0

LEMMA OwnCount ==
    ASSUME NEW f, NEW x, f[x] \in Int
    PROVE  IsFiniteSet(Own(f, x)) /\ Cardinality(Own(f, x)) = Positive(f[x])
<1> DEFINE n == f[x]  I == 1 .. n
<1>1. n \in Int
  OBVIOUS
<1>2. IsFiniteSet(I) /\ Cardinality(I) = Positive(n)
  <2> HIDE DEF n
  <2> QED BY <1>1, FS_Interval DEF Positive
<1>3. IsFiniteSet({x}) /\ Cardinality({x}) = 1
  BY FS_Singleton
<1>4. Own(f, x) = {x} \X I
  BY DEF Own
<1> HIDE DEF I, n
<1>5. IsFiniteSet({x} \X I) /\ Cardinality({x} \X I) = 1 * Cardinality(I)
  BY <1>2, <1>3, FS_Product
<1>6. Positive(n) \in Int
  BY <1>1 DEF Positive
<1> QED BY <1>2, <1>4, <1>5, <1>6 DEF n

\* A finite function has finitely many units.
LEMMA UnitsFinite ==
    ASSUME NEW S, IsFiniteSet(S), NEW f \in [S -> Int]
    PROVE  IsFiniteSet(Units(f)) /\ Cardinality(Units(f)) \in Nat
<1> DEFINE h == [x \in S |-> Own(f, x)]  T == {Own(f, x) : x \in S}
<1>1. h \in Surjection(S, T)
  BY DEF Surjection
<1>2. IsFiniteSet(T)
  <2> HIDE DEF h, T
  <2> QED BY <1>1, FS_Surjection
<1>3. \A U \in T : IsFiniteSet(U)
  BY OwnCount
<1>4. Units(f) = UNION T
  BY DEF Units, Own
<1> HIDE DEF T
<1>5. IsFiniteSet(Units(f))
  BY <1>2, <1>3, <1>4, FS_UNION
<1> QED BY <1>5, FS_CardinalityType

\* The units of the entries other than x.
Others(f, x) == {u \in Units(f) : u[1] # x}

LEMMA UnitsSplit ==
    ASSUME NEW S, IsFiniteSet(S), NEW f \in [S -> Int], NEW x \in S
    PROVE  /\ IsFiniteSet(Others(f, x)) /\ Cardinality(Others(f, x)) \in Nat
           /\ Cardinality(Units(f)) = Cardinality(Others(f, x)) + Positive(f[x])
<1> DEFINE A == Others(f, x)  B == Own(f, x)
<1>1. A \in SUBSET Units(f)
  BY DEF Others
<1>2. IsFiniteSet(A) /\ Cardinality(A) \in Nat
  <2> HIDE DEF A
  <2> QED BY <1>1, UnitsFinite, FS_Subset, FS_CardinalityType
<1>3. IsFiniteSet(B) /\ Cardinality(B) = Positive(f[x])
  BY OwnCount
<1>4. Units(f) = A \cup B
  BY DEF Units, Others, Own
<1>5. A \cap B = {}
  BY DEF Others, Own
<1> HIDE DEF A, B
<1>6. Cardinality(A \cup B) = Cardinality(A) + Cardinality(B) - Cardinality(A \cap B)
  BY <1>2, <1>3, FS_Union
<1>7. Cardinality(A \cap B) = 0
  BY <1>5, FS_EmptySet
<1>8. Positive(f[x]) \in Nat
  BY DEF Positive
<1>9. Cardinality(Units(f)) = Cardinality(A) + Positive(f[x])
  BY <1>2, <1>3, <1>4, <1>6, <1>7, <1>8
<1> QED BY <1>2, <1>9 DEF A

\* Two functions that agree but for one entry have the same other units.
LEMMA SameOthers ==
    ASSUME NEW S, NEW f \in [S -> Int], NEW g \in [S -> Int], NEW x \in S,
           \A y \in S \ {x} : g[y] = f[y]
    PROVE  Others(g, x) = Others(f, x)
BY DEF Others, Units

LEMMA NegatedType ==
    ASSUME NEW S, NEW f \in [S -> Int]
    PROVE  Negated(f) \in [S -> Int] /\ \A x \in S : Negated(f)[x] = -f[x]
BY DEF Negated

-----------------------------------------------------------------------------

\* A total is an integer.
LEMMA TotalType ==
    ASSUME NEW S, IsFiniteSet(S), NEW f \in [S -> Int]
    PROVE  Total(f) \in Int
BY UnitsFinite, NegatedType DEF Total

\* One entry changes: the total changes by the difference.
LEMMA TotalChange ==
    ASSUME NEW S, IsFiniteSet(S), NEW f \in [S -> Int], NEW g \in [S -> Int], NEW x \in S,
           \A y \in S \ {x} : g[y] = f[y]
    PROVE  Total(g) = Total(f) + g[x] - f[x]
<1> DEFINE nf == Negated(f)  ng == Negated(g)
<1>1. /\ nf \in [S -> Int] /\ ng \in [S -> Int]
      /\ nf[x] = -f[x] /\ ng[x] = -g[x] /\ \A y \in S \ {x} : ng[y] = nf[y]
  BY NegatedType
<1> HIDE DEF nf, ng
<1>2. /\ Cardinality(Units(f)) = Cardinality(Others(f, x)) + Positive(f[x])
      /\ Cardinality(Units(g)) = Cardinality(Others(g, x)) + Positive(g[x])
      /\ Cardinality(Others(f, x)) \in Nat
  BY UnitsSplit
<1>3. /\ Cardinality(Units(nf)) = Cardinality(Others(nf, x)) + Positive(nf[x])
      /\ Cardinality(Units(ng)) = Cardinality(Others(ng, x)) + Positive(ng[x])
      /\ Cardinality(Others(nf, x)) \in Nat
  BY <1>1, UnitsSplit
<1>4. Others(g, x) = Others(f, x) /\ Others(ng, x) = Others(nf, x)
  BY <1>1, SameOthers
<1>5. /\ Total(f) = Cardinality(Units(f)) - Cardinality(Units(nf))
      /\ Total(g) = Cardinality(Units(g)) - Cardinality(Units(ng))
  BY DEF Total, nf, ng
<1>6. f[x] \in Int /\ g[x] \in Int
  OBVIOUS
<1> QED BY <1>1, <1>2, <1>3, <1>4, <1>5, <1>6 DEF Positive

\* Entries of zero may be left out of the domain.
LEMMA TotalSupport ==
    ASSUME NEW S, NEW T, S \subseteq T, NEW f \in [S -> Int], NEW g \in [T -> Int],
           \A x \in S : g[x] = f[x], \A x \in T \ S : g[x] = 0
    PROVE  Total(g) = Total(f)
<1>1. Units(g) = Units(f)
  BY DEF Units
<1>2. /\ Negated(f) \in [S -> Int] /\ Negated(g) \in [T -> Int]
      /\ \A x \in S : Negated(g)[x] = Negated(f)[x]
      /\ \A x \in T \ S : Negated(g)[x] = 0
  BY NegatedType
<1> DEFINE nf == Negated(f)  ng == Negated(g)
<1> HIDE DEF nf, ng
<1>3. Units(ng) = Units(nf)
  BY <1>2 DEF Units, nf, ng
<1> QED BY <1>1, <1>3 DEF Total, nf, ng

\* Nothing adds up to nothing.
LEMMA TotalZero ==
    ASSUME NEW S, NEW f \in [S -> Int], \A x \in S : f[x] = 0
    PROVE  Total(f) = 0
<1> DEFINE nf == Negated(f)
<1>1. nf \in [S -> Int] /\ \A x \in S : nf[x] = 0
  BY NegatedType
<1> HIDE DEF nf
<1>2. Units(f) = {} /\ Units(nf) = {}
  BY <1>1 DEF Units
<1> QED BY <1>2, FS_EmptySet DEF Total, nf

\* An entry more: with TotalZero, what defines a sum.
LEMMA TotalAdd ==
    ASSUME NEW S, IsFiniteSet(S), NEW x, x \notin S,
           NEW f \in [S -> Int], NEW g \in [S \cup {x} -> Int], \A y \in S : g[y] = f[y]
    PROVE  Total(g) = Total(f) + g[x]
<1> DEFINE T == S \cup {x}  z == [y \in T |-> IF y = x THEN 0 ELSE f[y]]
<1>1. z \in [T -> Int] /\ IsFiniteSet(T) /\ x \in T /\ z[x] = 0 /\ g \in [T -> Int]
  BY FS_AddElement
<1>2. \A y \in T \ {x} : g[y] = z[y]
  OBVIOUS
<1>3. \A y \in S : z[y] = f[y]
  OBVIOUS
<1>4. S \subseteq T /\ \A y \in T \ S : z[y] = 0
  OBVIOUS
<1> HIDE DEF z, T
<1>5. Total(z) = Total(f)
  BY <1>1, <1>3, <1>4, TotalSupport
<1>6. Total(g) = Total(z) + g[x] - z[x]
  BY <1>1, <1>2, TotalChange
<1>7. Total(f) \in Int /\ g[x] \in Int
  BY <1>1, TotalType
<1> QED BY <1>1, <1>5, <1>6, <1>7

\* Two functions on disjoint sets, taken together.
LEMMA TotalUnion ==
    ASSUME NEW S, IsFiniteSet(S), NEW D, IsFiniteSet(D), S \cap D = {}, NEW T, T = S \cup D,
           NEW f \in [S -> Int], NEW h \in [D -> Int], NEW g \in [T -> Int],
           \A x \in S : g[x] = f[x], \A x \in D : g[x] = h[x]
    PROVE  Total(g) = Total(f) + Total(h)
<1>1. ASSUME NEW a \in [S -> Int], NEW b \in [D -> Int], NEW c \in [T -> Int],
             \A x \in S : c[x] = a[x], \A x \in D : c[x] = b[x]
      PROVE  Cardinality(Units(c)) = Cardinality(Units(a)) + Cardinality(Units(b))
  <2>1. Units(c) = Units(a) \cup Units(b)
    BY <1>1 DEF Units
  <2>2. Units(a) \cap Units(b) = {}
    BY DEF Units
  <2>3. /\ IsFiniteSet(Units(a)) /\ Cardinality(Units(a)) \in Nat
        /\ IsFiniteSet(Units(b)) /\ Cardinality(Units(b)) \in Nat
    BY UnitsFinite
  <2>4. Cardinality(Units(a) \cup Units(b)) =
          Cardinality(Units(a)) + Cardinality(Units(b)) - Cardinality(Units(a) \cap Units(b))
    BY <2>3, FS_Union
  <2>5. Cardinality(Units(a) \cap Units(b)) = 0
    BY <2>2, FS_EmptySet
  <2> QED BY <2>1, <2>3, <2>4, <2>5
<1> DEFINE nf == Negated(f)  nh == Negated(h)  ng == Negated(g)
<1>2. /\ nf \in [S -> Int] /\ nh \in [D -> Int] /\ ng \in [T -> Int]
      /\ \A x \in S : ng[x] = nf[x]
      /\ \A x \in D : ng[x] = nh[x]
  BY NegatedType
<1> HIDE DEF nf, nh, ng
<1>3. /\ Cardinality(Units(g)) = Cardinality(Units(f)) + Cardinality(Units(h))
      /\ Cardinality(Units(ng)) = Cardinality(Units(nf)) + Cardinality(Units(nh))
  BY <1>1, <1>2
<1>4. /\ Cardinality(Units(f)) \in Nat /\ Cardinality(Units(h)) \in Nat
      /\ Cardinality(Units(nf)) \in Nat /\ Cardinality(Units(nh)) \in Nat
  BY <1>2, UnitsFinite
<1> QED BY <1>3, <1>4 DEF Total, nf, nh, ng

\* A function taken apart along any set.
LEMMA TotalSplit ==
    ASSUME NEW T, IsFiniteSet(T), NEW D, NEW f \in [T -> Int],
           NEW a \in [T \ D -> Int], NEW b \in [T \cap D -> Int],
           \A x \in T \ D : f[x] = a[x], \A x \in T \cap D : f[x] = b[x]
    PROVE  Total(f) = Total(a) + Total(b)
<1> DEFINE A == T \ D  B == T \cap D
<1>1. IsFiniteSet(A) /\ IsFiniteSet(B)
  BY FS_Subset
<1>2. A \cap B = {} /\ T = A \cup B
  OBVIOUS
<1>3. /\ a \in [A -> Int] /\ b \in [B -> Int] /\ f \in [T -> Int]
      /\ \A x \in A : f[x] = a[x]
      /\ \A x \in B : f[x] = b[x]
  OBVIOUS
<1> HIDE DEF A, B
<1> QED BY <1>1, <1>2, <1>3, TotalUnion

\* A larger function has the larger total.
LEMMA TotalMonotonic ==
    ASSUME NEW S, IsFiniteSet(S), NEW f \in [S -> Int], NEW g \in [S -> Int],
           \A x \in S : f[x] <= g[x]
    PROVE  Total(f) <= Total(g)
<1> DEFINE nf == Negated(f)  ng == Negated(g)
<1>1. nf \in [S -> Int] /\ ng \in [S -> Int] /\ \A x \in S : ng[x] <= nf[x]
  BY NegatedType
<1> HIDE DEF nf, ng
<1>2. Units(f) \subseteq Units(g)
  BY DEF Units
<1>3. Units(ng) \subseteq Units(nf)
  BY <1>1 DEF Units
<1>4. /\ IsFiniteSet(Units(g)) /\ Cardinality(Units(g)) \in Nat /\ Cardinality(Units(f)) \in Nat
      /\ IsFiniteSet(Units(nf)) /\ Cardinality(Units(nf)) \in Nat /\ Cardinality(Units(ng)) \in Nat
  BY <1>1, UnitsFinite
<1>5. Cardinality(Units(f)) <= Cardinality(Units(g)) /\ Cardinality(Units(ng)) <= Cardinality(Units(nf))
  BY <1>2, <1>3, <1>4, FS_Subset
<1> QED BY <1>4, <1>5 DEF Total, nf, ng

\* The total of naturals is a natural.
LEMMA TotalNat ==
    ASSUME NEW S, IsFiniteSet(S), NEW f \in [S -> Nat]
    PROVE  Total(f) \in Nat
<1>1. f \in [S -> Int]
  OBVIOUS
<1> DEFINE nf == Negated(f)
<1>2. nf \in [S -> Int] /\ \A x \in S : nf[x] <= 0
  BY <1>1, NegatedType
<1> HIDE DEF nf
<1>3. Units(nf) = {}
  BY <1>2 DEF Units
<1>4. Cardinality(Units(f)) \in Nat /\ Cardinality(Units(nf)) = 0
  BY <1>1, <1>3, UnitsFinite, FS_EmptySet
<1> QED BY <1>4 DEF Total, nf

\* An entry less.
LEMMA TotalRemove ==
    ASSUME NEW S, IsFiniteSet(S), NEW x \in S,
           NEW f \in [S -> Int], NEW g \in [S \ {x} -> Int], \A y \in S \ {x} : g[y] = f[y]
    PROVE  Total(g) = Total(f) - f[x]
<1> DEFINE R == S \ {x}
<1>1. IsFiniteSet(R) /\ x \notin R /\ S = R \cup {x}
  BY FS_RemoveElement
<1>2. g \in [R -> Int] /\ f \in [R \cup {x} -> Int] /\ \A y \in R : f[y] = g[y]
  BY <1>1
<1> HIDE DEF R
<1>3. Total(f) = Total(g) + f[x]
  BY <1>1, <1>2, TotalAdd
<1>4. Total(g) \in Int /\ f[x] \in Int
  BY <1>1, <1>2, TotalType
<1> QED BY <1>3, <1>4

\* No entry of naturals exceeds their total.
LEMMA TotalCovers ==
    ASSUME NEW S, IsFiniteSet(S), NEW x \in S, NEW f \in [S -> Nat]
    PROVE  f[x] <= Total(f)
<1> DEFINE R == S \ {x}  g == [y \in R |-> f[y]]
<1>1. IsFiniteSet(R) /\ f \in [S -> Int] /\ g \in [R -> Nat] /\ g \in [R -> Int]
  BY FS_RemoveElement
<1>2. \A y \in R : g[y] = f[y]
  OBVIOUS
<1> HIDE DEF g
<1>3. Total(g) = Total(f) - f[x]
  BY <1>1, <1>2, TotalRemove
<1>4. Total(g) \in Nat /\ Total(f) \in Int /\ f[x] \in Nat
  BY <1>1, TotalNat, TotalType
<1> QED BY <1>3, <1>4
=============================================================================
