---------------------------- MODULE SchedulerProofs ----------------------------
(***************************************************************************)
(* Facts about the operators of Scheduler that add up and recruit.         *)
(***************************************************************************)
EXTENDS Scheduler, FiniteSetTheorems, WellFoundedInduction, TLAPS

-----------------------------------------------------------------------------
(***************************************************************************)
(* Numbers                                                                 *)
(***************************************************************************)

\* A set of numbers has a least element.
LEMMA MinOf ==
  ASSUME NEW S \in SUBSET Nat, S # {}
  PROVE  Min(S) \in S /\ \A n \in S : Min(S) <= n
<1>1. PICK m \in S : \A n \in S : ~(<<n, m>> \in OpToRel(<, Nat))
  BY NatLessThanWellFounded, WFMin
<1>2. ASSUME NEW n \in S, n < m PROVE FALSE
  <2>1. <<n, m>> \in OpToRel(<, Nat)
    BY <1>2 DEF OpToRel
  <2> QED
    BY <1>1, <2>1
<1>3. \A n \in S : m <= n
  BY <1>2
<1> QED
  BY <1>3 DEF Min

\* Induction, for a set of numbers.
LEMMA Inductive ==
  ASSUME NEW S, 0 \in S, \A n \in Nat : n \in S => n + 1 \in S
  PROVE  Nat \subseteq S
<1> SUFFICES ASSUME Nat \ S # {} PROVE FALSE
  OBVIOUS
<1> DEFINE m == Min(Nat \ S)
<1>1. m \in Nat \ S /\ \A n \in Nat \ S : m <= n
  BY MinOf
<1> HIDE DEF m
<1>2. m # 0 /\ m - 1 \in Nat
  BY <1>1
<1>3. m - 1 \in S
  BY <1>1, <1>2
<1> QED
  BY <1>1, <1>2, <1>3

\* Max(1..n) is n.
LEMMA MaxOfInterval ==
  ASSUME NEW n \in Nat, n # 0
  PROVE  Max(1..n) = n
BY DEF Max

-----------------------------------------------------------------------------
(***************************************************************************)
(* Folds over a finite set.  What a fold computes is a function on the     *)
(* set's subsets, which takes one element away at a time: c says which,    *)
(* and g what is made of the rest.                                         *)
(***************************************************************************)

Chooser(c, S) == \A T \in SUBSET S : T # {} => c[T] \in T

Into(g, S, V) == \A T \in SUBSET S, v \in V : T # {} => g[<<T, v>>] \in V

IsFold(f, S, b, c, g) ==
  \A T \in SUBSET S : f[T] = IF T = {} THEN b ELSE g[<<T, f[T \ {c[T]}]>>]

\* f and h go on alike.
Alike(f, h, S, c) ==
  /\ f[{}] = h[{}]
  /\ \A T \in SUBSET S : T # {} /\ f[T \ {c[T]}] = h[T \ {c[T]}] => f[T] = h[T]

LEMMA FoldExists ==
  ASSUME NEW S, IsFiniteSet(S), NEW V, NEW b \in V,
         NEW c, Chooser(c, S), NEW g, Into(g, S, V)
  PROVE  \E f \in [SUBSET S -> V] : IsFold(f, S, b, c, g)
<1> USE DEF Chooser, Into
<1> DEFINE Rhs(f, T) == IF T = {} THEN b ELSE g[<<T, f[T \ {c[T]}]>>]
           Upto(n) == {f \in [SUBSET S -> V] :
                         \A T \in SUBSET S : Cardinality(T) <= n => f[T] = Rhs(f, T)}
           N == {n \in Nat : Upto(n) # {}}
<1>0. \A T \in SUBSET S : Cardinality(T) \in Nat /\ (Cardinality(T) <= 0 => T = {})
  BY FS_Subset, FS_CardinalityType, FS_EmptySet
<1>1. ASSUME NEW T \in SUBSET S, T # {}
      PROVE  T \ {c[T]} \in SUBSET S /\ Cardinality(T \ {c[T]}) = Cardinality(T) - 1
  BY <1>1, FS_Subset, FS_RemoveElement
<1>2. \A f \in [SUBSET S -> V], T \in SUBSET S : Rhs(f, T) \in V
  OBVIOUS
<1>3. ASSUME NEW f \in [SUBSET S -> V]
      PROVE  [T \in SUBSET S |-> Rhs(f, T)] \in [SUBSET S -> V]
  BY <1>2
<1>4. 0 \in N
  <2>1. PICK f \in [SUBSET S -> V] : TRUE
    <3>1. [T \in SUBSET S |-> b] \in [SUBSET S -> V]
      OBVIOUS
    <3> QED
      BY <3>1
  <2> DEFINE h == [T \in SUBSET S |-> Rhs(f, T)]
  <2>2. ASSUME NEW T \in SUBSET S, Cardinality(T) <= 0 PROVE h[T] = Rhs(h, T)
    <3>1. T = {}
      BY <1>0, <2>2
    <3> QED
      BY <3>1
  <2>3. h \in Upto(0)
    BY <1>3, <2>1, <2>2
  <2> QED
    BY <2>3
<1>5. ASSUME NEW n \in Nat, n \in N PROVE n + 1 \in N
  <2>1. PICK f \in Upto(n) : TRUE
    BY <1>5
  <2> DEFINE h == [T \in SUBSET S |-> Rhs(f, T)]
  <2>2. ASSUME NEW T \in SUBSET S, Cardinality(T) <= n + 1 PROVE h[T] = Rhs(h, T)
    <3>1. CASE T = {}
      BY <3>1
    <3>2. CASE T # {}
      <4> DEFINE U == T \ {c[T]}
      <4>1. U \in SUBSET S /\ Cardinality(U) <= n
        BY <1>0, <1>1, <2>2, <3>2
      <4>2. f[U] = Rhs(f, U)
        BY <2>1, <4>1
      <4>3. h[U] = f[U]
        BY <4>1, <4>2
      <4>4. h[T] = g[<<T, f[U]>>] /\ Rhs(h, T) = g[<<T, h[U]>>]
        BY <3>2
      <4> QED
        BY <4>3, <4>4
    <3> QED
      BY <3>1, <3>2
  <2>3. h \in Upto(n + 1)
    BY <1>3, <2>1, <2>2
  <2> HIDE DEF Upto, h
  <2> QED
    BY <2>3
<1>6. Cardinality(S) \in Nat /\ Cardinality(S) \in N
  <2> HIDE DEF N
  <2> QED
    BY <1>0, <1>4, <1>5, Inductive
<1>7. PICK f \in Upto(Cardinality(S)) : TRUE
  BY <1>6
<1>8. \A T \in SUBSET S : Cardinality(T) <= Cardinality(S)
  BY FS_Subset
<1> QED
  BY <1>7, <1>8 DEF IsFold

\* There is but one.
LEMMA FoldUnique ==
  ASSUME NEW S, IsFiniteSet(S), NEW c, Chooser(c, S), NEW f, NEW h, Alike(f, h, S, c)
  PROVE  \A T \in SUBSET S : f[T] = h[T]
<1> USE DEF Chooser, Alike
<1> DEFINE N == {n \in Nat : \A T \in SUBSET S : Cardinality(T) <= n => f[T] = h[T]}
<1>0. \A T \in SUBSET S : Cardinality(T) \in Nat /\ (Cardinality(T) <= 0 => T = {})
  BY FS_Subset, FS_CardinalityType, FS_EmptySet
<1>1. ASSUME NEW T \in SUBSET S, T # {}
      PROVE  T \ {c[T]} \in SUBSET S /\ Cardinality(T \ {c[T]}) = Cardinality(T) - 1
  BY <1>1, FS_Subset, FS_RemoveElement
<1>3. 0 \in N
  <2>1. ASSUME NEW T \in SUBSET S, Cardinality(T) <= 0 PROVE f[T] = h[T]
    <3>1. T = {}
      BY <1>0, <2>1
    <3> QED
      BY <3>1
  <2> QED
    BY <2>1
<1>4. ASSUME NEW n \in Nat, n \in N PROVE n + 1 \in N
  <2>1. ASSUME NEW T \in SUBSET S, Cardinality(T) <= n + 1 PROVE f[T] = h[T]
    <3>1. CASE T = {}
      BY <3>1
    <3>2. CASE T # {}
      <4>1. T \ {c[T]} \in SUBSET S /\ Cardinality(T \ {c[T]}) <= n
        BY <1>0, <1>1, <2>1, <3>2
      <4>2. f[T \ {c[T]}] = h[T \ {c[T]}]
        BY <1>4, <4>1
      <4> QED
        BY <3>2, <4>2
    <3> QED
      BY <3>1, <3>2
  <2> QED
    BY <2>1
<1>5. Nat \subseteq N
  <2> HIDE DEF N
  <2> QED
    BY <1>3, <1>4, Inductive
<1> QED
  BY <1>0, <1>5

-----------------------------------------------------------------------------
(***************************************************************************)
(* Sums                                                                    *)
(***************************************************************************)

Numbers(f, S) == \A x \in S : f[x] \in Nat

Some(T) == CHOOSE x \in T : TRUE

Sums(h, f, S) ==
  h = [T \in SUBSET S |-> IF T = {} THEN 0 ELSE f[Some(T)] + h[T \ {Some(T)}]]

LEMMA SumIs == ASSUME NEW f, NEW S PROVE Sum(f, S) = (CHOOSE h : Sums(h, f, S))[S]
BY Zenon DEF Sum, FoldFunctionOnSet, MapThenFoldSet, Sums, Some

LEMMA SumsExists ==
  ASSUME NEW S, IsFiniteSet(S), NEW f, Numbers(f, S)
  PROVE  \E h \in [SUBSET S -> Nat] : Sums(h, f, S)
<1> DEFINE c == [T \in SUBSET S |-> Some(T)]
           g == [p \in (SUBSET S) \X Nat |-> f[Some(p[1])] + p[2]]
<1>1. \A T \in SUBSET S : T # {} => Some(T) \in T
  BY DEF Some
<1>2. Chooser(c, S)
  BY <1>1 DEF Chooser
<1>3. \A T \in SUBSET S, v \in Nat : g[<<T, v>>] = f[Some(T)] + v
  OBVIOUS
<1> HIDE DEF g
<1>4. ASSUME NEW T \in SUBSET S, NEW v \in Nat, T # {} PROVE g[<<T, v>>] \in Nat
  <2>1. f[Some(T)] \in Nat
    BY <1>1, <1>4 DEF Numbers
  <2> QED
    BY <1>3, <2>1
<1>5. PICK h \in [SUBSET S -> Nat] : IsFold(h, S, 0, c, g)
  <2> HIDE DEF c
  <2>1. Into(g, S, Nat)
    BY <1>4 DEF Into
  <2> QED
    BY <1>2, <2>1, FoldExists
<1>6. ASSUME NEW T \in SUBSET S
      PROVE  h[T] = IF T = {} THEN 0 ELSE f[Some(T)] + h[T \ {Some(T)}]
  BY <1>3, <1>5 DEF IsFold
<1>7. Sums(h, f, S)
  BY <1>6 DEF Sums
<1> QED
  BY <1>7

LEMMA SumsUnique ==
  ASSUME NEW S, IsFiniteSet(S), NEW f, NEW g, Sums(g, f, S), NEW h, Sums(h, f, S)
  PROVE  g = h
<1> DEFINE c == [T \in SUBSET S |-> Some(T)]
<1>1. Chooser(c, S)
  BY DEF Chooser, Some
<1>2. Alike(g, h, S, c)
  BY DEF Alike, Sums
<1> HIDE DEF c
<1>3. \A T \in SUBSET S : g[T] = h[T]
  BY <1>1, <1>2, FoldUnique
<1> QED
  BY <1>3 DEF Sums

\* One function gives the sums of all subsets, of f and of what agrees with f.
LEMMA SumsGive ==
  ASSUME NEW S, IsFiniteSet(S), NEW f, NEW h, Sums(h, f, S),
         NEW T \in SUBSET S, NEW g, \A x \in T : g[x] = f[x]
  PROVE  Sum(g, T) = h[T]
<1> DEFINE k == [U \in SUBSET T |-> h[U]]
<1>1. ASSUME NEW U \in SUBSET T
      PROVE  k[U] = IF U = {} THEN 0 ELSE g[Some(U)] + k[U \ {Some(U)}]
  <2>1. U # {} => g[Some(U)] = f[Some(U)]
    BY DEF Some
  <2> QED
    BY <2>1 DEF Sums
<1>2. Sums(k, g, T)
  BY <1>1 DEF Sums
<1> HIDE DEF k
<1>3. Sums((CHOOSE j : Sums(j, g, T)), g, T)
  BY <1>2
<1>4. (CHOOSE j : Sums(j, g, T)) = k
  BY <1>2, <1>3, SumsUnique, FS_Subset
<1>5. k[T] = h[T]
  BY DEF k
<1> QED
  BY <1>4, <1>5, SumIs

\* A sum does not depend on the order in which elements are taken.
LEMMA SumOf ==
  ASSUME NEW S, IsFiniteSet(S), NEW f, Numbers(f, S)
  PROVE  /\ Sum(f, S) \in Nat /\ Sum(f, {}) = 0
         /\ \A x \in S : Sum(f, S) = f[x] + Sum(f, S \ {x})
<1>1. PICK h \in [SUBSET S -> Nat] : Sums(h, f, S)
  BY SumsExists
<1>2. \A T \in SUBSET S : Sum(f, T) = h[T]
  BY <1>1, SumsGive
<1>3. \A T \in SUBSET S : h[T] = IF T = {} THEN 0 ELSE f[Some(T)] + h[T \ {Some(T)}]
  BY <1>1 DEF Sums
<1> DEFINE N == {n \in Nat : \A T \in SUBSET S : Cardinality(T) <= n =>
                   \A x \in T : h[T] = f[x] + h[T \ {x}]}
<1>4. \A T \in SUBSET S : Cardinality(T) \in Nat /\ (Cardinality(T) <= 0 => T = {})
  BY FS_Subset, FS_CardinalityType, FS_EmptySet
<1>5. 0 \in N
  BY <1>4
<1>6. ASSUME NEW n \in Nat, n \in N PROVE n + 1 \in N
  <2> SUFFICES ASSUME NEW T \in SUBSET S, Cardinality(T) <= n + 1, NEW x \in T
               PROVE  h[T] = f[x] + h[T \ {x}]
    OBVIOUS
  <2> DEFINE y == Some(T)
  <2>1. y \in T /\ h[T] = f[y] + h[T \ {y}]
    BY <1>3 DEF Some
  <2>2. CASE x = y
    BY <2>1, <2>2
  <2>3. CASE x # y
    <3> HIDE DEF y
    <3>1. /\ T \ {x} \in SUBSET S /\ Cardinality(T \ {x}) <= n
          /\ T \ {y} \in SUBSET S /\ Cardinality(T \ {y}) <= n
      <4>1. IsFiniteSet(T)
        BY FS_Subset
      <4>2. \A z \in T : Cardinality(T \ {z}) = Cardinality(T) - 1
        BY <4>1, FS_RemoveElement
      <4> QED
        BY <2>1, <4>2, <1>4
    <3>2. h[T \ {x}] = f[y] + h[(T \ {x}) \ {y}]
      BY <1>6, <2>1, <2>3, <3>1
    <3>3. h[T \ {y}] = f[x] + h[(T \ {y}) \ {x}]
      BY <1>6, <2>1, <2>3, <3>1
    <3>4. (T \ {x}) \ {y} = (T \ {y}) \ {x}
      OBVIOUS
    <3>5. f[x] \in Nat /\ f[y] \in Nat /\ h[(T \ {y}) \ {x}] \in Nat
      BY <2>1 DEF Numbers
    <3>6. h[T \ {x}] = f[y] + h[(T \ {y}) \ {x}]
      BY <3>2, <3>4
    <3> QED
      BY <2>1, <3>3, <3>5, <3>6
  <2> QED
    BY <2>2, <2>3
<1>7. Nat \subseteq N
  <2> HIDE DEF N
  <2> QED
    BY <1>5, <1>6, Inductive
<1>8. \A x \in S : h[S] = f[x] + h[S \ {x}]
  BY <1>4, <1>7
<1>9. h[S] \in Nat /\ h[{}] = 0
  BY <1>3
<1> QED
  BY <1>2, <1>8, <1>9

\* It depends on the values only.
LEMMA SumAgrees ==
  ASSUME NEW S, IsFiniteSet(S), NEW f, Numbers(f, S), NEW g, \A x \in S : g[x] = f[x]
  PROVE  Sum(g, S) = Sum(f, S)
<1>1. PICK h \in [SUBSET S -> Nat] : Sums(h, f, S)
  BY SumsExists
<1>2. S \in SUBSET S /\ \A x \in S : f[x] = f[x]
  OBVIOUS
<1>3. Sum(f, S) = h[S]
  BY <1>1, <1>2, SumsGive
<1>4. Sum(g, S) = h[S]
  BY <1>1, <1>2, SumsGive
<1> QED
  BY <1>3, <1>4

\* It grows with the set and with the values.
LEMMA SumMonotone ==
  ASSUME NEW S, IsFiniteSet(S), NEW f, Numbers(f, S), NEW g, Numbers(g, S),
         NEW R \in SUBSET S, \A x \in R : f[x] <= g[x]
  PROVE  Sum(f, R) <= Sum(g, S)
<1> DEFINE N == {n \in Nat : \A T \in SUBSET S : Cardinality(T) <= n =>
                   Sum(f, R \cap T) <= Sum(g, T)}
<1>1. \A T \in SUBSET S : /\ IsFiniteSet(T) /\ Numbers(f, T) /\ Numbers(g, T)
                          /\ Cardinality(T) \in Nat
  BY FS_Subset, FS_CardinalityType DEF Numbers
<1>2. 0 \in N
  <2>1. ASSUME NEW T \in SUBSET S, Cardinality(T) <= 0 PROVE Sum(f, R \cap T) <= Sum(g, T)
    <3>1. T = {} /\ R \cap T = {}
      BY <1>1, <2>1, FS_EmptySet
    <3>2. Sum(f, {}) = 0 /\ Sum(g, {}) = 0
      BY SumOf
    <3> QED
      BY <3>1, <3>2
  <2> QED
    BY <2>1
<1>3. ASSUME NEW n \in Nat, n \in N PROVE n + 1 \in N
  <2> SUFFICES ASSUME NEW T \in SUBSET S, Cardinality(T) <= n + 1
               PROVE  Sum(f, R \cap T) <= Sum(g, T)
    OBVIOUS
  <2>1. CASE T = {}
    BY <1>2, <2>1, FS_EmptySet
  <2>2. CASE T # {}
    <3>1. PICK x \in T : TRUE
      BY <2>2
    <3> DEFINE U == T \ {x}
    <3>2. U \in SUBSET S /\ Cardinality(U) <= n
      <4>1. Cardinality(U) = Cardinality(T) - 1
        BY <1>1, <3>1, FS_RemoveElement
      <4> QED
        BY <1>1, <4>1
    <3>3. Sum(f, R \cap U) <= Sum(g, U) /\ R \cap U \in SUBSET S
      BY <1>3, <3>2
    <3>4. Sum(g, T) = g[x] + Sum(g, U)
      BY <1>1, <3>1, SumOf
    <3>5. /\ Sum(g, U) \in Nat /\ Sum(f, R \cap U) \in Nat
          /\ f[x] \in Nat /\ g[x] \in Nat
      BY <1>1, <3>1, <3>2, <3>3, SumOf DEF Numbers
    <3>6. CASE x \in R
      <4>1. (R \cap T) \ {x} = R \cap U /\ R \cap T \in SUBSET S /\ x \in R \cap T
        BY <3>1, <3>6
      <4>2. Sum(f, R \cap T) = f[x] + Sum(f, R \cap U)
        <5>1. IsFiniteSet(R \cap T) /\ Numbers(f, R \cap T)
          BY <1>1, <4>1
        <5> HIDE DEF U
        <5> QED
          BY <4>1, <5>1, SumOf
      <4>3. f[x] <= g[x]
        BY <3>6
      <4> HIDE DEF U
      <4> QED
        BY <3>3, <3>4, <3>5, <4>2, <4>3
    <3>7. CASE x \notin R
      <4>1. R \cap T = R \cap U
        BY <3>7
      <4> HIDE DEF U
      <4> QED
        BY <3>3, <3>4, <3>5, <4>1
    <3> QED
      BY <3>6, <3>7
  <2> QED
    BY <2>1, <2>2
<1>4. Nat \subseteq N
  <2> HIDE DEF N
  <2> QED
    BY <1>2, <1>3, Inductive
<1>5. Sum(f, R \cap S) <= Sum(g, S)
  BY <1>1, <1>4
<1>6. R \cap S = R
  OBVIOUS
<1> QED
  BY <1>5, <1>6

-----------------------------------------------------------------------------
(***************************************************************************)
(* The usable memory of a set of nodes                                     *)
(***************************************************************************)

Sized(S) == \A n \in S : n.mem \in Nat

LEMMA UsableType == ASSUME NEW m \in Nat PROVE Usable(m) \in Nat /\ Usable(m) <= m
BY DEF Usable

LEMMA UsableSum ==
  ASSUME NEW S, IsFiniteSet(S), Sized(S)
  PROVE  /\ UsableOf(S) \in Nat /\ UsableOf({}) = 0
         /\ \A x \in S : UsableOf(S) = Usable(x.mem) + UsableOf(S \ {x})
<1> DEFINE f == [n \in S |-> Usable(n.mem)]
<1>1. \A n \in S : f[n] = Usable(n.mem) /\ f[n] \in Nat
  BY UsableType DEF Sized
<1>2. Numbers(f, S)
  BY <1>1 DEF Numbers
<1>3. ASSUME NEW T \in SUBSET S PROVE UsableOf(T) = Sum(f, T)
  <2> DEFINE g == [n \in T |-> Usable(n.mem)]
  <2>1. \A n \in T : g[n] = f[n]
    OBVIOUS
  <2>2. IsFiniteSet(T) /\ Numbers(f, T)
    BY <1>2, FS_Subset DEF Numbers
  <2> HIDE DEF f, g
  <2>3. Sum(g, T) = Sum(f, T)
    BY <2>1, <2>2, SumAgrees
  <2> QED
    BY <2>3 DEF UsableOf, g
<1> HIDE DEF f
<1> QED
  BY <1>1, <1>2, <1>3, SumOf

LEMMA UsableGrows ==
  ASSUME NEW S, IsFiniteSet(S), Sized(S), NEW R \in SUBSET S
  PROVE  UsableOf(R) <= UsableOf(S)
<1> DEFINE f == [n \in R |-> Usable(n.mem)]
           g == [n \in S |-> Usable(n.mem)]
<1>1. Numbers(f, R) /\ Numbers(g, R) /\ Numbers(g, S) /\ IsFiniteSet(R)
  BY UsableType, FS_Subset DEF Numbers, Sized
<1>2. \A x \in R : f[x] = g[x]
  OBVIOUS
<1>3. \A x \in R : g[x] <= g[x]
  BY <1>1 DEF Numbers
<1> HIDE DEF f, g
<1>4. Sum(f, R) = Sum(g, R) /\ Sum(g, R) <= Sum(g, S)
  BY <1>1, <1>2, <1>3, SumAgrees, SumMonotone
<1> QED
  BY <1>4 DEF UsableOf, f, g

-----------------------------------------------------------------------------
(***************************************************************************)
(* What Recruit returns                                                    *)
(***************************************************************************)

\* A finite set of numbers has a greatest element: the one with the fewest above it.
LEMMA MaxOf ==
  ASSUME NEW T \in SUBSET Nat, IsFiniteSet(T), T # {}
  PROVE  Max(T) \in T /\ \A t \in T : t <= Max(T)
<1> DEFINE Above(t) == {u \in T : t < u}
           Counts == {Cardinality(Above(t)) : t \in T}
<1>1. \A t \in T : /\ Above(t) \in SUBSET T /\ IsFiniteSet(Above(t))
                   /\ Cardinality(Above(t)) \in Nat
  BY FS_Subset, FS_CardinalityType
<1>2. PICK k \in Counts : \A l \in Counts : k <= l
  <2>1. Counts \in SUBSET Nat /\ Counts # {}
    BY <1>1
  <2> HIDE DEF Counts
  <2> QED
    BY <2>1, MinOf
<1>3. PICK m \in T : \A t \in T : Cardinality(Above(m)) <= Cardinality(Above(t))
  BY <1>2
<1>4. ASSUME NEW t \in T, m < t PROVE FALSE
  <2>1. Above(t) \subseteq Above(m) /\ t \in Above(m) /\ t \notin Above(t)
    <3>1. \A u \in T : u \in Nat
      OBVIOUS
    <3>2. \A u \in T : t < u => m < u
      BY <1>4, <3>1
    <3>3. ~(t < t)
      BY <3>1
    <3> QED
      BY <1>4, <3>2, <3>3
  <2>2. Cardinality(Above(t)) <= Cardinality(Above(m))
        /\ Cardinality(Above(t)) # Cardinality(Above(m))
    BY <1>1, <2>1, FS_Subset
  <2>3. /\ Cardinality(Above(m)) <= Cardinality(Above(t))
        /\ Cardinality(Above(m)) \in Nat /\ Cardinality(Above(t)) \in Nat
    BY <1>1, <1>3
  <2> HIDE DEF Above
  <2> QED
    BY <2>2, <2>3
<1>5. \A t \in T : m >= t
  BY <1>4
<1> QED
  BY <1>5 DEF Max

AddTo(acc, n, limit) ==
  IF acc.capacity >= limit THEN acc
  ELSE [workers |-> Append(acc.workers, n), capacity |-> acc.capacity + Usable(n.mem)]

Alone(d) == [workers |-> <<>>, capacity |-> Usable(d.mem)]

Recruits(f, d, s, limit) ==
  f = [T \in SUBSET DOMAIN s |->
         IF T = {} THEN Alone(d) ELSE AddTo(f[T \ {Max(T)}], s[Max(T)], limit)]

LEMMA RecruitIs ==
  ASSUME NEW d, NEW s, NEW limit
  PROVE  Recruit(d, s, limit) = (CHOOSE f : Recruits(f, d, s, limit))[DOMAIN s]
BY Zenon DEF Recruit, FoldLeft, MapThenFoldSet, Recruits, Alone, AddTo

LEMMA RecruitsExists ==
  ASSUME NEW S, Sized(S), NEW n \in Nat, NEW s \in [1..n -> S],
         NEW d, d.mem \in Nat, NEW limit
  PROVE  \E f : Recruits(f, d, s, limit)
<1> DEFINE D == 1..n
           V == [workers : Seq(S), capacity : Nat]
           c == [T \in SUBSET D |-> Max(T)]
           g == [p \in (SUBSET D) \X V |-> AddTo(p[2], s[Max(p[1])], limit)]
<1>1. ASSUME NEW T \in SUBSET D, T # {} PROVE Max(T) \in T
  <2>1. IsFiniteSet(1..n)
    BY FS_Interval
  <2>2. T \in SUBSET Nat
    OBVIOUS
  <2>3. IsFiniteSet(T)
    BY <2>1, FS_Subset
  <2> QED
    BY <1>1, <2>2, <2>3, MaxOf
<1>2. Chooser(c, D)
  BY <1>1 DEF Chooser
<1>3. \A T \in SUBSET D, v \in V : g[<<T, v>>] = AddTo(v, s[Max(T)], limit)
  OBVIOUS
<1> HIDE DEF g
<1>4. ASSUME NEW T \in SUBSET D, NEW v \in V, T # {} PROVE g[<<T, v>>] \in V
  <2>1. s[Max(T)] \in S
    BY <1>1, <1>4
  <2>2. Usable(s[Max(T)].mem) \in Nat
    BY <2>1, UsableType DEF Sized
  <2>3. AddTo(v, s[Max(T)], limit) \in V
    BY <2>1, <2>2 DEF AddTo
  <2> QED
    BY <1>3, <2>3
<1>5. Alone(d) \in V
  BY UsableType DEF Alone
<1>6. PICK f \in [SUBSET D -> V] : IsFold(f, D, Alone(d), c, g)
  <2>1. Into(g, D, V)
    BY <1>4 DEF Into
  <2>2. IsFiniteSet(D)
    BY FS_Interval
  <2> HIDE DEF V, D, c
  <2> QED
    BY <1>2, <1>5, <2>1, <2>2, FoldExists
<1>7. ASSUME NEW T \in SUBSET D
      PROVE  f[T] = IF T = {} THEN Alone(d) ELSE AddTo(f[T \ {Max(T)}], s[Max(T)], limit)
  <2> HIDE DEF V
  <2> QED
    BY <1>3, <1>6 DEF IsFold
<1>8. DOMAIN s = D /\ f = [T \in SUBSET D |-> f[T]]
  OBVIOUS
<1>9. Recruits(f, d, s, limit)
  <2> HIDE DEF V, D
  <2> QED
    BY <1>7, <1>8 DEF Recruits
<1> QED
  BY <1>9

\* The first j of a sequence.
Team(s, j) == {s[i] : i \in 1..j}

\* Of the first k candidates the first j have been recruited, because the driver and they
\* have room and would not have without the last of them, or because there are no more.
TakesFirst(r, d, s, k, limit) ==
  \E j \in 0..k :
    /\ r.workers = [i \in 1..j |-> s[i]]
    /\ r.capacity = Usable(d.mem) + UsableOf(Team(s, j))
    /\ j < k => r.capacity >= limit
    /\ j > 0 => Usable(d.mem) + UsableOf(Team(s, j - 1)) < limit

Distinct(s, n) == \A i, j \in 1..n : i # j => s[i] # s[j]

Grows(s, n, S) ==
  /\ UsableOf(Team(s, 0)) = 0
  /\ \A k \in 0..n : /\ Team(s, k) \in SUBSET S /\ IsFiniteSet(Team(s, k))
                     /\ Cardinality(Team(s, k)) = k /\ UsableOf(Team(s, k)) \in Nat
  /\ \A k \in 1..n : UsableOf(Team(s, k)) = Usable(s[k].mem) + UsableOf(Team(s, k - 1))

LEMMA TeamGrows ==
  ASSUME NEW S, Sized(S), NEW n \in Nat, NEW s \in [1..n -> S], Distinct(s, n)
  PROVE  Grows(s, n, S)
<1>1. Team(s, 0) = {} /\ Sized({}) /\ IsFiniteSet({})
  BY FS_EmptySet DEF Team, Sized
<1>2. UsableOf(Team(s, 0)) = 0
  BY <1>1, UsableSum
<1>3. ASSUME NEW k \in 0..n
      PROVE  /\ Team(s, k) \in SUBSET S /\ IsFiniteSet(Team(s, k))
             /\ Cardinality(Team(s, k)) = k /\ UsableOf(Team(s, k)) \in Nat
  <2> DEFINE f == [i \in 1..k |-> s[i]]
  <2>1. f \in Surjection(1..k, Team(s, k)) /\ f \in Injection(1..k, Team(s, k))
    BY DEF Surjection, Injection, IsInjective, Team, Distinct
  <2>2. IsFiniteSet(1..k) /\ Cardinality(1..k) = k
    BY FS_Interval
  <2>3. IsFiniteSet(Team(s, k)) /\ Cardinality(Team(s, k)) = k
    BY <2>1, <2>2, FS_Surjection
  <2>4. Team(s, k) \in SUBSET S /\ Sized(Team(s, k))
    BY DEF Team, Sized
  <2> QED
    BY <2>3, <2>4, UsableSum
<1>4. ASSUME NEW k \in 1..n
      PROVE  UsableOf(Team(s, k)) = Usable(s[k].mem) + UsableOf(Team(s, k - 1))
  <2>1. s[k] \in Team(s, k) /\ Team(s, k) \ {s[k]} = Team(s, k - 1)
    BY DEF Team, Distinct
  <2>2. k \in 0..n /\ Sized(Team(s, k))
    BY DEF Team, Sized
  <2> QED
    BY <1>3, <2>1, <2>2, UsableSum
<1> QED
  BY <1>2, <1>3, <1>4 DEF Grows

LEMMA RecruitPrefix ==
  ASSUME NEW S, Sized(S), NEW n \in Nat, NEW s \in [1..n -> S],
         Distinct(s, n),
         NEW d, d.mem \in Nat, NEW limit \in Nat
  PROVE  TakesFirst(Recruit(d, s, limit), d, s, n, limit)
<1>1. PICK f : Recruits(f, d, s, limit) /\ f = (CHOOSE h : Recruits(h, d, s, limit))
  BY RecruitsExists
<1>2. Recruit(d, s, limit) = f[1..n]
  BY <1>1, RecruitIs
<1>3. \A T \in SUBSET (1..n) :
        f[T] = IF T = {} THEN Alone(d) ELSE AddTo(f[T \ {Max(T)}], s[Max(T)], limit)
  BY <1>1 DEF Recruits
<1> DEFINE N == {k \in Nat : k <= n => TakesFirst(f[1..k], d, s, k, limit)}
<1>4. Usable(d.mem) \in Nat
  BY UsableType
<1>5. Grows(s, n, S)
  BY TeamGrows
<1>6. 0 \in N
  <2>0. 1..0 = {}
    OBVIOUS
  <2>1. f[1..0] = Alone(d)
    BY <1>3, <2>0
  <2>2. Alone(d).workers = [i \in 1..0 |-> s[i]]
        /\ Alone(d).capacity = Usable(d.mem) + UsableOf(Team(s, 0))
    BY <1>4, <1>5 DEF Grows, Alone
  <2> QED
    BY <2>1, <2>2 DEF TakesFirst
<1>7. ASSUME NEW k \in Nat, k \in N, k + 1 <= n
      PROVE  TakesFirst(f[1..k + 1], d, s, k + 1, limit)
  <2>0. Max(1..k + 1) = k + 1
    BY MaxOfInterval
  <2>1. 1..k + 1 \in SUBSET (1..n) /\ 1..k + 1 # {} /\ (1..k + 1) \ {k + 1} = 1..k
    BY <1>7
  <2> DEFINE r == f[1..k]
  <2>2. f[1..k + 1] = AddTo(r, s[k + 1], limit)
    BY <1>3, <2>0, <2>1
  <2>3. TakesFirst(r, d, s, k, limit)
    BY <1>7
  <2> HIDE DEF r
  <2>4. PICK j \in 0..k :
          /\ r.workers = [i \in 1..j |-> s[i]]
          /\ r.capacity = Usable(d.mem) + UsableOf(Team(s, j))
          /\ j < k => r.capacity >= limit
          /\ j > 0 => Usable(d.mem) + UsableOf(Team(s, j - 1)) < limit
    BY <2>3 DEF TakesFirst
  <2>5. j \in 0..n /\ j \in 0..k + 1 /\ UsableOf(Team(s, j)) \in Nat /\ r.capacity \in Nat
    <3> HIDE DEF N
    <3>1. j \in 0..n /\ j \in 0..k + 1
      BY <1>7
    <3>2. UsableOf(Team(s, j)) \in Nat
      BY <3>1, <1>5 DEF Grows
    <3> QED
      BY <1>4, <2>4, <3>1, <3>2
  <2>6. CASE r.capacity >= limit
    <3>1. f[1..k + 1] = r
      BY <2>2, <2>6 DEF AddTo
    <3> QED
      BY <2>4, <2>5, <2>6, <3>1 DEF TakesFirst
  <2>7. CASE ~(r.capacity >= limit)
    <3>1. j = k
      BY <2>4, <2>7
    <3>2. f[1..k + 1] = [workers |-> Append(r.workers, s[k + 1]),
                         capacity |-> r.capacity + Usable(s[k + 1].mem)]
      BY <2>2, <2>7 DEF AddTo
    <3>3. Append(r.workers, s[k + 1]) = [i \in 1..k + 1 |-> s[i]]
      <4>1. s[k + 1] \in S /\ [i \in 1..k |-> s[i]] \in Seq(S)
            /\ Len([i \in 1..k |-> s[i]]) = k
        BY <1>7
      <4> QED
        BY <2>4, <3>1, <4>1
    <3>4. k + 1 \in 1..n /\ Usable(s[k + 1].mem) \in Nat
      <4>1. k + 1 \in 1..n /\ s[k + 1].mem \in Nat
        BY <1>7 DEF Sized
      <4> QED
        BY <4>1, UsableType
    <3>5. UsableOf(Team(s, k + 1)) = Usable(s[k + 1].mem) + UsableOf(Team(s, k))
      <4>1. (k + 1) - 1 = k
        OBVIOUS
      <4> QED
        BY <3>4, <4>1, <1>5 DEF Grows
    <3>6. r.capacity + Usable(s[k + 1].mem) = Usable(d.mem) + UsableOf(Team(s, k + 1))
      BY <1>4, <2>4, <2>5, <3>1, <3>4, <3>5
    <3>7. Usable(d.mem) + UsableOf(Team(s, (k + 1) - 1)) < limit
      BY <2>4, <2>5, <2>7, <3>1
    <3> QED
      BY <3>2, <3>3, <3>6, <3>7 DEF TakesFirst
  <2> QED
    BY <2>6, <2>7
<1>8. Nat \subseteq N
  <2>1. \A k \in Nat : k \in N => k + 1 \in N
    BY <1>7
  <2> HIDE DEF N
  <2> QED
    BY <1>6, <2>1, Inductive
<1> QED
  BY <1>2, <1>8

-----------------------------------------------------------------------------
(***************************************************************************)
(* Candidates in descending order                                          *)
(***************************************************************************)

LEMMA Descending ==
  ASSUME NEW S, NEW s \in DescendingMem(S)
  PROVE  /\ s \in [1..Cardinality(S) -> S] /\ Distinct(s, Cardinality(S))
         /\ \A i, j \in 1..Cardinality(S) : i < j => s[i].mem >= s[j].mem
<1>1. s \in SetToSeqs(S) /\ \A i, j \in DOMAIN s : i < j => s[i].mem >= s[j].mem
  BY DEF DescendingMem
<1>2. s \in [1..Cardinality(S) -> S] /\ Distinct(s, Cardinality(S))
  BY <1>1 DEF SetToSeqs, Distinct
<1> QED
  BY <1>1, <1>2

\* Whoever is in the set is somewhere in the order.
LEMMA DescendingAll ==
  ASSUME NEW S, IsFiniteSet(S), NEW s \in DescendingMem(S)
  PROVE  S = Team(s, Cardinality(S))
<1> DEFINE n == Cardinality(S)
<1>1. n \in Nat /\ IsFiniteSet(1..n) /\ Cardinality(1..n) = n
  BY FS_CardinalityType, FS_Interval
<1>2. s \in Injection(1..n, S)
  BY Descending DEF Injection, IsInjective, Distinct
<1>3. s \in Surjection(1..n, S)
  BY <1>1, <1>2, FS_Injection
<1> QED
  BY <1>3, Descending DEF Surjection, Team

LEMMA UsableMonotone ==
  ASSUME NEW a \in Nat, NEW b \in Nat, a <= b
  PROVE  Usable(a) <= Usable(b)
BY DEF Usable

\* No other k candidates have more room than the first k.
LEMMA FirstAreBest ==
  ASSUME NEW S, IsFiniteSet(S), Sized(S), NEW s \in DescendingMem(S), NEW W \in SUBSET S
  PROVE  UsableOf(W) <= UsableOf(Team(s, Cardinality(W)))
<1> DEFINE n == Cardinality(S)
           N == {k \in Nat : \A V \in SUBSET S :
                   Cardinality(V) = k => UsableOf(V) <= UsableOf(Team(s, k))}
<1>1. n \in Nat
  BY FS_CardinalityType
<1>2. /\ s \in [1..n -> S] /\ Distinct(s, n)
      /\ \A i, j \in 1..n : i < j => s[i].mem >= s[j].mem
  BY Descending
<1>3. Grows(s, n, S) /\ S = Team(s, n)
  BY <1>1, <1>2, TeamGrows, DescendingAll
<1>4. \A V \in SUBSET S : IsFiniteSet(V) /\ Sized(V) /\ Cardinality(V) \in 0..n
  BY <1>1, FS_Subset, FS_CardinalityType DEF Sized
<1>5. 0 \in N
  <2>1. ASSUME NEW V \in SUBSET S, Cardinality(V) = 0 PROVE UsableOf(V) <= UsableOf(Team(s, 0))
    <3>1. V = {} /\ Team(s, 0) = {}
      BY <1>4, <2>1, FS_EmptySet DEF Team
    <3>2. UsableOf(V) = 0 /\ UsableOf(Team(s, 0)) = 0
      BY <1>3, <1>4, <3>1 DEF Grows
    <3> QED
      BY <3>2
  <2> QED
    BY <2>1
<1>6. ASSUME NEW k \in Nat, k \in N PROVE k + 1 \in N
  <2> SUFFICES ASSUME NEW V \in SUBSET S, Cardinality(V) = k + 1
               PROVE  UsableOf(V) <= UsableOf(Team(s, k + 1))
    OBVIOUS
  <2> HIDE DEF n
  <2>1. k + 1 \in 1..n /\ k \in 0..n /\ k + 1 \in 0..n
    BY <1>1, <1>4
  <2>2. PICK j \in 1..n : s[j] \in V /\ j >= k + 1
    <3> SUFFICES ASSUME \A j \in 1..n : s[j] \in V => j <= k
                 PROVE  FALSE
      BY <1>1
    <3>1. V \subseteq Team(s, k)
      BY <1>3 DEF Team
    <3>2. IsFiniteSet(Team(s, k)) /\ Cardinality(Team(s, k)) = k
      BY <1>3, <2>1 DEF Grows
    <3>3. Cardinality(V) <= k
      BY <3>1, <3>2, FS_Subset
    <3> QED
      BY <3>3
  <2>3. V \ {s[j]} \in SUBSET S /\ Cardinality(V \ {s[j]}) = k
    <3>1. Cardinality(V \ {s[j]}) = Cardinality(V) - 1
      BY <1>4, <2>2, FS_RemoveElement
    <3> QED
      BY <3>1
  <2>4. UsableOf(V \ {s[j]}) <= UsableOf(Team(s, k))
    BY <1>6, <2>3
  <2>5. UsableOf(V) = Usable(s[j].mem) + UsableOf(V \ {s[j]})
    BY <1>4, <2>2, UsableSum
  <2>6. UsableOf(Team(s, k + 1)) = Usable(s[k + 1].mem) + UsableOf(Team(s, k))
    <3>1. (k + 1) - 1 = k
      OBVIOUS
    <3> QED
      BY <1>3, <2>1, <3>1 DEF Grows
  <2>7. Usable(s[j].mem) <= Usable(s[k + 1].mem)
    <3>1. s[j].mem \in Nat /\ s[k + 1].mem \in Nat
      BY <1>2, <2>1 DEF Sized
    <3>2. s[j].mem <= s[k + 1].mem
      BY <1>2, <2>1, <2>2, <3>1
    <3> QED
      BY <3>1, <3>2, UsableMonotone
  <2>8. /\ Usable(s[j].mem) \in Nat /\ Usable(s[k + 1].mem) \in Nat
        /\ UsableOf(V \ {s[j]}) \in Nat /\ UsableOf(Team(s, k)) \in Nat
    <3>1. s[j].mem \in Nat /\ s[k + 1].mem \in Nat
      BY <1>2, <2>1 DEF Sized
    <3>2. UsableOf(V \ {s[j]}) \in Nat
      BY <1>4, <2>3, UsableSum
    <3> QED
      BY <1>3, <2>1, <3>1, <3>2, UsableType DEF Grows
  <2> QED
    BY <2>4, <2>5, <2>6, <2>7, <2>8
<1>7. Nat \subseteq N
  <2> HIDE DEF N
  <2> QED
    BY <1>5, <1>6, Inductive
<1> QED
  BY <1>1, <1>4, <1>7

-----------------------------------------------------------------------------
(***************************************************************************)
(* What PlanSplit returns                                                  *)
(***************************************************************************)

States(nodes) == nodes \in Seq(ToSet(nodes)) /\ \A n \in ToSet(nodes) : NodeState(n)

LEMMA EligibleType ==
  ASSUME NEW nodes, States(nodes)
  PROVE  /\ IsFiniteSet(Eligible(nodes)) /\ Sized(Eligible(nodes))
         /\ \A n \in Eligible(nodes) : NodeState(n)
<1> DEFINE l == Len(nodes)
<1>1. l \in Nat /\ nodes \in [1..l -> ToSet(nodes)]
  BY DEF States
<1>2. nodes \in Surjection(1..l, ToSet(nodes))
  BY <1>1 DEF Surjection, ToSet
<1>3. IsFiniteSet(1..l)
  BY <1>1, FS_Interval
<1>4. IsFiniteSet(ToSet(nodes))
  BY <1>2, <1>3, FS_Surjection
<1>5. IsFiniteSet(Eligible(nodes))
  BY <1>4, FS_Subset DEF Eligible
<1> QED
  BY <1>5 DEF Eligible, Sized, States, NodeState

\* The size is the largest that a holder reports for one of its copies.
LEMMA ModelSizeType ==
  ASSUME NEW nodes, States(nodes), NEW model
  PROVE  /\ ModelSize(nodes, model) \in Nat
         /\ \A n \in Holders(nodes, model) : \A m \in Copies(n, model) :
              m.size <= ModelSize(nodes, model)
<1> DEFINE H == Holders(nodes, model)
           K == {Copies(n, model) : n \in H}
           U == UNION K
           Z == {m.size : m \in U}
<1>1. IsFiniteSet(H) /\ \A n \in H : NodeState(n)
  BY EligibleType, FS_Subset DEF Holders
<1>2. IsFiniteSet(K)
  <2> DEFINE f == [n \in H |-> Copies(n, model)]
  <2>1. f \in Surjection(H, K)
    BY DEF Surjection
  <2> QED
    BY <1>1, <2>1, FS_Surjection
<1>3. \A k \in K : IsFiniteSet(k)
  <2> SUFFICES ASSUME NEW n \in H PROVE IsFiniteSet(Copies(n, model))
    OBVIOUS
  <2> QED
    BY <1>1, FS_Subset DEF NodeState, Copies
<1>4. IsFiniteSet(U)
  <2> HIDE DEF K
  <2> QED
    BY <1>2, <1>3, FS_UNION
<1>5. IsFiniteSet(Z)
  <2> HIDE DEF U
  <2> DEFINE f == [m \in U |-> m.size]
  <2>1. f \in Surjection(U, Z)
    BY DEF Surjection
  <2> QED
    BY <1>4, <2>1, FS_Surjection
<1>6. Z \subseteq Nat
  BY <1>1 DEF NodeState, Copies
<1>7. IsFiniteSet({0} \cup Z) /\ {0} \cup Z \in SUBSET Nat
  BY <1>5, <1>6, FS_AddElement
<1>8. Max({0} \cup Z) \in Nat /\ \A z \in Z : z <= Max({0} \cup Z)
  <2> HIDE DEF Z
  <2> QED
    BY <1>7, MaxOf
<1>9. \A n \in H : \A m \in Copies(n, model) : m.size \in Z
  OBVIOUS
<1> QED
  BY <1>8, <1>9 DEF ModelSize

\* The driver has the weights and llama-server, and the workers are the first of the
\* candidates: as many as are needed, and no more.
LEMMA PlanIs ==
  ASSUME NEW nodes, States(nodes), NEW model,
         NEW plan \in PlanSplit(nodes, model), plan.kind = "plan"
  PROVE  LET d == plan.driver
             C == Candidates(nodes, d)
             limit == Need(ModelSize(nodes, model))
         IN /\ SplitNeeded(nodes, model) /\ d \in Drivers(nodes, model)
            /\ \E s \in DescendingMem(C), j \in 0..Cardinality(C) :
                 /\ plan.workers = [i \in 1..j |-> s[i]]
                 /\ Usable(d.mem) + UsableOf(Team(s, j)) >= limit
                 /\ j > 0 => Usable(d.mem) + UsableOf(Team(s, j - 1)) < limit
<1> DEFINE limit == Need(ModelSize(nodes, model))
           Result(d, s) == LET r == Recruit(d, s, limit)
                           IN IF r.capacity < limit THEN [kind |-> "error"]
                              ELSE [kind |-> "plan", driver |-> d, workers |-> r.workers]
<1>1. SplitNeeded(nodes, model) /\ Drivers(nodes, model) # {}
  BY DEF PlanSplit
<1>2. PICK t \in DescendingMem(Drivers(nodes, model)) :
        \E s \in DescendingMem(Candidates(nodes, t[1])) : plan = Result(t[1], s)
  BY <1>1 DEF PlanSplit
<1> DEFINE d == t[1]
           C == Candidates(nodes, d)
           n == Cardinality(C)
<1>0. PICK s \in DescendingMem(C) : plan = Result(d, s)
  BY <1>2
<1>3. d \in Drivers(nodes, model) /\ d.mem \in Nat
  <2>1. Drivers(nodes, model) \in SUBSET Eligible(nodes)
    BY DEF Drivers, Holders
  <2>2. /\ IsFiniteSet(Drivers(nodes, model)) /\ Cardinality(Drivers(nodes, model)) \in Nat
        /\ Cardinality(Drivers(nodes, model)) # 0
    BY <1>1, <2>1, EligibleType, FS_Subset, FS_CardinalityType, FS_EmptySet
  <2>3. t[1] \in Drivers(nodes, model)
    BY <2>2, Descending
  <2> QED
    BY <2>1, <2>3, EligibleType DEF Sized
<1>4. IsFiniteSet(C) /\ Sized(C) /\ n \in Nat
  BY EligibleType, FS_Subset, FS_CardinalityType DEF Candidates, Sized
<1>5. limit \in Nat
  BY ModelSizeType DEF Need
<1>6. TakesFirst(Recruit(d, s, limit), d, s, n, limit)
  <2> HIDE DEF d, C, n, limit
  <2>1. s \in [1..n -> C] /\ Distinct(s, n)
    BY <1>0, Descending DEF C, n
  <2> QED
    BY <1>3, <1>4, <1>5, <2>1, RecruitPrefix
<1> DEFINE r == Recruit(d, s, limit)
<1>7. ~(r.capacity < limit) /\ plan.driver = d /\ plan.workers = r.workers
  BY <1>0
<1>8. PICK j \in 0..n :
        /\ r.workers = [i \in 1..j |-> s[i]]
        /\ r.capacity = Usable(d.mem) + UsableOf(Team(s, j))
        /\ j < n => r.capacity >= limit
        /\ j > 0 => Usable(d.mem) + UsableOf(Team(s, j - 1)) < limit
  BY <1>6 DEF TakesFirst
<1>9. r.capacity \in Nat
  <2>1. Grows(s, n, C)
    BY <1>4, Descending, TeamGrows
  <2>2. Usable(d.mem) \in Nat /\ UsableOf(Team(s, j)) \in Nat
    BY <1>3, <2>1, UsableType DEF Grows
  <2> HIDE DEF r, d
  <2> QED
    BY <1>8, <2>2
<1>10. r.capacity >= limit
  BY <1>5, <1>7, <1>9
<1> QED
  BY <1>1, <1>3, <1>7, <1>8, <1>10
================================================================================
