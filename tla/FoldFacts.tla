----------------------------- MODULE FoldFacts -----------------------------
(***************************************************************************)
(* What the folds the models are built from compute, for any finite data:  *)
(* the sums over sectors, depositors, levels and vaults (SumFunction of    *)
(* the community modules).                                                 *)
(*                                                                         *)
(* A fold is a CHOOSE of a function defined on all subsets of its domain.  *)
(* FoldExists shows there is one; the facts about it are inductions over   *)
(* subsets, each one stated about the set of the subsets it holds of.      *)
(***************************************************************************)
EXTENDS Integers, Functions, FiniteSets, FiniteSetTheorems, TLAPS

-----------------------------------------------------------------------------
(* Induction *)

\* Every subset of a finite set is in T, when a subset is in T as soon as all
\* smaller ones are.
LEMMA SubsetInduction ==
    ASSUME NEW S, IsFiniteSet(S), NEW T,
           \A s \in SUBSET S : (\A t \in SUBSET s : t # s => t \in T) => s \in T
    PROVE  \A s \in SUBSET S : s \in T
  <1> DEFINE bad == {s \in SUBSET S : s \notin T}
  <1>1. SUFFICES ASSUME bad # {} PROVE FALSE
    OBVIOUS
  <1>2. bad \subseteq FiniteSubsetsOf(S)
    BY FS_Subset DEF FiniteSubsetsOf
  <1>3. PICK s \in bad : \A t \in bad : <<t, s>> \notin StrictSubsetOrdering(S)
    <2> HIDE DEF bad
    <2> QED
      BY <1>1, <1>2, FS_StrictSubsetOrderingWellFounded, WFMin
  <1>4. \A t \in SUBSET s : t # s => t \in T
    BY <1>3 DEF StrictSubsetOrdering
  <1> QED
    BY <1>4

\* Induction over the naturals, for a set of them.
LEMMA NatSetInduction ==
    ASSUME NEW T, 0 \in T, \A n \in Nat : n \in T => n + 1 \in T
    PROVE  \A n \in Nat : n \in T
  <1> SUFFICES ASSUME NEW n \in Nat PROVE n \in T
    OBVIOUS
  <1> DEFINE N == 1 .. n
             sized == {s \in SUBSET N : Cardinality(s) \in T}
  <1>1. IsFiniteSet(N) /\ Cardinality(N) = n
    BY FS_Interval
  <1> HIDE DEF N
  <1>2. ASSUME NEW s \in SUBSET N, \A t \in SUBSET s : t # s => t \in sized
        PROVE  s \in sized
    <2>1. IsFiniteSet(s)
      BY <1>1, FS_Subset
    <2>2. CASE s = {}
      BY <2>2, FS_EmptySet
    <2>3. CASE s # {}
      <3>1. PICK x \in s : TRUE
        BY <2>3
      <3>2. /\ Cardinality(s \ {x}) = Cardinality(s) - 1
            /\ Cardinality(s) \in Nat /\ Cardinality(s \ {x}) \in Nat
        BY <2>1, FS_RemoveElement, FS_CardinalityType
      <3>3. s \ {x} \in sized
        BY <1>2
      <3> QED
        BY <3>2, <3>3
    <2> QED
      BY <2>2, <2>3
  <1>3. \A s \in SUBSET N : s \in sized
    <2> HIDE DEF sized
    <2> QED
      BY <1>1, <1>2, SubsetInduction
  <1> QED
    BY <1>1, <1>3

-----------------------------------------------------------------------------
(* Folds *)

\* it folds step over every subset of S, taking the element c chooses first.
IsFold(it, S, base, step, c) ==
    it = [s \in SUBSET S |-> IF s = {} THEN base ELSE step[c[s]][it[s \ {c[s]}]]]

LEMMA FoldExists ==
    ASSUME NEW S, IsFiniteSet(S), NEW base, NEW step, NEW c,
           \A s \in SUBSET S : s # {} => c[s] \in s
    PROVE  \E it : IsFold(it, S, base, step, c)
  <1> DEFINE UpTo(n) == {s \in SUBSET S : Cardinality(s) <= n}
             Rec(g, s) == g[s] = IF s = {} THEN base ELSE step[c[s]][g[s \ {c[s]}]]
             Holds(g, n) == \A s \in UpTo(n) : Rec(g, s)
             ok == {n \in Nat : \E g : Holds(g, n)}
  <1>1. \A s \in SUBSET S : /\ IsFiniteSet(s) /\ Cardinality(s) \in Nat
                            /\ Cardinality(s) <= Cardinality(S)
    BY FS_Subset, FS_CardinalityType
  <1>2. 0 \in ok
    <2>1. UpTo(0) = {{}}
      BY <1>1, FS_EmptySet
    <2>2. Holds([s \in UpTo(0) |-> base], 0)
      BY <2>1
    <2> QED
      BY <2>2
  <1>3. ASSUME NEW n \in Nat, n \in ok
        PROVE  n + 1 \in ok
    <2>1. PICK g : Holds(g, n)
      BY <1>3
    <2> DEFINE h == [s \in SUBSET S |-> IF Cardinality(s) <= n THEN g[s]
                                        ELSE step[c[s]][g[s \ {c[s]}]]]
    <2>2. ASSUME NEW s \in UpTo(n + 1)
          PROVE  Rec(h, s)
      <3>1. s # {} => /\ s \ {c[s]} \in SUBSET S
                      /\ Cardinality(s \ {c[s]}) = Cardinality(s) - 1
        BY <1>1, FS_RemoveElement
      <3>2. s # {} => h[s \ {c[s]}] = g[s \ {c[s]}]
        BY <1>1, <3>1
      <3>3. CASE Cardinality(s) <= n
        <4>1. Rec(g, s)
          BY <2>1, <3>3
        <4> QED
          BY <3>2, <3>3, <4>1
      <3>4. CASE ~(Cardinality(s) <= n)
        <4>1. s = {} => Cardinality(s) = 0
          BY FS_EmptySet
        <4>2. s # {}
          BY <3>4, <4>1
        <4> QED
          BY <3>2, <3>4, <4>2
      <3> QED
        BY <3>3, <3>4
    <2> HIDE DEF h
    <2>3. Holds(h, n + 1)
      BY <2>2
    <2> HIDE DEF Holds
    <2> QED
      BY <2>3
  <1>4. \A n \in Nat : n \in ok
    <2> HIDE DEF ok
    <2> QED
      BY <1>2, <1>3, NatSetInduction
  <1>5. PICK g : Holds(g, Cardinality(S))
    BY <1>1, <1>4
  <1> DEFINE it == [s \in SUBSET S |-> g[s]]
  <1>6. ASSUME NEW s \in SUBSET S
        PROVE  Rec(it, s)
    <2>1. Rec(g, s)
      BY <1>1, <1>5
    <2>2. s # {} => s \ {c[s]} \in SUBSET S
      OBVIOUS
    <2> QED
      BY <2>1, <2>2
  <1>7. IsFold(it, S, base, step, c)
    BY <1>6 DEF IsFold
  <1> QED
    BY <1>7

-----------------------------------------------------------------------------
(* Sums *)

\* The element SumFunction takes first.
Pick(s) == CHOOSE x \in s : TRUE

\* The sums over every subset of f's domain, as SumFunction builds them.
IsPartialSums(it, f) ==
    it = [s \in SUBSET DOMAIN f |-> IF s = {} THEN 0 ELSE f[Pick(s)] + it[s \ {Pick(s)}]]

PartialSums(f) == CHOOSE it : IsPartialSums(it, f)

LEMMA SumIsPartialSum ==
    ASSUME NEW f
    PROVE  SumFunction(f) = PartialSums(f)[DOMAIN f]
  BY DEF SumFunction, SumFunctionOnSet, FoldFunctionOnSet, MapThenFoldSet, PartialSums,
         IsPartialSums, Pick

\* The recursion SumFunction is defined by has a solution.
LEMMA PartialSumsRecursion ==
    ASSUME NEW D, IsFiniteSet(D), NEW f \in [D -> Int]
    PROVE  /\ PartialSums(f) \in [SUBSET D -> Int]
           /\ PartialSums(f)[{}] = 0
           /\ \A s \in SUBSET D : s # {} =>
                 /\ Pick(s) \in s
                 /\ PartialSums(f)[s] = f[Pick(s)] + PartialSums(f)[s \ {Pick(s)}]
  <1> DEFINE c == [s \in SUBSET D |-> Pick(s)]
             step == [x \in D |-> [a \in Int |-> f[x] + a]]
             Typed(it) == {s \in SUBSET D : it[s] \in Int}
  <1>1. \A s \in SUBSET D : s # {} => Pick(s) \in s
    BY DEF Pick
  <1>2. PICK it : IsFold(it, D, 0, step, c)
    <2>1. \A s \in SUBSET D : s # {} => c[s] \in s
      BY <1>1
    <2> HIDE DEF c, step
    <2> QED
      BY <2>1, FoldExists
  <1>3. /\ it = [s \in SUBSET D |-> it[s]] /\ it[{}] = 0
        /\ \A s \in SUBSET D : s # {} => it[s] = step[Pick(s)][it[s \ {Pick(s)}]]
    <2> HIDE DEF step
    <2> QED
      BY <1>2 DEF IsFold
  <1>4. ASSUME NEW s \in SUBSET D, \A t \in SUBSET s : t # s => t \in Typed(it)
        PROVE  s \in Typed(it)
    <2>1. CASE s = {}
      BY <2>1, <1>3
    <2>2. CASE s # {}
      <3>1. Pick(s) \in s /\ it[s \ {Pick(s)}] \in Int
        BY <1>1, <1>4, <2>2
      <3>2. step[Pick(s)][it[s \ {Pick(s)}]] \in Int
        BY <3>1
      <3> HIDE DEF step
      <3> QED
        BY <1>3, <2>2, <3>2
    <2> QED
      BY <2>1, <2>2
  <1>5. \A s \in SUBSET D : s \in Typed(it)
    <2> HIDE DEF Typed
    <2> QED
      BY <1>4, SubsetInduction
  <1>6. ASSUME NEW s \in SUBSET D, s # {}
        PROVE  it[s] = f[Pick(s)] + it[s \ {Pick(s)}]
    <2>1. Pick(s) \in s /\ it[s \ {Pick(s)}] \in Int
      BY <1>1, <1>5, <1>6
    <2> QED
      BY <1>3, <1>6, <2>1
  <1>7. IsPartialSums(it, f)
    <2>1. DOMAIN f = D
      OBVIOUS
    <2> HIDE DEF step, c
    <2> QED
      BY <1>3, <1>6, <2>1 DEF IsPartialSums
  <1>8. IsPartialSums(PartialSums(f), f)
    BY <1>7 DEF PartialSums
  <1> DEFINE g == PartialSums(f)
  <1>9. g = [s \in SUBSET D |-> IF s = {} THEN 0 ELSE f[Pick(s)] + g[s \ {Pick(s)}]]
    BY <1>8 DEF IsPartialSums
  <1> HIDE DEF g, c, step
  <1>10. /\ g = [s \in SUBSET D |-> g[s]] /\ g[{}] = 0
         /\ \A s \in SUBSET D : s # {} => g[s] = f[Pick(s)] + g[s \ {Pick(s)}]
    BY <1>9
  <1>11. ASSUME NEW s \in SUBSET D, \A t \in SUBSET s : t # s => t \in Typed(g)
         PROVE  s \in Typed(g)
    <2>1. CASE s = {}
      BY <2>1, <1>10
    <2>2. CASE s # {}
      <3>1. Pick(s) \in s /\ g[s \ {Pick(s)}] \in Int
        BY <1>1, <1>11, <2>2
      <3>2. f[Pick(s)] + g[s \ {Pick(s)}] \in Int
        BY <3>1
      <3> QED
        BY <1>10, <2>2, <3>2
    <2> QED
      BY <2>1, <2>2
  <1>12. \A s \in SUBSET D : s \in Typed(g)
    <2> HIDE DEF Typed
    <2> QED
      BY <1>11, SubsetInduction
  <1> QED
    BY <1>1, <1>10, <1>12 DEF g

\* Any element of a set may be taken first.
AnyFirst(f, D) ==
    \A s \in SUBSET D : \A x \in s : PartialSums(f)[s] = f[x] + PartialSums(f)[s \ {x}]

LEMMA PartialSumRemove ==
    ASSUME NEW D, IsFiniteSet(D), NEW f \in [D -> Int]
    PROVE  AnyFirst(f, D)
  <1> DEFINE g == PartialSums(f)
             T == {t \in SUBSET D : \A y \in t : g[t] = f[y] + g[t \ {y}]}
  <1>1. /\ g \in [SUBSET D -> Int]
        /\ \A t \in SUBSET D : t # {} => Pick(t) \in t /\ g[t] = f[Pick(t)] + g[t \ {Pick(t)}]
    BY PartialSumsRecursion
  <1> HIDE DEF g
  <1>2. ASSUME NEW t \in SUBSET D, \A r \in SUBSET t : r # t => r \in T
        PROVE  t \in T
    <2> SUFFICES ASSUME NEW y \in t PROVE g[t] = f[y] + g[t \ {y}]
      OBVIOUS
    <2> DEFINE p == Pick(t)
    <2>1. p \in t /\ g[t] = f[p] + g[t \ {p}]
      BY <1>1
    <2> HIDE DEF p
    <2>2. CASE p = y
      BY <2>1, <2>2
    <2>3. CASE p # y
      <3>1. t \ {p} \in T /\ t \ {y} \in T
        BY <1>2, <2>1
      <3>2. g[t \ {p}] = f[y] + g[(t \ {p}) \ {y}]
        BY <2>3, <3>1
      <3>3. g[t \ {y}] = f[p] + g[(t \ {y}) \ {p}]
        BY <2>1, <2>3, <3>1
      <3>4. (t \ {p}) \ {y} = (t \ {y}) \ {p}
        OBVIOUS
      <3>5. g[(t \ {y}) \ {p}] \in Int /\ f[p] \in Int /\ f[y] \in Int
        BY <1>1, <2>1
      <3> DEFINE rest == g[(t \ {y}) \ {p}]
      <3>6. g[t] = f[p] + (f[y] + rest) /\ g[t \ {y}] = f[p] + rest
        BY <2>1, <3>2, <3>3, <3>4
      <3>7. rest \in Int
        BY <3>5
      <3> HIDE DEF rest
      <3> QED
        BY <3>5, <3>6, <3>7
    <2> QED
      BY <2>2, <2>3
  <1>3. \A t \in SUBSET D : t \in T
    <2> HIDE DEF T
    <2> QED
      BY <1>2, SubsetInduction
  <1> QED
    BY <1>3 DEF g, AnyFirst

\* Two functions, one no greater than the other on a set, and equal where they
\* agree: the three facts below come from this one.
LEMMA PartialSumsCompare ==
    ASSUME NEW D, IsFiniteSet(D), NEW f \in [D -> Int], NEW h \in [D -> Int],
           NEW s \in SUBSET D, \A x \in s : f[x] <= h[x]
    PROVE  PartialSums(f)[s] <= PartialSums(h)[s]
  <1> DEFINE F == PartialSums(f)
             H == PartialSums(h)
             T == {t \in SUBSET D : (\A x \in t : f[x] <= h[x]) => F[t] <= H[t]}
  <1>1. /\ F \in [SUBSET D -> Int] /\ H \in [SUBSET D -> Int] /\ F[{}] = 0 /\ H[{}] = 0
    BY PartialSumsRecursion
  <1>2. /\ \A t \in SUBSET D : \A x \in t : F[t] = f[x] + F[t \ {x}]
        /\ \A t \in SUBSET D : \A x \in t : H[t] = h[x] + H[t \ {x}]
    <2>1. AnyFirst(f, D) /\ AnyFirst(h, D)
      BY PartialSumRemove
    <2> QED
      BY <2>1 DEF AnyFirst
  <1> HIDE DEF F, H
  <1>3. ASSUME NEW t \in SUBSET D, \A r \in SUBSET t : r # t => r \in T
        PROVE  t \in T
    <2>1. CASE t = {}
      BY <1>1, <2>1
    <2>2. ASSUME NEW x \in t
          PROVE  t \in T
      <3>1. t \ {x} \in T
        BY <1>3
      <3>2. F[t] = f[x] + F[t \ {x}] /\ H[t] = h[x] + H[t \ {x}]
        BY <1>2
      <3>3. /\ F[t \ {x}] \in Int /\ H[t \ {x}] \in Int /\ f[x] \in Int /\ h[x] \in Int
        BY <1>1
      <3> QED
        BY <3>1, <3>2, <3>3
    <2> QED
      BY <2>1, <2>2
  <1>4. \A t \in SUBSET D : t \in T
    <2> HIDE DEF T
    <2> QED
      BY <1>3, SubsetInduction
  <1> QED
    BY <1>4 DEF F, H

\* A sum of integers is an integer.
LEMMA SumType ==
    ASSUME NEW D, IsFiniteSet(D), NEW f \in [D -> Int]
    PROVE  SumFunction(f) \in Int
  <1>1. DOMAIN f = D
    OBVIOUS
  <1>2. PartialSums(f) \in [SUBSET D -> Int] /\ D \in SUBSET D
    BY PartialSumsRecursion
  <1> QED
    BY <1>1, <1>2, SumIsPartialSum

\* A function that differs at one point.
LEMMA SumUpdate ==
    ASSUME NEW D, IsFiniteSet(D), NEW f \in [D -> Int], NEW h \in [D -> Int], NEW x \in D,
           \A y \in D \ {x} : h[y] = f[y]
    PROVE  SumFunction(h) = SumFunction(f) - f[x] + h[x]
  <1> DEFINE F == PartialSums(f)
             H == PartialSums(h)
  <1>1. F[D] = f[x] + F[D \ {x}] /\ H[D] = h[x] + H[D \ {x}]
    <2>1. AnyFirst(f, D) /\ AnyFirst(h, D)
      BY PartialSumRemove
    <2> QED
      BY <2>1 DEF AnyFirst
  <1>2. F[D \ {x}] <= H[D \ {x}] /\ H[D \ {x}] <= F[D \ {x}]
    <2>1. \A y \in D \ {x} : f[y] <= h[y] /\ h[y] <= f[y]
      OBVIOUS
    <2> QED
      BY <2>1, PartialSumsCompare
  <1>3. F \in [SUBSET D -> Int] /\ H \in [SUBSET D -> Int]
    BY PartialSumsRecursion
  <1>4. DOMAIN f = D /\ DOMAIN h = D
    OBVIOUS
  <1>5. SumFunction(f) = F[D] /\ SumFunction(h) = H[D]
    BY <1>4, SumIsPartialSum
  <1> HIDE DEF F, H
  <1>6. F[D \ {x}] \in Int /\ H[D \ {x}] \in Int /\ f[x] \in Int /\ h[x] \in Int
    BY <1>3
  <1> QED
    BY <1>1, <1>2, <1>5, <1>6

\* A sum grows with its terms.
LEMMA SumCompare ==
    ASSUME NEW D, IsFiniteSet(D), NEW f \in [D -> Int], NEW h \in [D -> Int],
           \A x \in D : f[x] <= h[x]
    PROVE  SumFunction(f) <= SumFunction(h)
  <1>1. DOMAIN f = D /\ DOMAIN h = D
    OBVIOUS
  <1> QED
    BY <1>1, SumIsPartialSum, PartialSumsCompare

\* Nothing sums to nothing.
LEMMA SumOfZeros ==
    ASSUME NEW D, IsFiniteSet(D)
    PROVE  SumFunction([x \in D |-> 0]) = 0
  <1> DEFINE z == [x \in D |-> 0]
             Z == PartialSums(z)
             T == {t \in SUBSET D : Z[t] = 0}
  <1>1. z \in [D -> Int] /\ DOMAIN z = D /\ \A x \in D : z[x] = 0
    OBVIOUS
  <1> HIDE DEF z
  <1>2. Z[{}] = 0
    BY <1>1, PartialSumsRecursion
  <1>3. \A t \in SUBSET D : \A x \in t : Z[t] = z[x] + Z[t \ {x}]
    <2>1. AnyFirst(z, D)
      BY <1>1, PartialSumRemove
    <2> QED
      BY <2>1 DEF AnyFirst
  <1> HIDE DEF Z
  <1>4. ASSUME NEW t \in SUBSET D, \A r \in SUBSET t : r # t => r \in T
        PROVE  t \in T
    <2>1. CASE t = {}
      BY <1>2, <2>1
    <2>2. ASSUME NEW x \in t
          PROVE  t \in T
      <3>1. t \ {x} \in T
        BY <1>4
      <3> QED
        BY <1>1, <1>3, <3>1
    <2> QED
      BY <2>1, <2>2
  <1>5. \A t \in SUBSET D : t \in T
    <2> HIDE DEF T
    <2> QED
      BY <1>4, SubsetInduction
  <1>6. SumFunction(z) = 0
    BY <1>1, <1>5, SumIsPartialSum DEF Z
  <1> QED
    BY <1>6 DEF z

\* A sum of naturals is a natural, no term exceeds it, and it is zero only when
\* every term is.
LEMMA SumOfNats ==
    ASSUME NEW D, IsFiniteSet(D), NEW f \in [D -> Nat]
    PROVE  /\ SumFunction(f) \in Nat
           /\ \A x \in D : f[x] <= SumFunction(f)
           /\ SumFunction(f) = 0 <=> \A x \in D : f[x] = 0
  <1>1. f \in [D -> Int] /\ [x \in D |-> 0] \in [D -> Int]
    OBVIOUS
  <1>2. SumFunction([x \in D |-> 0]) = 0
    BY SumOfZeros
  <1>3. SumFunction(f) \in Nat
    <2> DEFINE z == [x \in D |-> 0]
    <2>1. \A x \in D : z[x] <= f[x]
      OBVIOUS
    <2>2. SumFunction(z) = 0 /\ z \in [D -> Int]
      BY <1>1, <1>2
    <2> HIDE DEF z
    <2>3. SumFunction(z) <= SumFunction(f)
      BY <1>1, <2>1, <2>2, SumCompare
    <2> QED
      BY <1>1, <2>2, <2>3, SumType
  <1>4. ASSUME NEW x \in D
        PROVE  f[x] <= SumFunction(f)
    <2> DEFINE h == [f EXCEPT ![x] = 0]
    <2>1. h \in [D -> Nat] /\ h \in [D -> Int] /\ h[x] = 0 /\ \A y \in D \ {x} : h[y] = f[y]
      OBVIOUS
    <2> HIDE DEF h
    <2>2. SumFunction(h) = SumFunction(f) - f[x] + h[x]
      BY <1>1, <2>1, SumUpdate
    <2>3. SumFunction(h) >= 0
      <3> DEFINE z == [y \in D |-> 0]
      <3>1. z \in [D -> Int] /\ (\A y \in D : z[y] <= h[y]) /\ SumFunction(z) = 0
        BY <1>1, <1>2, <2>1
      <3> HIDE DEF z
      <3>2. SumFunction(z) <= SumFunction(h)
        BY <2>1, <3>1, SumCompare
      <3> QED
        BY <2>1, <3>1, <3>2, SumType
    <2>4. f[x] \in Nat /\ SumFunction(f) \in Nat /\ SumFunction(h) \in Int
      BY <1>3, <2>1, SumType
    <2> QED
      BY <2>1, <2>2, <2>3, <2>4
  <1>5. ASSUME \A x \in D : f[x] = 0
        PROVE  SumFunction(f) = 0
    <2>1. f = [x \in D |-> 0]
      BY <1>5
    <2> QED
      BY <1>2, <2>1
  <1>6. SumFunction(f) = 0 => \A x \in D : f[x] = 0
    BY <1>3, <1>4
  <1> QED
    BY <1>3, <1>4, <1>5, <1>6

\* A sum of parts: when each term of h is worth at most c / b of f's, so are the
\* sums.
LEMMA SumInProportion ==
    ASSUME NEW D, IsFiniteSet(D), NEW f \in [D -> Int], NEW h \in [D -> Int],
           NEW b \in Nat, NEW c \in Nat, \A x \in D : h[x] * b <= f[x] * c
    PROVE  SumFunction(h) * b <= SumFunction(f) * c
  <1> DEFINE F == PartialSums(f)
             H == PartialSums(h)
             T == {t \in SUBSET D : H[t] * b <= F[t] * c}
  <1>1. /\ F \in [SUBSET D -> Int] /\ H \in [SUBSET D -> Int] /\ F[{}] = 0 /\ H[{}] = 0
    BY PartialSumsRecursion
  <1>2. /\ \A t \in SUBSET D : \A x \in t : F[t] = f[x] + F[t \ {x}]
        /\ \A t \in SUBSET D : \A x \in t : H[t] = h[x] + H[t \ {x}]
    <2>1. AnyFirst(f, D) /\ AnyFirst(h, D)
      BY PartialSumRemove
    <2> QED
      BY <2>1 DEF AnyFirst
  <1>3. SumFunction(h) = H[D] /\ SumFunction(f) = F[D]
    <2>1. DOMAIN f = D /\ DOMAIN h = D
      OBVIOUS
    <2> QED
      BY <2>1, SumIsPartialSum
  <1> HIDE DEF F, H
  <1>4. ASSUME NEW t \in SUBSET D, \A r \in SUBSET t : r # t => r \in T
        PROVE  t \in T
    <2>1. CASE t = {}
      BY <1>1, <2>1
    <2>2. ASSUME NEW x \in t
          PROVE  t \in T
      <3> DEFINE m == H[t \ {x}]
                 n == F[t \ {x}]
                 p == h[x]
                 q == f[x]
      <3>1. t \ {x} \in T
        BY <1>4
      <3>2. m * b <= n * c /\ p * b <= q * c
        BY <3>1
      <3>3. F[t] = q + n /\ H[t] = p + m
        BY <1>2
      <3>4. m \in Int /\ n \in Int /\ p \in Int /\ q \in Int
        BY <1>1
      <3> HIDE DEF m, n, p, q
      <3>5. (p + m) * b = p * b + m * b /\ (q + n) * c = q * c + n * c
        BY <3>4
      <3>6. p * b \in Int /\ m * b \in Int /\ q * c \in Int /\ n * c \in Int
        BY <3>4
      <3>7. (p + m) * b <= (q + n) * c
        BY <3>2, <3>5, <3>6
      <3> QED
        BY <3>3, <3>7
    <2> QED
      BY <2>1, <2>2
  <1>5. \A t \in SUBSET D : t \in T
    <2> HIDE DEF T
    <2> QED
      BY <1>4, SubsetInduction
  <1> QED
    BY <1>3, <1>5
=============================================================================
