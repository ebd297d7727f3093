-------------------------------- MODULE Sums --------------------------------
(***************************************************************************)
(* What the proofs need to know of SumFunctionOnSet, the sum of f[x] over  *)
(* a finite set.  The library defines it by a function chosen to satisfy a *)
(* recursive equation; the first lemmas show that there is exactly one     *)
(* such function, and the others are what follows for sums.  An induction  *)
(* over finite sets is made here as a smallest counterexample: SmallestSet.      *)
(***************************************************************************)
EXTENDS Integers, Functions, FiniteSets, FiniteSetTheorems, TLAPS

(* The element a sum takes first, and the equation it is defined by.       *)
Pick(s) == CHOOSE x \in s : TRUE

Partial(f, h, s) == IF s = {} THEN 0 ELSE f[Pick(s)] + h[s \ {Pick(s)}]

Solves(f, h, S) == h = [s \in SUBSET S |-> Partial(f, h, s)]

Solution(f, S) == CHOOSE h : Solves(f, h, S)

(* A nonempty collection of subsets of a finite set has a smallest one.    *)
LEMMA SmallestSet ==
  ASSUME NEW S, IsFiniteSet(S), NEW B, B \subseteq SUBSET S, B # {}
  PROVE  \E T \in B : \A U \in B : U \subseteq T => U = T
<1>1. FiniteSubsetsOf(S) = SUBSET S
  BY FS_FiniteSubsetsOfFinite
<1>2. IsWellFoundedOn(StrictSubsetOrdering(S), SUBSET S)
  BY <1>1, FS_StrictSubsetOrderingWellFounded
<1>3. PICK T \in B : \A U \in B : ~ (<<U, T>> \in StrictSubsetOrdering(S))
  BY <1>2, WFMin
<1> QED BY <1>3 DEF StrictSubsetOrdering

(* The library's sum is the chosen solution at the whole set.              *)
LEMMA SumUnfold ==
  ASSUME NEW f, NEW S
  PROVE  SumFunctionOnSet(f, S) = Solution(f, S)[S]
BY DEF SumFunctionOnSet, FoldFunctionOnSet, MapThenFoldSet, Solution, Solves, Partial, Pick

LEMMA PickIn ==
  ASSUME NEW s, s # {} PROVE Pick(s) \in s
BY DEF Pick

LEMMA SolvesAt ==
  ASSUME NEW f, NEW h, NEW S, Solves(f, h, S), NEW s \in SUBSET S
  PROVE  /\ s = {} => h[s] = 0
         /\ s # {} => h[s] = f[Pick(s)] + h[s \ {Pick(s)}]
BY DEF Solves, Partial

(* Two solutions agree wherever both are defined.                          *)
LEMMA SolutionsAgree ==
  ASSUME NEW f, NEW T, IsFiniteSet(T), NEW U,
         NEW g, Solves(f, g, T), NEW h, Solves(f, h, U),
         NEW s, s \subseteq T, s \subseteq U
  PROVE  g[s] = h[s]
<1> DEFINE B == {t \in SUBSET T : t \subseteq U /\ g[t] # h[t]}
<1>1. SUFFICES ASSUME B # {} PROVE FALSE
  OBVIOUS
<1>0. B \subseteq SUBSET T
  OBVIOUS
<1>2. PICK t \in B : \A u \in B : u \subseteq t => u = t
  <2> HIDE DEF B
  <2> QED BY <1>0, <1>1, SmallestSet
<1>3. t # {}
  BY SolvesAt
<1>4. Pick(t) \in t
  BY <1>3, PickIn
<1>5. t \ {Pick(t)} \notin B
  BY <1>2, <1>4
<1>6. g[t \ {Pick(t)}] = h[t \ {Pick(t)}]
  BY <1>5
<1> QED BY <1>3, <1>6, SolvesAt

(* There is a solution on every finite set.                                *)
LEMMA SolutionExists ==
  ASSUME NEW f, NEW S, IsFiniteSet(S)
  PROVE  Solves(f, Solution(f, S), S)
<1> DEFINE B == {t \in SUBSET S : ~ \E h : Solves(f, h, t)}
<1>1. SUFFICES ASSUME B # {} PROVE FALSE
  BY DEF Solution
<1>0. B \subseteq SUBSET S
  OBVIOUS
<1>2. PICK T \in B : \A u \in B : u \subseteq T => u = T
  <2> HIDE DEF B
  <2> QED BY <1>0, <1>1, SmallestSet
<1>3. \A u : u \subseteq T /\ u # T => Solves(f, Solution(f, u), u)
  BY <1>2 DEF Solution
<1>4. \A u : u \subseteq T => IsFiniteSet(u)
  BY FS_Subset
<1> DEFINE below(u) == Solution(f, u)[u]
           g == [s \in SUBSET T |->
                    IF s = {} THEN 0 ELSE f[Pick(s)] + below(s \ {Pick(s)})]
<1>5. \A s \in SUBSET T : s # T => g[s] = below(s)
  <2> SUFFICES ASSUME NEW s \in SUBSET T, s # T PROVE g[s] = below(s)
    OBVIOUS
  <2>0. CASE s = {}
    <3>1. Solves(f, Solution(f, {}), {})
      BY <1>3, <2>0
    <3>2. below({}) = 0
      BY <3>1, SolvesAt
    <3> QED BY <2>0, <3>2
  <2> SUFFICES ASSUME s # {} PROVE g[s] = below(s)
    BY <2>0
  <2>1. Pick(s) \in s
    BY PickIn
  <2> DEFINE r == s \ {Pick(s)}
  <2>2. r \subseteq s /\ r \subseteq T /\ r # T
    BY <2>1
  <2>3. Solves(f, Solution(f, s), s) /\ Solves(f, Solution(f, r), r)
    BY <1>3, <2>2
  <2>4. Solution(f, s)[r] = Solution(f, r)[r]
    BY <1>4, <2>2, <2>3, SolutionsAgree
  <2>5. Solution(f, s)[s] = f[Pick(s)] + Solution(f, s)[r]
    BY <2>3, SolvesAt
  <2> QED BY <2>4, <2>5
<1>6. \A s \in SUBSET T : s # {} => g[s \ {Pick(s)}] = below(s \ {Pick(s)})
  <2> SUFFICES ASSUME NEW s \in SUBSET T, s # {} PROVE g[s \ {Pick(s)}] = below(s \ {Pick(s)})
    OBVIOUS
  <2>1. Pick(s) \in s
    BY PickIn
  <2>2. s \ {Pick(s)} \in SUBSET T /\ s \ {Pick(s)} # T
    BY <2>1
  <2> HIDE DEF g
  <2> QED BY <1>5, <2>2
<1>7. Solves(f, g, T)
  <2>1. \A s \in SUBSET T : g[s] = Partial(f, g, s)
    <3> SUFFICES ASSUME NEW s \in SUBSET T PROVE g[s] = Partial(f, g, s)
      OBVIOUS
    <3>1. s = {} => g[s] = 0
      OBVIOUS
    <3>2. s # {} => g[s] = f[Pick(s)] + below(s \ {Pick(s)})
      OBVIOUS
    <3> HIDE DEF g
    <3> QED BY <3>1, <3>2, <1>6 DEF Partial
  <2>2. g = [s \in SUBSET T |-> g[s]]
    OBVIOUS
  <2> HIDE DEF g
  <2> QED BY <2>1, <2>2 DEF Solves
<1> QED BY <1>7, <1>2
-----------------------------------------------------------------------------
LEMMA SumEmpty ==
  ASSUME NEW f PROVE SumFunctionOnSet(f, {}) = 0
BY FS_EmptySet, SolutionExists, SolvesAt, SumUnfold

LEMMA SumStep ==
  ASSUME NEW f, NEW S, IsFiniteSet(S), S # {}
  PROVE  SumFunctionOnSet(f, S) = f[Pick(S)] + SumFunctionOnSet(f, S \ {Pick(S)})
<1> DEFINE R == S \ {Pick(S)}
<1>1. IsFiniteSet(R)
  BY FS_Subset
<1>2. Solves(f, Solution(f, S), S) /\ Solves(f, Solution(f, R), R)
  BY <1>1, SolutionExists
<1>3. Solution(f, S)[S] = f[Pick(S)] + Solution(f, S)[R]
  BY <1>2, SolvesAt
<1>4. Solution(f, S)[R] = Solution(f, R)[R]
  <2>1. R \subseteq S
    OBVIOUS
  <2> HIDE DEF R
  <2> QED BY <1>2, <2>1, SolutionsAgree
<1> QED BY <1>3, <1>4, SumUnfold

(* A sum of integers is an integer, one of naturals a natural.             *)
LEMMA SumInt ==
  ASSUME NEW f, NEW S, IsFiniteSet(S), \A x \in S : f[x] \in Int
  PROVE  SumFunctionOnSet(f, S) \in Int
<1> DEFINE B == {T \in SUBSET S : SumFunctionOnSet(f, T) \notin Int}
<1>0. B \subseteq SUBSET S
  OBVIOUS
<1>1. SUFFICES ASSUME B # {} PROVE FALSE
  OBVIOUS
<1>2. PICK T \in B : \A U \in B : U \subseteq T => U = T
  <2> HIDE DEF B
  <2> QED BY <1>0, <1>1, SmallestSet
<1>3. T # {}
  BY SumEmpty
<1>4. Pick(T) \in T /\ IsFiniteSet(T)
  BY <1>3, PickIn, FS_Subset
<1>5. SumFunctionOnSet(f, T \ {Pick(T)}) \in Int
  BY <1>2, <1>4
<1>6. f[Pick(T)] \in Int
  BY <1>4
<1> QED BY <1>3, <1>4, <1>5, <1>6, SumStep

LEMMA SumNat ==
  ASSUME NEW f, NEW S, IsFiniteSet(S), \A x \in S : f[x] \in Nat
  PROVE  SumFunctionOnSet(f, S) \in Nat
<1> DEFINE B == {T \in SUBSET S : SumFunctionOnSet(f, T) \notin Nat}
<1>0. B \subseteq SUBSET S
  OBVIOUS
<1>1. SUFFICES ASSUME B # {} PROVE FALSE
  OBVIOUS
<1>2. PICK T \in B : \A U \in B : U \subseteq T => U = T
  <2> HIDE DEF B
  <2> QED BY <1>0, <1>1, SmallestSet
<1>3. T # {}
  BY SumEmpty
<1>4. Pick(T) \in T /\ IsFiniteSet(T)
  BY <1>3, PickIn, FS_Subset
<1>5. SumFunctionOnSet(f, T \ {Pick(T)}) \in Nat
  BY <1>2, <1>4
<1>6. f[Pick(T)] \in Nat
  BY <1>4
<1> QED BY <1>3, <1>4, <1>5, <1>6, SumStep

(* Any element may be taken out first.                                     *)
LEMMA SumRemove ==
  ASSUME NEW f, NEW S, IsFiniteSet(S), \A x \in S : f[x] \in Int, NEW e \in S
  PROVE  SumFunctionOnSet(f, S) = f[e] + SumFunctionOnSet(f, S \ {e})
<1> DEFINE Split(T) == \A x \in T : SumFunctionOnSet(f, T) = f[x] + SumFunctionOnSet(f, T \ {x})
           B == {T \in SUBSET S : ~ Split(T)}
<1>0. B \subseteq SUBSET S
  OBVIOUS
<1>1. SUFFICES ASSUME B # {} PROVE FALSE
  OBVIOUS
<1>2. PICK T \in B : \A U \in B : U \subseteq T => U = T
  <2> HIDE DEF B
  <2> QED BY <1>0, <1>1, SmallestSet
<1>3. PICK x \in T : SumFunctionOnSet(f, T) # f[x] + SumFunctionOnSet(f, T \ {x})
  BY <1>2
<1> DEFINE p == Pick(T)
<1>4. p \in T /\ T \subseteq S /\ IsFiniteSet(T)
  BY <1>2, <1>3, PickIn, FS_Subset
<1>5. SumFunctionOnSet(f, T) = f[p] + SumFunctionOnSet(f, T \ {p})
  BY <1>3, <1>4, SumStep
<1>6. p # x
  BY <1>3, <1>5
<1>7. \A y \in T : Split(T \ {y})
  BY <1>2
<1> HIDE DEF p, B
<1>8. SumFunctionOnSet(f, T \ {p}) = f[x] + SumFunctionOnSet(f, (T \ {p}) \ {x})
  BY <1>4, <1>6, <1>7
<1>9. SumFunctionOnSet(f, T \ {x}) = f[p] + SumFunctionOnSet(f, (T \ {x}) \ {p})
  BY <1>3, <1>4, <1>6, <1>7
<1> DEFINE R == T \ {p, x}
<1>10. (T \ {p}) \ {x} = R /\ (T \ {x}) \ {p} = R
  OBVIOUS
<1>11. SumFunctionOnSet(f, R) \in Int /\ f[p] \in Int /\ f[x] \in Int
  <2>1. R \subseteq S /\ IsFiniteSet(R)
    BY <1>4, FS_Subset
  <2> HIDE DEF R
  <2> QED BY <2>1, <1>4, SumInt
<1> HIDE DEF R
<1>12. SumFunctionOnSet(f, T \ {p}) = f[x] + SumFunctionOnSet(f, R)
  BY <1>8, <1>10
<1>13. SumFunctionOnSet(f, T \ {x}) = f[p] + SumFunctionOnSet(f, R)
  BY <1>9, <1>10
<1>14. f[p] + (f[x] + SumFunctionOnSet(f, R)) = f[x] + (f[p] + SumFunctionOnSet(f, R))
  BY <1>11
<1> QED BY <1>3, <1>5, <1>12, <1>13, <1>14

LEMMA SumAdd ==
  ASSUME NEW f, NEW S, IsFiniteSet(S), NEW e, e \notin S, f[e] \in Int,
         \A x \in S : f[x] \in Int
  PROVE  SumFunctionOnSet(f, S \union {e}) = SumFunctionOnSet(f, S) + f[e]
<1> DEFINE T == S \union {e}
<1>1. IsFiniteSet(T) /\ e \in T /\ T \ {e} = S /\ \A x \in T : f[x] \in Int
  BY FS_AddElement
<1>2. SumFunctionOnSet(f, S) \in Int
  BY SumInt
<1> HIDE DEF T
<1>3. SumFunctionOnSet(f, T) = f[e] + SumFunctionOnSet(f, T \ {e})
  BY <1>1, SumRemove
<1>4. SumFunctionOnSet(f, T) = f[e] + SumFunctionOnSet(f, S)
  BY <1>1, <1>3
<1>5. f[e] + SumFunctionOnSet(f, S) = SumFunctionOnSet(f, S) + f[e]
  BY <1>2
<1> QED BY <1>4, <1>5 DEF T

(* Only the values on the set count.                                       *)
LEMMA SumSame ==
  ASSUME NEW f, NEW g, NEW S, IsFiniteSet(S), \A x \in S : f[x] = g[x]
  PROVE  SumFunctionOnSet(f, S) = SumFunctionOnSet(g, S)
<1> DEFINE B == {T \in SUBSET S : SumFunctionOnSet(f, T) # SumFunctionOnSet(g, T)}
<1>0. B \subseteq SUBSET S
  OBVIOUS
<1>1. SUFFICES ASSUME B # {} PROVE FALSE
  OBVIOUS
<1>2. PICK T \in B : \A U \in B : U \subseteq T => U = T
  <2> HIDE DEF B
  <2> QED BY <1>0, <1>1, SmallestSet
<1>3. T # {}
  BY SumEmpty
<1>4. Pick(T) \in T /\ IsFiniteSet(T)
  BY <1>3, PickIn, FS_Subset
<1>5. SumFunctionOnSet(f, T \ {Pick(T)}) = SumFunctionOnSet(g, T \ {Pick(T)})
  BY <1>2, <1>4
<1>6. f[Pick(T)] = g[Pick(T)]
  BY <1>4
<1> QED BY <1>2, <1>3, <1>4, <1>5, <1>6, SumStep

(* Changing the value at one element changes the sum by as much.           *)
LEMMA SumChange ==
  ASSUME NEW f, NEW g, NEW S, IsFiniteSet(S), NEW e \in S,
         \A x \in S : f[x] \in Int /\ g[x] \in Int,
         \A x \in S \ {e} : f[x] = g[x]
  PROVE  SumFunctionOnSet(g, S) = SumFunctionOnSet(f, S) + g[e] - f[e]
<1> DEFINE R == S \ {e}
<1>1. IsFiniteSet(R)
  BY FS_Subset
<1>2. SumFunctionOnSet(f, R) = SumFunctionOnSet(g, R)
  BY <1>1, SumSame
<1>3. SumFunctionOnSet(f, R) \in Int
  BY <1>1, SumInt
<1>4. SumFunctionOnSet(f, S) = f[e] + SumFunctionOnSet(f, R)
  BY SumRemove
<1>5. SumFunctionOnSet(g, S) = g[e] + SumFunctionOnSet(g, R)
  BY SumRemove
<1>6. f[e] \in Int /\ g[e] \in Int
  OBVIOUS
<1> HIDE DEF R
<1> QED BY <1>2, <1>3, <1>4, <1>5, <1>6

(* Pointwise smaller values on a smaller set: a smaller sum.               *)
LEMMA SumLess ==
  ASSUME NEW f, NEW g, NEW S, IsFiniteSet(S), NEW R, R \subseteq S,
         \A x \in S : g[x] \in Nat,
         \A x \in R : f[x] \in Nat /\ f[x] <= g[x]
  PROVE  SumFunctionOnSet(f, R) <= SumFunctionOnSet(g, S)
<1> DEFINE B == {T \in SUBSET S : ~ SumFunctionOnSet(f, T \cap R) <= SumFunctionOnSet(g, T)}
<1>0. B \subseteq SUBSET S
  OBVIOUS
<1>1. SUFFICES ASSUME B # {} PROVE FALSE
  <2>1. S \notin B
    OBVIOUS
  <2>2. S \cap R = R
    OBVIOUS
  <2> QED BY <2>1, <2>2
<1>2. PICK T \in B : \A U \in B : U \subseteq T => U = T
  <2> HIDE DEF B
  <2> QED BY <1>0, <1>1, SmallestSet
<1>3. T # {}
  BY SumEmpty
<1> DEFINE p == Pick(T)
           U == T \ {p}
<1>4. p \in T /\ IsFiniteSet(T) /\ IsFiniteSet(U) /\ IsFiniteSet(U \cap R) /\ IsFiniteSet(T \cap R)
  BY <1>3, PickIn, FS_Subset
<1>5. SumFunctionOnSet(f, U \cap R) <= SumFunctionOnSet(g, U)
  BY <1>2, <1>4
<1>6. SumFunctionOnSet(g, T) = g[p] + SumFunctionOnSet(g, U)
  BY <1>3, <1>4, SumStep
<1>7. SumFunctionOnSet(g, U) \in Nat /\ SumFunctionOnSet(f, U \cap R) \in Nat
  BY <1>4, SumNat
<1>8. g[p] \in Nat
  BY <1>4
<1>9. ~ SumFunctionOnSet(f, T \cap R) <= SumFunctionOnSet(g, T)
  BY <1>2
<1>10. CASE p \in R
  <2>1. p \in T \cap R /\ (T \cap R) \ {p} = U \cap R
    BY <1>4, <1>10
  <2>2. \A x \in T \cap R : f[x] \in Int
    OBVIOUS
  <2>3. SumFunctionOnSet(f, T \cap R) = f[p] + SumFunctionOnSet(f, (T \cap R) \ {p})
    <3> HIDE DEF p
    <3> QED BY <2>1, <2>2, <1>4, SumRemove
  <2>4. f[p] \in Nat /\ f[p] <= g[p]
    BY <1>10
  <2>5. SumFunctionOnSet(f, T \cap R) = f[p] + SumFunctionOnSet(f, U \cap R)
    BY <2>1, <2>3
  <2>6. f[p] + SumFunctionOnSet(f, U \cap R) <= g[p] + SumFunctionOnSet(g, U)
    <3> HIDE DEF p, U
    <3> QED BY <2>4, <1>5, <1>7, <1>8
  <2> QED BY <2>5, <2>6, <1>6, <1>9
<1>11. CASE p \notin R
  <2>1. T \cap R = U \cap R
    BY <1>11
  <2>2. SumFunctionOnSet(f, U \cap R) <= g[p] + SumFunctionOnSet(g, U)
    <3> HIDE DEF p, U
    <3> QED BY <1>5, <1>7, <1>8
  <2> QED BY <2>1, <2>2, <1>6, <1>9
<1> QED BY <1>10, <1>11

(* A sum of zeros.                                                         *)
LEMMA SumZero ==
  ASSUME NEW f, NEW S, IsFiniteSet(S), \A x \in S : f[x] = 0
  PROVE  SumFunctionOnSet(f, S) = 0
<1> DEFINE B == {T \in SUBSET S : SumFunctionOnSet(f, T) # 0}
<1>0. B \subseteq SUBSET S
  OBVIOUS
<1>1. SUFFICES ASSUME B # {} PROVE FALSE
  OBVIOUS
<1>2. PICK T \in B : \A U \in B : U \subseteq T => U = T
  <2> HIDE DEF B
  <2> QED BY <1>0, <1>1, SmallestSet
<1>3. T # {}
  BY SumEmpty
<1>4. Pick(T) \in T /\ IsFiniteSet(T)
  BY <1>3, PickIn, FS_Subset
<1>5. SumFunctionOnSet(f, T \ {Pick(T)}) = 0
  BY <1>2, <1>4
<1>6. f[Pick(T)] = 0
  BY <1>4
<1> QED BY <1>2, <1>3, <1>4, <1>5, <1>6, SumStep
-----------------------------------------------------------------------------
(* Sums over an interval of naturals.                                      *)
LEMMA SmallestNat ==
  ASSUME NEW B, B \subseteq Nat, B # {}
  PROVE  \E m \in B : \A k \in B : m <= k
<1>1. PICK n \in B : TRUE
  OBVIOUS
<1> DEFINE C == {u \in SUBSET (0 .. n) : \E j \in B : j <= n /\ u = 0 .. j}
<1>2. IsFiniteSet(0 .. n)
  BY <1>1, FS_Interval
<1>3. C \subseteq SUBSET (0 .. n) /\ C # {}
  <2>1. 0 .. n \in C
    BY <1>1
  <2> QED BY <2>1
<1>4. PICK u \in C : \A v \in C : v \subseteq u => v = u
  <2> DEFINE all == 0 .. n
  <2>1. IsFiniteSet(all) /\ C \subseteq SUBSET all /\ C # {}
    BY <1>2, <1>3
  <2> HIDE DEF C, all
  <2> QED BY <2>1, SmallestSet
<1>5. PICK m \in B : m <= n /\ u = 0 .. m
  BY <1>4
<1>6. ASSUME NEW k \in B, k < m PROVE FALSE
  <2>1. 0 .. k \in C /\ 0 .. k \subseteq u
    BY <1>1, <1>5, <1>6
  <2>2. 0 .. k = 0 .. m
    BY <1>4, <1>5, <2>1
  <2>3. m \in 0 .. k
    BY <1>5, <2>2
  <2> QED BY <1>5, <1>6, <2>3
<1> QED BY <1>5, <1>6

LEMMA SumLast ==
  ASSUME NEW f, NEW n \in Nat, \A x \in 0 .. n : f[x] \in Int
  PROVE  SumFunctionOnSet(f, 0 .. n) = SumFunctionOnSet(f, 0 .. n - 1) + f[n]
<1>1. 0 .. n = (0 .. n - 1) \union {n} /\ n \notin 0 .. n - 1
  OBVIOUS
<1>2. IsFiniteSet(0 .. n - 1)
  BY FS_Interval
<1>3. f[n] \in Int /\ \A x \in 0 .. n - 1 : f[x] \in Int
  BY <1>1
<1> QED BY <1>1, <1>2, <1>3, SumAdd

(* Everything moves up by one, and nothing comes in at 0.                  *)
LEMMA SumShift ==
  ASSUME NEW n \in Nat, NEW f, NEW g, \A x \in 0 .. n : f[x] \in Int,
         g[0] = 0, \A x \in 1 .. n : g[x] = f[x - 1]
  PROVE  SumFunctionOnSet(g, 0 .. n) = SumFunctionOnSet(f, 0 .. n - 1)
<1> DEFINE bad(j) == SumFunctionOnSet(g, 0 .. j) # SumFunctionOnSet(f, 0 .. j - 1)
           B == {j \in 0 .. n : bad(j)}
<1>0. B \subseteq Nat
  OBVIOUS
<1>1. SUFFICES ASSUME B # {} PROVE FALSE
  OBVIOUS
<1>2. PICK m \in B : \A k \in B : m <= k
  <2> HIDE DEF B
  <2> QED BY <1>0, <1>1, SmallestNat
<1>3. \A x \in 0 .. m : f[x] \in Int /\ g[x] \in Int
  <2>1. \A x \in 0 .. m : x = 0 \/ (x \in 1 .. n /\ x - 1 \in 0 .. n)
    BY <1>2
  <2> QED BY <1>2, <2>1
<1>4. SumFunctionOnSet(g, 0 .. m) = SumFunctionOnSet(g, 0 .. m - 1) + g[m]
  BY <1>2, <1>3, SumLast
<1>5. CASE m = 0
  <2>1. 0 .. m - 1 = {}
    BY <1>5
  <2>2. SumFunctionOnSet(g, 0 .. m - 1) = 0 /\ SumFunctionOnSet(f, 0 .. m - 1) = 0
    BY <2>1, SumEmpty
  <2>3. bad(m)
    BY <1>2
  <2> QED BY <1>4, <1>5, <2>2, <2>3
<1>6. CASE m # 0
  <2>1. m - 1 \in Nat /\ m - 1 \in 0 .. n /\ g[m] = f[m - 1] /\ ~ (m <= m - 1)
    BY <1>2, <1>6
  <2>2. m - 1 \notin B
    <3> HIDE DEF B
    <3> QED BY <1>2, <2>1
  <2>3. SumFunctionOnSet(g, 0 .. m - 1) = SumFunctionOnSet(f, 0 .. (m - 1) - 1)
    BY <2>1, <2>2
  <2>4. SumFunctionOnSet(f, 0 .. m - 1) = SumFunctionOnSet(f, 0 .. (m - 1) - 1) + f[m - 1]
    <3>1. \A x \in 0 .. m - 1 : f[x] \in Int
      BY <1>2
    <3> QED BY <2>1, <3>1, SumLast
  <2>5. bad(m)
    BY <1>2
  <2> QED BY <1>4, <2>1, <2>3, <2>4, <2>5
<1> QED BY <1>5, <1>6

(***************************************************************************)
(* The sum of the first values of a function on the naturals.              *)
(***************************************************************************)
UpTo(f, n) == SumFunctionOnSet(f, 0 .. n)

LEMMA UpToNat ==
  ASSUME NEW n \in Int, NEW f, \A x \in 0 .. n : f[x] \in Nat
  PROVE  UpTo(f, n) \in Nat
<1> DEFINE all == 0 .. n
<1>1. IsFiniteSet(all) /\ \A x \in all : f[x] \in Nat
  BY FS_Interval
<1>2. SumFunctionOnSet(f, all) \in Nat
  <2> HIDE DEF all
  <2> QED BY <1>1, SumNat
<1> QED BY <1>2 DEF UpTo

LEMMA UpToNone == ASSUME NEW f PROVE UpTo(f, -1) = 0
<1>1. 0 .. -1 = {}
  OBVIOUS
<1> QED BY <1>1, SumEmpty DEF UpTo

LEMMA UpToSame ==
  ASSUME NEW n \in Int, NEW f, NEW g, \A x \in 0 .. n : f[x] = g[x]
  PROVE  UpTo(f, n) = UpTo(g, n)
<1> DEFINE all == 0 .. n
<1>1. IsFiniteSet(all) /\ \A x \in all : f[x] = g[x]
  BY FS_Interval
<1>2. SumFunctionOnSet(f, all) = SumFunctionOnSet(g, all)
  <2> HIDE DEF all
  <2> QED BY <1>1, SumSame
<1> QED BY <1>2 DEF UpTo

LEMMA UpToMore ==
  ASSUME NEW n \in Nat, NEW f, NEW g, \A x \in 0 .. n : f[x] \in Nat /\ g[x] \in Nat,
         g[0] = f[0] + 1, \A x \in 1 .. n : g[x] = f[x]
  PROVE  UpTo(g, n) = UpTo(f, n) + 1
<1>1. IsFiniteSet(0 .. n) /\ 0 \in 0 .. n
  BY FS_Interval
<1>2. SumFunctionOnSet(g, 0 .. n) = SumFunctionOnSet(f, 0 .. n) + g[0] - f[0]
  BY <1>1, SumChange
<1>3. SumFunctionOnSet(f, 0 .. n) \in Int /\ f[0] \in Int
  BY <1>1, SumInt
<1> QED BY <1>2, <1>3 DEF UpTo

LEMMA UpToShift ==
  ASSUME NEW n \in Nat, NEW f, NEW g, \A x \in 0 .. n : f[x] \in Nat,
         g[0] = 0, \A x \in 1 .. n : g[x] = f[x - 1]
  PROVE  UpTo(g, n) = UpTo(f, n - 1)
BY SumShift DEF UpTo

LEMMA UpToLast ==
  ASSUME NEW n \in Nat, NEW f, \A x \in 0 .. n : f[x] \in Nat
  PROVE  UpTo(f, n) = UpTo(f, n - 1) + f[n]
BY SumLast DEF UpTo

LEMMA UpToLess ==
  ASSUME NEW n \in Int, NEW m \in Int, m <= n, NEW f, \A x \in 0 .. n : f[x] \in Nat
  PROVE  UpTo(f, m) <= UpTo(f, n)
<1>1. IsFiniteSet(0 .. n) /\ 0 .. m \subseteq 0 .. n
  BY FS_Interval
<1>2. \A x \in 0 .. m : f[x] \in Nat /\ f[x] <= f[x]
  BY <1>1
<1> QED BY <1>1, <1>2, SumLess DEF UpTo
=============================================================================
