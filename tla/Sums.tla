-------------------------------- MODULE Sums --------------------------------
(***************************************************************************)
(* Lemmas about sums over finite sets, for the proofs about money and bags.  *)
(* The induction theorems of the library take an operator, which the provers *)
(* cannot instantiate; Induction and FiniteInduction say the same of a set,   *)
(* from the fact that < is well founded on the natural numbers, and           *)
(* FoldDefined says that the folds of the community modules are defined.      *)
(***************************************************************************)
EXTENDS Integers, Functions, FiniteSetsExt, FiniteSetTheorems, TLAPS

-----------------------------------------------------------------------------
(* Induction. *)

Smaller == {pair \in Nat \X Nat : pair[1] < pair[2]}

\* Every nonempty set of natural numbers has a least element.
LEMMA LeastNatural ==
    ASSUME NEW T \in SUBSET Nat, T # {}
    PROVE  \E x \in T : \A y \in T : x <= y
<1>1. IsWellFoundedOn(Smaller, Nat)
  BY NatLessThanWellFounded DEF Smaller, OpToRel
<1>2. PICK x \in T : \A y \in T : <<y, x>> \notin Smaller
  BY <1>1, WFMin
<1>3. ASSUME NEW y \in T PROVE x <= y
  <2>1. ~(y < x)
    BY <1>2 DEF Smaller
  <2> QED
    BY <2>1
<1> QED
  BY <1>3

\* A set of numbers that has 0, and the next of each, has all.
LEMMA Induction ==
    ASSUME NEW T, 0 \in T, \A n \in Nat : n \in T => n + 1 \in T
    PROVE  Nat \subseteq T
<1>1. SUFFICES ASSUME Nat \ T # {} PROVE FALSE
  OBVIOUS
<1>2. PICK n \in Nat \ T : \A m \in Nat \ T : n <= m
  BY <1>1, LeastNatural
<1>3. n - 1 \in Nat /\ n - 1 \in T /\ (n - 1) + 1 = n
  BY <1>2
<1> QED
  BY <1>2, <1>3

\* A set that has the empty set, and each subset of S as soon as it has that
\* subset without some element, has every subset of S.
LEMMA FiniteInduction ==
    ASSUME NEW S, IsFiniteSet(S), NEW T, {} \in T,
           \A R \in SUBSET S : R # {} => \E x \in R : R \ {x} \in T => R \in T
    PROVE  \A R \in SUBSET S : R \in T
<1> DEFINE N == {n \in Nat : \A R \in SUBSET S : Cardinality(R) = n => R \in T}
<1>1. \A R \in SUBSET S : IsFiniteSet(R) /\ Cardinality(R) \in Nat
  BY FS_Subset, FS_CardinalityType
<1>2. 0 \in N
  BY <1>1, FS_EmptySet
<1>3. ASSUME NEW n \in Nat, n \in N PROVE n + 1 \in N
  <2>1. SUFFICES ASSUME NEW R \in SUBSET S, Cardinality(R) = n + 1 PROVE R \in T
    OBVIOUS
  <2>2. IsFiniteSet(R) /\ R # {}
    BY <1>1, <2>1, FS_EmptySet
  <2>3. PICK x \in R : R \ {x} \in T => R \in T
    BY <2>2
  <2>4. Cardinality(R \ {x}) = Cardinality(R) - 1
    BY <2>2, FS_RemoveElement
  <2>5. Cardinality(R \ {x}) = n
    BY <2>1, <2>4
  <2> QED
    BY <1>3, <2>3, <2>5
<1> HIDE DEF N
<1>4. Nat \subseteq N
  BY <1>2, <1>3, Induction
<1> QED
  BY <1>1, <1>4 DEF N

-----------------------------------------------------------------------------
(* Folds. *)

\* h folds the elements of the subsets of S into values, starting with base: what
\* pick takes from a subset is combined with the value of the rest.
IsFold(h, S, base, pick, step) ==
    \A s \in SUBSET S :
        h[s] = IF s = {} THEN base ELSE step[<<pick[s], h[s \ {pick[s]}]>>]

LEMMA FoldDefined ==
    ASSUME NEW S, IsFiniteSet(S), NEW V, NEW base \in V, NEW step \in [S \X V -> V],
           NEW pick, \A s \in SUBSET S : s # {} => pick[s] \in s
    PROVE  \E h \in [SUBSET S -> V] : IsFold(h, S, base, pick, step)
<1> DEFINE Small(n) == {s \in SUBSET S : Cardinality(s) <= n}
           Value(h, s) == IF s = {} THEN base ELSE step[<<pick[s], h[s \ {pick[s]}]>>]
           N == {n \in Nat : \E h \in [Small(n) -> V] : \A s \in Small(n) : h[s] = Value(h, s)}
<1>1. \A s \in SUBSET S : IsFiniteSet(s) /\ Cardinality(s) \in Nat
  BY FS_Subset, FS_CardinalityType
<1>2. \A n \in Nat : \A s \in Small(n + 1) : s # {} => s \ {pick[s]} \in Small(n)
  BY <1>1, FS_RemoveElement
<1>3. 0 \in N
  <2> DEFINE h == [s \in Small(0) |-> base]
  <2>1. \A s \in Small(0) : s = {}
    BY <1>1, FS_EmptySet
  <2>2. h \in [Small(0) -> V] /\ \A s \in Small(0) : h[s] = Value(h, s)
    BY <2>1
  <2> QED
    BY <2>2
<1>4. ASSUME NEW n \in Nat, n \in N PROVE n + 1 \in N
  <2>1. PICK h \in [Small(n) -> V] : \A s \in Small(n) : h[s] = Value(h, s)
    BY <1>4
  <2> DEFINE g == [s \in Small(n + 1) |-> Value(h, s)]
  <2>2. \A s \in Small(n + 1) : Value(h, s) \in V
    <3> SUFFICES ASSUME NEW s \in Small(n + 1), s # {} PROVE step[<<pick[s], h[s \ {pick[s]}]>>] \in V
      OBVIOUS
    <3>1. s \ {pick[s]} \in Small(n) /\ pick[s] \in S
      BY <1>2
    <3>2. h[s \ {pick[s]}] \in V
      BY <3>1, <2>1
    <3> QED
      BY <3>1, <3>2
  <2>3. \A s \in Small(n) : s \in Small(n + 1) /\ g[s] = h[s]
    BY <1>1, <2>1
  <2>4. \A s \in Small(n + 1) : g[s] = Value(g, s)
    BY <1>2, <2>3
  <2>5. g \in [Small(n + 1) -> V]
    BY <2>2
  <2> QED
    <3> HIDE DEF g, Small, Value
    <3> QED
      BY <2>4, <2>5
<1> HIDE DEF N
<1>5. Nat \subseteq N
  BY <1>3, <1>4, Induction
<1>6. Cardinality(S) \in N /\ Small(Cardinality(S)) = SUBSET S
  BY <1>1, <1>5, FS_Subset
<1>7. PICK h \in [SUBSET S -> V] : \A s \in SUBSET S : h[s] = Value(h, s)
  BY <1>6 DEF N
<1> QED
  BY <1>7 DEF IsFold

-----------------------------------------------------------------------------
(* Sums: SumFunctionOnSet of the community modules. *)

Pick(s) == CHOOSE x \in s : TRUE

\* h sums the values of f up over the subsets of S.
SumsUp(h, f, S) ==
    \A s \in SUBSET S : h[s] = IF s = {} THEN 0 ELSE f[Pick(s)] + h[s \ {Pick(s)}]

\* What the definition of SumFunctionOnSet says, before the sum over the rest is
\* known to be the SumFunctionOnSet of the rest.
LEMMA SumUnfolded ==
    ASSUME NEW f, NEW S, IsFiniteSet(S), \A x \in S : f[x] \in Int
    PROVE  \E h \in [SUBSET S -> Int] : SumFunctionOnSet(f, S) = h[S] /\ SumsUp(h, f, S)
<1> DEFINE pick == [s \in SUBSET S |-> Pick(s)]
           step == [pair \in S \X Int |-> f[pair[1]] + pair[2]]
           Value(h, s) == IF s = {} THEN 0 ELSE f[Pick(s)] + h[s \ {Pick(s)}]
           table(h) == [s \in SUBSET S |-> Value(h, s)]
<1>1. \A s \in SUBSET S : s # {} => pick[s] \in s
  BY DEF Pick
<1>2. step \in [S \X Int -> Int]
  OBVIOUS
<1>3. PICK h \in [SUBSET S -> Int] : IsFold(h, S, 0, pick, step)
  <2>1. 0 \in Int
    OBVIOUS
  <2> HIDE DEF pick, step
  <2> QED
    BY <1>1, <1>2, <2>1, FoldDefined, Zenon
<1>4. \A s \in SUBSET S : h[s] = Value(h, s)
  <2> SUFFICES ASSUME NEW s \in SUBSET S, s # {} PROVE h[s] = f[Pick(s)] + h[s \ {Pick(s)}]
    BY <1>3 DEF IsFold
  <2>1. <<Pick(s), h[s \ {Pick(s)}]>> \in S \X Int
    BY <1>1
  <2> QED
    BY <1>3, <2>1 DEF IsFold
<1>5. h = table(h)
  BY <1>4
<1>6. PICK g : g = table(g) /\ SumFunctionOnSet(f, S) = g[S]
  BY <1>5 DEF SumFunctionOnSet, FoldFunctionOnSet, MapThenFoldSet, Pick
<1>7. \A s \in SUBSET S : g[s] = Value(g, s)
  BY <1>6
<1>8. \A s \in SUBSET S : g[s] \in Int
  <2> DEFINE T == {s \in SUBSET S : g[s] \in Int}
  <2>1. {} \in T
    <3>1. {} \in SUBSET S
      OBVIOUS
    <3>2. g[{}] = 0
      BY <1>7, <3>1
    <3> QED
      BY <3>1, <3>2
  <2>2. \A s \in SUBSET S : s # {} => \E x \in s : s \ {x} \in T => s \in T
    <3> SUFFICES ASSUME NEW s \in SUBSET S, s # {}, s \ {Pick(s)} \in T PROVE s \in T
      BY DEF Pick
    <3>1. Pick(s) \in S
      BY DEF Pick
    <3>2. g[s] = f[Pick(s)] + g[s \ {Pick(s)}]
      BY <1>7
    <3>3. g[s \ {Pick(s)}] \in Int
      OBVIOUS
    <3>4. f[Pick(s)] + g[s \ {Pick(s)}] \in Int
      BY <3>1, <3>3
    <3> QED
      BY <3>2, <3>4
  <2> HIDE DEF T
  <2>3. \A s \in SUBSET S : s \in T
    BY <2>1, <2>2, FiniteInduction
  <2> QED
    BY <2>3 DEF T
<1>9. g \in [SUBSET S -> Int]
  BY <1>6, <1>8
<1> QED
  BY <1>6, <1>7, <1>9 DEF SumsUp

\* The sum over no element.
LEMMA SumEmpty ==
    ASSUME NEW f
    PROVE  SumFunctionOnSet(f, {}) = 0
<1>1. IsFiniteSet({}) /\ \A x \in {} : f[x] \in Int
  BY FS_EmptySet
<1>2. PICK h \in [SUBSET {} -> Int] : SumFunctionOnSet(f, {}) = h[{}] /\ SumsUp(h, f, {})
  BY <1>1, SumUnfolded
<1> QED
  BY <1>2 DEF SumsUp

\* A sum of integers is an integer.
LEMMA SumType ==
    ASSUME NEW f, NEW S, IsFiniteSet(S), \A x \in S : f[x] \in Int
    PROVE  SumFunctionOnSet(f, S) \in Int
<1>1. PICK h \in [SUBSET S -> Int] : SumFunctionOnSet(f, S) = h[S] /\ SumsUp(h, f, S)
  BY SumUnfolded
<1> QED
  BY <1>1

\* The definition's step, on sums: the element it picks, and the others.
LEMMA SumPicked ==
    ASSUME NEW f, NEW S, IsFiniteSet(S), \A x \in S : f[x] \in Int, S # {}
    PROVE  SumFunctionOnSet(f, S) = f[Pick(S)] + SumFunctionOnSet(f, S \ {Pick(S)})
<1> DEFINE R == S \ {Pick(S)}
<1>1. IsFiniteSet(R) /\ R \subseteq S
  BY FS_Subset
<1>2. PICK h \in [SUBSET S -> Int] : SumFunctionOnSet(f, S) = h[S] /\ SumsUp(h, f, S)
  BY SumUnfolded
<1>3. PICK g \in [SUBSET R -> Int] : SumFunctionOnSet(f, R) = g[R] /\ SumsUp(g, f, R)
  <2>1. \A x \in R : f[x] \in Int
    OBVIOUS
  <2> HIDE DEF R
  <2> QED
    BY <1>1, <2>1, SumUnfolded
<1>4. \A s \in SUBSET R : g[s] = h[s]
  <2> DEFINE T == {s \in SUBSET R : g[s] = h[s]}
  <2>1. {} \in T
    <3>1. {} \in SUBSET R /\ {} \in SUBSET S
      OBVIOUS
    <3> QED
      BY <1>2, <1>3, <3>1 DEF SumsUp
  <2>2. \A s \in SUBSET R : s # {} => \E x \in s : s \ {x} \in T => s \in T
    <3> SUFFICES ASSUME NEW s \in SUBSET R, s # {}, s \ {Pick(s)} \in T PROVE s \in T
      BY DEF Pick
    <3>1. s \in SUBSET S
      BY <1>1
    <3>2. g[s] = f[Pick(s)] + g[s \ {Pick(s)}] /\ h[s] = f[Pick(s)] + h[s \ {Pick(s)}]
      BY <1>2, <1>3, <3>1 DEF SumsUp
    <3> QED
      BY <3>2
  <2> HIDE DEF T
  <2>3. \A s \in SUBSET R : s \in T
    BY <1>1, <2>1, <2>2, FiniteInduction
  <2> QED
    BY <2>3 DEF T
<1>5. h[S] = f[Pick(S)] + h[R] /\ h[R] = g[R]
  <2>1. R \in SUBSET R /\ S \in SUBSET S
    OBVIOUS
  <2> QED
    BY <1>2, <1>4, <2>1 DEF SumsUp
<1> QED
  BY <1>2, <1>3, <1>5

\* Any element may be taken out first.
LEMMA SumTake ==
    ASSUME NEW f, NEW S, IsFiniteSet(S), \A x \in S : f[x] \in Int, NEW y \in S
    PROVE  SumFunctionOnSet(f, S) = f[y] + SumFunctionOnSet(f, S \ {y})
<1> DEFINE Sum(s) == SumFunctionOnSet(f, s)
           T == {s \in SUBSET S : \A x \in s : Sum(s) = f[x] + Sum(s \ {x})}
<1>1. \A s \in SUBSET S : IsFiniteSet(s) /\ Sum(s) \in Int /\ \A x \in s : f[x] \in Int
  BY FS_Subset, SumType
<1>2. \A s \in SUBSET S : s # {} => Sum(s) = f[Pick(s)] + Sum(s \ {Pick(s)})
  BY <1>1, SumPicked
<1> HIDE DEF Sum
<1>3. {} \in T
  OBVIOUS
<1>4. \A s \in SUBSET S : s # {} => \E x \in s : s \ {x} \in T => s \in T
  <2> SUFFICES ASSUME NEW s \in SUBSET S, s # {}, \A x \in s : s \ {x} \in T PROVE s \in T
    OBVIOUS
  <2>1. SUFFICES ASSUME NEW x \in s, x # Pick(s) PROVE Sum(s) = f[x] + Sum(s \ {x})
    BY <1>2
  <2> DEFINE z == Pick(s)
             r == (s \ {x}) \ {z}
  <2>2. z \in s
    BY DEF Pick
  <2>3. Sum(s) = f[z] + Sum(s \ {z})
    BY <1>2
  <2>4. Sum(s \ {z}) = f[x] + Sum(r)
    <3>1. x \in s \ {z} /\ s \ {z} \in T /\ (s \ {z}) \ {x} = r
      BY <2>1, <2>2
    <3> QED
      BY <3>1
  <2>5. Sum(s \ {x}) = f[z] + Sum(r)
    <3>1. z \in s \ {x} /\ s \ {x} \in T
      BY <2>1, <2>2
    <3> QED
      BY <3>1
  <2>6. f[x] \in Int /\ f[z] \in Int /\ Sum(r) \in Int
    BY <1>1, <2>2
  <2> QED
    BY <2>3, <2>4, <2>5, <2>6
<1> HIDE DEF T
<1>5. \A s \in SUBSET S : s \in T
  BY <1>3, <1>4, FiniteInduction
<1>6. S \in T
  BY <1>5
<1> QED
  BY <1>6 DEF T, Sum

\* An element more.
LEMMA SumAdd ==
    ASSUME NEW f, NEW S, IsFiniteSet(S), \A x \in S : f[x] \in Int,
           NEW y, y \notin S, f[y] \in Int
    PROVE  SumFunctionOnSet(f, S \cup {y}) = f[y] + SumFunctionOnSet(f, S)
<1>1. IsFiniteSet(S \cup {y}) /\ (S \cup {y}) \ {y} = S
  BY FS_AddElement
<1> QED
  BY <1>1, SumTake

\* No larger value, no larger sum; the same values, the same sum.
LEMMA SumMonotone ==
    ASSUME NEW f, NEW g, NEW S, IsFiniteSet(S),
           \A x \in S : f[x] \in Int /\ g[x] \in Int /\ f[x] <= g[x]
    PROVE  SumFunctionOnSet(f, S) <= SumFunctionOnSet(g, S)
<1> DEFINE T == {s \in SUBSET S : SumFunctionOnSet(f, s) <= SumFunctionOnSet(g, s)}
<1>1. {} \in T
  BY SumEmpty
<1>2. \A s \in SUBSET S : s # {} => \E x \in s : s \ {x} \in T => s \in T
  <2> SUFFICES ASSUME NEW s \in SUBSET S, NEW x \in s, s \ {x} \in T PROVE s \in T
    OBVIOUS
  <2>1. IsFiniteSet(s) /\ IsFiniteSet(s \ {x})
    BY FS_Subset
  <2>2. /\ SumFunctionOnSet(f, s) = f[x] + SumFunctionOnSet(f, s \ {x})
        /\ SumFunctionOnSet(g, s) = g[x] + SumFunctionOnSet(g, s \ {x})
    BY <2>1, SumTake
  <2>3. SumFunctionOnSet(f, s \ {x}) \in Int /\ SumFunctionOnSet(g, s \ {x}) \in Int
    BY <2>1, SumType
  <2> QED
    BY <2>2, <2>3
<1> HIDE DEF T
<1>3. \A s \in SUBSET S : s \in T
  BY <1>1, <1>2, FiniteInduction
<1> QED
  BY <1>3 DEF T

LEMMA SumSame ==
    ASSUME NEW f, NEW g, NEW S, IsFiniteSet(S), \A x \in S : f[x] \in Int /\ f[x] = g[x]
    PROVE  SumFunctionOnSet(f, S) = SumFunctionOnSet(g, S)
<1>1. /\ SumFunctionOnSet(f, S) <= SumFunctionOnSet(g, S)
      /\ SumFunctionOnSet(g, S) <= SumFunctionOnSet(f, S)
  BY SumMonotone
<1>2. SumFunctionOnSet(f, S) \in Int /\ SumFunctionOnSet(g, S) \in Int
  BY SumType
<1> QED
  BY <1>1, <1>2

\* Two sets without a common element.
LEMMA SumUnion ==
    ASSUME NEW f, NEW S, IsFiniteSet(S), NEW R, IsFiniteSet(R), R \cap S = {},
           \A x \in S \cup R : f[x] \in Int
    PROVE  SumFunctionOnSet(f, S \cup R) = SumFunctionOnSet(f, S) + SumFunctionOnSet(f, R)
<1> DEFINE T == {r \in SUBSET R : SumFunctionOnSet(f, S \cup r)
                                    = SumFunctionOnSet(f, S) + SumFunctionOnSet(f, r)}
<1>1. SumFunctionOnSet(f, S) \in Int
  BY SumType
<1>2. {} \in T
  <2>1. S \cup {} = S
    OBVIOUS
  <2> QED
    BY <1>1, <2>1, SumEmpty
<1>3. \A r \in SUBSET R : r # {} => \E x \in r : r \ {x} \in T => r \in T
  <2> SUFFICES ASSUME NEW r \in SUBSET R, NEW x \in r, r \ {x} \in T PROVE r \in T
    OBVIOUS
  <2>1. IsFiniteSet(r) /\ IsFiniteSet(r \ {x}) /\ IsFiniteSet(S \cup r)
    BY FS_Subset, FS_Union
  <2>2. SumFunctionOnSet(f, S \cup r) = f[x] + SumFunctionOnSet(f, S \cup (r \ {x}))
    <3>1. (S \cup r) \ {x} = S \cup (r \ {x})
      OBVIOUS
    <3> QED
      BY <2>1, <3>1, SumTake
  <2>3. SumFunctionOnSet(f, r) = f[x] + SumFunctionOnSet(f, r \ {x})
    BY <2>1, SumTake
  <2>4. SumFunctionOnSet(f, r \ {x}) \in Int /\ f[x] \in Int
    BY <2>1, SumType
  <2> QED
    BY <1>1, <2>2, <2>3, <2>4
<1> HIDE DEF T
<1>4. \A r \in SUBSET R : r \in T
  BY <1>2, <1>3, FiniteInduction
<1>5. R \in T
  BY <1>4
<1> QED
  BY <1>5 DEF T

\* A sum of natural numbers is none below 0.
LEMMA SumNonNegative ==
    ASSUME NEW f, NEW S, IsFiniteSet(S), \A x \in S : f[x] \in Nat
    PROVE  SumFunctionOnSet(f, S) >= 0
<1> DEFINE T == {s \in SUBSET S : SumFunctionOnSet(f, s) >= 0}
<1>1. {} \in T
  BY SumEmpty
<1>2. \A s \in SUBSET S : s # {} => \E x \in s : s \ {x} \in T => s \in T
  <2> SUFFICES ASSUME NEW s \in SUBSET S, NEW x \in s, s \ {x} \in T PROVE s \in T
    OBVIOUS
  <2>1. IsFiniteSet(s) /\ IsFiniteSet(s \ {x}) /\ \A y \in s : f[y] \in Int
    BY FS_Subset
  <2>2. SumFunctionOnSet(f, s) = f[x] + SumFunctionOnSet(f, s \ {x})
    BY <2>1, SumTake
  <2>3. SumFunctionOnSet(f, s \ {x}) \in Int
    BY <2>1, SumType
  <2> QED
    BY <2>2, <2>3
<1> HIDE DEF T
<1>3. \A s \in SUBSET S : s \in T
  BY <1>1, <1>2, FiniteInduction
<1> QED
  BY <1>3 DEF T

\* One value is another.
LEMMA SumChanged ==
    ASSUME NEW f, NEW g, NEW S, IsFiniteSet(S), NEW y \in S,
           \A x \in S : f[x] \in Int /\ g[x] \in Int,
           \A x \in S \ {y} : f[x] = g[x]
    PROVE  SumFunctionOnSet(g, S) = SumFunctionOnSet(f, S) - f[y] + g[y]
<1>1. IsFiniteSet(S \ {y})
  BY FS_Subset
<1>2. SumFunctionOnSet(f, S \ {y}) = SumFunctionOnSet(g, S \ {y})
  BY <1>1, SumSame
<1>3. /\ SumFunctionOnSet(f, S) = f[y] + SumFunctionOnSet(f, S \ {y})
      /\ SumFunctionOnSet(g, S) = g[y] + SumFunctionOnSet(g, S \ {y})
  BY SumTake
<1>4. SumFunctionOnSet(f, S \ {y}) \in Int
  BY <1>1, SumType
<1> QED
  BY <1>2, <1>3, <1>4

\* All values are the same.
LEMMA SumConstant ==
    ASSUME NEW f, NEW S, IsFiniteSet(S), NEW c \in Int, \A x \in S : f[x] = c
    PROVE  SumFunctionOnSet(f, S) = c * Cardinality(S)
<1> DEFINE T == {s \in SUBSET S : SumFunctionOnSet(f, s) = c * Cardinality(s)}
<1>1. {} \in T
  BY SumEmpty, FS_EmptySet
<1>2. \A s \in SUBSET S : s # {} => \E x \in s : s \ {x} \in T => s \in T
  <2> SUFFICES ASSUME NEW s \in SUBSET S, NEW x \in s, s \ {x} \in T PROVE s \in T
    OBVIOUS
  <2> DEFINE n == Cardinality(s \ {x})
  <2>1. IsFiniteSet(s) /\ IsFiniteSet(s \ {x}) /\ \A y \in s : f[y] \in Int
    BY FS_Subset
  <2>2. SumFunctionOnSet(f, s) = c + SumFunctionOnSet(f, s \ {x})
    BY <2>1, SumTake
  <2>3. n \in Nat /\ Cardinality(s) = n + 1
    BY <2>1, FS_CardinalityType, FS_RemoveElement
  <2>4. SumFunctionOnSet(f, s \ {x}) = c * n
    OBVIOUS
  <2>5. c + c * n = c * (n + 1)
    <3> HIDE DEF n
    <3> QED
      BY <2>3
  <2> QED
    BY <2>2, <2>3, <2>4, <2>5
<1> HIDE DEF T
<1>3. \A s \in SUBSET S : s \in T
  BY <1>1, <1>2, FiniteInduction
<1> QED
  BY <1>3 DEF T
=============================================================================
