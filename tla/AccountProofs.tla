---------------------------- MODULE AccountProofs ---------------------------
(***************************************************************************)
(* Theorems of StudentAccount, for any tables of reliefs, papers, formulas  *)
(* and courses, any rows in them and any bounds: which formula is picked,   *)
(* what a bucket charges, what a relief can give, and that the worklist     *)
(* and the statement come to one balance.  The lemmas before them say what  *)
(* the sums over sets of rows are: they exist, do not depend on the order   *)
(* the rows are added in, and can be regrouped.                             *)
(***************************************************************************)
EXTENDS StudentAccount, FiniteSetTheorems, SequenceTheorems, WellFoundedInduction, TLAPS

(* Induction, on the naturals and on finite sets.                           *)

\* A set of naturals that has 0, and with every number the next, has all.
LEMMA AllNaturals ==
  ASSUME NEW T, 0 \in T, \A n \in Nat : n \in T => n + 1 \in T
  PROVE  \A n \in Nat : n \in T
<1> SUFFICES ASSUME Nat \ T # {} PROVE FALSE
  OBVIOUS
<1>1. IsWellFoundedOn(OpToRel(<, Nat), Nat)
  BY NatLessThanWellFounded
<1>2. PICK m \in Nat \ T : \A n \in Nat \ T : ~ (<<n, m>> \in OpToRel(<, Nat))
  <2>1. Nat \ T \in SUBSET Nat /\ Nat \ T # {}
    OBVIOUS
  <2> QED BY <1>1, <2>1, WFMin
<1>3. \A n \in Nat \ T : ~ (n < m)
  BY <1>2 DEF OpToRel
<1>4. m # 0 /\ m - 1 \in Nat /\ m - 1 \in T
  BY <1>3
<1> QED BY <1>4

\* Finite sets one element at a time: a set of sets that has {}, and every set it
\* has also with one more element of S, has S.
LEMMA FiniteInduction ==
  ASSUME NEW S, IsFiniteSet(S), NEW T, {} \in T,
         \A U \in SUBSET S : U \in T => \A x \in S \ U : U \cup {x} \in T
  PROVE  S \in T
<1> DEFINE Sized == {n \in Nat : \A U \in SUBSET S : Cardinality(U) = n => U \in T}
<1>1. \A U \in SUBSET S : IsFiniteSet(U) /\ Cardinality(U) \in Nat
  BY FS_Subset, FS_CardinalityType
<1>2. 0 \in Sized
  BY <1>1, FS_EmptySet
<1>3. ASSUME NEW n \in Nat, n \in Sized PROVE n + 1 \in Sized
  <2> SUFFICES ASSUME NEW U \in SUBSET S, Cardinality(U) = n + 1 PROVE U \in T
    OBVIOUS
  <2>1. U # {}
    <3>1. n + 1 # 0 /\ Cardinality({}) = 0
      BY FS_EmptySet
    <3> QED BY <3>1
  <2>2. PICK x \in U : TRUE
    BY <2>1
  <2>3. Cardinality(U \ {x}) = n /\ U \ {x} \in SUBSET S
    BY <1>1, <2>2, FS_RemoveElement
  <2>4. U \ {x} \in T /\ x \in S \ (U \ {x})
    BY <1>3, <2>2, <2>3
  <2>5. (U \ {x}) \cup {x} \in T
    BY <2>3, <2>4
  <2>6. (U \ {x}) \cup {x} = U
    BY <2>2
  <2> QED BY <2>5, <2>6
<1> HIDE DEF Sized
<1>4. Cardinality(S) \in Sized
  BY <1>1, <1>2, <1>3, AllNaturals
<1> QED BY <1>4 DEF Sized

\* The subsets of a finite set: one is in T when all its proper subsets are.
LEMMA SubsetInduction ==
  ASSUME NEW S, IsFiniteSet(S), NEW T,
         \A U \in SUBSET S : (\A V \in SUBSET U : V # U => V \in T) => U \in T
  PROVE  SUBSET S \subseteq T
<1> DEFINE Sized == {n \in Nat : \A U \in SUBSET S : Cardinality(U) < n => U \in T}
<1>1. \A U \in SUBSET S : IsFiniteSet(U) /\ Cardinality(U) \in Nat
  BY FS_Subset, FS_CardinalityType
<1>2. 0 \in Sized
  BY <1>1
<1>3. ASSUME NEW n \in Nat, n \in Sized PROVE n + 1 \in Sized
  <2> SUFFICES ASSUME NEW U \in SUBSET S, Cardinality(U) < n + 1 PROVE U \in T
    OBVIOUS
  <2> SUFFICES ASSUME NEW V \in SUBSET U, V # U PROVE V \in T
    OBVIOUS
  <2>1. Cardinality(V) <= Cardinality(U) /\ Cardinality(V) # Cardinality(U)
    BY <1>1, FS_Subset
  <2>2. V \in SUBSET S /\ Cardinality(V) < n
    BY <1>1, <2>1
  <2> QED BY <1>3, <2>2
<1> HIDE DEF Sized
<1>4. \A n \in Nat : n \in Sized
  BY <1>2, <1>3, AllNaturals
<1>5. ASSUME NEW U \in SUBSET S PROVE U \in T
  <2>1. Cardinality(U) + 1 \in Sized /\ Cardinality(U) < Cardinality(U) + 1
    BY <1>1, <1>4
  <2> QED BY <2>1 DEF Sized
<1> QED BY <1>5

\* The steps of a recursion on 0..n with values in V.
StepsIn(n, V) == [1..n -> [V -> V]]

\* f is the solution of the recursion.
IsRecursion(f, n, V, base, step) ==
  f \in [0..n -> V] /\ f[0] = base /\ \A i \in 1..n : f[i] = step[i][f[i - 1]]

\* Such a recursion has a solution.
LEMMA RecursionExists ==
  ASSUME NEW n \in Nat, NEW V, NEW base \in V, NEW step \in StepsIn(n, V)
  PROVE  \E f : IsRecursion(f, n, V, base, step)
<1> DEFINE Solves(m) == \E f \in [0..m -> V] :
                          f[0] = base /\ \A i \in 1..m : f[i] = step[i][f[i - 1]]
           T == {m \in Nat : m <= n => Solves(m)}
<1>1. Solves(0)
  <2>1. [i \in 0..0 |-> base] \in [0..0 -> V] /\ \A i \in 1..0 : FALSE
    OBVIOUS
  <2>2. [i \in 0..0 |-> base][0] = base
    OBVIOUS
  <2> QED BY <2>1, <2>2
<1>2. ASSUME NEW m \in Nat, m + 1 <= n, Solves(m) PROVE Solves(m + 1)
  <2>1. PICK f \in [0..m -> V] : f[0] = base /\ \A i \in 1..m : f[i] = step[i][f[i - 1]]
    BY <1>2
  <2> DEFINE e == step[m + 1][f[m]]
             g == [i \in 0..(m + 1) |-> IF i = m + 1 THEN e ELSE f[i]]
  <2>2. m + 1 \in 1..n /\ f[m] \in V
    BY <1>2, <2>1
  <2>3. e \in V
    BY <2>2 DEF StepsIn
  <2>4. e = step[m + 1][f[m]]
    OBVIOUS
  <2> HIDE DEF e
  <2>5. g \in [0..(m + 1) -> V]
    BY <2>1, <2>3
  <2>6. g[m + 1] = e /\ \A i \in 0..m : g[i] = f[i]
    BY <2>1
  <2> HIDE DEF g
  <2>7. ASSUME NEW i \in 1..(m + 1) PROVE g[i] = step[i][g[i - 1]]
    <3>1. CASE i = m + 1
      <4>1. i - 1 = m /\ m \in 0..m
        BY <3>1
      <4> QED BY <2>4, <2>6, <3>1, <4>1
    <3>2. CASE i # m + 1
      <4>1. i \in 1..m /\ i \in 0..m /\ i - 1 \in 0..m
        BY <3>2
      <4> QED BY <2>1, <2>6, <4>1
    <3> QED BY <3>1, <3>2
  <2>8. g[0] = base
    <3>1. 0 \in 0..m
      OBVIOUS
    <3> QED BY <2>1, <2>6, <3>1
  <2> QED BY <2>5, <2>7, <2>8
<1> HIDE DEF Solves
<1>3. 0 \in T /\ \A m \in Nat : m \in T => m + 1 \in T
  BY <1>1, <1>2
<1> HIDE DEF T
<1>4. n \in T
  BY <1>3, AllNaturals
<1> QED BY <1>4 DEF Solves, T, IsRecursion

-----------------------------------------------------------------------------
(* Sums over finite sets: the element taken first does not matter.          *)

\* The element SumFunctionOnSet takes first.
First(S) == CHOOSE x \in S : TRUE

\* g has the sums of f over the subsets of S of at most n elements.
Sums(f, S, n, g) ==
  \A U \in SUBSET S :
    Cardinality(U) <= n => g[U] = IF U = {} THEN 0 ELSE f[First(U)] + g[U \ {First(U)}]

\* The recursion of SumFunctionOnSet.
SumsFrom(f, S, g) == [U \in SUBSET S |-> IF U = {} THEN 0 ELSE f[First(U)] + g[U \ {First(U)}]]

\* g has the sums of f over all subsets of S.
IsSum(f, S, g) == \A U \in SUBSET S : g[U] = IF U = {} THEN 0 ELSE f[First(U)] + g[U \ {First(U)}]

\* The recursion has a solution.
LEMMA SumsExist ==
  ASSUME NEW f, NEW S, IsFiniteSet(S)
  PROVE  \E g : g = SumsFrom(f, S, g)
<1> DEFINE T == {n \in Nat : \E g : Sums(f, S, n, g)}
<1>1. \A U \in SUBSET S : IsFiniteSet(U) /\ Cardinality(U) \in Nat
  BY FS_Subset, FS_CardinalityType
<1>2. ASSUME NEW U \in SUBSET S, U # {}
      PROVE  /\ First(U) \in U /\ U \ {First(U)} \in SUBSET S
             /\ Cardinality(U \ {First(U)}) = Cardinality(U) - 1
  <2>1. First(U) \in U
    BY <1>2 DEF First
  <2> QED BY <1>1, <2>1, FS_RemoveElement
<1>3. 0 \in T
  <2>1. Sums(f, S, 0, [U \in SUBSET S |-> 0])
    BY <1>1, FS_EmptySet DEF Sums
  <2> QED BY <2>1
<1>4. ASSUME NEW n \in Nat, n \in T PROVE n + 1 \in T
  <2>1. PICK g : Sums(f, S, n, g)
    BY <1>4
  <2> DEFINE h == [U \in SUBSET S |-> IF U = {} THEN 0 ELSE f[First(U)] + g[U \ {First(U)}]]
  <2>2. ASSUME NEW U \in SUBSET S, Cardinality(U) <= n PROVE h[U] = g[U]
    BY <2>1, <2>2 DEF Sums
  <2>3. ASSUME NEW U \in SUBSET S, Cardinality(U) <= n + 1, U # {}
        PROVE  h[U \ {First(U)}] = g[U \ {First(U)}]
    <3>1. Cardinality(U \ {First(U)}) <= n
      BY <1>1, <1>2, <2>3
    <3> QED BY <1>2, <2>2, <2>3, <3>1
  <2>4. \A U \in SUBSET S : h[U] = IF U = {} THEN 0 ELSE f[First(U)] + g[U \ {First(U)}]
    OBVIOUS
  <2> HIDE DEF h
  <2>5. Sums(f, S, n + 1, h)
    BY <2>3, <2>4 DEF Sums
  <2> QED BY <2>5
<1> HIDE DEF T
<1>5. Cardinality(S) \in T
  BY <1>1, <1>3, <1>4, AllNaturals
<1>6. PICK g : Sums(f, S, Cardinality(S), g)
  BY <1>5 DEF T
<1> DEFINE h == [U \in SUBSET S |-> IF U = {} THEN 0 ELSE f[First(U)] + g[U \ {First(U)}]]
<1>7. \A U \in SUBSET S : h[U] = g[U]
  <2>1. \A U \in SUBSET S : Cardinality(U) <= Cardinality(S)
    BY FS_Subset
  <2> QED BY <1>6, <2>1 DEF Sums
<1>8. \A U \in SUBSET S : U # {} => h[U \ {First(U)}] = g[U \ {First(U)}]
  BY <1>2, <1>7
<1>9. h = SumsFrom(f, S, h)
  <2> DEFINE k == [U \in SUBSET S |-> IF U = {} THEN 0 ELSE f[First(U)] + h[U \ {First(U)}]]
  <2>1. \A U \in SUBSET S : k[U] = IF U = {} THEN 0 ELSE f[First(U)] + h[U \ {First(U)}]
    OBVIOUS
  <2>2. \A U \in SUBSET S : h[U] = IF U = {} THEN 0 ELSE f[First(U)] + g[U \ {First(U)}]
    OBVIOUS
  <2>3. DOMAIN h = SUBSET S /\ DOMAIN k = SUBSET S /\ h = [U \in SUBSET S |-> h[U]] /\ k = [U \in SUBSET S |-> k[U]]
    OBVIOUS
  <2> HIDE DEF h, k
  <2>4. \A U \in SUBSET S : h[U] = k[U]
    BY <1>8, <2>1, <2>2
  <2>5. h = k
    BY <2>3, <2>4
  <2> QED BY <2>5 DEF k, SumsFrom
<1> QED BY <1>9

\* What SumFunctionOnSet computes is that solution.
LEMMA SumIsSolution ==
  ASSUME NEW f, NEW S, IsFiniteSet(S)
  PROVE  \E g : IsSum(f, S, g) /\ SumFunctionOnSet(f, S) = g[S]
<1> DEFINE it == CHOOSE g : g = SumsFrom(f, S, g)
<1>1. SumFunctionOnSet(f, S) = it[S]
  BY DEF SumFunctionOnSet, FoldFunctionOnSet, MapThenFoldSet, First, SumsFrom
<1>2. it = SumsFrom(f, S, it)
  BY SumsExist
<1> HIDE DEF it
<1>3. IsSum(f, S, it)
  BY <1>2 DEF SumsFrom, IsSum
<1> QED BY <1>1, <1>3

\* Two solutions are the same.
LEMMA SumsUnique ==
  ASSUME NEW f, NEW S, IsFiniteSet(S), NEW g, NEW h, IsSum(f, S, g), IsSum(f, S, h)
  PROVE  \A U \in SUBSET S : g[U] = h[U]
<1> DEFINE T == {U \in SUBSET S : g[U] = h[U]}
<1>1. ASSUME NEW U \in SUBSET S, \A V \in SUBSET U : V # U => V \in T
      PROVE  U \in T
  <2>1. CASE U = {}
    BY <2>1 DEF IsSum
  <2>2. CASE U # {}
    <3>1. First(U) \in U
      BY <2>2 DEF First
    <3>2. U \ {First(U)} \in SUBSET U /\ U \ {First(U)} # U
      BY <3>1
    <3>3. U \ {First(U)} \in T
      BY <1>1, <3>2
    <3>4. g[U] = f[First(U)] + g[U \ {First(U)}] /\ h[U] = f[First(U)] + h[U \ {First(U)}]
      BY <2>2 DEF IsSum
    <3> QED BY <3>3, <3>4
  <2> QED BY <2>1, <2>2
<1> HIDE DEF T
<1>2. SUBSET S \subseteq T
  BY <1>1, SubsetInduction
<1> QED BY <1>2 DEF T

\* A sum, unfolded once.
LEMMA SumUnfold ==
  ASSUME NEW f, NEW S, IsFiniteSet(S)
  PROVE  /\ S = {} => SumFunctionOnSet(f, S) = 0
         /\ S # {} => /\ First(S) \in S
                      /\ SumFunctionOnSet(f, S) = f[First(S)] + SumFunctionOnSet(f, S \ {First(S)})
<1>1. PICK g : IsSum(f, S, g) /\ SumFunctionOnSet(f, S) = g[S]
  BY SumIsSolution
<1>2. CASE S = {}
  BY <1>1, <1>2 DEF IsSum
<1>3. CASE S # {}
  <2> DEFINE R == S \ {First(S)}
  <2>1. First(S) \in S
    BY <1>3 DEF First
  <2>2. R \in SUBSET S /\ IsFiniteSet(R)
    BY FS_Subset
  <2>3. g[S] = f[First(S)] + g[R]
    BY <1>1, <1>3 DEF IsSum
  <2> HIDE DEF R
  <2>4. PICK h : IsSum(f, R, h) /\ SumFunctionOnSet(f, R) = h[R]
    BY <2>2, SumIsSolution
  <2>5. IsSum(f, R, g)
    BY <1>1, <2>2 DEF IsSum
  <2>6. g[R] = h[R]
    <3>1. \A U \in SUBSET R : g[U] = h[U]
      BY <2>2, <2>4, <2>5, SumsUnique
    <3> QED BY <3>1
  <2> QED BY <1>1, <1>3, <2>1, <2>3, <2>4, <2>6 DEF R
<1> QED BY <1>2, <1>3

\* Sums of integers are integers, of naturals naturals.
LEMMA SumType ==
  ASSUME NEW f, NEW S, IsFiniteSet(S), \A x \in S : f[x] \in Int
  PROVE  /\ SumFunctionOnSet(f, S) \in Int
         /\ (\A x \in S : f[x] \in Nat) => SumFunctionOnSet(f, S) \in Nat
<1> DEFINE V == IF \A x \in S : f[x] \in Nat THEN Nat ELSE Int
           T == {U \in SUBSET S : SumFunctionOnSet(f, U) \in V}
<1>1. /\ 0 \in V /\ \A x \in S : f[x] \in V
      /\ \A a, b \in V : a + b \in V
      /\ V \subseteq Int /\ ((\A x \in S : f[x] \in Nat) => V = Nat)
  <2>1. CASE \A x \in S : f[x] \in Nat
    BY <2>1
  <2>2. CASE ~ \A x \in S : f[x] \in Nat
    BY <2>2
  <2> QED BY <2>1, <2>2
<1> HIDE DEF V
<1>2. ASSUME NEW U \in SUBSET S, \A W \in SUBSET U : W # U => W \in T
      PROVE  U \in T
  <2>1. IsFiniteSet(U)
    BY FS_Subset
  <2>2. CASE U = {}
    BY <1>1, <2>1, <2>2, SumUnfold
  <2>3. CASE U # {}
    <3>1. First(U) \in U /\ SumFunctionOnSet(f, U) = f[First(U)] + SumFunctionOnSet(f, U \ {First(U)})
      BY <2>1, <2>3, SumUnfold
    <3>2. U \ {First(U)} \in SUBSET U /\ U \ {First(U)} # U
      BY <3>1
    <3>3. SumFunctionOnSet(f, U \ {First(U)}) \in V
      BY <1>2, <3>2
    <3>4. SumFunctionOnSet(f, U) \in V
      BY <1>1, <3>1, <3>3
    <3> QED BY <3>4
  <2> QED BY <2>2, <2>3
<1> HIDE DEF T
<1>3. S \in T
  BY <1>2, SubsetInduction
<1>4. SumFunctionOnSet(f, S) \in V
  BY <1>3 DEF T
<1> QED BY <1>1, <1>4

\* Any element may be taken out of a sum.
LEMMA SumRemove ==
  ASSUME NEW f, NEW S, IsFiniteSet(S), \A x \in S : f[x] \in Int, NEW y \in S
  PROVE  SumFunctionOnSet(f, S) = f[y] + SumFunctionOnSet(f, S \ {y})
<1> DEFINE Sum(U) == SumFunctionOnSet(f, U)
           T == {U \in SUBSET S : \A x \in U : Sum(U) = f[x] + Sum(U \ {x})}
<1>1. \A U \in SUBSET S : IsFiniteSet(U) /\ Sum(U) \in Int
  <2> SUFFICES ASSUME NEW U \in SUBSET S PROVE IsFiniteSet(U) /\ Sum(U) \in Int
    OBVIOUS
  <2>1. IsFiniteSet(U) /\ \A x \in U : f[x] \in Int
    BY FS_Subset
  <2> QED BY <2>1, SumType
<1>2. \A U \in SUBSET S : U # {} => First(U) \in U /\ Sum(U) = f[First(U)] + Sum(U \ {First(U)})
  BY <1>1, SumUnfold
<1> HIDE DEF Sum
<1>3. ASSUME NEW U \in SUBSET S, \A W \in SUBSET U : W # U => W \in T
      PROVE  U \in T
  <2> SUFFICES ASSUME NEW x \in U PROVE Sum(U) = f[x] + Sum(U \ {x})
    OBVIOUS
  <2> DEFINE c == First(U)
  <2>1. c \in U /\ Sum(U) = f[c] + Sum(U \ {c})
    BY <1>2
  <2> HIDE DEF c
  <2>2. CASE x = c
    BY <2>1, <2>2
  <2>3. CASE x # c
    <3>1. /\ U \ {c} \in SUBSET U /\ U \ {c} # U /\ x \in U \ {c}
          /\ U \ {x} \in SUBSET U /\ U \ {x} # U /\ c \in U \ {x}
      BY <2>1, <2>3
    <3>2. Sum(U \ {c}) = f[x] + Sum((U \ {c}) \ {x})
      BY <1>3, <3>1
    <3>3. Sum(U \ {x}) = f[c] + Sum((U \ {x}) \ {c})
      BY <1>3, <3>1
    <3>4. (U \ {c}) \ {x} = (U \ {x}) \ {c}
      OBVIOUS
    <3> DEFINE s == Sum((U \ {x}) \ {c})
               d == Sum(U \ {c})
               e == Sum(U \ {x})
    <3>5. s \in Int /\ f[x] \in Int /\ f[c] \in Int
      BY <1>1, <2>1
    <3>6. d = f[x] + s /\ e = f[c] + s /\ Sum(U) = f[c] + d
      BY <2>1, <3>2, <3>3, <3>4
    <3> HIDE DEF s, d
    <3>7. Sum(U) = f[x] + e
      <4> HIDE DEF e
      <4> QED BY <3>5, <3>6
    <3> QED BY <3>7
  <2> QED BY <2>2, <2>3
<1> HIDE DEF T
<1>4. S \in T
  BY <1>3, SubsetInduction
<1>5. Sum(S) = f[y] + Sum(S \ {y})
  BY <1>4 DEF T
<1> QED BY <1>5 DEF Sum

\* An element may be added to a sum.
LEMMA SumAdd ==
  ASSUME NEW f, NEW S, IsFiniteSet(S), NEW y, y \notin S, \A x \in S \cup {y} : f[x] \in Int
  PROVE  SumFunctionOnSet(f, S \cup {y}) = f[y] + SumFunctionOnSet(f, S)
<1> DEFINE R == S \cup {y}
<1>1. IsFiniteSet(R) /\ y \in R /\ R \ {y} = S /\ \A x \in R : f[x] \in Int
  BY FS_AddElement
<1> HIDE DEF R
<1>2. SumFunctionOnSet(f, R) = f[y] + SumFunctionOnSet(f, R \ {y})
  BY <1>1, SumRemove
<1> QED BY <1>1, <1>2 DEF R

\* Functions that agree on a set have the same sum there.
LEMMA SumEqual ==
  ASSUME NEW f, NEW g, NEW S, IsFiniteSet(S), \A x \in S : f[x] \in Int /\ g[x] = f[x]
  PROVE  SumFunctionOnSet(g, S) = SumFunctionOnSet(f, S)
<1> DEFINE T == {U \in SUBSET S : SumFunctionOnSet(g, U) = SumFunctionOnSet(f, U)}
<1>1. {} \in T
  BY FS_EmptySet, SumUnfold
<1>2. ASSUME NEW U \in SUBSET S, U \in T, NEW x \in S \ U PROVE U \cup {x} \in T
  <2>1. IsFiniteSet(U) /\ x \notin U /\ \A y \in U \cup {x} : f[y] \in Int /\ g[y] \in Int
    BY FS_Subset
  <2>2. SumFunctionOnSet(f, U \cup {x}) = f[x] + SumFunctionOnSet(f, U)
    BY <2>1, SumAdd
  <2>3. SumFunctionOnSet(g, U \cup {x}) = g[x] + SumFunctionOnSet(g, U)
    BY <2>1, SumAdd
  <2> QED BY <1>2, <2>2, <2>3
<1> HIDE DEF T
<1>3. S \in T
  BY <1>1, <1>2, FiniteInduction
<1> QED BY <1>3 DEF T

\* The sum of a sum of two functions.
LEMMA SumPlus ==
  ASSUME NEW f, NEW g, NEW h, NEW S, IsFiniteSet(S),
         \A x \in S : f[x] \in Int /\ g[x] \in Int /\ h[x] = f[x] + g[x]
  PROVE  SumFunctionOnSet(h, S) = SumFunctionOnSet(f, S) + SumFunctionOnSet(g, S)
<1> DEFINE T == {U \in SUBSET S : SumFunctionOnSet(h, U) = SumFunctionOnSet(f, U) + SumFunctionOnSet(g, U)}
<1>1. {} \in T
  <2>1. \A k : SumFunctionOnSet(k, {}) = 0
    BY FS_EmptySet, SumUnfold
  <2> QED BY <2>1
<1>2. ASSUME NEW U \in SUBSET S, U \in T, NEW x \in S \ U PROVE U \cup {x} \in T
  <2>1. /\ IsFiniteSet(U) /\ x \notin U
        /\ \A y \in U \cup {x} : f[y] \in Int /\ g[y] \in Int /\ h[y] \in Int
    BY FS_Subset
  <2> DEFINE a == SumFunctionOnSet(f, U)
             b == SumFunctionOnSet(g, U)
             c == SumFunctionOnSet(h, U)
  <2>2. SumFunctionOnSet(f, U \cup {x}) = f[x] + a
    BY <2>1, SumAdd
  <2>3. SumFunctionOnSet(g, U \cup {x}) = g[x] + b
    BY <2>1, SumAdd
  <2>4. SumFunctionOnSet(h, U \cup {x}) = h[x] + c
    BY <2>1, SumAdd
  <2>5. a \in Int /\ b \in Int
    BY <2>1, SumType
  <2>6. c = a + b /\ h[x] = f[x] + g[x] /\ f[x] \in Int /\ g[x] \in Int
    BY <1>2
  <2> HIDE DEF a, b, c
  <2>7. h[x] + c = (f[x] + a) + (g[x] + b)
    BY <2>5, <2>6
  <2> QED BY <2>2, <2>3, <2>4, <2>7
<1> HIDE DEF T
<1>3. S \in T
  BY <1>1, <1>2, FiniteInduction
<1> QED BY <1>3 DEF T

\* What is not zero decides a sum.
LEMMA SumSubset ==
  ASSUME NEW f, NEW S, IsFiniteSet(S), NEW R \in SUBSET S,
         \A x \in R : f[x] \in Int, \A x \in S \ R : f[x] = 0
  PROVE  SumFunctionOnSet(f, S) = SumFunctionOnSet(f, R)
<1> DEFINE T == {U \in SUBSET (S \ R) : SumFunctionOnSet(f, R \cup U) = SumFunctionOnSet(f, R)}
<1>1. {} \in T
  <2>1. R \cup {} = R
    OBVIOUS
  <2> QED BY <2>1
<1>2. ASSUME NEW U \in SUBSET (S \ R), U \in T, NEW x \in (S \ R) \ U PROVE U \cup {x} \in T
  <2> DEFINE W == R \cup U
  <2>1. W \in SUBSET S /\ x \notin W /\ \A y \in W \cup {x} : f[y] \in Int
    OBVIOUS
  <2>2. R \cup (U \cup {x}) = W \cup {x} /\ SumFunctionOnSet(f, W) = SumFunctionOnSet(f, R)
    BY <1>2
  <2>3. SumFunctionOnSet(f, R) \in Int
    BY FS_Subset, SumType
  <2> HIDE DEF W
  <2>4. IsFiniteSet(W)
    BY <2>1, FS_Subset
  <2>5. SumFunctionOnSet(f, W \cup {x}) = f[x] + SumFunctionOnSet(f, W)
    BY <2>1, <2>4, SumAdd
  <2>6. SumFunctionOnSet(f, R \cup (U \cup {x})) = SumFunctionOnSet(f, R)
    BY <2>2, <2>3, <2>5
  <2> QED BY <2>6
<1>3. IsFiniteSet(S \ R)
  BY FS_Subset
<1> HIDE DEF T
<1>4. S \ R \in T
  BY <1>1, <1>2, <1>3, FiniteInduction
<1>5. SumFunctionOnSet(f, R \cup (S \ R)) = SumFunctionOnSet(f, R) /\ R \cup (S \ R) = S
  BY <1>4 DEF T
<1> QED BY <1>5

\* A sum over a set is the sum over its image under a function that keeps its
\* elements apart.
LEMMA SumImage ==
  ASSUME NEW S, IsFiniteSet(S), NEW p, \A x, y \in S : p[x] = p[y] => x = y,
         NEW f, NEW g, \A x \in S : f[p[x]] \in Int /\ g[x] = f[p[x]]
  PROVE  /\ IsFiniteSet({p[x] : x \in S})
         /\ SumFunctionOnSet(g, S) = SumFunctionOnSet(f, {p[x] : x \in S})
<1> DEFINE Img(U) == {p[x] : x \in U}
           T == {U \in SUBSET S : /\ IsFiniteSet(Img(U))
                                  /\ SumFunctionOnSet(g, U) = SumFunctionOnSet(f, Img(U))}
<1>1. {} \in T
  <2>1. Img({}) = {}
    OBVIOUS
  <2>2. \A k : SumFunctionOnSet(k, {}) = 0
    BY FS_EmptySet, SumUnfold
  <2> QED BY <2>1, <2>2, FS_EmptySet
<1>2. ASSUME NEW U \in SUBSET S, U \in T, NEW x \in S \ U PROVE U \cup {x} \in T
  <2>1. /\ IsFiniteSet(U) /\ x \notin U /\ \A y \in U \cup {x} : g[y] \in Int
    BY FS_Subset
  <2>2. Img(U \cup {x}) = Img(U) \cup {p[x]} /\ p[x] \notin Img(U)
    OBVIOUS
  <2>3. \A z \in Img(U) \cup {p[x]} : f[z] \in Int
    OBVIOUS
  <2>4. IsFiniteSet(Img(U)) /\ SumFunctionOnSet(g, U) = SumFunctionOnSet(f, Img(U))
    BY <1>2
  <2> HIDE DEF Img
  <2>5. SumFunctionOnSet(g, U \cup {x}) = g[x] + SumFunctionOnSet(g, U)
    BY <2>1, SumAdd
  <2>6. SumFunctionOnSet(f, Img(U) \cup {p[x]}) = f[p[x]] + SumFunctionOnSet(f, Img(U))
    BY <2>2, <2>3, <2>4, SumAdd
  <2>7. IsFiniteSet(Img(U) \cup {p[x]})
    BY <2>4, FS_AddElement
  <2> QED BY <2>2, <2>4, <2>5, <2>6, <2>7
<1> HIDE DEF T
<1>3. S \in T
  BY <1>1, <1>2, FiniteInduction
<1> QED BY <1>3 DEF T

\* A sum is the sum of the sums of its parts, by any key.
LEMMA SumParts ==
  ASSUME NEW S, IsFiniteSet(S), NEW K, IsFiniteSet(K), NEW k, \A x \in S : k[x] \in K,
         NEW f, \A x \in S : f[x] \in Int
  PROVE  SumFunctionOnSet([t \in K |-> SumFunctionOnSet(f, {x \in S : k[x] = t})], K)
           = SumFunctionOnSet(f, S)
<1> DEFINE Of(U, t) == {x \in U : k[x] = t}
           part(U) == [t \in K |-> SumFunctionOnSet(f, Of(U, t))]
           T == {U \in SUBSET S : SumFunctionOnSet(part(U), K) = SumFunctionOnSet(f, U)}
<1>1. ASSUME NEW U \in SUBSET S
      PROVE  \A t \in K : IsFiniteSet(Of(U, t)) /\ part(U)[t] = SumFunctionOnSet(f, Of(U, t)) /\ part(U)[t] \in Int
  <2> SUFFICES ASSUME NEW t \in K
               PROVE  IsFiniteSet(Of(U, t)) /\ part(U)[t] = SumFunctionOnSet(f, Of(U, t)) /\ part(U)[t] \in Int
    OBVIOUS
  <2>1. Of(U, t) \in SUBSET S /\ \A x \in Of(U, t) : f[x] \in Int
    OBVIOUS
  <2>2. part(U)[t] = SumFunctionOnSet(f, Of(U, t))
    OBVIOUS
  <2> HIDE DEF Of, part
  <2>3. IsFiniteSet(Of(U, t))
    BY <2>1, FS_Subset
  <2> QED BY <2>1, <2>2, <2>3, SumType
<1>2. {} \in T
  <2>1. \A j : SumFunctionOnSet(j, {}) = 0
    BY FS_EmptySet, SumUnfold
  <2>2. \A t \in K : Of({}, t) = {}
    OBVIOUS
  <2>3. \A t \in K : part({})[t] = 0
    <3> HIDE DEF Of, part
    <3> QED BY <1>1, <2>1, <2>2
  <2> HIDE DEF part
  <2>4. SumFunctionOnSet(part({}), K) = SumFunctionOnSet(part({}), {})
    BY <2>3, SumSubset
  <2> QED BY <2>1, <2>4
<1>3. ASSUME NEW U \in SUBSET S, U \in T, NEW x \in S \ U PROVE U \cup {x} \in T
  <2> DEFINE W == U \cup {x}
             e == k[x]
             g == part(U)
             h == part(W)
  <2>1. IsFiniteSet(U) /\ x \notin U /\ \A y \in U \cup {x} : f[y] \in Int
    BY FS_Subset
  <2>2. W \in SUBSET S /\ e \in K
    OBVIOUS
  <2>3. Of(W, e) = Of(U, e) \cup {x} /\ x \notin Of(U, e) /\ \A y \in Of(U, e) \cup {x} : f[y] \in Int
    OBVIOUS
  <2>4. \A t \in K \ {e} : Of(W, t) = Of(U, t)
    OBVIOUS
  <2>5. SumFunctionOnSet(g, K) = SumFunctionOnSet(f, U)
    BY <1>3
  <2>6. SumFunctionOnSet(f, W) = f[x] + SumFunctionOnSet(f, U)
    BY <2>1, SumAdd
  <2>7. \A t \in K : g[t] = SumFunctionOnSet(f, Of(U, t)) /\ g[t] \in Int /\ IsFiniteSet(Of(U, t))
    BY <1>1
  <2>8. \A t \in K : h[t] = SumFunctionOnSet(f, Of(W, t)) /\ h[t] \in Int
    <3> HIDE DEF W, Of, part
    <3> QED BY <1>1, <2>2
  <2> HIDE DEF W, e, g, h, Of, part
  <2>9. h[e] = f[x] + g[e]
    <3>1. SumFunctionOnSet(f, Of(U, e) \cup {x}) = f[x] + SumFunctionOnSet(f, Of(U, e))
      BY <2>2, <2>3, <2>7, SumAdd
    <3> QED BY <2>2, <2>3, <2>7, <2>8, <3>1
  <2>10. IsFiniteSet(K \ {e})
    BY FS_RemoveElement
  <2>11. SumFunctionOnSet(h, K \ {e}) = SumFunctionOnSet(g, K \ {e})
    <3>1. \A t \in K \ {e} : g[t] \in Int /\ h[t] = g[t]
      BY <2>4, <2>7, <2>8
    <3> QED BY <2>10, <3>1, SumEqual
  <2>12. SumFunctionOnSet(h, K) = h[e] + SumFunctionOnSet(h, K \ {e})
    BY <2>2, <2>8, SumRemove
  <2>13. SumFunctionOnSet(g, K) = g[e] + SumFunctionOnSet(g, K \ {e})
    BY <2>2, <2>7, SumRemove
  <2>14. SumFunctionOnSet(g, K \ {e}) \in Int
    BY <2>7, <2>10, SumType
  <2>15. f[x] \in Int /\ g[e] \in Int
    BY <2>2, <2>7
  <2> DEFINE rest == SumFunctionOnSet(g, K \ {e})
             total == SumFunctionOnSet(g, K)
  <2>16. SumFunctionOnSet(h, K) = f[x] + total
    <3>1. SumFunctionOnSet(h, K) = (f[x] + g[e]) + rest /\ total = g[e] + rest /\ rest \in Int
      BY <2>9, <2>11, <2>12, <2>13, <2>14
    <3> HIDE DEF rest, total
    <3> QED BY <2>15, <3>1
  <2>17. SumFunctionOnSet(h, K) = SumFunctionOnSet(f, W)
    BY <2>5, <2>6, <2>16
  <2> QED BY <2>2, <2>17 DEF W, h
<1>4. S \in T
  <2> HIDE DEF T
  <2> QED BY <1>2, <1>3, FiniteInduction
<1>5. part(S) = [t \in K |-> SumFunctionOnSet(f, {x \in S : k[x] = t})]
  OBVIOUS
<1> HIDE DEF part
<1> QED BY <1>4, <1>5

-----------------------------------------------------------------------------
(* Amounts.                                                                 *)

\* The product of naturals is a natural.
LEMMA NatProduct == \A a, b \in Nat : a * b \in Nat
OBVIOUS

\* The smaller of two naturals.
LEMMA LeastType == \A a, b \in Nat : Least(a, b) \in Nat /\ Least(a, b) <= a /\ Least(a, b) <= b
BY DEF Least

\* Rounding, of a hundredth or of a whole number.
LEMMA ToRialType == \A n \in Nat : ToRial(n, 100) \in Nat /\ ToRial(n, 1) \in Nat
BY DEF ToRial

\* The amount of a relief.
LEMMA ReliefType ==
  ASSUME NEW d \in ReliefRow, NEW base \in Nat
  PROVE  ReliefAmount(d, base) \in Nat
<1>1. d.value \in Nat
  BY DEF ReliefRow
<1>2. Least(d.value, 100) \in Nat
  BY <1>1, LeastType
<1>3. base * Least(d.value, 100) \in Nat
  BY <1>2, NatProduct
<1> QED BY <1>1, <1>3, ToRialType DEF ReliefAmount

\* What is left after each row, from what was left before it.
LeftSteps(amounts, last, total, left) ==
  [i \in 0..last |->
     IF i = 0 THEN total
     ELSE IF i \in DOMAIN amounts THEN left[i - 1] - Least(amounts[i], left[i - 1])
     ELSE left[i - 1]]

\* Those steps have a solution, and it stays in the naturals.
LEMMA LeftExists ==
  ASSUME NEW n \in Nat, NEW D \in SUBSET (1..n), NEW a \in [D -> Nat], NEW total \in Nat
  PROVE  \E left : left = LeftSteps(a, n, total, left)
<1> DEFINE step == [i \in 1..n |-> [x \in Nat |-> IF i \in D THEN x - Least(a[i], x) ELSE x]]
<1>1. step \in StepsIn(n, Nat)
  <2> SUFFICES ASSUME NEW i \in 1..n, NEW x \in Nat
               PROVE  (IF i \in D THEN x - Least(a[i], x) ELSE x) \in Nat
    BY DEF StepsIn
  <2>1. CASE i \in D
    <3>1. Least(a[i], x) \in Nat /\ Least(a[i], x) <= x
      BY <2>1, LeastType
    <3> QED BY <2>1, <3>1
  <2>2. CASE i \notin D
    BY <2>2
  <2> QED BY <2>1, <2>2
<1>2. \A i \in 1..n, x \in Nat : step[i][x] = IF i \in D THEN x - Least(a[i], x) ELSE x
  OBVIOUS
<1> HIDE DEF step
<1>3. PICK f : IsRecursion(f, n, Nat, total, step)
  BY <1>1, RecursionExists
<1>8. f \in [0..n -> Nat] /\ f[0] = total /\ \A i \in 1..n : f[i] = step[i][f[i - 1]]
  BY <1>3 DEF IsRecursion
<1> DEFINE g == LeftSteps(a, n, total, f)
<1>4. ASSUME NEW i \in 0..n PROVE g[i] = f[i]
  <2>1. CASE i = 0
    BY <1>8, <2>1 DEF LeftSteps
  <2>2. CASE i # 0
    <3>1. i \in 1..n /\ f[i - 1] \in Nat
      BY <1>8, <2>2
    <3>2. f[i] = IF i \in D THEN f[i - 1] - Least(a[i], f[i - 1]) ELSE f[i - 1]
      BY <1>2, <1>8, <3>1
    <3> QED BY <2>2, <3>2 DEF LeftSteps
  <2> QED BY <2>1, <2>2
<1>5. DOMAIN g = 0..n /\ g = [i \in 0..n |-> g[i]]
  BY DEF LeftSteps
<1>6. f = [i \in 0..n |-> f[i]]
  BY <1>8
<1> HIDE DEF g
<1>7. f = g
  BY <1>4, <1>5, <1>6
<1> QED BY <1>7 DEF g

\* What Apply computes: the total less what the amounts come to, up to the total;
\* the lines are parts of it.
LEMMA ApplyIsCapped ==
  ASSUME NEW n \in Nat, NEW D \in SUBSET (1..n), NEW a \in [D -> Nat], NEW total \in Nat
  PROVE  /\ Apply(a, n, total).left = total - Least(SumFunction(a), total)
         /\ Apply(a, n, total).left \in Nat
         /\ SumFunction(Apply(a, n, total).lines) = total - Apply(a, n, total).left
         /\ SumFunction(a) \in Nat
<1> DEFINE left == CHOOSE left : left = LeftSteps(a, n, total, left)
           lines == [i \in D |-> Least(a[i], left[i - 1])]
<1>1. Apply(a, n, total) = [left |-> left[n], lines |-> lines]
  BY DEF Apply, LeftSteps
<1>2. left = LeftSteps(a, n, total, left)
  BY LeftExists
<1>3. \A i \in D : lines[i] = Least(a[i], left[i - 1])
  OBVIOUS
<1>4. DOMAIN lines = D /\ DOMAIN a = D
  OBVIOUS
<1> HIDE DEF left, lines
<1>5. /\ left[0] = total
      /\ \A i \in 1..n : left[i] = IF i \in D THEN left[i - 1] - Least(a[i], left[i - 1]) ELSE left[i - 1]
  <2>1. \A i \in 0..n : left[i] = IF i = 0 THEN total
                                  ELSE IF i \in D THEN left[i - 1] - Least(a[i], left[i - 1])
                                  ELSE left[i - 1]
    BY <1>2 DEF LeftSteps
  <2> QED BY <2>1
<1> DEFINE T == {i \in Nat : i <= n => left[i] \in Nat}
           Upto(i) == {x \in D : x <= i}
           R == {i \in Nat : i <= n =>
                    /\ left[i] = total - Least(SumFunctionOnSet(a, Upto(i)), total)
                    /\ SumFunctionOnSet(lines, Upto(i)) = total - left[i]}
<1>6. \A i \in 0..n : left[i] \in Nat
  <2>1. 0 \in T
    BY <1>5
  <2>2. ASSUME NEW i \in Nat, i \in T PROVE i + 1 \in T
    <3> SUFFICES ASSUME i + 1 <= n PROVE left[i + 1] \in Nat
      OBVIOUS
    <3>1. left[i] \in Nat /\ i + 1 \in 1..n /\ (i + 1) - 1 = i
      BY <2>2
    <3>2. left[i + 1] = IF i + 1 \in D THEN left[i] - Least(a[i + 1], left[i]) ELSE left[i]
      BY <1>5, <3>1
    <3>3. i + 1 \in D => Least(a[i + 1], left[i]) \in Nat /\ Least(a[i + 1], left[i]) <= left[i]
      BY <3>1, LeastType
    <3> QED BY <3>1, <3>2, <3>3
  <2> HIDE DEF T
  <2>3. \A i \in Nat : i \in T
    BY <2>1, <2>2, AllNaturals
  <2> QED BY <2>3 DEF T
<1>7. \A i \in D : lines[i] \in Nat /\ a[i] \in Nat
  <2> SUFFICES ASSUME NEW i \in D PROVE lines[i] \in Nat /\ a[i] \in Nat
    OBVIOUS
  <2>1. i - 1 \in 0..n /\ a[i] \in Nat
    OBVIOUS
  <2> QED BY <1>3, <1>6, <2>1, LeastType
<1>17. \A x \in D : x \in Nat /\ x >= 1 /\ x <= n
  OBVIOUS
<1>8. IsFiniteSet(D) /\ \A i \in Nat : IsFiniteSet(Upto(i))
  <2>1. IsFiniteSet(1..n)
    BY FS_Interval
  <2> QED BY <2>1, FS_Subset
<1>9. 0 \in R
  <2>1. Upto(0) = {}
    <3>1. \A x \in D : ~(x <= 0)
      BY <1>17
    <3> QED BY <3>1
  <2>2. \A k : SumFunctionOnSet(k, {}) = 0
    BY FS_EmptySet, SumUnfold
  <2>3. Least(0, total) = 0
    BY DEF Least
  <2> HIDE DEF Upto
  <2>4. SumFunctionOnSet(a, Upto(0)) = 0 /\ SumFunctionOnSet(lines, Upto(0)) = 0
    BY <2>1, <2>2
  <2>5. left[0] = total - 0 /\ 0 = total - left[0]
    BY <1>5
  <2> QED BY <2>3, <2>4, <2>5
<1>10. ASSUME NEW i \in Nat, i \in R PROVE i + 1 \in R
  <2> SUFFICES ASSUME i + 1 <= n
               PROVE  /\ left[i + 1] = total - Least(SumFunctionOnSet(a, Upto(i + 1)), total)
                      /\ SumFunctionOnSet(lines, Upto(i + 1)) = total - left[i + 1]
    OBVIOUS
  <2> DEFINE s == SumFunctionOnSet(a, Upto(i))
  <2>1. left[i] = total - Least(s, total) /\ SumFunctionOnSet(lines, Upto(i)) = total - left[i]
    BY <1>10
  <2>2. left[i + 1] = IF i + 1 \in D THEN left[i] - Least(a[i + 1], left[i]) ELSE left[i]
    <3>1. i + 1 \in 1..n /\ (i + 1) - 1 = i
      OBVIOUS
    <3> QED BY <1>5, <3>1
  <2>3. CASE i + 1 \notin D
    <3>1. Upto(i + 1) = Upto(i)
      <4>1. \A x \in D : x <= i + 1 <=> x <= i
        BY <1>17, <2>3
      <4> QED BY <4>1
    <3> HIDE DEF Upto
    <3> QED BY <2>1, <2>2, <2>3, <3>1
  <2>4. CASE i + 1 \in D
    <3>1. Upto(i + 1) = Upto(i) \cup {i + 1} /\ i + 1 \notin Upto(i)
      <4>1. \A x \in D : x <= i + 1 <=> (x <= i \/ x = i + 1)
        BY <1>17
      <4>2. ~(i + 1 <= i)
        OBVIOUS
      <4> QED BY <2>4, <4>1, <4>2
    <3>2. \A x \in Upto(i) \cup {i + 1} : a[x] \in Int /\ lines[x] \in Int
      BY <1>7, <2>4
    <3>3. \A x \in Upto(i) : a[x] \in Nat
      BY <1>7
    <3> HIDE DEF Upto
    <3>4. IsFiniteSet(Upto(i))
      BY <1>8
    <3>5. SumFunctionOnSet(a, Upto(i + 1)) = a[i + 1] + s
      BY <3>1, <3>2, <3>4, SumAdd
    <3>6. SumFunctionOnSet(lines, Upto(i + 1)) = lines[i + 1] + SumFunctionOnSet(lines, Upto(i))
      BY <3>1, <3>2, <3>4, SumAdd
    <3>7. s \in Nat
      BY <3>3, <3>4, SumType
    <3>8. a[i + 1] \in Nat /\ lines[i + 1] = Least(a[i + 1], left[i]) /\ left[i] \in Nat
      <4>1. (i + 1) - 1 = i /\ i \in 0..n
        OBVIOUS
      <4> QED BY <1>3, <1>6, <1>7, <2>4, <4>1
    <3> HIDE DEF s
    <3>9. left[i + 1] = total - Least(a[i + 1] + s, total)
      <4>1. \A x, y, z \in Nat : (x - Least(y, x)) - Least(z, x - Least(y, x)) = x - Least(z + y, x)
        BY DEF Least
      <4> QED BY <2>1, <2>2, <2>4, <3>7, <3>8, <4>1
    <3>10. SumFunctionOnSet(lines, Upto(i + 1)) = total - left[i + 1]
      <4> DEFINE m == Least(a[i + 1], left[i])
      <4>1. m \in Nat
        BY <3>8, LeastType
      <4>2. SumFunctionOnSet(lines, Upto(i + 1)) = m + (total - left[i]) /\ left[i + 1] = left[i] - m
        BY <2>1, <2>2, <2>4, <3>6, <3>8
      <4> HIDE DEF m
      <4> QED BY <3>8, <4>1, <4>2
    <3> QED BY <3>5, <3>9, <3>10
  <2> QED BY <2>3, <2>4
<1> HIDE DEF R
<1>11. n \in R
  BY <1>9, <1>10, AllNaturals
<1>12. Upto(n) = D
  BY <1>17
<1>13. SumFunctionOnSet(a, D) \in Nat
  <2>1. \A x \in D : a[x] \in Int /\ a[x] \in Nat
    BY <1>7
  <2> QED BY <1>8, <2>1, SumType
<1>14. /\ left[n] = total - Least(SumFunctionOnSet(a, D), total)
       /\ SumFunctionOnSet(lines, D) = total - left[n]
  <2> HIDE DEF Upto
  <2> QED BY <1>11, <1>12 DEF R
<1>15. n \in 0..n
  OBVIOUS
<1>16. Apply(a, n, total).left = left[n] /\ Apply(a, n, total).lines = lines
  BY <1>1
<1> QED BY <1>4, <1>6, <1>13, <1>14, <1>15, <1>16 DEF SumFunction

-----------------------------------------------------------------------------
(* The rows of a relief.                                                    *)

\* The amounts of the rows of a term.
LEMMA AmountsType ==
  ASSUME NEW rows \in Seq(ReliefRow), NEW t, NEW base \in Nat
  PROVE  /\ Len(rows) \in Nat /\ OfTerm(rows, t) \in SUBSET (1..Len(rows))
         /\ AmountsOn(rows, t, base) \in [OfTerm(rows, t) -> Nat]
<1>1. Len(rows) \in Nat /\ DOMAIN rows = 1..Len(rows) /\ \A i \in 1..Len(rows) : rows[i] \in ReliefRow
  OBVIOUS
<1>2. OfTerm(rows, t) \in SUBSET (1..Len(rows))
  BY <1>1 DEF OfTerm
<1>3. \A i \in OfTerm(rows, t) : ReliefAmount(rows[i], base) \in Nat
  BY <1>1, <1>2, ReliefType
<1> QED BY <1>1, <1>2, <1>3 DEF AmountsOn

\* Rows of distinct places can be put in descending order of their ids.
LEMMA OrderExists ==
  ASSUME NEW rows \in Seq(ReliefRow)
  PROVE  \E p \in Bijection(DOMAIN rows, DOMAIN rows) :
           \A i, j \in DOMAIN rows : i < j => rows[p[i]].id >= rows[p[j]].id
<1> DEFINE D == DOMAIN rows
           id == [i \in D |-> rows[i].id]
           Before(i) == {j \in D : id[j] > id[i] \/ (id[j] = id[i] /\ j < i)}
           rank == [i \in D |-> Cardinality(Before(i)) + 1]
<1>1. D = 1..Len(rows) /\ Len(rows) \in Nat /\ \A i \in D : id[i] \in Nat /\ id[i] = rows[i].id /\ i \in Nat
  <2>1. D = 1..Len(rows) /\ Len(rows) \in Nat /\ \A i \in D : rows[i] \in ReliefRow
    OBVIOUS
  <2>2. \A i \in D : id[i] = rows[i].id
    OBVIOUS
  <2> HIDE DEF D, id
  <2>3. \A i \in D : rows[i].id \in Nat
    BY <2>1 DEF ReliefRow
  <2> QED BY <2>1, <2>2, <2>3
<1>2. IsFiniteSet(D) /\ Cardinality(D) = Len(rows)
  BY <1>1, FS_Interval
<1> HIDE DEF D, id
<1>3. \A i, j \in D : /\ i \in Before(j) => Before(i) \subseteq Before(j)
                      /\ i # j => (i \in Before(j) \/ j \in Before(i))
                      /\ i \notin Before(i)
  BY <1>1
<1>4. \A i \in D : rank[i] = Cardinality(Before(i)) + 1
  OBVIOUS
<1>5. \A i \in D : Before(i) \in SUBSET D
  OBVIOUS
<1>6. DOMAIN rank = D /\ rank = [i \in D |-> rank[i]]
  OBVIOUS
<1>7. \A i, j \in D : i \in Before(j) => id[i] >= id[j]
  BY <1>1
<1> HIDE DEF Before, rank
<1>8. \A i \in D : IsFiniteSet(Before(i)) /\ Cardinality(Before(i)) \in Nat
  BY <1>2, <1>5, FS_Subset, FS_CardinalityType
<1>9. \A i, j \in D : i \in Before(j) => rank[i] < rank[j]
  <2> SUFFICES ASSUME NEW i \in D, NEW j \in D, i \in Before(j) PROVE rank[i] < rank[j]
    OBVIOUS
  <2>1. Before(i) \in SUBSET Before(j) /\ Before(i) # Before(j)
    BY <1>3
  <2>2. Cardinality(Before(i)) <= Cardinality(Before(j)) /\ Cardinality(Before(j)) # Cardinality(Before(i))
    BY <1>8, <2>1, FS_Subset
  <2> QED BY <1>4, <1>8, <2>2
<1>10. \A i \in D : rank[i] \in D
  <2> SUFFICES ASSUME NEW i \in D PROVE rank[i] \in D
    OBVIOUS
  <2>1. Before(i) \in SUBSET D /\ Before(i) # D
    BY <1>3, <1>5
  <2>2. Cardinality(Before(i)) <= Len(rows) /\ Cardinality(Before(i)) # Len(rows)
    BY <1>2, <2>1, FS_Subset
  <2> QED BY <1>1, <1>4, <1>8, <2>2
<1>11. \A i, j \in D : rank[i] = rank[j] => i = j
  <2>1. \A i, j \in D : rank[i] \in Int /\ rank[j] \in Int
    BY <1>1, <1>10
  <2> QED BY <1>3, <1>9, <2>1
<1>12. rank \in Injection(D, D)
  BY <1>6, <1>10, <1>11 DEF Injection, IsInjective
<1>13. rank \in Surjection(D, D)
  BY <1>2, <1>12, FS_Injection
<1>14. \A k \in D : \E i \in D : rank[i] = k
  BY <1>13 DEF Surjection
<1> DEFINE p == [k \in D |-> CHOOSE i \in D : rank[i] = k]
<1>15. \A k \in D : p[k] \in D /\ rank[p[k]] = k
  BY <1>14
<1>16. p = [k \in D |-> p[k]] /\ DOMAIN p = D
  OBVIOUS
<1> HIDE DEF p
<1>17. \A i \in D : p[rank[i]] = i
  BY <1>10, <1>11, <1>15
<1>18. p \in Bijection(D, D)
  <2>1. p \in [D -> D]
    BY <1>15, <1>16
  <2>2. \A a, b \in D : p[a] = p[b] => a = b
    BY <1>15
  <2>3. \A i \in D : \E k \in D : p[k] = i
    BY <1>10, <1>17
  <2> QED BY <1>16, <2>1, <2>2, <2>3 DEF Bijection, Injection, Surjection, IsInjective
<1>19. ASSUME NEW i \in D, NEW j \in D, i < j PROVE rows[p[i]].id >= rows[p[j]].id
  <2>1. p[i] \in D /\ p[j] \in D /\ rank[p[i]] = i /\ rank[p[j]] = j
    BY <1>15
  <2>2. p[j] \notin Before(p[i]) /\ p[i] # p[j]
    <3>1. i \in Int /\ j \in Int
      BY <1>1
    <3>2. p[j] \in Before(p[i]) => j < i
      BY <1>9, <2>1
    <3>3. p[i] = p[j] => i = j
      BY <2>1
    <3> QED BY <1>19, <3>1, <3>2, <3>3
  <2>3. p[i] \in Before(p[j])
    BY <1>3, <2>1, <2>2
  <2>4. id[p[i]] >= id[p[j]]
    BY <1>7, <2>1, <2>3
  <2> QED BY <1>1, <2>1, <2>4
<1> QED BY <1>18, <1>19 DEF D

\* The order of the rows does not change what the amounts of a term come to.
LEMMA OrderKeepsAmounts ==
  ASSUME NEW rows \in Seq(ReliefRow), NEW t, NEW base \in Nat
  PROVE  /\ ById(rows) \in Seq(ReliefRow)
         /\ SumFunction(AmountsOn(ById(rows), t, base)) = SumFunction(AmountsOn(rows, t, base))
<1> DEFINE D == DOMAIN rows
           p == CHOOSE p \in Bijection(D, D) : \A i, j \in D : i < j => rows[p[i]].id >= rows[p[j]].id
           s == [i \in D |-> rows[p[i]]]
<1>1. ById(rows) = s
  BY DEF ById
<1>2. p \in Bijection(D, D)
  <2>1. \E q \in Bijection(D, D) : \A i, j \in D : i < j => rows[q[i]].id >= rows[q[j]].id
    BY OrderExists
  <2> QED BY <2>1
<1>3. D = 1..Len(rows) /\ Len(rows) \in Nat /\ \A i \in D : rows[i] \in ReliefRow
  OBVIOUS
<1>4. DOMAIN s = D /\ \A i \in D : s[i] = rows[p[i]]
  OBVIOUS
<1> HIDE DEF p
<1>5. /\ \A i \in D : p[i] \in D
      /\ \A i, j \in D : p[i] = p[j] => i = j
      /\ \A k \in D : \E i \in D : p[i] = k
  BY <1>2 DEF Bijection, Injection, Surjection, IsInjective
<1>6. s \in Seq(ReliefRow)
  <2>1. s \in [1..Len(rows) -> ReliefRow]
    BY <1>3, <1>5
  <2> HIDE DEF s
  <2> QED BY <1>3, <2>1
<1> HIDE DEF D, s
<1> DEFINE S == OfTerm(s, t)
           g == AmountsOn(s, t, base)
           f == AmountsOn(rows, t, base)
<1>7. S = {i \in D : rows[p[i]].term \in {0, t}} /\ OfTerm(rows, t) = {i \in D : rows[i].term \in {0, t}}
  <2>1. \A i \in D : s[i] = rows[p[i]]
    BY <1>4
  <2> QED BY <1>4, <2>1 DEF OfTerm, D
<1>8. {p[i] : i \in S} = OfTerm(rows, t)
  BY <1>5, <1>7
<1>9. S \subseteq D
  BY <1>7
<1>10. \A i \in S : g[i] = ReliefAmount(s[i], base) /\ s[i] = rows[p[i]] /\ p[i] \in OfTerm(rows, t)
  <2>1. \A i \in S : g[i] = ReliefAmount(s[i], base)
    BY DEF AmountsOn
  <2> HIDE DEF g, S
  <2> QED BY <1>4, <1>8, <1>9, <2>1
<1>11. \A i \in OfTerm(rows, t) : f[i] = ReliefAmount(rows[i], base) /\ f[i] \in Int
  <2>1. \A i \in OfTerm(rows, t) : f[i] = ReliefAmount(rows[i], base)
    BY DEF AmountsOn
  <2>2. f \in [OfTerm(rows, t) -> Nat]
    BY AmountsType
  <2> QED BY <2>1, <2>2
<1>12. DOMAIN g = S /\ DOMAIN f = OfTerm(rows, t)
  BY DEF AmountsOn
<1>13. IsFiniteSet(S)
  <2>1. IsFiniteSet(D)
    BY <1>3, FS_Interval
  <2> HIDE DEF S
  <2> QED BY <1>9, <2>1, FS_Subset
<1> HIDE DEF S, g, f
<1>14. \A i \in S : f[p[i]] \in Int /\ g[i] = f[p[i]]
  BY <1>10, <1>11
<1>15. \A i, j \in S : p[i] = p[j] => i = j
  BY <1>5, <1>9
<1>16. SumFunctionOnSet(g, S) = SumFunctionOnSet(f, {p[i] : i \in S})
  BY <1>13, <1>14, <1>15, SumImage
<1>17. SumFunction(g) = SumFunction(f)
  BY <1>8, <1>12, <1>16 DEF SumFunction
<1> QED BY <1>1, <1>6, <1>17 DEF g, f

\* The adjustment of a term: what the reliefs come to, and no more than the charges.
LEMMA AdjustmentIs ==
  ASSUME NEW t, NEW charges \in Nat, NEW ds \in Seq(ReliefRow), NEW ss \in Seq(ReliefRow)
  PROVE  LET a == TermAdjustment(t, charges, ds, ss)
             asked == SumFunction(AmountsOn(ds, t, charges))
             net == charges - Least(asked, charges)
             covered == SumFunction(AmountsOn(ss, t, net))
         IN /\ a.charges = charges
            /\ a.discounts = Least(asked, charges) /\ a.discounts \in Nat
            /\ net \in Nat
            /\ a.sponsorships = Least(covered, net) /\ a.sponsorships \in Nat
            /\ a.share = net - Least(covered, net) /\ a.share \in Nat
            /\ SumFunction(a.discountLines) = a.discounts
            /\ SumFunction(a.sponsorLines) = a.sponsorships
<1> DEFINE a == TermAdjustment(t, charges, ds, ss)
           asked == SumFunction(AmountsOn(ds, t, charges))
           net == charges - Least(asked, charges)
           covered == SumFunction(AmountsOn(ss, t, net))
           disc == Apply(AmountsOn(ds, t, charges), Len(ds), charges)
           spon == Apply(AmountsOn(ss, t, disc.left), Len(ss), disc.left)
<1>1. a = [charges |-> charges, discounts |-> charges - disc.left,
           sponsorships |-> disc.left - spon.left, share |-> spon.left,
           discountLines |-> disc.lines, sponsorLines |-> spon.lines]
  BY DEF TermAdjustment
<1>2. disc.left = net /\ net \in Nat /\ SumFunction(disc.lines) = charges - net /\ asked \in Nat
  <2>1. Len(ds) \in Nat /\ OfTerm(ds, t) \in SUBSET (1..Len(ds)) /\ AmountsOn(ds, t, charges) \in [OfTerm(ds, t) -> Nat]
    BY AmountsType
  <2> QED BY <2>1, ApplyIsCapped
<1> HIDE DEF disc, net
<1>3. spon.left = net - Least(covered, net) /\ spon.left \in Nat /\ SumFunction(spon.lines) = net - spon.left /\ covered \in Nat
  <2>1. /\ Len(ss) \in Nat /\ OfTerm(ss, t) \in SUBSET (1..Len(ss))
        /\ AmountsOn(ss, t, net) \in [OfTerm(ss, t) -> Nat]
    BY <1>2, AmountsType
  <2> QED BY <1>2, <2>1, ApplyIsCapped
<1>4. /\ a.charges = charges /\ a.discounts = charges - disc.left /\ a.sponsorships = disc.left - spon.left
      /\ a.share = spon.left /\ a.discountLines = disc.lines /\ a.sponsorLines = spon.lines
  BY <1>1
<1>5. Least(asked, charges) \in Nat /\ Least(covered, net) \in Nat /\ net = charges - Least(asked, charges)
  BY <1>2, <1>3, LeastType DEF net
<1> HIDE DEF a, spon, asked, covered
<1>6. /\ a.discounts = Least(asked, charges) /\ a.discounts \in Nat
      /\ a.sponsorships = Least(covered, net) /\ a.sponsorships \in Nat
  BY <1>2, <1>3, <1>4, <1>5
<1>7. SumFunction(a.discountLines) = a.discounts /\ SumFunction(a.sponsorLines) = a.sponsorships
  BY <1>2, <1>3, <1>4
<1> QED BY <1>2, <1>3, <1>4, <1>6, <1>7 DEF a, spon, asked, covered, net

-----------------------------------------------------------------------------
(* The formula and the buckets.                                             *)

\* The columns of a formula.
LEMMA FormulaTypes ==
  ASSUME NEW f \in Formula
  PROVE  /\ f.id \in Nat \ {0} /\ f.priority \in Int /\ f # NoFormula
         /\ f.fixed \in Nat /\ f.theory \in Nat /\ f.practical \in Nat /\ f.general \in Nat
<1>1. f \in FormulaRow
  BY AccountAssumption
<1>2. f.id # 0 /\ NoFormula.id = 0
  BY <1>1 DEF FormulaRow, NoFormula
<1> QED BY <1>1, <1>2 DEF FormulaRow

\* f comes before g, or is of the same rank, by priority and then by id.
Precedes(f, g) == f.priority < g.priority \/ (f.priority = g.priority /\ f.id <= g.id)

\* Better picks one of the two, and the one that precedes the other.
LEMMA BetterPrecedes ==
  ASSUME NEW f \in Formula, NEW g \in Formula
  PROVE  Better(f, g) \in {f, g} /\ Precedes(Better(f, g), f) /\ Precedes(Better(f, g), g)
<1>1. f.id \in Int /\ g.id \in Int /\ f.priority \in Int /\ g.priority \in Int
  BY FormulaTypes
<1>2. CASE Better(f, g) = f
  BY <1>1, <1>2 DEF Better, Precedes
<1>3. CASE Better(f, g) = g
  BY <1>1, <1>3 DEF Better, Precedes
<1>4. Better(f, g) = f \/ Better(f, g) = g
  BY DEF Better
<1> QED BY <1>2, <1>3, <1>4

\* To precede is transitive.
LEMMA PrecedesTransitive ==
  ASSUME NEW f \in Formula, NEW g \in Formula, NEW h \in Formula, Precedes(f, g), Precedes(g, h)
  PROVE  Precedes(f, h)
<1>1. /\ f.id \in Int /\ g.id \in Int /\ h.id \in Int
      /\ f.priority \in Int /\ g.priority \in Int /\ h.priority \in Int
  BY FormulaTypes
<1> QED BY <1>1 DEF Precedes

\* The best after a row, from the best before it.
NextBest(f, s, best) ==
  IF ~FormulaMatches(f, s) THEN best
  ELSE IF best = NoFormula THEN f ELSE Better(best, f)
BestSteps(rows, s, best) ==
  [i \in 0..Len(rows) |-> IF i = 0 THEN NoFormula ELSE NextBest(rows[i], s, best[i - 1])]

\* Those steps have a solution.
LEMMA BestExists ==
  ASSUME NEW rows \in Seq(Formula), NEW s
  PROVE  \E best : best = BestSteps(rows, s, best)
<1> DEFINE n == Len(rows)
           V == Formula \cup {NoFormula}
           step == [i \in 1..n |-> [x \in V |-> NextBest(rows[i], s, x)]]
<1>1. n \in Nat /\ \A i \in 1..n : rows[i] \in Formula
  OBVIOUS
<1>2. ASSUME NEW f \in Formula, NEW x \in V PROVE NextBest(f, s, x) \in V
  <2>1. CASE x = NoFormula
    BY <2>1 DEF NextBest
  <2>2. CASE x # NoFormula
    <3>1. x \in Formula
      BY <2>2
    <3>2. Better(x, f) \in V
      BY <3>1, BetterPrecedes
    <3> QED BY <3>1, <3>2 DEF NextBest
  <2> QED BY <2>1, <2>2
<1>3. NoFormula \in V
  OBVIOUS
<1> HIDE DEF V, n
<1>4. step \in StepsIn(n, V)
  BY <1>1, <1>2 DEF StepsIn
<1>5. \A i \in 1..n, x \in V : step[i][x] = NextBest(rows[i], s, x)
  OBVIOUS
<1> HIDE DEF step
<1>6. PICK f : IsRecursion(f, n, V, NoFormula, step)
  BY <1>1, <1>3, <1>4, RecursionExists
<1>7. f \in [0..n -> V] /\ f[0] = NoFormula /\ \A i \in 1..n : f[i] = step[i][f[i - 1]]
  BY <1>6 DEF IsRecursion
<1> DEFINE g == BestSteps(rows, s, f)
<1>8. ASSUME NEW i \in 0..n PROVE g[i] = f[i]
  <2>1. CASE i = 0
    BY <1>7, <2>1 DEF BestSteps, n
  <2>2. CASE i # 0
    <3>1. i \in 1..n /\ f[i - 1] \in V
      BY <1>1, <1>7, <2>2
    <3>2. f[i] = NextBest(rows[i], s, f[i - 1])
      BY <1>5, <1>7, <3>1
    <3> QED BY <2>2, <3>2 DEF BestSteps, n
  <2> QED BY <2>1, <2>2
<1>9. DOMAIN g = 0..n /\ g = [i \in 0..n |-> g[i]]
  BY DEF BestSteps, n
<1>10. f = [i \in 0..n |-> f[i]]
  BY <1>7
<1> HIDE DEF g
<1>11. f = g
  BY <1>8, <1>9, <1>10
<1> QED BY <1>11 DEF g

\* The formula picked matches, and precedes every other that does.
LEMMA PickPrecedes ==
  ASSUME NEW rows \in Seq(Formula), NEW s
  PROVE  LET picked == PickFormula(rows, s)
             matching == {i \in DOMAIN rows : FormulaMatches(rows[i], s)}
         IN /\ matching = {} => picked = NoFormula
            /\ matching # {} => /\ \E i \in matching : picked = rows[i]
                                /\ \A i \in matching : Precedes(picked, rows[i])
<1> DEFINE n == Len(rows)
           best == CHOOSE best : best = BestSteps(rows, s, best)
<1>1. n \in Nat /\ DOMAIN rows = 1..n /\ \A i \in 1..n : rows[i] \in Formula
  OBVIOUS
<1>2. PickFormula(rows, s) = best[n]
  BY DEF PickFormula, BestSteps, NextBest
<1>3. best = BestSteps(rows, s, best)
  BY BestExists
<1> HIDE DEF best, n
<1>4. best[0] = NoFormula /\ \A i \in 1..n : best[i] = NextBest(rows[i], s, best[i - 1])
  <2>1. \A i \in 0..n : best[i] = IF i = 0 THEN NoFormula ELSE NextBest(rows[i], s, best[i - 1])
    BY <1>3 DEF BestSteps, n
  <2> QED BY <1>1, <2>1
<1> DEFINE M(i) == {j \in 1..i : FormulaMatches(rows[j], s)}
           Best(i) == /\ M(i) = {} => best[i] = NoFormula
                      /\ M(i) # {} => /\ \E j \in M(i) : best[i] = rows[j]
                                      /\ \A j \in M(i) : Precedes(best[i], rows[j])
           T == {i \in Nat : i <= n => Best(i)}
<1>5. 0 \in T
  <2>1. M(0) = {}
    OBVIOUS
  <2> HIDE DEF M
  <2> QED BY <1>4, <2>1
<1>6. ASSUME NEW i \in Nat, i \in T PROVE i + 1 \in T
  <2> SUFFICES ASSUME i + 1 <= n PROVE Best(i + 1)
    OBVIOUS
  <2> DEFINE f == rows[i + 1]
  <2>1. i + 1 \in 1..n /\ (i + 1) - 1 = i /\ Best(i)
    BY <1>1, <1>6
  <2>2. best[i + 1] = NextBest(f, s, best[i]) /\ f \in Formula
    BY <1>1, <1>4, <2>1
  <2>3. \A j \in M(i) : rows[j] \in Formula
    BY <1>1, <2>1
  <2>4. CASE ~FormulaMatches(f, s)
    <3>1. M(i + 1) = M(i)
      <4>1. \A j \in 1..(i + 1) : j \in 1..i \/ j = i + 1
        OBVIOUS
      <4>2. \A j \in 1..i : j \in 1..(i + 1)
        OBVIOUS
      <4> QED BY <2>4, <4>1, <4>2
    <3>2. best[i + 1] = best[i]
      BY <2>2, <2>4 DEF NextBest
    <3> HIDE DEF M
    <3> QED BY <2>1, <3>1, <3>2
  <2>5. CASE FormulaMatches(f, s)
    <3>1. M(i + 1) = M(i) \cup {i + 1}
      <4>1. \A j \in 1..(i + 1) : j \in 1..i \/ j = i + 1
        OBVIOUS
      <4>2. \A j \in 1..i : j \in 1..(i + 1)
        OBVIOUS
      <4>3. i + 1 \in 1..(i + 1)
        OBVIOUS
      <4> QED BY <2>5, <4>1, <4>2, <4>3
    <3> HIDE DEF M
    <3>2. CASE M(i) = {}
      <4>1. best[i] = NoFormula
        BY <2>1, <3>2
      <4>2. best[i + 1] = f
        BY <2>2, <2>5, <4>1 DEF NextBest
      <4>3. Precedes(f, f)
        BY <2>2, FormulaTypes DEF Precedes
      <4>4. M(i + 1) = {i + 1}
        BY <3>1, <3>2
      <4> QED BY <4>2, <4>3, <4>4
    <3>3. CASE M(i) # {}
      <4>1. PICK k \in M(i) : best[i] = rows[k]
        BY <2>1, <3>3
      <4>2. \A j \in M(i) : Precedes(best[i], rows[j])
        BY <2>1, <3>3
      <4>3. best[i] \in Formula /\ best[i] # NoFormula
        BY <2>3, <4>1, FormulaTypes
      <4>4. best[i + 1] = Better(best[i], f)
        BY <2>2, <2>5, <4>3 DEF NextBest
      <4>5. best[i + 1] \in {best[i], f} /\ Precedes(best[i + 1], best[i]) /\ Precedes(best[i + 1], f)
        BY <2>2, <4>3, <4>4, BetterPrecedes
      <4>6. best[i + 1] \in Formula
        BY <2>2, <4>3, <4>5
      <4>7. \A j \in M(i) : Precedes(best[i + 1], rows[j])
        BY <2>3, <4>2, <4>3, <4>5, <4>6, PrecedesTransitive
      <4>8. \E j \in M(i + 1) : best[i + 1] = rows[j]
        <5>1. k \in M(i + 1) /\ i + 1 \in M(i + 1)
          BY <3>1
        <5> QED BY <4>1, <4>5, <5>1
      <4>9. \A j \in M(i + 1) : Precedes(best[i + 1], rows[j])
        BY <3>1, <4>5, <4>7
      <4> QED BY <3>1, <4>8, <4>9
    <3> QED BY <3>2, <3>3
  <2> QED BY <2>4, <2>5
<1> HIDE DEF T
<1>7. n \in T
  BY <1>1, <1>5, <1>6, AllNaturals
<1>8. Best(n)
  BY <1>1, <1>7 DEF T
<1> QED BY <1>1, <1>2, <1>8

\* The buckets of a course hold its units.
LEMMA BucketsHoldUnits ==
  ASSUME NEW c \in Course
  PROVE  LET b == BucketCourseUnits(c)
         IN /\ b.theory \in Nat /\ b.practical \in Nat /\ b.general \in Nat /\ c.units \in Nat
            /\ c.units = b.theory + (b.practical + b.general)
<1>1. c.units \in Nat /\ c.theory \in Nat /\ c.practical \in Nat
  BY AccountAssumption DEF CourseRow
<1>2. CASE c.general
  <2>1. BucketCourseUnits(c) = [theory |-> 0, practical |-> 0, general |-> c.units]
    BY <1>2 DEF BucketCourseUnits
  <2> QED BY <1>1, <2>1
<1>3. CASE ~c.general
  <2> DEFINE practical == Least(c.units, c.practical)
             theory == Least(c.units - practical, c.theory)
  <2>1. practical \in Nat /\ practical <= c.units
    BY <1>1, LeastType
  <2>2. theory \in Nat /\ theory <= c.units - practical
    <3>1. c.units - practical \in Nat
      BY <1>1, <2>1
    <3> HIDE DEF practical
    <3> QED BY <1>1, <3>1, LeastType
  <2>3. BucketCourseUnits(c) = [theory |-> theory + (c.units - practical - theory),
                                practical |-> practical, general |-> 0]
    BY <1>3 DEF BucketCourseUnits
  <2> HIDE DEF practical, theory
  <2> QED BY <1>1, <2>1, <2>2, <2>3
<1> QED BY <1>2, <1>3

\* The three buckets of a set of courses.
LEMMA TotalsType ==
  ASSUME NEW cs \in SUBSET Course
  PROVE  LET b == TotalBuckets(cs)
         IN /\ b.theory \in Nat /\ b.practical \in Nat /\ b.general \in Nat
            /\ b.theory + b.practical + b.general = SumFunction([c \in cs |-> c.units])
<1> DEFINE th == [c \in cs |-> BucketCourseUnits(c).theory]
           pr == [c \in cs |-> BucketCourseUnits(c).practical]
           ge == [c \in cs |-> BucketCourseUnits(c).general]
           rest == [c \in cs |-> pr[c] + ge[c]]
           un == [c \in cs |-> c.units]
<1>1. IsFiniteSet(cs)
  BY AccountAssumption, FS_Subset
<1>2. DOMAIN th = cs /\ DOMAIN pr = cs /\ DOMAIN ge = cs /\ DOMAIN un = cs
  OBVIOUS
<1>3. \A c \in cs : /\ th[c] \in Nat /\ pr[c] \in Nat /\ ge[c] \in Nat
                    /\ rest[c] = pr[c] + ge[c] /\ un[c] = th[c] + rest[c]
  BY BucketsHoldUnits
<1>4. TotalBuckets(cs) = [theory |-> SumFunction(th), practical |-> SumFunction(pr), general |-> SumFunction(ge)]
  BY DEF TotalBuckets
<1> HIDE DEF th, pr, ge, rest, un
<1>5. SumFunctionOnSet(rest, cs) = SumFunctionOnSet(pr, cs) + SumFunctionOnSet(ge, cs)
  <2>1. \A c \in cs : pr[c] \in Int /\ ge[c] \in Int /\ rest[c] = pr[c] + ge[c]
    BY <1>3
  <2> QED BY <1>1, <2>1, SumPlus
<1>6. SumFunctionOnSet(un, cs) = SumFunctionOnSet(th, cs) + SumFunctionOnSet(rest, cs)
  <2>1. \A c \in cs : th[c] \in Int /\ rest[c] \in Int /\ un[c] = th[c] + rest[c]
    BY <1>3
  <2> QED BY <1>1, <2>1, SumPlus
<1>7. /\ SumFunctionOnSet(th, cs) \in Nat /\ SumFunctionOnSet(pr, cs) \in Nat
      /\ SumFunctionOnSet(ge, cs) \in Nat
  <2>1. \A c \in cs : th[c] \in Int /\ pr[c] \in Int /\ ge[c] \in Int
    BY <1>3
  <2> QED BY <1>1, <1>3, <2>1, SumType
<1>8. /\ SumFunction(th) = SumFunctionOnSet(th, cs) /\ SumFunction(pr) = SumFunctionOnSet(pr, cs)
      /\ SumFunction(ge) = SumFunctionOnSet(ge, cs) /\ SumFunction(un) = SumFunctionOnSet(un, cs)
  BY <1>2 DEF SumFunction
<1> QED BY <1>4, <1>5, <1>6, <1>7, <1>8 DEF un

\* The tuition of a formula is a natural number of Rials.
LEMMA TuitionType ==
  ASSUME NEW f \in Formula, NEW cs \in SUBSET Course
  PROVE  TuitionFromFormula(f, TotalBuckets(cs)) \in Nat
<1> DEFINE b == TotalBuckets(cs)
<1>1. b.theory \in Nat /\ b.practical \in Nat /\ b.general \in Nat
  BY TotalsType
<1> HIDE DEF b
<1>2. f.fixed \in Nat /\ f.theory \in Nat /\ f.practical \in Nat /\ f.general \in Nat
  BY FormulaTypes
<1>3. b.theory * f.theory \in Nat /\ b.practical * f.practical \in Nat /\ b.general * f.general \in Nat
  BY <1>1, <1>2, NatProduct
<1>4. b.theory * f.theory + b.practical * f.practical + b.general * f.general \in Nat
  <2>1. \A x, y, z \in Nat : x + y + z \in Nat
    OBVIOUS
  <2> QED BY <1>3, <2>1
<1>5. /\ ToRial(f.fixed, 1) \in Nat
      /\ ToRial(b.theory * f.theory + b.practical * f.practical + b.general * f.general, 1) \in Nat
  BY <1>2, <1>4, ToRialType
<1>6. TuitionFromFormula(f, b) \in Nat
  <2>1. \A x, y \in Nat : x + y \in Nat
    OBVIOUS
  <2> QED BY <1>5, <2>1 DEF TuitionFromFormula
<1> QED BY <1>6 DEF b

-----------------------------------------------------------------------------
(* The state.                                                               *)

\* Every formula is among the rows the database returns.
AllFormulas == \A f \in Formula : \E i \in DOMAIN formulas : formulas[i] = f

\* The inductive invariant.
IInv == TypeOK /\ AllFormulas

\* The rows of cheques, loans, discounts and sponsorships.
LEMMA PaperTypes ==
  /\ \A c \in Cheque : c.term \in TermKey /\ c.amount \in Nat \ {0}
  /\ \A l \in Loan : l.term \in TermKey /\ l.amount \in Nat \ {0}
<1>1. Cheque \subseteq PaperRow /\ Loan \subseteq PaperRow
  BY AccountAssumption
<1>2. \A p \in PaperRow : p.term \in TermKey /\ p.amount \in Nat \ {0}
  BY DEF PaperRow
<1> QED BY <1>1, <1>2

\* An order of the formulas has them all.
LEMMA InitIInv == Init => IInv
<1> SUFFICES ASSUME Init PROVE IInv
  OBVIOUS
<1> DEFINE n == Cardinality(Formula)
<1>1. IsFiniteSet(Formula) /\ n \in Nat
  BY AccountAssumption, FS_CardinalityType
<1>2. formulas \in [1..n -> Formula] /\ \A i, j \in 1..n : i # j => formulas[i] # formulas[j]
  BY DEF Init, SetToSeqs
<1> HIDE DEF n
<1>3. formulas \in Injection(1..n, Formula)
  BY <1>2 DEF Injection, IsInjective
<1>4. IsFiniteSet(1..n) /\ Cardinality(1..n) = n
  BY <1>1, FS_Interval
<1>5. formulas \in Surjection(1..n, Formula)
  <2>1. Cardinality(1..n) = Cardinality(Formula)
    BY <1>4 DEF n
  <2> QED BY <1>1, <1>3, <2>1, FS_Injection
<1>6. AllFormulas
  BY <1>2, <1>5 DEF Surjection, AllFormulas
<1>7. formulas \in Seq(Formula)
  BY <1>1, <1>2
<1>8. /\ ledger \in Seq(LedgerRow) /\ discounts \in Seq(Discount) /\ sponsors \in Seq(Sponsorship)
      /\ taken \subseteq Course /\ student \in Student
  BY DEF Init
<1>9. /\ cheques \in [Cheque -> {"NONE", "PENDING", "CLEARED", "BOUNCED", "CANCELLED"}]
      /\ loans \in [Loan -> {"NONE", "ACTIVE", "SETTLED", "CANCELLED"}]
  BY DEF Init
<1> QED BY <1>6, <1>7, <1>8, <1>9 DEF IInv, TypeOK

\* A row of the right columns may be inserted into the ledger.
LEMMA InsertType ==
  ASSUME ledger \in Seq(LedgerRow), NEW t \in TermKey, NEW type \in ChargeType \union PaymentType,
         NEW amount \in Nat \ {0}, Insert(t, type, amount)
  PROVE  ledger' \in Seq(LedgerRow)
<1>1. [term |-> t, type |-> type, amount |-> amount] \in LedgerRow
  BY DEF LedgerRow
<1> QED BY <1>1, AppendProperties DEF Insert

\* A row may be added to what is in effect.
LEMMA AppendType ==
  ASSUME NEW R, NEW s \in Seq(R), NEW r \in R
  PROVE  Append(s, r) \in Seq(R)
BY AppendProperties

\* Every step keeps the invariant.
LEMMA StepIInv == IInv /\ [Next]_vars => IInv'
<1> SUFFICES ASSUME IInv, [Next]_vars PROVE IInv'
  OBVIOUS
<1>1. TypeOK /\ AllFormulas
  BY DEF IInv
<1>2. ASSUME NEW t \in TermKey, NEW type \in {"PAYMENT", "CHARGE"}, NEW a \in Amount, RecordLedger(t, type, a)
      PROVE  IInv'
  <2>1. type \in ChargeType \union PaymentType /\ a \in Nat \ {0}
    BY AccountAssumption DEF ChargeType, PaymentType
  <2>2. ledger' \in Seq(LedgerRow)
    BY <1>1, <1>2, <2>1, InsertType DEF RecordLedger, TypeOK
  <2> QED BY <1>1, <1>2, <2>2 DEF RecordLedger, TypeOK, AllFormulas, IInv
<1>3. ASSUME NEW t \in Term, ChargeByFormula(t) PROVE IInv'
  <2> DEFINE f == PickFormula(formulas, student)
             total == TuitionFromFormula(f, TotalBuckets(taken))
  <2>1. f # NoFormula /\ total > 0 /\ Insert(t, "TUITION_CHARGE", total)
    BY <1>3 DEF ChargeByFormula
  <2>2. formulas \in Seq(Formula) /\ taken \in SUBSET Course
    BY <1>1 DEF TypeOK
  <2>3. f \in Formula
    <3>1. \E i \in DOMAIN formulas : f = formulas[i]
      BY <2>1, <2>2, PickPrecedes
    <3> HIDE DEF f
    <3> QED BY <2>2, <3>1
  <2> HIDE DEF f
  <2>4. total \in Nat
    BY <2>2, <2>3, TuitionType
  <2> HIDE DEF total
  <2>5. total \in Nat \ {0} /\ t \in TermKey /\ "TUITION_CHARGE" \in ChargeType \union PaymentType
    BY <2>1, <2>4 DEF TermKey, ChargeType
  <2>6. ledger' \in Seq(LedgerRow)
    BY <1>1, <2>1, <2>5, InsertType DEF TypeOK
  <2> QED BY <1>1, <1>3, <2>6 DEF ChargeByFormula, TypeOK, AllFormulas, IInv
<1>4. ASSUME NEW d \in Discount, ApproveDiscount(d) PROVE IInv'
  <2>1. discounts' \in Seq(Discount)
    BY <1>1, <1>4, AppendType DEF ApproveDiscount, TypeOK
  <2> QED BY <1>1, <1>4, <2>1 DEF ApproveDiscount, TypeOK, AllFormulas, IInv
<1>5. ASSUME NEW s \in Sponsorship, ConfirmSponsorship(s) PROVE IInv'
  <2>1. sponsors' \in Seq(Sponsorship)
    BY <1>1, <1>5, AppendType DEF ConfirmSponsorship, TypeOK
  <2> QED BY <1>1, <1>5, <2>1 DEF ConfirmSponsorship, TypeOK, AllFormulas, IInv
<1>6. ASSUME NEW c \in Cheque, AwaitCheque(c) PROVE IInv'
  <2>1. cheques' \in [Cheque -> {"NONE", "PENDING", "CLEARED", "BOUNCED", "CANCELLED"}]
    BY <1>1, <1>6 DEF AwaitCheque, TypeOK
  <2> QED BY <1>1, <1>6, <2>1 DEF AwaitCheque, TypeOK, AllFormulas, IInv
<1>7. ASSUME NEW c \in Cheque, ClearCheque(c) PROVE IInv'
  <2>1. cheques' \in [Cheque -> {"NONE", "PENDING", "CLEARED", "BOUNCED", "CANCELLED"}]
    BY <1>1, <1>7 DEF ClearCheque, TypeOK
  <2>2. c.term \in TermKey /\ c.amount \in Nat \ {0} /\ "PAYMENT" \in ChargeType \union PaymentType
    BY PaperTypes DEF PaymentType
  <2>3. ledger' \in Seq(LedgerRow)
    BY <1>1, <1>7, <2>2, InsertType DEF ClearCheque, TypeOK
  <2> QED BY <1>1, <1>7, <2>1, <2>3 DEF ClearCheque, TypeOK, AllFormulas, IInv
<1>8. ASSUME NEW c \in Cheque, NEW to \in {"BOUNCED", "CANCELLED"}, RefuseCheque(c, to) PROVE IInv'
  <2>1. cheques' \in [Cheque -> {"NONE", "PENDING", "CLEARED", "BOUNCED", "CANCELLED"}]
    BY <1>1, <1>8 DEF RefuseCheque, TypeOK
  <2> QED BY <1>1, <1>8, <2>1 DEF RefuseCheque, TypeOK, AllFormulas, IInv
<1>9. ASSUME NEW l \in Loan, NEW to \in {"ACTIVE", "SETTLED", "CANCELLED"}, DecideLoan(l, to) PROVE IInv'
  <2>1. loans' \in [Loan -> {"NONE", "ACTIVE", "SETTLED", "CANCELLED"}]
    BY <1>1, <1>9 DEF DecideLoan, TypeOK
  <2> QED BY <1>1, <1>9, <2>1 DEF DecideLoan, TypeOK, AllFormulas, IInv
<1>10. ASSUME NEW c \in Course, TakeCourse(c) PROVE IInv'
  <2>1. taken' \subseteq Course
    BY <1>1, <1>10 DEF TakeCourse, TypeOK
  <2> QED BY <1>1, <1>10, <2>1 DEF TakeCourse, TypeOK, AllFormulas, IInv
<1>11. CASE UNCHANGED vars
  BY <1>1, <1>11 DEF vars, TypeOK, AllFormulas, IInv
<1> QED BY <1>2, <1>3, <1>4, <1>5, <1>6, <1>7, <1>8, <1>9, <1>10, <1>11 DEF Next

\* Every reachable state satisfies the invariant.
LEMMA IInvHolds == Spec => []IInv
BY InitIInv, StepIInv, PTL DEF Spec

\* The tables of the account keep the types of their columns: no row of amount zero
\* enters the ledger, by any of the actions that insert one.
THEOREM AccountTypeOK == Spec => []TypeOK
<1>1. IInv => TypeOK
  BY DEF IInv
<1> QED BY <1>1, IInvHolds, PTL

-----------------------------------------------------------------------------
(* The properties of every state.                                           *)

\* Whatever rows the database returns first, the formula that charges the student is
\* the one that precedes all others that match (pickFormula).
THEOREM FormulaIsDeterminedHolds == Spec => []FormulaIsDetermined
<1>1. ASSUME IInv PROVE FormulaIsDetermined
  <2> DEFINE matching == {f \in Formula : FormulaMatches(f, student)}
             places == {i \in DOMAIN formulas : FormulaMatches(formulas[i], student)}
             picked == PickFormula(formulas, student)
  <2>1. formulas \in Seq(Formula) /\ AllFormulas
    BY <1>1 DEF IInv, TypeOK
  <2>2. \A i \in DOMAIN formulas : formulas[i] \in Formula
    BY <2>1
  <2>3. /\ places = {} => picked = NoFormula
        /\ places # {} => /\ \E i \in places : picked = formulas[i]
                          /\ \A i \in places : Precedes(picked, formulas[i])
    BY <2>1, PickPrecedes
  <2>4. \A i \in places : formulas[i] \in matching
    BY <2>2
  <2>5. \A f \in matching : \E i \in places : formulas[i] = f
    <3> SUFFICES ASSUME NEW f \in matching PROVE \E i \in places : formulas[i] = f
      OBVIOUS
    <3>1. PICK i \in DOMAIN formulas : formulas[i] = f
      BY <2>1 DEF AllFormulas
    <3> QED BY <3>1
  <2>6. \A f \in matching : f \in Formula
    OBVIOUS
  <2> HIDE DEF places, picked, matching
  <2>7. CASE matching = {}
    <3>1. places = {}
      BY <2>4, <2>7
    <3>2. picked = NoFormula
      BY <2>3, <3>1
    <3> QED BY <2>7, <3>2 DEF FormulaIsDetermined, matching, picked
  <2>8. CASE matching # {}
    <3>1. places # {}
      BY <2>5, <2>8
    <3>2. picked \in matching
      BY <2>3, <2>4, <3>1
    <3>3. \A f \in matching : Precedes(picked, f)
      BY <2>3, <2>5, <3>1
    <3>4. \A f \in matching : \/ f.priority > picked.priority
                              \/ f.priority = picked.priority /\ f.id >= picked.id
      <4> SUFFICES ASSUME NEW f \in matching
                   PROVE  f.priority > picked.priority \/ (f.priority = picked.priority /\ f.id >= picked.id)
        OBVIOUS
      <4>1. f.priority \in Int /\ picked.priority \in Int /\ f.id \in Int /\ picked.id \in Int
        BY <2>6, <3>2, FormulaTypes
      <4>2. Precedes(picked, f)
        BY <3>3
      <4> QED BY <4>1, <4>2 DEF Precedes
    <3> QED BY <2>8, <3>2, <3>4 DEF FormulaIsDetermined, matching, picked
  <2> QED BY <2>7, <2>8
<1> QED BY <1>1, IInvHolds, PTL

\* No unit of a course is lost or charged twice by its split into three buckets
\* (bucketCourseUnits, totalBuckets).
THEOREM EveryUnitIsChargedHolds == Spec => []EveryUnitIsCharged
<1>1. ASSUME IInv PROVE EveryUnitIsCharged
  <2>1. taken \in SUBSET Course
    BY <1>1 DEF IInv, TypeOK
  <2> QED BY <2>1, TotalsType DEF EveryUnitIsCharged
<1> QED BY <1>1, IInvHolds, PTL

\* The sums of the ledger.
LEMMA LedgerSums ==
  ASSUME TypeOK, NEW t, NEW types
  PROVE  SumOfAmounts(RowsOf(t, types)) \in Nat
<1> DEFINE f == [i \in DOMAIN ledger |-> ledger[i].amount]
           R == RowsOf(t, types)
<1>1. DOMAIN ledger = 1..Len(ledger) /\ Len(ledger) \in Nat /\ \A i \in DOMAIN ledger : ledger[i] \in LedgerRow
  BY DEF TypeOK
<1>2. R \in SUBSET (DOMAIN ledger)
  BY DEF RowsOf
<1>3. \A i \in DOMAIN ledger : f[i] \in Nat
  BY <1>1 DEF LedgerRow
<1>4. SumOfAmounts(R) = SumFunctionOnSet(f, R)
  BY DEF SumOfAmounts
<1> HIDE DEF R, f
<1>5. IsFiniteSet(R)
  <2>1. IsFiniteSet(DOMAIN ledger)
    BY <1>1, FS_Interval
  <2> QED BY <1>2, <2>1, FS_Subset
<1>6. \A i \in R : f[i] \in Int /\ f[i] \in Nat
  BY <1>2, <1>3
<1>7. SumFunctionOnSet(f, R) \in Nat
  BY <1>5, <1>6, SumType
<1> QED BY <1>4, <1>7 DEF R

\* The rows in effect are rows of reliefs.
LEMMA ReliefRows ==
  ASSUME TypeOK
  PROVE  discounts \in Seq(ReliefRow) /\ sponsors \in Seq(ReliefRow)
<1>1. discounts \in Seq(Discount) /\ sponsors \in Seq(Sponsorship)
  BY DEF TypeOK
<1>2. Discount \subseteq ReliefRow /\ Sponsorship \subseteq ReliefRow
  BY AccountAssumption
<1> QED BY <1>1, <1>2

\* The statement's adjustment of a term is what the reliefs come to, in any order.
LEMMA StatementAdjustment ==
  ASSUME TypeOK, NEW t
  PROVE  LET a == Adjustment(t)
             charges == SumOfAmounts(RowsOf(t, ChargeType))
             asked == SumFunction(AmountsOn(discounts, t, charges))
             net == charges - Least(asked, charges)
             covered == SumFunction(AmountsOn(sponsors, t, net))
         IN /\ a.charges = charges /\ charges \in Nat /\ net \in Nat
            /\ a.discounts = Least(asked, charges) /\ a.discounts \in Nat
            /\ a.sponsorships = Least(covered, net) /\ a.sponsorships \in Nat
            /\ a.share = net - Least(covered, net) /\ a.share \in Nat
            /\ SumFunction(a.discountLines) = a.discounts
            /\ SumFunction(a.sponsorLines) = a.sponsorships
            /\ a.share = TermAdjustment(t, charges, discounts, sponsors).share
<1> DEFINE charges == SumOfAmounts(RowsOf(t, ChargeType))
           asked == SumFunction(AmountsOn(discounts, t, charges))
           net == charges - Least(asked, charges)
           covered == SumFunction(AmountsOn(sponsors, t, net))
<1>1. charges \in Nat
  BY LedgerSums
<1>2. discounts \in Seq(ReliefRow) /\ sponsors \in Seq(ReliefRow)
  BY ReliefRows
<1>3. Adjustment(t) = TermAdjustment(t, charges, ById(discounts), ById(sponsors))
  BY DEF Adjustment
<1> HIDE DEF charges
<1>4. ById(discounts) \in Seq(ReliefRow) /\ SumFunction(AmountsOn(ById(discounts), t, charges)) = asked
  BY <1>1, <1>2, OrderKeepsAmounts
<1>5. net \in Nat
  BY <1>1, <1>2, AdjustmentIs
<1>6. ById(sponsors) \in Seq(ReliefRow) /\ SumFunction(AmountsOn(ById(sponsors), t, net)) = covered
  BY <1>2, <1>5, OrderKeepsAmounts
<1>7. LET a == TermAdjustment(t, charges, ById(discounts), ById(sponsors))
      IN /\ a.charges = charges
         /\ a.discounts = Least(asked, charges) /\ a.discounts \in Nat
         /\ a.sponsorships = Least(covered, net) /\ a.sponsorships \in Nat
         /\ a.share = net - Least(covered, net) /\ a.share \in Nat
         /\ SumFunction(a.discountLines) = a.discounts
         /\ SumFunction(a.sponsorLines) = a.sponsorships
  <2> DEFINE asked2 == SumFunction(AmountsOn(ById(discounts), t, charges))
             net2 == charges - Least(asked2, charges)
             covered2 == SumFunction(AmountsOn(ById(sponsors), t, net2))
             a == TermAdjustment(t, charges, ById(discounts), ById(sponsors))
  <2>1. /\ a.charges = charges
        /\ a.discounts = Least(asked2, charges) /\ a.discounts \in Nat
        /\ a.sponsorships = Least(covered2, net2) /\ a.sponsorships \in Nat
        /\ a.share = net2 - Least(covered2, net2) /\ a.share \in Nat
        /\ SumFunction(a.discountLines) = a.discounts
        /\ SumFunction(a.sponsorLines) = a.sponsorships
    BY <1>1, <1>4, <1>6, AdjustmentIs
  <2>2. asked2 = asked /\ net2 = net /\ covered2 = covered
    BY <1>4, <1>6
  <2> HIDE DEF asked2, net2, covered2, asked, net, covered, a
  <2>3. /\ a.charges = charges
        /\ a.discounts = Least(asked, charges) /\ a.discounts \in Nat
        /\ a.sponsorships = Least(covered, net) /\ a.sponsorships \in Nat
        /\ a.share = net - Least(covered, net) /\ a.share \in Nat
        /\ SumFunction(a.discountLines) = a.discounts
        /\ SumFunction(a.sponsorLines) = a.sponsorships
    BY <2>1, <2>2
  <2> QED BY <2>3 DEF a
<1>8. TermAdjustment(t, charges, discounts, sponsors).share = net - Least(covered, net)
  BY <1>1, <1>2, AdjustmentIs
<1> HIDE DEF asked, net, covered
<1> QED BY <1>1, <1>3, <1>5, <1>7, <1>8 DEF charges, asked, net, covered

\* No term is relieved of more than it was charged, and what is covered is what the
\* rows of the discounts and sponsorships come to, up to that (applyDiscounts,
\* applySponsorships, computeTermAdjustments).
THEOREM ReliefIsCappedHolds == Spec => []ReliefIsCapped
<1>1. ASSUME IInv PROVE ReliefIsCapped
  <2> SUFFICES ASSUME NEW t \in TermKey
               PROVE  LET a == Adjustment(t)
                          asked == SumFunction(AmountsOn(discounts, t, a.charges))
                          net == a.charges - a.discounts
                          covered == SumFunction(AmountsOn(sponsors, t, net))
                      IN /\ a.discounts = Least(asked, a.charges)
                         /\ a.sponsorships = Least(covered, net)
                         /\ SumFunction(a.discountLines) = a.discounts
                         /\ SumFunction(a.sponsorLines) = a.sponsorships
                         /\ a.share = net - a.sponsorships
    BY DEF ReliefIsCapped
  <2>1. TypeOK
    BY <1>1 DEF IInv
  <2> QED BY <2>1, StatementAdjustment
<1> QED BY <1>1, IInvHolds, PTL

-----------------------------------------------------------------------------
(* The two reports.                                                         *)

\* The terms of an account are finitely many.
LEMMA TermsFinite == IsFiniteSet(TermKey)
BY AccountAssumption, FS_AddElement DEF TermKey

\* The amounts of papers, taken term by term, are the amounts of all of them.
LEMMA PapersByTerm ==
  ASSUME NEW papers, IsFiniteSet(papers), \A p \in papers : p.term \in TermKey /\ p.amount \in Nat
  PROVE  /\ SumOfPapers(papers) \in Int
         /\ \A t \in TermKey : SumOfPapers({p \in papers : p.term = t}) \in Int
         /\ SumFunctionOnSet([t \in TermKey |-> SumOfPapers({p \in papers : p.term = t})], TermKey)
              = SumOfPapers(papers)
<1> DEFINE k == [p \in papers |-> p.term]
           f == [p \in papers |-> p.amount]
           Of(t) == {p \in papers : p.term = t}
           g == [t \in TermKey |-> SumFunctionOnSet(f, {p \in papers : k[p] = t})]
           h == [t \in TermKey |-> SumOfPapers(Of(t))]
<1>1. /\ \A p \in papers : k[p] = p.term /\ k[p] \in TermKey
      /\ \A p \in papers : f[p] = p.amount /\ f[p] \in Nat /\ f[p] \in Int
  OBVIOUS
<1>2. SumOfPapers(papers) = SumFunctionOnSet(f, papers)
  BY DEF SumOfPapers, SumFunction
<1>3. ASSUME NEW t \in TermKey
      PROVE  SumOfPapers(Of(t)) = SumFunctionOnSet(f, {p \in papers : k[p] = t}) /\ SumOfPapers(Of(t)) \in Int
  <2> DEFINE R == Of(t)
             e == [p \in R |-> p.amount]
  <2>1. R \in SUBSET papers /\ R = {p \in papers : k[p] = t}
    OBVIOUS
  <2>2. SumOfPapers(R) = SumFunctionOnSet(e, R)
    BY DEF SumOfPapers, SumFunction
  <2>3. \A p \in R : e[p] = p.amount
    OBVIOUS
  <2> HIDE DEF R, e, f, k
  <2>4. IsFiniteSet(R) /\ \A p \in R : f[p] \in Int /\ e[p] = f[p]
    BY <1>1, <2>1, <2>3, FS_Subset
  <2>5. SumFunctionOnSet(e, R) = SumFunctionOnSet(f, R)
    BY <2>4, SumEqual
  <2>6. SumFunctionOnSet(f, R) \in Int
    BY <2>4, SumType
  <2> QED BY <2>1, <2>2, <2>5, <2>6 DEF R
<1> HIDE DEF k, f
<1>4. SumFunctionOnSet(g, TermKey) = SumFunctionOnSet(f, papers)
  <2>1. \A p \in papers : k[p] \in TermKey
    BY <1>1
  <2>2. \A p \in papers : f[p] \in Int
    BY <1>1
  <2> QED BY <2>1, <2>2, TermsFinite, SumParts
<1>5. \A t \in TermKey : g[t] = h[t] /\ h[t] \in Int
  BY <1>3
<1>6. SumFunctionOnSet(g, TermKey) = SumFunctionOnSet(h, TermKey)
  <2> HIDE DEF g, h
  <2> QED BY <1>5, TermsFinite, SumEqual
<1>7. SumFunctionOnSet(f, papers) \in Int
  <2>1. \A p \in papers : f[p] \in Int
    BY <1>1
  <2> QED BY <2>1, SumType
<1> HIDE DEF g
<1> QED BY <1>2, <1>3, <1>4, <1>6, <1>7

\* The share of a term as the worklist would have it for all its charges together.
ShareOf(t) == TermAdjustment(t, SumOfAmounts(RowsOf(t, ChargeType)), discounts, sponsors).share

\* A term that was never charged has no share.
LEMMA NoChargesNoShare ==
  ASSUME TypeOK, NEW t, RowsOf(t, ChargeType) = {}
  PROVE  ShareOf(t) = 0
<1> DEFINE charges == SumOfAmounts(RowsOf(t, ChargeType))
           asked == SumFunction(AmountsOn(discounts, t, charges))
           net == charges - Least(asked, charges)
           covered == SumFunction(AmountsOn(sponsors, t, net))
<1>1. charges = 0
  <2>1. \A f : SumFunctionOnSet(f, {}) = 0
    BY FS_EmptySet, SumUnfold
  <2> QED BY <2>1 DEF SumOfAmounts
<1>2. charges \in Nat /\ discounts \in Seq(ReliefRow) /\ sponsors \in Seq(ReliefRow)
  BY LedgerSums, ReliefRows
<1>3. ShareOf(t) = net - Least(covered, net) /\ ShareOf(t) \in Nat /\ net \in Nat
  <2>1. ShareOf(t) = TermAdjustment(t, charges, discounts, sponsors).share
    BY DEF ShareOf
  <2> HIDE DEF charges
  <2> QED BY <1>2, <2>1, AdjustmentIs
<1>4. Least(asked, charges) \in Nat /\ Least(covered, net) \in Nat
  <2>1. TermAdjustment(t, charges, discounts, sponsors).discounts = Least(asked, charges)
        /\ TermAdjustment(t, charges, discounts, sponsors).discounts \in Nat
    <3> HIDE DEF charges
    <3> QED BY <1>2, AdjustmentIs
  <2>2. TermAdjustment(t, charges, discounts, sponsors).sponsorships = Least(covered, net)
        /\ TermAdjustment(t, charges, discounts, sponsors).sponsorships \in Nat
    <3> HIDE DEF charges
    <3> QED BY <1>2, AdjustmentIs
  <2> QED BY <2>1, <2>2
<1> HIDE DEF asked, covered, charges
<1> QED BY <1>1, <1>2, <1>3, <1>4

\* The share of a term as the worklist has it.
EntryShare(t) == IF t \in Mixed THEN SplitShare(t) ELSE ShareOf(t)

\* A share of the worklist is a number.
LEMMA WorklistShareType ==
  ASSUME TypeOK, NEW e
  PROVE  WorklistShare(e) \in Nat
<1> DEFINE charges == SumOfAmounts(RowsOf(e.term, {e.type}))
<1>1. charges \in Nat /\ discounts \in Seq(ReliefRow) /\ sponsors \in Seq(ReliefRow)
  BY LedgerSums, ReliefRows
<1>2. WorklistShare(e) = TermAdjustment(e.term, charges, discounts, sponsors).share
  BY DEF WorklistShare
<1> HIDE DEF charges
<1> QED BY <1>1, <1>2, AdjustmentIs

\* The sum over one element, and over two.
LEMMA SumOfOne ==
  ASSUME NEW f, NEW x, f[x] \in Int
  PROVE  SumFunctionOnSet(f, {x}) = f[x]
<1>1. SumFunctionOnSet(f, {}) = 0
  BY FS_EmptySet, SumUnfold
<1>2. SumFunctionOnSet(f, {} \cup {x}) = f[x] + SumFunctionOnSet(f, {})
  BY FS_EmptySet, SumAdd
<1>3. {} \cup {x} = {x}
  OBVIOUS
<1> QED BY <1>1, <1>2, <1>3

\* Likewise.
LEMMA SumOfTwo ==
  ASSUME NEW f, NEW x, NEW y, x # y, f[x] \in Int, f[y] \in Int
  PROVE  SumFunctionOnSet(f, {x, y}) = f[x] + f[y]
<1>1. SumFunctionOnSet(f, {x}) = f[x]
  BY SumOfOne
<1>2. IsFiniteSet({x})
  BY FS_Singleton
<1>3. SumFunctionOnSet(f, {x} \cup {y}) = f[y] + SumFunctionOnSet(f, {x})
  BY <1>2, SumAdd
<1>4. {x, y} = {x} \cup {y}
  OBVIOUS
<1>5. SumFunctionOnSet(f, {x, y}) = SumFunctionOnSet(f, {x} \cup {y})
  BY <1>4, Zenon
<1>6. SumFunctionOnSet(f, {x, y}) = f[y] + f[x]
  BY <1>1, <1>3, <1>5, Zenon
<1> QED BY <1>6

\* The worklist's shares, entry by entry, are the shares of the terms, those of a
\* term charged in both types relieved type by type.
LEMMA SharesOfEntries ==
  ASSUME TypeOK
  PROVE  SumFunction([e \in WorklistEntries |-> WorklistShare(e)])
           = SumFunctionOnSet([t \in TermKey |-> EntryShare(t)], TermKey)
<1> DEFINE E == WorklistEntries
           p == [e \in E |-> e.term]
           g == [e \in E |-> WorklistShare(e)]
           f == [t \in TermKey |-> EntryShare(t)]
<1>1. \A e \in E : /\ e.term \in TermKey /\ e.type \in ChargeType
                   /\ e = [term |-> e.term, type |-> e.type]
                   /\ \E i \in DOMAIN ledger : ledger[i].term = e.term /\ ledger[i].type = e.type
  <2> SUFFICES ASSUME NEW e \in E
               PROVE  /\ e.term \in TermKey /\ e.type \in ChargeType
                      /\ e = [term |-> e.term, type |-> e.type]
                      /\ \E i \in DOMAIN ledger : ledger[i].term = e.term /\ ledger[i].type = e.type
    OBVIOUS
  <2>1. PICK t \in TermKey, y \in ChargeType : e = [term |-> t, type |-> y]
    BY DEF WorklistEntries
  <2>2. PICK i \in DOMAIN ledger : e = [term |-> ledger[i].term, type |-> ledger[i].type]
    BY DEF WorklistEntries
  <2>3. e.term = t /\ e.type = y
    BY <2>1
  <2>4. e.term = ledger[i].term /\ e.type = ledger[i].type
    BY <2>2
  <2> QED BY <2>1, <2>3, <2>4
<1>2. \A t \in TermKey, i \in DOMAIN ledger :
        ledger[i].term = t /\ ledger[i].type \in ChargeType => [term |-> t, type |-> ledger[i].type] \in E
  <2> SUFFICES ASSUME NEW t \in TermKey, NEW i \in DOMAIN ledger, ledger[i].term = t,
                      ledger[i].type \in ChargeType
               PROVE  [term |-> t, type |-> ledger[i].type] \in E
    OBVIOUS
  <2> DEFINE r == ledger[i]
             y == ledger[i].type
  <2>1. r \in {ledger[j] : j \in DOMAIN ledger}
    OBVIOUS
  <2>2. [term |-> t, type |-> y] = [term |-> r.term, type |-> r.type]
    OBVIOUS
  <2>3. [term |-> t, type |-> y] \in {[term |-> u, type |-> z] : u \in TermKey, z \in ChargeType}
    OBVIOUS
  <2>4. [term |-> t, type |-> y] \in {[term |-> q.term, type |-> q.type] : q \in {ledger[j] : j \in DOMAIN ledger}}
    BY <2>1, <2>2
  <2> QED BY <2>3, <2>4 DEF WorklistEntries
<1>3. IsFiniteSet(E)
  <2>1. IsFiniteSet(TermKey \X ChargeType)
    <3>1. IsFiniteSet(ChargeType)
      <4>1. IsFiniteSet({"CHARGE"} \cup {"TUITION_CHARGE"})
        BY FS_Singleton, FS_AddElement
      <4>2. ChargeType = {"CHARGE"} \cup {"TUITION_CHARGE"}
        BY DEF ChargeType
      <4> QED BY <4>1, <4>2
    <3> QED BY <3>1, TermsFinite, FS_Product
  <2> DEFINE q == [e \in E |-> <<e.term, e.type>>]
  <2>2. q \in Injection(E, (TermKey \X ChargeType))
    <3>1. q \in [E -> (TermKey \X ChargeType)]
      BY <1>1
    <3>2. \A e, d \in E : q[e] = q[d] => e = d
      <4> SUFFICES ASSUME NEW e \in E, NEW d \in E, <<e.term, e.type>> = <<d.term, d.type>> PROVE e = d
        OBVIOUS
      <4> HIDE DEF E
      <4>1. e = [term |-> e.term, type |-> e.type] /\ d = [term |-> d.term, type |-> d.type]
        BY <1>1
      <4> QED BY <4>1
    <3> HIDE DEF q, E
    <3> QED BY <3>1, <3>2 DEF Injection, IsInjective
  <2> QED BY <2>1, <2>2, FS_Injection
<1>4. \A e \in E : p[e] = e.term /\ g[e] = WorklistShare(e)
  OBVIOUS
<1>5. DOMAIN g = E
  OBVIOUS
<1> DEFINE Of(t) == {e \in E : p[e] = t}
           part == [t \in TermKey |-> SumFunctionOnSet(g, {e \in E : p[e] = t})]
<1>6. \A e \in E : g[e] \in Int
  BY <1>4, WorklistShareType
<1>7. \A t \in TermKey, y \in ChargeType : [term |-> t, type |-> y] \in E <=> RowsOf(t, {y}) # {}
  <2> SUFFICES ASSUME NEW t \in TermKey, NEW y \in ChargeType
               PROVE  [term |-> t, type |-> y] \in E <=> RowsOf(t, {y}) # {}
    OBVIOUS
  <2> DEFINE e == [term |-> t, type |-> y]
  <2>1. e.term = t /\ e.type = y
    OBVIOUS
  <2> HIDE DEF E, e
  <2>2. ASSUME e \in E PROVE RowsOf(t, {y}) # {}
    BY <1>1, <2>1, <2>2 DEF RowsOf
  <2>3. ASSUME RowsOf(t, {y}) # {} PROVE e \in E
    <3>1. PICK i \in DOMAIN ledger : ledger[i].term = t /\ ledger[i].type = y
      BY <2>3 DEF RowsOf
    <3> QED BY <1>2, <3>1 DEF e
  <2> QED BY <2>2, <2>3 DEF e
<1>8. \A t \in TermKey : Of(t) = {[term |-> t, type |-> y] : y \in {z \in ChargeType : RowsOf(t, {z}) # {}}}
  <2> SUFFICES ASSUME NEW t \in TermKey
               PROVE  Of(t) = {[term |-> t, type |-> y] : y \in {z \in ChargeType : RowsOf(t, {z}) # {}}}
    OBVIOUS
  <2> DEFINE R == {[term |-> t, type |-> y] : y \in {z \in ChargeType : RowsOf(t, {z}) # {}}}
  <2> HIDE DEF E, p
  <2>1. ASSUME NEW e \in Of(t) PROVE e \in R
    <3>1. e \in E /\ e.term = t /\ e.type \in ChargeType /\ e = [term |-> t, type |-> e.type]
      BY <1>1, <1>4
    <3>2. RowsOf(t, {e.type}) # {}
      BY <1>7, <3>1
    <3> QED BY <3>1, <3>2
  <2>2. ASSUME NEW y \in ChargeType, RowsOf(t, {y}) # {} PROVE [term |-> t, type |-> y] \in Of(t)
    <3> DEFINE e == [term |-> t, type |-> y]
    <3>1. e \in E /\ e.term = t
      BY <1>7, <2>2
    <3> HIDE DEF e
    <3>2. e \in Of(t)
      BY <1>4, <3>1
    <3> QED BY <3>2 DEF e
  <2> QED BY <2>1, <2>2
<1>9. ASSUME NEW t \in TermKey PROVE part[t] = f[t] /\ f[t] \in Int
  <2> DEFINE c == [term |-> t, type |-> "CHARGE"]
             u == [term |-> t, type |-> "TUITION_CHARGE"]
             HasC == RowsOf(t, {"CHARGE"}) # {}
             HasU == RowsOf(t, {"TUITION_CHARGE"}) # {}
  <2>1. part[t] = SumFunctionOnSet(g, Of(t)) /\ f[t] = EntryShare(t)
    OBVIOUS
  <2>2. c # u /\ c.term = t /\ c.type = "CHARGE" /\ u.term = t /\ u.type = "TUITION_CHARGE"
    OBVIOUS
  <2>3. WorklistShare(c) \in Nat /\ WorklistShare(u) \in Nat
    BY WorklistShareType
  <2>4. /\ HasC => c \in E /\ g[c] = WorklistShare(c)
        /\ HasU => u \in E /\ g[u] = WorklistShare(u)
    <3>1. (HasC => c \in E) /\ (HasU => u \in E)
      BY <1>7 DEF ChargeType
    <3> HIDE DEF c, u, E, g
    <3> QED BY <1>4, <3>1
  <2>5. Of(t) = {[term |-> t, type |-> y] : y \in {z \in {"CHARGE", "TUITION_CHARGE"} : RowsOf(t, {z}) # {}}}
    BY <1>8 DEF ChargeType
  <2>6. /\ ~HasC /\ ~HasU => Of(t) = {}
        /\ HasC /\ ~HasU => Of(t) = {c}
        /\ ~HasC /\ HasU => Of(t) = {u}
        /\ HasC /\ HasU => Of(t) = {c, u}
    <3> HIDE DEF E, p, Of
    <3> QED BY <2>5
  <2>7. t \in Mixed <=> HasC /\ HasU
    BY DEF Mixed, ChargeType
  <2>8. /\ ~HasC => RowsOf(t, ChargeType) = RowsOf(t, {"TUITION_CHARGE"})
        /\ ~HasU => RowsOf(t, ChargeType) = RowsOf(t, {"CHARGE"})
    <3>1. \A i \in DOMAIN ledger : ledger[i].type \in ChargeType <=> ledger[i].type = "CHARGE" \/ ledger[i].type = "TUITION_CHARGE"
      BY DEF ChargeType
    <3> QED BY <3>1 DEF RowsOf
  <2>9. /\ ~HasC => ShareOf(t) = WorklistShare(u)
        /\ ~HasU => ShareOf(t) = WorklistShare(c)
    BY <2>2, <2>8 DEF ShareOf, WorklistShare
  <2>10. ~HasC /\ ~HasU => ShareOf(t) = 0
    BY <2>8, NoChargesNoShare
  <2>11. SplitShare(t) = WorklistShare(c) + WorklistShare(u)
    BY DEF SplitShare
  <2> HIDE DEF c, u, HasC, HasU, g, f, E, p, Of, part
  <2>12. CASE ~HasC /\ ~HasU
    <3>1. SumFunctionOnSet(g, {}) = 0
      BY FS_EmptySet, SumUnfold
    <3> QED BY <2>1, <2>6, <2>7, <2>10, <2>12, <3>1 DEF EntryShare
  <2>13. CASE HasC /\ ~HasU
    <3>1. g[c] \in Int
      BY <2>3, <2>4, <2>13
    <3>2. SumFunctionOnSet(g, {c}) = g[c]
      BY <3>1, SumOfOne
    <3> QED BY <2>1, <2>4, <2>6, <2>7, <2>9, <2>13, <3>1, <3>2 DEF EntryShare
  <2>14. CASE ~HasC /\ HasU
    <3>1. g[u] \in Int
      BY <2>3, <2>4, <2>14
    <3>2. SumFunctionOnSet(g, {u}) = g[u]
      BY <3>1, SumOfOne
    <3> QED BY <2>1, <2>4, <2>6, <2>7, <2>9, <2>14, <3>1, <3>2 DEF EntryShare
  <2>15. CASE HasC /\ HasU
    <3>1. g[c] \in Int /\ g[u] \in Int
      BY <2>3, <2>4, <2>15
    <3>2. SumFunctionOnSet(g, {c, u}) = g[c] + g[u]
      BY <2>2, <3>1, SumOfTwo
    <3> QED BY <2>1, <2>3, <2>4, <2>6, <2>7, <2>11, <2>15, <3>2 DEF EntryShare
  <2> QED BY <2>12, <2>13, <2>14, <2>15
<1>10. \A e \in E : p[e] \in TermKey
  BY <1>1, <1>4
<1> HIDE DEF E, g, f, p
<1>11. SumFunctionOnSet(part, TermKey) = SumFunctionOnSet(g, E)
  BY <1>3, <1>6, <1>10, TermsFinite, SumParts
<1> HIDE DEF part
<1>12. SumFunctionOnSet(part, TermKey) = SumFunctionOnSet(f, TermKey)
  BY <1>9, TermsFinite, SumEqual
<1> QED BY <1>5, <1>11, <1>12 DEF SumFunction, g, f, E

\* The worklist and the statement (listFinanceStudents, getStudentFinance) differ
\* by the reliefs that terms charged in both types get twice, and by nothing else:
\* for any rows and any orders.
THEOREM ReportsDifferByReliefHolds == Spec => []ReportsDifferByRelief
<1>1. ASSUME IInv PROVE ReportsDifferByRelief
  <2> DEFINE Cleared == {c \in DOMAIN cheques : cheques[c] = "CLEARED"}
             Counted == {l \in DOMAIN loans : loans[l] \in {"ACTIVE", "SETTLED"}}
             balance == [t \in TermKey |-> TermBalance(t)]
             share == [t \in TermKey |-> ShareOf(t)]
             asked == [t \in TermKey |-> EntryShare(t)]
             twice == [t \in TermKey |-> IF t \in Mixed THEN ShareOf(t) - SplitShare(t) ELSE 0]
             more == [t \in Mixed |-> Adjustment(t).share - SplitShare(t)]
             paid == [t \in TermKey |-> SumOfAmounts(RowsOf(t, PaymentType))]
             chq == [t \in TermKey |-> SumOfPapers({c \in Cleared : c.term = t})]
             lent == [t \in TermKey |-> SumOfPapers({l \in Counted : l.term = t})]
             papers == [t \in TermKey |-> chq[t] + lent[t]]
             credit == [t \in TermKey |-> paid[t] + papers[t]]
  <2>1. TypeOK
    BY <1>1 DEF IInv
  <2>2. /\ Cleared \subseteq Cheque /\ Counted \subseteq Loan
        /\ \A t : ClearedCheques(t) = {c \in Cleared : c.term = t} /\ CountedLoans(t) = {l \in Counted : l.term = t}
    BY <2>1 DEF TypeOK, ClearedCheques, CountedLoans
  <2> HIDE DEF Cleared, Counted
  <2>3. /\ IsFiniteSet(Cleared) /\ \A c \in Cleared : c.term \in TermKey /\ c.amount \in Nat
        /\ IsFiniteSet(Counted) /\ \A l \in Counted : l.term \in TermKey /\ l.amount \in Nat
    <3>1. IsFiniteSet(Cleared) /\ IsFiniteSet(Counted)
      BY <2>2, AccountAssumption, FS_Subset
    <3>2. (\A c \in Cleared : c \in Cheque) /\ (\A l \in Counted : l \in Loan)
      BY <2>2
    <3> QED BY <3>1, <3>2, PaperTypes
  <2>4. /\ \A t \in TermKey : chq[t] \in Int
        /\ SumFunctionOnSet(chq, TermKey) = SumOfPapers(Cleared) /\ SumOfPapers(Cleared) \in Int
    BY <2>3, PapersByTerm
  <2>5. /\ \A t \in TermKey : lent[t] \in Int
        /\ SumFunctionOnSet(lent, TermKey) = SumOfPapers(Counted) /\ SumOfPapers(Counted) \in Int
    BY <2>3, PapersByTerm
  <2>6. \A t \in TermKey : paid[t] \in Int /\ paid[t] = SumOfAmounts(RowsOf(t, PaymentType))
    BY <2>1, LedgerSums
  <2>7. ASSUME NEW t \in TermKey
        PROVE  /\ balance[t] \in Int /\ share[t] \in Int
               /\ share[t] = balance[t] + credit[t] /\ credit[t] = paid[t] + papers[t]
               /\ papers[t] = chq[t] + lent[t]
    <3> DEFINE a == Adjustment(t)
    <3>1. /\ a.charges \in Nat /\ a.discounts \in Nat /\ a.sponsorships \in Nat
          /\ a.share = (a.charges - a.discounts) - a.sponsorships /\ a.share = ShareOf(t)
      BY <2>1, StatementAdjustment DEF ShareOf
    <3>2. TermBalance(t) = a.charges - a.discounts - a.sponsorships - paid[t] - chq[t] - lent[t]
      BY <2>2 DEF TermBalance
    <3>3. balance[t] = TermBalance(t) /\ share[t] = ShareOf(t) /\ credit[t] = paid[t] + papers[t]
          /\ papers[t] = chq[t] + lent[t]
      OBVIOUS
    <3> HIDE DEF a, balance, share, paid, chq, lent, papers, credit
    <3> QED BY <2>4, <2>5, <2>6, <3>1, <3>2, <3>3
  <2>8. StatementBalance = SumFunctionOnSet(balance, TermKey)
    BY DEF StatementBalance, SumFunction
  <2>9. ASSUME NEW t \in TermKey
        PROVE  /\ asked[t] \in Int /\ twice[t] \in Int /\ share[t] = asked[t] + twice[t]
               /\ t \in Mixed => twice[t] = more[t]
               /\ t \notin Mixed => twice[t] = 0
    <3>1. SplitShare(t) \in Nat
      BY <2>1, WorklistShareType DEF SplitShare
    <3>2. ShareOf(t) \in Nat /\ ShareOf(t) = Adjustment(t).share
      BY <2>1, StatementAdjustment DEF ShareOf
    <3>3. /\ asked[t] = EntryShare(t) /\ share[t] = ShareOf(t)
          /\ twice[t] = IF t \in Mixed THEN ShareOf(t) - SplitShare(t) ELSE 0
          /\ t \in Mixed => more[t] = Adjustment(t).share - SplitShare(t)
      OBVIOUS
    <3> HIDE DEF asked, share, twice, more
    <3> QED BY <3>1, <3>2, <3>3 DEF EntryShare
  <2>10. SumFunction([e \in WorklistEntries |-> WorklistShare(e)]) = SumFunctionOnSet(asked, TermKey)
    BY <2>1, SharesOfEntries
  <2>11. SumFunction([t \in TermKey |-> SumOfAmounts(RowsOf(t, PaymentType))]) = SumFunctionOnSet(paid, TermKey)
    BY DEF SumFunction
  <2>12. WorklistBalance = SumFunctionOnSet(asked, TermKey) - SumFunctionOnSet(paid, TermKey)
                           - SumOfPapers(Cleared) - SumOfPapers(Counted)
    BY <2>10, <2>11 DEF WorklistBalance, Cleared, Counted
  <2> DEFINE extra == SumFunction([t \in Mixed |-> Adjustment(t).share - SplitShare(t)])
  <2>13. Mixed \in SUBSET TermKey /\ extra = SumFunctionOnSet(more, Mixed)
    BY DEF Mixed, SumFunction
  <2> HIDE DEF balance, share, asked, twice, more, paid, chq, lent, papers, credit, extra
  <2>14. extra = SumFunctionOnSet(twice, TermKey) /\ extra \in Int
    <3>1. \A t \in Mixed : twice[t] \in Int /\ more[t] = twice[t]
      BY <2>9, <2>13
    <3>2. \A t \in TermKey \ Mixed : twice[t] = 0
      BY <2>9
    <3>3. IsFiniteSet(Mixed)
      BY <2>13, TermsFinite, FS_Subset
    <3>4. SumFunctionOnSet(more, Mixed) = SumFunctionOnSet(twice, Mixed)
      BY <3>1, <3>3, SumEqual
    <3>5. SumFunctionOnSet(twice, TermKey) = SumFunctionOnSet(twice, Mixed)
      BY <2>13, <3>1, <3>2, TermsFinite, SumSubset
    <3>6. SumFunctionOnSet(twice, Mixed) \in Int
      BY <3>1, <3>3, SumType
    <3> QED BY <2>13, <3>4, <3>5, <3>6
  <2>15. SumFunctionOnSet(share, TermKey) = SumFunctionOnSet(asked, TermKey) + SumFunctionOnSet(twice, TermKey)
    <3>1. \A t \in TermKey : asked[t] \in Int /\ twice[t] \in Int /\ share[t] = asked[t] + twice[t]
      BY <2>9
    <3> QED BY <3>1, TermsFinite, SumPlus
  <2>16. SumFunctionOnSet(asked, TermKey) \in Int
    <3>1. \A t \in TermKey : asked[t] \in Int
      BY <2>9
    <3> QED BY <3>1, TermsFinite, SumType
  <2>17. SumFunctionOnSet(papers, TermKey) = SumFunctionOnSet(chq, TermKey) + SumFunctionOnSet(lent, TermKey)
    <3>1. \A t \in TermKey : chq[t] \in Int /\ lent[t] \in Int /\ papers[t] = chq[t] + lent[t]
      BY <2>4, <2>5, <2>7
    <3> QED BY <3>1, TermsFinite, SumPlus
  <2>18. SumFunctionOnSet(credit, TermKey) = SumFunctionOnSet(paid, TermKey) + SumFunctionOnSet(papers, TermKey)
    <3>1. \A t \in TermKey : paid[t] \in Int /\ papers[t] \in Int /\ credit[t] = paid[t] + papers[t]
      BY <2>4, <2>5, <2>6, <2>7
    <3> QED BY <3>1, TermsFinite, SumPlus
  <2>19. SumFunctionOnSet(share, TermKey) = SumFunctionOnSet(balance, TermKey) + SumFunctionOnSet(credit, TermKey)
    <3>1. \A t \in TermKey : balance[t] \in Int /\ credit[t] \in Int /\ share[t] = balance[t] + credit[t]
      BY <2>4, <2>5, <2>6, <2>7
    <3> QED BY <3>1, TermsFinite, SumPlus
  <2>20. SumFunctionOnSet(balance, TermKey) \in Int /\ SumFunctionOnSet(paid, TermKey) \in Int
    <3>1. \A t \in TermKey : balance[t] \in Int
      BY <2>7
    <3>2. \A t \in TermKey : paid[t] \in Int
      BY <2>6
    <3> QED BY <3>1, <3>2, TermsFinite, SumType
  <2> DEFINE w == SumFunctionOnSet(asked, TermKey)
             b == SumFunctionOnSet(balance, TermKey)
             d == SumFunctionOnSet(paid, TermKey)
             c == SumOfPapers(Cleared)
             l == SumOfPapers(Counted)
  <2>21. /\ WorklistBalance = w - d - c - l /\ StatementBalance = b
         /\ w + extra = b + (d + (c + l))
         /\ w \in Int /\ b \in Int /\ d \in Int /\ c \in Int /\ l \in Int /\ extra \in Int
    BY <2>4, <2>5, <2>8, <2>12, <2>17, <2>18, <2>19, <2>20, <2>14, <2>15, <2>16
  <2> HIDE DEF w, b, d, c, l
  <2>22. b - (w - d - c - l) = extra
    BY <2>21
  <2> QED BY <2>21, <2>22 DEF ReportsDifferByRelief, extra
<1> QED BY <1>1, IInvHolds, PTL
=============================================================================
