------------------------------- MODULE SumLemmas -------------------------------
(***************************************************************************)
(* Sums over finite sets, as the community module Functions defines them:  *)
(* SumFunctionOnSet(f, T) adds f[x] for the x of T, one after the other.   *)
(* The definition is a recursive function on the subsets of T; that there  *)
(* is such a function is proved by induction on their size.                *)
(***************************************************************************)
EXTENDS Integers, Functions, FiniteSetTheorems, WellFoundedInduction, TLAPS

Pick(s)   == CHOOSE x \in s : TRUE
Others(s) == s \ {Pick(s)}

\* On the sets of D, g is the sum of f.
Adds(g, f, D) ==
    \A s \in D : g[s] = IF s = {} THEN 0 ELSE f[Pick(s)] + g[Others(s)]

Small(T, n) == {s \in SUBSET T : Cardinality(s) <= n}

Numbers(f, T) == IsFiniteSet(T) /\ \A x \in T : f[x] \in Int

-----------------------------------------------------------------------------
\* Induction over the naturals, for a set of them.
LEMMA InductiveSet ==
    ASSUME NEW G, 0 \in G, \A n \in Nat : n \in G => n + 1 \in G
    PROVE  \A n \in Nat : n \in G
<1> DEFINE R == OpToRel(<, Nat)
           B == {n \in Nat : n \notin G}
<1> SUFFICES ASSUME B # {} PROVE FALSE
  OBVIOUS
<1>1. \E x \in B : \A y \in B : ~ (<<y, x>> \in R)
  <2>1. B \in SUBSET Nat
    OBVIOUS
  <2> HIDE DEF R, B
  <2> QED BY <2>1, NatLessThanWellFounded, WFMin DEF R
<1>2. \A x, y \in Nat : y < x => <<y, x>> \in R
  BY DEF OpToRel
<1> HIDE DEF R
<1>3. PICK x \in B : \A y \in B : ~ (<<y, x>> \in R)
  BY <1>1
<1>4. \A y \in B : ~ (y < x)
  BY <1>2, <1>3
<1>5. x \in Nat /\ x # 0 /\ x - 1 \in Nat /\ x - 1 < x
  OBVIOUS
<1>6. x - 1 \in G
  BY <1>4, <1>5
<1>7. (x - 1) + 1 \in G
  BY <1>5, <1>6
<1> QED BY <1>5, <1>7

\* A set without the element picked is smaller by one.
LEMMA FewerOthers ==
    ASSUME NEW s, IsFiniteSet(s), s # {}
    PROVE  /\ Pick(s) \in s /\ Others(s) \subseteq s
           /\ IsFiniteSet(Others(s))
           /\ Cardinality(s) \in Nat /\ Cardinality(Others(s)) = Cardinality(s) - 1
<1>1. Pick(s) \in s
  BY DEF Pick
<1> QED BY <1>1, FS_RemoveElement, FS_CardinalityType DEF Others

\* There is a sum of f on the sets of up to n elements, ...
LEMMA PartialSum ==
    ASSUME NEW T, NEW f, Numbers(f, T)
    PROVE  \A n \in Nat : \E g \in [Small(T, n) -> Int] : Adds(g, f, Small(T, n))
<1> DEFINE G == {n \in Nat : \E g \in [Small(T, n) -> Int] : Adds(g, f, Small(T, n))}
<1>0. \A s \in SUBSET T : IsFiniteSet(s) /\ Cardinality(s) \in Nat
  BY FS_Subset, FS_CardinalityType DEF Numbers
<1>1. 0 \in G
  <2> DEFINE g == [s \in Small(T, 0) |-> 0]
  <2>1. \A s \in Small(T, 0) : s = {}
    BY <1>0, FS_EmptySet DEF Small
  <2>2. g \in [Small(T, 0) -> Int] /\ Adds(g, f, Small(T, 0))
    BY <2>1 DEF Adds
  <2> QED BY <2>2
<1>2. ASSUME NEW n \in Nat, n \in G
      PROVE  n + 1 \in G
  <2>1. PICK g \in [Small(T, n) -> Int] : Adds(g, f, Small(T, n))
    BY <1>2
  <2> DEFINE h == [s \in Small(T, n + 1) |->
                     IF s = {} THEN 0 ELSE f[Pick(s)] + g[Others(s)]]
  <2>2. ASSUME NEW s \in Small(T, n + 1), s # {}
        PROVE  /\ Pick(s) \in T /\ f[Pick(s)] \in Int
               /\ Others(s) \in Small(T, n) /\ Others(s) \in Small(T, n + 1)
    <3>1. s \in SUBSET T /\ IsFiniteSet(s) /\ Cardinality(s) \in Nat /\ Cardinality(s) <= n + 1
      BY <1>0 DEF Small
    <3>2. /\ Pick(s) \in s /\ Others(s) \subseteq s
          /\ Cardinality(Others(s)) = Cardinality(s) - 1
      BY <2>2, <3>1, FewerOthers
    <3>3. Cardinality(Others(s)) <= n
      BY <3>1, <3>2
    <3>4. Cardinality(Others(s)) <= n + 1
      BY <1>0, <3>1, <3>2, <3>3
    <3> QED BY <3>1, <3>2, <3>3, <3>4 DEF Small, Numbers
  <2>3. \A s \in Small(T, n) : s \in Small(T, n + 1)
    BY <1>0 DEF Small
  <2>4. \A s \in Small(T, n) : h[s] = g[s]
    BY <2>1, <2>3 DEF Adds
  <2>5. h \in [Small(T, n + 1) -> Int]
    BY <2>2
  <2>6. Adds(h, f, Small(T, n + 1))
    BY <2>2, <2>4 DEF Adds
  <2> HIDE DEF h
  <2> QED BY <2>5, <2>6
<1> HIDE DEF G
<1>3. \A n \in Nat : n \in G
  BY <1>1, <1>2, InductiveSet
<1> QED BY <1>3 DEF G

\* ... hence one on all of them, ...
LEMMA SumExists ==
    ASSUME NEW T, NEW f, Numbers(f, T)
    PROVE  \E g \in [SUBSET T -> Int] : Adds(g, f, SUBSET T)
<1>1. Cardinality(T) \in Nat
  BY FS_CardinalityType DEF Numbers
<1>2. \A s \in SUBSET T : Cardinality(s) <= Cardinality(T)
  BY FS_Subset DEF Numbers
<1>3. Small(T, Cardinality(T)) = SUBSET T
  BY <1>2 DEF Small
<1>4. \E g \in [Small(T, Cardinality(T)) -> Int] : Adds(g, f, Small(T, Cardinality(T)))
  BY <1>1, PartialSum
<1> QED BY <1>3, <1>4

\* ... and only one.
LEMMA SumUnique ==
    ASSUME NEW T, NEW f, Numbers(f, T),
           NEW g, Adds(g, f, SUBSET T), NEW h, Adds(h, f, SUBSET T)
    PROVE  \A s \in SUBSET T : g[s] = h[s]
<1> DEFINE G == {n \in Nat : \A s \in Small(T, n) : g[s] = h[s]}
<1>0. \A s \in SUBSET T : IsFiniteSet(s) /\ Cardinality(s) \in Nat
  BY FS_Subset, FS_CardinalityType DEF Numbers
<1>1. 0 \in G
  <2>1. \A s \in Small(T, 0) : s = {} /\ s \in SUBSET T
    BY <1>0, FS_EmptySet DEF Small
  <2> QED BY <2>1 DEF Adds
<1>2. ASSUME NEW n \in Nat, n \in G
      PROVE  n + 1 \in G
  <2>1. ASSUME NEW s \in Small(T, n + 1)
        PROVE  g[s] = h[s]
    <3>1. s \in SUBSET T /\ IsFiniteSet(s) /\ Cardinality(s) \in Nat /\ Cardinality(s) <= n + 1
      BY <1>0 DEF Small
    <3>2. CASE s = {}
      BY <3>1, <3>2 DEF Adds
    <3>3. CASE s # {}
      <4>1. Others(s) \subseteq s /\ Cardinality(Others(s)) = Cardinality(s) - 1
        BY <3>1, <3>3, FewerOthers
      <4>2. Others(s) \in Small(T, n)
        BY <3>1, <4>1 DEF Small
      <4>3. g[Others(s)] = h[Others(s)]
        BY <1>2, <4>2
      <4> QED BY <3>1, <3>3, <4>3 DEF Adds
    <3> QED BY <3>2, <3>3
  <2> QED BY <2>1
<1> HIDE DEF G
<1>3. \A n \in Nat : n \in G
  BY <1>1, <1>2, InductiveSet
<1>4. ASSUME NEW s \in SUBSET T
      PROVE  g[s] = h[s]
  <2>1. s \in Small(T, Cardinality(s)) /\ Cardinality(s) \in Nat
    BY <1>0 DEF Small
  <2> QED BY <1>3, <2>1 DEF G
<1> QED BY <1>4

\* The sum of the community module is that one.
LEMMA SumIs ==
    ASSUME NEW T, NEW f, Numbers(f, T), NEW g, Adds(g, f, SUBSET T)
    PROVE  SumFunctionOnSet(f, T) = g[T]
<1> DEFINE Equation(h) ==
             h = [s \in SUBSET T |->
                    IF s = {} THEN 0
                    ELSE f[CHOOSE x \in s : TRUE] + h[s \ {CHOOSE x \in s : TRUE}]]
           k == [s \in SUBSET T |-> g[s]]
           iter == CHOOSE h : Equation(h)
<1>1. SumFunctionOnSet(f, T) = iter[T]
  BY DEF SumFunctionOnSet, FoldFunctionOnSet, MapThenFoldSet
<1>2. \A s \in SUBSET T : Others(s) \in SUBSET T
  BY DEF Others
<1>3. \A s \in SUBSET T : k[s] = IF s = {} THEN 0 ELSE f[Pick(s)] + k[Others(s)]
  BY <1>2 DEF Adds
<1>4. Equation(k)
  <2>1. \A s \in SUBSET T :
          k[s] = IF s = {} THEN 0
                 ELSE f[CHOOSE x \in s : TRUE] + k[s \ {CHOOSE x \in s : TRUE}]
    BY <1>3 DEF Pick, Others
  <2> DEFINE m == [s \in SUBSET T |->
                    IF s = {} THEN 0
                    ELSE f[CHOOSE x \in s : TRUE] + k[s \ {CHOOSE x \in s : TRUE}]]
  <2>2. \A s \in SUBSET T : k[s] = m[s]
    BY <2>1
  <2>3. DOMAIN k = SUBSET T /\ k = [s \in DOMAIN k |-> k[s]]
    OBVIOUS
  <2>4. DOMAIN m = SUBSET T /\ m = [s \in DOMAIN m |-> m[s]]
    OBVIOUS
  <2> HIDE DEF k, m
  <2>5. k = m
    BY <2>2, <2>3, <2>4
  <2> QED BY <2>5 DEF m
<1> HIDE DEF Equation
<1>5. Equation(iter)
  BY <1>4, Zenon
<1> HIDE DEF iter
<1>6. Adds(iter, f, SUBSET T)
  BY <1>5 DEF Equation, Adds, Pick, Others
<1>7. iter[T] = g[T]
  BY <1>6, SumUnique
<1> QED BY <1>1, <1>7

-----------------------------------------------------------------------------
(* What the models need of sums. *)

\* A sum of numbers is a number.
LEMMA SumType ==
    ASSUME NEW T, NEW f, Numbers(f, T)
    PROVE  SumFunctionOnSet(f, T) \in Int
<1>1. PICK g \in [SUBSET T -> Int] : Adds(g, f, SUBSET T)
  BY SumExists
<1>2. g[T] \in Int
  OBVIOUS
<1> QED BY <1>1, <1>2, SumIs

\* The sum of nothing is 0.
LEMMA SumEmpty ==
    ASSUME NEW f
    PROVE  SumFunctionOnSet(f, {}) = 0
<1>1. Numbers(f, {})
  BY FS_EmptySet DEF Numbers
<1>2. PICK g \in [SUBSET {} -> Int] : Adds(g, f, SUBSET {})
  BY <1>1, SumExists
<1>3. g[{}] = 0
  BY <1>2 DEF Adds
<1> QED BY <1>1, <1>2, <1>3, SumIs

\* A sum without one term, first the one the definition picks, ...
LEMMA SumPick ==
    ASSUME NEW T, NEW f, Numbers(f, T), T # {}
    PROVE  /\ Pick(T) \in T /\ Numbers(f, Others(T))
           /\ SumFunctionOnSet(f, T) = f[Pick(T)] + SumFunctionOnSet(f, Others(T))
<1>1. PICK g \in [SUBSET T -> Int] : Adds(g, f, SUBSET T)
  BY SumExists
<1>2. Pick(T) \in T /\ Others(T) \in SUBSET T /\ IsFiniteSet(Others(T))
  BY FewerOthers DEF Numbers
<1>3. Numbers(f, Others(T))
  BY <1>2 DEF Numbers
<1>4. Adds(g, f, SUBSET Others(T))
  BY <1>1, <1>2 DEF Adds
<1>5. /\ SumFunctionOnSet(f, T) = g[T]
      /\ SumFunctionOnSet(f, Others(T)) = g[Others(T)]
  BY <1>1, <1>3, <1>4, SumIs
<1>6. g[T] = f[Pick(T)] + g[Others(T)]
  BY <1>1 DEF Adds
<1> QED BY <1>2, <1>3, <1>5, <1>6

\* ... then any.
LEMMA SumWithout ==
    ASSUME NEW T, NEW f, Numbers(f, T), NEW a \in T
    PROVE  /\ Numbers(f, T \ {a})
           /\ SumFunctionOnSet(f, T) = f[a] + SumFunctionOnSet(f, T \ {a})
<1> DEFINE Splits(S) == \A b \in S : SumFunctionOnSet(f, S) = f[b] + SumFunctionOnSet(f, S \ {b})
           G == {n \in Nat : \A S \in Small(T, n) : Splits(S)}
<1>0. \A S \in SUBSET T : IsFiniteSet(S) /\ Cardinality(S) \in Nat /\ Numbers(f, S)
  BY FS_Subset, FS_CardinalityType DEF Numbers
<1>1. 0 \in G
  <2>1. \A S \in Small(T, 0) : S = {}
    BY <1>0, FS_EmptySet DEF Small
  <2> QED BY <2>1
<1>2. ASSUME NEW n \in Nat, n \in G
      PROVE  n + 1 \in G
  <2>1. ASSUME NEW S \in Small(T, n + 1), NEW b \in S
        PROVE  SumFunctionOnSet(f, S) = f[b] + SumFunctionOnSet(f, S \ {b})
    <3>1. /\ S \in SUBSET T /\ IsFiniteSet(S) /\ Cardinality(S) \in Nat
          /\ Cardinality(S) <= n + 1 /\ Numbers(f, S) /\ S # {}
      BY <1>0, <2>1 DEF Small
    <3>2. PICK p \in S : p = Pick(S)
      BY <3>1, FewerOthers
    <3>3. /\ SumFunctionOnSet(f, S) = f[p] + SumFunctionOnSet(f, S \ {p})
          /\ f[p] \in Int /\ f[b] \in Int
      BY <3>1, <3>2, SumPick DEF Others, Numbers
    <3>4. CASE b = p
      BY <3>3, <3>4
    <3>5. CASE b # p
      <4>1. /\ Cardinality(S \ {p}) = Cardinality(S) - 1
            /\ Cardinality(S \ {b}) = Cardinality(S) - 1
        BY <3>1, FS_RemoveElement
      <4>2. S \ {p} \in Small(T, n) /\ S \ {b} \in Small(T, n)
        BY <3>1, <4>1 DEF Small
      <4>3. SumFunctionOnSet(f, S \ {p}) = f[b] + SumFunctionOnSet(f, (S \ {p}) \ {b})
        BY <1>2, <3>5, <4>2
      <4>4. SumFunctionOnSet(f, S \ {b}) = f[p] + SumFunctionOnSet(f, (S \ {b}) \ {p})
        BY <1>2, <3>5, <4>2
      <4>5. SumFunctionOnSet(f, S \ {b}) = f[p] + SumFunctionOnSet(f, (S \ {p}) \ {b})
        <5>1. (S \ {p}) \ {b} = (S \ {b}) \ {p}
          OBVIOUS
        <5> QED BY <4>4, <5>1
      <4>6. (S \ {p}) \ {b} \in SUBSET T
        BY <3>1
      <4>7. SumFunctionOnSet(f, (S \ {p}) \ {b}) \in Int
        BY <1>0, <4>6, SumType
      <4> QED BY <3>3, <4>3, <4>5, <4>7
    <3> QED BY <3>4, <3>5
  <2> QED BY <2>1
<1> HIDE DEF G
<1>3. \A n \in Nat : n \in G
  BY <1>1, <1>2, InductiveSet
<1>4. Splits(T)
  <2>1. T \in Small(T, Cardinality(T)) /\ Cardinality(T) \in Nat
    BY <1>0 DEF Small
  <2> QED BY <1>3, <2>1 DEF G
<1>5. Numbers(f, T \ {a})
  BY <1>0
<1> QED BY <1>4, <1>5

\* The sum of larger terms is larger, ...
LEMMA SumMonotone ==
    ASSUME NEW T, NEW f, Numbers(f, T), NEW g, Numbers(g, T), \A x \in T : f[x] <= g[x]
    PROVE  SumFunctionOnSet(f, T) <= SumFunctionOnSet(g, T)
<1> DEFINE G == {n \in Nat : \A S \in Small(T, n) : SumFunctionOnSet(f, S) <= SumFunctionOnSet(g, S)}
<1>0. \A S \in SUBSET T : /\ IsFiniteSet(S) /\ Cardinality(S) \in Nat
                          /\ Numbers(f, S) /\ Numbers(g, S)
  BY FS_Subset, FS_CardinalityType DEF Numbers
<1>1. 0 \in G
  <2>1. \A S \in Small(T, 0) : S = {}
    BY <1>0, FS_EmptySet DEF Small
  <2> QED BY <2>1, SumEmpty
<1>2. ASSUME NEW n \in Nat, n \in G
      PROVE  n + 1 \in G
  <2>1. ASSUME NEW S \in Small(T, n + 1)
        PROVE  SumFunctionOnSet(f, S) <= SumFunctionOnSet(g, S)
    <3>1. /\ S \in SUBSET T /\ IsFiniteSet(S) /\ Cardinality(S) \in Nat
          /\ Cardinality(S) <= n + 1 /\ Numbers(f, S) /\ Numbers(g, S)
      BY <1>0 DEF Small
    <3>2. CASE S = {}
      BY <3>2, SumEmpty
    <3>3. CASE S # {}
      <4>1. /\ Pick(S) \in S /\ Others(S) \subseteq S
            /\ Cardinality(Others(S)) = Cardinality(S) - 1
        BY <3>1, <3>3, FewerOthers
      <4>2. Others(S) \in Small(T, n)
        BY <3>1, <4>1 DEF Small
      <4>3. SumFunctionOnSet(f, Others(S)) <= SumFunctionOnSet(g, Others(S))
        BY <1>2, <4>2
      <4>4. f[Pick(S)] <= g[Pick(S)] /\ f[Pick(S)] \in Int /\ g[Pick(S)] \in Int
        BY <3>1, <4>1 DEF Numbers
      <4>5. /\ SumFunctionOnSet(f, S) = f[Pick(S)] + SumFunctionOnSet(f, Others(S))
            /\ SumFunctionOnSet(g, S) = g[Pick(S)] + SumFunctionOnSet(g, Others(S))
            /\ Numbers(f, Others(S)) /\ Numbers(g, Others(S))
        BY <3>1, <3>3, SumPick
      <4>6. SumFunctionOnSet(f, Others(S)) \in Int /\ SumFunctionOnSet(g, Others(S)) \in Int
        BY <4>5, SumType
      <4> QED BY <4>3, <4>4, <4>5, <4>6
    <3> QED BY <3>2, <3>3
  <2> QED BY <2>1
<1> HIDE DEF G
<1>3. \A n \in Nat : n \in G
  BY <1>1, <1>2, InductiveSet
<1>4. T \in Small(T, Cardinality(T)) /\ Cardinality(T) \in Nat
  BY <1>0 DEF Small
<1> QED BY <1>3, <1>4 DEF G

\* ... that of the same terms the same.
LEMMA SumSame ==
    ASSUME NEW T, NEW f, Numbers(f, T), NEW g, \A x \in T : f[x] = g[x]
    PROVE  Numbers(g, T) /\ SumFunctionOnSet(f, T) = SumFunctionOnSet(g, T)
<1>1. Numbers(g, T)
  BY DEF Numbers
<1>2. (\A x \in T : f[x] <= g[x]) /\ (\A x \in T : g[x] <= f[x])
  BY DEF Numbers
<1>3. /\ SumFunctionOnSet(f, T) <= SumFunctionOnSet(g, T)
      /\ SumFunctionOnSet(g, T) <= SumFunctionOnSet(f, T)
  BY <1>1, <1>2, SumMonotone
<1>4. SumFunctionOnSet(f, T) \in Int /\ SumFunctionOnSet(g, T) \in Int
  BY <1>1, SumType
<1> QED BY <1>1, <1>3, <1>4

\* A sum of which one term changes.
LEMMA SumChange ==
    ASSUME NEW T, NEW f, Numbers(f, T), NEW a \in T,
           NEW g, g[a] \in Int, \A x \in T \ {a} : f[x] = g[x]
    PROVE  /\ Numbers(g, T)
           /\ SumFunctionOnSet(g, T) = SumFunctionOnSet(f, T) - f[a] + g[a]
<1>1. Numbers(g, T) /\ f[a] \in Int
  BY DEF Numbers
<1>2. /\ Numbers(f, T \ {a})
      /\ SumFunctionOnSet(f, T) = f[a] + SumFunctionOnSet(f, T \ {a})
      /\ SumFunctionOnSet(g, T) = g[a] + SumFunctionOnSet(g, T \ {a})
  BY <1>1, SumWithout
<1>3. SumFunctionOnSet(f, T \ {a}) = SumFunctionOnSet(g, T \ {a})
  BY <1>2, SumSame
<1>4. SumFunctionOnSet(f, T \ {a}) \in Int
  BY <1>2, SumType
<1> QED BY <1>1, <1>2, <1>3, <1>4

\* Terms that are zero add nothing; terms that are not negative add no less.
LEMMA SumZero ==
    ASSUME NEW T, NEW f, IsFiniteSet(T), \A x \in T : f[x] = 0
    PROVE  SumFunctionOnSet(f, T) = 0
<1> DEFINE G == {n \in Nat : \A S \in Small(T, n) : SumFunctionOnSet(f, S) = 0}
<1>0. \A S \in SUBSET T : IsFiniteSet(S) /\ Cardinality(S) \in Nat /\ Numbers(f, S)
  BY FS_Subset, FS_CardinalityType DEF Numbers
<1>1. 0 \in G
  <2>1. \A S \in Small(T, 0) : S = {}
    BY <1>0, FS_EmptySet DEF Small
  <2> QED BY <2>1, SumEmpty
<1>2. ASSUME NEW n \in Nat, n \in G
      PROVE  n + 1 \in G
  <2>1. ASSUME NEW S \in Small(T, n + 1), S # {}
        PROVE  SumFunctionOnSet(f, S) = 0
    <3>1. /\ S \in SUBSET T /\ IsFiniteSet(S) /\ Cardinality(S) \in Nat
          /\ Cardinality(S) <= n + 1 /\ Numbers(f, S)
      BY <1>0 DEF Small
    <3>2. /\ Pick(S) \in S /\ Others(S) \subseteq S
          /\ Cardinality(Others(S)) = Cardinality(S) - 1
      BY <2>1, <3>1, FewerOthers
    <3>3. Others(S) \in Small(T, n)
      BY <3>1, <3>2 DEF Small
    <3>4. SumFunctionOnSet(f, Others(S)) = 0 /\ f[Pick(S)] = 0
      BY <1>2, <3>1, <3>2, <3>3
    <3> QED BY <2>1, <3>1, <3>4, SumPick
  <2> QED BY <2>1, SumEmpty
<1> HIDE DEF G
<1>3. \A n \in Nat : n \in G
  BY <1>1, <1>2, InductiveSet
<1>4. T \in Small(T, Cardinality(T)) /\ Cardinality(T) \in Nat
  BY <1>0 DEF Small
<1> QED BY <1>3, <1>4 DEF G

\* Terms that are zero may be left out.
LEMMA SumSupport ==
    ASSUME NEW T, NEW f, Numbers(f, T), NEW S \in SUBSET T, \A x \in T \ S : f[x] = 0
    PROVE  Numbers(f, S) /\ SumFunctionOnSet(f, T) = SumFunctionOnSet(f, S)
<1> DEFINE Same(U) == SumFunctionOnSet(f, U) = SumFunctionOnSet(f, U \cap S)
           G == {n \in Nat : \A U \in Small(T, n) : Same(U)}
<1>0. \A U \in SUBSET T : IsFiniteSet(U) /\ Cardinality(U) \in Nat /\ Numbers(f, U)
  BY FS_Subset, FS_CardinalityType DEF Numbers
<1>1. 0 \in G
  <2>1. \A U \in Small(T, 0) : U = {} /\ U \cap S = {}
    BY <1>0, FS_EmptySet DEF Small
  <2>2. \A U \in Small(T, 0) : Same(U)
    BY <2>1
  <2> QED BY <2>2
<1>2. ASSUME NEW n \in Nat, n \in G
      PROVE  n + 1 \in G
  <2>1. ASSUME NEW U \in Small(T, n + 1), U # {}
        PROVE  SumFunctionOnSet(f, U) = SumFunctionOnSet(f, U \cap S)
    <3>1. /\ U \in SUBSET T /\ IsFiniteSet(U) /\ Cardinality(U) \in Nat
          /\ Cardinality(U) <= n + 1 /\ Numbers(f, U) /\ U \cap S \in SUBSET T
      BY <1>0, <2>1 DEF Small
    <3>2. PICK p \in U : p = Pick(U)
      BY <2>1, <3>1, FewerOthers
    <3>3. U \ {p} \in Small(T, n)
      <4>1. Cardinality(U \ {p}) = Cardinality(U) - 1
        BY <3>1, <3>2, FS_RemoveElement
      <4>2. U \ {p} \in SUBSET T
        BY <3>1
      <4> QED BY <3>1, <4>1, <4>2 DEF Small
    <3>4. SumFunctionOnSet(f, U \ {p}) = SumFunctionOnSet(f, (U \ {p}) \cap S)
      BY <1>2, <3>3
    <3>5. SumFunctionOnSet(f, U) = f[p] + SumFunctionOnSet(f, U \ {p})
      BY <3>1, <3>2, SumWithout
    <3>6. CASE p \in S
      <4>1. p \in U \cap S /\ (U \ {p}) \cap S = (U \cap S) \ {p}
        BY <3>2, <3>6
      <4>2. Numbers(f, U \cap S)
        BY <1>0, <3>1
      <4>3. SumFunctionOnSet(f, U \cap S) = f[p] + SumFunctionOnSet(f, (U \cap S) \ {p})
        BY <4>1, <4>2, SumWithout
      <4> QED BY <3>4, <3>5, <4>1, <4>3
    <3>7. CASE p \notin S
      <4>1. (U \ {p}) \cap S = U \cap S
        BY <3>7
      <4>2. f[p] = 0
        BY <3>1, <3>2, <3>7
      <4>3. SumFunctionOnSet(f, U \cap S) \in Int
        BY <1>0, <3>1, SumType
      <4> QED BY <3>4, <3>5, <4>1, <4>2, <4>3
    <3> QED BY <3>6, <3>7
  <2>2. {} \cap S = {}
    OBVIOUS
  <2> QED BY <2>1, <2>2
<1> HIDE DEF G
<1>3. \A n \in Nat : n \in G
  BY <1>1, <1>2, InductiveSet
<1>4. T \in Small(T, Cardinality(T)) /\ Cardinality(T) \in Nat
  BY <1>0 DEF Small
<1>5. SumFunctionOnSet(f, T) = SumFunctionOnSet(f, T \cap S)
  BY <1>3, <1>4 DEF G
<1>6. T \cap S = S /\ Numbers(f, S)
  BY <1>0
<1> QED BY <1>5, <1>6

\* Equal terms add up to a product.
LEMMA SumConstant ==
    ASSUME NEW T, NEW f, IsFiniteSet(T), NEW c \in Int, \A x \in T : f[x] = c
    PROVE  SumFunctionOnSet(f, T) = Cardinality(T) * c
<1> DEFINE G == {n \in Nat : \A S \in Small(T, n) : SumFunctionOnSet(f, S) = Cardinality(S) * c}
<1>0. \A S \in SUBSET T : IsFiniteSet(S) /\ Cardinality(S) \in Nat /\ Numbers(f, S)
  BY FS_Subset, FS_CardinalityType DEF Numbers
<1>1. 0 \in G
  <2>1. \A S \in Small(T, 0) : S = {} /\ Cardinality(S) = 0
    BY <1>0, FS_EmptySet DEF Small
  <2>2. 0 * c = 0
    OBVIOUS
  <2>3. \A S \in Small(T, 0) : SumFunctionOnSet(f, S) = Cardinality(S) * c
    BY <2>1, <2>2, SumEmpty
  <2> QED BY <2>3
<1>2. ASSUME NEW n \in Nat, n \in G
      PROVE  n + 1 \in G
  <2>1. ASSUME NEW S \in Small(T, n + 1), S # {}
        PROVE  SumFunctionOnSet(f, S) = Cardinality(S) * c
    <3>1. /\ S \in SUBSET T /\ IsFiniteSet(S) /\ Cardinality(S) \in Nat
          /\ Cardinality(S) <= n + 1 /\ Numbers(f, S)
      BY <1>0 DEF Small
    <3>2. /\ Pick(S) \in S /\ Others(S) \subseteq S
          /\ Cardinality(Others(S)) = Cardinality(S) - 1
      BY <2>1, <3>1, FewerOthers
    <3>3. Others(S) \in Small(T, n)
      BY <3>1, <3>2 DEF Small
    <3>4. SumFunctionOnSet(f, Others(S)) = (Cardinality(S) - 1) * c /\ f[Pick(S)] = c
      BY <1>2, <3>1, <3>2, <3>3
    <3>5. SumFunctionOnSet(f, S) = c + (Cardinality(S) - 1) * c
      BY <2>1, <3>1, <3>4, SumPick
    <3>6. \A m \in Int : c + (m - 1) * c = m * c
      OBVIOUS
    <3> QED BY <3>1, <3>5, <3>6
  <2>2. Cardinality({}) = 0 /\ 0 * c = 0
    BY FS_EmptySet
  <2> QED BY <2>1, <2>2, SumEmpty
<1> HIDE DEF G
<1>3. \A n \in Nat : n \in G
  BY <1>1, <1>2, InductiveSet
<1>4. T \in Small(T, Cardinality(T)) /\ Cardinality(T) \in Nat
  BY <1>0 DEF Small
<1> QED BY <1>3, <1>4 DEF G

\* A sum has no less than any of its terms, if none is negative.
LEMMA SumBounds ==
    ASSUME NEW T, NEW f, Numbers(f, T), \A x \in T : f[x] >= 0
    PROVE  /\ SumFunctionOnSet(f, T) >= 0
           /\ \A a \in T : f[a] <= SumFunctionOnSet(f, T)
<1>1. ASSUME NEW S \in SUBSET T
      PROVE  SumFunctionOnSet(f, S) >= 0 /\ SumFunctionOnSet(f, S) \in Int
  <2> DEFINE zero == [x \in S |-> 0]
  <2>1. Numbers(f, S)
    BY FS_Subset DEF Numbers
  <2>2. Numbers(zero, S) /\ SumFunctionOnSet(zero, S) = 0
    BY <2>1, SumZero DEF Numbers
  <2>3. \A x \in S : zero[x] <= f[x]
    BY <2>1 DEF Numbers
  <2> HIDE DEF zero
  <2>4. SumFunctionOnSet(zero, S) <= SumFunctionOnSet(f, S)
    BY <2>1, <2>2, <2>3, SumMonotone
  <2> QED BY <2>1, <2>2, <2>4, SumType
<1>2. ASSUME NEW a \in T
      PROVE  f[a] <= SumFunctionOnSet(f, T)
  <2>1. SumFunctionOnSet(f, T) = f[a] + SumFunctionOnSet(f, T \ {a})
    BY SumWithout
  <2>2. SumFunctionOnSet(f, T \ {a}) >= 0 /\ SumFunctionOnSet(f, T \ {a}) \in Int
    BY <1>1
  <2>3. f[a] \in Int
    BY DEF Numbers
  <2> QED BY <2>1, <2>2, <2>3
<1> QED BY <1>1, <1>2

\* Sums along a sequence: with a term more at the end, ...
LEMMA SumLast ==
    ASSUME NEW n \in Nat, NEW f, Numbers(f, 1..(n + 1))
    PROVE  /\ Numbers(f, 1..n)
           /\ SumFunctionOnSet(f, 1..(n + 1)) = SumFunctionOnSet(f, 1..n) + f[n + 1]
<1>1. (1..(n + 1)) \ {n + 1} = 1..n /\ n + 1 \in 1..(n + 1)
  OBVIOUS
<1>2. /\ Numbers(f, 1..n)
      /\ SumFunctionOnSet(f, 1..(n + 1)) = f[n + 1] + SumFunctionOnSet(f, 1..n)
  BY <1>1, SumWithout
<1>3. f[n + 1] \in Int /\ SumFunctionOnSet(f, 1..n) \in Int
  BY <1>1, <1>2, SumType DEF Numbers
<1> QED BY <1>2, <1>3

\* ... and without the first.
LEMMA SumRest ==
    ASSUME NEW n \in Nat, NEW f, Numbers(f, 1..(n + 1)),
           NEW g, \A i \in 1..n : g[i] = f[i + 1]
    PROVE  /\ Numbers(g, 1..n)
           /\ SumFunctionOnSet(f, 1..(n + 1)) = f[1] + SumFunctionOnSet(g, 1..n)
<1> DEFINE Shifts(k) == SumFunctionOnSet(f, 1..(k + 1)) = f[1] + SumFunctionOnSet(g, 1..k)
           G == {k \in Nat : k <= n => Shifts(k)}
<1>0. ASSUME NEW k \in Nat, k <= n
      PROVE  Numbers(f, 1..(k + 1)) /\ Numbers(g, 1..k) /\ f[1] \in Int
  <2>1. 1..(k + 1) \subseteq 1..(n + 1) /\ 1 \in 1..(n + 1)
    BY <1>0
  <2>2. \A i \in 1..k : g[i] = f[i + 1] /\ i + 1 \in 1..(n + 1)
    BY <1>0
  <2>3. IsFiniteSet(1..k)
    BY FS_Interval
  <2> QED BY <2>1, <2>2, <2>3, FS_Subset DEF Numbers
<1>1. 0 \in G
  <2>1. 1..0 = {} /\ 1..(0 + 1) = 1..(0 + 1)
    OBVIOUS
  <2>2. Numbers(f, 1..(0 + 1)) /\ f[1] \in Int
    <3>1. 0 \in Nat /\ 0 <= n
      OBVIOUS
    <3> QED BY <1>0, <3>1
  <2>3. SumFunctionOnSet(f, 1..(0 + 1)) = SumFunctionOnSet(f, 1..0) + f[0 + 1]
    BY <2>2, SumLast
  <2>4. SumFunctionOnSet(f, 1..0) = 0 /\ SumFunctionOnSet(g, 1..0) = 0
    BY <2>1, SumEmpty
  <2> QED BY <2>2, <2>3, <2>4
<1>2. ASSUME NEW k \in Nat, k \in G
      PROVE  k + 1 \in G
  <2> SUFFICES ASSUME k + 1 <= n
               PROVE  Shifts(k + 1)
    OBVIOUS
  <2>1. k <= n /\ k + 1 \in 1..n
    OBVIOUS
  <2>2. Shifts(k)
    BY <1>2, <2>1
  <2>3. Numbers(f, 1..((k + 1) + 1)) /\ Numbers(g, 1..(k + 1)) /\ Numbers(g, 1..k) /\ f[1] \in Int
    BY <1>0, <2>1
  <2>4. SumFunctionOnSet(f, 1..((k + 1) + 1)) = SumFunctionOnSet(f, 1..(k + 1)) + f[(k + 1) + 1]
    BY <2>3, SumLast
  <2>5. SumFunctionOnSet(g, 1..(k + 1)) = SumFunctionOnSet(g, 1..k) + g[k + 1]
    BY <2>3, SumLast
  <2>6. g[k + 1] = f[(k + 1) + 1] /\ g[k + 1] \in Int
    BY <2>1, <2>3 DEF Numbers
  <2>7. SumFunctionOnSet(g, 1..k) \in Int
    BY <2>3, SumType
  <2> QED BY <2>2, <2>3, <2>4, <2>5, <2>6, <2>7
<1> HIDE DEF G
<1>3. \A k \in Nat : k \in G
  BY <1>1, <1>2, InductiveSet
<1>4. n \in G
  BY <1>3
<1>5. Shifts(n)
  BY <1>4 DEF G
<1> QED BY <1>0, <1>5
\* The sum of one term is that term.
LEMMA SumOne ==
    ASSUME NEW a, NEW f, f[a] \in Int
    PROVE  SumFunctionOnSet(f, {a}) = f[a]
<1>1. Numbers(f, {a})
  BY FS_Singleton DEF Numbers
<1>2. SumFunctionOnSet(f, {a}) = f[a] + SumFunctionOnSet(f, {a} \ {a})
  BY <1>1, SumWithout
<1>3. {a} \ {a} = {}
  OBVIOUS
<1> QED BY <1>2, <1>3, SumEmpty

\* The sum along one sequence after another.
LEMMA SumConcat ==
    ASSUME NEW m \in Nat, NEW n \in Nat, NEW f, Numbers(f, 1..(m + n)),
           NEW g, \A i \in 1..n : g[i] = f[m + i]
    PROVE  /\ Numbers(f, 1..m) /\ Numbers(g, 1..n)
           /\ SumFunctionOnSet(f, 1..(m + n))
                = SumFunctionOnSet(f, 1..m) + SumFunctionOnSet(g, 1..n)
<1> DEFINE Joins(k) == SumFunctionOnSet(f, 1..(m + k))
                         = SumFunctionOnSet(f, 1..m) + SumFunctionOnSet(g, 1..k)
           G == {k \in Nat : k <= n => Joins(k)}
<1>0. ASSUME NEW k \in Nat, k <= n
      PROVE  Numbers(f, 1..(m + k)) /\ Numbers(g, 1..k)
  <2>1. 1..(m + k) \subseteq 1..(m + n)
    BY <1>0
  <2>2. \A i \in 1..k : g[i] = f[m + i] /\ m + i \in 1..(m + n)
    BY <1>0
  <2>3. IsFiniteSet(1..k)
    BY FS_Interval
  <2> QED BY <2>1, <2>2, <2>3, FS_Subset DEF Numbers
<1>a. Numbers(f, 1..m) /\ SumFunctionOnSet(f, 1..m) \in Int
  <2>1. 1..m \subseteq 1..(m + n)
    OBVIOUS
  <2>2. Numbers(f, 1..m)
    BY <2>1, FS_Subset DEF Numbers
  <2> QED BY <2>2, SumType
<1>1. 0 \in G
  <2>1. 1..0 = {} /\ m + 0 = m
    OBVIOUS
  <2>2. SumFunctionOnSet(g, 1..0) = 0
    BY <2>1, SumEmpty
  <2> QED BY <1>a, <2>1, <2>2
<1>2. ASSUME NEW k \in Nat, k \in G
      PROVE  k + 1 \in G
  <2> SUFFICES ASSUME k + 1 <= n
               PROVE  Joins(k + 1)
    OBVIOUS
  <2>1. k <= n /\ k + 1 \in 1..n /\ m + k \in Nat
    OBVIOUS
  <2>2. Joins(k)
    BY <1>2, <2>1
  <2>3. Numbers(f, 1..(m + (k + 1))) /\ Numbers(g, 1..(k + 1)) /\ Numbers(g, 1..k)
    BY <1>0, <2>1
  <2>4. m + (k + 1) = (m + k) + 1
    OBVIOUS
  <2>5. SumFunctionOnSet(f, 1..((m + k) + 1)) = SumFunctionOnSet(f, 1..(m + k)) + f[(m + k) + 1]
    BY <2>1, <2>3, <2>4, SumLast
  <2>6. SumFunctionOnSet(g, 1..(k + 1)) = SumFunctionOnSet(g, 1..k) + g[k + 1]
    BY <2>3, SumLast
  <2>7. g[k + 1] = f[(m + k) + 1] /\ g[k + 1] \in Int
    BY <2>1, <2>3, <2>4 DEF Numbers
  <2>8. SumFunctionOnSet(g, 1..k) \in Int
    BY <2>3, SumType
  <2> QED BY <1>a, <2>2, <2>4, <2>5, <2>6, <2>7, <2>8
<1> HIDE DEF G
<1>3. \A k \in Nat : k \in G
  BY <1>1, <1>2, InductiveSet
<1>4. Joins(n)
  BY <1>3 DEF G
<1> QED BY <1>0, <1>a, <1>4

\* The differences of successive values add up to that of the first and the last.
LEMMA SumTelescope ==
    ASSUME NEW n \in Nat, NEW h, \A i \in 0..n : h[i] \in Int,
           NEW f, \A i \in 1..n : f[i] = h[i - 1] - h[i]
    PROVE  SumFunctionOnSet(f, 1..n) = h[0] - h[n]
<1> DEFINE G == {k \in Nat : k <= n => SumFunctionOnSet(f, 1..k) = h[0] - h[k]}
<1>1. 0 \in G
  <2>1. 1..0 = {} /\ h[0] \in Int
    OBVIOUS
  <2> QED BY <2>1, SumEmpty
<1>2. ASSUME NEW k \in Nat, k \in G
      PROVE  k + 1 \in G
  <2> SUFFICES ASSUME k + 1 <= n
               PROVE  SumFunctionOnSet(f, 1..(k + 1)) = h[0] - h[k + 1]
    OBVIOUS
  <2>1. k <= n /\ k + 1 \in 1..n /\ (k + 1) - 1 = k
    OBVIOUS
  <2>2. SumFunctionOnSet(f, 1..k) = h[0] - h[k]
    BY <1>2, <2>1
  <2>3. \A i \in 1..(k + 1) : i \in 1..n /\ i - 1 \in 0..n /\ i \in 0..n
    BY <2>1
  <2>4. \A i \in 1..(k + 1) : f[i] \in Int
    BY <2>3
  <2>5. Numbers(f, 1..(k + 1))
    BY <2>4, FS_Interval DEF Numbers
  <2>6. SumFunctionOnSet(f, 1..(k + 1)) = SumFunctionOnSet(f, 1..k) + f[k + 1]
    BY <2>5, SumLast
  <2>7. f[k + 1] = h[k] - h[k + 1] /\ h[0] \in Int /\ h[k] \in Int /\ h[k + 1] \in Int
    BY <2>1
  <2> QED BY <2>2, <2>6, <2>7
<1> HIDE DEF G
<1>3. \A k \in Nat : k \in G
  BY <1>1, <1>2, InductiveSet
<1> QED BY <1>3 DEF G
================================================================================
