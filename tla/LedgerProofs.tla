----------------------------- MODULE LedgerProofs -----------------------------
(***************************************************************************)
(* What holds of the settlement of any market and of the status of any       *)
(* petition, and of MCLedger, which exercises both beside the chain.        *)
(*                                                                          *)
(* Both are sums over finite sets (MapThenSumSet), so the first part says    *)
(* that such a sum does not depend on the order it is taken in, and derives *)
(* the usual facts.  Induction is stated as a fact about a set: no theorem   *)
(* of the library that takes an operator can be used.                       *)
(***************************************************************************)
EXTENDS MCLedger, HashchainProofs

-----------------------------------------------------------------------------
\* Induction on the numbers and on the subsets of a finite set, as facts about
\* a set of them.
LEMMA NumbersFrom ==
  ASSUME NEW T, 0 \in T, \A n \in Nat : n \in T => n + 1 \in T
  PROVE  \A n \in Nat : n \in T
<1> DEFINE U == {n \in Nat : n \notin T}
<1> SUFFICES ASSUME U # {} PROVE FALSE
  OBVIOUS
<1>1. PICK n \in U : \A k \in U : ~(<<k, n>> \in OpToRel(<, Nat))
  BY NatLessThanWellFounded, WFMin, Zenon
<1>2. n \in Nat /\ n \notin T /\ n # 0
  BY <1>1
<1>3. \A k \in U : ~(k < n)
  BY <1>1, Zenon DEF OpToRel
<1>4. n - 1 \in Nat /\ n - 1 < n /\ (n - 1) + 1 = n
  BY <1>2
<1>5. n - 1 \in T
  BY <1>3, <1>4
<1> QED
  BY <1>2, <1>4, <1>5

LEMMA SubsetsFrom ==
  ASSUME NEW S, IsFiniteSet(S), NEW T, {} \in T,
         \A s \in SUBSET S : s # {} /\ (\A x \in s : s \ {x} \in T) => s \in T
  PROVE  \A s \in SUBSET S : s \in T
<1> DEFINE N == {n \in Nat : \A s \in SUBSET S : Cardinality(s) = n => s \in T}
<1>1. \A s \in SUBSET S : IsFiniteSet(s) /\ Cardinality(s) \in Nat
  BY FS_Subset, FS_CardinalityType
<1>2. 0 \in N
  <2>1. \A s \in SUBSET S : Cardinality(s) = 0 => s = {}
    BY <1>1, FS_EmptySet
  <2> QED
    BY <2>1
<1>3. ASSUME NEW n \in Nat, n \in N PROVE n + 1 \in N
  <2> SUFFICES ASSUME NEW s \in SUBSET S, Cardinality(s) = n + 1 PROVE s \in T
    OBVIOUS
  <2>1. s # {}
    BY <1>1, FS_EmptySet
  <2>2. ASSUME NEW x \in s PROVE s \ {x} \in T
    <3>1. Cardinality(s \ {x}) = n /\ s \ {x} \in SUBSET S
      BY <1>1, FS_RemoveElement
    <3> QED
      BY <1>3, <3>1
  <2> QED
    BY <2>1, <2>2
<1> HIDE DEF N
<1>4. \A n \in Nat : n \in N
  BY <1>2, <1>3, NumbersFrom
<1> QED
  BY <1>1, <1>4 DEF N

-----------------------------------------------------------------------------
\* What MapThenSumSet computes does not depend on the order it takes.
Pick(s) == CHOOSE x \in s : TRUE
Adds(F, f, s) == F[s] = IF s = {} THEN 0 ELSE f[Pick(s)] + F[s \ {Pick(s)}]
Totals(F, f, S) ==
  F = [s \in SUBSET S |-> IF s = {} THEN 0 ELSE f[Pick(s)] + F[s \ {Pick(s)}]]

LEMMA SumUnfolds ==
  ASSUME NEW f, NEW S
  PROVE  SumOver(f, S) = (CHOOSE F : Totals(F, f, S))[S]
BY DEF SumOver, MapThenSumSet, MapThenFoldSet, Totals, Pick

LEMMA TotalsExist ==
  ASSUME NEW D, NEW f \in [D -> Int], NEW S \in SUBSET D, IsFiniteSet(S)
  PROVE  \E F : Totals(F, f, S)
<1> DEFINE Upto(n) == {s \in SUBSET S : Cardinality(s) <= n}
           N == {n \in Nat : \E F \in [SUBSET S -> Int] : \A s \in Upto(n) : Adds(F, f, s)}
<1>1. \A s \in SUBSET S : IsFiniteSet(s) /\ Cardinality(s) \in Nat
  BY FS_Subset, FS_CardinalityType
<1>2. \A s \in SUBSET S : s # {} =>
        /\ Pick(s) \in s /\ Pick(s) \in D /\ s \ {Pick(s)} \in SUBSET S
        /\ Cardinality(s \ {Pick(s)}) = Cardinality(s) - 1
  BY <1>1, FS_RemoveElement DEF Pick
<1>3. 0 \in N
  <2> DEFINE F == [s \in SUBSET S |-> 0]
  <2>1. F \in [SUBSET S -> Int]
    OBVIOUS
  <2>2. \A s \in Upto(0) : s = {} /\ F[s] = 0
    BY <1>1, FS_EmptySet
  <2>3. \A s \in Upto(0) : Adds(F, f, s)
    BY <2>2 DEF Adds
  <2> HIDE DEF F
  <2> QED
    BY <2>1, <2>3
<1>4. ASSUME NEW n \in Nat, n \in N PROVE n + 1 \in N
  <2>1. PICK F \in [SUBSET S -> Int] : \A s \in Upto(n) : Adds(F, f, s)
    BY <1>4
  <2> DEFINE G == [s \in SUBSET S |-> IF s = {} THEN 0
                                      ELSE f[Pick(s)] + F[s \ {Pick(s)}]]
  <2>2. G \in [SUBSET S -> Int]
    <3>1. ASSUME NEW s \in SUBSET S, s # {} PROVE f[Pick(s)] + F[s \ {Pick(s)}] \in Int
      <4>1. f[Pick(s)] \in Int /\ F[s \ {Pick(s)}] \in Int
        BY <1>2, <3>1
      <4> QED
        BY <4>1
    <3> QED
      BY <3>1
  <2>3. \A s \in Upto(n) : G[s] = F[s]
    BY <2>1 DEF Adds
  <2>4. ASSUME NEW s \in Upto(n + 1) PROVE Adds(G, f, s)
    <3>1. CASE s = {}
      BY <3>1 DEF Adds
    <3>2. CASE s # {}
      <4>1. s \ {Pick(s)} \in Upto(n)
        BY <1>1, <1>2, <2>4, <3>2
      <4>2. G[s] = f[Pick(s)] + F[s \ {Pick(s)}]
        BY <3>2
      <4> QED
        BY <2>3, <3>2, <4>1, <4>2 DEF Adds
    <3> QED
      BY <3>1, <3>2
  <2> HIDE DEF G
  <2> QED
    BY <2>2, <2>4
<1> HIDE DEF N
<1>5. \A n \in Nat : n \in N
  BY <1>3, <1>4, NumbersFrom
<1>6. PICK F \in [SUBSET S -> Int] : \A s \in Upto(Cardinality(S)) : Adds(F, f, s)
  BY <1>1, <1>5 DEF N
<1>7. \A s \in SUBSET S : Adds(F, f, s)
  <2>1. \A s \in SUBSET S : Cardinality(s) <= Cardinality(S)
    BY FS_Subset
  <2> QED
    BY <1>6, <2>1
<1>8. F = [s \in SUBSET S |-> F[s]]
  OBVIOUS
<1>9. Totals(F, f, S)
  BY <1>7, <1>8 DEF Totals, Adds
<1> QED
  BY <1>9

\* The totals of a sum: they are numbers, and any element may be taken first.
IsTotal(F, f, S) ==
  /\ SumOver(f, S) = F[S] /\ F[{}] = 0
  /\ \A s \in SUBSET S : Adds(F, f, s)
  /\ \A s \in SUBSET S : F[s] \in Int /\ \A x \in s : F[s] = f[x] + F[s \ {x}]
LEMMA SumTotals ==
  ASSUME NEW D, NEW f \in [D -> Int], NEW S \in SUBSET D, IsFiniteSet(S)
  PROVE  \E F : IsTotal(F, f, S)
<1>1. PICK F : Totals(F, f, S) /\ SumOver(f, S) = F[S]
  BY TotalsExist, SumUnfolds
<1>2. \A s \in SUBSET S : Adds(F, f, s)
  BY <1>1 DEF Totals, Adds
<1>3. F[{}] = 0
  BY <1>2 DEF Adds
<1>4. \A s \in SUBSET S : s # {} => Pick(s) \in s
  BY DEF Pick
<1>8. \A s \in SUBSET S : F[s] \in Int
  <2> DEFINE T == {s \in SUBSET S : F[s] \in Int}
  <2>1. {} \in T
    BY <1>3
  <2>2. ASSUME NEW s \in SUBSET S, s # {}, \A x \in s : s \ {x} \in T PROVE s \in T
    <3>1. PICK c \in s : F[s] = f[c] + F[s \ {c}] /\ s \ {c} \in T
      BY <1>2, <1>4, <2>2 DEF Adds
    <3> QED
      BY <3>1
  <2> HIDE DEF T
  <2>3. \A s \in SUBSET S : s \in T
    BY <2>1, <2>2, SubsetsFrom
  <2> QED
    BY <2>3 DEF T
<1> DEFINE T == {s \in SUBSET S : \A x \in s : F[s] = f[x] + F[s \ {x}]}
<1>5. {} \in T
  BY <1>3
<1>6. ASSUME NEW s \in SUBSET S, s # {}, \A x \in s : s \ {x} \in T PROVE s \in T
  <2>1. PICK c \in s : F[s] = f[c] + F[s \ {c}] /\ s \ {c} \in T
    BY <1>2, <1>4, <1>6 DEF Adds
  <2>3. ASSUME NEW x \in s PROVE F[s] = f[x] + F[s \ {x}]
    <3>1. CASE x = c
      BY <2>1, <3>1
    <3>2. CASE x # c
      <4>1. F[s \ {c}] = f[x] + F[(s \ {c}) \ {x}]
        BY <2>1, <3>2
      <4>2. s \ {x} \in T /\ F[s \ {x}] = f[c] + F[(s \ {x}) \ {c}]
        BY <1>6, <3>2
      <4>3. (s \ {c}) \ {x} = (s \ {x}) \ {c}
        OBVIOUS
      <4>4. PICK r : r = (s \ {x}) \ {c}
        OBVIOUS
      <4>5. F[r] \in Int /\ f[x] \in Int /\ f[c] \in Int
        BY <1>8, <4>4
      <4>6. F[s] = f[c] + (f[x] + F[r]) /\ F[s \ {x}] = f[c] + F[r]
        BY <2>1, <4>1, <4>2, <4>3, <4>4
      <4> QED
        BY <4>5, <4>6
    <3> QED
      BY <3>1, <3>2
  <2> QED
    BY <2>3
<1> HIDE DEF T
<1>7. \A s \in SUBSET S : s \in T
  BY <1>5, <1>6, SubsetsFrom
<1> QED
  BY <1>1, <1>2, <1>3, <1>7, <1>8 DEF T, IsTotal
-----------------------------------------------------------------------------
\* Sums of the numbers a function f gives to the elements of a finite set.
LEMMA SumEmpty ==
  ASSUME NEW D, NEW f \in [D -> Int]
  PROVE  SumOver(f, {}) = 0
<1>1. {} \in SUBSET D /\ IsFiniteSet({})
  BY FS_EmptySet
<1>2. PICK F : IsTotal(F, f, {})
  BY <1>1, SumTotals
<1> QED
  BY <1>2 DEF IsTotal

Splits(f, S) ==
  /\ SumOver(f, S) \in Int
  /\ \A x \in S : SumOver(f, S) = f[x] + SumOver(f, S \ {x})
LEMMA SumPlus ==
  ASSUME NEW D, NEW f \in [D -> Int], NEW S \in SUBSET D, IsFiniteSet(S)
  PROVE  Splits(f, S)
<1>0. PICK F : IsTotal(F, f, S)
  BY SumTotals
<1>1. /\ SumOver(f, S) = F[S]
      /\ \A s \in SUBSET S : Adds(F, f, s)
      /\ \A s \in SUBSET S : F[s] \in Int /\ \A x \in s : F[s] = f[x] + F[s \ {x}]
  BY <1>0 DEF IsTotal
<1>2. ASSUME NEW x \in S PROVE SumOver(f, S \ {x}) = F[S \ {x}]
  <2>1. PICK R \in SUBSET S : R = S \ {x}
    OBVIOUS
  <2>2. R \in SUBSET D /\ IsFiniteSet(R)
    BY FS_Subset
  <2>0. PICK G : IsTotal(G, f, R)
    BY <2>2, SumTotals
  <2>3. SumOver(f, R) = G[R] /\ \A s \in SUBSET R : Adds(G, f, s)
    BY <2>0 DEF IsTotal
  <2> DEFINE T == {s \in SUBSET R : F[s] = G[s]}
  <2>4. {} \in T
    BY <1>1, <2>3 DEF Adds
  <2>5. ASSUME NEW s \in SUBSET R, s # {}, \A y \in s : s \ {y} \in T PROVE s \in T
    <3>1. Pick(s) \in s
      BY <2>5 DEF Pick
    <3>2. F[s] = f[Pick(s)] + F[s \ {Pick(s)}] /\ G[s] = f[Pick(s)] + G[s \ {Pick(s)}]
      BY <1>1, <2>3, <2>5 DEF Adds
    <3> QED
      BY <2>5, <3>1, <3>2
  <2> HIDE DEF T
  <2>6. \A s \in SUBSET R : s \in T
    BY <2>2, <2>4, <2>5, SubsetsFrom
  <2>7. F[R] = G[R]
    BY <2>6 DEF T
  <2> QED
    BY <2>1, <2>3, <2>7
<1> QED
  BY <1>1, <1>2 DEF Splits

LEMMA SumNat ==
  ASSUME NEW D, NEW f \in [D -> Int], NEW S \in SUBSET D, IsFiniteSet(S),
         \A x \in S : f[x] \in Nat
  PROVE  SumOver(f, S) \in Nat /\ \A x \in S : f[x] <= SumOver(f, S)
<1> DEFINE T == {s \in SUBSET S : SumOver(f, s) \in Nat}
<1>1. \A s \in SUBSET S : s \in SUBSET D /\ IsFiniteSet(s)
  BY FS_Subset
<1>2. {} \in T
  BY SumEmpty
<1>3. ASSUME NEW s \in SUBSET S, s # {}, \A y \in s : s \ {y} \in T PROVE s \in T
  <2>1. PICK x \in s : TRUE
    BY <1>3
  <2>2. SumOver(f, s) = f[x] + SumOver(f, s \ {x})
    BY <1>1, SumPlus DEF Splits
  <2>3. SumOver(f, s \ {x}) \in Nat /\ f[x] \in Nat
    BY <1>3
  <2> QED
    BY <2>2, <2>3
<1>4. \A s \in SUBSET S : s \in T
  <2> HIDE DEF T
  <2> QED
    BY <1>2, <1>3, SubsetsFrom
<1>5. ASSUME NEW x \in S PROVE f[x] <= SumOver(f, S)
  <2>1. SumOver(f, S) = f[x] + SumOver(f, S \ {x}) /\ SumOver(f, S \ {x}) \in Nat /\ f[x] \in Nat
    BY <1>4, SumPlus DEF Splits
  <2> QED
    BY <2>1
<1> QED
  BY <1>4, <1>5

LEMMA SumSame ==
  ASSUME NEW D, NEW E, NEW f \in [D -> Int], NEW g \in [E -> Int],
         NEW S \in SUBSET D, S \in SUBSET E, IsFiniteSet(S), \A x \in S : f[x] = g[x]
  PROVE  SumOver(f, S) = SumOver(g, S)
<1> DEFINE T == {s \in SUBSET S : SumOver(f, s) = SumOver(g, s)}
<1>1. \A s \in SUBSET S : s \in SUBSET D /\ s \in SUBSET E /\ IsFiniteSet(s)
  BY FS_Subset
<1>2. {} \in T
  <2>1. SumOver(f, {}) = 0 /\ SumOver(g, {}) = 0
    BY SumEmpty
  <2> QED
    BY <2>1
<1>3. ASSUME NEW s \in SUBSET S, s # {}, \A y \in s : s \ {y} \in T PROVE s \in T
  <2>1. PICK x \in s : TRUE
    BY <1>3
  <2>7. Splits(f, s) /\ Splits(g, s)
    BY <1>1, SumPlus
  <2>2. SumOver(f, s) = f[x] + SumOver(f, s \ {x})
    BY <2>7 DEF Splits
  <2>3. SumOver(g, s) = g[x] + SumOver(g, s \ {x})
    BY <2>7 DEF Splits
  <2> QED
    BY <1>3, <2>2, <2>3
<1> HIDE DEF T
<1>4. \A s \in SUBSET S : s \in T
  BY <1>2, <1>3, SubsetsFrom
<1> QED
  BY <1>4 DEF T

LEMMA SumUnion ==
  ASSUME NEW D, NEW f \in [D -> Int], NEW S \in SUBSET D, NEW R \in SUBSET D,
         IsFiniteSet(S), IsFiniteSet(R), S \cap R = {}
  PROVE  SumOver(f, S \cup R) = SumOver(f, S) + SumOver(f, R)
<1> DEFINE T == {s \in SUBSET S : SumOver(f, s \cup R) = SumOver(f, s) + SumOver(f, R)}
<1>1. \A s \in SUBSET S : s \in SUBSET D /\ IsFiniteSet(s) /\ s \cup R \in SUBSET D /\ IsFiniteSet(s \cup R)
  BY FS_Subset, FS_Union
<1>2. {} \in T
  <2>1. SumOver(f, {}) = 0 /\ SumOver(f, R) \in Int /\ {} \cup R = R
    BY SumEmpty, SumPlus DEF Splits
  <2> QED
    BY <2>1
<1>3. ASSUME NEW s \in SUBSET S, s # {}, \A y \in s : s \ {y} \in T PROVE s \in T
  <2>1. PICK x \in s : TRUE
    BY <1>3
  <2>7. Splits(f, s)
    BY <1>1, SumPlus
  <2>2. SumOver(f, s) = f[x] + SumOver(f, s \ {x})
    BY <2>7 DEF Splits
  <2>3. SumOver(f, s \cup R) = f[x] + SumOver(f, (s \cup R) \ {x}) /\ (s \cup R) \ {x} = (s \ {x}) \cup R
    <3>1. PICK u \in SUBSET D : u = s \cup R /\ IsFiniteSet(u) /\ x \in u
      BY <1>1
    <3>2. SumOver(f, u) = f[x] + SumOver(f, u \ {x})
      BY <3>1, SumPlus DEF Splits
    <3>3. u \ {x} = (s \ {x}) \cup R
      BY <3>1
    <3> QED
      BY <3>1, <3>2, <3>3
  <2>4. SumOver(f, (s \ {x}) \cup R) = SumOver(f, s \ {x}) + SumOver(f, R)
    BY <1>3
  <2>5. f[x] \in Int /\ SumOver(f, s \ {x}) \in Int /\ SumOver(f, R) \in Int
    <3>1. s \ {x} \in SUBSET D /\ IsFiniteSet(s \ {x})
      BY <1>1
    <3> QED
      BY <3>1, SumPlus DEF Splits
  <2>6. SumOver(f, s \cup R) = SumOver(f, s) + SumOver(f, R)
    <3>1. PICK a \in Int, b \in Int, c \in Int :
             a = f[x] /\ b = SumOver(f, s \ {x}) /\ c = SumOver(f, R)
      BY <2>5
    <3>2. SumOver(f, s) = a + b /\ SumOver(f, s \cup R) = a + (b + c)
      BY <2>2, <2>3, <2>4, <3>1
    <3>3. a + (b + c) = (a + b) + c
      OBVIOUS
    <3> QED
      BY <3>1, <3>2, <3>3
  <2> QED
    BY <1>3, <2>6
<1> HIDE DEF T
<1>4. \A s \in SUBSET S : s \in T
  BY <1>2, <1>3, SubsetsFrom
<1> QED
  BY <1>4 DEF T

LEMMA SumChange ==
  ASSUME NEW D, NEW f \in [D -> Int], NEW g \in [D -> Int], NEW S \in SUBSET D, IsFiniteSet(S),
         NEW x \in S, NEW k \in Int, g[x] = f[x] + k, \A y \in S \ {x} : f[y] = g[y]
  PROVE  SumOver(g, S) = SumOver(f, S) + k
<1>2. PICK R \in SUBSET D : R = S \ {x}
  OBVIOUS
<1>8. IsFiniteSet(R) /\ \A y \in R : f[y] = g[y]
  BY <1>2, FS_Subset
<1>3. SumOver(f, R) = SumOver(g, R)
  BY <1>8, SumSame
<1>9. Splits(f, S) /\ Splits(g, S) /\ Splits(f, R)
  BY <1>8, SumPlus
<1>4. SumOver(f, S) = f[x] + SumOver(f, R) /\ SumOver(g, S) = g[x] + SumOver(g, R)
      /\ SumOver(f, R) \in Int
  BY <1>2, <1>9 DEF Splits
<1>5. f[x] \in Int
  OBVIOUS
<1> QED
  BY <1>3, <1>4, <1>5

\* Sums are linear.
LEMMA SumScaled ==
  ASSUME NEW D, NEW f \in [D -> Int], NEW g \in [D -> Int], NEW S \in SUBSET D, IsFiniteSet(S),
         NEW k \in Int, \A x \in S : g[x] = k * f[x]
  PROVE  SumOver(g, S) = k * SumOver(f, S)
<1> DEFINE T == {s \in SUBSET S : SumOver(g, s) = k * SumOver(f, s)}
<1>1. \A s \in SUBSET S : s \in SUBSET D /\ IsFiniteSet(s)
  BY FS_Subset
<1>2. {} \in T
  <2>1. SumOver(f, {}) = 0 /\ SumOver(g, {}) = 0 /\ k * 0 = 0
    BY SumEmpty
  <2> QED
    BY <2>1
<1>3. ASSUME NEW s \in SUBSET S, s # {}, \A y \in s : s \ {y} \in T PROVE s \in T
  <2>1. PICK x \in s : TRUE
    BY <1>3
  <2>7. Splits(f, s) /\ Splits(g, s)
    BY <1>1, SumPlus
  <2>2. SumOver(f, s) = f[x] + SumOver(f, s \ {x})
    BY <2>7 DEF Splits
  <2>3. SumOver(g, s) = g[x] + SumOver(g, s \ {x})
    BY <2>7 DEF Splits
  <2>4. SumOver(g, s \ {x}) = k * SumOver(f, s \ {x}) /\ g[x] = k * f[x]
    BY <1>3
  <2>5. PICK a \in Int, b \in Int : a = f[x] /\ b = SumOver(f, s \ {x})
    <3>1. s \ {x} \in SUBSET D /\ IsFiniteSet(s \ {x})
      BY <1>1
    <3> QED
      BY <3>1, SumPlus DEF Splits
  <2>6. k * a + k * b = k * (a + b)
    OBVIOUS
  <2> QED
    BY <2>2, <2>3, <2>4, <2>5, <2>6
<1> HIDE DEF T
<1>4. \A s \in SUBSET S : s \in T
  BY <1>2, <1>3, SubsetsFrom
<1> QED
  BY <1>4 DEF T

-----------------------------------------------------------------------------
\* The pools of a market.
MKTypes ==
  stakes \in [Positions -> Nat] /\ evidence \in [Answers -> Nat] /\ frozen \in BOOLEAN

LEMMA KindsFinite ==
  /\ Answers \subseteq Sides /\ IsFiniteSet(Sides) /\ IsFiniteSet(RepTypes) /\ IsFiniteSet(Answers)
  /\ Sides = Answers \cup {"data_unavailable"} /\ "data_unavailable" \notin Answers
<1>1. IsFiniteSet({"yes"}) /\ IsFiniteSet({"oracle"})
  BY FS_Singleton
<1>2. IsFiniteSet({"yes"} \cup {"no"}) /\ IsFiniteSet({"oracle"} \cup {"common"})
  BY <1>1, FS_AddElement
<1>3. Answers = {"yes"} \cup {"no"} /\ RepTypes = {"oracle"} \cup {"common"}
  BY DEF Answers, RepTypes
<1>4. IsFiniteSet(Answers \cup {"data_unavailable"})
  BY <1>2, <1>3, FS_AddElement
<1> QED
  BY <1>2, <1>3, <1>4 DEF Sides, Answers

LEMMA PlacesFinite ==
  ASSUME NEW sides \in SUBSET Sides, NEW reps \in SUBSET RepTypes
  PROVE  /\ Stakers \X sides \X reps \in SUBSET Positions
         /\ IsFiniteSet(Stakers \X sides \X reps)
<1>1. IsFiniteSet(Stakers) /\ IsFiniteSet(sides) /\ IsFiniteSet(reps)
  BY KindsFinite, FS_Subset, MarketAssumption
<1>2. IsFiniteSet((Stakers \X sides) \X reps)
  BY <1>1, FS_Product
<1>3. PICK f : f = [q \in (Stakers \X sides) \X reps |-> <<q[1][1], q[1][2], q[2]>>]
  OBVIOUS
<1>4. f \in Surjection((Stakers \X sides) \X reps, Stakers \X sides \X reps)
  <2>1. f \in [(Stakers \X sides) \X reps -> Stakers \X sides \X reps]
    BY <1>3
  <2>2. ASSUME NEW a \in Stakers, NEW s \in sides, NEW r \in reps
        PROVE  \E q \in (Stakers \X sides) \X reps : f[q] = <<a, s, r>>
    <3>1. <<<<a, s>>, r>> \in (Stakers \X sides) \X reps /\ f[<<<<a, s>>, r>>] = <<a, s, r>>
      BY <1>3
    <3> QED
      BY <3>1
  <2>3. ASSUME NEW p \in Stakers \X sides \X reps
        PROVE  \E q \in (Stakers \X sides) \X reps : f[q] = p
    <3>1. PICK a \in Stakers, s \in sides, r \in reps : p = <<a, s, r>>
      OBVIOUS
    <3> QED
      BY <2>2, <3>1
  <2> QED
    BY <2>1, <2>3 DEF Surjection
<1> QED
  BY <1>2, <1>4, FS_Surjection DEF Positions

LEMMA AmountsType ==
  ASSUME MKTypes
  PROVE  Amounts \in [Positions -> Int] /\ \A p \in Positions : Amounts[p] \in Nat
BY DEF MKTypes, Amounts, Amount

LEMMA PoolType ==
  ASSUME MKTypes, NEW sides \in SUBSET Sides, NEW reps \in SUBSET RepTypes
  PROVE  PoolOf(sides, reps) \in Nat
BY PlacesFinite, AmountsType, SumNat DEF PoolOf

LEMMA PoolSides ==
  ASSUME MKTypes, NEW a \in SUBSET Sides, NEW b \in SUBSET Sides, a \cap b = {},
         NEW reps \in SUBSET RepTypes
  PROVE  PoolOf(a \cup b, reps) = PoolOf(a, reps) + PoolOf(b, reps)
<1>1. PICK A \in SUBSET Positions, B \in SUBSET Positions :
         A = Stakers \X a \X reps /\ B = Stakers \X b \X reps
  BY PlacesFinite
<1>2. IsFiniteSet(A) /\ IsFiniteSet(B)
  BY <1>1, PlacesFinite
<1>3. A \cap B = {} /\ A \cup B = Stakers \X (a \cup b) \X reps
  BY <1>1
<1>4. SumOver(Amounts, A \cup B) = SumOver(Amounts, A) + SumOver(Amounts, B)
  BY <1>2, <1>3, AmountsType, SumUnion
<1> QED
  BY <1>1, <1>3, <1>4 DEF PoolOf

LEMMA PoolReps ==
  ASSUME MKTypes, NEW sides \in SUBSET Sides
  PROVE  PoolOf(sides, RepTypes) = PoolOf(sides, {"oracle"}) + PoolOf(sides, {"common"})
<1>1. PICK A \in SUBSET Positions, B \in SUBSET Positions :
         A = Stakers \X sides \X {"oracle"} /\ B = Stakers \X sides \X {"common"}
  BY PlacesFinite DEF RepTypes
<1>2. IsFiniteSet(A) /\ IsFiniteSet(B)
  BY <1>1, PlacesFinite DEF RepTypes
<1>3. A \cap B = {} /\ A \cup B = Stakers \X sides \X RepTypes
  BY <1>1 DEF RepTypes
<1>4. SumOver(Amounts, A \cup B) = SumOver(Amounts, A) + SumOver(Amounts, B)
  BY <1>2, <1>3, AmountsType, SumUnion
<1> QED
  BY <1>1, <1>3, <1>4 DEF PoolOf

\* Two answers cannot both have a supermajority.
LEMMA OneWins ==
  ASSUME MKTypes, NEW a \in Winning, NEW b \in Winning
  PROVE  a = b
<1> SUFFICES ASSUME a # b PROVE FALSE
  OBVIOUS
<1>1. a \in Answers /\ b \in Answers
  BY DEF Winning
<1>2. {a} \cup {b} = Answers /\ {a} \cap {b} = {} /\ {a} \in SUBSET Sides /\ {b} \in SUBSET Sides
      /\ {"oracle"} \in SUBSET RepTypes
  BY <1>1 DEF Answers, Sides, RepTypes
<1>3. PICK x \in Nat, y \in Nat : x = PoolOf({a}, {"oracle"}) /\ y = PoolOf({b}, {"oracle"})
  BY <1>2, PoolType
<1>4. OracleTotal = x + y
  BY <1>2, <1>3, PoolSides DEF OracleTotal
<1>5. x + y > 0 /\ 100 * x >= DecidePct * (x + y) /\ 100 * y >= DecidePct * (x + y)
  BY <1>3, <1>4 DEF Winning
<1>6. DecidePct \in Nat /\ DecidePct >= 51
  BY MarketAssumption
<1>7. PICK t \in Nat : t = x + y /\ t > 0
  BY <1>5
<1>8. DecidePct * t >= 51 * t
  BY <1>6, <1>7
<1>9. DecidePct * t \in Int
  BY <1>6
<1> QED
  BY <1>5, <1>7, <1>8, <1>9

LEMMA OutcomeOne ==
  ASSUME MKTypes
  PROVE  Outcome \subseteq Winning /\ Winning \subseteq Answers /\ Cardinality(Outcome) <= 1
<1>1. Outcome \subseteq Winning /\ Winning \subseteq Answers
  BY DEF Outcome, Winning
<1>2. CASE Outcome = {}
  BY <1>1, <1>2, FS_EmptySet
<1>3. CASE Outcome # {}
  <2>1. PICK a \in Outcome : TRUE
    BY <1>3
  <2>2. Outcome = {a}
    BY <1>1, <2>1, OneWins
  <2> QED
    BY <1>1, <2>2, FS_Singleton
<1> QED
  BY <1>2, <1>3

-----------------------------------------------------------------------------
\* A market: whole stakes have been made, and no more than MaxStakes.
StakesInv == \E n \in 0..MaxStakes : Sum(stakes) = n * StakeSize
MKInv == MKTypes /\ StakesInv /\ Sum(evidence) <= MaxEvidence

LEMMA AllPositions == Positions \in SUBSET Positions /\ IsFiniteSet(Positions)
BY PlacesFinite DEF Positions

LEMMA BoundsNat ==
  /\ Bond \in Nat /\ StakeSize \in Nat /\ MinStake \in Nat /\ FirstBonus \in Nat
  /\ MaxStakes \in Nat /\ MaxEvidence \in Nat
BY MarketAssumption

LEMMA MarketInit == MKInit => MKInv
<1> SUFFICES ASSUME MKInit PROVE MKInv
  OBVIOUS
<1>1. MKTypes
  BY DEF MKInit, MKTypes, Nothing
<1>2. Sum(stakes) = 0
  <2>1. stakes \in [Positions -> Int] /\ \A p \in Positions : stakes[p] = 0 * stakes[p]
    BY DEF MKInit, Nothing
  <2>2. SumOver(stakes, Positions) = 0 * SumOver(stakes, Positions)
    BY <2>1, AllPositions, SumScaled
  <2>3. SumOver(stakes, Positions) \in Int
    BY <2>1, AllPositions, SumPlus DEF Splits
  <2> QED
    BY <2>1, <2>2, <2>3 DEF Sum
<1>3. Sum(evidence) = 0
  <2>1. evidence \in [Answers -> Int] /\ \A s \in Answers : evidence[s] = 0 * evidence[s]
    BY DEF MKInit
  <2>2. SumOver(evidence, Answers) = 0 * SumOver(evidence, Answers)
    BY <2>1, KindsFinite, SumScaled
  <2>3. SumOver(evidence, Answers) \in Int
    BY <2>1, KindsFinite, SumPlus DEF Splits
  <2> QED
    BY <2>1, <2>2, <2>3 DEF Sum
<1>4. StakesInv
  <2>1. 0 * StakeSize = 0 /\ 0 \in 0..MaxStakes
    BY BoundsNat
  <2> QED
    BY <1>2, <2>1 DEF StakesInv
<1> QED
  BY <1>1, <1>3, <1>4, BoundsNat DEF MKInv

LEMMA Products ==
  ASSUME NEW n \in Nat, NEW m \in Nat, NEW k \in Nat
  PROVE  /\ n * k \in Nat /\ (n + 1) * k = n * k + k
         /\ n * k < m * k => n < m
         /\ n <= m => n * k <= m * k
<1>1. n * k \in Nat /\ m * k \in Nat /\ (n + 1) * k = n * k + k
  OBVIOUS
<1>2. ASSUME NEW a \in Nat, NEW b \in Nat, a <= b PROVE a * k <= b * k
  <2>1. PICK d \in Nat : b = a + d
    <3>1. b - a \in Nat /\ b = a + (b - a)
      BY <1>2
    <3> QED
      BY <3>1
  <2>2. b * k = a * k + d * k /\ d * k \in Nat /\ a * k \in Nat
    BY <2>1
  <2> QED
    BY <2>2
<1>3. n * k < m * k => n < m
  BY <1>1, <1>2
<1> QED
  BY <1>1, <1>2, <1>3

LEMMA MarketStep == MKInv /\ [MKNext]_mkVars => MKInv'
<1> SUFFICES ASSUME MKInv, [MKNext]_mkVars PROVE MKInv'
  OBVIOUS
<1>1. MKTypes /\ StakesInv /\ Sum(evidence) <= MaxEvidence
  BY DEF MKInv
<1>2. DOMAIN stakes = Positions /\ DOMAIN evidence = Answers
      /\ stakes \in [Positions -> Int] /\ evidence \in [Answers -> Int]
  BY <1>1 DEF MKTypes
<1>3. ASSUME NEW p \in Positions, Stake(p) PROVE MKInv'
  <2>1. stakes' = [stakes EXCEPT ![p] = @ + StakeSize] /\ UNCHANGED <<evidence, frozen>>
        /\ Sum(stakes) < MaxStakes * StakeSize
    BY <1>3 DEF Stake
  <2>2. stakes' \in [Positions -> Nat]
    BY <1>1, <2>1, BoundsNat DEF MKTypes
  <2>3. Sum(stakes') = Sum(stakes) + StakeSize
    <3>1. SumOver(stakes', Positions) = SumOver(stakes, Positions) + StakeSize
      <4>1. PICK f \in [Positions -> Int], g \in [Positions -> Int], k \in Int :
               f = stakes /\ g = stakes' /\ k = StakeSize
        BY <1>2, <2>2, BoundsNat
      <4>3. g[p] = f[p] + k /\ \A y \in Positions \ {p} : f[y] = g[y]
        BY <1>2, <2>1, <4>1
      <4>2. SumOver(g, Positions) = SumOver(f, Positions) + k
        BY <4>3, AllPositions, SumChange
      <4> QED
        BY <4>1, <4>2
    <3> QED
      BY <1>2, <2>2, <3>1 DEF Sum
  <2>4. PICK n \in 0..MaxStakes : Sum(stakes) = n * StakeSize
    BY <1>1 DEF StakesInv
  <2>5. n < MaxStakes /\ n \in Nat /\ Sum(stakes') = (n + 1) * StakeSize
    BY <2>1, <2>3, <2>4, BoundsNat, Products
  <2>6. StakesInv'
    <3>1. n + 1 \in 0..MaxStakes
      BY <2>5, BoundsNat
    <3> QED
      BY <2>5, <3>1 DEF StakesInv, Sum
  <2>7. (Sum(evidence) <= MaxEvidence)' /\ MKTypes'
    BY <1>1, <2>1, <2>2 DEF MKTypes, Sum
  <2> QED
    BY <2>6, <2>7 DEF MKInv
<1>4. ASSUME NEW side \in Answers, SubmitEvidence(side) PROVE MKInv'
  <2>1. evidence' = [evidence EXCEPT ![side] = @ + 1] /\ UNCHANGED <<stakes, frozen>>
        /\ Sum(evidence) < MaxEvidence
    BY <1>4 DEF SubmitEvidence
  <2>2. evidence' \in [Answers -> Nat]
    BY <1>1, <2>1 DEF MKTypes
  <2>3. Sum(evidence') = Sum(evidence) + 1
    <3>1. SumOver(evidence', Answers) = SumOver(evidence, Answers) + 1
      <4>1. PICK f \in [Answers -> Int], g \in [Answers -> Int], k \in Int :
               f = evidence /\ g = evidence' /\ k = 1
        BY <1>2, <2>2
      <4>2. Answers \in SUBSET Answers /\ IsFiniteSet(Answers)
        BY KindsFinite
      <4>3. g[side] = f[side] + k /\ \A y \in Answers \ {side} : f[y] = g[y]
        BY <1>2, <2>1, <4>1
      <4>4. SumOver(g, Answers) = SumOver(f, Answers) + k
        BY <4>2, <4>3, SumChange
      <4> QED
        BY <4>1, <4>4
    <3> QED
      BY <1>2, <2>2, <3>1 DEF Sum
  <2>4. Sum(evidence) \in Int
    BY <1>2, KindsFinite, SumPlus DEF Splits, Sum
  <2>5. Sum(evidence') <= MaxEvidence
    BY <2>1, <2>3, <2>4, BoundsNat
  <2>6. StakesInv' /\ MKTypes'
    BY <1>1, <2>1, <2>2 DEF MKTypes, StakesInv, Sum
  <2> QED
    BY <2>5, <2>6 DEF MKInv, Sum
<1>5. ASSUME stakes' = stakes, evidence' = evidence, frozen' \in BOOLEAN PROVE MKInv'
  <2>1. MKTypes'
    BY <1>1, <1>5 DEF MKTypes
  <2>2. Sum(stakes') = Sum(stakes) /\ Sum(evidence') = Sum(evidence)
    BY <1>5, Zenon
  <2> QED
    BY <1>1, <2>1, <2>2 DEF MKInv, StakesInv, Sum
<1>6. CASE Snapshot
  BY <1>5, <1>6 DEF Snapshot
<1>7. CASE UNCHANGED mkVars
  BY <1>1, <1>5, <1>7 DEF mkVars, MKTypes
<1> QED
  BY <1>3, <1>4, <1>6, <1>7 DEF MKNext

LEMMA MarketType == MKInv => MKTypeOK
<1> SUFFICES ASSUME MKInv PROVE MKTypeOK
  OBVIOUS
<1>1. MKTypes /\ stakes \in [Positions -> Int] /\ evidence \in [Answers -> Int]
      /\ Sum(stakes) = SumOver(stakes, Positions) /\ Sum(evidence) = SumOver(evidence, Answers)
  BY DEF MKInv, MKTypes, Sum
<1>2. ASSUME NEW p \in Positions PROVE stakes[p] \in 0..(MaxStakes * StakeSize)
  <2>1. stakes[p] \in Nat /\ stakes[p] <= Sum(stakes) /\ Sum(stakes) \in Nat
    BY <1>1, AllPositions, SumNat DEF MKTypes
  <2>2. PICK n \in 0..MaxStakes : Sum(stakes) = n * StakeSize
    BY DEF MKInv, StakesInv
  <2>3. Sum(stakes) <= MaxStakes * StakeSize /\ MaxStakes * StakeSize \in Nat
    BY <2>2, BoundsNat, Products
  <2> QED
    BY <2>1, <2>3
<1>3. ASSUME NEW s \in Answers PROVE evidence[s] \in 0..MaxEvidence
  <2>1. evidence[s] \in Nat /\ evidence[s] <= Sum(evidence) /\ Sum(evidence) \in Nat
    BY <1>1, KindsFinite, SumNat DEF MKTypes
  <2>2. Sum(evidence) <= MaxEvidence
    BY DEF MKInv
  <2> QED
    BY <2>1, <2>2, BoundsNat
<1> QED
  BY <1>1, <1>2, <1>3, OutcomeOne DEF MKTypeOK, MKTypes


\* MKTypeOK: whole stakes are made and no more than the bounds allow, and at
\* most one answer is the outcome, for any thresholds resolution.py allows.
THEOREM MarketTypeCorrect == MKSpec => []MKTypeOK
<1>1. MKInit => MKInv
  BY MarketInit
<1>2. MKInv /\ [MKNext]_mkVars => MKInv'
  BY MarketStep
<1>3. MKInv => MKTypeOK
  BY MarketType
<1> QED
  BY <1>1, <1>2, <1>3, PTL DEF MKSpec

-----------------------------------------------------------------------------
\* What a settlement adds up to.
LEMMA Shares ==
  ASSUME NEW x \in Nat, NEW y \in Nat
  PROVE  /\ y > 0 => x \div y \in Nat /\ (x \div y) * y <= x /\ (x % y = 0 => (x \div y) * y = x)
         /\ (x * y) \div 100 \in Nat
         /\ y <= 10 => (x * y) \div 100 <= x
<1>1. y > 0 => x \div y \in Nat /\ (x \div y) * y <= x /\ (x % y = 0 => (x \div y) * y = x)
  OBVIOUS
<1>2. (x * y) \div 100 \in Nat
  OBVIOUS
<1>3. y <= 10 => (x * y) \div 100 <= x
  <2> SUFFICES ASSUME y <= 10 PROVE (x * y) \div 100 <= x
    OBVIOUS
  <2>1. PICK z \in Nat : z = x * y
    OBVIOUS
  <2>2. y * x <= 10 * x
    BY Products
  <2>3. z <= 10 * x
    BY <2>1, <2>2
  <2> QED
    BY <2>1, <2>3
<1> QED
  BY <1>1, <1>2, <1>3

LEMMA Cancel ==
  ASSUME NEW a \in Nat, NEW b \in Nat, NEW k \in Nat, k > 0
  PROVE  (a * k <= b * k => a <= b) /\ (a * k = b * k => a = b)
OBVIOUS

\* Sums are monotonic.
LEMMA SumLess ==
  ASSUME NEW D, NEW f \in [D -> Int], NEW g \in [D -> Int], NEW S \in SUBSET D, IsFiniteSet(S),
         \A x \in S : f[x] <= g[x]
  PROVE  SumOver(f, S) <= SumOver(g, S)
<1> DEFINE T == {s \in SUBSET S : SumOver(f, s) <= SumOver(g, s)}
<1>1. \A s \in SUBSET S : s \in SUBSET D /\ IsFiniteSet(s)
  BY FS_Subset
<1>2. {} \in T
  <2>1. SumOver(f, {}) = 0 /\ SumOver(g, {}) = 0
    BY SumEmpty
  <2> QED
    BY <2>1
<1>3. ASSUME NEW s \in SUBSET S, s # {}, \A y \in s : s \ {y} \in T PROVE s \in T
  <2>1. PICK x \in s : TRUE
    BY <1>3
  <2>2. Splits(f, s) /\ Splits(g, s)
    BY <1>1, SumPlus
  <2>3. SumOver(f, s) = f[x] + SumOver(f, s \ {x}) /\ SumOver(g, s) = g[x] + SumOver(g, s \ {x})
    BY <2>2 DEF Splits
  <2>4. SumOver(f, s \ {x}) \in Int /\ SumOver(g, s \ {x}) \in Int
    <3>1. s \ {x} \in SUBSET D /\ IsFiniteSet(s \ {x})
      BY <1>1
    <3> QED
      BY <3>1, SumPlus DEF Splits
  <2>5. SumOver(f, s \ {x}) <= SumOver(g, s \ {x}) /\ f[x] <= g[x] /\ f[x] \in Int /\ g[x] \in Int
    BY <1>3
  <2> QED
    BY <2>3, <2>4, <2>5
<1> HIDE DEF T
<1>4. \A s \in SUBSET S : s \in T
  BY <1>2, <1>3, SubsetsFrom
<1> QED
  BY <1>4 DEF T

\* A sum over all positions is the sum over those on some sides and on the others.
LEMMA SumBySides ==
  ASSUME NEW f \in [Positions -> Int], NEW sides \in SUBSET Sides
  PROVE  /\ SumOver(f, Positions)
              = SumOver(f, Stakers \X sides \X RepTypes) + SumOver(f, Stakers \X (Sides \ sides) \X RepTypes)
         /\ SumOver(f, Stakers \X sides \X RepTypes)
              = SumOver(f, Stakers \X sides \X {"oracle"}) + SumOver(f, Stakers \X sides \X {"common"})
<1>1. PICK A \in SUBSET Positions, B \in SUBSET Positions :
         A = Stakers \X sides \X RepTypes /\ B = Stakers \X (Sides \ sides) \X RepTypes
  BY PlacesFinite
<1>2. PICK C \in SUBSET Positions, E \in SUBSET Positions :
         C = Stakers \X sides \X {"oracle"} /\ E = Stakers \X sides \X {"common"}
  BY PlacesFinite DEF RepTypes
<1>3. IsFiniteSet(A) /\ IsFiniteSet(B) /\ IsFiniteSet(C) /\ IsFiniteSet(E)
  BY <1>1, <1>2, PlacesFinite DEF RepTypes
<1>4. A \cap B = {} /\ A \cup B = Positions
  BY <1>1 DEF Positions
<1>5. C \cap E = {} /\ C \cup E = A
  BY <1>1, <1>2 DEF RepTypes
<1>6. SumOver(f, A \cup B) = SumOver(f, A) + SumOver(f, B)
  BY <1>3, <1>4, SumUnion
<1>7. SumOver(f, C \cup E) = SumOver(f, C) + SumOver(f, E)
  BY <1>3, <1>5, SumUnion
<1> QED
  BY <1>1, <1>2, <1>4, <1>5, <1>6, <1>7

LEMMA SumZero ==
  ASSUME NEW D, NEW f \in [D -> Int], NEW S \in SUBSET D, IsFiniteSet(S), \A x \in S : f[x] = 0
  PROVE  SumOver(f, S) = 0
<1>1. SumOver(f, S) = 0 * SumOver(f, S)
  BY SumScaled
<1>2. SumOver(f, S) \in Int
  BY SumPlus DEF Splits
<1> QED
  BY <1>1, <1>2

LEMMA WholeSum ==
  ASSUME MKTypes
  PROVE  Staked = SumOver(Amounts, Positions) /\ Sum(Amounts) = Staked /\ Sum(Nothing) = 0
         /\ Staked \in Nat /\ Bonds(Answers) \in Nat
<1>1. Staked = SumOver(Amounts, Positions)
  BY DEF Staked, PoolOf, Positions
<1>2. Sum(Amounts) = Staked
  BY <1>1 DEF Sum, Amounts
<1>3. Nothing \in [Positions -> Int] /\ DOMAIN Nothing = Positions /\ \A p \in Positions : Nothing[p] = 0
  BY DEF Nothing
<1>4. Sum(Nothing) = 0
  BY <1>3, AllPositions, SumZero DEF Sum
<1>5. Staked \in Nat
  BY PoolType DEF Staked
<1>6. SumOver(evidence, Answers) \in Nat
  <2>1. evidence \in [Answers -> Int] /\ \A s \in Answers : evidence[s] \in Nat
    BY DEF MKTypes
  <2> QED
    BY <2>1, KindsFinite, SumNat
<1>7. Bonds(Answers) \in Nat
  BY <1>6, BoundsNat, Products DEF Bonds
<1> QED
  BY <1>1, <1>2, <1>4, <1>5, <1>7

LEMMA BurnedRest ==
  ASSUME MKTypes, NEW sides \in SUBSET Sides
  PROVE  Sum(AfterBurn(sides)) \in Int
<1>1. ASSUME NEW p \in Positions PROVE Amount(p) \in Nat /\ Burn(Amount(p), StalePct) \in Nat
  <2>1. Amount(p) \in Nat
    BY AmountsType DEF Amounts
  <2>2. StalePct \in Nat
    BY MarketAssumption
  <2> QED
    BY <2>1, <2>2, Shares DEF Burn
<1>2. AfterBurn(sides) \in [Positions -> Int]
  BY <1>1 DEF AfterBurn
<1>3. DOMAIN AfterBurn(sides) = Positions
  BY DEF AfterBurn
<1>4. SumOver(AfterBurn(sides), Positions) \in Int
  BY <1>2, AllPositions, SumPlus DEF Splits
<1> QED
  BY <1>3, <1>4 DEF Sum


-----------------------------------------------------------------------------
\* The settlement for the winning side.
Won(side) ==
  [p \in Positions |->
     IF Side(p) = side /\ Settles(side, RepType(p))
     THEN (Amount(p) * Shared(side, RepType(p))) \div PoolOf({side}, {RepType(p)}) ELSE 0]
WonOf(side, rep) == SumOver(Won(side), Stakers \X {side} \X {rep})
BurnedOf(side, rep) == IF Settles(side, rep) THEN LoserBurn(side, rep) ELSE 0
WholeOf(side, rep) ==
  \A p \in Stakers \X {side} \X {rep} :
    Settles(side, rep) => (Amount(p) * Shared(side, rep)) % PoolOf({side}, {rep}) = 0

LEMMA Pools ==
  ASSUME MKTypes, NEW side \in Answers, NEW rep \in RepTypes
  PROVE  /\ PoolOf({side}, {rep}) \in Nat /\ PoolOf(Losing(side), {rep}) \in Nat
         /\ LoserBurn(side, rep) \in Nat /\ Shared(side, rep) \in Nat
         /\ Shared(side, rep) + LoserBurn(side, rep) = PoolOf(Losing(side), {rep})
<1>1. {side} \in SUBSET Sides /\ Losing(side) \in SUBSET Sides /\ {rep} \in SUBSET RepTypes
  BY DEF Sides, Losing
<1>2. PoolOf({side}, {rep}) \in Nat /\ PoolOf(Losing(side), {rep}) \in Nat
  BY <1>1, PoolType
<1>3. LoserPct \in Nat /\ LoserPct <= 10
  BY MarketAssumption
<1>4. LoserBurn(side, rep) \in Nat /\ LoserBurn(side, rep) <= PoolOf(Losing(side), {rep})
  BY <1>2, <1>3, Shares DEF LoserBurn, Burn
<1> QED
  BY <1>2, <1>4 DEF Shared

\* In each kind of reputation the winners are paid at most what the losers
\* leave after the burn, and all of it if no share is rounded.
LEMMA KindSettled ==
  ASSUME MKTypes, NEW side \in Answers, NEW rep \in RepTypes
  PROVE  /\ Won(side) \in [Positions -> Int] /\ WonOf(side, rep) \in Nat
         /\ BurnedOf(side, rep) \in Nat /\ Lost(side, rep) \in Nat
         /\ WonOf(side, rep) + BurnedOf(side, rep) + Lost(side, rep) <= PoolOf(Losing(side), {rep})
         /\ WholeOf(side, rep) =>
              WonOf(side, rep) + BurnedOf(side, rep) + Lost(side, rep) = PoolOf(Losing(side), {rep})
<1>1. PICK S \in SUBSET Positions : S = Stakers \X {side} \X {rep} /\ IsFiniteSet(S)
  <2>1. {side} \in SUBSET Sides /\ {rep} \in SUBSET RepTypes
    BY DEF Sides
  <2> QED
    BY <2>1, PlacesFinite
<1>2. PICK pool \in Nat, left \in Nat, rest \in Nat, burned \in Nat :
        /\ pool = PoolOf({side}, {rep}) /\ left = PoolOf(Losing(side), {rep})
        /\ rest = Shared(side, rep) /\ burned = LoserBurn(side, rep) /\ rest + burned = left
  BY Pools
<1>3. Won(side) \in [Positions -> Int] /\ \A p \in Positions : Won(side)[p] \in Nat
  <2>1. ASSUME NEW p \in Positions, Settles(side, RepType(p))
        PROVE  (Amount(p) * Shared(side, RepType(p))) \div PoolOf({side}, {RepType(p)}) \in Nat
    <3>1. RepType(p) \in RepTypes
      BY DEF Positions, RepType
    <3>2. PICK a \in Nat, b \in Nat, c \in Nat :
            a = Amount(p) /\ b = Shared(side, RepType(p)) /\ c = PoolOf({side}, {RepType(p)}) /\ c > 0
      BY <2>1, <3>1, Pools, AmountsType DEF Amounts, Settles
    <3>3. a * b \in Nat
      OBVIOUS
    <3> QED
      BY <3>2, <3>3, Shares
  <2>2. PICK f : f = Won(side)
    OBVIOUS
  <2>3. f = [p \in Positions |-> f[p]]
    BY <2>2 DEF Won
  <2>4. \A p \in Positions : f[p] \in Nat
    BY <2>1, <2>2 DEF Won
  <2>5. f \in [Positions -> Int]
    BY <2>3, <2>4
  <2> QED
    BY <2>2, <2>4, <2>5
<1>4. PICK w \in Nat : w = WonOf(side, rep)
  BY <1>1, <1>3, SumNat DEF WonOf
<1>5. \A p \in S : p \in Positions /\ Side(p) = side /\ RepType(p) = rep
  BY <1>1 DEF Side, RepType
<1>6. SumOver(Amounts, S) = pool
  BY <1>1, <1>2 DEF PoolOf
<1>7. CASE ~Settles(side, rep)
  <2>1. \A p \in S : Won(side)[p] = 0
    BY <1>5, <1>7 DEF Won
  <2>2. w = 0
    BY <1>1, <1>3, <1>4, <2>1, SumZero DEF WonOf
  <2>3. pool = 0 \/ left = 0
    BY <1>2, <1>7 DEF Settles
  <2> QED
    BY <1>2, <1>3, <1>4, <1>7, <2>2, <2>3 DEF BurnedOf, Lost
<1>8. CASE Settles(side, rep)
  <2>1. pool > 0 /\ left > 0
    BY <1>2, <1>8 DEF Settles
  <2>0. PICK f \in [Positions -> Int], am \in [Positions -> Int] :
           /\ f = Won(side) /\ am = Amounts
           /\ \A p \in Positions : pool * f[p] \in Int /\ rest * am[p] \in Int
    <3>1. \A p \in Positions : Won(side)[p] \in Nat /\ Amounts[p] \in Nat
      BY <1>3, AmountsType
    <3>2. \A p \in Positions : pool * Won(side)[p] \in Int /\ rest * Amounts[p] \in Int
      <4>1. \A a \in Nat, b \in Nat : a * b \in Int
        OBVIOUS
      <4>2. pool \in Nat /\ rest \in Nat
        OBVIOUS
      <4> QED
        BY <3>1, <4>1, <4>2
    <3> QED
      BY <1>3, <3>2, AmountsType
  <2>2. PICK g \in [Positions -> Int] : g = [p \in Positions |-> pool * f[p]]
    BY <2>0
  <2>3. PICK h \in [Positions -> Int] : h = [p \in Positions |-> rest * am[p]]
    BY <2>0
  <2>4. SumOver(g, S) = pool * w
    <3>1. \A p \in S : g[p] = pool * f[p]
      BY <2>2
    <3>2. SumOver(g, S) = pool * SumOver(f, S)
      BY <1>1, <3>1, SumScaled
    <3> QED
      BY <1>1, <1>4, <2>0, <3>2 DEF WonOf
  <2>5. SumOver(h, S) = rest * pool
    <3>0. PICK k \in Int : k = rest
      OBVIOUS
    <3>1. \A p \in S : h[p] = k * am[p]
      BY <2>3, <3>0
    <3>4. S \in SUBSET Positions /\ IsFiniteSet(S)
      BY <1>1
    <3>2. SumOver(h, S) = k * SumOver(am, S)
      BY <3>1, <3>4, SumScaled
    <3>3. SumOver(am, S) = pool
      BY <1>6, <2>0
    <3> QED
      BY <3>0, <3>2, <3>3
  <2>6. ASSUME NEW p \in S
        PROVE  g[p] <= h[p] /\ (WholeOf(side, rep) => g[p] = h[p])
    <3>1. PICK a \in Nat : a = Amount(p) /\ a = Amounts[p]
      BY <1>5, AmountsType DEF Amounts
    <3>2. Won(side)[p] = (a * rest) \div pool
      BY <1>2, <1>5, <1>8, <3>1 DEF Won
    <3>3. PICK x \in Nat : x = a * rest
      OBVIOUS
    <3>4. x \div pool \in Nat /\ (x \div pool) * pool <= x
      BY <2>1, Shares
    <3>5. WholeOf(side, rep) => (x \div pool) * pool = x
      <4>1. WholeOf(side, rep) => x % pool = 0
        BY <1>1, <1>2, <1>8, <3>1, <3>3 DEF WholeOf
      <4> QED
        BY <2>1, <4>1, Shares
    <3>6. PICK q \in Nat : q = x \div pool
      BY <3>4
    <3>7. g[p] = q * pool /\ h[p] = x
      BY <1>5, <2>0, <2>2, <2>3, <3>1, <3>2, <3>3, <3>6
    <3> QED
      BY <3>4, <3>5, <3>6, <3>7
  <2>7. w <= rest
    <3>1. SumOver(g, S) <= SumOver(h, S)
      BY <1>1, <2>6, SumLess
    <3>2. w * pool <= rest * pool
      BY <2>4, <2>5, <3>1
    <3> QED
      BY <2>1, <3>2, Cancel
  <2>8. WholeOf(side, rep) => w = rest
    <3> SUFFICES ASSUME WholeOf(side, rep) PROVE w = rest
      OBVIOUS
    <3>1. SumOver(g, S) = SumOver(h, S)
      BY <1>1, <2>6, SumSame
    <3>2. w * pool = rest * pool
      BY <2>4, <2>5, <3>1
    <3> QED
      BY <2>1, <3>2, Cancel
  <2>9. BurnedOf(side, rep) = burned /\ Lost(side, rep) = 0
    BY <1>2, <1>8, <2>1 DEF BurnedOf, Lost
  <2> QED
    BY <1>2, <1>3, <1>4, <2>7, <2>8, <2>9
<1> QED
  BY <1>7, <1>8

\* All that is won is won on the winning side.
LEMMA WonInAll ==
  ASSUME MKTypes, NEW side \in Answers
  PROVE  Sum(Won(side)) = WonOf(side, "oracle") + WonOf(side, "common")
<1>1. {side} \in SUBSET Sides /\ Sides \ {side} \in SUBSET Sides /\ RepTypes \in SUBSET RepTypes
  BY DEF Sides
<1>2. PICK f \in [Positions -> Int] : f = Won(side)
  BY KindSettled DEF RepTypes
<1>3. PICK B \in SUBSET Positions : B = Stakers \X (Sides \ {side}) \X RepTypes /\ IsFiniteSet(B)
  BY <1>1, PlacesFinite
<1>4. \A p \in B : f[p] = 0
  BY <1>2, <1>3 DEF Won, Side, Positions
<1>5. SumOver(f, B) = 0
  BY <1>3, <1>4, SumZero
<1>6. /\ SumOver(f, Positions) = SumOver(f, Stakers \X {side} \X RepTypes) + SumOver(f, B)
      /\ SumOver(f, Stakers \X {side} \X RepTypes)
           = SumOver(f, Stakers \X {side} \X {"oracle"}) + SumOver(f, Stakers \X {side} \X {"common"})
  BY <1>1, <1>3, SumBySides
<1>7. WonOf(side, "oracle") \in Nat /\ WonOf(side, "common") \in Nat
  BY KindSettled DEF RepTypes
<1> QED
  BY <1>2, <1>5, <1>6, <1>7 DEF WonOf, Sum, Won


\* What is returned to those not on the losing side.
LEMMA BackInAll ==
  ASSUME MKTypes, NEW side \in Answers
  PROVE  /\ Sum(Decided(side).back) + PoolOf(Losing(side), {"oracle"}) + PoolOf(Losing(side), {"common"})
              = Staked
         /\ Sum(Decided(side).back) \in Nat
<1>1. Losing(side) \in SUBSET Sides /\ Sides \ Losing(side) \in SUBSET Sides /\ RepTypes \in SUBSET RepTypes
  BY DEF Losing, Sides
<1>2. PICK b : b = Decided(side).back
  OBVIOUS
<1>3. b = [p \in Positions |-> IF Side(p) \in Losing(side) THEN 0 ELSE Amount(p)]
  BY <1>2 DEF Decided, Settlement
<1>4. PICK am \in [Positions -> Int] : am = Amounts /\ \A p \in Positions : am[p] = Amount(p) /\ am[p] \in Nat
  BY AmountsType DEF Amounts
<1>5. b \in [Positions -> Int] /\ \A p \in Positions : b[p] \in Nat
  BY <1>3, <1>4
<1>6. PICK A \in SUBSET Positions, B \in SUBSET Positions :
        /\ A = Stakers \X Losing(side) \X RepTypes /\ B = Stakers \X (Sides \ Losing(side)) \X RepTypes
        /\ IsFiniteSet(A) /\ IsFiniteSet(B)
  BY <1>1, PlacesFinite
<1>7. SumOver(b, A) = 0
  <2>1. \A p \in A : b[p] = 0
    BY <1>3, <1>6 DEF Side
  <2> QED
    BY <1>5, <1>6, <2>1, SumZero
<1>8. SumOver(b, B) = SumOver(am, B)
  <2>1. \A p \in B : b[p] = am[p]
    BY <1>3, <1>4, <1>6 DEF Side
  <2> QED
    BY <1>4, <1>5, <1>6, <2>1, SumSame
<1>9. SumOver(b, Positions) = SumOver(b, A) + SumOver(b, B)
  BY <1>1, <1>5, <1>6, SumBySides
<1>10. /\ SumOver(am, Positions) = SumOver(am, A) + SumOver(am, B)
       /\ SumOver(am, A) = PoolOf(Losing(side), {"oracle"}) + PoolOf(Losing(side), {"common"})
  BY <1>1, <1>4, <1>6, SumBySides DEF PoolOf
<1>11. Staked = SumOver(am, Positions) /\ Sum(b) = SumOver(b, Positions)
  BY <1>3, <1>4, WholeSum DEF Sum
<1>12. SumOver(b, B) \in Nat
  BY <1>5, <1>6, SumNat
<1>13. PoolOf(Losing(side), {"oracle"}) \in Nat /\ PoolOf(Losing(side), {"common"}) \in Nat
  BY Pools DEF RepTypes
<1> QED
  BY <1>2, <1>7, <1>8, <1>9, <1>10, <1>11, <1>12, <1>13

LEMMA BondsInAll ==
  ASSUME MKTypes, NEW side \in Answers
  PROVE  /\ Bonds({side}) + Bonds(Losing(side)) = Bonds(Answers)
         /\ Bonds({side}) \in Nat /\ Bonds(Losing(side)) \in Nat
<1>1. PICK e \in [Answers -> Int] : e = evidence /\ \A s \in Answers : e[s] \in Nat
  BY DEF MKTypes
<1>2. PICK A \in SUBSET Answers, B \in SUBSET Answers :
         A = {side} /\ B = Losing(side) /\ A \cup B = Answers /\ A \cap B = {}
  <2>1. {side} \in SUBSET Answers /\ Losing(side) \in SUBSET Answers
    BY DEF Losing
  <2>2. {side} \cup Losing(side) = Answers /\ {side} \cap Losing(side) = {}
    BY DEF Losing
  <2> QED
    BY <2>1, <2>2
<1>3. IsFiniteSet(A) /\ IsFiniteSet(B)
  BY KindsFinite, FS_Subset
<1>4. SumOver(e, A \cup B) = SumOver(e, A) + SumOver(e, B)
  BY <1>2, <1>3, SumUnion
<1>5. PICK x \in Nat, y \in Nat : x = SumOver(e, A) /\ y = SumOver(e, B)
  BY <1>1, <1>3, SumNat
<1>6. Bond * (x + y) = Bond * x + Bond * y /\ Bond * x \in Nat /\ Bond * y \in Nat
  BY BoundsNat
<1> QED
  BY <1>1, <1>2, <1>4, <1>5, <1>6 DEF Bonds

LEMMA SmallerOf ==
  ASSUME NEW a \in Nat, NEW b \in Nat
  PROVE  Min({a, b}) \in Nat
<1>1. \E x \in {a, b} : \A y \in {a, b} : x <= y
  <2>1. CASE a <= b
    BY <2>1
  <2>2. CASE b <= a
    BY <2>2
  <2> QED
    BY <2>1, <2>2
<1> QED
  BY <1>1 DEF Min

Balance == Staked + Bonds(Answers)

\* A settlement without a winner returns or burns everything, to the last unit.
LEMMA KeptWithoutWinner ==
  ASSUME MKTypes, Outcome = {}
  PROVE  Accounted = Balance
<1>1. Unclaimed = 0
  BY DEF Unclaimed
<1>2. PICK s \in Nat, b \in Nat : s = Staked /\ b = Bonds(Answers)
  BY WholeSum
<1>3. Sum(Amounts) = s /\ Sum(Nothing) = 0
  BY <1>2, WholeSum
<1>4. ASSUME Resolution = Refund PROVE Accounted = Balance
  <2>1. Resolution.back = Amounts /\ Resolution.won = Nothing /\ Resolution.bonds = b
        /\ Resolution.bonus = 0 /\ Resolution.burned = 0
    BY <1>2, <1>4 DEF Refund, Settlement
  <2> QED
    BY <1>1, <1>2, <1>3, <2>1 DEF Accounted, Balance
<1>5. ASSUME Resolution = Doubted PROVE Accounted = Balance
  <2>1. PICK c \in Int : c = Sum(AfterBurn(Answers))
    BY BurnedRest, KindsFinite
  <2>2. Resolution.back = AfterBurn(Answers) /\ Resolution.won = Nothing /\ Resolution.bonds = 0
        /\ Resolution.bonus = 0 /\ Resolution.burned = (s - c) + b
    BY <1>2, <1>5, <2>1 DEF Doubted, Settlement, StaleBurn
  <2> QED
    BY <1>1, <1>2, <1>3, <2>1, <2>2 DEF Accounted, Balance
<1>6. ASSUME Resolution = Stalemate PROVE Accounted = Balance
  <2>1. PICK c \in Int : c = Sum(AfterBurn(Sides))
    BY BurnedRest
  <2>2. Resolution.back = AfterBurn(Sides) /\ Resolution.won = Nothing /\ Resolution.bonds = b
        /\ Resolution.bonus = 0 /\ Resolution.burned = s - c
    BY <1>2, <1>6, <2>1 DEF Stalemate, Settlement, StaleBurn
  <2> QED
    BY <1>1, <1>2, <1>3, <2>1, <2>2 DEF Accounted, Balance
<1>7. Resolution \in {Refund, Doubted, Stalemate}
  BY DEF Resolution
<1> QED
  BY <1>4, <1>5, <1>6, <1>7

\* A settlement with a winner.
LEMMA KeptWithWinner ==
  ASSUME MKTypes, NEW side \in Answers, Outcome = {side}
  PROVE  Accounted <= Balance /\ (SharesWhole => Accounted = Balance)
<1>1. (CHOOSE s \in Outcome : TRUE) = side
  OBVIOUS
<1>2. Resolution = Decided(side)
  <2>1. ~NoEvidence /\ ~InDoubt /\ ~(OracleTotal < MinStake) /\ Winning # {} /\ Outcome # {}
    BY OutcomeOne DEF Outcome
  <2> QED
    BY <1>1, <2>1 DEF Resolution
<1>3. Unclaimed = Lost(side, "oracle") + Lost(side, "common")
  BY <1>1 DEF Unclaimed
<1>4. PICK b1 \in Nat, b2 \in Nat : b1 = Bonds({side}) /\ b2 = Bonds(Losing(side)) /\ Bonds(Answers) = b1 + b2
  BY BondsInAll
<1>5. PICK bonus \in Nat : bonus = Min({FirstBonus, b2})
  BY BoundsNat, SmallerOf
<1>6. PICK wo \in Nat, wc \in Nat, bo \in Nat, bc \in Nat, uo \in Nat, uc \in Nat :
        /\ wo = WonOf(side, "oracle") /\ wc = WonOf(side, "common")
        /\ bo = BurnedOf(side, "oracle") /\ bc = BurnedOf(side, "common")
        /\ uo = Lost(side, "oracle") /\ uc = Lost(side, "common")
  BY KindSettled DEF RepTypes
<1>7. PICK lo \in Nat, lc \in Nat, back \in Nat :
        /\ lo = PoolOf(Losing(side), {"oracle"}) /\ lc = PoolOf(Losing(side), {"common"})
        /\ back = Sum(Decided(side).back) /\ back + lo + lc = Staked
  BY Pools, BackInAll DEF RepTypes
<1>8. /\ wo + bo + uo <= lo /\ wc + bc + uc <= lc
      /\ WholeOf(side, "oracle") => wo + bo + uo = lo
      /\ WholeOf(side, "common") => wc + bc + uc = lc
  BY <1>6, <1>7, KindSettled DEF RepTypes
<1>9. SharesWhole => WholeOf(side, "oracle") /\ WholeOf(side, "common")
  <2> SUFFICES ASSUME SharesWhole, NEW rep \in RepTypes PROVE WholeOf(side, rep)
    BY DEF RepTypes
  <2>1. ASSUME NEW p \in Stakers \X {side} \X {rep}
        PROVE  p \in Positions /\ Side(p) = side /\ RepType(p) = rep
    BY DEF Positions, Side, RepType, Sides
  <2> QED
    BY <2>1 DEF SharesWhole, WholeOf
<1>10. /\ Decided(side).won = Won(side) /\ Decided(side).bonds = b1 /\ Decided(side).bonus = bonus
       /\ Decided(side).burned = bo + bc + b2 - bonus
  BY <1>4, <1>5, <1>6 DEF Decided, Settlement, Won, BurnedOf
<1>11. Sum(Won(side)) = wo + wc
  BY <1>6, WonInAll
<1>12. Accounted = back + (wo + wc) + b1 + bonus + (bo + bc + b2 - bonus) + (uo + uc)
  BY <1>2, <1>3, <1>6, <1>7, <1>10, <1>11 DEF Accounted
<1>13. Balance = (back + lo + lc) + (b1 + b2)
  BY <1>4, <1>7 DEF Balance
<1> QED
  BY <1>8, <1>9, <1>12, <1>13

LEMMA SettlementKeeps ==
  ASSUME MKTypes
  PROVE  Accounted <= Balance /\ (SharesWhole => MKConserved)
<1>1. Balance \in Int
  BY WholeSum DEF Balance
<1>2. CASE Outcome = {}
  BY <1>1, <1>2, KeptWithoutWinner DEF MKConserved, Balance
<1>3. CASE Outcome # {}
  <2>1. PICK side \in Outcome : side \in Answers
    BY <1>3, OutcomeOne
  <2>2. Outcome = {side}
    BY <2>1, OutcomeOne, OneWins
  <2> QED
    BY <2>1, <2>2, KeptWithWinner DEF MKConserved, Balance
<1> QED
  BY <1>2, <1>3

\* No settlement makes reputation: whatever the rounding, no more is returned,
\* won, paid as a bonus and burned than was staked and bonded.
NoneMade == Accounted <= Staked + Bonds(Answers)
THEOREM NoneIsMade == MKSpec => []NoneMade
<1>1. MKInit => MKInv
  BY MarketInit
<1>2. MKInv /\ [MKNext]_mkVars => MKInv'
  BY MarketStep
<1>3. MKInv => NoneMade
  BY SettlementKeeps DEF MKInv, NoneMade, Balance
<1> QED
  BY <1>1, <1>2, <1>3, PTL DEF MKSpec

\* And where no share is rounded, none is lost either (MKConserved).
THEOREM NoneIsLost == MKSpec => [](SharesWhole => MKConserved)
<1>1. MKInit => MKInv
  BY MarketInit
<1>2. MKInv /\ [MKNext]_mkVars => MKInv'
  BY MarketStep
<1>3. MKInv => (SharesWhole => MKConserved)
  BY SettlementKeeps DEF MKInv
<1> QED
  BY <1>1, <1>2, <1>3, PTL DEF MKSpec


-----------------------------------------------------------------------------
\* A petition.  Days are numbers: sets of them have a first and a last.
LEMMA FirstDay ==
  ASSUME NEW S \in SUBSET Nat, S # {}
  PROVE  Min(S) \in S /\ \A y \in S : Min(S) <= y
<1>1. PICK n \in S : \A k \in S : ~(<<k, n>> \in OpToRel(<, Nat))
  BY NatLessThanWellFounded, WFMin, Zenon
<1>2. \A k \in S : ~(k < n)
  BY <1>1, Zenon DEF OpToRel
<1>3. \A k \in S : n <= k
  BY <1>2
<1> QED
  BY <1>3 DEF Min

LEMMA LastDay ==
  ASSUME NEW n \in Nat, NEW S \in SUBSET (1..n), S # {}
  PROVE  Max(S) \in S /\ \A y \in S : y <= Max(S)
<1> DEFINE Above == {m \in Nat : \A y \in S : y <= m}
<1>1. n \in Above
  OBVIOUS
<1>2. PICK m \in Above : m = Min(Above) /\ \A k \in Above : m <= k
  BY <1>1, FirstDay
<1>3. m \in S
  <2> SUFFICES ASSUME m \notin S PROVE FALSE
    OBVIOUS
  <2>1. m \in Nat /\ \A y \in S : y \in Nat /\ y >= 1 /\ y <= m /\ y # m
    OBVIOUS
  <2>2. m # 0 /\ m - 1 \in Nat
    <3>1. PICK y \in S : TRUE
      OBVIOUS
    <3> QED
      BY <2>1, <3>1
  <2>3. \A y \in S : y <= m - 1
    BY <2>1
  <2> QED
    BY <1>2, <2>2, <2>3
<1>4. \A y \in S : m >= y
  OBVIOUS
<1> QED
  BY <1>3, <1>4 DEF Max

\* The events of a type are what they are for; a node's weight is what it is.
PETypes ==
  /\ \A e \in entries : e.by \in Voters /\ e.at \in 1..today
  /\ today \in 1..MaxDay

LEMMA TotalNat ==
  ASSUME NEW nodes \in SUBSET Voters
  PROVE  Total(nodes) \in Nat
<1>1. Total(nodes) = SumOver(Weight, nodes)
  BY DEF Total, SumOver
<1>2. Weight \in [Voters -> Int] /\ (\A v \in Voters : Weight[v] \in Nat) /\ IsFiniteSet(nodes)
  BY PetitionAssumption, FS_Subset
<1> QED
  BY <1>1, <1>2, SumNat

LEMMA TotalNone == Total({}) = 0
<1>1. Total({}) = SumOver(Weight, {})
  BY DEF Total, SumOver
<1>2. Weight \in [Voters -> Int]
  BY PetitionAssumption
<1> QED
  BY <1>1, <1>2, SumEmpty

LEMMA DaysOf ==
  ASSUME PETypes, NEW type, Of(type) # {}
  PROVE  /\ Min({e.at : e \in Of(type)}) \in 1..today /\ Max({e.at : e \in Of(type)}) \in 1..today
         /\ \A e \in Of(type) :
              Min({f.at : f \in Of(type)}) <= e.at /\ e.at <= Max({f.at : f \in Of(type)})
<1>1. PICK S \in SUBSET (1..today) : S = {e.at : e \in Of(type)}
  BY DEF PETypes, Of
<1>2. S # {} /\ S \in SUBSET Nat /\ today \in Nat
  BY <1>1 DEF PETypes
<1>3. Min(S) \in S /\ \A y \in S : Min(S) <= y
  BY <1>2, FirstDay
<1>4. Max(S) \in S /\ \A y \in S : y <= Max(S)
  BY <1>2, LastDay
<1>5. \A e \in Of(type) : e.at \in S
  BY <1>1
<1> QED
  BY <1>1, <1>3, <1>4, <1>5

LEMMA PetitionFacts ==
  ASSUME PETypes
  PROVE  /\ Network \in Nat /\ Total(Signers) \in Nat
         /\ Of("petition_file") # {} => Filed \in 1..today
         /\ Of("challenge_file") # {} => ChallengeFiled \in 1..today
         /\ Signed => Of("petition_sign") # {}
         /\ Of("petition_sign") # {} => VotingStart \in 1..today /\ VotingEnd \in Nat
<1>1. Acting(entries) \in SUBSET Voters /\ Signers \in SUBSET Voters
  BY DEF PETypes, Acting, Signers, InTime, Of
<1>2. Network \in Nat /\ Total(Signers) \in Nat
  BY <1>1, TotalNat DEF Network
<1>3. Of("petition_sign") = {} => ~Signed
  <2> SUFFICES ASSUME Of("petition_sign") = {} PROVE ~Signed
    OBVIOUS
  <2>1. Signers = {}
    BY DEF Signers, Acting, InTime
  <2>2. Total(Signers) = 0 /\ SignPct \in Nat /\ SignPct > 0
    BY <2>1, TotalNone, PetitionAssumption
  <2>3. PICK x \in Nat, y \in Nat : x = Network /\ y = SignPct * x
    BY <1>2, <2>2, Products
  <2>4. x > 0 => y > 0
    BY <2>2, <2>3
  <2> QED
    BY <2>2, <2>3, <2>4 DEF Signed, Share
<1>4. Of("petition_sign") # {} => VotingStart \in 1..today /\ VotingEnd \in Nat
  <2> SUFFICES ASSUME Of("petition_sign") # {} PROVE VotingStart \in 1..today /\ VotingEnd \in Nat
    OBVIOUS
  <2>1. VotingStart \in 1..today
    BY DaysOf DEF VotingStart
  <2>2. VoteDays \in Nat
    BY PetitionAssumption
  <2> QED
    BY <2>1, <2>2 DEF VotingEnd
<1>5. Of("petition_file") # {} => Filed \in 1..today
  BY DaysOf DEF Filed
<1>6. Of("challenge_file") # {} => ChallengeFiled \in 1..today
  BY DaysOf DEF ChallengeFiled
<1> QED
  BY <1>2, <1>3, <1>4, <1>5, <1>6


\* What is kept on a ledger on which nothing comes that the diagram does not
\* reckon with.
PEKept ==
  /\ Of("petition_file") = {} =>
       Of("petition_sign") = {} /\ Of("challenge_file") = {} /\ Of("petition_execute") = {}
  /\ Signed /\ Of("challenge_file") # {} => ChallengeFiled <= VotingEnd
  /\ Of("petition_execute") # {} => Status = "executed"
PEInv == PETypes /\ (~AnyTime => PEKept)

LEMMA Written ==
  ASSUME NEW n \in Voters, NEW type, NEW choice, Write(n, type, choice)
  PROVE  /\ today' = today
         /\ \A k : k # type => Of(k)' = Of(k)
         /\ \E e : e.type = type /\ e.by = n /\ e.at = today /\ entries' = entries \cup {e}
                   /\ Of(type)' = Of(type) \cup {e}
<1>1. PICK e : e = [type |-> type, by |-> n, at |-> today, choice |-> choice]
  OBVIOUS
<1>2. e.type = type /\ e.by = n /\ e.at = today
  BY <1>1
<1>3. today' = today /\ entries' = entries \cup {e}
  BY <1>1 DEF Write
<1>4. \A k : k # type => Of(k)' = Of(k)
  BY <1>2, <1>3 DEF Of
<1>5. Of(type)' = Of(type) \cup {e}
  BY <1>2, <1>3 DEF Of
<1> QED
  BY <1>2, <1>3, <1>4, <1>5

LEMMA WrittenTypes ==
  ASSUME PETypes, NEW n \in Voters, NEW type, NEW choice, Write(n, type, choice)
  PROVE  PETypes'
<1>1. PICK e : e.by = n /\ e.at = today /\ entries' = entries \cup {e} /\ today' = today
  BY Written
<1>2. today \in 1..today
  BY DEF PETypes
<1> QED
  BY <1>1, <1>2 DEF PETypes

\* A node that has written before adds nothing to the network.
LEMMA SameNetwork ==
  ASSUME ~AnyTime, NEW n \in Voters, NEW type, NEW choice, Write(n, type, choice),
         type \notin {"other", "petition_file"}
  PROVE  Network' = Network
<1>1. PICK e : e.by = n /\ entries' = entries \cup {e}
  BY Written
<1>2. \E f \in entries : f.by = n
  BY DEF Write, Regular
<1>3. Acting(entries)' = Acting(entries)
  BY <1>1, <1>2 DEF Acting
<1> QED
  BY <1>3 DEF Network

LEMMA SamePhase ==
  ASSUME Of("petition_file")' = Of("petition_file"), Of("petition_sign")' = Of("petition_sign"),
         Network' = Network
  PROVE  /\ Filed' = Filed /\ Signed' = Signed /\ VotingStart' = VotingStart
         /\ VotingEnd' = VotingEnd /\ VotingTime' = VotingTime
<1>1. Filed' = Filed /\ VotingStart' = VotingStart
  BY DEF Filed, VotingStart
<1>2. Signers' = Signers
  BY <1>1 DEF Signers, InTime, Acting
<1> QED
  BY <1>1, <1>2 DEF Signed, VotingEnd, VotingTime, Within

\* No vote that comes after the voting changes its result.
LEMMA LateVote ==
  ASSUME PETypes, VotingTime' = VotingTime, VotingEnd \in Nat, today > VotingEnd, Network' = Network,
         Of("petition_vote")' = Of("petition_vote")
           \/ \E e : e.at = today /\ Of("petition_vote")' = Of("petition_vote") \cup {e}
  PROVE  VotePassed' = VotePassed
<1>1. today \notin VotingTime
  <2>1. VotingTime = VotingStart..VotingEnd
    BY DEF VotingTime, Within, VotingEnd
  <2>2. today \in Nat
    BY DEF PETypes
  <2> QED
    BY <2>1, <2>2
<1>2. Votes' = Votes
  BY <1>1 DEF Votes, InTime
<1> QED
  BY <1>2 DEF VotePassed

\* Nor does a vote on a challenge.
LEMMA LateChallengeVote ==
  ASSUME PETypes, Of("challenge_file")' = Of("challenge_file"), today' = today,
         Of("challenge_vote")' = Of("challenge_vote")
           \/ \E e : e.at = today /\ Of("challenge_vote")' = Of("challenge_vote") \cup {e}
  PROVE  Voided' = Voided
<1>1. ChallengeFiled' = ChallengeFiled
  BY DEF ChallengeFiled
<1>2. CASE Of("challenge_file") = {} \/ ~(today > ChallengeFiled + ChallengeDays)
  BY <1>1, <1>2 DEF Voided
<1>3. CASE Of("challenge_file") # {} /\ today > ChallengeFiled + ChallengeDays
  <2>1. ChallengeFiled \in Nat /\ today \in Nat /\ ChallengeDays \in Nat
    BY <1>3, PetitionFacts, PetitionAssumption DEF PETypes
  <2>2. today \notin Within(ChallengeFiled, ChallengeDays)
    BY <1>3, <2>1 DEF Within
  <2>3. ChallengeVotes' = ChallengeVotes
    BY <1>1, <2>2 DEF ChallengeVotes, InTime, Within
  <2> QED
    BY <1>1, <2>3 DEF Voided
<1> QED
  BY <1>2, <1>3

LEMMA SameStatus ==
  ASSUME (Of("petition_file") = {})' <=> (Of("petition_file") = {}), today' = today,
         Of("petition_file") # {} =>
           /\ Filed' = Filed /\ Signed' = Signed /\ VotingEnd' = VotingEnd
           /\ Signed /\ today > VotingEnd => VotePassed' = VotePassed /\ Voided' = Voided
           /\ (Of("petition_execute") = {})' <=> (Of("petition_execute") = {}),
         VotingEnd \in Nat \/ ~Signed, today \in Nat
  PROVE  Status' = Status
<1>1. CASE Of("petition_file") = {}
  BY <1>1 DEF Status
<1>2. CASE Of("petition_file") # {} /\ ~Signed
  BY <1>2 DEF Status
<1>3. CASE Of("petition_file") # {} /\ Signed /\ today <= VotingEnd
  BY <1>3 DEF Status
<1>4. CASE Of("petition_file") # {} /\ Signed /\ ~(today <= VotingEnd)
  <2>0. today > VotingEnd
    BY <1>4
  <2>1. VotePassed' = VotePassed /\ Voided' = Voided
    BY <1>4, <2>0, Zenon
  <2>2. Status = IF ~VotePassed THEN "failed_vote" ELSE IF Voided THEN "voided_challenge"
                 ELSE IF today <= VotingEnd + ChallengeDays THEN "challenge"
                 ELSE IF Of("petition_execute") = {} THEN "passed" ELSE "executed"
    BY <1>4 DEF Status
  <2>3. Status' = IF ~VotePassed' THEN "failed_vote" ELSE IF Voided' THEN "voided_challenge"
                  ELSE IF today <= VotingEnd + ChallengeDays THEN "challenge"
                  ELSE IF Of("petition_execute") = {} THEN "passed" ELSE "executed"
    BY <1>4 DEF Status
  <2> QED
    BY <2>1, <2>2, <2>3, Zenon
<1> QED
  BY <1>1, <1>2, <1>3, <1>4


\* What the statuses say.
LEMMA StatusSays ==
  ASSUME PETypes
  PROVE  /\ Status = "not_found" <=> Of("petition_file") = {}
         /\ Status = "signatures" =>
              Of("petition_file") # {} /\ ~Signed /\ ~(today > Filed + SignDays)
         /\ Status = "voting" => Of("petition_file") # {} /\ Signed /\ today <= VotingEnd
         /\ Status = "passed" =>
              /\ Of("petition_file") # {} /\ Signed /\ ~(today <= VotingEnd) /\ VotePassed
              /\ ~Voided /\ ~(today <= VotingEnd + ChallengeDays) /\ Of("petition_execute") = {}
BY DEF Status

Onward == Status' = Status \/ <<Status, Status'>> \in Edges

LEMMA JoinStep ==
  ASSUME PETypes, PEKept, ~AnyTime, NEW n \in Voters, Join(n)
  PROVE  PEKept' /\ Onward
<1>1. Write(n, "other", "none") /\ Of("petition_file") = {}
  BY StatusSays DEF Join
<1>2. \A k : k # "other" => Of(k)' = Of(k)
  BY <1>1, Written
<1>3. /\ Of("petition_file")' = {} /\ Of("petition_sign")' = {} /\ Of("challenge_file")' = {}
      /\ Of("petition_execute")' = {}
  BY <1>1, <1>2 DEF PEKept
<1>4. Status' = "not_found" /\ Status = "not_found"
  BY <1>1, <1>3 DEF Status
<1> QED
  BY <1>3, <1>4 DEF PEKept, Onward

LEMMA NobodySigned ==
  ASSUME NEW x \in Nat
  PROVE  ~(x > 0 /\ Share(Total({}), SignPct, x))
<1>1. Total({}) = 0 /\ SignPct \in Nat /\ SignPct > 0
  BY TotalNone, PetitionAssumption
<1>2. PICK y \in Nat : y = SignPct * x /\ (x > 0 => y > 0)
  <2>1. SignPct * x \in Nat /\ (x > 0 => SignPct * x > 0)
    BY <1>1
  <2> QED
    BY <2>1
<1> QED
  BY <1>1, <1>2 DEF Share

LEMMA FileStep ==
  ASSUME PETypes, PEKept, ~AnyTime, NEW n \in Voters, FilePetition(n)
  PROVE  PEKept' /\ Onward
<1>1. Write(n, "petition_file", "none") /\ Of("petition_file") = {}
  BY StatusSays DEF FilePetition
<1>2. (\A k : k # "petition_file" => Of(k)' = Of(k)) /\ today' = today
  BY <1>1, Written
<1>3. Of("petition_sign")' = {} /\ Of("challenge_file")' = {} /\ Of("petition_execute")' = {}
  BY <1>1, <1>2 DEF PEKept
<1>4. PICK e : e.at = today /\ Of("petition_file")' = {e}
  BY <1>1, Written
<1>5. Filed' = today
  <2>1. Filed' = Min({today})
    BY <1>4 DEF Filed
  <2>2. {today} \in SUBSET Nat /\ {today} # {}
    BY DEF PETypes
  <2> QED
    BY <2>1, <2>2, FirstDay
<1>6. ~Signed'
  <2>1. Signers' = {}
    BY <1>3 DEF Signers, Acting, InTime
  <2>2. Acting(entries)' \in SUBSET Voters
    BY <1>1, WrittenTypes DEF PETypes, Acting
  <2>3. Network' \in Nat
    BY <2>2, TotalNat DEF Network
  <2>4. ~(Network' > 0 /\ Share(Total({}), SignPct, Network'))
    BY <2>3, NobodySigned
  <2> QED
    BY <2>1, <2>4 DEF Signed
<1>7. today \in Nat /\ SignDays \in Nat
  BY PetitionAssumption DEF PETypes
<1>8. Status' = "signatures"
  BY <1>2, <1>4, <1>5, <1>6, <1>7 DEF Status
<1>9. Status = "not_found"
  BY <1>1 DEF Status
<1> QED
  BY <1>3, <1>4, <1>6, <1>8, <1>9 DEF PEKept, Onward, Edges

LEMMA SignStep ==
  ASSUME PETypes, PEKept, ~AnyTime, NEW n \in Voters, Sign(n)
  PROVE  PEKept' /\ Onward
<1>1. Write(n, "petition_sign", "none") /\ Status = "signatures"
  BY DEF Sign, Write, Regular
<1>2. (\A k : k # "petition_sign" => Of(k)' = Of(k)) /\ today' = today
  BY <1>1, Written
<1>3. PICK e : e.at = today /\ Of("petition_sign")' = Of("petition_sign") \cup {e}
  BY <1>1, Written
<1>4. Of("petition_file") # {} /\ ~(today > Filed + SignDays) /\ Of("petition_execute") = {}
  BY <1>1, StatusSays DEF PEKept
<1>5. Of("petition_file")' # {} /\ Filed' = Filed /\ Of("petition_execute")' = {}
      /\ Of("challenge_file")' = Of("challenge_file") /\ ChallengeFiled' = ChallengeFiled
  BY <1>2, <1>4 DEF Filed, ChallengeFiled
<1>6. today \in Nat /\ today \in 1..today /\ VoteDays \in Nat
  BY PetitionAssumption DEF PETypes
<1>7. VotingStart' = today
  <2>1. PICK S : S = {f.at : f \in Of("petition_sign") \cup {e}}
    OBVIOUS
  <2>2. S \in SUBSET (1..today) /\ today \in S
    BY <1>3, <1>6, <2>1 DEF PETypes, Of
  <2>3. PICK m : m = Max(S) /\ m \in S /\ \A y \in S : y <= m
    BY <1>6, <2>2, LastDay
  <2>4. m = today
    BY <1>6, <2>2, <2>3
  <2>5. VotingStart' = Max(S)
    BY <1>3, <2>1 DEF VotingStart
  <2> QED
    BY <2>3, <2>4, <2>5
<1>8. VotingEnd' = today + VoteDays /\ today <= VotingEnd'
  BY <1>6, <1>7 DEF VotingEnd
<1>9. Status' = IF ~Signed' THEN "signatures" ELSE "voting"
  BY <1>2, <1>4, <1>5, <1>8 DEF Status
<1>10. Of("challenge_file") # {} => ChallengeFiled' <= VotingEnd'
  BY <1>5, <1>6, <1>8, PetitionFacts
<1> QED
  BY <1>1, <1>5, <1>9, <1>10 DEF PEKept, Onward, Edges

\* The other events before the execution leave the status as it is.
LEMMA KeptStatus ==
  ASSUME PETypes, PEKept, Status' = Status, Signed' = Signed, VotingEnd' = VotingEnd,
         Of("petition_file")' = Of("petition_file"), Of("petition_sign")' = Of("petition_sign"),
         Of("petition_execute")' = Of("petition_execute"), Of("challenge_file")' = Of("challenge_file")
  PROVE  PEKept' /\ Onward
<1>1. ChallengeFiled' = ChallengeFiled
  BY DEF ChallengeFiled
<1>2. Signed' <=> Signed
  BY Zenon
<1>3. PEKept'
  BY <1>1, <1>2 DEF PEKept
<1> QED
  BY <1>3 DEF Onward

LEMMA EndIsDay ==
  ASSUME PETypes
  PROVE  (VotingEnd \in Nat \/ ~Signed) /\ today \in Nat
BY PetitionFacts DEF PETypes

LEMMA VoteStep ==
  ASSUME PETypes, PEKept, ~AnyTime, NEW n \in Voters, NEW c, Write(n, "petition_vote", c)
  PROVE  PEKept' /\ Onward
<1>1. (\A k : k # "petition_vote" => Of(k)' = Of(k)) /\ today' = today
  BY Written
<1>2. Network' = Network
  BY SameNetwork
<1>3. /\ Filed' = Filed /\ Signed' = Signed /\ VotingEnd' = VotingEnd /\ VotingTime' = VotingTime
  BY <1>1, <1>2, SamePhase
<1>4. \E e : e.at = today /\ Of("petition_vote")' = Of("petition_vote") \cup {e}
  BY Written
<1>5. Signed /\ today > VotingEnd => VotePassed' = VotePassed /\ Voided' = Voided
  <2> SUFFICES ASSUME Signed, today > VotingEnd PROVE VotePassed' = VotePassed /\ Voided' = Voided
    OBVIOUS
  <2>1. VotePassed' = VotePassed
    BY <1>2, <1>3, <1>4, EndIsDay, LateVote
  <2>2. Voided' = Voided
    BY <1>1, LateChallengeVote
  <2> QED
    BY <2>1, <2>2
<1>6. Status' = Status
  BY <1>1, <1>3, <1>5, EndIsDay, SameStatus
<1> QED
  BY <1>1, <1>3, <1>6, KeptStatus

LEMMA ChallengeVoteStep ==
  ASSUME PETypes, PEKept, ~AnyTime, NEW n \in Voters, NEW c, Write(n, "challenge_vote", c)
  PROVE  PEKept' /\ Onward
<1>1. (\A k : k # "challenge_vote" => Of(k)' = Of(k)) /\ today' = today
  BY Written
<1>2. Network' = Network
  BY SameNetwork
<1>3. /\ Filed' = Filed /\ Signed' = Signed /\ VotingEnd' = VotingEnd /\ VotingTime' = VotingTime
  BY <1>1, <1>2, SamePhase
<1>4. \E e : e.at = today /\ Of("challenge_vote")' = Of("challenge_vote") \cup {e}
  BY Written
<1>5. Signed /\ today > VotingEnd => VotePassed' = VotePassed /\ Voided' = Voided
  <2> SUFFICES ASSUME Signed, today > VotingEnd PROVE VotePassed' = VotePassed /\ Voided' = Voided
    OBVIOUS
  <2>1. VotePassed' = VotePassed
    BY <1>1, <1>2, <1>3, EndIsDay, LateVote
  <2>2. Voided' = Voided
    BY <1>1, <1>4, LateChallengeVote
  <2> QED
    BY <2>1, <2>2
<1>6. Status' = Status
  BY <1>1, <1>3, <1>5, EndIsDay, SameStatus
<1> QED
  BY <1>1, <1>3, <1>6, KeptStatus

LEMMA ChallengeStep ==
  ASSUME PETypes, PEKept, ~AnyTime, NEW n \in Voters, FileChallenge(n)
  PROVE  PEKept' /\ Onward
<1>0. Write(n, "challenge_file", "none") /\ Of("challenge_file") = {} /\ Status \in {"signatures", "voting"}
  BY DEF FileChallenge, Write, Regular
<1>1. (\A k : k # "challenge_file" => Of(k)' = Of(k)) /\ today' = today
  BY <1>0, Written
<1>2. Network' = Network
  BY <1>0, SameNetwork
<1>3. /\ Filed' = Filed /\ Signed' = Signed /\ VotingEnd' = VotingEnd /\ VotingTime' = VotingTime
  BY <1>1, <1>2, SamePhase
<1>4. PICK e : e.at = today /\ Of("challenge_file")' = {e}
  BY <1>0, Written
<1>5. Signed => today <= VotingEnd
  BY <1>0, StatusSays
<1>6. Status' = Status
  <2>1. Signed => ~(today > VotingEnd)
    BY <1>5, EndIsDay
  <2> QED
    BY <1>1, <1>3, <2>1, EndIsDay, SameStatus
<1>7. ChallengeFiled' = today
  <2>1. ChallengeFiled' = Min({today})
    BY <1>4 DEF ChallengeFiled
  <2>2. {today} \in SUBSET Nat /\ {today} # {}
    BY DEF PETypes
  <2> QED
    BY <2>1, <2>2, FirstDay
<1>8. Of("petition_file")' # {} /\ Of("petition_execute")' = {}
  BY <1>0, <1>1, StatusSays DEF PEKept
<1>9. Signed' <=> Signed
  BY <1>3, Zenon
<1> QED
  BY <1>3, <1>5, <1>6, <1>7, <1>8, <1>9 DEF PEKept, Onward

LEMMA ExecuteStep ==
  ASSUME PETypes, PEKept, ~AnyTime, NEW n \in Voters, Execute(n)
  PROVE  PEKept' /\ Onward
<1>0. Write(n, "petition_execute", "none") /\ Status = "passed"
  BY DEF Execute, Write, Regular
<1>1. (\A k : k # "petition_execute" => Of(k)' = Of(k)) /\ today' = today
  BY <1>0, Written
<1>2. Network' = Network
  BY <1>0, SameNetwork
<1>3. /\ Filed' = Filed /\ Signed' = Signed /\ VotingEnd' = VotingEnd /\ VotingTime' = VotingTime
  BY <1>1, <1>2, SamePhase
<1>4. Of("petition_execute")' # {}
  BY <1>0, Written
<1>5. /\ Of("petition_file") # {} /\ Signed /\ ~(today <= VotingEnd) /\ VotePassed
      /\ ~Voided /\ ~(today <= VotingEnd + ChallengeDays)
  BY <1>0, StatusSays
<1>6. VotePassed' = VotePassed /\ Voided' = Voided
  <2>0. today > VotingEnd /\ VotingEnd \in Nat
    BY <1>5, EndIsDay
  <2>1. VotePassed' = VotePassed
    BY <1>1, <1>2, <1>3, <2>0, LateVote
  <2>2. Voided' = Voided
    BY <1>1, LateChallengeVote
  <2> QED
    BY <2>1, <2>2
<1>7. Signed' /\ VotePassed' /\ ~Voided'
  BY <1>3, <1>5, <1>6, Zenon
<1>8. Status' = "executed"
  BY <1>1, <1>3, <1>4, <1>5, <1>7 DEF Status
<1>9. ChallengeFiled' = ChallengeFiled
  BY <1>1 DEF ChallengeFiled
<1>10. Of("petition_file")' # {} /\ Of("challenge_file")' = Of("challenge_file")
  BY <1>1, <1>5
<1> QED
  BY <1>0, <1>3, <1>5, <1>8, <1>9, <1>10 DEF PEKept, Onward, Edges


\* A day passes: the windows close one after the other.
LEMMA DayStep ==
  ASSUME PETypes, PEKept, DayPasses
  PROVE  PEKept' /\ Onward
<1>1. entries' = entries /\ today' = today + 1
  BY DEF DayPasses
<1>2. \A k : Of(k)' = Of(k)
  BY <1>1 DEF Of
<1>3. Network' = Network
  BY <1>1 DEF Network, Acting
<1>4. /\ Filed' = Filed /\ Signed' = Signed /\ VotingEnd' = VotingEnd /\ VotingTime' = VotingTime
      /\ ChallengeFiled' = ChallengeFiled
  BY <1>2, <1>3, SamePhase DEF ChallengeFiled
<1>5. VotePassed' = VotePassed
  <2>1. Votes' = Votes
    BY <1>2, <1>4 DEF Votes, InTime
  <2> QED
    BY <1>3, <2>1 DEF VotePassed
<1>6. ChallengeVotes' = ChallengeVotes
  BY <1>2, <1>4 DEF ChallengeVotes, InTime, Within
<1>7. today \in Nat /\ SignDays \in Nat /\ ChallengeDays \in Nat /\ ChallengeDays >= 1
  BY PetitionAssumption DEF PETypes
<1>8. (Signed' <=> Signed) /\ (VotePassed' <=> VotePassed)
  BY <1>4, <1>5, Zenon
<1>9. CASE Of("petition_file") = {}
  <2>1. Status = "not_found" /\ Status' = "not_found"
    BY <1>2, <1>9 DEF Status
  <2> QED
    BY <1>2, <1>9, <2>1 DEF PEKept, Onward
<1>10. CASE Of("petition_file") # {} /\ ~Signed
  <2>1. Filed \in Nat
    BY <1>10, PetitionFacts
  <2>2. Status = IF today > Filed + SignDays THEN "failed_signatures" ELSE "signatures"
    BY <1>10 DEF Status
  <2>3. Status' = IF today + 1 > Filed + SignDays THEN "failed_signatures" ELSE "signatures"
    BY <1>1, <1>2, <1>4, <1>8, <1>10 DEF Status
  <2>4. Onward
    BY <1>7, <2>1, <2>2, <2>3 DEF Onward, Edges
  <2>5. Of("petition_execute") = {}
    BY <2>2 DEF PEKept
  <2> QED
    BY <1>2, <1>8, <1>10, <2>4, <2>5 DEF PEKept
<1>11. CASE Of("petition_file") # {} /\ Signed
  <2>1. PICK end \in Nat : end = VotingEnd
    BY <1>11, PetitionFacts
  <2>2. Status = IF today <= end THEN "voting" ELSE IF ~VotePassed THEN "failed_vote"
                 ELSE IF Voided THEN "voided_challenge" ELSE IF today <= end + ChallengeDays THEN "challenge"
                 ELSE IF Of("petition_execute") = {} THEN "passed" ELSE "executed"
    BY <1>11, <2>1 DEF Status
  <2>3. Status' = IF today + 1 <= end THEN "voting" ELSE IF ~VotePassed THEN "failed_vote"
                  ELSE IF Voided' THEN "voided_challenge" ELSE IF today + 1 <= end + ChallengeDays THEN "challenge"
                  ELSE IF Of("petition_execute") = {} THEN "passed" ELSE "executed"
    BY <1>1, <1>2, <1>4, <1>8, <1>11, <2>1 DEF Status
  <2>4. Of("challenge_file") # {} => ChallengeFiled \in Nat /\ ChallengeFiled <= end
    BY <1>11, <2>1, PetitionFacts DEF PEKept
  <2>5. Voided => Voided'
    BY <1>1, <1>2, <1>4, <1>6, <1>7, <2>4 DEF Voided
  <2>6. today > end + ChallengeDays /\ Voided' => Voided
    BY <1>1, <1>2, <1>4, <1>6, <1>7, <2>1, <2>4 DEF Voided
  <2>7. Of("petition_execute") # {} => Status = "executed"
    BY DEF PEKept
  <2>8. Onward
    <3>1. CASE today <= end
      BY <1>7, <2>1, <2>2, <2>3, <2>7, <3>1 DEF Onward, Edges
    <3>2. CASE today > end /\ today <= end + ChallengeDays
      BY <1>7, <2>1, <2>2, <2>3, <2>5, <2>7, <3>2 DEF Onward, Edges
    <3>3. CASE today > end /\ today > end + ChallengeDays
      BY <1>7, <2>1, <2>2, <2>3, <2>5, <2>6, <2>7, <3>3 DEF Onward, Edges
    <3> QED
      BY <1>7, <2>1, <3>1, <3>2, <3>3
  <2>9. Of("petition_execute")' # {} => Status' = "executed"
    <3>1. Status = "executed" => today > end /\ today > end + ChallengeDays /\ VotePassed /\ ~Voided
             /\ Of("petition_execute") # {}
      BY <1>7, <2>1, <2>2
    <3>2. Status = "executed" => Status' = "executed"
      BY <1>7, <2>1, <2>3, <2>6, <3>1
    <3> QED
      BY <1>2, <2>7, <3>2
  <2>10. Of("petition_file")' # {} /\ (Of("challenge_file")' # {} => ChallengeFiled' <= VotingEnd')
    BY <1>2, <1>4, <1>11, <2>1, <2>4
  <2> QED
    BY <2>8, <2>9, <2>10 DEF PEKept
<1> QED
  BY <1>9, <1>10, <1>11

-----------------------------------------------------------------------------
\* The petition.
LEMMA PetitionInit == PEInit => PEInv
<1> SUFFICES ASSUME PEInit PROVE PEInv
  OBVIOUS
<1>1. PETypes
  BY PetitionAssumption DEF PEInit, PETypes
<1>2. \A k : Of(k) = {}
  BY DEF PEInit, Of
<1> QED
  BY <1>1, <1>2 DEF PEInv, PEKept

LEMMA PetitionStep ==
  ASSUME PEInv, PENext
  PROVE  PEInv' /\ (~AnyTime => Onward)
<1>0. PETypes /\ (~AnyTime => PEKept)
  BY DEF PEInv
<1>1. PETypes'
  <2>1. CASE DayPasses
    <3>1. today \in Nat /\ today < MaxDay /\ MaxDay \in Nat /\ today >= 1
      BY <1>0, <2>1, PetitionAssumption DEF DayPasses, PETypes
    <3>2. \A x \in 1..today : x \in 1..(today + 1)
      BY <3>1
    <3> QED
      BY <1>0, <2>1, <3>1, <3>2 DEF DayPasses, PETypes
  <2>2. ASSUME NEW n \in Voters, NEW type, NEW c, Write(n, type, c) PROVE PETypes'
    BY <1>0, <2>2, WrittenTypes
  <2> QED
    BY <2>1, <2>2 DEF PENext, Join, FilePetition, Sign, Vote, FileChallenge, VoteOnChallenge, Execute
<1>2. ASSUME ~AnyTime PROVE PEKept' /\ Onward
  <2>0. PEKept
    BY <1>0, <1>2
  <2>1. ASSUME NEW n \in Voters, Join(n) PROVE PEKept' /\ Onward
    BY <1>0, <1>2, <2>0, <2>1, JoinStep
  <2>2. ASSUME NEW n \in Voters, FilePetition(n) PROVE PEKept' /\ Onward
    BY <1>0, <1>2, <2>0, <2>2, FileStep
  <2>3. ASSUME NEW n \in Voters, Sign(n) PROVE PEKept' /\ Onward
    BY <1>0, <1>2, <2>0, <2>3, SignStep
  <2>4. ASSUME NEW n \in Voters, Vote(n) PROVE PEKept' /\ Onward
    BY <1>0, <1>2, <2>0, <2>4, VoteStep DEF Vote
  <2>5. ASSUME NEW n \in Voters, FileChallenge(n) PROVE PEKept' /\ Onward
    BY <1>0, <1>2, <2>0, <2>5, ChallengeStep
  <2>6. ASSUME NEW n \in Voters, VoteOnChallenge(n) PROVE PEKept' /\ Onward
    BY <1>0, <1>2, <2>0, <2>6, ChallengeVoteStep DEF VoteOnChallenge
  <2>7. ASSUME NEW n \in Voters, Execute(n) PROVE PEKept' /\ Onward
    BY <1>0, <1>2, <2>0, <2>7, ExecuteStep
  <2>8. CASE DayPasses
    BY <1>0, <2>0, <2>8, DayStep
  <2> QED
    BY <2>1, <2>2, <2>3, <2>4, <2>5, <2>6, <2>7, <2>8 DEF PENext
<1> QED
  BY <1>1, <1>2 DEF PEInv

LEMMA PetitionStutters ==
  ASSUME PEInv, UNCHANGED peVars
  PROVE  PEInv' /\ Status' = Status
<1>1. entries' = entries /\ today' = today
  BY DEF peVars
<1>2. \A k : Of(k)' = Of(k)
  BY <1>1 DEF Of
<1>3. Network' = Network
  BY <1>1 DEF Network, Acting
<1>4. /\ Filed' = Filed /\ Signed' = Signed /\ VotingEnd' = VotingEnd /\ VotingTime' = VotingTime
      /\ ChallengeFiled' = ChallengeFiled
  BY <1>2, <1>3, SamePhase DEF ChallengeFiled
<1>5. VotePassed' = VotePassed /\ Voided' = Voided
  <2>1. Votes' = Votes /\ ChallengeVotes' = ChallengeVotes
    BY <1>2, <1>4 DEF Votes, ChallengeVotes, InTime, Within
  <2>2. VotePassed' = VotePassed
    BY <1>3, <2>1 DEF VotePassed
  <2>3. Voided' = Voided
    BY <1>1, <1>2, <1>4, <2>1 DEF Voided
  <2> QED
    BY <2>2, <2>3
<1>6. PETypes
  BY DEF PEInv
<1>7. Status' = Status
  BY <1>1, <1>2, <1>4, <1>5, <1>6, EndIsDay, SameStatus
<1>8. PEKept => PEKept'
  BY <1>2, <1>4, <1>6, <1>7, KeptStatus
<1>9. PETypes'
  BY <1>1, <1>6 DEF PETypes
<1> QED
  BY <1>7, <1>8, <1>9 DEF PEInv

LEMMA PetitionType ==
  ASSUME PEInv
  PROVE  PETypeOK
<1>1. Status \in AllStatuses
  BY DEF Status, AllStatuses, Outcomes
<1> QED
  BY <1>1 DEF PEInv, PETypes, PETypeOK

\* The status of a petition on a ledger on which nothing comes that the diagram
\* does not reckon with follows the diagram of petition.py, for any voters with
\* any weights, any thresholds and any windows (PEOnward).
THEOREM PetitionGoesOnward == ~AnyTime => (PESpec => PEOnward)
<1> SUFFICES ASSUME ~AnyTime PROVE PESpec => PEOnward
  OBVIOUS
<1>1. PEInit => PEInv
  BY PetitionInit
<1>2. PEInv /\ [PENext]_peVars => PEInv'
  BY PetitionStep, PetitionStutters
<1>3. PEInv /\ [PENext]_peVars => [Status' = Status \/ <<Status, Status'>> \in Edges]_peVars
  BY PetitionStep DEF Onward
<1> QED
  BY <1>1, <1>2, <1>3, PTL DEF PESpec, PEOnward


-----------------------------------------------------------------------------
\* MCLedger exercises one of the three and leaves the others alone.
Parts == {"chain", "petition", "market"}
LEMMA LedgerParts ==
  ASSUME [LedgerNext]_ledgerVars
  PROVE  [HCNext]_hcVars /\ [PENext]_peVars /\ [MKNext]_mkVars /\ part' = part
<1>1. CASE UNCHANGED ledgerVars
  BY <1>1 DEF ledgerVars
<1>2. CASE InChain(HCNext)
  BY <1>2 DEF InChain
<1>3. CASE InPetition(PENext)
  BY <1>3 DEF InPetition
<1>4. CASE InMarket(MKNext)
  BY <1>4 DEF InMarket
<1> QED
  BY <1>1, <1>2, <1>3, <1>4 DEF LedgerNext

\* A behaviour of MCLedger is one of the chain, of the petition and of the market.
THEOREM LedgerImplements == LedgerSpec => HCSpec /\ PESpec /\ MKSpec /\ [](part \in Parts)
<1>1. LedgerInit => HCInit /\ PEInit /\ MKInit /\ part \in Parts
  BY DEF LedgerInit, Parts
<1>2. [LedgerNext]_ledgerVars => [HCNext]_hcVars /\ [PENext]_peVars /\ [MKNext]_mkVars
  BY LedgerParts
<1>3. part \in Parts /\ [LedgerNext]_ledgerVars => (part \in Parts)'
  BY LedgerParts
<1> QED
  BY <1>1, <1>2, <1>3, PTL DEF LedgerSpec, HCSpec, PESpec, MKSpec

\* The state of each part is of its type, and its bounds are kept.
THEOREM LedgerTypeCorrect == LedgerSpec => []LedgerTypeOK
<1>1. PEInit => PEInv
  BY PetitionInit
<1>2. PEInv /\ [PENext]_peVars => PEInv'
  BY PetitionStep, PetitionStutters
<1>3. PESpec => []PETypeOK
  BY <1>1, <1>2, PetitionType, PTL DEF PESpec
<1>4. HCTypeOK /\ PETypeOK /\ MKTypeOK /\ part \in Parts => LedgerTypeOK
  BY DEF LedgerTypeOK, Parts
<1> QED
  BY <1>3, <1>4, LedgerImplements, ChainTypeCorrect, MarketTypeCorrect, PTL

\* What HashchainProofs proves of a chain holds of the one MCLedger runs, and a
\* settlement there neither makes nor loses reputation.
THEOREM LedgerSound ==
  LedgerSpec => []HCLedgerWhole /\ []HCLastAppendSurvives /\ [](SharesWhole => MarketConserved)
<1>1. (SharesWhole => MKConserved) => (SharesWhole => MarketConserved)
  BY DEF MarketConserved
<1> QED
  BY <1>1, LedgerImplements, LedgerIsWhole, LastAppendSurvives, NoneIsLost, PTL

\* Its petition follows the diagram.
THEOREM LedgerGoesOnward == ~AnyTime => (LedgerSpec => PEOnward)
BY LedgerImplements, PetitionGoesOnward, PTL
=============================================================================
