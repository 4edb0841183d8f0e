---------------------------------- MODULE Sums ----------------------------------
(***************************************************************************)
(* Sums of a function's values over a finite set, as the properties about  *)
(* money take them: SumFunctionOnSet of the community modules, which adds  *)
(* one chosen element after the other.                                     *)
(*                                                                         *)
(* What it promises is proved by induction on the set, in the form of a    *)
(* set G of the subsets that the promise holds for; Accumulator is the     *)
(* recursive function that the operator takes the last value of.           *)
(***************************************************************************)
EXTENDS Integers, FiniteSets, Functions, FiniteSetTheorems, WellFoundedInduction, TLAPS

Pick(s) == CHOOSE x \in s : TRUE

\* The sums of all the subsets of S, each from a smaller one.
Accumulator(acc, f, S) ==
    acc = [s \in SUBSET S |-> IF s = {} THEN 0 ELSE f[Pick(s)] + acc[s \ {Pick(s)}]]

---------------------------------------------------------------------------
(* Induction.                                                              *)

\* A set of subsets that has every subset whose proper subsets it has, has all.
LEMMA SubsetInduction ==
    ASSUME NEW S, IsFiniteSet(S), NEW G,
           \A s \in SUBSET S : (\A t \in SUBSET s : t # s => t \in G) => s \in G
    PROVE  \A s \in SUBSET S : s \in G
  <1> DEFINE R == StrictSubsetOrdering(S)
  <1> DEFINE B == {s \in SUBSET S : s \notin G}
  <1>1. IsWellFoundedOn(R, SUBSET S)
    BY FS_StrictSubsetOrderingWellFounded, FS_FiniteSubsetsOfFinite
  <1>2. \A s, t \in SUBSET S : t \subseteq s /\ t # s => <<t, s>> \in R
    BY DEF StrictSubsetOrdering
  <1>3. B \subseteq SUBSET S /\ \A t \in SUBSET S : t \notin B => t \in G
    OBVIOUS
  <1>4. \A s \in B : s \in SUBSET S /\ s \notin G
    OBVIOUS
  <1> HIDE DEF R, B
  <1>5. ASSUME B # {} PROVE FALSE
    <2>1. PICK s \in B : \A t \in B : ~ (<<t, s>> \in R)
      BY <1>1, <1>3, <1>5, WFMin
    <2>2. ASSUME NEW t \in SUBSET s, t # s
          PROVE  t \in G
      <3>1. s \in SUBSET S /\ t \in SUBSET S
        BY <1>4
      <3>2. <<t, s>> \in R
        BY <1>2, <2>2, <3>1
      <3>3. t \notin B
        BY <2>1, <3>2
      <3> QED
        BY <1>3, <3>1, <3>3
    <2> QED
      BY <1>4, <2>1, <2>2
  <1> QED
    BY <1>3, <1>5

LEMMA PickIn == \A s : s # {} => Pick(s) \in s
  BY DEF Pick

LEMMA TakePick == \A s : s # {} => s \ {Pick(s)} \in SUBSET s /\ s \ {Pick(s)} # s
  BY PickIn

---------------------------------------------------------------------------
(* The accumulator exists, and there is one only.                          *)

LEMMA AccumulatorStep ==
    ASSUME NEW f, NEW S, NEW a, Accumulator(a, f, S), NEW s \in SUBSET S
    PROVE  /\ s = {} => a[s] = 0
           /\ s # {} => a[s] = f[Pick(s)] + a[s \ {Pick(s)}]
  BY DEF Accumulator

LEMMA AccumulatorsAgree ==
    ASSUME NEW f, NEW S, NEW T, IsFiniteSet(T), T \subseteq S,
           NEW a, Accumulator(a, f, S), NEW b, Accumulator(b, f, T)
    PROVE  a[T] = b[T]
  <1> DEFINE G == {s \in SUBSET T : a[s] = b[s]}
  <1>1. ASSUME NEW s \in SUBSET T, \A t \in SUBSET s : t # s => t \in G
        PROVE  s \in G
    <2>1. CASE s = {}
      BY <2>1, AccumulatorStep
    <2>2. CASE s # {}
      <3>1. a[s] = f[Pick(s)] + a[s \ {Pick(s)}] /\ b[s] = f[Pick(s)] + b[s \ {Pick(s)}]
        BY <2>2, AccumulatorStep
      <3>2. a[s \ {Pick(s)}] = b[s \ {Pick(s)}]
        BY <1>1, <2>2, TakePick
      <3> QED
        BY <3>1, <3>2
    <2> QED
      BY <2>1, <2>2
  <1> HIDE DEF G
  <1>2. T \in G
    BY <1>1, SubsetInduction
  <1> QED
    BY <1>2 DEF G

LEMMA SumAccumulates ==
    ASSUME NEW f, NEW S, NEW a, Accumulator(a, f, S)
    PROVE  \E b : Accumulator(b, f, S) /\ SumFunctionOnSet(f, S) = b[S]
  BY DEF SumFunctionOnSet, FoldFunctionOnSet, MapThenFoldSet, Accumulator, Pick

LEMMA SumIsLast ==
    ASSUME NEW f, NEW S, NEW T, IsFiniteSet(T), T \subseteq S,
           NEW a, Accumulator(a, f, S), NEW b, Accumulator(b, f, T)
    PROVE  SumFunctionOnSet(f, T) = a[T]
  <1>1. PICK c : Accumulator(c, f, T) /\ SumFunctionOnSet(f, T) = c[T]
    BY SumAccumulates
  <1> QED
    BY <1>1, AccumulatorsAgree

\* Where the proper subsets have accumulators, so has the set.
LEMMA AccumulatorExtends ==
    ASSUME NEW f, NEW S, IsFiniteSet(S),
           \A t \in SUBSET S : t # S => \E a : Accumulator(a, f, t)
    PROVE  \E a : Accumulator(a, f, S)
  <1> DEFINE sum(t) == SumFunctionOnSet(f, t)
  <1> DEFINE step(t) == IF t = {} THEN 0 ELSE f[Pick(t)] + sum(t \ {Pick(t)})
  <1> DEFINE acc == [t \in SUBSET S |-> step(t)]
  <1>1. \A t \in SUBSET S : IsFiniteSet(t)
    BY FS_Subset
  <1>2. ASSUME NEW u \in SUBSET S, u # S
        PROVE  step(u) = sum(u)
    <2>1. PICK a : Accumulator(a, f, u)
      BY <1>2
    <2>2. sum(u) = a[u]
      BY <1>1, <2>1, SumIsLast
    <2>3. CASE u = {}
      BY <2>1, <2>2, <2>3, AccumulatorStep
    <2>4. CASE u # {}
      <3> DEFINE v == u \ {Pick(u)}
      <3>1. v \in SUBSET u /\ v # u /\ v \in SUBSET S /\ v # S
        BY <1>2, <2>4, TakePick
      <3>2. PICK b : Accumulator(b, f, v)
        BY <3>1
      <3>3. sum(v) = a[v]
        BY <1>1, <2>1, <3>1, <3>2, SumIsLast
      <3>4. a[u] = f[Pick(u)] + a[v]
        BY <2>1, <2>4, AccumulatorStep
      <3> QED
        BY <2>2, <2>4, <3>3, <3>4
    <2> QED
      BY <2>3, <2>4
  <1>3. ASSUME NEW t \in SUBSET S, t # {}
        PROVE  acc[t \ {Pick(t)}] = sum(t \ {Pick(t)})
    <2>1. t \ {Pick(t)} \in SUBSET S /\ t \ {Pick(t)} # S
      BY <1>3, PickIn
    <2> HIDE DEF step, sum
    <2> QED
      BY <1>2, <2>1
  <1>4. \A t \in SUBSET S : step(t) = IF t = {} THEN 0 ELSE f[Pick(t)] + acc[t \ {Pick(t)}]
    BY <1>3
  <1> HIDE DEF sum, step
  <1>5. acc = [t \in SUBSET S |-> IF t = {} THEN 0 ELSE f[Pick(t)] + acc[t \ {Pick(t)}]]
    BY <1>4
  <1> QED
    BY <1>5 DEF Accumulator

LEMMA AccumulatorExists ==
    ASSUME NEW f, NEW S, IsFiniteSet(S)
    PROVE  \E a : Accumulator(a, f, S)
  <1> DEFINE G == {s \in SUBSET S : \E a : Accumulator(a, f, s)}
  <1>1. ASSUME NEW s \in SUBSET S, \A t \in SUBSET s : t # s => t \in G
        PROVE  s \in G
    <2>1. IsFiniteSet(s)
      BY FS_Subset
    <2> QED
      BY <1>1, <2>1, AccumulatorExtends
  <1> HIDE DEF G
  <1>2. S \in G
    BY <1>1, SubsetInduction
  <1> QED
    BY <1>2 DEF G

---------------------------------------------------------------------------
(* What sums promise.                                                      *)

LEMMA SumOfNone ==
    ASSUME NEW f
    PROVE  SumFunctionOnSet(f, {}) = 0
  <1>1. IsFiniteSet({})
    BY FS_EmptySet
  <1>2. PICK a : Accumulator(a, f, {})
    BY <1>1, AccumulatorExists
  <1>3. SumFunctionOnSet(f, {}) = a[{}]
    BY <1>1, <1>2, SumIsLast
  <1>4. a[{}] = 0
    BY <1>2, AccumulatorStep
  <1> QED
    BY <1>3, <1>4

LEMMA SumPicks ==
    ASSUME NEW f, NEW S, IsFiniteSet(S), S # {}
    PROVE  SumFunctionOnSet(f, S) = f[Pick(S)] + SumFunctionOnSet(f, S \ {Pick(S)})
  <1> DEFINE T == S \ {Pick(S)}
  <1>1. T \in SUBSET S /\ IsFiniteSet(T)
    BY TakePick, FS_Subset
  <1>2. PICK a : Accumulator(a, f, S)
    BY AccumulatorExists
  <1>3. PICK b : Accumulator(b, f, T)
    BY <1>1, AccumulatorExists
  <1>4. SumFunctionOnSet(f, S) = a[S] /\ SumFunctionOnSet(f, T) = a[T]
    BY <1>1, <1>2, <1>3, SumIsLast
  <1>5. a[S] = f[Pick(S)] + a[T]
    BY <1>2, AccumulatorStep
  <1> QED
    BY <1>4, <1>5

\* Numbers that are closed under addition are closed under sums.
LEMMA SumClosed ==
    ASSUME NEW f, NEW S, IsFiniteSet(S), NEW Numbers, \A x \in S : f[x] \in Numbers,
           0 \in Numbers, \A x, y \in Numbers : x + y \in Numbers
    PROVE  SumFunctionOnSet(f, S) \in Numbers
  <1> DEFINE G == {s \in SUBSET S : SumFunctionOnSet(f, s) \in Numbers}
  <1>1. ASSUME NEW s \in SUBSET S, \A t \in SUBSET s : t # s => t \in G
        PROVE  s \in G
    <2>1. CASE s = {}
      BY <2>1, SumOfNone
    <2>2. CASE s # {}
      <3>1. SumFunctionOnSet(f, s \ {Pick(s)}) \in Numbers
        BY <1>1, <2>2, TakePick
      <3>2. f[Pick(s)] \in Numbers
        BY <2>2, PickIn
      <3>3. SumFunctionOnSet(f, s) = f[Pick(s)] + SumFunctionOnSet(f, s \ {Pick(s)})
        BY <2>2, FS_Subset, SumPicks
      <3> QED
        BY <3>1, <3>2, <3>3
    <2> QED
      BY <2>1, <2>2
  <1> HIDE DEF G
  <1>2. S \in G
    BY <1>1, SubsetInduction
  <1> QED
    BY <1>2 DEF G

\* The type of a sum.
LEMMA SumType ==
    ASSUME NEW f, NEW S, IsFiniteSet(S)
    PROVE  /\ (\A x \in S : f[x] \in Int) => SumFunctionOnSet(f, S) \in Int
           /\ (\A x \in S : f[x] \in Nat) => SumFunctionOnSet(f, S) \in Nat
           /\ (\A x \in S : f[x] = 0) => SumFunctionOnSet(f, S) = 0
  <1>1. (\A x \in S : f[x] \in Int) => SumFunctionOnSet(f, S) \in Int
    <2>1. 0 \in Int /\ \A x, y \in Int : x + y \in Int
      OBVIOUS
    <2> QED
      BY <2>1, SumClosed
  <1>2. (\A x \in S : f[x] \in Nat) => SumFunctionOnSet(f, S) \in Nat
    <2>1. 0 \in Nat /\ \A x, y \in Nat : x + y \in Nat
      OBVIOUS
    <2> QED
      BY <2>1, SumClosed
  <1>3. (\A x \in S : f[x] = 0) => SumFunctionOnSet(f, S) = 0
    <2>1. 0 \in {0} /\ \A x, y \in {0} : x + y \in {0}
      OBVIOUS
    <2>2. (\A x \in S : f[x] \in {0}) => SumFunctionOnSet(f, S) \in {0}
      BY <2>1, SumClosed
    <2> QED
      BY <2>2
  <1> QED
    BY <1>1, <1>2, <1>3

\* Any element may be taken out first.
LEMMA SumTakesOut ==
    ASSUME NEW f, NEW S, IsFiniteSet(S), \A x \in S : f[x] \in Int, NEW y \in S
    PROVE  SumFunctionOnSet(f, S) = f[y] + SumFunctionOnSet(f, S \ {y})
  <1> DEFINE sum(s) == SumFunctionOnSet(f, s)
  <1> DEFINE G == {s \in SUBSET S : \A x \in s : sum(s) = f[x] + sum(s \ {x})}
  <1>1. \A s \in SUBSET S : IsFiniteSet(s) /\ sum(s) \in Int
    BY FS_Subset, SumType
  <1>2. \A s \in SUBSET S : s # {} => sum(s) = f[Pick(s)] + sum(s \ {Pick(s)})
    BY <1>1, SumPicks
  <1>3. ASSUME NEW s \in SUBSET S, \A t \in SUBSET s : t # s => t \in G
        PROVE  s \in G
    <2> SUFFICES ASSUME NEW x \in s PROVE sum(s) = f[x] + sum(s \ {x})
      OBVIOUS
    <2> DEFINE p == Pick(s)
    <2>1. p \in s /\ sum(s) = f[p] + sum(s \ {p})
      BY <1>2, PickIn
    <2>2. CASE x = p
      BY <2>1, <2>2
    <2>3. CASE x # p
      <3>1. s \ {p} \in G /\ s \ {x} \in G
        BY <1>3, <2>1
      <3>2. x \in s \ {p} /\ p \in s \ {x}
        BY <2>1, <2>3
      <3>3. /\ sum(s \ {p}) = f[x] + sum((s \ {p}) \ {x})
            /\ sum(s \ {x}) = f[p] + sum((s \ {x}) \ {p})
        BY <3>1, <3>2
      <3>4. (s \ {p}) \ {x} = (s \ {x}) \ {p}
        OBVIOUS
      <3>5. sum((s \ {p}) \ {x}) \in Int /\ f[x] \in Int /\ f[p] \in Int
        BY <1>1, <2>1
      <3> DEFINE rest == sum((s \ {p}) \ {x})
      <3>6. /\ sum(s) = f[p] + sum(s \ {p})
            /\ sum(s \ {p}) = f[x] + rest
            /\ sum(s \ {x}) = f[p] + rest
        BY <2>1, <3>3, <3>4
      <3> HIDE DEF sum, p, rest
      <3>7. sum(s) = f[x] + sum(s \ {x})
        BY <3>5, <3>6 DEF rest
      <3> QED
        BY <3>7
    <2> QED
      BY <2>2, <2>3
  <1> HIDE DEF G
  <1>4. S \in G
    BY <1>3, SubsetInduction
  <1> QED
    BY <1>4 DEF G

LEMMA SumAdds ==
    ASSUME NEW f, NEW S, IsFiniteSet(S), NEW y, y \notin S,
           \A x \in S \cup {y} : f[x] \in Int
    PROVE  SumFunctionOnSet(f, S \cup {y}) = SumFunctionOnSet(f, S) + f[y]
  <1>1. IsFiniteSet(S \cup {y}) /\ (S \cup {y}) \ {y} = S /\ y \in S \cup {y}
    BY FS_AddElement
  <1>2. SumFunctionOnSet(f, S \cup {y}) = f[y] + SumFunctionOnSet(f, (S \cup {y}) \ {y})
    BY <1>1, SumTakesOut
  <1>3. SumFunctionOnSet(f, S) \in Int /\ f[y] \in Int
    BY SumType
  <1>4. SumFunctionOnSet(f, S \cup {y}) = f[y] + SumFunctionOnSet(f, S)
    BY <1>1, <1>2
  <1> QED
    BY <1>3, <1>4

\* A sum reads the function on the set alone, and grows with it.
LEMMA SumsCompare ==
    ASSUME NEW f, NEW g, NEW S, IsFiniteSet(S)
    PROVE  /\ (\A x \in S : f[x] = g[x]) => SumFunctionOnSet(f, S) = SumFunctionOnSet(g, S)
           /\ (\A x \in S : f[x] \in Int /\ g[x] \in Int /\ f[x] <= g[x])
                 => SumFunctionOnSet(f, S) <= SumFunctionOnSet(g, S)
  <1> DEFINE F(s) == SumFunctionOnSet(f, s)
  <1> DEFINE H(s) == SumFunctionOnSet(g, s)
  <1>1. \A s \in SUBSET S : IsFiniteSet(s)
    BY FS_Subset
  <1>2. \A s \in SUBSET S : s # {} => /\ F(s) = f[Pick(s)] + F(s \ {Pick(s)})
                                     /\ H(s) = g[Pick(s)] + H(s \ {Pick(s)})
    BY <1>1, SumPicks
  <1>3. F({}) = 0 /\ H({}) = 0
    BY SumOfNone
  <1>4. ASSUME \A x \in S : f[x] = g[x] PROVE F(S) = H(S)
    <2> DEFINE G == {s \in SUBSET S : F(s) = H(s)}
    <2>1. ASSUME NEW s \in SUBSET S, \A t \in SUBSET s : t # s => t \in G
          PROVE  s \in G
      <3>1. CASE s = {}
        BY <1>3, <3>1
      <3>2. CASE s # {}
        <4>1. F(s \ {Pick(s)}) = H(s \ {Pick(s)}) /\ f[Pick(s)] = g[Pick(s)]
          BY <1>4, <2>1, <3>2, TakePick, PickIn
        <4> QED
          BY <1>2, <3>2, <4>1
      <3> QED
        BY <3>1, <3>2
    <2> HIDE DEF G
    <2>2. S \in G
      BY <2>1, SubsetInduction
    <2> QED
      BY <2>2 DEF G
  <1>5. ASSUME \A x \in S : f[x] \in Int /\ g[x] \in Int /\ f[x] <= g[x] PROVE F(S) <= H(S)
    <2> DEFINE G == {s \in SUBSET S : F(s) <= H(s)}
    <2>1. \A s \in SUBSET S : F(s) \in Int /\ H(s) \in Int
      BY <1>1, <1>5, SumType
    <2>2. ASSUME NEW s \in SUBSET S, \A t \in SUBSET s : t # s => t \in G
          PROVE  s \in G
      <3>1. CASE s = {}
        BY <1>3, <3>1
      <3>2. CASE s # {}
        <4>1. F(s \ {Pick(s)}) <= H(s \ {Pick(s)}) /\ f[Pick(s)] <= g[Pick(s)]
          BY <1>5, <2>2, <3>2, TakePick, PickIn
        <4>2. /\ f[Pick(s)] \in Int /\ g[Pick(s)] \in Int
              /\ F(s \ {Pick(s)}) \in Int /\ H(s \ {Pick(s)}) \in Int
          BY <1>5, <2>1, <3>2, TakePick, PickIn
        <4>3. /\ F(s) = f[Pick(s)] + F(s \ {Pick(s)})
              /\ H(s) = g[Pick(s)] + H(s \ {Pick(s)})
          BY <1>2, <3>2
        <4> HIDE DEF F, H
        <4>4. F(s) <= H(s)
          BY <4>1, <4>2, <4>3
        <4> QED
          BY <4>4
      <3> QED
        BY <3>1, <3>2
    <2> HIDE DEF G
    <2>3. S \in G
      BY <2>2, SubsetInduction
    <2> QED
      BY <2>3 DEF G
  <1> QED
    BY <1>4, <1>5

\* Where one value changes, the sum changes by as much.
LEMMA SumMoves ==
    ASSUME NEW f, NEW g, NEW S, IsFiniteSet(S), NEW y \in S,
           \A x \in S : f[x] \in Int /\ g[x] \in Int,
           \A x \in S : x # y => f[x] = g[x]
    PROVE  SumFunctionOnSet(g, S) = SumFunctionOnSet(f, S) + (g[y] - f[y])
  <1>1. IsFiniteSet(S \ {y})
    BY FS_Subset
  <1>2. /\ SumFunctionOnSet(f, S) = f[y] + SumFunctionOnSet(f, S \ {y})
        /\ SumFunctionOnSet(g, S) = g[y] + SumFunctionOnSet(g, S \ {y})
    BY SumTakesOut
  <1>3. SumFunctionOnSet(f, S \ {y}) = SumFunctionOnSet(g, S \ {y})
    BY <1>1, SumsCompare
  <1>4. SumFunctionOnSet(f, S \ {y}) \in Int
    BY <1>1, SumType
  <1> QED
    BY <1>2, <1>3, <1>4

\* A set may be summed in two parts.
LEMMA SumSplits ==
    ASSUME NEW f, NEW S, IsFiniteSet(S), \A x \in S : f[x] \in Int, NEW T, T \subseteq S
    PROVE  SumFunctionOnSet(f, S) = SumFunctionOnSet(f, T) + SumFunctionOnSet(f, S \ T)
  <1> DEFINE sum(s) == SumFunctionOnSet(f, s)
  <1> DEFINE G == {s \in SUBSET S : sum(s) = sum(s \cap T) + sum(s \ T)}
  <1>1. \A s \in SUBSET S : IsFiniteSet(s) /\ sum(s) \in Int
    BY FS_Subset, SumType
  <1>2. ASSUME NEW s \in SUBSET S, \A t \in SUBSET s : t # s => t \in G
        PROVE  s \in G
    <2>1. CASE s = {}
      <3>1. s \cap T = {} /\ s \ T = {} /\ sum({}) = 0
        BY <2>1, SumOfNone
      <3> QED
        BY <2>1, <3>1
    <2>2. CASE s # {}
      <3> DEFINE p == Pick(s)
      <3> DEFINE u == s \ {p}
      <3>1. p \in s /\ u \in SUBSET s /\ u # s /\ f[p] \in Int
        BY <2>2, PickIn, TakePick
      <3>2. sum(u) = sum(u \cap T) + sum(u \ T) /\ u \in SUBSET S
        BY <1>2, <3>1
      <3>3. sum(s) = f[p] + sum(u)
        BY <1>1, <2>2, SumPicks
      <3>4. \A t \in SUBSET S : p \in t => sum(t) = f[p] + sum(t \ {p})
        <4> SUFFICES ASSUME NEW t \in SUBSET S, p \in t PROVE sum(t) = f[p] + sum(t \ {p})
          OBVIOUS
        <4>1. IsFiniteSet(t) /\ \A x \in t : f[x] \in Int
          BY <1>1
        <4> QED
          BY <4>1, SumTakesOut
      <3>5. /\ s \cap T \in SUBSET S /\ s \ T \in SUBSET S
            /\ u \cap T \in SUBSET S /\ u \ T \in SUBSET S
        BY <3>1
      <3>6. /\ sum(u \cap T) \in Int /\ sum(u \ T) \in Int
        BY <1>1, <3>5
      <3>7. CASE p \in T
        <4>1. p \in s \cap T /\ (s \cap T) \ {p} = u \cap T /\ s \ T = u \ T
          BY <3>1, <3>7
        <4>2. sum(s \cap T) = f[p] + sum(u \cap T)
          BY <3>4, <3>5, <4>1
        <4>3. sum(s \ T) = sum(u \ T)
          BY <4>1
        <4> HIDE DEF sum, p, u
        <4>4. sum(s) = sum(s \cap T) + sum(s \ T)
          BY <3>1, <3>2, <3>3, <3>6, <4>2, <4>3
        <4> QED
          BY <4>4
      <3>8. CASE p \notin T
        <4>1. p \in s \ T /\ (s \ T) \ {p} = u \ T /\ s \cap T = u \cap T
          BY <3>1, <3>8
        <4>2. sum(s \ T) = f[p] + sum(u \ T)
          BY <3>4, <3>5, <4>1
        <4>3. sum(s \cap T) = sum(u \cap T)
          BY <4>1
        <4> HIDE DEF sum, p, u
        <4>4. sum(s) = sum(s \cap T) + sum(s \ T)
          BY <3>1, <3>2, <3>3, <3>6, <4>2, <4>3
        <4> QED
          BY <4>4
      <3> QED
        BY <3>7, <3>8
    <2> QED
      BY <2>1, <2>2
  <1> HIDE DEF G
  <1>3. S \in G
    BY <1>2, SubsetInduction
  <1>4. S \cap T = T
    OBVIOUS
  <1> QED
    BY <1>3, <1>4 DEF G

\* A part of a sum of natural numbers is no more than the whole, and as much
\* where the rest is zero.
LEMMA SumOfPart ==
    ASSUME NEW f, NEW S, IsFiniteSet(S), \A x \in S : f[x] \in Nat, NEW T, T \subseteq S
    PROVE  /\ SumFunctionOnSet(f, T) <= SumFunctionOnSet(f, S)
           /\ (\A x \in S \ T : f[x] = 0) => SumFunctionOnSet(f, T) = SumFunctionOnSet(f, S)
  <1>1. IsFiniteSet(T) /\ IsFiniteSet(S \ T)
    BY FS_Subset
  <1>2. SumFunctionOnSet(f, S) = SumFunctionOnSet(f, T) + SumFunctionOnSet(f, S \ T)
    BY SumSplits
  <1>3. SumFunctionOnSet(f, T) \in Nat /\ SumFunctionOnSet(f, S \ T) \in Nat
    BY <1>1, SumType
  <1>4. (\A x \in S \ T : f[x] = 0) => SumFunctionOnSet(f, S \ T) = 0
    BY <1>1, SumType
  <1> QED
    BY <1>2, <1>3, <1>4

LEMMA SumHasElement ==
    ASSUME NEW f, NEW S, IsFiniteSet(S), \A x \in S : f[x] \in Nat, NEW y \in S
    PROVE  f[y] <= SumFunctionOnSet(f, S)
  <1>1. SumFunctionOnSet(f, S) = f[y] + SumFunctionOnSet(f, S \ {y})
    BY SumTakesOut
  <1>2. SumFunctionOnSet(f, S \ {y}) \in Nat
    BY FS_Subset, SumType
  <1> QED
    BY <1>1, <1>2

\* Values that h places at different elements of T, where there is as much, sum
\* up to no more than T does.
LEMMA SumPlaced ==
    ASSUME NEW f, NEW S, IsFiniteSet(S), \A x \in S : f[x] \in Nat,
           NEW g, NEW T, IsFiniteSet(T), \A y \in T : g[y] \in Nat,
           NEW h, \A x \in S : h[x] \in T /\ f[x] <= g[h[x]],
           \A x, y \in S : h[x] = h[y] => x = y
    PROVE  SumFunctionOnSet(f, S) <= SumFunctionOnSet(g, T)
  <1> DEFINE image(s) == {y \in T : \E x \in s : h[x] = y}
  <1> DEFINE F(s) == SumFunctionOnSet(f, s)
  <1> DEFINE H(s) == SumFunctionOnSet(g, s)
  <1> DEFINE G == {s \in SUBSET S : F(s) <= H(image(s))}
  <1>1. \A s \in SUBSET S : IsFiniteSet(s) /\ F(s) \in Nat
    BY FS_Subset, SumType
  <1>2. \A s : image(s) \subseteq T /\ IsFiniteSet(image(s)) /\ H(image(s)) \in Nat
    BY FS_Subset, SumType
  <1>3. ASSUME NEW s \in SUBSET S, \A t \in SUBSET s : t # s => t \in G
        PROVE  s \in G
    <2>1. CASE s = {}
      <3>1. F({}) = 0
        BY SumOfNone
      <3>2. F(s) <= H(image(s))
        BY <1>2, <2>1, <3>1
      <3> QED
        BY <3>2
    <2>2. CASE s # {}
      <3> DEFINE p == Pick(s)
      <3> DEFINE u == s \ {p}
      <3>1. p \in s /\ u \in SUBSET s /\ u # s
        BY <2>2, PickIn, TakePick
      <3>2. F(u) <= H(image(u)) /\ u \in SUBSET S
        BY <1>3, <3>1
      <3>3. F(s) = f[p] + F(u)
        BY <1>1, <2>2, SumPicks
      <3>4. h[p] \in image(s) /\ image(s) \ {h[p]} = image(u)
        BY <3>1
      <3>5. H(image(s)) = g[h[p]] + H(image(u))
        <4>1. \A y \in image(s) : g[y] \in Int
          OBVIOUS
        <4> HIDE DEF image
        <4>2. H(image(s)) = g[h[p]] + H(image(s) \ {h[p]})
          BY <1>2, <3>4, <4>1, SumTakesOut
        <4> QED
          BY <3>4, <4>2
      <3>6. f[p] \in Nat /\ g[h[p]] \in Nat /\ f[p] <= g[h[p]]
        BY <3>1
      <3>7. F(u) \in Nat /\ H(image(u)) \in Nat
        BY <1>1, <1>2, <3>2
      <3> HIDE DEF F, H, p, u, image
      <3>8. F(s) <= H(image(s))
        BY <3>2, <3>3, <3>5, <3>6, <3>7
      <3> QED
        BY <3>8
    <2> QED
      BY <2>1, <2>2
  <1> HIDE DEF G
  <1>4. S \in G
    BY <1>3, SubsetInduction
  <1>5. F(S) <= H(image(S))
    BY <1>4 DEF G
  <1>6. H(image(S)) <= H(T)
    BY SumOfPart
  <1>7. H(T) \in Nat
    BY SumType
  <1> HIDE DEF F, H, image
  <1>8. F(S) <= H(T)
    BY <1>1, <1>2, <1>5, <1>6, <1>7
  <1> QED
    BY <1>8 DEF F, H
=============================================================================
