--------------------------- MODULE OperatorsProofs ---------------------------
(***************************************************************************)
(* The computations without a scheduler, for every value of the constants: *)
(* MCOperators runs one of its subjects, so a theorem here is about one    *)
(* subject's module, and holds of the runs in which it is the subject.     *)
(*                                                                         *)
(* Sums and products are folds of the community modules, each the CHOOSE   *)
(* of what satisfies an equation.  The equation is shown to have one       *)
(* solution (SumUnique, SumExists), which gives the sums their algebra.    *)
(*                                                                         *)
(* Reductions: the barriers keep any two threads within one round of each  *)
(* other, and the one behind waits at its barrier (InStep).  A thread that *)
(* loads in round s finds the owner of the slot either waiting at the end  *)
(* of the same round, in which it has nothing to do (Idle), or a round     *)
(* behind, waiting too.  The scale is thread 0's last work before the      *)
(* barrier that every reader has passed.                                   *)
(*                                                                         *)
(* What a reduction finds: after the round of stride d a slot below d      *)
(* holds the fold of the columns that are its own modulo d (SlotHolds), so *)
(* the last round leaves slot 0 the fold of the row.                       *)
(*                                                                         *)
(* Grid kernels: the offsets a task writes are its own (PlacesApart), so   *)
(* what has run is written and the rest is as it was (GridInv).  In        *)
(* attention the recursion over the keys is, key by key, the greatest      *)
(* score and the two sums of two passes (AfterKeyIs), for a larger         *)
(* greatest score divides every weight by the same power, exactly.         *)
(*                                                                         *)
(* Device memory: what is allocated is, address by address, held by one    *)
(* object or lost by a failed call (MemoryInv); a move leaves the source   *)
(* empty, and a constructor takes addresses that nothing holds.            *)
(*                                                                         *)
(* Quantization: a level is within half a unit of its weight (Rounded), so *)
(* a row of products within half a unit for each input.                    *)
(*                                                                         *)
(* The loader: some permutation sorts the spans, and in a sorted list of   *)
(* spans without an overlap of neighbours no two overlap; so the checks in *)
(* the code's order accept the files of the format and no others.  A       *)
(* subnormal half is shifted until it has a leading one, and its exponent  *)
(* counts the shifts (SubnormalWidens).                                    *)
(*                                                                         *)
(* The sampler: the weight of the first ranks grows rank by rank, so the   *)
(* nucleus is the least prefix that weighs enough, and a token is drawn    *)
(* for its share of the grid of uniform values, to one grid point.         *)
(*                                                                         *)
(* A sharded layer: a row of products is the sum over the shards of their  *)
(* pieces of it (TotalPieces); a column of an output is one shard's.       *)
(*                                                                         *)
(* The forward pass: after each layer a row of the batch is the row of its *)
(* own text at its own position (ForwardInv), and a row depends on the     *)
(* tokens up to its own (Causal).                                          *)
(***************************************************************************)
EXTENDS MCOperators, FiniteSetTheorems, SequenceTheorems, WellFoundedInduction, TLAPS

-----------------------------------------------------------------------------
(* Induction, as a fact about sets of numbers. *)

\* A set of numbers that is not empty has a least member.
LEMMA LeastOf ==
  ASSUME NEW S \in SUBSET Nat, S # {}
  PROVE  \E n \in S : \A m \in S : n <= m
  <1> DEFINE R == {p \in Nat \X Nat : p[1] < p[2]}
  <1>1. R = OpToRel(<, Nat)
    BY Zenon DEF OpToRel
  <1> HIDE DEF R
  <1>2. IsWellFoundedOn(R, Nat)
    BY <1>1, NatLessThanWellFounded, Zenon
  <1>3. PICK n \in S : \A m \in S : ~ (<<m, n>> \in R)
    BY <1>2, WFMin, Zenon
  <1>4. \A m \in S : ~ (m < n)
    BY <1>3 DEF R
  <1>5. QED
    BY <1>4

\* What 0 has, and n + 1 if n has it, every number has.
LEMMA Induct ==
  ASSUME NEW S, 0 \in S, \A n \in Nat : n \in S => n + 1 \in S
  PROVE  Nat \subseteq S
  <1>1. SUFFICES ASSUME Nat \ S # {} PROVE FALSE
    OBVIOUS
  <1>2. PICK n \in Nat \ S : \A m \in Nat \ S : n <= m
    BY <1>1, LeastOf, Zenon
  <1>3. n - 1 \in Nat /\ n - 1 < n
    BY <1>2
  <1>4. n - 1 \in S
    BY <1>2, <1>3
  <1>5. (n - 1) + 1 \in S
    BY <1>3, <1>4
  <1>6. QED
    BY <1>2, <1>5

-----------------------------------------------------------------------------
(* Folds over finite sets.  A recursive function is the CHOOSE of what       *)
(* satisfies its equation: FoldOf is the equation of the folds of the        *)
(* community modules for sums and products, which has one solution.          *)

Pick(s) == CHOOSE e \in s : TRUE
Unit(op) == IF op = "*" THEN 1 ELSE 0
Combine(op, a, b) == IF op = "*" THEN a * b ELSE a + b
FoldOf(op, v, g, S) ==
    g = [s \in SUBSET S |-> IF s = {} THEN Unit(op) ELSE Combine(op, v[Pick(s)], g[s \ {Pick(s)}])]
Folded(op, v, S) == (CHOOSE g : FoldOf(op, v, g, S))[S]

\* What CHOOSE takes from a set is in it.
LEMMA PickOf == ASSUME NEW s, s # {} PROVE Pick(s) \in s
  BY DEF Pick

\* A finite set without one of its members is a smaller finite set.
LEMMA Removed ==
  ASSUME NEW S, IsFiniteSet(S), NEW e \in S, NEW n \in Nat, Cardinality(S) = n + 1
  PROVE  IsFiniteSet(S \ {e}) /\ Cardinality(S \ {e}) = n
  BY FS_RemoveElement

\* A set of more than no members has one.
LEMMA NonEmpty ==
  ASSUME NEW S, IsFiniteSet(S), NEW n \in Nat, Cardinality(S) = n + 1
  PROVE  S # {}
  BY FS_EmptySet

\* The equation has one solution at most, which depends on the values in the set only.
LEMMA FoldUnique ==
  ASSUME NEW op, NEW v, NEW u, NEW g, NEW h, NEW S1, NEW S2, FoldOf(op, v, g, S1), FoldOf(op, u, h, S2),
         NEW T, IsFiniteSet(T), T \subseteq S1, T \subseteq S2, \A e \in T : v[e] = u[e]
  PROVE  g[T] = h[T]
  <1> DEFINE P == {n \in Nat : \A U \in SUBSET T : IsFiniteSet(U) /\ Cardinality(U) = n => g[U] = h[U]}
  <1>1. 0 \in P
    <2>1. SUFFICES ASSUME NEW U \in SUBSET T, IsFiniteSet(U), Cardinality(U) = 0
                   PROVE  g[U] = h[U]
      OBVIOUS
    <2>2. U = {}
      BY <2>1, FS_EmptySet
    <2>3. QED
      BY <2>2 DEF FoldOf
  <1>2. ASSUME NEW n \in Nat, n \in P PROVE n + 1 \in P
    <2>1. SUFFICES ASSUME NEW U \in SUBSET T, IsFiniteSet(U), Cardinality(U) = n + 1
                   PROVE  g[U] = h[U]
      OBVIOUS
    <2>2. U # {} /\ Pick(U) \in U
      BY <2>1, NonEmpty, PickOf
    <2>3. IsFiniteSet(U \ {Pick(U)}) /\ Cardinality(U \ {Pick(U)}) = n
      BY <2>1, <2>2, Removed
    <2>4. g[U \ {Pick(U)}] = h[U \ {Pick(U)}]
      BY <1>2, <2>3
    <2>5. g[U] = Combine(op, v[Pick(U)], g[U \ {Pick(U)}])
      BY <2>2 DEF FoldOf
    <2>6. h[U] = Combine(op, u[Pick(U)], h[U \ {Pick(U)}])
      BY <2>2 DEF FoldOf
    <2>7. v[Pick(U)] = u[Pick(U)]
      BY <2>2
    <2>8. QED
      BY <2>4, <2>5, <2>6, <2>7
  <1> HIDE DEF P
  <1>3. Cardinality(T) \in Nat /\ Nat \subseteq P
    BY <1>1, <1>2, Induct, FS_CardinalityType
  <1>4. QED
    BY <1>3 DEF P

\* The equation has a solution.
LEMMA FoldExists ==
  ASSUME NEW op, NEW v, NEW S, IsFiniteSet(S)
  PROVE  \E g : FoldOf(op, v, g, S)
  <1> DEFINE Has(U) == \E g : FoldOf(op, v, g, U)
             P == {n \in Nat : \A U : IsFiniteSet(U) /\ Cardinality(U) <= n => Has(U)}
  <1>1. 0 \in P
    <2>1. SUFFICES ASSUME NEW U, IsFiniteSet(U), Cardinality(U) <= 0 PROVE Has(U)
      OBVIOUS
    <2>2. U = {}
      BY <2>1, FS_EmptySet, FS_CardinalityType
    <2>3. FoldOf(op, v, [s \in SUBSET U |-> Unit(op)], U)
      BY <2>2 DEF FoldOf
    <2>4. QED
      BY <2>3
  <1>2. ASSUME NEW n \in Nat, n \in P PROVE n + 1 \in P
    <2>1. SUFFICES ASSUME NEW U, IsFiniteSet(U), Cardinality(U) <= n + 1 PROVE Has(U)
      OBVIOUS
    <2> DEFINE g == [s \in SUBSET U |-> IF s = {} THEN Unit(op) ELSE Combine(op, v[Pick(s)], Folded(op, v, s \ {Pick(s)}))]
    <2>2. ASSUME NEW s \in SUBSET U, s # {}
          PROVE  g[s \ {Pick(s)}] = Folded(op, v, s \ {Pick(s)})
      <3> DEFINE t == s \ {Pick(s)}
                 G == CHOOSE f : FoldOf(op, v, f, t)
      <3>1. Pick(s) \in s
        BY <2>2, PickOf
      <3>2. IsFiniteSet(s) /\ Cardinality(s) <= n + 1 /\ Cardinality(s) \in Nat
        BY <2>1, FS_Subset, FS_CardinalityType
      <3>3. IsFiniteSet(t) /\ Cardinality(t) <= n
        <4>1. IsFiniteSet(t) /\ Cardinality(t) = Cardinality(s) - 1
          BY <3>1, <3>2, FS_RemoveElement
        <4>2. QED
          BY <3>2, <4>1
      <3> HIDE DEF t
      <3>4. FoldOf(op, v, G, t) /\ Folded(op, v, t) = G[t]
        BY <1>2, <3>3 DEF Folded
      <3>5. CASE t = {}
        BY <3>4, <3>5 DEF FoldOf, t
      <3>6. CASE t # {}
        <4> DEFINE t2 == t \ {Pick(t)}
                   G2 == CHOOSE f : FoldOf(op, v, f, t2)
        <4>1. Pick(t) \in t /\ IsFiniteSet(t2) /\ Cardinality(t2) <= n
          <5>1. Pick(t) \in t
            BY <3>6, PickOf
          <5>2. IsFiniteSet(t2) /\ Cardinality(t2) = Cardinality(t) - 1
            BY <3>3, <5>1, FS_RemoveElement
          <5>3. Cardinality(t) \in Nat
            BY <3>3, FS_CardinalityType
          <5>4. QED
            BY <3>3, <5>1, <5>2, <5>3
        <4>2. t2 \subseteq t /\ t2 \subseteq t2
          OBVIOUS
        <4> HIDE DEF t2
        <4>3. FoldOf(op, v, G2, t2) /\ Folded(op, v, t2) = G2[t2]
          BY <1>2, <4>1 DEF Folded
        <4> HIDE DEF G, G2
        <4>4. G[t2] = G2[t2]
          BY <3>4, <4>1, <4>2, <4>3, FoldUnique
        <4>5. G[t] = Combine(op, v[Pick(t)], G[t2])
          BY <3>4, <3>6, Zenon DEF FoldOf, t2
        <4>6. g[t] = Combine(op, v[Pick(t)], Folded(op, v, t2))
          BY <3>6 DEF t, t2
        <4>7. QED
          BY <3>4, <4>3, <4>4, <4>5, <4>6 DEF t
      <3>7. QED
        BY <3>5, <3>6
    <2>3. FoldOf(op, v, g, U)
      BY <2>2 DEF FoldOf
    <2> HIDE DEF g
    <2>4. QED
      BY <2>3
  <1> HIDE DEF P
  <1>3. Cardinality(S) \in Nat /\ Nat \subseteq P
    BY <1>1, <1>2, Induct, FS_CardinalityType
  <1>4. QED
    BY <1>3 DEF P

\* Sums: the equation of SumFunctionOnSet and MapThenSumSet, and its value.
SumOf(v, g, S) == g = [s \in SUBSET S |-> IF s = {} THEN 0 ELSE v[Pick(s)] + g[s \ {Pick(s)}]]
Total(v, S) == (CHOOSE g : SumOf(v, g, S))[S]

\* The sums of the community modules are folds.
LEMMA SumIsFold == ASSUME NEW v, NEW g, NEW S PROVE SumOf(v, g, S) <=> FoldOf("+", v, g, S)
  BY DEF Unit, Combine, SumOf, FoldOf

\* Two solutions of the equation of a sum agree on every subset.
LEMMA SumUnique ==
  ASSUME NEW v, NEW u, NEW g, NEW h, NEW S1, NEW S2, SumOf(v, g, S1), SumOf(u, h, S2),
         NEW T, IsFiniteSet(T), T \subseteq S1, T \subseteq S2, \A e \in T : v[e] = u[e]
  PROVE  g[T] = h[T]
  BY FoldUnique, SumIsFold

\* The equation of a sum has a solution, for every finite set.
LEMMA SumExists == ASSUME NEW v, NEW S, IsFiniteSet(S) PROVE \E g : SumOf(v, g, S)
  BY FoldExists, SumIsFold

\* Products: the equation of FoldFunction with a multiplication, and its value.
ProductOf(v, g, S) == g = [s \in SUBSET S |-> IF s = {} THEN 1 ELSE v[Pick(s)] * g[s \ {Pick(s)}]]

\* The product of a sequence is a fold.
LEMMA ProductIsFold == ASSUME NEW v, NEW g, NEW S PROVE ProductOf(v, g, S) <=> FoldOf("*", v, g, S)
  BY DEF Unit, Combine, ProductOf, FoldOf

\* A sum over a set: nothing for none, one member and the rest otherwise.
LEMMA TotalOf ==
  ASSUME NEW v, NEW S, IsFiniteSet(S)
  PROVE  /\ Total(v, {}) = 0
         /\ S # {} => Total(v, S) = v[Pick(S)] + Total(v, S \ {Pick(S)})
  <1>1. ASSUME NEW T, IsFiniteSet(T)
        PROVE  SumOf(v, CHOOSE g : SumOf(v, g, T), T)
    BY <1>1, SumExists
  <1>2. Total(v, {}) = 0
    <2> DEFINE G == CHOOSE g : SumOf(v, g, {})
    <2>1. SumOf(v, G, {})
      BY <1>1, FS_EmptySet
    <2> HIDE DEF G
    <2>2. G[{}] = 0
      BY <2>1 DEF SumOf
    <2>3. QED
      BY <2>2 DEF Total, G
  <1>3. ASSUME S # {} PROVE Total(v, S) = v[Pick(S)] + Total(v, S \ {Pick(S)})
    <2> DEFINE T == S \ {Pick(S)}
               G == CHOOSE g : SumOf(v, g, S)
               H == CHOOSE g : SumOf(v, g, T)
    <2>1. IsFiniteSet(T) /\ T \subseteq S /\ T \subseteq T
      BY FS_RemoveElement
    <2>2. SumOf(v, G, S) /\ SumOf(v, H, T)
      BY <1>1, <2>1
    <2>3. Total(v, S) = G[S] /\ Total(v, T) = H[T]
      BY DEF Total
    <2> HIDE DEF G, H, T
    <2>4. G[T] = H[T]
      BY <2>1, <2>2, SumUnique
    <2>5. G[S] = v[Pick(S)] + G[T]
      BY <1>3, <2>2, Zenon DEF SumOf, T
    <2>6. QED
      BY <2>3, <2>4, <2>5 DEF T
  <1>4. QED
    BY <1>2, <1>3

\* What is summed over depends on its values in the set only.
LEMMA TotalSame ==
  ASSUME NEW S, IsFiniteSet(S), NEW v, NEW u, \A e \in S : v[e] = u[e]
  PROVE  Total(v, S) = Total(u, S)
  <1> DEFINE G == CHOOSE g : SumOf(v, g, S)
             H == CHOOSE g : SumOf(u, g, S)
  <1>1. SumOf(v, G, S) /\ SumOf(u, H, S)
    BY SumExists
  <1>2. Total(v, S) = G[S] /\ Total(u, S) = H[S]
    BY DEF Total
  <1> HIDE DEF G, H
  <1>3. S \subseteq S
    OBVIOUS
  <1>4. G[S] = H[S]
    BY <1>1, <1>3, SumUnique
  <1>5. QED
    BY <1>2, <1>4

\* A sum of integers is an integer.
LEMMA TotalInt ==
  ASSUME NEW S, IsFiniteSet(S), NEW v, \A e \in S : v[e] \in Int
  PROVE  Total(v, S) \in Int
  <1> DEFINE P == {n \in Nat : \A T \in SUBSET S :
                      IsFiniteSet(T) /\ Cardinality(T) = n => Total(v, T) \in Int}
  <1>1. 0 \in P
    <2>1. SUFFICES ASSUME NEW T \in SUBSET S, IsFiniteSet(T), Cardinality(T) = 0
                   PROVE  Total(v, T) \in Int
      OBVIOUS
    <2>2. T = {}
      BY <2>1, FS_EmptySet
    <2>3. Total(v, T) = 0
      BY <2>1, <2>2, TotalOf
    <2>4. QED
      BY <2>3
  <1>2. ASSUME NEW n \in Nat, n \in P PROVE n + 1 \in P
    <2>1. SUFFICES ASSUME NEW T \in SUBSET S, IsFiniteSet(T), Cardinality(T) = n + 1
                   PROVE  Total(v, T) \in Int
      OBVIOUS
    <2>2. T # {} /\ Pick(T) \in T
      BY <2>1, NonEmpty, PickOf
    <2>3. IsFiniteSet(T \ {Pick(T)}) /\ Cardinality(T \ {Pick(T)}) = n
      BY <2>1, <2>2, Removed
    <2>4. Total(v, T \ {Pick(T)}) \in Int
      BY <1>2, <2>3
    <2>5. Total(v, T) = v[Pick(T)] + Total(v, T \ {Pick(T)})
      BY <2>1, <2>2, TotalOf
    <2>6. v[Pick(T)] \in Int
      BY <2>2
    <2>7. QED
      BY <2>4, <2>5, <2>6
  <1> HIDE DEF P
  <1>3. Cardinality(S) \in Nat /\ Nat \subseteq P
    BY <1>1, <1>2, Induct, FS_CardinalityType
  <1>4. QED
    BY <1>3 DEF P

\* Any member may be the one that is added last.
LEMMA TotalStep ==
  ASSUME NEW S, IsFiniteSet(S), NEW v, \A e \in S : v[e] \in Int, NEW a \in S
  PROVE  Total(v, S) = v[a] + Total(v, S \ {a})
  <1> DEFINE Good(T) == \A b \in T : Total(v, T) = v[b] + Total(v, T \ {b})
             P == {n \in Nat : \A T \in SUBSET S : IsFiniteSet(T) /\ Cardinality(T) = n => Good(T)}
  <1>1. 0 \in P
    BY FS_EmptySet
  <1>2. ASSUME NEW n \in Nat, n \in P PROVE n + 1 \in P
    <2>1. SUFFICES ASSUME NEW T \in SUBSET S, IsFiniteSet(T), Cardinality(T) = n + 1,
                          NEW b \in T
                   PROVE  Total(v, T) = v[b] + Total(v, T \ {b})
      OBVIOUS
    <2>2. PICK e \in T : e = Pick(T)
      BY PickOf
    <2>3. IsFiniteSet(T \ {e}) /\ Cardinality(T \ {e}) = n
      BY <2>1, Removed
    <2>4. Total(v, T) = v[e] + Total(v, T \ {e})
      BY <2>1, <2>2, TotalOf
    <2>5. CASE b = e
      BY <2>4, <2>5
    <2>6. CASE b # e
      <3>1. b \in T \ {e} /\ e \in T \ {b}
        BY <2>6
      <3>2. Total(v, T \ {e}) = v[b] + Total(v, (T \ {e}) \ {b})
        BY <1>2, <2>3, <3>1
      <3>3. IsFiniteSet(T \ {b}) /\ Cardinality(T \ {b}) = n
        BY <2>1, Removed
      <3>4. Total(v, T \ {b}) = v[e] + Total(v, (T \ {b}) \ {e})
        BY <1>2, <3>1, <3>3
      <3>5. (T \ {b}) \ {e} = (T \ {e}) \ {b}
        OBVIOUS
      <3>6. IsFiniteSet((T \ {e}) \ {b})
        BY <2>3, FS_RemoveElement
      <3>7. Total(v, (T \ {e}) \ {b}) \in Int
        BY <3>6, TotalInt
      <3>8. v[b] \in Int /\ v[e] \in Int
        OBVIOUS
      <3>9. Total(v, T \ {b}) = v[e] + Total(v, (T \ {e}) \ {b})
        BY <3>4, <3>5, Zenon
      <3>10. QED
        BY <2>4, <3>2, <3>7, <3>8, <3>9
    <2>7. QED
      BY <2>5, <2>6
  <1> HIDE DEF P
  <1>3. Cardinality(S) \in Nat /\ Nat \subseteq P
    BY <1>1, <1>2, Induct, FS_CardinalityType
  <1>4. QED
    BY <1>3 DEF P

\* Sums keep an order, term by term, and the sum of a multiple is the multiple.
LEMMA TotalBound ==
  ASSUME NEW S, IsFiniteSet(S), NEW v, NEW u,
         \A e \in S : v[e] \in Int /\ u[e] \in Int /\ v[e] <= u[e]
  PROVE  Total(v, S) <= Total(u, S)
  <1> DEFINE P == {n \in Nat : \A T \in SUBSET S :
                      IsFiniteSet(T) /\ Cardinality(T) = n => Total(v, T) <= Total(u, T)}
  <1>1. 0 \in P
    <2>1. SUFFICES ASSUME NEW T \in SUBSET S, IsFiniteSet(T), Cardinality(T) = 0
                   PROVE  Total(v, T) <= Total(u, T)
      OBVIOUS
    <2>2. T = {}
      BY <2>1, FS_EmptySet
    <2>3. Total(v, T) = 0 /\ Total(u, T) = 0
      BY <2>1, <2>2, TotalOf
    <2>4. QED
      BY <2>3
  <1>2. ASSUME NEW n \in Nat, n \in P PROVE n + 1 \in P
    <2>1. SUFFICES ASSUME NEW T \in SUBSET S, IsFiniteSet(T), Cardinality(T) = n + 1
                   PROVE  Total(v, T) <= Total(u, T)
      OBVIOUS
    <2>2. T # {}
      BY <2>1, NonEmpty
    <2>3. PICK e \in T : TRUE
      BY <2>2
    <2>4. IsFiniteSet(T \ {e}) /\ Cardinality(T \ {e}) = n
      BY <2>1, Removed
    <2>5. Total(v, T \ {e}) <= Total(u, T \ {e})
      BY <1>2, <2>4
    <2>6. Total(v, T) = v[e] + Total(v, T \ {e}) /\ Total(u, T) = u[e] + Total(u, T \ {e})
      BY <2>1, TotalStep
    <2>7. /\ v[e] \in Int /\ u[e] \in Int /\ v[e] <= u[e]
          /\ Total(v, T \ {e}) \in Int /\ Total(u, T \ {e}) \in Int
      BY <2>4, TotalInt
    <2>8. QED
      BY <2>5, <2>6, <2>7
  <1> HIDE DEF P
  <1>3. Cardinality(S) \in Nat /\ Nat \subseteq P
    BY <1>1, <1>2, Induct, FS_CardinalityType
  <1>4. QED
    BY <1>3 DEF P

\* Sums add up and scale.
LEMMA TotalLinear ==
  ASSUME NEW S, IsFiniteSet(S), NEW v, NEW u, NEW z, NEW k \in Int, NEW m \in Int,
         \A e \in S : v[e] \in Int /\ u[e] \in Int /\ z[e] = k * v[e] + m * u[e]
  PROVE  Total(z, S) = k * Total(v, S) + m * Total(u, S)
  <1> DEFINE Good(T) == Total(z, T) = k * Total(v, T) + m * Total(u, T)
             P == {n \in Nat : \A T \in SUBSET S : IsFiniteSet(T) /\ Cardinality(T) = n => Good(T)}
  <1>1. 0 \in P
    <2>1. SUFFICES ASSUME NEW T \in SUBSET S, IsFiniteSet(T), Cardinality(T) = 0 PROVE Good(T)
      OBVIOUS
    <2>2. T = {}
      BY <2>1, FS_EmptySet
    <2>3. Total(z, T) = 0 /\ Total(v, T) = 0 /\ Total(u, T) = 0
      BY <2>1, <2>2, TotalOf
    <2>4. QED
      BY <2>3
  <1>2. ASSUME NEW n \in Nat, n \in P PROVE n + 1 \in P
    <2>1. SUFFICES ASSUME NEW T \in SUBSET S, IsFiniteSet(T), Cardinality(T) = n + 1 PROVE Good(T)
      OBVIOUS
    <2>2. T # {}
      BY <2>1, NonEmpty
    <2>3. PICK e \in T : TRUE
      BY <2>2
    <2>4. IsFiniteSet(T \ {e}) /\ Cardinality(T \ {e}) = n
      BY <2>1, Removed
    <2>5. Good(T \ {e})
      BY <1>2, <2>4
    <2>6. v[e] \in Int /\ u[e] \in Int /\ z[e] = k * v[e] + m * u[e]
      OBVIOUS
    <2>7. \A a \in S : z[a] \in Int
      OBVIOUS
    <2>8. /\ Total(v, T) = v[e] + Total(v, T \ {e})
          /\ Total(u, T) = u[e] + Total(u, T \ {e})
          /\ Total(z, T) = z[e] + Total(z, T \ {e})
      BY <2>1, <2>7, TotalStep
    <2>9. Total(v, T \ {e}) \in Int /\ Total(u, T \ {e}) \in Int
      BY <2>4, TotalInt
    <2>10. \A a, b, c, d \in Int : (k * a + m * b) + (k * c + m * d) = k * (a + c) + m * (b + d)
      BY SMT
    <2>11. QED
      BY <2>5, <2>6, <2>8, <2>9, <2>10
  <1> HIDE DEF P
  <1>3. Cardinality(S) \in Nat /\ Nat \subseteq P
    BY <1>1, <1>2, Induct, FS_CardinalityType
  <1>4. QED
    BY <1>3 DEF P

\* The sum over two sets that do not meet.
LEMMA TotalUnion ==
  ASSUME NEW S, IsFiniteSet(S), NEW S2, IsFiniteSet(S2), S \cap S2 = {},
         NEW v, \A e \in S \cup S2 : v[e] \in Int
  PROVE  Total(v, S \cup S2) = Total(v, S) + Total(v, S2)
  <1> DEFINE Good(T) == Total(v, S \cup T) = Total(v, S) + Total(v, T)
             P == {n \in Nat : \A T \in SUBSET S2 : IsFiniteSet(T) /\ Cardinality(T) = n => Good(T)}
  <1>0. Total(v, S) \in Int
    BY TotalInt
  <1>1. 0 \in P
    <2>1. SUFFICES ASSUME NEW T \in SUBSET S2, IsFiniteSet(T), Cardinality(T) = 0 PROVE Good(T)
      OBVIOUS
    <2>2. T = {} /\ S \cup T = S
      BY <2>1, FS_EmptySet
    <2>3. Total(v, T) = 0
      BY <2>1, <2>2, TotalOf
    <2>4. QED
      BY <1>0, <2>2, <2>3
  <1>2. ASSUME NEW n \in Nat, n \in P PROVE n + 1 \in P
    <2>1. SUFFICES ASSUME NEW T \in SUBSET S2, IsFiniteSet(T), Cardinality(T) = n + 1 PROVE Good(T)
      OBVIOUS
    <2>2. T # {}
      BY <2>1, NonEmpty
    <2>3. PICK e \in T : TRUE
      BY <2>2
    <2>4. IsFiniteSet(T \ {e}) /\ Cardinality(T \ {e}) = n
      BY <2>1, Removed
    <2>5. Good(T \ {e})
      BY <1>2, <2>4
    <2>6. (S \cup T) \ {e} = S \cup (T \ {e}) /\ e \in S \cup T /\ IsFiniteSet(S \cup T)
      BY <2>1, FS_Union
    <2>7. /\ Total(v, T) = v[e] + Total(v, T \ {e})
          /\ Total(v, S \cup T) = v[e] + Total(v, (S \cup T) \ {e})
      BY <2>1, <2>6, TotalStep
    <2>8. Total(v, T \ {e}) \in Int /\ v[e] \in Int
      BY <2>4, TotalInt
    <2>9. Total(v, S \cup T) = v[e] + Total(v, S \cup (T \ {e}))
      BY <2>6, <2>7, Zenon
    <2>10. QED
      BY <1>0, <2>5, <2>7, <2>8, <2>9
  <1> HIDE DEF P
  <1>3. Cardinality(S2) \in Nat /\ Nat \subseteq P
    BY <1>1, <1>2, Induct, FS_CardinalityType
  <1>4. QED
    BY <1>3 DEF P

-----------------------------------------------------------------------------
(* Quotients and remainders. *)

\* Division with a remainder, as a pair.
LEMMA DivisionIs ==
  ASSUME NEW n \in Nat, NEW c \in Nat \ {0}
  PROVE  \E q1 \in Nat, y1 \in 0..(c - 1) : n = q1 * c + y1
  <1>1. n \div c \in Nat /\ n % c \in 0..(c - 1)
    BY SMT
  <1>2. n = c * (n \div c) + (n % c)
    BY SMT
  <1>3. PICK a \in Nat : a = n \div c
    BY <1>1
  <1>4. PICK b \in 0..(c - 1) : b = n % c
    BY <1>1
  <1>5. n = a * c + b
    BY <1>2, <1>3, <1>4
  <1>6. QED
    BY <1>5

\* The multiple of c next to a number, from below.
LEMMA QuotientBounds ==
  ASSUME NEW n \in Nat, NEW c \in Nat \ {0}
  PROVE  c * (n \div c) <= n /\ n < c * (n \div c) + c
  OBVIOUS

\* Of the multiples of c, those up to n are the first.
LEMMA MultiplesUpTo ==
  ASSUME NEW c \in Nat \ {0}, NEW q1 \in Nat, NEW y1 \in 0..(c - 1), NEW u \in Nat
  PROVE  u * c <= q1 * c + y1 <=> u <= q1
  OBVIOUS

\* Row and column of a place are its quotient and its remainder.
LEMMA Place ==
  ASSUME NEW c \in Nat \ {0}, NEW o \in Nat, NEW i \in 0..(c - 1)
  PROVE  /\ o * c + i \in Nat /\ (o * c + i) \div c = o /\ (o * c + i) % c = i
         /\ \A h \in Nat : o < h => o * c + i \in 0..(h * c - 1)
  OBVIOUS

\* Every place of a matrix is in one row and one column.
LEMMA PlaceOf ==
  ASSUME NEW c \in Nat \ {0}, NEW h \in Nat, NEW n \in 0..(h * c - 1)
  PROVE  \E o \in 0..(h - 1), i \in 0..(c - 1) : n = o * c + i
  <1>1. n \in Nat /\ h * c \in Nat /\ n < h * c
    OBVIOUS
  <1>2. PICK o \in Nat, i \in 0..(c - 1) : n = o * c + i
    BY <1>1, DivisionIs
  <1>3. o < h
    <2>1. SUFFICES ASSUME h <= o PROVE FALSE
      OBVIOUS
    <2>2. h * c <= o * c
      BY <2>1, SMT
    <2>3. o * c \in Nat
      OBVIOUS
    <2>4. QED
      BY <1>1, <1>2, <2>2, <2>3
  <1>4. QED
    BY <1>2, <1>3

\* A row and a column of a matrix are a place in its data.
LEMMA PlaceIn ==
  ASSUME NEW c \in Nat \ {0}, NEW h \in Nat, NEW o \in 0..(h - 1), NEW i \in 0..(c - 1)
  PROVE  o * c + i \in 0..(h * c - 1)
  BY Place

\* A place in the data is that of its row and its column.
LEMMA PlaceIs ==
  ASSUME NEW c \in Nat \ {0}, NEW h \in Nat, NEW o \in 0..(h - 1), NEW i \in 0..(c - 1)
  PROVE  \E n \in 0..(h * c - 1) : n = o * c + i /\ n \div c = o /\ n % c = i
  BY Place, PlaceIn

-----------------------------------------------------------------------------
(* Powers of two count the subsets of an interval.                           *)

\* Subsets of an interval are counted by a power of two.
LEMMA PowCounts ==
  ASSUME NEW n \in Nat
  PROVE  /\ IsFiniteSet(SUBSET (1..n)) /\ Cardinality(SUBSET (1..n)) = 2^n
         /\ 2^n \in Nat
  <1>1. IsFiniteSet(1..n) /\ Cardinality(1..n) = n
    BY FS_Interval
  <1>2. IsFiniteSet(SUBSET (1..n)) /\ Cardinality(SUBSET (1..n)) = 2^Cardinality(1..n)
    BY <1>1, FS_SUBSET, Zenon
  <1>3. Cardinality(SUBSET (1..n)) = 2^n
    BY <1>1, <1>2, Zenon
  <1>4. QED
    BY <1>2, <1>3, FS_CardinalityType, Zenon

\* The powers of two, one by one.
LEMMA PowSucc == ASSUME NEW n \in Nat PROVE 2^(n + 1) = 2^n + 2^n
  <1> DEFINE A == SUBSET (1..n)
             With(T) == T \cup {n + 1}
             B == {With(T) : T \in A}
  <1>1. SUBSET (1..(n + 1)) = A \cup B
    <2>1. ASSUME NEW T \in SUBSET (1..(n + 1)) PROVE T \in A \cup B
      <3>1. CASE n + 1 \notin T
        BY <3>1
      <3>2. CASE n + 1 \in T
        <4>1. T \ {n + 1} \in A
          OBVIOUS
        <4>2. T = With(T \ {n + 1})
          BY <3>2
        <4> HIDE DEF A, With
        <4>3. QED
          BY <4>1, <4>2
      <3>3. QED
        BY <3>1, <3>2
    <2>2. ASSUME NEW T \in A PROVE T \in SUBSET (1..(n + 1)) /\ With(T) \in SUBSET (1..(n + 1))
      OBVIOUS
    <2> HIDE DEF A, With
    <2>3. QED
      BY <2>1, <2>2
  <1>2. A \cap B = {}
    OBVIOUS
  <1>3. IsFiniteSet(A) /\ Cardinality(A) = 2^n /\ 2^n \in Nat
    BY PowCounts
  <1>4. ASSUME NEW T \in A, NEW U \in A, With(T) = With(U) PROVE T = U
    <2>1. n + 1 \notin T /\ n + 1 \notin U
      OBVIOUS
    <2>2. T = With(T) \ {n + 1} /\ U = With(U) \ {n + 1}
      BY <2>1
    <2> HIDE DEF With
    <2>3. QED
      BY <1>4, <2>2
  <1>5. IsFiniteSet(B) /\ Cardinality(B) = Cardinality(A)
    <2> DEFINE f == [T \in A |-> With(T)]
    <2> HIDE DEF A, With
    <2>1. f \in Bijection(A, B)
      BY <1>4 DEF Bijection, Injection, Surjection, IsInjective
    <2>2. ExistsBijection(A, B)
      BY <2>1 DEF ExistsBijection
    <2> HIDE DEF B
    <2>3. QED
      BY <1>3, <2>2, FS_Bijection
  <1>6. Cardinality(A \cup B) = Cardinality(A) + Cardinality(B)
    <2> HIDE DEF A, B
    <2>1. Cardinality({}) = 0
      BY FS_EmptySet
    <2>2. Cardinality(A \cup B) = Cardinality(A) + Cardinality(B) - Cardinality(A \cap B)
      BY <1>3, <1>5, FS_Union, Zenon
    <2>3. Cardinality(A \cap B) = 0
      BY <1>2, <2>1, Zenon
    <2>4. QED
      BY <1>3, <1>5, <2>2, <2>3
  <1>7. Cardinality(SUBSET (1..(n + 1))) = 2^(n + 1)
    BY PowCounts
  <1> HIDE DEF A, B
  <1>8. QED
    BY <1>1, <1>3, <1>5, <1>6, <1>7

\* Two to the zeroth.
LEMMA PowZero == 2^0 = 1
  OBVIOUS

\* Exponents add up.
LEMMA PowAdd == ASSUME NEW m \in Nat, NEW n \in Nat PROVE 2^(m + n) = 2^m * 2^n
  <1> DEFINE P == {k \in Nat : 2^(m + k) = 2^m * 2^k}
  <1>1. 0 \in P
    BY PowCounts, PowZero
  <1>2. ASSUME NEW k \in Nat, k \in P PROVE k + 1 \in P
    BY <1>2, PowCounts, PowSucc
  <1> HIDE DEF P
  <1>3. n \in P
    BY <1>1, <1>2, Induct
  <1>4. QED
    BY <1>3 DEF P

\* Powers of two are positive.
LEMMA PowPositive == ASSUME NEW n \in Nat PROVE 2^n \in Nat \ {0}
  <1> DEFINE P == {k \in Nat : 2^k >= 1}
  <1>1. 0 \in P
    BY PowZero
  <1>2. ASSUME NEW k \in Nat, k \in P PROVE k + 1 \in P
    BY <1>2, PowSucc, PowCounts
  <1> HIDE DEF P
  <1>3. n \in P
    BY <1>1, <1>2, Induct
  <1>4. QED
    BY <1>3, PowCounts DEF P

\* Powers of two grow with their exponent.
LEMMA PowGrows == ASSUME NEW m \in Nat, NEW n \in Nat, m <= n PROVE 2^m <= 2^n
  <1>1. PICK d \in Nat : n = m + d
    OBVIOUS
  <1>2. PICK a \in Nat : a = 2^m
    BY PowCounts
  <1>3. PICK b \in Nat \ {0} : b = 2^d
    BY PowPositive
  <1>4. 2^n = a * b
    BY <1>1, <1>2, <1>3, PowAdd
  <1>5. a <= a * b
    BY SMT
  <1>6. QED
    BY <1>2, <1>4, <1>5

-----------------------------------------------------------------------------
(* The reductions: barriers and rounds. *)

RowLabels == {"scan", "sync", "load", "store", "scale", "write", "done"}

\* The stride of the next round; -1 is behind the barrier of the scale.
Halved(s) == IF s = 0 THEN -1 ELSE s \div 2

RowShape == /\ stride \in [RowKernel!Threads -> -1..NumThreads]
         /\ thread_pc \in [RowKernel!Threads -> RowLabels]

\* Thread u is where t is, or t waits and u has gone on by one round.
Ahead(t, u) == stride[u] = Halved(stride[t]) /\ stride[t] >= 0 /\ thread_pc[t] = "sync"
InStep == \A t, u \in RowKernel!Threads : \/ stride[t] = stride[u]
                                \/ Ahead(t, u) \/ Ahead(u, t)

\* Only the lower half of the candidates is combined in a round.
Working == \A t \in RowKernel!Threads : thread_pc[t] \in {"load", "store"} =>
              stride[t] > 0 /\ stride[t] <= NumThreads \div 2 /\ t < stride[t]
Idle == \A t \in RowKernel!Threads :
           0 < stride[t] /\ stride[t] < NumThreads /\ t >= stride[t] => thread_pc[t] = "sync"

\* Thread 0 leaves the reduction for the scale, and a thread that writes has
\* passed the barrier behind it.
ScaleFirst ==
    /\ \A t \in RowKernel!Threads : thread_pc[t] = "scale" => t = 0 /\ stride[t] = 0
    /\ kernel = "rms_norm" =>
         /\ stride[0] <= 0 /\ thread_pc[0] # "scale" => scale # <<>>
         /\ \A t \in RowKernel!Threads : thread_pc[t] = "write" => stride[t] = -1

RowInv == RowShape /\ InStep /\ Working /\ Idle /\ ScaleFirst

-----------------------------------------------------------------------------

\* Thread 0 is a thread, and threads are numbers.
LEMMA ThreadZero ==
  ASSUME NumThreads \in Nat \ {0}
  PROVE  0 \in RowKernel!Threads /\ RowKernel!Threads \subseteq Nat
  BY DEF RowKernel!Threads

\* Strides only shrink.
LEMMA HalvedShrinks ==
  ASSUME NEW s \in Nat
  PROVE  /\ Halved(s) \in -1..s /\ Halved(s) < s
         /\ s > 0 => Halved(s) = s \div 2
         /\ s <= NumThreads /\ NumThreads \in Nat => Halved(s) <= NumThreads \div 2
  BY DEF Halved

\* A barrier that a thread may pass has been reached by all, and passed once at most.
LEMMA Arrived ==
  ASSUME RowInv, NEW t \in RowKernel!Threads, stride[t] >= 0, thread_pc[t] = "sync", RowKernel!AllArrived(t),
         NEW u \in RowKernel!Threads
  PROVE  \/ stride[u] = Halved(stride[t])
         \/ stride[u] = stride[t] /\ thread_pc[u] = "sync"
  <1>1. CASE stride[u] = stride[t]
    BY <1>1 DEF RowKernel!AllArrived, RowInv, RowShape
  <1>2. CASE stride[u] < stride[t]
    <2>1. stride[u] \in -1..NumThreads /\ stride[t] \in Nat
      BY DEF RowInv, RowShape
    <2>2. ~ Ahead(u, t)
      <3>1. SUFFICES ASSUME Ahead(u, t) PROVE FALSE
        OBVIOUS
      <3>2. stride[u] \in Nat /\ stride[t] = Halved(stride[u])
        BY <2>1, <3>1 DEF Ahead
      <3>3. QED
        BY <1>2, <2>1, <3>2, HalvedShrinks
    <2>3. QED
      BY <1>2, <2>1, <2>2 DEF RowInv, InStep, Ahead
  <1>3. QED
    BY <1>1, <1>2 DEF RowKernel!AllArrived, RowInv, RowShape

\* The kernel starts in its invariant.
LEMMA RowInit ==
  ASSUME NumThreads \in Nat \ {0}, RowKernel!Init
  PROVE  RowInv
  BY ThreadZero DEF RowKernel!Init, RowInv, RowShape, RowLabels, InStep, Working, Idle, ScaleFirst

\* A thread that is at no barrier goes on within its round.
LEMMA WithinRound ==
  ASSUME RowInv, NumThreads \in Nat \ {0}, NEW t \in RowKernel!Threads,
         RowKernel!Scan(t) \/ RowKernel!Load(t) \/ RowKernel!Store(t) \/ RowKernel!WriteScale(t) \/ RowKernel!WriteOut(t)
  PROVE  RowInv'
  <1>1. UNCHANGED <<stride, kernel>> /\ thread_pc[t] # "sync"
    BY DEF RowKernel!Scan, RowKernel!Load, RowKernel!Store, RowKernel!WriteScale, RowKernel!WriteOut, RowKernel!row
  <1>2. PICK label \in {"sync", "store", "done"} :
          /\ thread_pc' = [thread_pc EXCEPT ![t] = label]
          /\ label = "store" => thread_pc[t] = "load"
    BY DEF RowKernel!Scan, RowKernel!Load, RowKernel!Store, RowKernel!WriteScale, RowKernel!WriteOut, RowKernel!Goto
  <1>3. /\ thread_pc[t] = "scale" => scale' # <<>>
        /\ thread_pc[t] # "scale" => scale' = scale
    BY DEF RowKernel!Scan, RowKernel!Load, RowKernel!Store, RowKernel!WriteScale, RowKernel!WriteOut
  <1>4. RowShape'
    BY <1>1, <1>2 DEF RowInv, RowShape, RowLabels
  <1>5. \A u \in RowKernel!Threads : thread_pc'[u] = thread_pc[u] \/ (u = t /\ thread_pc'[u] = label)
    BY <1>2 DEF RowInv, RowShape
  <1>6. InStep'
    BY <1>1, <1>5 DEF RowInv, InStep, Ahead
  <1>7. Working'
    BY <1>1, <1>2, <1>5 DEF RowInv, Working
  <1>8. Idle'
    BY <1>1, <1>5 DEF RowInv, Idle
  <1>9. ScaleFirst'
    BY <1>1, <1>3, <1>5, ThreadZero DEF RowInv, ScaleFirst
  <1>10. QED
    BY <1>4, <1>6, <1>7, <1>8, <1>9 DEF RowInv

\* A thread passes a barrier.
LEMMA PastBarrier ==
  ASSUME RowInv, NumThreads \in Nat \ {0}, NEW t \in RowKernel!Threads,
         RowKernel!Sync(t) \/ RowKernel!SyncScale(t)
  PROVE  RowInv'
  <1> DEFINE s == stride[t]
             h == Halved(s)
  <1>1. /\ s \in Nat /\ s <= NumThreads /\ thread_pc[t] = "sync" /\ RowKernel!AllArrived(t)
        /\ stride' = [stride EXCEPT ![t] = h]
        /\ UNCHANGED <<kernel, scale>>
    BY DEF RowKernel!Sync, RowKernel!SyncScale, RowKernel!row, RowInv, RowShape, Halved
  <1>2. PICK label \in RowLabels :
          /\ thread_pc' = [thread_pc EXCEPT ![t] = label]
          /\ label = "load" => h > 0 /\ t < h
          /\ label \in {"load", "sync", "scale", "write", "done"}
          /\ h > 0 /\ t >= h => label = "sync"
          /\ label = "scale" => t = 0 /\ h = 0
          /\ kernel = "rms_norm" /\ h = 0 /\ t = 0 => label = "scale"
          /\ kernel = "rms_norm" /\ label = "write" => h = -1
    BY <1>1, ThreadZero DEF RowKernel!Sync, RowKernel!SyncScale, RowKernel!Goto, RowLabels, Halved
  <1>3. \A u \in RowKernel!Threads \ {t} : thread_pc'[u] = thread_pc[u] /\ stride'[u] = stride[u]
    BY <1>1, <1>2 DEF RowInv, RowShape
  <1>4. thread_pc'[t] = label /\ stride'[t] = h
    BY <1>1, <1>2 DEF RowInv, RowShape
  <1>5. h \in -1..NumThreads /\ h < s /\ h <= NumThreads \div 2 /\ (s > 0 => h >= 0)
    BY <1>1, HalvedShrinks DEF Halved
  <1>6. RowShape'
    BY <1>1, <1>2, <1>5 DEF RowInv, RowShape
  <1>7. \A u \in RowKernel!Threads : stride[u] = h \/ (stride[u] = s /\ thread_pc[u] = "sync")
    BY <1>1, Arrived
  <1>8. InStep'
    <2>1. SUFFICES ASSUME NEW u \in RowKernel!Threads, NEW v \in RowKernel!Threads
                   PROVE  (stride[u] = stride[v] \/ Ahead(u, v) \/ Ahead(v, u))'
      BY DEF InStep
    <2>2. CASE u = t /\ v = t
      BY <2>2
    <2>3. CASE u = t /\ v # t
      BY <1>1, <1>3, <1>4, <1>7, <2>3 DEF Ahead
    <2>4. CASE u # t /\ v = t
      BY <1>1, <1>3, <1>4, <1>7, <2>4 DEF Ahead
    <2>5. CASE u # t /\ v # t
      BY <1>3, <2>5 DEF RowInv, InStep, Ahead
    <2>6. QED
      BY <2>2, <2>3, <2>4, <2>5
  <1>9. Working'
    BY <1>2, <1>3, <1>4, <1>5 DEF RowInv, Working
  <1>10. Idle'
    BY <1>2, <1>3, <1>4 DEF RowInv, Idle
  <1>11. ScaleFirst'
    BY <1>1, <1>2, <1>3, <1>4, <1>5, ThreadZero DEF RowInv, ScaleFirst
  <1>12. QED
    BY <1>6, <1>8, <1>9, <1>10, <1>11 DEF RowInv

\* Every step of a thread keeps the invariant.
LEMMA RowNext ==
  ASSUME RowInv, NumThreads \in Nat \ {0}, [RowKernel!Next]_(RowKernel!vars)
  PROVE  RowInv'
  <1>1. CASE UNCHANGED RowKernel!vars
    BY <1>1 DEF RowKernel!vars, RowInv, RowShape, InStep, Ahead, Working, Idle, ScaleFirst
  <1>2. CASE RowKernel!Next
    BY <1>1, <1>2, WithinRound, PastBarrier DEF RowKernel!Next, RowKernel!Finished
  <1>3. QED
    BY <1>1, <1>2

\* No two threads of one step touch the same cell.
LEMMA RowRaceFree ==
  ASSUME RowInv, NumThreads \in Nat \ {0}
  PROVE  RowKernel!RaceFree
  <1>1. SUFFICES ASSUME NEW t \in RowKernel!Threads
        PROVE  /\ thread_pc[t] = "load" => LET u == t + stride[t]
                                    IN thread_pc[u] = "sync" /\ stride[u] >= stride[t]
               /\ kernel = "rms_norm" /\ thread_pc[t] = "write" => scale # <<>> /\ thread_pc[0] # "scale"
    BY DEF RowKernel!RaceFree
  <1>2. ASSUME thread_pc[t] = "load", NEW u, u = t + stride[t]
        PROVE  thread_pc[u] = "sync" /\ stride[u] >= stride[t]
    <2>1. /\ stride[t] \in Nat /\ 0 < stride[t] /\ stride[t] <= NumThreads \div 2
          /\ t < stride[t] /\ t \in Nat
      BY <1>2, ThreadZero DEF RowInv, Working, RowShape
    <2>2. u \in RowKernel!Threads /\ u >= stride[t] /\ stride[t] < NumThreads
      BY <1>2, <2>1 DEF RowKernel!Threads
    <2>3. CASE stride[u] = stride[t]
      BY <2>1, <2>2, <2>3 DEF RowInv, Idle
    <2>4. CASE Ahead(u, t)
      BY <2>1, <2>2, <2>4, HalvedShrinks DEF Ahead, RowInv, RowShape
    <2>5. ~ Ahead(t, u)
      BY <1>2 DEF Ahead
    <2>6. QED
      BY <2>2, <2>3, <2>4, <2>5 DEF RowInv, InStep
  <1>3. ASSUME kernel = "rms_norm", thread_pc[t] = "write"
        PROVE  scale # <<>> /\ thread_pc[0] # "scale"
    <2>1. stride[t] = -1
      BY <1>3 DEF RowInv, ScaleFirst
    <2>2. stride[0] = -1 \/ Ahead(0, t) \/ Ahead(t, 0)
      BY <2>1, ThreadZero DEF RowInv, InStep
    <2>3. stride[0] \in Nat \ {0} => Halved(stride[0]) # -1
      BY DEF Halved
    <2>4. stride[0] <= 0 /\ thread_pc[0] # "scale"
      BY <2>1, <2>2, <2>3, ThreadZero DEF Ahead, RowInv, RowShape, ScaleFirst
    <2>5. QED
      BY <1>3, <2>4 DEF RowInv, ScaleFirst
  <1>4. QED
    BY <1>1, <1>2, <1>3

-----------------------------------------------------------------------------
(* While a subject runs, the behaviour is one of its own module. *)

\* A run on the subject is a run of its module.
LEMMA RowRuns ==
  /\ Init => (subject = "row kernel" => RowKernel!Init)
  /\ [Next]_allVars => UNCHANGED subject
                       /\ (subject = "row kernel" => [RowKernel!Next]_(RowKernel!vars))
  BY DEF Init, allVars, rowVars, RowKernel!vars, Next

\* A block has a thread.
LEMMA HasThread == NumThreads \in Nat \ {0}
  BY OperatorsAssumption, PowPositive DEF RowKernel!RowKernelsAssumption

\* argmax_kernel and rms_norm_kernel read no slot of shared memory that its owner may
\* still write before the next barrier, and no scale that is not there yet, for every
\* number of threads and every row.
THEOREM ReductionsRaceFree == Spec => []RaceFree
  <1> DEFINE Inv == subject = "row kernel" => RowInv
  <1>1. NumThreads \in Nat \ {0}
    BY HasThread
  <1>2. Init => Inv
    BY <1>1, RowInit, RowRuns
  <1>3. Inv /\ [Next]_allVars => Inv'
    BY <1>1, RowNext, RowRuns
  <1>4. Inv => RaceFree
    BY <1>1, RowRaceFree DEF RaceFree
  <1>5. QED
    BY <1>2, <1>3, <1>4, PTL DEF Spec

-----------------------------------------------------------------------------
(* Device memory: who owns what. *)

\* Both modules count sets alike.
LEMMA MemoryCounts ==
  ASSUME NEW S
  PROVE  Memory!Cardinality(S) = Cardinality(S) /\ (Memory!IsFiniteSet(S) <=> IsFiniteSet(S))
  BY DEF Memory!IsFiniteSet, IsFiniteSet, Memory!Cardinality, Cardinality

BufferCells(s, n) == {s[i] : i \in 1..n}

\* The cells of an injective sequence are as many as it is long.
LEMMA CellsOfInjective ==
  ASSUME NEW n \in Nat, NEW T, NEW s \in [1..n -> T],
         \A i, j \in 1..n : s[i] = s[j] => i = j
  PROVE  IsFiniteSet(BufferCells(s, n)) /\ Cardinality(BufferCells(s, n)) = n
  <1> DEFINE R == BufferCells(s, n)
  <1>0. s \in [1..n -> R]
    BY DEF BufferCells
  <1>1. s \in Surjection(1..n, R) /\ s \in Injection(1..n, R)
    BY <1>0 DEF BufferCells, Surjection, Injection, IsInjective
  <1>2. IsFiniteSet(1..n) /\ Cardinality(1..n) = n
    BY FS_Interval
  <1> HIDE DEF R
  <1>3. IsFiniteSet(R) /\ Cardinality(R) = n
    BY <1>1, <1>2, FS_Surjection
  <1>4. QED
    BY <1>3 DEF R

Ascends(s, n) == \A i, j \in 1..n : i < j => s[i] < s[j]
DownwardClosed(s, n, F) == \A a \in F : (\E i \in 1..n : a <= s[i]) => \E i \in 1..n : s[i] = a

\* The lowest cells of a set, in order, are one for each place.
LEMMA Ascending ==
  ASSUME NEW F \in SUBSET Nat, NEW n \in Nat, NEW s \in [1..n -> F], Ascends(s, n)
  PROVE  \A i, j \in 1..n : s[i] = s[j] => i = j
  <1>1. SUFFICES ASSUME NEW i \in 1..n, NEW j \in 1..n, s[i] = s[j], i # j PROVE FALSE
    OBVIOUS
  <1>2. s[i] \in Nat /\ s[j] \in Nat
    OBVIOUS
  <1>3. i < j \/ j < i
    BY <1>1
  <1>4. QED
    BY <1>1, <1>2, <1>3 DEF Ascends

\* The n least members of a finite set of numbers, one more at a time.
LEMMA OneMoreLowest ==
  ASSUME NEW F \in SUBSET Nat, IsFiniteSet(F), NEW n \in Nat, n < Cardinality(F),
         NEW s \in [1..n -> F], Ascends(s, n), DownwardClosed(s, n, F)
  PROVE  \E t \in [1..(n + 1) -> F] : Ascends(t, n + 1) /\ DownwardClosed(t, n + 1, F)
  <1> DEFINE T == {s[i] : i \in 1..n}
  <1>1. IsFiniteSet(T) /\ Cardinality(T) = n /\ T \subseteq F
    <2>1. \A i, j \in 1..n : s[i] = s[j] => i = j
      BY Ascending
    <2>2. IsFiniteSet(BufferCells(s, n)) /\ Cardinality(BufferCells(s, n)) = n
      BY <2>1, CellsOfInjective
    <2>3. QED
      BY <2>2 DEF BufferCells
  <1>2. F \ T # {}
    <2>1. SUFFICES ASSUME F \subseteq T PROVE FALSE
      OBVIOUS
    <2>2. F = T
      BY <1>1, <2>1
    <2>3. Cardinality(F) = n
      BY <1>1, <2>2, Zenon
    <2>4. QED
      BY <2>3
  <1>3. PICK a \in F \ T : \A b \in F \ T : a <= b
    BY <1>2, LeastOf
  <1>4. ASSUME NEW i \in 1..n PROVE s[i] < a
    <2>1. s[i] \in Nat /\ a \in Nat
      BY <1>3
    <2>2. ~ (a <= s[i])
      BY <1>3 DEF DownwardClosed
    <2>3. QED
      BY <2>1, <2>2
  <1> DEFINE t == [i \in 1..(n + 1) |-> IF i = n + 1 THEN a ELSE s[i]]
  <1>5. t \in [1..(n + 1) -> F]
    BY <1>3
  <1>6. Ascends(t, n + 1)
    BY <1>4 DEF Ascends
  <1>7. DownwardClosed(t, n + 1, F)
    <2>1. SUFFICES ASSUME NEW b \in F, NEW i \in 1..(n + 1), b <= t[i]
                   PROVE  \E j \in 1..(n + 1) : t[j] = b
      BY DEF DownwardClosed
    <2>2. b \notin T => b = a
      <3>1. ASSUME b \notin T PROVE b = a
        <4>1. a <= b
          BY <1>3, <3>1
        <4>2. t[i] <= a
          <5>1. CASE i = n + 1
            BY <1>3, <5>1
          <5>2. CASE i # n + 1
            <6>1. i \in 1..n /\ t[i] = s[i]
              BY <5>2
            <6>2. s[i] < a /\ s[i] \in Nat /\ a \in Nat
              BY <1>3, <1>4, <6>1
            <6>3. QED
              BY <6>1, <6>2
          <5>3. QED
            BY <5>1, <5>2
        <4>3. t[i] \in Nat /\ a \in Nat /\ b \in Nat
          BY <1>3, <1>5
        <4>4. QED
          BY <2>1, <4>1, <4>2, <4>3
      <3>2. QED
        BY <3>1
    <2>3. CASE b = a
      BY <2>3
    <2>4. CASE b \in T
      BY <2>4
    <2>5. QED
      BY <2>2, <2>3, <2>4
  <1> HIDE DEF t
  <1>8. QED
    BY <1>5, <1>6, <1>7

\* As many addresses as wanted are the lowest ones, in order.
LEMMA LowestExist ==
  ASSUME NEW F \in SUBSET Nat, IsFiniteSet(F), NEW n \in Nat, n <= Cardinality(F)
  PROVE  \E s \in [1..n -> F] : Ascends(s, n) /\ DownwardClosed(s, n, F)
  <1> DEFINE E(m) == \E s \in [1..m -> F] : Ascends(s, m) /\ DownwardClosed(s, m, F)
             P == {m \in Nat : m <= Cardinality(F) => E(m)}
  <1>1. E(0)
    <2>1. 1..0 = {}
      OBVIOUS
    <2>2. PICK s : s = [i \in {} |-> 0]
      OBVIOUS
    <2>3. s \in [1..0 -> F]
      BY <2>1, <2>2
    <2>4. Ascends(s, 0) /\ DownwardClosed(s, 0, F)
      BY <2>1 DEF Ascends, DownwardClosed
    <2>5. QED
      BY <2>3, <2>4
  <1>2. Cardinality(F) \in Nat
    BY FS_CardinalityType
  <1>3. ASSUME NEW m \in Nat, m \in P PROVE m + 1 \in P
    BY <1>2, <1>3, OneMoreLowest
  <1>4. 0 \in P
    BY <1>1
  <1> HIDE DEF P
  <1>5. n \in P
    BY <1>3, <1>4, Induct
  <1>6. QED
    BY <1>5 DEF P

\* The lowest free addresses are free, and differ.
LEMMA LowestFree ==
  ASSUME NEW n \in Nat, NEW used, Memory!Available(n, used)
  PROVE  /\ Memory!Lowest(n, used) \in [1..n -> Addresses \ used]
         /\ \A i, j \in 1..n : Memory!Lowest(n, used)[i] = Memory!Lowest(n, used)[j] => i = j
  <1> DEFINE F == Addresses \ used
             Good(s) == Ascends(s, n) /\ DownwardClosed(s, n, F)
  <1>1. F \in SUBSET Nat /\ IsFiniteSet(F)
    BY OperatorsAssumption, MemoryCounts, FS_Subset DEF Memory!AddressesAssumption
  <1>2. n <= Cardinality(F)
    BY <1>1, MemoryCounts, FS_CardinalityType DEF Memory!Available
  <1>3. Memory!Lowest(n, used) = CHOOSE s \in [1..n -> F] : Good(s)
    BY Zenon DEF Memory!Lowest, Ascends, DownwardClosed
  <1>4. \E s \in [1..n -> F] : Good(s)
    BY <1>1, <1>2, LowestExist
  <1> HIDE DEF Good
  <1>5. Memory!Lowest(n, used) \in [1..n -> F] /\ Good(Memory!Lowest(n, used))
    BY <1>3, <1>4, Zenon
  <1> HIDE DEF F
  <1>6. \A i, j \in 1..n : Memory!Lowest(n, used)[i] = Memory!Lowest(n, used)[j] => i = j
    BY <1>1, <1>5, Ascending DEF Good
  <1>7. QED
    BY <1>5, <1>6 DEF F

Objects == [kind : Memory!Kinds, buffers : Seq(Addresses), table : Addresses \cup {0}, cap : Nat]

\* No two pointers of an object are to one allocation.
Distinct(obj) == /\ \A i, j \in DOMAIN obj.buffers : obj.buffers[i] = obj.buffers[j] => i = j
                 /\ \A i \in DOMAIN obj.buffers : obj.buffers[i] # obj.table

MemoryInv ==
    /\ heap \subseteq Addresses /\ lost \subseteq Addresses
    /\ object \in [Variables -> Objects \cup {Memory!Absent}]
    /\ \A v \in Variables : object[v] # Memory!Absent => Distinct(object[v])
    /\ heap = lost \cup UNION {Memory!Held(object[v]) : v \in Variables}
    /\ \A v, w1 \in Variables :
          v # w1 => Memory!Held(object[v]) \cap Memory!Held(object[w1]) = {}
    /\ \A v \in Variables : Memory!Held(object[v]) \cap lost = {}
    /\ faults \in Nat /\ (lost # {} => faults > 0)

\* What an object asks for is a number of buffers.
LEMMA NeedIsNat == \A kind : Memory!Need(kind) \in Nat
  BY OperatorsAssumption DEF Memory!NumLayersAssumption, Memory!Need

\* The null pointer is no address.
LEMMA NullIsNoAddress == 0 \notin Addresses /\ Addresses \subseteq Nat
  BY OperatorsAssumption DEF Memory!AddressesAssumption

\* An absent place holds nothing; what an object holds.
LEMMA HeldOf ==
  /\ Memory!Held(Memory!Absent) = {}
  /\ \A obj \in Objects :
       /\ obj # Memory!Absent
       /\ Memory!Held(obj) = {obj.buffers[i] : i \in DOMAIN obj.buffers} \cup ({obj.table} \ {0})
       /\ Memory!Held(obj) \subseteq Addresses
  BY DEF Memory!Held, Memory!Absent, Objects, Memory!Kinds, Memory!Null

\* An object's pointers are as many as what it holds.
LEMMA HeldCount ==
  ASSUME NEW obj \in Objects, Distinct(obj)
  PROVE  Memory!Cardinality(Memory!Held(obj)) =
            Len(obj.buffers) + (IF obj.table = 0 THEN 0 ELSE 1)
  <1> DEFINE R == {obj.buffers[i] : i \in DOMAIN obj.buffers}
  <1>1. PICK n \in Nat : n = Len(obj.buffers)
    BY DEF Objects
  <1>2. DOMAIN obj.buffers = 1..n /\ obj.buffers \in [1..n -> Addresses]
    BY <1>1 DEF Objects
  <1>3. \A i, j \in 1..n : obj.buffers[i] = obj.buffers[j] => i = j
    BY <1>2 DEF Distinct
  <1>4. IsFiniteSet(BufferCells(obj.buffers, n)) /\ Cardinality(BufferCells(obj.buffers, n)) = n
    BY <1>2, <1>3, CellsOfInjective
  <1>5. IsFiniteSet(R) /\ Cardinality(R) = n
    BY <1>2, <1>4, Zenon DEF BufferCells
  <1>6. obj.table \notin R
    BY DEF Distinct
  <1>7. Memory!Held(obj) = R \cup ({obj.table} \ {0})
    BY HeldOf
  <1> HIDE DEF R
  <1>8. CASE obj.table = 0
    <2>1. Memory!Held(obj) = R
      BY <1>7, <1>8
    <2>2. Cardinality(Memory!Held(obj)) = n
      BY <1>5, <2>1, Zenon
    <2>3. QED
      BY <1>1, <1>8, <2>2, MemoryCounts
  <1>9. CASE obj.table # 0
    BY <1>1, <1>5, <1>6, <1>7, <1>9, FS_AddElement, MemoryCounts
  <1>10. QED
    BY <1>8, <1>9

\* Nothing is held at first.
LEMMA MemoryInit == ASSUME Memory!Init PROVE MemoryInv
  BY HeldOf DEF Memory!Init, MemoryInv

\* The invariant leaves every address one owner.
LEMMA MemoryOneOwner == ASSUME MemoryInv PROVE Memory!OneOwner
  BY HeldCount DEF MemoryInv, Memory!Null, Memory!OneOwner

\* The invariant of the next state, from what its objects hold.
LEMMA Reowned ==
  ASSUME heap' \subseteq Addresses, lost' \subseteq Addresses,
         object' \in [Variables -> Objects \cup {Memory!Absent}],
         \A v \in Variables : object'[v] # Memory!Absent => Distinct(object'[v]),
         \A a : a \in heap' <=> a \in lost' \/ \E v \in Variables : a \in Memory!Held(object'[v]),
         \A v, w1 \in Variables :
            v # w1 => Memory!Held(object'[v]) \cap Memory!Held(object'[w1]) = {},
         \A v \in Variables : Memory!Held(object'[v]) \cap lost' = {},
         faults' \in Nat, lost' # {} => faults' > 0
  PROVE  MemoryInv'
  BY DEF MemoryInv

\* What the invariant says, place by place.
LEMMA Owners ==
  ASSUME MemoryInv
  PROVE  /\ \A a : a \in heap <=> a \in lost \/ \E v \in Variables : a \in Memory!Held(object[v])
         /\ \A v \in Variables : Memory!Held(object[v]) \subseteq heap
         /\ \A v \in Variables : object[v] \in Objects \/ object[v] = Memory!Absent
  BY DEF MemoryInv

\* n allocations that are free get the cells of a sequence that names none twice.
LEMMA Allocates ==
  ASSUME NEW n \in Nat, NEW used, Memory!Available(n, used)
  PROVE  LET got == Memory!Lowest(n, used)
         IN  /\ got \in Seq(Addresses) /\ Len(got) = n /\ DOMAIN got = 1..n
             /\ \A i, j \in DOMAIN got : got[i] = got[j] => i = j
             /\ {got[i] : i \in DOMAIN got} \subseteq Addresses \ used
  <1> DEFINE got == Memory!Lowest(n, used)
  <1>1. got \in [1..n -> Addresses \ used]
    BY LowestFree
  <1>2. \A i, j \in 1..n : got[i] = got[j] => i = j
    BY LowestFree
  <1> HIDE DEF got
  <1>3. got \in Seq(Addresses) /\ Len(got) = n /\ DOMAIN got = 1..n
    BY <1>1
  <1>4. \A i \in 1..n : got[i] \in Addresses \ used
    BY <1>1
  <1>5. {got[i] : i \in DOMAIN got} \subseteq Addresses \ used
    BY <1>3, <1>4
  <1>6. QED
    BY <1>2, <1>3, <1>5 DEF got

\* A constructor takes addresses nobody holds, or leaves nothing held by an object.
LEMMA ConstructInv ==
  ASSUME MemoryInv, NEW v \in Variables, NEW kind \in Memory!Kinds, Memory!Construct(v, kind)
  PROVE  MemoryInv'
  <1> DEFINE n == Memory!Need(kind)
             got == Memory!Lowest(n, heap)
             G == {got[i] : i \in DOMAIN got}
             new == [kind |-> kind, buffers |-> got, table |-> 0, cap |-> 0]
  <1>1. /\ got \in Seq(Addresses)
        /\ \A i, j \in DOMAIN got : got[i] = got[j] => i = j
        /\ G \subseteq Addresses \ heap
    BY NeedIsNat, Allocates DEF Memory!Construct
  <1>2. /\ object[v] = Memory!Absent /\ heap' = heap \cup G
        /\ object' = [object EXCEPT ![v] = new]
        /\ lost' = lost /\ faults' = faults
    BY DEF Memory!Construct, Memory!Null
  <1> HIDE DEF got, n
  <1>3. new \in Objects /\ Distinct(new)
    BY <1>1, NullIsNoAddress DEF Objects, Distinct
  <1>4. Memory!Held(new) = G
    BY <1>3, HeldOf
  <1> HIDE DEF new, G
  <1>5. object' \in [Variables -> Objects \cup {Memory!Absent}]
    BY <1>2, <1>3 DEF MemoryInv
  <1>6. object'[v] = new /\ \A u \in Variables \ {v} : object'[u] = object[u]
    BY <1>2 DEF MemoryInv
  <1>7. /\ Memory!Held(object'[v]) = G /\ Memory!Held(object[v]) = {}
        /\ \A u \in Variables \ {v} : Memory!Held(object'[u]) = Memory!Held(object[u])
    BY <1>2, <1>4, <1>6, HeldOf
  <1>8. \A a : a \in heap' <=> a \in lost' \/ \E u \in Variables : a \in Memory!Held(object'[u])
    BY <1>2, <1>7, Owners
  <1>9. \A u, t \in Variables : u # t => Memory!Held(object'[u]) \cap Memory!Held(object'[t]) = {}
    BY <1>1, <1>7, Owners DEF MemoryInv
  <1>10. \A u \in Variables : Memory!Held(object'[u]) \cap lost' = {}
    BY <1>1, <1>2, <1>7, Owners DEF MemoryInv
  <1>11. heap' \subseteq Addresses /\ lost' \subseteq Addresses
         /\ faults' \in Nat /\ (lost' # {} => faults' > 0)
    BY <1>1, <1>2 DEF MemoryInv
  <1>12. \A u \in Variables : object'[u] # Memory!Absent => Distinct(object'[u])
    BY <1>3, <1>6 DEF MemoryInv
  <1>13. QED
    BY <1>5, <1>8, <1>9, <1>10, <1>11, <1>12, Reowned

\* What a failed constructor leaves behind belongs to no object.
LEMMA LoseInv ==
  ASSUME MemoryInv, NEW k \in Nat, Memory!Lose(k)
  PROVE  MemoryInv'
  <1> DEFINE got == Memory!Lowest(k, heap)
             G == {got[i] : i \in DOMAIN got}
  <1>1. G \subseteq Addresses \ heap
    BY Allocates DEF Memory!Lose
  <1>2. heap' = heap \cup G /\ lost' = lost \cup G /\ object' = object /\ faults' = faults + 1
    BY DEF Memory!Lose
  <1> HIDE DEF G
  <1>3. \A a : a \in heap' <=> a \in lost' \/ \E u \in Variables : a \in Memory!Held(object'[u])
    BY <1>2, Owners
  <1>4. \A u \in Variables : Memory!Held(object'[u]) \cap lost' = {}
    BY <1>1, <1>2, Owners DEF MemoryInv
  <1>5. heap' \subseteq Addresses /\ lost' \subseteq Addresses
        /\ faults' \in Nat /\ (lost' # {} => faults' > 0)
    BY <1>1, <1>2 DEF MemoryInv
  <1>6. QED
    BY <1>2, <1>3, <1>4, <1>5, Reowned DEF MemoryInv

\* An object as upload_table() leaves it, with the table at a: 0, or free when the old
\* table was freed.
LEMMA Retabled ==
  ASSUME MemoryInv, NEW v \in Variables, NEW a \in Addresses \cup {0}, NEW new \in Objects,
         object[v] # Memory!Absent, new.buffers = object[v].buffers, new.table = a,
         a \notin heap \ {object[v].table},
         heap' = (heap \ {object[v].table}) \cup ({a} \ {0}),
         object' = [object EXCEPT ![v] = new],
         lost' = lost, faults' \in Nat, faults' >= faults
  PROVE  MemoryInv'
  <1> DEFINE old == object[v]
             B == {old.buffers[i] : i \in DOMAIN old.buffers}
  <1>1. old \in Objects /\ Distinct(old)
    BY DEF MemoryInv
  <1>3. /\ Memory!Held(old) = B \cup ({old.table} \ {0})
        /\ Memory!Held(new) = B \cup ({a} \ {0})
        /\ B \subseteq heap /\ Memory!Held(old) \subseteq heap
    BY <1>1, HeldOf, Owners
  <1>4. old.table \notin B /\ 0 \notin B /\ 0 \notin heap
    BY <1>1, <1>3, NullIsNoAddress DEF Distinct, MemoryInv
  <1>5. a \notin B
    BY <1>3, <1>4
  <1>6. Distinct(new)
    BY <1>1, <1>5 DEF Distinct
  <1>7. object'[v] = new /\ \A u \in Variables \ {v} : object'[u] = object[u]
    BY DEF MemoryInv
  <1>8. object' \in [Variables -> Objects \cup {Memory!Absent}]
    BY DEF MemoryInv
  <1> HIDE DEF B
  <1>9. /\ Memory!Held(object'[v]) = B \cup ({a} \ {0})
        /\ Memory!Held(object[v]) = B \cup ({old.table} \ {0})
        /\ \A u \in Variables \ {v} : Memory!Held(object'[u]) = Memory!Held(object[u])
    BY <1>3, <1>7
  <1> DEFINE table == old.table
  <1>10. /\ \A u \in Variables \ {v} : Memory!Held(object[u]) \cap Memory!Held(object[v]) = {}
         /\ Memory!Held(object[v]) \cap lost = {}
    BY DEF MemoryInv
  <1>11. PICK t \in Addresses \cup {0} : t = table
    BY <1>1 DEF Objects
  <1>12. /\ heap' = (heap \ {t}) \cup ({a} \ {0})
         /\ Memory!Held(object[v]) = B \cup ({t} \ {0})
         /\ t \notin B /\ 0 \notin B /\ a \notin heap \ {t}
    BY <1>4, <1>9, <1>11
  <1> HIDE DEF table
  <1>13. \A u \in Variables \ {v} : t \notin Memory!Held(object[u]) /\ a \notin Memory!Held(object[u])
    <2>1. SUFFICES ASSUME NEW u \in Variables \ {v}
                   PROVE  t \notin Memory!Held(object[u]) /\ a \notin Memory!Held(object[u])
      OBVIOUS
    <2>2. Memory!Held(object[u]) \subseteq heap /\ 0 \notin Memory!Held(object[u])
      BY <1>4, Owners
    <2>3. t \notin Memory!Held(object[u])
      BY <1>10, <1>12, <2>2
    <2>4. QED
      BY <1>12, <2>2, <2>3
  <1>14. t \notin lost /\ a \notin lost
    BY <1>4, <1>10, <1>12, Owners
  <1>15. \A b : b \in heap' <=> b \in lost' \/ \E u \in Variables : b \in Memory!Held(object'[u])
    <2>1. SUFFICES ASSUME NEW b
                   PROVE  b \in heap' <=> b \in lost' \/ \E u \in Variables : b \in Memory!Held(object'[u])
      OBVIOUS
    <2>2. b \in heap <=> b \in lost \/ \E u \in Variables : b \in Memory!Held(object[u])
      BY Owners
    <2>3. b \in heap' <=> (b \in heap /\ b # t) \/ (b = a /\ a # 0)
      BY <1>12
    <2>4. b \in B => b \in heap /\ b # t
      BY <1>3, <1>12
    <2>5. (\E u \in Variables : b \in Memory!Held(object'[u]))
          <=> b \in B \/ (b = a /\ a # 0) \/ \E u \in Variables \ {v} : b \in Memory!Held(object[u])
      BY <1>9
    <2>6. (\E u \in Variables : b \in Memory!Held(object[u]))
          <=> b \in B \/ (b = t /\ t # 0) \/ \E u \in Variables \ {v} : b \in Memory!Held(object[u])
      BY <1>12
    <2>7. QED
      BY <1>4, <1>13, <1>14, <2>2, <2>3, <2>4, <2>5, <2>6
  <1>16. \A u \in Variables \ {v} : Memory!Held(object[u]) \cap Memory!Held(object'[v]) = {}
    BY <1>9, <1>10, <1>13
  <1>17. \A u, u2 \in Variables :
            u # u2 => Memory!Held(object'[u]) \cap Memory!Held(object'[u2]) = {}
    BY <1>9, <1>16 DEF MemoryInv
  <1>18. \A u \in Variables : Memory!Held(object'[u]) \cap lost' = {}
    BY <1>9, <1>10, <1>14 DEF MemoryInv
  <1>19. heap' \subseteq Addresses /\ lost' \subseteq Addresses
         /\ (lost' # {} => faults' > 0)
    BY <1>12 DEF MemoryInv
  <1>20. \A u \in Variables : object'[u] # Memory!Absent => Distinct(object'[u])
    BY <1>6, <1>7 DEF MemoryInv
  <1>21. QED
    BY <1>8, <1>15, <1>17, <1>18, <1>19, <1>20, Reowned

\* A table that grows gives up its old cells.
LEMMA GrowTableInv ==
  ASSUME MemoryInv, NEW v \in Variables, NEW need \in Nat, Memory!GrowTable(v, need)
  PROVE  MemoryInv'
  <1> DEFINE kept == heap \ {object[v].table}
  <1>1. object[v] # Memory!Absent /\ object[v] \in Objects /\ lost' = lost /\ faults \in Nat
    BY DEF Memory!GrowTable, MemoryInv
  <1>2. CASE /\ Memory!Available(1, kept)
             /\ heap' = kept \cup {Memory!Lowest(1, kept)[1]}
             /\ object' = [object EXCEPT ![v].table = Memory!Lowest(1, kept)[1], ![v].cap = need]
             /\ UNCHANGED faults
    <2> DEFINE got == Memory!Lowest(1, kept)
    <2>1. {got[i] : i \in DOMAIN got} \subseteq Addresses \ kept /\ DOMAIN got = 1..1
      <3>1. PICK n \in Nat : n = 1
        OBVIOUS
      <3>2. Memory!Available(n, kept) /\ got = Memory!Lowest(n, kept)
        BY <1>2, <3>1
      <3> HIDE DEF kept, got
      <3>3. {got[i] : i \in DOMAIN got} \subseteq Addresses \ kept /\ DOMAIN got = 1..n
        BY <3>2, Allocates
      <3>4. QED
        BY <3>1, <3>3
    <2> HIDE DEF got
    <2>2. PICK a \in Addresses \ kept : a = got[1]
      BY <2>1
    <2>3. a # 0 /\ a \in Addresses \cup {0}
      BY NullIsNoAddress
    <2>4. heap' = kept \cup ({a} \ {0})
      BY <1>2, <2>2, <2>3 DEF got
    <2> DEFINE new == [object[v] EXCEPT !.table = a, !.cap = need]
    <2>5. object' = [object EXCEPT ![v] = new]
      BY <1>1, <1>2, <2>2 DEF got, MemoryInv
    <2>6. new \in Objects /\ new.buffers = object[v].buffers /\ new.table = a
      BY <1>1, <2>3 DEF Objects
    <2> HIDE DEF new
    <2>7. faults' \in Nat /\ faults' >= faults /\ a \notin kept
      BY <1>1, <1>2
    <2>8. QED
      BY <1>1, <2>3, <2>4, <2>5, <2>6, <2>7, Retabled
  <1>3. CASE /\ faults' = faults + 1
             /\ heap' = kept
             /\ object' = [object EXCEPT ![v].table = Memory!Null]
    <2> DEFINE new == [object[v] EXCEPT !.table = 0]
    <2>1. object' = [object EXCEPT ![v] = new]
      BY <1>1, <1>3 DEF Memory!Null, MemoryInv
    <2>2. new \in Objects /\ new.buffers = object[v].buffers /\ new.table = 0
      BY <1>1 DEF Objects
    <2> HIDE DEF new
    <2>3. heap' = kept \cup ({0} \ {0}) /\ 0 \notin kept
      BY <1>3, NullIsNoAddress DEF MemoryInv
    <2>4. faults' \in Nat /\ faults' >= faults
      BY <1>1, <1>3
    <2>5. QED
      BY <1>1, <2>1, <2>2, <2>3, <2>4, Retabled
  <1>4. QED
    BY <1>2, <1>3 DEF Memory!GrowTable

\* A moved-from object holds nothing.
LEMMA MovedFromObject ==
  ASSUME NEW obj \in Objects
  PROVE  /\ Memory!MovedFrom(obj) \in Objects /\ Distinct(Memory!MovedFrom(obj))
         /\ Memory!Held(Memory!MovedFrom(obj)) = {}
  <1> DEFINE left == Memory!MovedFrom(obj)
  <1>1. left \in Objects /\ left.buffers = <<>> /\ left.table = 0
    <2>1. <<>> \in Seq(Addresses)
      OBVIOUS
    <2> DEFINE a == [obj EXCEPT !.buffers = <<>>]
               b == [a EXCEPT !.table = 0]
    <2>2. a \in Objects /\ a.buffers = <<>>
      BY <2>1 DEF Objects
    <2>3. left = [b EXCEPT !.cap = 0]
      BY Zenon DEF Memory!MovedFrom, Memory!Null
    <2> HIDE DEF a, left
    <2>4. b \in Objects /\ b.buffers = <<>> /\ b.table = 0
      BY <2>2 DEF Objects
    <2> HIDE DEF b
    <2>5. QED
      BY <2>3, <2>4 DEF Objects
  <1> HIDE DEF left
  <1>2. DOMAIN left.buffers = {}
    BY <1>1
  <1>3. Memory!Held(left) = {}
    BY <1>1, <1>2, HeldOf
  <1>4. QED
    BY <1>1, <1>2, <1>3 DEF Distinct, left

\* The target of a move releases what it has and takes over what the source has.
LEMMA MoveInv ==
  ASSUME MemoryInv, NEW v \in Variables, NEW s \in Variables,
         Memory!MoveConstruct(v, s) \/ Memory!MoveAssign(v, s)
  PROVE  MemoryInv'
  <1>1. /\ v # s /\ object[s] # Memory!Absent
        /\ heap' = heap \ Memory!Held(object[v])
        /\ object' = [object EXCEPT ![v] = object[s], ![s] = Memory!MovedFrom(object[s])]
        /\ lost' = lost /\ faults' = faults
    BY HeldOf DEF Memory!MoveConstruct, Memory!MoveAssign
  <1> DEFINE left == Memory!MovedFrom(object[s])
  <1>2. object[s] \in Objects /\ Distinct(object[s])
    BY <1>1 DEF MemoryInv
  <1>3. left \in Objects /\ Distinct(left) /\ Memory!Held(left) = {}
    BY <1>2, MovedFromObject
  <1>4. /\ object'[v] = object[s] /\ object'[s] = left
        /\ \A u \in Variables \ {v, s} : object'[u] = object[u]
    BY <1>1 DEF MemoryInv
  <1>5. object' \in [Variables -> Objects \cup {Memory!Absent}]
    BY <1>1, <1>2, <1>3 DEF MemoryInv
  <1> HIDE DEF left
  <1>6. /\ Memory!Held(object'[v]) = Memory!Held(object[s])
        /\ Memory!Held(object'[s]) = {}
        /\ \A u \in Variables \ {v, s} : Memory!Held(object'[u]) = Memory!Held(object[u])
    BY <1>3, <1>4
  <1>7. \A u, t \in Variables : u # t => Memory!Held(object[u]) \cap Memory!Held(object[t]) = {}
    BY DEF MemoryInv
  <1>8. \A a : a \in heap' <=> a \in lost' \/ \E u \in Variables : a \in Memory!Held(object'[u])
    <2>1. SUFFICES ASSUME NEW a
                   PROVE  a \in heap' <=> a \in lost' \/ \E u \in Variables : a \in Memory!Held(object'[u])
      OBVIOUS
    <2>2. a \in heap <=> a \in lost \/ \E u \in Variables : a \in Memory!Held(object[u])
      BY Owners
    <2>3. a \in Memory!Held(object[v]) => a \notin lost /\ \A u \in Variables \ {v} : a \notin Memory!Held(object[u])
      BY <1>7 DEF MemoryInv
    <2>4. (\E u \in Variables : a \in Memory!Held(object'[u]))
          <=> \E u \in Variables \ {v} : a \in Memory!Held(object[u])
      BY <1>1, <1>6
    <2>5. QED
      BY <1>1, <2>2, <2>3, <2>4
  <1>9. \A u, t \in Variables : u # t => Memory!Held(object'[u]) \cap Memory!Held(object'[t]) = {}
    BY <1>6, <1>7
  <1>10. \A u \in Variables : Memory!Held(object'[u]) \cap lost' = {}
    BY <1>1, <1>6 DEF MemoryInv
  <1>11. heap' \subseteq Addresses /\ lost' \subseteq Addresses
         /\ faults' \in Nat /\ (lost' # {} => faults' > 0)
    BY <1>1 DEF MemoryInv
  <1>12. \A u \in Variables : object'[u] # Memory!Absent => Distinct(object'[u])
    BY <1>2, <1>3, <1>4 DEF MemoryInv
  <1>13. QED
    BY <1>5, <1>8, <1>9, <1>10, <1>11, <1>12, Reowned

\* A destructor frees what its object holds.
LEMMA DestroyInv ==
  ASSUME MemoryInv, NEW v \in Variables, Memory!Destroy(v)
  PROVE  MemoryInv'
  <1>1. /\ heap' = heap \ Memory!Held(object[v])
        /\ object' = [object EXCEPT ![v] = Memory!Absent]
        /\ lost' = lost /\ faults' = faults
    BY DEF Memory!Destroy
  <1>2. object'[v] = Memory!Absent /\ \A u \in Variables \ {v} : object'[u] = object[u]
    BY <1>1 DEF MemoryInv
  <1>3. object' \in [Variables -> Objects \cup {Memory!Absent}]
    BY <1>1 DEF MemoryInv
  <1>4. /\ Memory!Held(object'[v]) = {}
        /\ \A u \in Variables \ {v} : Memory!Held(object'[u]) = Memory!Held(object[u])
    BY <1>2, HeldOf
  <1>5. \A u, t \in Variables : u # t => Memory!Held(object[u]) \cap Memory!Held(object[t]) = {}
    BY DEF MemoryInv
  <1>6. \A a : a \in heap' <=> a \in lost' \/ \E u \in Variables : a \in Memory!Held(object'[u])
    <2>1. SUFFICES ASSUME NEW a
                   PROVE  a \in heap' <=> a \in lost' \/ \E u \in Variables : a \in Memory!Held(object'[u])
      OBVIOUS
    <2>2. a \in heap <=> a \in lost \/ \E u \in Variables : a \in Memory!Held(object[u])
      BY Owners
    <2>3. a \in Memory!Held(object[v]) => a \notin lost /\ \A u \in Variables \ {v} : a \notin Memory!Held(object[u])
      BY <1>5 DEF MemoryInv
    <2>4. (\E u \in Variables : a \in Memory!Held(object'[u]))
          <=> \E u \in Variables \ {v} : a \in Memory!Held(object[u])
      BY <1>4
    <2>5. QED
      BY <1>1, <2>2, <2>3, <2>4
  <1>7. \A u, t \in Variables : u # t => Memory!Held(object'[u]) \cap Memory!Held(object'[t]) = {}
    BY <1>4, <1>5
  <1>8. \A u \in Variables : Memory!Held(object'[u]) \cap lost' = {}
    BY <1>1, <1>4 DEF MemoryInv
  <1>9. heap' \subseteq Addresses /\ lost' \subseteq Addresses
        /\ faults' \in Nat /\ (lost' # {} => faults' > 0)
    BY <1>1 DEF MemoryInv
  <1>10. \A u \in Variables : object'[u] # Memory!Absent => Distinct(object'[u])
    BY <1>2 DEF MemoryInv
  <1>11. QED
    BY <1>3, <1>6, <1>7, <1>8, <1>9, <1>10, Reowned

\* Every operation on an object keeps one owner for each address.
LEMMA MemoryNext ==
  ASSUME MemoryInv, [Memory!Next]_(Memory!vars)
  PROVE  MemoryInv'
  <1>1. CASE UNCHANGED Memory!vars
    BY <1>1 DEF Memory!vars, MemoryInv
  <1>2. CASE Memory!Next
    BY <1>2, ConstructInv, GrowTableInv, MoveInv, DestroyInv, LoseInv DEF Memory!ConstructThrows,
      Memory!HostCallThrows, Memory!Next
  <1>3. QED
    BY <1>1, <1>2

\* A run on the subject is a run of its module.
LEMMA MemoryRuns ==
  /\ Init => (subject = "memory" => Memory!Init)
  /\ [Next]_allVars => UNCHANGED subject
                       /\ (subject = "memory" => [Memory!Next]_(Memory!vars))
  BY DEF Init, allVars, memoryVars, Memory!vars, Next

\* DeviceArray, GpuKVCache and GpuBlockManager own what they allocate, alone: for any
\* number of objects, layers, addresses and failures, in any order of constructors,
\* moves, destructors and copy-ins, every pointer held is to a live allocation that no
\* other pointer is to, and only a failing call loses one.
THEOREM AllocationsHaveOneOwner == Spec => []OneOwner
  <1> DEFINE Inv == subject = "memory" => MemoryInv
  <1>1. Init => Inv
    BY MemoryInit, MemoryRuns
  <1>2. Inv /\ [Next]_allVars => Inv'
    BY MemoryNext, MemoryRuns
  <1>3. Inv => OneOwner
    BY MemoryOneOwner DEF OneOwner
  <1>4. QED
    BY <1>1, <1>2, <1>3, PTL DEF Spec

-----------------------------------------------------------------------------
(* Quantization: the error of a row. *)

\* Of finitely many integers one is the greatest.
LEMMA GreatestOf ==
  ASSUME NEW n \in Nat, NEW f, \A i \in 0..n : f[i] \in Int
  PROVE  \E i \in 0..n : \A j \in 0..n : f[j] <= f[i]
  <1> DEFINE P == {k \in Nat : k <= n => \E i \in 0..k : \A j \in 0..k : f[j] <= f[i]}
  <1>1. 0 \in P
    OBVIOUS
  <1>2. ASSUME NEW k \in Nat, k \in P PROVE k + 1 \in P
    <2>1. SUFFICES ASSUME k + 1 <= n
                   PROVE  \E i \in 0..(k + 1) : \A j \in 0..(k + 1) : f[j] <= f[i]
      OBVIOUS
    <2>2. PICK i \in 0..k : \A j \in 0..k : f[j] <= f[i]
      BY <1>2, <2>1
    <2>3. f[i] \in Int /\ f[k + 1] \in Int /\ \A j \in 0..k : f[j] \in Int
      BY <2>1
    <2>4. \A j \in 0..(k + 1) : j \in 0..k \/ j = k + 1
      OBVIOUS
    <2>5. CASE f[k + 1] <= f[i]
      BY <2>2, <2>4, <2>5
    <2>6. CASE f[i] < f[k + 1]
      BY <2>2, <2>3, <2>4, <2>6
    <2>7. QED
      BY <2>3, <2>5, <2>6
  <1> HIDE DEF P
  <1>3. n \in P
    BY <1>1, <1>2, Induct
  <1>4. QED
    BY <1>3 DEF P

Shapes == /\ Rows \in Nat /\ Cols \in Nat \ {0}
          /\ Matrices \subseteq [0..(Rows * Cols - 1) -> Int]
          /\ Inputs \subseteq [0..(Cols - 1) -> Int]

\* The sizes of the checked instances are sizes of matrices.
LEMMA ShapesHold == Shapes
  BY OperatorsAssumption, Zenon DEF Int8!ShapeAssumption, Shapes

\* Places of a row-major matrix.
LEMMA RowPlace ==
  ASSUME NEW R \in Nat, NEW C \in Nat \ {0}, NEW o \in 0..(R - 1), NEW i \in 0..(C - 1)
  PROVE  o * C + i \in 0..(R * C - 1) /\ (o * C + i) \div C = o
  OBVIOUS

\* The absolute value of the module.
LEMMA AbsOf ==
  ASSUME NEW a \in Int
  PROVE  Int8!Abs(a) \in Nat /\ a <= Int8!Abs(a) /\ 0 - a <= Int8!Abs(a)
         /\ (Int8!Abs(a) = a \/ Int8!Abs(a) = 0 - a)
  BY DEF Int8!Abs

\* A row's scale is positive and no element of the row is greater.
LEMMA ScaleBounds ==
  ASSUME Shapes, NEW m \in Matrices, NEW o \in 0..(Rows - 1)
  PROVE  /\ Int8!ScaleOf(m, o) \in Nat \ {0}
         /\ \A i \in 0..(Cols - 1) :
              m[Int8!Offset(o, i)] \in Int /\ Int8!Abs(m[Int8!Offset(o, i)]) <= Int8!ScaleOf(m, o)
  <1> DEFINE f == [i \in 0..(Cols - 1) |-> Int8!Abs(m[Int8!Offset(o, i)])]
             A == {Int8!Abs(m[Int8!Offset(o, i)]) : i \in 0..(Cols - 1)}
  <1>1. ASSUME NEW i \in 0..(Cols - 1)
        PROVE  m[Int8!Offset(o, i)] \in Int /\ Int8!Abs(m[Int8!Offset(o, i)]) \in Nat
    BY RowPlace, AbsOf DEF Shapes, Int8!Offset
  <1>2. \E i \in 0..(Cols - 1) : \A j \in 0..(Cols - 1) : f[j] <= f[i]
    <2>1. PICK n \in Nat : n = Cols - 1
      BY DEF Shapes
    <2>2. \A i \in 0..n : f[i] \in Int
      BY <1>1, <2>1
    <2> HIDE DEF f
    <2>3. \E i \in 0..n : \A j \in 0..n : f[j] <= f[i]
      BY <2>2, GreatestOf
    <2>4. QED
      BY <2>1, <2>3
  <1>3. \E a \in A : \A b \in A : a >= b
    BY <1>1, <1>2
  <1>4. Int8!Magnitude(m, o) = CHOOSE a \in A : \A b \in A : a >= b
    BY Zenon DEF Int8!Magnitude, Int8!Max
  <1>5. Int8!Magnitude(m, o) \in A /\ \A b \in A : Int8!Magnitude(m, o) >= b
    BY <1>3, <1>4, Zenon
  <1>6. Int8!Magnitude(m, o) \in Nat
    BY <1>1, <1>5
  <1>7. \A i \in 0..(Cols - 1) : Int8!Abs(m[Int8!Offset(o, i)]) <= Int8!Magnitude(m, o)
    BY <1>1, <1>5, <1>6
  <1>8. Levels \in Nat \ {0}
    BY OperatorsAssumption DEF Int8!LevelsAssumption
  <1>9. QED
    BY <1>1, <1>6, <1>7, <1>8 DEF Int8!ScaleOf

\* lround(): the quotient is off by half a divisor at most, and the clamp never bites.
LEMMA RoundedUnsigned ==
  ASSUME NEW a \in Nat, NEW s \in Nat \ {0}, a <= s, NEW L \in Nat \ {0},
         NEW lev \in Nat, lev = (2 * a * L + s) \div (2 * s)
  PROVE  /\ 2 * (lev * s) <= 2 * (a * L) + s
         /\ 2 * (a * L) <= 2 * (lev * s) + s
         /\ lev <= L
  <1>1. PICK p \in Nat : p = a * L
    OBVIOUS
  <1>2. 2 * a * L = 2 * p
    BY <1>1
  <1>3. lev = (2 * p + s) \div (2 * s)
    BY <1>2
  <1>4. /\ (2 * s) * lev <= 2 * p + s
        /\ 2 * p + s < (2 * s) * lev + 2 * s
    <2>1. PICK d \in Nat \ {0}, m \in Nat : d = 2 * s /\ m = 2 * p + s
      OBVIOUS
    <2>2. d * (m \div d) <= m /\ m < d * (m \div d) + d
      BY QuotientBounds, Zenon
    <2>3. lev = m \div d
      BY <1>3, <2>1
    <2>4. d * lev <= m /\ m < d * lev + d
      BY <2>2, <2>3
    <2> QED
      BY <2>1, <2>4
  <1>5. (2 * s) * lev = 2 * (lev * s) /\ lev * s \in Nat
    BY SMT
  <1>6. p <= s * L
    BY <1>1, SMT
  <1>7. lev <= L
    <2>1. SUFFICES ASSUME lev >= L + 1 PROVE FALSE
      OBVIOUS
    <2>2. lev * s >= (L + 1) * s
      BY <2>1, SMT
    <2>3. (L + 1) * s = s * L + s
      BY SMT
    <2>4. s * L \in Nat
      OBVIOUS
    <2>5. QED
      BY <1>4, <1>5, <1>6, <2>2, <2>3, <2>4
  <1>8. QED
    BY <1>1, <1>4, <1>5, <1>7

\* Rounding to the nearest is off by half a unit at most.
LEMMA Rounded ==
  ASSUME NEW w1 \in Int, NEW s \in Nat \ {0}, Int8!Abs(w1) <= s
  PROVE  LET q1 == Int8!Clamp(Int8!Round(w1, s))
         IN  /\ q1 \in Int
             /\ 2 * (q1 * s) - 2 * (Levels * w1) <= s
             /\ 2 * (Levels * w1) - 2 * (q1 * s) <= s
  BY OperatorsAssumption, AbsOf, RoundedUnsigned DEF Int8!LevelsAssumption, Int8!Round, Int8!Clamp, Int8!Abs

\* The terms of a dot product.
Terms(y, m, o) == [i \in 0..(Cols - 1) |-> y[i] * m[Int8!Offset(o, i)]]

\* A row of the product is the sum of its terms.
LEMMA DotTotal ==
  ASSUME Shapes, NEW y, NEW m, NEW o
  PROVE  Int8!Dot(y, m, o) = Total(Terms(y, m, o), 0..(Cols - 1))
  <1> DEFINE S == 0..(Cols - 1)
             v == Terms(y, m, o)
             F(g) == [s \in SUBSET S |->
                        IF s = {} THEN 0
                        ELSE y[CHOOSE e \in s : TRUE] * m[Int8!Offset(o, CHOOSE e \in s : TRUE)]
                             + g[s \ {CHOOSE e \in s : TRUE}]]
             C == CHOOSE g : g = F(g)
  <1>1. Int8!Dot(y, m, o) = C[S]
    BY Zenon DEF Int8!Dot, Int8!MapThenSumSet, Int8!MapThenFoldSet
  <1>2. ASSUME NEW s \in SUBSET S, s # {}
        PROVE  v[Pick(s)] = y[Pick(s)] * m[Int8!Offset(o, Pick(s))]
    BY <1>2, PickOf DEF Terms
  <1>3. ASSUME NEW g PROVE g = F(g) <=> SumOf(v, g, S)
    <2>1. F(g) = [s \in SUBSET S |-> IF s = {} THEN 0 ELSE v[Pick(s)] + g[s \ {Pick(s)}]]
      <3> HIDE DEF S, v
      <3>1. QED
        BY <1>2 DEF Pick
    <2> HIDE DEF F, v, S
    <2>2. QED
      BY <2>1, Zenon DEF SumOf
  <1>4. IsFiniteSet(S)
    BY FS_Interval DEF Shapes
  <1>5. \E g : SumOf(v, g, S)
    BY <1>4, SumExists
  <1> HIDE DEF F, v, S
  <1>6. C = F(C)
    BY <1>3, <1>5, Zenon
  <1> DEFINE D == CHOOSE g : SumOf(v, g, S)
  <1>7. SumOf(v, C, S) /\ SumOf(v, D, S)
    BY <1>3, <1>5, <1>6, Zenon
  <1> HIDE DEF C, D
  <1>8. C[S] = D[S]
    BY <1>4, <1>7, SumUnique
  <1>9. QED
    BY <1>1, <1>8, Zenon DEF Total, D, v, S

Sizes(y) == [i \in 0..(Cols - 1) |-> Int8!Abs(y[i])]

\* The mass of the input is the sum of its absolute values.
LEMMA MassTotal ==
  ASSUME Shapes, NEW y
  PROVE  Int8!MapThenSumSet(LAMBDA i : Int8!Abs(y[i]), 0..(Cols - 1)) = Total(Sizes(y), 0..(Cols - 1))
  <1> DEFINE S == 0..(Cols - 1)
             v == Sizes(y)
             F(g) == [s \in SUBSET S |->
                        IF s = {} THEN 0
                        ELSE Int8!Abs(y[CHOOSE e \in s : TRUE]) + g[s \ {CHOOSE e \in s : TRUE}]]
             C == CHOOSE g : g = F(g)
  <1>1. Int8!MapThenSumSet(LAMBDA i : Int8!Abs(y[i]), S) = C[S]
    BY Zenon DEF Int8!MapThenSumSet, Int8!MapThenFoldSet
  <1>2. ASSUME NEW s \in SUBSET S, s # {}
        PROVE  v[Pick(s)] = Int8!Abs(y[Pick(s)])
    BY <1>2, PickOf DEF Sizes
  <1>3. ASSUME NEW g PROVE g = F(g) <=> SumOf(v, g, S)
    <2>1. F(g) = [s \in SUBSET S |-> IF s = {} THEN 0 ELSE v[Pick(s)] + g[s \ {Pick(s)}]]
      <3> HIDE DEF S, v
      <3>1. QED
        BY <1>2 DEF Pick
    <2> HIDE DEF F, v, S
    <2>2. QED
      BY <2>1, Zenon DEF SumOf
  <1>4. IsFiniteSet(S)
    BY FS_Interval DEF Shapes
  <1>5. \E g : SumOf(v, g, S)
    BY <1>4, SumExists
  <1> HIDE DEF F, v
  <1>6. C = F(C)
    BY <1>3, <1>5, Zenon
  <1> DEFINE D == CHOOSE g : SumOf(v, g, S)
  <1>7. SumOf(v, C, S) /\ SumOf(v, D, S)
    BY <1>3, <1>5, <1>6, Zenon
  <1> HIDE DEF C, D
  <1>8. C[S] = D[S]
    BY <1>4, <1>7, SumUnique
  <1>9. QED
    BY <1>1, <1>8, Zenon DEF Total, D, v

\* The terms of a row: what an int8 weight contributes is off by half a scale at most.
LEMMA TermError ==
  ASSUME NEW a \in Int, NEW s \in Nat, NEW q1 \in Int, NEW p \in Int,
         2 * (q1 * s) - 2 * p <= s, 2 * p - 2 * (q1 * s) <= s
  PROVE  LET z == (2 * s) * (a * q1) + (0 - 2) * (a * p)
         IN  z <= s * Int8!Abs(a) /\ (0 - s) * Int8!Abs(a) <= z
  <1> DEFINE d == 2 * (q1 * s) - 2 * p
  <1>1. d \in Int /\ d <= s /\ 0 - s <= d
    OBVIOUS
  <1>2. (2 * s) * (a * q1) + (0 - 2) * (a * p) = a * d
    BY SMT
  <1> HIDE DEF d
  <1>3. CASE a >= 0
    BY <1>1, <1>2, <1>3 DEF Int8!Abs
  <1>4. CASE a < 0
    BY <1>1, <1>2, <1>4 DEF Int8!Abs
  <1>5. QED
    BY <1>3, <1>4

\* A row of the int8 product against the exact one.
LEMMA RowError ==
  ASSUME Shapes, NEW m \in Matrices, NEW y \in Inputs, NEW o \in 0..(Rows - 1)
  PROVE  LET s == Int8!ScaleOf(m, o)
             exact == Levels * Int8!Dot(y, m, o)
             got == Int8!Dot(y, Int8!Quantize(m).data, o) * Int8!Quantize(m).amax[o]
             mass == Total(Sizes(y), 0..(Cols - 1))
         IN  exact \in Int /\ got \in Int /\ mass \in Int
             /\ 2 * got - 2 * exact <= s * mass /\ 2 * exact - 2 * got <= s * mass
  <1> DEFINE S == 0..(Cols - 1)
             data == Int8!Quantize(m).data
             A == Terms(y, data, o)
             B == Terms(y, m, o)
             M == Sizes(y)
  <1>1. PICK s \in Nat \ {0} : s = Int8!ScaleOf(m, o)
    BY ScaleBounds
  <1>2. Int8!Quantize(m).amax[o] = s
    BY <1>1 DEF Int8!Quantize
  <1>3. IsFiniteSet(S)
    BY FS_Interval DEF Shapes
  <1>4. PICK L \in Nat \ {0} : L = Levels
    BY OperatorsAssumption DEF Int8!LevelsAssumption
  <1> DEFINE Z == [i \in S |-> (2 * s) * A[i] + (0 - 2 * L) * B[i]]
             U == [i \in S |-> s * M[i] + 0 * M[i]]
             V == [i \in S |-> (0 - s) * M[i] + 0 * M[i]]
  <1>5. ASSUME NEW i \in S
        PROVE  /\ A[i] \in Int /\ B[i] \in Int /\ M[i] \in Int
               /\ Z[i] \in Int /\ U[i] \in Int /\ V[i] \in Int
               /\ V[i] <= Z[i] /\ Z[i] <= U[i]
    <2> DEFINE c == Int8!Offset(o, i)
               w1 == m[c]
               q1 == data[c]
    <2>1. c \in 0..(Rows * Cols - 1) /\ c \div Cols = o
      BY RowPlace, ZenonT(60) DEF Shapes, Int8!Offset
    <2>2. w1 \in Int /\ Int8!Abs(w1) <= s
      BY <1>1, ScaleBounds
    <2>3. q1 = Int8!Clamp(Int8!Round(w1, s))
      <3>1. DOMAIN m = 0..(Rows * Cols - 1)
        BY DEF Shapes
      <3> HIDE DEF c
      <3>2. data = [d \in DOMAIN m |-> Int8!Clamp(Int8!Round(m[d], Int8!ScaleOf(m, d \div Cols)))]
        BY DEF Int8!Quantize
      <3> HIDE DEF data
      <3>3. QED
        BY <1>1, <2>1, <3>1, <3>2
    <2>4. /\ q1 \in Int
          /\ 2 * (q1 * s) - 2 * (L * w1) <= s
          /\ 2 * (L * w1) - 2 * (q1 * s) <= s
      BY <1>4, <2>2, <2>3, Rounded
    <2>5. A[i] = y[i] * q1 /\ B[i] = y[i] * w1 /\ M[i] = Int8!Abs(y[i])
      BY DEF Terms, Sizes
    <2>6. PICK a \in Int : a = y[i]
      BY DEF Shapes
    <2>7. PICK b \in Nat : b = Int8!Abs(a)
      BY AbsOf
    <2> HIDE DEF A, B, M, q1, w1, c
    <2>8. PICK p \in Int : p = L * w1
      BY <2>2
    <2>9. PICK z \in Int : z = (2 * s) * (a * q1) + (0 - 2) * (a * p)
      BY <2>4
    <2>10. z <= s * b /\ (0 - s) * b <= z
      BY <2>4, <2>7, <2>8, <2>9, TermError
    <2>11. (0 - 2) * (a * p) = (0 - 2 * L) * (a * w1)
      BY <2>2, <2>8, SMT
    <2>12. Z[i] = z
      BY <2>5, <2>6, <2>9, <2>11
    <2>13. U[i] = s * b /\ V[i] = (0 - s) * b
      BY <2>5, <2>6, <2>7
    <2>14. A[i] \in Int /\ B[i] \in Int /\ M[i] \in Int
      BY <2>2, <2>4, <2>5, <2>6, <2>7
    <2> HIDE DEF Z, U, V
    <2>15. QED
      BY <2>10, <2>12, <2>13, <2>14
  <1>6. /\ \A i \in S : Z[i] = (2 * s) * A[i] + (0 - 2 * L) * B[i]
        /\ \A i \in S : U[i] = s * M[i] + 0 * M[i]
        /\ \A i \in S : V[i] = (0 - s) * M[i] + 0 * M[i]
    OBVIOUS
  <1>7. PICK k \in Int : k = 0 - 2 * L
    OBVIOUS
  <1>8. PICK j \in Int : j = 0 - s
    OBVIOUS
  <1>9. PICK h \in Int : h = 2 * s
    OBVIOUS
  <1>10. PICK zero \in Int : zero = 0
    OBVIOUS
  <1> HIDE DEF A, B, M, S, Z, U, V
  <1>11. Total(Z, S) = h * Total(A, S) + k * Total(B, S)
    BY <1>3, <1>5, <1>6, <1>7, <1>9, TotalLinear
  <1>12. Total(U, S) = s * Total(M, S) + zero * Total(M, S)
    BY <1>3, <1>5, <1>6, <1>10, TotalLinear
  <1>13. Total(V, S) = j * Total(M, S) + zero * Total(M, S)
    BY <1>3, <1>5, <1>6, <1>8, <1>10, TotalLinear
  <1>14. Total(V, S) <= Total(Z, S) /\ Total(Z, S) <= Total(U, S)
    BY <1>3, <1>5, TotalBound
  <1>15. PICK a \in Int : a = Total(A, S)
    BY <1>3, <1>5, TotalInt
  <1>16. PICK b \in Int : b = Total(B, S)
    BY <1>3, <1>5, TotalInt
  <1>17. PICK mass \in Int : mass = Total(M, S)
    BY <1>3, <1>5, TotalInt
  <1>18. /\ h * a + k * b <= s * mass + zero * mass
         /\ j * mass + zero * mass <= h * a + k * b
    BY <1>11, <1>12, <1>13, <1>14, <1>15, <1>16, <1>17
  <1>19. /\ zero * mass = 0 /\ h * a = 2 * (a * s) /\ k * b = 0 - 2 * (L * b)
         /\ j * mass = 0 - s * mass
    BY <1>7, <1>8, <1>9, <1>10, SMT
  <1>20. a * s \in Int /\ L * b \in Int /\ s * mass \in Int
    OBVIOUS
  <1>21. /\ 2 * (a * s) - 2 * (L * b) <= s * mass
         /\ 2 * (L * b) - 2 * (a * s) <= s * mass
    BY <1>18, <1>19, <1>20
  <1>22. Int8!Dot(y, data, o) = a /\ Int8!Dot(y, m, o) = b
    BY <1>15, <1>16, DotTotal DEF A, B, S
  <1>23. Total(Sizes(y), 0..(Cols - 1)) = mass
    BY <1>17 DEF M, S
  <1> HIDE DEF data
  <1>24. QED
    BY <1>1, <1>2, <1>4, <1>20, <1>21, <1>22, <1>23 DEF data

\* What quantize() has stored is what it makes of the weight; an answer is the exact one,
\* or the int8 one of a projection of a quantized model.
QuantOf(n) == Int8!Quantize(int8_weights[n])
Exact(c) == c.y = Int8!Linear(c.x, int8_weights[c.name])
Approximate(c) == /\ quantized /\ c.name \in Int8!Projections
                  /\ c.y = Int8!LinearInt8(c.x, QuantOf(c.name))
Int8Inv ==
    /\ \A n \in DOMAIN int8_weights : int8_weights[n] \in Matrices
    /\ DOMAIN quant \subseteq Int8!Projections \cap DOMAIN int8_weights
    /\ \A n \in DOMAIN quant : quant[n] = QuantOf(n)
    /\ \/ call = Int8!None
       \/ /\ call.name \in DOMAIN int8_weights /\ call.x \in Inputs
          /\ Exact(call) \/ Approximate(call)

\* The layer starts in its invariant.
LEMMA Int8Init == Int8!Init => Int8Inv
  <1>1. SUFFICES ASSUME Int8!Init PROVE Int8Inv
    OBVIOUS
  <1>2. \A n \in DOMAIN int8_weights : int8_weights[n] \in Matrices
    BY <1>1 DEF Int8!Init
  <1>3. quant = <<>> /\ call = Int8!None
    BY <1>1 DEF Int8!Init
  <1>4. DOMAIN quant = {}
    BY <1>3
  <1>5. QED
    BY <1>2, <1>3, <1>4 DEF Int8Inv

\* Every step keeps what a quantized row says of its row.
LEMMA Int8Next == Int8Inv /\ [Int8!Next]_(Int8!vars) => Int8Inv'
  <1>1. SUFFICES ASSUME Int8Inv, [Int8!Next]_(Int8!vars) PROVE Int8Inv'
    OBVIOUS
  <1>2. ASSUME int8_weights' = int8_weights, quant' = quant, call' = call,
               quantized => quantized'
        PROVE  Int8Inv'
    BY <1>1, <1>2 DEF Int8Inv, QuantOf, Exact, Approximate
  <1>3. CASE UNCHANGED Int8!vars
    BY <1>2, <1>3 DEF Int8!vars
  <1>4. CASE Int8!Begin \/ Int8!QuantizeThrows \/ Int8!QuantizeDone
    BY <1>2, <1>4 DEF Int8!Begin, Int8!QuantizeThrows, Int8!QuantizeDone
  <1>5. CASE Int8!QuantizeOne
    <2> DEFINE new == Names[int8_at]
    <2>1. /\ int8_at \in DOMAIN Names /\ new \in DOMAIN int8_weights
          /\ quant' = [n \in DOMAIN quant \cup {new} |->
                         IF n \in DOMAIN quant THEN quant[n] ELSE QuantOf(n)]
          /\ int8_weights' = int8_weights /\ quantized' = quantized /\ call' = call
      BY <1>5 DEF Int8!QuantizeOne, QuantOf
    <2>2. new \in Int8!Projections
      BY <2>1 DEF Int8!Projections
    <2> HIDE DEF new
    <2>3. DOMAIN quant' \subseteq Int8!Projections \cap DOMAIN int8_weights
      BY <1>1, <2>1, <2>2 DEF Int8Inv
    <2>4. \A n \in DOMAIN quant' : quant'[n] = QuantOf(n)
      BY <1>1, <2>1 DEF Int8Inv
    <2>5. QED
      BY <1>1, <2>1, <2>3, <2>4 DEF Int8Inv, QuantOf, Exact, Approximate
  <1>6. ASSUME NEW name \in Int8!Projections \cup {Other}, NEW y \in Inputs, Int8!LinearW(name, y)
        PROVE  Int8Inv'
    <2> DEFINE int8 == quantized /\ name \in DOMAIN quant
    <2>1. /\ name \in DOMAIN int8_weights
          /\ call' = [name |-> name, x |-> y,
                      y |-> IF int8 THEN Int8!LinearInt8(y, quant[name])
                            ELSE Int8!Linear(y, int8_weights[name])]
          /\ int8_weights' = int8_weights /\ quantized' = quantized /\ quant' = quant
      BY <1>6 DEF Int8!LinearW
    <2>2. call'.name = name /\ call'.x = y
      BY <2>1
    <2>3. ASSUME int8
          PROVE  call'.y = Int8!LinearInt8(y, QuantOf(name)) /\ name \in Int8!Projections
      BY <1>1, <2>1, <2>3 DEF Int8Inv
    <2>4. ASSUME ~ int8 PROVE call'.y = Int8!Linear(y, int8_weights[name])
      BY <2>1, <2>4
    <2>5. Exact(call)' \/ Approximate(call)'
      BY <2>1, <2>2, <2>3, <2>4 DEF Exact, Approximate, QuantOf
    <2>6. QED
      BY <1>1, <2>1, <2>2, <2>5 DEF Int8Inv, QuantOf
  <1>7. QED
    BY <1>1, <1>3, <1>4, <1>5, <1>6 DEF Int8!Next

\* The mass of an activation is not negative.
LEMMA MassNat ==
  ASSUME Shapes, NEW y \in Inputs
  PROVE  Total(Sizes(y), 0..(Cols - 1)) \in Nat
  <1> DEFINE S == 0..(Cols - 1)
             Zero == [i \in S |-> 0]
  <1>1. IsFiniteSet(S)
    BY FS_Interval DEF Shapes
  <1>2. \A i \in S : Sizes(y)[i] \in Int /\ Zero[i] \in Int /\ Zero[i] <= Sizes(y)[i]
    <2>1. \A i \in S : y[i] \in Int
      BY DEF Shapes
    <2>2. QED
      BY <2>1, AbsOf DEF Sizes
  <1>3. \A i \in S : Zero[i] = 0 * Zero[i] + 0 * Zero[i]
    OBVIOUS
  <1>4. PICK zero \in Int : zero = 0
    OBVIOUS
  <1>5. \A i \in S : Zero[i] \in Int /\ Zero[i] \in Int /\ Zero[i] = zero * Zero[i] + zero * Zero[i]
    BY <1>4
  <1> HIDE DEF Zero, S
  <1>6. Total(Zero, S) = zero * Total(Zero, S) + zero * Total(Zero, S)
    BY <1>1, <1>5, TotalLinear
  <1>7. Total(Zero, S) \in Int /\ Total(Sizes(y), S) \in Int
    BY <1>1, <1>2, TotalInt
  <1>8. Total(Zero, S) <= Total(Sizes(y), S)
    BY <1>1, <1>2, TotalBound
  <1>9. Total(Zero, S) = 0
    BY <1>4, <1>6, <1>7
  <1>10. QED
    BY <1>7, <1>8, <1>9 DEF S

\* The output of quantized rows is off by half a unit for each input at most.
LEMMA Int8Tracks == Shapes /\ Int8Inv => Int8!TracksFp32
  <1>1. SUFFICES ASSUME Shapes, Int8Inv, call # Int8!None, NEW o \in 0..(Rows - 1)
                 PROVE  LET exact == Int8!Linear(call.x, int8_weights[call.name])
                            mass == Int8!MapThenSumSet(LAMBDA i : Int8!Abs(call.x[i]), 0..(Cols - 1))
                        IN  2 * Int8!Abs(call.y[o] - exact[o]) <=
                              IF quantized /\ call.name \in Int8!Projections
                              THEN mass * Int8!ScaleOf(int8_weights[call.name], o) ELSE 0
    BY DEF Int8!TracksFp32
  <1>2. PICK y \in Inputs : y = call.x
    BY <1>1 DEF Int8Inv
  <1>3. PICK m \in Matrices : m = int8_weights[call.name]
    BY <1>1 DEF Int8Inv
  <1>4. PICK mass \in Nat : mass = Total(Sizes(y), 0..(Cols - 1))
    BY <1>1, MassNat
  <1>5. Int8!MapThenSumSet(LAMBDA i : Int8!Abs(call.x[i]), 0..(Cols - 1)) = mass
    BY <1>1, <1>2, <1>4, MassTotal
  <1>6. PICK s \in Nat : s = Int8!ScaleOf(m, o)
    BY <1>1, ScaleBounds
  <1>7. mass * s \in Nat /\ s * mass = mass * s
    BY SMT
  <1>8. PICK exact \in Int : exact = Levels * Int8!Dot(y, m, o)
    BY <1>1, RowError
  <1>9. Int8!Linear(call.x, int8_weights[call.name])[o] = exact
    BY <1>2, <1>3, <1>8 DEF Int8!Linear
  <1>10. CASE Exact(call)
    <2>1. call.y[o] = exact
      BY <1>9, <1>10 DEF Exact
    <2>2. Int8!Abs(call.y[o] - exact) = 0
      BY <2>1 DEF Int8!Abs
    <2>3. QED
      BY <1>3, <1>5, <1>6, <1>7, <1>9, <2>2
  <1>11. CASE Approximate(call)
    <2>1. PICK got \in Int : got = Int8!Dot(y, Int8!Quantize(m).data, o) * Int8!Quantize(m).amax[o]
      BY <1>1, RowError
    <2>2. call.y[o] = got
      BY <1>2, <1>3, <1>11, <2>1 DEF Approximate, QuantOf, Int8!LinearInt8
    <2>3. 2 * got - 2 * exact <= s * mass /\ 2 * exact - 2 * got <= s * mass
      BY <1>1, <1>4, <1>6, <1>8, <2>1, RowError
    <2>4. 2 * Int8!Abs(got - exact) <= mass * s
      BY <1>7, <2>3 DEF Int8!Abs
    <2>5. quantized /\ call.name \in Int8!Projections
      BY <1>11 DEF Approximate
    <2>6. QED
      BY <1>3, <1>5, <1>6, <1>9, <2>2, <2>4, <2>5
  <1>12. QED
    BY <1>1, <1>10, <1>11 DEF Int8Inv

\* A run on the subject is a run of its module.
LEMMA Int8Runs ==
  /\ Init => (subject = "int8" => Int8!Init)
  /\ [Next]_allVars => UNCHANGED subject
                       /\ (subject = "int8" => [Int8!Next]_(Int8!vars))
  BY DEF Init, allVars, int8Vars, Int8!vars, Next

\* Model::linear_w() answers exactly until quantize() is through, though it threw half
\* way before, and always for what is no projection; then it is off by half a scale of
\* the row per unit of activation at most.  For any shape, weights, inputs and number
\* of levels.
THEOREM QuantizedTracksFp32 == Spec => []TracksFp32
  <1> DEFINE Inv == subject = "int8" => Int8Inv
  <1>1. Shapes
    BY ShapesHold
  <1>2. Init => Inv
    BY Int8Init, Int8Runs
  <1>3. Inv /\ [Next]_allVars => Inv'
    BY Int8Next, Int8Runs
  <1>4. Inv => TracksFp32
    BY <1>1, Int8Tracks DEF TracksFp32
  <1>5. QED
    BY <1>2, <1>3, <1>4, PTL DEF Spec

-----------------------------------------------------------------------------
(* The loader: halves. *)

Halves == [sign : {0, 1}, exp : 0..31, mant : 0..(2^MantBits - 1)]
Formats == MantBits \in 3..111 /\ Widening \in Nat

\* The sizes of the formats are numbers.
LEMMA FormatTypes ==
  ASSUME Formats
  PROVE  MantBits \in Nat /\ 3 <= MantBits /\ MantBits <= 111 /\ Widening \in Nat
  BY DEF Formats

\* The sizes of the checked instances are sizes of formats.
LEMMA FormatsHold == Formats
  BY OperatorsAssumption DEF Loader!HalfAssumption, Formats

\* Every subnormal has a shift that sets its hidden bit, and no more.
LEMMA ShiftExists ==
  ASSUME NEW B \in Nat, NEW m \in Nat \ {0}, m < 2^B
  PROVE  \E n \in 1..B : m * 2^n \in 2^B..(2^(B + 1) - 1)
  <1>1. PICK top \in Nat : top = 2^B
    BY PowCounts
  <1> DEFINE S == {n \in Nat : m * 2^n >= top}
  <1>2. B \in S
    BY <1>1
  <1>3. PICK n \in S : \A k \in S : n <= k
    BY <1>2, LeastOf
  <1>4. n \in Nat /\ m * 2^n >= top /\ n <= B
    BY <1>2, <1>3
  <1>5. n # 0
    <2>1. SUFFICES ASSUME n = 0 PROVE FALSE
      OBVIOUS
    <2>2. 2^n = 1
      BY <2>1, PowZero
    <2>3. m * 2^n = m /\ m < top
      BY <1>1, <2>2
    <2>4. QED
      BY <1>4, <2>3
  <1>6. PICK k \in Nat : n = k + 1
    BY <1>4, <1>5
  <1>7. ~ (m * 2^k >= top)
    BY <1>3, <1>4, <1>6
  <1>8. PICK a \in Nat : a = 2^k
    BY PowCounts
  <1>9. 2^n = a + a /\ 2^(B + 1) = top + top
    BY <1>1, <1>6, <1>8, PowSucc
  <1>10. PICK c \in Nat : c = m * a
    OBVIOUS
  <1>11. m * (a + a) = c + c
    BY <1>10
  <1>12. c < top
    BY <1>7, <1>8, <1>10
  <1>13. m * 2^n \in top..(top + top - 1)
    BY <1>4, <1>9, <1>11, <1>12
  <1>14. QED
    BY <1>1, <1>4, <1>5, <1>9, <1>13

\* A normal half keeps its value.
LEMMA NormalWidens ==
  ASSUME Formats, NEW h \in Halves, h.exp # 0
  PROVE  Loader!SameValue(h, Loader!Widen(h))
  <1>1. PICK a \in Nat : a = 2^MantBits
    BY PowCounts, FormatTypes
  <1>2. PICK b \in Nat : b = 2^Widening
    BY PowCounts, FormatTypes
  <1>3. 2^(MantBits + Widening) = a * b
    BY <1>1, <1>2, PowAdd, FormatTypes
  <1>4. PICK m \in Nat : m = h.mant
    BY <1>1 DEF Halves
  <1>5. PICK e \in 1..31 : e = h.exp
    BY DEF Halves
  <1> DEFINE f == Loader!Widen(h)
  <1>6. /\ f.sign = h.sign /\ f.exp = (IF e = 31 THEN 255 ELSE e + 112)
        /\ f.mant = m * b
    BY <1>2, <1>4, <1>5 DEF Loader!Widen
  <1> HIDE DEF f
  <1>7. CASE e = 31
    BY <1>2, <1>4, <1>5, <1>6, <1>7 DEF Loader!SameValue, f
  <1>8. CASE e < 31
    <2>1. f.exp = e + 112 /\ f.exp # 0 /\ e # 0
      BY <1>6, <1>8
    <2>2. e - 15 - MantBits - (f.exp - 127 - MantBits - Widening) = Widening
      BY <2>1, FormatTypes
    <2>3. (a + m) * b = a * b + m * b
      OBVIOUS
    <2>4. h.exp < 31 /\ h.exp # 31 /\ h.exp # 0
      BY <1>5, <1>8
    <2>5. Widening >= 0
      BY FormatTypes
    <2> DEFINE G(n, bits) == IF n.exp = 0 THEN n.mant ELSE 2^bits + n.mant
               scale1 == (IF h.exp = 0 THEN 1 ELSE h.exp) - 15 - MantBits
                 - ((IF f.exp = 0 THEN 1 ELSE f.exp) - 127 - MantBits - Widening)
    <2>6. scale1 = Widening
      BY <1>5, <2>1, <2>2, <2>4
    <2>7. G(h, MantBits) = a + m /\ G(f, MantBits + Widening) = a * b + m * b
      BY <1>1, <1>3, <1>4, <1>6, <2>1, <2>4
    <2>8. scale1 >= 0 /\ G(h, MantBits) * 2^scale1 = G(f, MantBits + Widening)
      BY <1>2, <2>3, <2>5, <2>6, <2>7
    <2>9. h.sign = f.sign
      BY <1>6
    <2> HIDE DEF G, scale1
    <2>10. QED
      BY <2>4, <2>8, <2>9, Zenon DEF Loader!SameValue, f, G, scale1
  <1>9. QED
    BY <1>7, <1>8

\* A subnormal half becomes a normal word of its value.
LEMMA SubnormalWidens ==
  ASSUME Formats, NEW h \in Halves, h.exp = 0, h.mant # 0
  PROVE  Loader!SameValue(h, Loader!Widen(h))
  <1>1. PICK a \in Nat : a = 2^MantBits
    BY PowCounts, FormatTypes
  <1>2. PICK b \in Nat : b = 2^Widening
    BY PowCounts, FormatTypes
  <1>3. 2^(MantBits + Widening) = a * b /\ 2^(MantBits + 1) = a + a
    BY <1>1, <1>2, PowAdd, PowSucc, FormatTypes
  <1>4. PICK m \in Nat \ {0} : m = h.mant
    BY <1>1 DEF Halves
  <1>5. m < a
    BY <1>1, <1>4 DEF Halves
  <1> DEFINE shift == CHOOSE n \in 1..MantBits : h.mant * 2^n \in 2^MantBits..(2^(MantBits + 1) - 1)
  <1>6. shift \in 1..MantBits /\ h.mant * 2^shift \in 2^MantBits..(2^(MantBits + 1) - 1)
    BY <1>1, <1>4, <1>5, ShiftExists, FormatTypes
  <1> DEFINE f == Loader!Widen(h)
  <1>7. /\ f.sign = h.sign /\ f.exp = (1 - shift) + (127 - 15)
        /\ f.mant = ((h.mant * 2^shift) % 2^MantBits) * 2^Widening
    <2> HIDE DEF shift
    <2>1. f = [sign |-> h.sign, exp |-> (1 - shift) + (127 - 15),
               mant |-> ((h.mant * 2^shift) % 2^MantBits) * 2^Widening]
      BY Zenon DEF Loader!Widen, Loader!SubnormalExp, shift
    <2> HIDE DEF f
    <2>2. QED
      BY <2>1
  <1> HIDE DEF shift, f
  <1>8. PICK n \in 1..MantBits : n = shift
    BY <1>6
  <1>9. PICK c \in Nat : c = 2^n
    <2>1. n \in Nat
      BY FormatTypes
    <2>2. 2^n \in Nat
      BY <2>1, PowCounts
    <2>3. QED
      BY <2>2
  <1>10. PICK z \in Nat : z = m * c
    OBVIOUS
  <1>11. a <= z /\ z < a + a
    BY <1>1, <1>3, <1>4, <1>6, <1>8, <1>9, <1>10
  <1>12. z % a = z - a
    BY <1>4, <1>5, <1>11, SMT
  <1>13. f.mant = (z - a) * b /\ f.exp = 113 - n
    BY <1>1, <1>2, <1>4, <1>7, <1>8, <1>9, <1>10, <1>12
  <1>14. f.exp # 0 /\ n \in Nat
    BY <1>13, FormatTypes
  <1> DEFINE G(k, bits) == IF k.exp = 0 THEN k.mant ELSE 2^bits + k.mant
             scale1 == (IF h.exp = 0 THEN 1 ELSE h.exp) - 15 - MantBits
               - ((IF f.exp = 0 THEN 1 ELSE f.exp) - 127 - MantBits - Widening)
  <1>15. scale1 = n + Widening
    BY <1>13, <1>14, FormatTypes
  <1>16. 2^scale1 = c * b /\ scale1 >= 0
    <2>1. n \in Nat /\ Widening \in Nat
      BY <1>14, FormatTypes
    <2>2. 2^(n + Widening) = c * b
      BY <1>2, <1>9, <2>1, PowAdd
    <2> HIDE DEF scale1
    <2>3. QED
      BY <1>15, <2>1, <2>2
  <1>17. G(h, MantBits) = m /\ G(f, MantBits + Widening) = a * b + (z - a) * b
    BY <1>3, <1>4, <1>13, <1>14
  <1>18. m * (c * b) = z * b /\ a * b + (z - a) * b = z * b
    BY <1>10, SMT
  <1>19. scale1 >= 0 /\ G(h, MantBits) * 2^scale1 = G(f, MantBits + Widening)
    BY <1>16, <1>17, <1>18
  <1>20. h.exp < 31 /\ h.exp # 31 /\ h.sign = f.sign
    BY <1>7
  <1> HIDE DEF G, scale1
  <1>21. QED
    BY <1>19, <1>20, Zenon DEF Loader!SameValue, f, G, scale1

\* Every half keeps its value.
LEMMA Widens == ASSUME Formats, NEW h \in Halves PROVE Loader!SameValue(h, Loader!Widen(h))
  BY NormalWidens, SubnormalWidens DEF Loader!SameValue, Loader!Widen

\* Every bfloat16 becomes the upper bits of a word.
LEMMA BrainWidens ==
  ASSUME Formats, NEW h \in Halves PROVE Loader!SameUpperBits(h, Loader!WidenBrain(h))
  <1>1. PICK k \in Nat : k = MantBits - 3 /\ MantBits = k + 1 + 1 + 1
    BY FormatTypes
  <1>2. PICK c \in Nat \ {0} : c = 2^(MantBits - 3)
    BY <1>1, PowPositive
  <1>3. 2^MantBits = c * 8
    BY <1>1, <1>2, PowSucc
  <1>4. PICK b \in Nat \ {0} : b = 2^(Widening + 3)
    BY FormatTypes, PowPositive
  <1>5. PICK m \in Nat, e \in Nat : m = h.mant /\ e = h.exp
    BY <1>3 DEF Halves
  <1>6. PICK o \in Nat, i \in 0..(c - 1) : o = m \div c /\ i = m % c /\ m = o * c + i
    OBVIOUS
  <1>7. PICK z \in Nat : z = i * b /\ z % b = 0 /\ z \div b = i
    BY Place
  <1> DEFINE f == Loader!WidenBrain(h)
  <1>8. f.sign = h.sign /\ f.exp = e * 8 + o /\ f.mant = z
    BY <1>2, <1>4, <1>5, <1>6, <1>7 DEF Loader!WidenBrain
  <1> HIDE DEF f
  <1>9. (e * 8 + o) * c + i = e * (c * 8) + m
    BY <1>6, SMT
  <1>10. QED
    BY <1>2, <1>3, <1>4, <1>5, <1>7, <1>8, <1>9, Zenon DEF Loader!SameUpperBits, f

-----------------------------------------------------------------------------
(* The loader: every list of spans has an order in which they are sorted. *)

Pairs == Int \X Int

\* One of the first spans is before none of them.
LEMMA LastSpan ==
  ASSUME NEW n \in Nat, NEW s, \A i \in 1..(n + 1) : s[i] \in Pairs
  PROVE  \E k \in 1..(n + 1) : \A j \in 1..(n + 1) : ~ Loader!Before(s[k], s[j])
  <1> DEFINE P == {m \in Nat : m <= n => \E k \in 1..(m + 1) : \A j \in 1..(m + 1) : ~ Loader!Before(s[k], s[j])}
  <1>1. 0 \in P
    BY DEF Loader!Before, Pairs
  <1>2. ASSUME NEW m \in Nat, m \in P PROVE m + 1 \in P
    <2>1. SUFFICES ASSUME m + 1 <= n
                   PROVE  \E k \in 1..((m + 1) + 1) : \A j \in 1..((m + 1) + 1) : ~ Loader!Before(s[k], s[j])
      OBVIOUS
    <2>2. PICK k \in 1..(m + 1) : \A j \in 1..(m + 1) : ~ Loader!Before(s[k], s[j])
      BY <1>2, <2>1
    <2>3. PICK l \in 1..(n + 1) : l = (m + 1) + 1
      BY <2>1
    <2>4. \A j \in 1..((m + 1) + 1) : j \in 1..(m + 1) \/ j = l
      BY <2>3
    <2>5. \A j \in 1..l : s[j] \in Pairs
      OBVIOUS
    <2>6. k \in 1..l /\ l \in 1..l /\ 1..(m + 1) \subseteq 1..l
      BY <2>3
    <2>7. ~ Loader!Before(s[l], s[l]) /\ ~ Loader!Before(s[k], s[k])
      BY <2>5, <2>6 DEF Loader!Before, Pairs
    <2>8. CASE Loader!Before(s[k], s[l])
      BY <2>2, <2>3, <2>4, <2>5, <2>6, <2>7, <2>8 DEF Loader!Before, Pairs
    <2>9. CASE ~ Loader!Before(s[k], s[l])
      BY <2>2, <2>3, <2>4, <2>6, <2>9
    <2>10. QED
      BY <2>8, <2>9
  <1> HIDE DEF P
  <1>3. n \in P
    BY <1>1, <1>2, Induct
  <1>4. QED
    BY <1>3 DEF P

Sorts(p, s, n) == /\ p \in [1..n -> 1..n]
                  /\ \A i, j \in 1..n : p[i] = p[j] => i = j
                  /\ \A k \in 1..n : \E i \in 1..n : p[i] = k
                  /\ \A i, j \in 1..n : i < j => ~ Loader!Before(s[p[j]], s[p[i]])

\* The last span is swapped to the end and the others are sorted.
LEMMA SwapSorts ==
  ASSUME NEW n \in Nat, NEW s \in [1..(n + 1) -> Pairs], NEW k \in 1..(n + 1),
         \A j \in 1..(n + 1) : ~ Loader!Before(s[k], s[j]),
         NEW p, Sorts(p, [i \in 1..n |-> IF i = k THEN s[n + 1] ELSE s[i]], n)
  PROVE  \E p1 \in [1..(n + 1) -> 1..(n + 1)] : Sorts(p1, s, n + 1)
  <1> DEFINE t == [i \in 1..n |-> IF i = k THEN s[n + 1] ELSE s[i]]
             r1 == [i \in 1..(n + 1) |-> IF i = n + 1 THEN k ELSE IF p[i] = k THEN n + 1 ELSE p[i]]
  <1>1. /\ p \in [1..n -> 1..n] /\ \A i, j \in 1..n : p[i] = p[j] => i = j
        /\ \A m \in 1..n : \E i \in 1..n : p[i] = m
        /\ \A i, j \in 1..n : i < j => ~ Loader!Before(t[p[j]], t[p[i]])
    BY DEF Sorts
  <1>2. \A i \in 1..(n + 1) : i \in 1..n \/ i = n + 1
    OBVIOUS
  <1>3. 1..n \subseteq 1..(n + 1) /\ n + 1 \in 1..(n + 1) /\ n + 1 \notin 1..n
    OBVIOUS
  <1>4. ASSUME NEW i \in 1..n
        PROVE  /\ p[i] \in 1..n /\ r1[i] = (IF p[i] = k THEN n + 1 ELSE p[i])
               /\ s[r1[i]] = t[p[i]] /\ r1[i] \in 1..(n + 1)
    <2>1. p[i] \in 1..n /\ i \in 1..(n + 1) /\ i # n + 1
      BY <1>1
    <2>2. r1[i] = (IF p[i] = k THEN n + 1 ELSE p[i])
      BY <2>1
    <2>3. t[p[i]] = (IF p[i] = k THEN s[n + 1] ELSE s[p[i]])
      BY <2>1
    <2> HIDE DEF t, r1
    <2>4. QED
      BY <1>3, <2>1, <2>2, <2>3
  <1>5. r1[n + 1] = k
    OBVIOUS
  <1>6. r1 \in [1..(n + 1) -> 1..(n + 1)]
    <2>1. \A i \in 1..(n + 1) : r1[i] \in 1..(n + 1)
      BY <1>2, <1>4, <1>5
    <2>2. r1 = [i \in 1..(n + 1) |-> r1[i]]
      OBVIOUS
    <2> HIDE DEF r1
    <2>3. QED
      BY <2>1, <2>2
  <1> HIDE DEF r1, t
  <1>7. \A i, j \in 1..(n + 1) : r1[i] = r1[j] => i = j
    <2>1. SUFFICES ASSUME NEW i \in 1..(n + 1), NEW j \in 1..(n + 1), r1[i] = r1[j]
                   PROVE  i = j
      OBVIOUS
    <2>2. \A a \in 1..n : r1[a] # k
      BY <1>3, <1>4
    <2>3. CASE i \in 1..n /\ j \in 1..n
      <3>1. p[i] = p[j]
        BY <1>3, <1>4, <2>1, <2>3
      <3>2. QED
        BY <1>1, <2>3, <3>1
    <2>4. CASE i \notin 1..n \/ j \notin 1..n
      BY <1>2, <1>5, <2>1, <2>2, <2>4
    <2>5. QED
      BY <2>3, <2>4
  <1>8. ASSUME NEW m \in 1..(n + 1) PROVE \E i \in 1..(n + 1) : r1[i] = m
    <2>1. CASE m = k
      BY <1>3, <1>5, <2>1
    <2>2. CASE m # k /\ m \in 1..n
      BY <1>1, <1>3, <1>4, <2>2
    <2>3. CASE m # k /\ m = n + 1
      BY <1>1, <1>2, <1>3, <1>4, <2>3
    <2>4. QED
      BY <1>2, <2>1, <2>2, <2>3
  <1>9. ASSUME NEW i \in 1..(n + 1), NEW j \in 1..(n + 1), i < j
        PROVE  ~ Loader!Before(s[r1[j]], s[r1[i]])
    <2>1. CASE j \in 1..n
      <3>1. i \in 1..n
        BY <1>9, <2>1
      <3>2. QED
        BY <1>1, <1>4, <1>9, <2>1, <3>1
    <2>2. CASE j = n + 1
      BY <1>5, <1>6, <2>2
    <2>3. QED
      BY <1>2, <2>1, <2>2
  <1>10. QED
    BY <1>6, <1>7, <1>8, <1>9 DEF Sorts

\* Some permutation sorts the spans.
LEMMA SortExists ==
  ASSUME NEW n \in Nat, NEW s \in [1..n -> Pairs]
  PROVE  \E p \in [1..n -> 1..n] : Sorts(p, s, n)
  <1> DEFINE P == {m \in Nat : \A t \in [1..m -> Pairs] : \E p \in [1..m -> 1..m] : Sorts(p, t, m)}
  <1>1. 0 \in P
    <2>1. SUFFICES ASSUME NEW t \in [1..0 -> Pairs] PROVE \E p \in [1..0 -> 1..0] : Sorts(p, t, 0)
      OBVIOUS
    <2>2. 1..0 = {}
      OBVIOUS
    <2>3. [i \in {} |-> i] \in [{} -> {}]
      OBVIOUS
    <2>4. Sorts([i \in {} |-> i], t, 0)
      BY <2>2, <2>3 DEF Sorts
    <2>5. QED
      BY <2>2, <2>3, <2>4
  <1>2. ASSUME NEW m \in Nat, m \in P PROVE m + 1 \in P
    <2>1. SUFFICES ASSUME NEW t \in [1..(m + 1) -> Pairs]
                   PROVE  \E p \in [1..(m + 1) -> 1..(m + 1)] : Sorts(p, t, m + 1)
      OBVIOUS
    <2>2. PICK k \in 1..(m + 1) : \A j \in 1..(m + 1) : ~ Loader!Before(t[k], t[j])
      BY LastSpan
    <2> DEFINE u == [i \in 1..m |-> IF i = k THEN t[m + 1] ELSE t[i]]
    <2>3. u \in [1..m -> Pairs]
      OBVIOUS
    <2>4. PICK p \in [1..m -> 1..m] : Sorts(p, u, m)
      BY <1>2, <2>3
    <2>5. QED
      BY <2>2, <2>4, SwapSorts
  <1> HIDE DEF P
  <1>3. n \in P
    BY <1>1, <1>2, Induct
  <1>4. QED
    BY <1>3 DEF P

\* What std::sort leaves of some spans.
LEMMA InOrderSorts ==
  ASSUME NEW n \in Nat, NEW s \in [1..n -> Pairs]
  PROVE  \E p : Sorts(p, s, n) /\ Loader!InOrder(s) = [i \in 1..n |-> s[p[i]]]
  <1> DEFINE Good(p) == \A i, j \in DOMAIN s : i < j => ~ Loader!Before(s[p[j]], s[p[i]])
             B == Loader!Bijection(DOMAIN s, DOMAIN s)
             c == CHOOSE p \in B : Good(p)
  <1>1. DOMAIN s = 1..n
    OBVIOUS
  <1>2. ASSUME NEW p
        PROVE  p \in B /\ Good(p) <=> Sorts(p, s, n)
    BY <1>1, Zenon DEF Sorts, Loader!Bijection, Loader!Injection, Loader!Surjection, Loader!IsInjective
  <1>3. \E p \in B : Good(p)
    BY <1>2, SortExists
  <1>4. c \in B /\ Good(c)
    BY <1>3, Zenon
  <1>5. Loader!InOrder(s) = [i \in DOMAIN s |-> s[c[i]]]
    BY Zenon DEF Loader!InOrder
  <1> HIDE DEF c, B, Good
  <1>6. QED
    BY <1>1, <1>2, <1>4, <1>5

-----------------------------------------------------------------------------
(* The loader: what it asks of an entry, and of its spans. *)

\* A product of dimensions is a number.
LEMMA ProductNat ==
  ASSUME NEW n \in Nat, NEW shape \in [1..n -> Nat]
  PROVE  Loader!Product(shape) \in Nat
  <1> DEFINE S == DOMAIN shape
             F(g) == [s \in SUBSET S |->
                        IF s = {} THEN 1
                        ELSE shape[CHOOSE e \in s : TRUE] * g[s \ {CHOOSE e \in s : TRUE}]]
             C == CHOOSE g : g = F(g)
  <1>1. Loader!Product(shape) = C[S]
    BY Zenon DEF Loader!Product, Loader!FoldFunction, Loader!FoldFunctionOnSet, Loader!MapThenFoldSet
  <1>2. S = 1..n /\ IsFiniteSet(S)
    BY FS_Interval
  <1>3. ASSUME NEW g PROVE g = F(g) <=> ProductOf(shape, g, S)
    BY Zenon DEF ProductOf, Pick
  <1>4. \E g : ProductOf(shape, g, S)
    BY <1>2, FoldExists, ProductIsFold
  <1> HIDE DEF F
  <1>5. C = F(C)
    BY <1>3, <1>4, Zenon
  <1>6. ProductOf(shape, C, S)
    BY <1>3, <1>5
  <1> HIDE DEF C
  <1> DEFINE P == {k \in Nat : \A T \in SUBSET S : IsFiniteSet(T) /\ Cardinality(T) = k => C[T] \in Nat}
  <1>7. 0 \in P
    <2>1. SUFFICES ASSUME NEW T \in SUBSET S, IsFiniteSet(T), Cardinality(T) = 0 PROVE C[T] \in Nat
      OBVIOUS
    <2>2. T = {}
      BY <2>1, FS_EmptySet
    <2>3. QED
      BY <1>6, <2>2 DEF ProductOf
  <1>8. ASSUME NEW k \in Nat, k \in P PROVE k + 1 \in P
    <2>1. SUFFICES ASSUME NEW T \in SUBSET S, IsFiniteSet(T), Cardinality(T) = k + 1 PROVE C[T] \in Nat
      OBVIOUS
    <2>2. T # {} /\ Pick(T) \in T
      BY <2>1, NonEmpty, PickOf
    <2>3. IsFiniteSet(T \ {Pick(T)}) /\ Cardinality(T \ {Pick(T)}) = k
      BY <2>1, <2>2, Removed
    <2>4. PICK a \in Nat : a = C[T \ {Pick(T)}]
      BY <1>8, <2>3
    <2>5. PICK b \in Nat : b = shape[Pick(T)]
      BY <2>2
    <2> HIDE DEF S
    <2>6. C[T] = b * a
      BY <1>6, <2>2, <2>4, <2>5, Zenon DEF ProductOf
    <2>7. QED
      BY <2>6
  <1> HIDE DEF P
  <1>9. Nat \subseteq P /\ Cardinality(S) \in Nat
    BY <1>2, <1>7, <1>8, Induct, FS_CardinalityType
  <1>10. C[S] \in Nat
    BY <1>2, <1>9 DEF P
  <1>11. QED
    BY <1>1, <1>10

Entries == [dtype : {"F32", "F16", "BF16"}, shape : Seq(Int), begin : Nat, end : Nat]
WeightFiles ==
    \A f \in Files : f.size \in Nat /\ f.header_len \in Nat /\ f.entries \in Seq(Entries)

\* The files of the checked instances are files.
LEMMA WeightFilesHold == WeightFiles
  <1>1. Word \in Nat \ {0} /\ Loader!FilesAssumption
    BY OperatorsAssumption DEF Loader!WordAssumption
  <1> DEFINE Read == [dtype : {"F32", "F16", "BF16"}, shape : Seq(Int), begin : 0..(Word - 1), end : 0..(Word - 1)]
  <1>2. SUFFICES ASSUME NEW f \in Files
                 PROVE  f.size \in Nat /\ f.header_len \in Nat /\ f.entries \in Seq(Entries)
    BY DEF WeightFiles
  <1>3. {f.size, f.header_len} \subseteq 0..(Word - 1) /\ f.entries \in Seq(Read)
    BY <1>1, <1>2 DEF Loader!FilesAssumption
  <1>4. Read \subseteq Entries
    BY <1>1 DEF Entries
  <1> HIDE DEF Read
  <1>5. f.entries \in Seq(Entries)
    BY <1>3, <1>4
  <1>6. QED
    BY <1>3, <1>5

HeaderOk(f) == f.size >= 8 /\ f.header_len <= f.size - 8 /\ f.parses
Fits(f, e) ==
    LET nbytes == e.end - e.begin
    IN /\ e.end >= e.begin /\ e.end <= f.size - 8 - f.header_len
       /\ \A i \in DOMAIN e.shape : e.shape[i] >= 0
       /\ nbytes % Loader!ElemSize(e.dtype) = 0
       /\ nbytes \div Loader!ElemSize(e.dtype) = Loader!NumElements(e.shape)

\* What the loader asks of an entry, in terms of its spans.
LEMMA FitsIs == ASSUME NEW e PROVE Loader!EntryFits(e) <=> Fits(file, e)
  BY Zenon DEF Loader!EntryFits, Loader!Region, Loader!Prefix, Fits

\* What the format asks of one entry.
EntryValid(f, e) ==
    /\ 0 <= e.begin /\ e.begin <= e.end /\ 8 + f.header_len + e.end <= f.size
    /\ \A d \in DOMAIN e.shape : e.shape[d] >= 0
    /\ Loader!Count(e.shape) * Loader!ElemSize(e.dtype) = e.end - e.begin

\* The loop asks of an entry what the format does, in the order of its integers.
LEMMA FitsExactly ==
  ASSUME NEW f, f.size \in Nat, f.header_len \in Nat, HeaderOk(f),
         NEW e \in Entries, Loader!Count(e.shape) < Word
  PROVE  Fits(f, e) <=> EntryValid(f, e)
  <1>1. PICK z \in {2, 4} : z = Loader!ElemSize(e.dtype)
    BY DEF Loader!ElemSize
  <1>2. e.begin \in Nat /\ e.end \in Nat /\ e.shape \in Seq(Int)
    BY DEF Entries
  <1>3. ASSUME \A i \in DOMAIN e.shape : e.shape[i] >= 0
        PROVE  Loader!Count(e.shape) \in Nat
    <2>1. PICK n \in Nat : n = Len(e.shape)
      BY <1>2
    <2>2. DOMAIN e.shape = 1..n
      BY <1>2, <2>1
    <2>3. \A i \in 1..n : e.shape[i] \in Nat
      BY <1>2, <1>3, <2>1, <2>2
    <2>4. e.shape \in [1..n -> Nat]
      BY <1>2, <2>1, <2>2, <2>3
    <2>5. Loader!Product(e.shape) \in Nat
      BY <2>4, ProductNat
    <2>6. QED
      BY <2>5 DEF Loader!Count
  <1>4. CASE /\ \A i \in DOMAIN e.shape : e.shape[i] >= 0
             /\ e.end >= e.begin
    <2>1. PICK n \in Nat : n = e.end - e.begin
      BY <1>2, <1>4
    <2>2. PICK c \in Nat : c = Loader!Count(e.shape)
      BY <1>3, <1>4
    <2>3. Word \in Nat \ {0}
      BY OperatorsAssumption DEF Loader!WordAssumption
    <2>4. c % Word = c
      BY <2>2, <2>3
    <2>5. Loader!NumElements(e.shape) = c
      BY <2>2, <2>4 DEF Loader!NumElements, Loader!Count
    <2>6. n % z = 0 /\ n \div z = c <=> c * z = n
      BY <1>1
    <2>7. e.end <= f.size - 8 - f.header_len <=> 8 + f.header_len + e.end <= f.size
      BY <1>2
    <2>8. 0 <= e.begin
      BY <1>2
    <2>9. Fits(f, e) <=> e.end <= f.size - 8 - f.header_len /\ n % z = 0 /\ n \div z = c
      BY <1>1, <1>4, <2>1, <2>5, Zenon DEF Fits
    <2>10. e.begin <= e.end
      BY <1>2, <1>4
    <2>11. EntryValid(f, e) <=> 8 + f.header_len + e.end <= f.size /\ c * z = n
      BY <1>1, <1>4, <2>1, <2>2, <2>8, <2>10, Zenon DEF EntryValid
    <2>12. QED
      BY <2>6, <2>7, <2>9, <2>11
  <1>5. CASE ~ (\A i \in DOMAIN e.shape : e.shape[i] >= 0)
    BY <1>5, Zenon DEF Fits, EntryValid
  <1>6. CASE ~ (e.end >= e.begin)
    BY <1>2, <1>6 DEF Fits, EntryValid
  <1>7. QED
    BY <1>4, <1>5, <1>6

NoneMeet(s, n) == \A i, j \in 1..n : i # j => s[i][2] <= s[j][1] \/ s[j][2] <= s[i][1]
NeighboursApart(s, n) == \A i \in 2..n : s[i][1] >= s[i - 1][2]

\* In sorted spans it is enough to compare neighbours.
LEMMA NeighboursSuffice ==
  ASSUME NEW n \in Nat, NEW s \in [1..n -> Pairs], \A i \in 1..n : s[i][1] <= s[i][2],
         NEW p, Sorts(p, s, n), NEW t, t = [i \in 1..n |-> s[p[i]]]
  PROVE  NeighboursApart(t, n) <=> NoneMeet(s, n)
  <1>1. ASSUME NEW i \in 1..n
        PROVE  /\ t[i] = s[p[i]] /\ p[i] \in 1..n
               /\ t[i][1] \in Int /\ t[i][2] \in Int /\ t[i][1] <= t[i][2]
    BY DEF Sorts, Pairs
  <1>2. ASSUME NEW i \in 1..n, NEW j \in 1..n, i < j
        PROVE  t[i][1] < t[j][1] \/ (t[i][1] = t[j][1] /\ t[i][2] <= t[j][2])
    <2>1. ~ Loader!Before(t[j], t[i])
      BY <1>1, <1>2 DEF Sorts
    <2>2. QED
      BY <1>1, <2>1 DEF Loader!Before
  <1>3. NoneMeet(s, n) <=> NoneMeet(t, n)
    <2>1. ASSUME NoneMeet(s, n) PROVE NoneMeet(t, n)
      <3>1. \A i, j \in 1..n : i # j => p[i] # p[j]
        BY DEF Sorts
      <3>2. QED
        BY <1>1, <2>1, <3>1 DEF NoneMeet
    <2>2. ASSUME NoneMeet(t, n) PROVE NoneMeet(s, n)
      <3>1. SUFFICES ASSUME NEW i \in 1..n, NEW j \in 1..n, i # j
                     PROVE  s[i][2] <= s[j][1] \/ s[j][2] <= s[i][1]
        BY DEF NoneMeet
      <3>2. PICK k \in 1..n : p[k] = i
        BY DEF Sorts
      <3>3. PICK l \in 1..n : p[l] = j
        BY DEF Sorts
      <3>4. k # l /\ t[k] = s[i] /\ t[l] = s[j]
        BY <1>1, <3>1, <3>2, <3>3
      <3>5. QED
        BY <2>2, <3>4 DEF NoneMeet
    <2>3. QED
      BY <2>1, <2>2
  <1>4. ASSUME NeighboursApart(t, n) PROVE NoneMeet(t, n)
    <2>1. ASSUME NEW i \in 1..n, NEW j \in 1..n, i < j PROVE t[i][2] <= t[j][1]
      <3>1. i + 1 \in 2..n /\ i + 1 \in 1..n /\ (i + 1) - 1 = i /\ (i + 1 = j \/ i + 1 < j)
        BY <2>1
      <3>2. t[i][2] <= t[i + 1][1]
        BY <1>1, <1>4, <3>1 DEF NeighboursApart
      <3>3. t[i + 1][1] <= t[j][1]
        BY <1>1, <1>2, <3>1
      <3>4. QED
        BY <1>1, <3>1, <3>2, <3>3
    <2>2. \A i, j \in 1..n : i # j => i < j \/ j < i
      OBVIOUS
    <2>3. QED
      BY <2>1, <2>2 DEF NoneMeet
  <1>5. ASSUME NoneMeet(t, n) PROVE NeighboursApart(t, n)
    <2>1. SUFFICES ASSUME NEW j \in 2..n PROVE t[j][1] >= t[j - 1][2]
      BY DEF NeighboursApart
    <2>2. PICK i \in 1..n : i = j - 1 /\ i < j /\ j \in 1..n
      OBVIOUS
    <2>3. t[i][2] <= t[j][1] \/ t[j][2] <= t[i][1]
      BY <1>5, <2>2 DEF NoneMeet
    <2>4. t[i][1] < t[j][1] \/ (t[i][1] = t[j][1] /\ t[i][2] <= t[j][2])
      BY <1>2, <2>2
    <2>5. QED
      BY <1>1, <2>2, <2>3, <2>4
  <1>6. QED
    BY <1>3, <1>4, <1>5

-----------------------------------------------------------------------------
(* The loader: the invariant of parse(). *)

TensorOf(f, e) == [shape |-> e.shape, numel |-> Loader!NumElements(e.shape),
                   value |-> Loader!Stored(e.dtype, f.word)]
SpanOf(e) == <<e.begin, e.end>>
LoaderLabels == {"header", "entry", "overlap", "loaded", "thrown"}

\* What has been accepted: the first entries, each of which fits.
Accepted(f, sp, te, k) ==
    /\ sp \in Seq(Pairs) /\ Len(sp) = k
    /\ te \in Seq({TensorOf(f, e) : e \in Entries}) /\ Len(te) = k
    /\ \A i \in 1..k : /\ Fits(f, f.entries[i])
                       /\ sp[i] = SpanOf(f.entries[i]) /\ te[i] = TensorOf(f, f.entries[i])

\* Why a file is refused.
Overlapping(sp) == \E i \in 2..Len(sp) : Loader!InOrder(sp)[i][1] < Loader!InOrder(sp)[i - 1][2]
Refused(f, sp, n) ==
    \/ ~ HeaderOk(f)
    \/ HeaderOk(f) /\ \E i \in DOMAIN f.entries : ~ Fits(f, f.entries[i])
    \/ HeaderOk(f) /\ n = Len(f.entries) /\ Overlapping(sp)

LoaderInv ==
    /\ file \in Files /\ at \in Nat \ {0} /\ at <= Len(file.entries) + 1
    /\ loader_pc \in LoaderLabels
    /\ Accepted(file, spans, tensors, at - 1)
    /\ loader_pc \in {"entry", "overlap", "loaded"} => HeaderOk(file)
    /\ loader_pc \in {"overlap", "loaded"} => at = Len(file.entries) + 1
    /\ loader_pc = "loaded" =>
         \A i \in 2..Len(spans) : Loader!InOrder(spans)[i][1] >= Loader!InOrder(spans)[i - 1][2]
    /\ loader_pc = "thrown" => Refused(file, spans, at - 1)

\* A load starts in its invariant.
LEMMA LoaderInit == WeightFiles /\ Loader!Init => LoaderInv
  <1>1. SUFFICES ASSUME WeightFiles, Loader!Init PROVE LoaderInv
    OBVIOUS
  <1>2. file \in Files /\ spans = <<>> /\ tensors = <<>> /\ at = 1 /\ loader_pc = "header"
    BY <1>1 DEF Loader!Init
  <1>3. Len(file.entries) \in Nat
    BY <1>1, <1>2 DEF WeightFiles
  <1>4. Accepted(file, <<>>, <<>>, 0)
    BY DEF Accepted
  <1>5. QED
    BY <1>2, <1>3, <1>4 DEF LoaderInv, LoaderLabels

\* The checks of the header keep the invariant.
LEMMA LoaderHeader ==
  ASSUME LoaderInv, Loader!ReadHeader
  PROVE  LoaderInv'
  <1>1. Loader!HeaderFits /\ file.parses <=> HeaderOk(file)
    BY Zenon DEF Loader!HeaderFits, Loader!Prefix, HeaderOk
  <1>2. UNCHANGED <<file, spans, tensors, at>>
    BY DEF Loader!ReadHeader, Loader!Throw
  <1>3. \/ HeaderOk(file) /\ loader_pc' = "entry"
        \/ ~ HeaderOk(file) /\ loader_pc' = "thrown"
    BY <1>1 DEF Loader!ReadHeader, Loader!Throw
  <1>4. file' = file /\ spans' = spans /\ tensors' = tensors /\ at' = at
    BY <1>2
  <1>5. HeaderOk(file)' <=> HeaderOk(file)
    BY <1>4 DEF HeaderOk
  <1>6. Accepted(file, spans, tensors, at - 1)'
    BY <1>4, Zenon DEF LoaderInv
  <1>7. ~ HeaderOk(file) => Refused(file', spans', at' - 1)
    BY <1>4, Zenon DEF Refused
  <1>8. QED
    BY <1>3, <1>4, <1>5, <1>6, <1>7 DEF LoaderInv, LoaderLabels

\* The checks of an entry keep the invariant.
LEMMA LoaderEntry ==
  ASSUME WeightFiles, LoaderInv, Loader!ReadEntry
  PROVE  LoaderInv'
  <1>1. PICK f \in Files : f = file /\ f.entries \in Seq(Entries)
    BY DEF LoaderInv, WeightFiles
  <1>2. PICK k \in Nat : at = k + 1
    BY DEF LoaderInv
  <1>3. loader_pc = "entry" /\ at <= Len(f.entries)
    BY <1>1 DEF Loader!ReadEntry
  <1>4. PICK e \in Entries : e = f.entries[at] /\ at \in DOMAIN f.entries
    BY <1>1, <1>2, <1>3
  <1>5. HeaderOk(f) /\ Accepted(f, spans, tensors, k)
    BY <1>1, <1>2, <1>3 DEF LoaderInv
  <1>6. CASE Fits(f, e)
    <2>1. Loader!EntryFits(Loader!Entry)
      BY <1>1, <1>4, <1>6, FitsIs DEF Loader!Entry
    <2>2. /\ spans' = Append(spans, SpanOf(e)) /\ tensors' = Append(tensors, TensorOf(f, e))
          /\ at' = at + 1 /\ file' = file /\ loader_pc' = loader_pc
      BY <1>1, <1>4, <2>1 DEF Loader!ReadEntry, Loader!Throw, Loader!Entry, TensorOf, SpanOf
    <2>3. SpanOf(e) \in Pairs
      BY DEF SpanOf, Pairs, Entries
    <2>4. TensorOf(f, e) \in {TensorOf(f, d) : d \in Entries}
      OBVIOUS
    <2> DEFINE T == {TensorOf(f, d) : d \in Entries}
    <2>5. spans \in Seq(Pairs) /\ Len(spans) = k /\ tensors \in Seq(T) /\ Len(tensors) = k
      BY <1>5 DEF Accepted
    <2> HIDE DEF T
    <2>6. spans' \in Seq(Pairs) /\ Len(spans') = k + 1 /\ tensors' \in Seq(T) /\ Len(tensors') = k + 1
      BY <2>2, <2>3, <2>4, <2>5 DEF T
    <2>7. ASSUME NEW i \in 1..(k + 1)
          PROVE  /\ Fits(f, f.entries[i])
                 /\ spans'[i] = SpanOf(f.entries[i]) /\ tensors'[i] = TensorOf(f, f.entries[i])
      BY <1>2, <1>4, <1>5, <1>6, <2>2, <2>5 DEF Accepted
    <2>8. Accepted(f, spans', tensors', k + 1)
      BY <2>6, <2>7 DEF Accepted, T
    <2>9. at' - 1 = k + 1 /\ at' \in Nat \ {0} /\ at' <= Len(f.entries) + 1
      BY <1>1, <1>2, <1>3, <2>2
    <2>10. QED
      BY <1>1, <1>3, <1>5, <2>2, <2>8, <2>9 DEF LoaderInv, LoaderLabels
  <1>7. CASE ~ Fits(f, e)
    <2>1. ~ Loader!EntryFits(Loader!Entry)
      BY <1>1, <1>4, <1>7, FitsIs DEF Loader!Entry
    <2>2. /\ file' = file /\ spans' = spans /\ tensors' = tensors /\ at' = at
          /\ loader_pc' = "thrown"
      BY <2>1 DEF Loader!ReadEntry, Loader!Throw
    <2>3. Refused(f, spans, at - 1)
      BY <1>4, <1>5, <1>7 DEF Refused
    <2>4. QED
      BY <1>1, <2>2, <2>3 DEF LoaderInv, LoaderLabels
  <1>8. QED
    BY <1>6, <1>7

\* The end of the entries keeps the invariant.
LEMMA LoaderDone ==
  ASSUME WeightFiles, LoaderInv, Loader!EntriesDone
  PROVE  LoaderInv'
  BY DEF Loader!EntriesDone, LoaderInv, WeightFiles, LoaderLabels

\* The checks of the sorted spans keep the invariant.
LEMMA LoaderOverlap ==
  ASSUME WeightFiles, LoaderInv, Loader!CheckOverlap
  PROVE  LoaderInv'
  <1>1. /\ file' = file /\ spans' = spans /\ tensors' = tensors /\ at' = at
        /\ loader_pc = "overlap"
    BY DEF Loader!CheckOverlap, Loader!Throw
  <1>2. \/ /\ loader_pc' = "loaded"
           /\ \A i \in 2..Len(spans) : Loader!InOrder(spans)[i][1] >= Loader!InOrder(spans)[i - 1][2]
        \/ loader_pc' = "thrown" /\ Overlapping(spans)
    BY DEF Loader!CheckOverlap, Loader!Throw, Overlapping
  <1>3. HeaderOk(file) /\ at = Len(file.entries) + 1
    BY <1>1 DEF LoaderInv
  <1>4. at - 1 = Len(file.entries)
    BY <1>3 DEF LoaderInv, WeightFiles
  <1>5. Overlapping(spans) => Refused(file, spans, at - 1)
    BY <1>3, <1>4 DEF Refused
  <1>6. QED
    BY <1>1, <1>2, <1>3, <1>5 DEF LoaderInv, LoaderLabels

\* Every step of a load keeps the invariant.
LEMMA LoaderNext == WeightFiles /\ LoaderInv /\ [Loader!Next]_(Loader!vars) => LoaderInv'
  <1>1. SUFFICES ASSUME WeightFiles, LoaderInv, [Loader!Next]_(Loader!vars) PROVE LoaderInv'
    OBVIOUS
  <1>2. CASE UNCHANGED Loader!vars \/ Loader!Returned
    BY <1>1, <1>2 DEF Loader!vars, Loader!Returned, LoaderInv
  <1>3. QED
    BY <1>1, <1>2, LoaderHeader, LoaderEntry, LoaderDone, LoaderOverlap DEF Loader!Next

Apart(f) == LET e == f.entries
            IN \A i, j \in DOMAIN e : i # j => e[i].end <= e[j].begin \/ e[j].end <= e[i].begin

\* A valid file is one whose entries fit and whose spans are apart.
LEMMA ValidIs ==
  ASSUME NEW f, f.size \in Nat, f.header_len \in Nat
  PROVE  Loader!Valid(f) <=> /\ HeaderOk(f)
                             /\ \A i \in DOMAIN f.entries : EntryValid(f, f.entries[i])
                             /\ Apart(f)
  BY DEF HeaderOk, Loader!Valid, Loader!Prefix, EntryValid, Apart

\* The invariant accepts the valid files and no others.
LEMMA LoaderExact == WeightFiles /\ LoaderInv => Loader!AcceptsExactly
  <1>1. SUFFICES ASSUME WeightFiles, LoaderInv, Loader!Representable(file)
                 PROVE  /\ loader_pc = "loaded" => Loader!Valid(file)
                        /\ loader_pc = "thrown" => ~ Loader!Valid(file)
    BY DEF Loader!AcceptsExactly
  <1>2. PICK f \in Files : f = file
    BY <1>1 DEF LoaderInv
  <1>3. f.size \in Nat /\ f.header_len \in Nat /\ f.entries \in Seq(Entries)
    BY <1>1 DEF WeightFiles
  <1>4. PICK n \in Nat : n = Len(f.entries)
    BY <1>3
  <1>5. DOMAIN f.entries = 1..n
    BY <1>3, <1>4
  <1>6. ASSUME HeaderOk(f), NEW i \in 1..n
        PROVE  Fits(f, f.entries[i]) <=> EntryValid(f, f.entries[i])
    BY <1>1, <1>2, <1>3, <1>5, <1>6, FitsExactly DEF Loader!Representable
  <1>7. Accepted(f, spans, tensors, at - 1)
    BY <1>1, <1>2 DEF LoaderInv
  <1>8. ASSUME HeaderOk(f), at - 1 = n
        PROVE  /\ \A i \in 1..n : EntryValid(f, f.entries[i])
               /\ Len(spans) = n
               /\ (\A i \in 2..n : Loader!InOrder(spans)[i][1] >= Loader!InOrder(spans)[i - 1][2]) <=> Apart(f)
               /\ \A i \in 2..n : /\ Loader!InOrder(spans)[i][1] \in Int
                                  /\ Loader!InOrder(spans)[i - 1][2] \in Int
    <2>1. spans \in Seq(Pairs) /\ Len(spans) = n
      BY <1>7, <1>8 DEF Accepted
    <2>2. \A i \in 1..n : Fits(f, f.entries[i]) /\ spans[i] = SpanOf(f.entries[i])
      BY <1>7, <1>8, Zenon DEF Accepted
    <2>3. \A i \in 1..n : EntryValid(f, f.entries[i])
      BY <1>6, <1>8, <2>2
    <2>4. ASSUME NEW i \in 1..n
          PROVE  /\ spans[i][1] = f.entries[i].begin /\ spans[i][2] = f.entries[i].end
                 /\ spans[i][1] <= spans[i][2]
      BY <2>2, <2>3 DEF SpanOf, EntryValid
    <2>5. spans \in [1..n -> Pairs]
      BY <2>1
    <2>6. PICK p : Sorts(p, spans, n) /\ Loader!InOrder(spans) = [i \in 1..n |-> spans[p[i]]]
      BY <2>5, InOrderSorts
    <2>7. NeighboursApart(Loader!InOrder(spans), n) <=> NoneMeet(spans, n)
      BY <2>4, <2>5, <2>6, NeighboursSuffice
    <2>8. NoneMeet(spans, n) <=> Apart(f)
      BY <1>5, <2>4, ZenonT(60) DEF NoneMeet, Apart
    <2>9. ASSUME NEW i \in 1..n
          PROVE  Loader!InOrder(spans)[i][1] \in Int /\ Loader!InOrder(spans)[i][2] \in Int
      <3>1. p[i] \in 1..n
        BY <2>6 DEF Sorts
      <3>2. Loader!InOrder(spans)[i] = spans[p[i]]
        BY <2>6
      <3>3. spans[p[i]] \in Pairs
        BY <2>5, <3>1
      <3>4. QED
        BY <3>2, <3>3 DEF Pairs
    <2>10. \A i \in 2..n : i \in 1..n /\ i - 1 \in 1..n
      OBVIOUS
    <2>11. QED
      BY <2>1, <2>3, <2>7, <2>8, <2>9, <2>10 DEF NeighboursApart
  <1>9. ASSUME loader_pc = "loaded" PROVE Loader!Valid(f)
    <2>1. HeaderOk(f) /\ at - 1 = n
      BY <1>1, <1>2, <1>4, <1>9 DEF LoaderInv
    <2>2. \A i \in 2..n : Loader!InOrder(spans)[i][1] >= Loader!InOrder(spans)[i - 1][2]
      BY <1>1, <1>8, <1>9, <2>1 DEF LoaderInv
    <2>3. QED
      BY <1>3, <1>5, <1>8, <2>1, <2>2, ValidIs
  <1>10. ASSUME loader_pc = "thrown" PROVE ~ Loader!Valid(f)
    <2>1. Refused(f, spans, at - 1)
      BY <1>1, <1>2, <1>10 DEF LoaderInv
    <2>2. CASE ~ HeaderOk(f)
      BY <1>3, <2>2, ValidIs
    <2>3. CASE HeaderOk(f) /\ \E i \in DOMAIN f.entries : ~ Fits(f, f.entries[i])
      BY <1>3, <1>5, <1>6, <2>3, ValidIs
    <2>4. CASE HeaderOk(f) /\ at - 1 = n /\ Overlapping(spans)
      BY <1>3, <1>8, <2>4, ValidIs DEF Overlapping
    <2>5. QED
      BY <1>4, <2>1, <2>2, <2>3, <2>4 DEF Refused
  <1>11. QED
    BY <1>2, <1>9, <1>10

HalfWords == \A f \in Files : f.word \in Halves

\* A parsed file is one of the files, so its words are halves.
LEMMA HalfWordsHold == HalfWords
  BY OperatorsAssumption, Zenon DEF Loader!FilesAssumption, HalfWords, Halves

\* What a load returns are the values of its halves and bfloat16s.
LEMMA LoaderWidens == Formats /\ HalfWords /\ LoaderInv => Loader!WidensExactly
  <1>1. SUFFICES ASSUME Formats, HalfWords, LoaderInv, NEW i \in DOMAIN tensors
                 PROVE  /\ file.entries[i].dtype = "F16"
                             => Loader!SameValue(file.word, tensors[i].value)
                        /\ file.entries[i].dtype = "BF16"
                             => Loader!SameUpperBits(file.word, tensors[i].value)
    BY DEF Loader!WidensExactly
  <1>2. PICK k \in Nat : k = at - 1
    BY <1>1 DEF LoaderInv
  <1>3. Accepted(file, spans, tensors, k) /\ file \in Files
    BY <1>1, <1>2 DEF LoaderInv
  <1>4. i \in 1..k
    BY <1>2, <1>3 DEF Accepted
  <1>5. tensors[i] = TensorOf(file, file.entries[i])
    BY <1>3, <1>4 DEF Accepted
  <1>6. tensors[i].value = Loader!Stored(file.entries[i].dtype, file.word)
    BY <1>5 DEF TensorOf
  <1>7. file.word \in Halves
    BY <1>1, <1>3 DEF HalfWords
  <1>8. QED
    BY <1>1, <1>6, <1>7, Widens, BrainWidens DEF Loader!Stored

\* A run on the subject is a run of its module.
LEMMA LoaderRuns ==
  /\ Init => (subject = "loader" => Loader!Init)
  /\ [Next]_allVars => UNCHANGED subject
                       /\ (subject = "loader" => [Loader!Next]_(Loader!vars))
  BY DEF Init, allVars, loaderVars, Loader!vars, Next

\* SafeTensors::parse() loads a file exactly when its header is whole, each tensor lies
\* in the data region, holds what its shape says and meets no other: comparing
\* neighbours of the sorted spans is enough for any number of tensors, and the wrapping
\* product of a shape lets nothing through that the integers can count.
THEOREM ParseAcceptsExactly == Spec => []AcceptsExactly
  <1> DEFINE Inv == subject = "loader" => LoaderInv
  <1>1. WeightFiles
    BY WeightFilesHold
  <1>2. Init => Inv
    BY <1>1, LoaderInit, LoaderRuns
  <1>3. Inv /\ [Next]_allVars => Inv'
    BY <1>1, LoaderNext, LoaderRuns
  <1>4. Inv => AcceptsExactly
    BY <1>1, LoaderExact DEF AcceptsExactly
  <1>5. QED
    BY <1>2, <1>3, <1>4, PTL DEF Spec

\* f16_to_f32() gives a float the value of its half, zeros, subnormals, infinities and
\* NaNs included, for every half and for mantissas of any width the exponent can hold, and
\* bf16_to_f32() keeps its word as the upper bits of the float.
THEOREM HalvesWidenExactly == Spec => []WidensExactly
  <1> DEFINE Inv == subject = "loader" => LoaderInv
  <1>1. WeightFiles /\ HalfWords /\ Formats
    BY WeightFilesHold, HalfWordsHold, FormatsHold
  <1>2. Init => Inv
    BY <1>1, LoaderInit, LoaderRuns
  <1>3. Inv /\ [Next]_allVars => Inv'
    BY <1>1, LoaderNext, LoaderRuns
  <1>4. Inv => WidensExactly
    BY <1>1, LoaderWidens DEF WidensExactly
  <1>5. QED
    BY <1>2, <1>3, <1>4, PTL DEF Spec

-----------------------------------------------------------------------------
(* The sampler: weights and their sums. *)

Vectors(v) == [0..(v - 1) -> Nat]
GreatestLogit(l) == Sampling!Max(Sampling!Range(l))
WeightIn(l, t) == 2^Underflow \div 2^(GreatestLogit(l) - l[t])
Weights(l) == [t \in DOMAIN l |-> WeightIn(l, t)]
Ranks(o, n) == {o[i] : i \in 1..n}
Cum(l, o, n) == Total(Weights(l), Ranks(o, n))

\* Some token has the greatest logit.
LEMMA GreatestLogitIs ==
  ASSUME NEW v \in Nat \ {0}, NEW l \in Vectors(v)
  PROVE  /\ GreatestLogit(l) \in Nat
         /\ \A t \in 0..(v - 1) : l[t] <= GreatestLogit(l)
         /\ \E t \in 0..(v - 1) : l[t] = GreatestLogit(l)
  <1>1. PICK n \in Nat : n = v - 1
    OBVIOUS
  <1>2. l \in [0..n -> Nat]
    BY <1>1 DEF Vectors
  <1>3. \A i \in 0..n : l[i] \in Int
    BY <1>2
  <1>4. PICK i \in 0..n : \A j \in 0..n : l[j] <= l[i]
    BY <1>3, GreatestOf
  <1> DEFINE R == {l[t] : t \in DOMAIN l}
  <1>5. GreatestLogit(l) = CHOOSE a \in R : \A b \in R : a >= b
    BY Zenon DEF GreatestLogit, Sampling!Max, Sampling!Range
  <1>6. DOMAIN l = 0..n
    BY <1>2
  <1>7. l[i] \in R /\ \A b \in R : l[i] >= b
    BY <1>2, <1>4, <1>6
  <1>8. GreatestLogit(l) \in R /\ \A b \in R : GreatestLogit(l) >= b
    BY <1>5, <1>7, Zenon
  <1>9. QED
    BY <1>1, <1>2, <1>6, <1>8

\* A smaller divisor leaves no smaller a quotient.
LEMMA QuotientGrows ==
  ASSUME NEW a \in Nat, NEW b \in Nat \ {0}, NEW c \in Nat \ {0}, c <= b
  PROVE  a \div b \in Nat /\ a \div c \in Nat /\ a \div b <= a \div c
  <1>1. PICK x1 \in Nat : x1 = a \div b
    BY SMT
  <1>2. PICK y1 \in Nat : y1 = a \div c
    BY SMT
  <1>3. b * x1 <= a
    BY <1>1, SMT
  <1>4. a < c * y1 + c
    BY <1>2, SMT
  <1>5. c * x1 <= b * x1
    BY SMT
  <1>6. x1 <= y1
    <2>1. SUFFICES ASSUME y1 + 1 <= x1 PROVE FALSE
      OBVIOUS
    <2>2. c * (y1 + 1) <= c * x1
      BY <2>1, SMT
    <2>3. c * (y1 + 1) = c * y1 + c
      OBVIOUS
    <2>4. c * y1 \in Nat /\ c * x1 \in Nat /\ b * x1 \in Nat
      OBVIOUS
    <2>5. QED
      BY <1>3, <1>4, <1>5, <2>2, <2>3, <2>4
  <1>7. QED
    BY <1>1, <1>2, <1>6

\* Weights are numbers, a greater logit has no smaller one and the greatest a positive one.
LEMMA WeightsOrdered ==
  ASSUME NEW v \in Nat \ {0}, NEW l \in Vectors(v)
  PROVE  /\ DOMAIN Weights(l) = 0..(v - 1)
         /\ \A t \in 0..(v - 1) : Weights(l)[t] \in Nat
         /\ \A a, b \in 0..(v - 1) : l[a] >= l[b] => Weights(l)[a] >= Weights(l)[b]
         /\ \A t \in 0..(v - 1) : l[t] = GreatestLogit(l) => Weights(l)[t] > 0
  <1>1. DOMAIN l = 0..(v - 1) /\ \A t \in 0..(v - 1) : l[t] \in Nat
    BY DEF Vectors
  <1>2. PICK m \in Nat : m = GreatestLogit(l)
    BY GreatestLogitIs
  <1>3. \A t \in 0..(v - 1) : m - l[t] \in Nat
    BY <1>1, <1>2, GreatestLogitIs
  <1>4. Underflow \in Nat
    BY OperatorsAssumption DEF Sampling!SamplerAssumption
  <1>5. PICK u \in Nat \ {0} : u = 2^Underflow
    BY <1>4, PowPositive
  <1>6. DOMAIN Weights(l) = 0..(v - 1) /\ \A t \in 0..(v - 1) : Weights(l)[t] = u \div 2^(m - l[t])
    BY <1>1, <1>2, <1>5, Zenon DEF Weights, WeightIn
  <1>7. ASSUME NEW t \in 0..(v - 1) PROVE Weights(l)[t] \in Nat
    <2>1. PICK d \in Nat \ {0} : d = 2^(m - l[t])
      BY <1>3, PowPositive
    <2>2. u \div d \in Nat
      BY SMT
    <2>3. QED
      BY <1>6, <2>1, <2>2
  <1>8. ASSUME NEW a \in 0..(v - 1), NEW b \in 0..(v - 1), l[a] >= l[b]
        PROVE  Weights(l)[a] >= Weights(l)[b]
    <2>1. PICK d \in Nat \ {0} : d = 2^(m - l[a])
      BY <1>3, PowPositive
    <2>2. PICK e \in Nat \ {0} : e = 2^(m - l[b])
      BY <1>3, PowPositive
    <2>3. m - l[a] <= m - l[b]
      BY <1>1, <1>8
    <2>4. d <= e
      BY <1>3, <2>1, <2>2, <2>3, PowGrows
    <2>5. u \div e <= u \div d /\ u \div e \in Nat /\ u \div d \in Nat
      BY <2>4, QuotientGrows
    <2>6. QED
      BY <1>6, <2>1, <2>2, <2>5
  <1>9. ASSUME NEW t \in 0..(v - 1), l[t] = m PROVE Weights(l)[t] > 0
    <2>1. m - l[t] = 0
      BY <1>1, <1>9
    <2>2. 2^(m - l[t]) = 1
      BY <2>1, PowZero
    <2>3. u \div 1 = u
      OBVIOUS
    <2>4. QED
      BY <1>6, <2>2, <2>3
  <1>10. QED
    BY <1>2, <1>6, <1>7, <1>8, <1>9

\* The sums of the sampler are sums over sets.
LEMMA SumIsTotal ==
  ASSUME NEW f, NEW S, IsFiniteSet(S)
  PROVE  Sampling!SumFunctionOnSet(f, S) = Total(f, S)
  <1> DEFINE F(g) == [s \in SUBSET S |->
                        IF s = {} THEN 0
                        ELSE f[CHOOSE e \in s : TRUE] + g[s \ {CHOOSE e \in s : TRUE}]]
             C == CHOOSE g : g = F(g)
  <1>1. Sampling!SumFunctionOnSet(f, S) = C[S]
    BY Zenon DEF Sampling!SumFunctionOnSet, Sampling!FoldFunctionOnSet, Sampling!MapThenFoldSet
  <1>2. ASSUME NEW g PROVE g = F(g) <=> SumOf(f, g, S)
    BY Zenon DEF SumOf, Pick
  <1>3. \E g : SumOf(f, g, S)
    BY SumExists
  <1> HIDE DEF F
  <1>4. C = F(C)
    BY <1>2, <1>3, Zenon
  <1> DEFINE D == CHOOSE g : SumOf(f, g, S)
  <1>5. SumOf(f, C, S) /\ SumOf(f, D, S)
    BY <1>2, <1>3, <1>4, Zenon
  <1>6. Total(f, S) = D[S] /\ S \subseteq S
    BY DEF Total
  <1> HIDE DEF C, D
  <1>7. C[S] = D[S]
    BY <1>5, <1>6, SumUnique
  <1>8. QED
    BY <1>1, <1>6, <1>7

\* The mass of a set of tokens is the sum of their weights.
LEMMA MassIs ==
  ASSUME NEW S, IsFiniteSet(S) PROVE Sampling!Mass(S) = Total(Weights(logits), S)
  <1>1. [t \in Sampling!Tokens |-> Sampling!Weight(t)] = Weights(logits)
    BY Zenon DEF Sampling!Tokens, Sampling!Weight, Weights, WeightIn, GreatestLogit
  <1>2. QED
    BY <1>1, SumIsTotal, Zenon DEF Sampling!Mass

\* The tokens by rank: every token has one, and no logit is greater than one before it.
Sorted(l, o, v) == /\ o \in [1..v -> 0..(v - 1)]
                   /\ \A i, j \in 1..v : o[i] = o[j] => i = j
                   /\ \A t \in 0..(v - 1) : \E i \in 1..v : o[i] = t
                   /\ \A i, j \in 1..v : i < j => l[o[i]] >= l[o[j]]

\* The first ranks are finitely many tokens.
LEMMA RanksFinite ==
  ASSUME NEW o, NEW n \in Nat
  PROVE  IsFiniteSet(Ranks(o, n))
  <1> DEFINE P == {k \in Nat : IsFiniteSet(Ranks(o, k))}
  <1>1. 0 \in P
    BY FS_EmptySet DEF Ranks
  <1>2. ASSUME NEW k \in Nat, k \in P PROVE k + 1 \in P
    BY <1>2, FS_AddElement DEF Ranks
  <1> HIDE DEF P
  <1>3. n \in P
    BY <1>1, <1>2, Induct
  <1>4. QED
    BY <1>3 DEF P

\* The cumulated weight grows by one weight at a time.
LEMMA CumIs ==
  ASSUME NEW n \in Nat PROVE Sampling!Cumulative(n) = Cum(logits, order, n)
  BY RanksFinite, MassIs DEF Sampling!Ranked, Ranks, Sampling!Cumulative, Cum

\* One more rank adds its weight.
LEMMA CumStep ==
  ASSUME NEW v \in Nat \ {0}, NEW l \in Vectors(v), NEW o, Sorted(l, o, v), NEW n \in Nat, n < v
  PROVE  /\ n + 1 \in 1..v /\ o[n + 1] \in 0..(v - 1)
         /\ Cum(l, o, n + 1) = Cum(l, o, n) + Weights(l)[o[n + 1]]
         /\ Ranks(o, n + 1) = Ranks(o, n) \cup {o[n + 1]} /\ o[n + 1] \notin Ranks(o, n)
  <1>1. n + 1 \in 1..v /\ o[n + 1] \in 0..(v - 1)
    BY DEF Sorted
  <1>2. Ranks(o, n + 1) = Ranks(o, n) \cup {o[n + 1]}
    BY DEF Ranks
  <1>3. o[n + 1] \notin Ranks(o, n)
    BY <1>1 DEF Ranks, Sorted
  <1>4. Ranks(o, n + 1) \subseteq 0..(v - 1)
    BY DEF Ranks, Sorted
  <1>5. \A t \in Ranks(o, n + 1) : Weights(l)[t] \in Int
    BY <1>4, WeightsOrdered
  <1>6. IsFiniteSet(Ranks(o, n + 1)) /\ o[n + 1] \in Ranks(o, n + 1)
    BY <1>2, RanksFinite
  <1>7. Total(Weights(l), Ranks(o, n + 1))
          = Weights(l)[o[n + 1]] + Total(Weights(l), Ranks(o, n + 1) \ {o[n + 1]})
    BY <1>5, <1>6, TotalStep
  <1>8. Ranks(o, n + 1) \ {o[n + 1]} = Ranks(o, n)
    BY <1>2, <1>3
  <1>9. Total(Weights(l), Ranks(o, n)) \in Int
    BY <1>2, <1>5, RanksFinite, TotalInt
  <1>10. Weights(l)[o[n + 1]] \in Int
    BY <1>5, <1>6
  <1>11. Cum(l, o, n + 1) = Cum(l, o, n) + Weights(l)[o[n + 1]]
    <2>1. PICK a \in Int : a = Total(Weights(l), Ranks(o, n))
      BY <1>9
    <2>2. PICK b \in Int : b = Weights(l)[o[n + 1]]
      BY <1>10
    <2>3. Total(Weights(l), Ranks(o, n + 1)) = b + a
      BY <1>7, <1>8, <2>1, <2>2
    <2>4. Cum(l, o, n + 1) = b + a /\ Cum(l, o, n) = a
      BY <2>1, <2>3, Zenon DEF Cum
    <2>5. QED
      BY <2>2, <2>4
  <1>12. QED
    BY <1>1, <1>2, <1>3, <1>11

\* A cumulated weight is a number.
LEMMA CumNat ==
  ASSUME NEW v \in Nat \ {0}, NEW l \in Vectors(v), NEW o, Sorted(l, o, v)
  PROVE  /\ Cum(l, o, 0) = 0
         /\ \A n \in 0..v : Cum(l, o, n) \in Nat
         /\ \A m, n \in 0..v : m <= n => Cum(l, o, m) <= Cum(l, o, n)
         /\ \A n \in 1..v : Cum(l, o, n) > 0
  <1>1. Cum(l, o, 0) = 0
    <2>1. Ranks(o, 0) = {}
      BY DEF Ranks
    <2>2. QED
      BY <2>1, TotalOf, FS_EmptySet DEF Cum
  <1> DEFINE P == {n \in Nat : n <= v => /\ Cum(l, o, n) \in Nat
                                         /\ \A m \in 0..n : Cum(l, o, m) <= Cum(l, o, n)}
  <1>2. 0 \in P
    BY <1>1
  <1>3. ASSUME NEW n \in Nat, n \in P PROVE n + 1 \in P
    <2>1. SUFFICES ASSUME n + 1 <= v
                   PROVE  /\ Cum(l, o, n + 1) \in Nat
                          /\ \A m \in 0..(n + 1) : Cum(l, o, m) <= Cum(l, o, n + 1)
      OBVIOUS
    <2>2. Cum(l, o, n) \in Nat /\ \A m \in 0..n : Cum(l, o, m) <= Cum(l, o, n)
      BY <1>3, <2>1
    <2>3. n < v
      BY <2>1
    <2>4. Cum(l, o, n + 1) = Cum(l, o, n) + Weights(l)[o[n + 1]] /\ Weights(l)[o[n + 1]] \in Nat
      <3>1. Cum(l, o, n + 1) = Cum(l, o, n) + Weights(l)[o[n + 1]] /\ o[n + 1] \in 0..(v - 1)
        BY <2>3, CumStep
      <3>2. Weights(l)[o[n + 1]] \in Nat
        BY <3>1, WeightsOrdered
      <3>3. QED
        BY <3>1, <3>2
    <2>5. \A m \in 0..n : Cum(l, o, m) \in Int
      <3>1. ASSUME NEW m \in 0..n PROVE Cum(l, o, m) \in Int
        <4>1. Ranks(o, m) \subseteq 0..(v - 1)
          BY <2>1 DEF Ranks, Sorted
        <4>2. \A t \in Ranks(o, m) : Weights(l)[t] \in Int
          BY <4>1, WeightsOrdered
        <4>3. QED
          BY <4>2, RanksFinite, TotalInt DEF Cum
      <3>2. QED
        BY <3>1
    <2>6. \A m \in 0..(n + 1) : m \in 0..n \/ m = n + 1
      OBVIOUS
    <2>7. QED
      BY <2>2, <2>4, <2>5, <2>6
  <1> HIDE DEF P
  <1>4. Nat \subseteq P
    BY <1>2, <1>3, Induct
  <1>5. \A n \in 0..v : Cum(l, o, n) \in Nat /\ \A m \in 0..n : Cum(l, o, m) <= Cum(l, o, n)
    BY <1>4 DEF P
  <1>6. Cum(l, o, 1) > 0
    <2>1. 0 < v
      OBVIOUS
    <2>2. Cum(l, o, 0 + 1) = Cum(l, o, 0) + Weights(l)[o[0 + 1]] /\ o[0 + 1] \in 0..(v - 1)
      BY <2>1, CumStep
    <2>3. PICK t \in 0..(v - 1) : l[t] = GreatestLogit(l)
      BY GreatestLogitIs
    <2>4. PICK i \in 1..v : o[i] = t
      BY DEF Sorted
    <2>5. l[o[1]] >= l[o[i]]
      <3>1. 1 \in 1..v /\ (1 < i \/ i = 1) /\ l[o[1]] \in Nat
        BY <2>2 DEF Vectors
      <3>2. QED
        BY <3>1 DEF Sorted
    <2>6. o[1] \in 0..(v - 1)
      BY <2>2
    <2>7. Weights(l)[o[1]] \in Nat /\ Weights(l)[t] \in Nat /\ Weights(l)[t] > 0
      BY <2>3, <2>6, WeightsOrdered
    <2>8. Weights(l)[o[1]] >= Weights(l)[t]
      BY <2>4, <2>5, <2>6, WeightsOrdered, Zenon
    <2>9. QED
      BY <1>1, <2>2, <2>7, <2>8
  <1>7. \A n \in 1..v : Cum(l, o, n) > 0
    BY <1>5, <1>6
  <1>8. \A m, n \in 0..v : m <= n => m \in 0..n
    OBVIOUS
  <1>9. QED
    BY <1>1, <1>5, <1>7, <1>8

-----------------------------------------------------------------------------
(* The sampler: its invariant, with every result a function of the inputs. *)

\* Both modules count sets alike.
LEMMA SamplerCounts ==
  ASSUME NEW v \in Nat, NEW l \in Vectors(v)
  PROVE  Sampling!Cardinality(DOMAIN l) = v
  <1>1. Sampling!Cardinality(DOMAIN l) = Cardinality(DOMAIN l)
    BY Zenon DEF Sampling!Cardinality, Cardinality
  <1>2. DOMAIN l = 0..(v - 1)
    BY DEF Vectors
  <1>3. Cardinality(0..(v - 1)) = v
    BY FS_Interval
  <1>4. QED
    BY <1>1, <1>2, <1>3

\* The first rank of R, or else the last of all.
First(n, R) == IF R = {} THEN n ELSE Sampling!Min(R)

\* The least of some ranks is one of them.
LEMMA FirstIs ==
  ASSUME NEW n \in Nat \ {0}, NEW R \in SUBSET (1..n)
  PROVE  /\ First(n, R) \in 1..n
         /\ R # {} => First(n, R) \in R /\ \A i \in R : First(n, R) <= i
  <1>1. CASE R = {}
    BY <1>1 DEF First
  <1>2. CASE R # {}
    <2>1. R \in SUBSET Nat
      OBVIOUS
    <2>2. \E a \in R : \A b \in R : a <= b
      BY <1>2, <2>1, LeastOf
    <2>3. First(n, R) = CHOOSE a \in R : \A b \in R : a <= b
      BY <1>2, Zenon DEF First, Sampling!Min
    <2>4. First(n, R) \in R /\ \A b \in R : First(n, R) <= b
      BY <2>2, <2>3, Zenon
    <2>5. QED
      BY <2>4
  <1>3. QED
    BY <1>1, <1>2

KeptOf(pa, v) == IF pa.top_k > 0 /\ pa.top_k < v THEN pa.top_k ELSE v
Enough(l, o, pa, k) == {i \in 1..k : Cum(l, o, i) * Parts >= pa.top_p * Cum(l, o, k)}
NucleusOf(l, o, pa, k) == IF pa.top_p < Parts THEN First(k, Enough(l, o, pa, k)) ELSE k
Reaching(l, o, n, u) == {i \in 1..n : u * Cum(l, o, n) <= Draws * Cum(l, o, i)}
DrawnAt(l, o, n, u) == o[First(n, Reaching(l, o, n, u))]

SamplerLabels == {"sample", "top_k", "top_p", "draw", "done", "thrown"}
InRank(l, o) == \E v \in Nat \ {0} : l \in Vectors(v) /\ Sorted(l, o, v)
Keeps(l, o, pa, k) == \E v \in Nat \ {0} : l \in Vectors(v) /\ Sorted(l, o, v) /\ k = KeptOf(pa, v)
Draws1(l, o, n, t) == \E u \in 0..(Draws - 1) : t = DrawnAt(l, o, n, u)

SamplerInv ==
    /\ \E v \in Nat : logits \in Vectors(v)
    /\ params \in Sampling!Params /\ sampler_pc \in SamplerLabels
    /\ sampler_pc = "top_k" => InRank(logits, order)
    /\ sampler_pc = "top_p" => Keeps(logits, order, params, keep)
    /\ sampler_pc = "draw" \/ (sampler_pc = "done" /\ ~ params.greedy) =>
         Keeps(logits, order, params, keep) /\ nucleus = NucleusOf(logits, order, params, keep)
    /\ sampler_pc = "done" /\ ~ params.greedy => Draws1(logits, order, nucleus, token)

\* The sampler starts in its invariant.
LEMMA SamplerInit == Sampling!Init => SamplerInv
  <1>1. SUFFICES ASSUME Sampling!Init PROVE SamplerInv
    OBVIOUS
  <1>2. PICK v \in SamplerWidths : logits \in [0..(v - 1) -> SamplerLogits]
    BY <1>1 DEF Sampling!Init
  <1>3. v \in Nat /\ SamplerLogits \subseteq Nat
    BY OperatorsAssumption DEF Sampling!SamplerAssumption
  <1>4. logits \in Vectors(v)
    BY <1>2, <1>3 DEF Vectors
  <1>5. params \in Sampling!Params /\ sampler_pc = "sample"
    BY <1>1 DEF Sampling!Init
  <1>6. QED
    BY <1>3, <1>4, <1>5 DEF SamplerInv, SamplerLabels

\* Between one token and all of them are kept.
LEMMA KeptRange ==
  ASSUME NEW v \in Nat \ {0}, NEW pa \in Sampling!Params
  PROVE  KeptOf(pa, v) \in 1..v /\ pa.top_p \in Nat /\ pa.top_p <= Parts /\ pa.top_k \in Int
  <1>1. pa.top_k \in Int /\ pa.top_p \in Nat /\ pa.top_p <= Parts
    <2>1. pa.top_k \in TopKs /\ pa.top_p \in 0..Parts
      BY DEF Sampling!Params
    <2>2. TopKs \subseteq Int /\ Parts \in Nat
      BY OperatorsAssumption DEF Sampling!SamplerAssumption
    <2>3. pa.top_k \in Int
      BY <2>1, <2>2, Zenon
    <2>4. PICK n \in Nat : n = Parts
      BY <2>2
    <2>5. pa.top_p \in 0..n
      BY <2>1, <2>4
    <2>6. pa.top_p \in Nat /\ pa.top_p <= n
      BY <2>5
    <2>7. QED
      BY <2>3, <2>4, <2>6
  <1>2. QED
    BY <1>1 DEF KeptOf

\* Sorting keeps the invariant.
LEMMA SamplerSort ==
  ASSUME SamplerInv, Sampling!Sort
  PROVE  SamplerInv'
  <1>1. PICK v \in Nat : logits \in Vectors(v)
    BY DEF SamplerInv
  <1>2. DOMAIN logits = 0..(v - 1)
    BY <1>1 DEF Vectors
  <1>3. Sampling!vocab = v
    BY <1>1, SamplerCounts DEF Sampling!vocab, Sampling!Tokens
  <1>4. v # 0
    BY <1>3 DEF Sampling!Sort
  <1>5. PICK p \in Sampling!Bijection(1..v, 0..(v - 1)) :
          /\ \A i, j \in 1..v : i < j => logits[p[i]] >= logits[p[j]]
          /\ order' = p
    BY <1>2, <1>3, Zenon DEF Sampling!Sort, Sampling!Tokens
  <1>6. Sorted(logits, p, v)
    BY <1>5 DEF Sorted, Sampling!Bijection, Sampling!Injection, Sampling!Surjection, Sampling!IsInjective
  <1>7. /\ logits' = logits /\ params' = params /\ sampler_pc' = "top_k"
    BY DEF Sampling!Sort
  <1>8. InRank(logits', order')
    BY <1>1, <1>4, <1>5, <1>6, <1>7 DEF InRank
  <1>9. QED
    BY <1>1, <1>7, <1>8 DEF SamplerInv, SamplerLabels

\* Cutting to the first k keeps the invariant.
LEMMA SamplerTopK ==
  ASSUME SamplerInv, Sampling!TopK
  PROVE  SamplerInv'
  <1>1. /\ logits' = logits /\ params' = params /\ order' = order /\ sampler_pc = "top_k"
        /\ sampler_pc' = "top_p" /\ keep' = Sampling!Kept
    BY DEF Sampling!TopK
  <1>2. PICK v \in Nat \ {0} : logits \in Vectors(v) /\ Sorted(logits, order, v)
    BY <1>1 DEF SamplerInv, InRank
  <1>3. Sampling!vocab = v
    BY <1>2, SamplerCounts DEF Sampling!vocab, Sampling!Tokens
  <1>4. Sampling!Kept = KeptOf(params, v)
    BY <1>3, Zenon DEF Sampling!Kept, KeptOf
  <1>5. Keeps(logits', order', params', keep')
    BY <1>1, <1>2, <1>4 DEF Keeps
  <1>6. QED
    BY <1>1, <1>5 DEF SamplerInv, SamplerLabels

\* Cutting to the nucleus keeps the invariant.
LEMMA SamplerTopP ==
  ASSUME SamplerInv, Sampling!TopP
  PROVE  SamplerInv'
  <1>1. /\ logits' = logits /\ params' = params /\ order' = order /\ keep' = keep
        /\ sampler_pc = "top_p" /\ sampler_pc' = "draw"
        /\ nucleus' = IF params.top_p < Parts THEN Sampling!FirstRank(keep, Sampling!Reached) ELSE keep
    BY DEF Sampling!TopP
  <1>2. Keeps(logits, order, params, keep)
    BY <1>1 DEF SamplerInv
  <1>3. keep \in Nat
    BY <1>2, KeptRange DEF Keeps, SamplerInv
  <1>4. ASSUME NEW i \in 1..keep
        PROVE  Sampling!Reached(i) <=> Cum(logits, order, i) * Parts >= params.top_p * Cum(logits, order, keep)
    BY <1>3, CumIs DEF Sampling!Reached
  <1>5. {i \in 1..keep : Sampling!Reached(i)} = Enough(logits, order, params, keep)
    BY <1>4, Zenon DEF Enough
  <1>6. Sampling!FirstRank(keep, Sampling!Reached) = First(keep, {i \in 1..keep : Sampling!Reached(i)})
    BY Zenon DEF Sampling!FirstRank, First
  <1>7. nucleus' = NucleusOf(logits, order, params, keep)
    BY <1>1, <1>5, <1>6, Zenon DEF NucleusOf
  <1>8. Keeps(logits', order', params', keep') /\ nucleus' = NucleusOf(logits', order', params', keep')
    BY <1>1, <1>2, <1>7
  <1>9. QED
    BY <1>1, <1>8 DEF SamplerInv, SamplerLabels

\* Where a draw ends up.
LEMMA DrawnIs ==
  ASSUME nucleus \in Nat, NEW u
  PROVE  Sampling!Drawn(u) = DrawnAt(logits, order, nucleus, u)
  BY CumIs DEF Reaching, Sampling!Drawn, Sampling!FirstRank, DrawnAt, First

\* The nucleus ends at one of the kept ranks.
LEMMA NucleusRange ==
  ASSUME NEW l, NEW o, NEW pa, NEW k \in Nat \ {0}
  PROVE  NucleusOf(l, o, pa, k) \in 1..k
  BY FirstIs DEF Enough, NucleusOf

\* A draw keeps the invariant.
LEMMA SamplerDraw ==
  ASSUME SamplerInv, Sampling!Draw
  PROVE  SamplerInv'
  BY KeptRange, NucleusRange, DrawnIs DEF Sampling!Draw, SamplerInv, Keeps, Draws1, SamplerLabels

\* Every step of the sampler keeps the invariant.
LEMMA SamplerNext == SamplerInv /\ [Sampling!Next]_(Sampling!vars) => SamplerInv'
  <1>1. SUFFICES ASSUME SamplerInv, [Sampling!Next]_(Sampling!vars) PROVE SamplerInv'
    OBVIOUS
  <1>2. CASE UNCHANGED Sampling!vars \/ Sampling!Finished
    BY <1>1, <1>2 DEF Sampling!vars, Sampling!Finished, SamplerInv
  <1>3. CASE Sampling!Throw
    BY <1>1, <1>3 DEF Sampling!Throw, SamplerInv, SamplerLabels
  <1>4. CASE Sampling!Greedy
    BY <1>1, <1>4 DEF Sampling!Greedy, SamplerInv, SamplerLabels
  <1>5. QED
    BY <1>1, <1>2, <1>3, <1>4, SamplerSort, SamplerTopK, SamplerTopP, SamplerDraw DEF Sampling!Next

-----------------------------------------------------------------------------
(* The sampler: the nucleus. *)

\* A rank's weight is no greater than that of one before it.
LEMMA RankWeights ==
  ASSUME NEW v \in Nat \ {0}, NEW l \in Vectors(v), NEW o, Sorted(l, o, v),
         NEW i \in 1..v, NEW j \in 1..v, i <= j
  PROVE  /\ o[i] \in 0..(v - 1) /\ o[j] \in 0..(v - 1)
         /\ l[o[i]] >= l[o[j]] /\ Weights(l)[o[i]] >= Weights(l)[o[j]]
  <1>1. o[i] \in 0..(v - 1) /\ o[j] \in 0..(v - 1)
    BY DEF Sorted
  <1>2. l[o[i]] \in Nat /\ (i < j \/ i = j)
    BY <1>1 DEF Vectors
  <1>3. l[o[i]] >= l[o[j]]
    BY <1>2 DEF Sorted
  <1>4. QED
    BY <1>1, <1>3, WeightsOrdered

\* No token after the first ranks has a greater logit than one of theirs.
LEMMA RanksTop ==
  ASSUME NEW v \in Nat \ {0}, NEW l \in Vectors(v), NEW o, Sorted(l, o, v),
         NEW n \in 1..v, NEW m \in 1..n
  PROVE  /\ Ranks(o, m) \subseteq Ranks(o, n) /\ Ranks(o, v) = 0..(v - 1)
         /\ \A a \in Ranks(o, m), b \in Ranks(o, n) \ Ranks(o, m) : l[a] >= l[b]
  <1>1. Ranks(o, m) \subseteq Ranks(o, n)
    BY DEF Ranks
  <1>2. Ranks(o, v) = 0..(v - 1)
    <2>1. \A i \in 1..v : o[i] \in 0..(v - 1)
      BY DEF Sorted
    <2>2. \A t \in 0..(v - 1) : t \in Ranks(o, v)
      BY DEF Ranks, Sorted
    <2>3. QED
      BY <2>1, <2>2 DEF Ranks
  <1>3. ASSUME NEW a \in Ranks(o, m), NEW b \in Ranks(o, n) \ Ranks(o, m)
        PROVE  l[a] >= l[b]
    BY RankWeights DEF Ranks
  <1>4. QED
    BY <1>1, <1>2, <1>3

\* As many tokens as ranks.
LEMMA RanksCount ==
  ASSUME NEW v \in Nat \ {0}, NEW l \in Vectors(v), NEW o, Sorted(l, o, v), NEW n \in 0..v
  PROVE  Cardinality(Ranks(o, n)) = n
  <1> DEFINE P == {k \in Nat : k <= v => Cardinality(Ranks(o, k)) = k}
  <1>1. 0 \in P
    BY FS_EmptySet DEF Ranks
  <1>2. ASSUME NEW k \in Nat, k \in P PROVE k + 1 \in P
    <2>1. SUFFICES ASSUME k + 1 <= v PROVE Cardinality(Ranks(o, k + 1)) = k + 1
      OBVIOUS
    <2>2. k < v
      BY <2>1
    <2>3. Ranks(o, k + 1) = Ranks(o, k) \cup {o[k + 1]} /\ o[k + 1] \notin Ranks(o, k)
      BY <2>2, CumStep
    <2>4. QED
      BY <1>2, <2>2, <2>3, RanksFinite, FS_AddElement
  <1> HIDE DEF P
  <1>3. n \in Nat /\ Nat \subseteq P
    BY <1>1, <1>2, Induct
  <1>4. QED
    BY <1>3 DEF P

\* A set of fewer tokens than the first n ranks weighs no more than all but one of them.
LEMMA FewerWeighLess ==
  ASSUME NEW v \in Nat \ {0}, NEW l \in Vectors(v), NEW o, Sorted(l, o, v), NEW n \in Nat, n + 1 <= v,
         NEW R \in SUBSET Ranks(o, n + 1), R # Ranks(o, n + 1)
  PROVE  Total(Weights(l), R) \in Nat /\ Total(Weights(l), R) <= Cum(l, o, n)
  <1> DEFINE S == Ranks(o, n + 1)
             w1 == Weights(l)
  <1>1. S \subseteq 0..(v - 1)
    BY DEF Ranks, Sorted
  <1>2. \A t \in S : w1[t] \in Nat
    BY <1>1, WeightsOrdered
  <1>3. IsFiniteSet(S)
    BY RanksFinite
  <1>4. PICK e \in S : e \notin R
    OBVIOUS
  <1>5. Total(w1, S) = w1[e] + Total(w1, S \ {e})
    BY <1>2, <1>3, TotalStep
  <1>6. w1[e] >= w1[o[n + 1]] /\ o[n + 1] \in S
    BY RankWeights DEF Ranks
  <1>7. Cum(l, o, n + 1) = Cum(l, o, n) + w1[o[n + 1]]
    BY CumStep
  <1>8. Cum(l, o, n) \in Nat
    BY CumNat
  <1>9. IsFiniteSet(R) /\ IsFiniteSet((S \ {e}) \ R) /\ S \ {e} = R \cup ((S \ {e}) \ R)
        /\ R \cap ((S \ {e}) \ R) = {}
    BY <1>3, <1>4, FS_RemoveElement, FS_Subset
  <1>10. ASSUME NEW T \in SUBSET S, IsFiniteSet(T) PROVE Total(w1, T) \in Nat
    <2>1. \A t \in T : w1[t] \in Int /\ 0 \in Int /\ 0 <= w1[t]
      BY <1>2
    <2> DEFINE Zero == [t \in T |-> 0]
    <2>2. \A t \in T : Zero[t] \in Int /\ Zero[t] = 0 /\ Zero[t] <= w1[t]
      BY <2>1
    <2>3. \A t \in T : Zero[t] \in Int /\ Zero[t] \in Int /\ Zero[t] = 0 * Zero[t] + 0 * Zero[t]
      BY <2>2
    <2> HIDE DEF Zero, S, w1
    <2>4. PICK zero \in Int : zero = 0
      OBVIOUS
    <2>5. \A t \in T : Zero[t] \in Int /\ Zero[t] \in Int /\ Zero[t] = zero * Zero[t] + zero * Zero[t]
      BY <2>3, <2>4
    <2>6. Total(Zero, T) = zero * Total(Zero, T) + zero * Total(Zero, T)
      BY <1>10, <2>5, TotalLinear
    <2>7. Total(Zero, T) \in Int /\ Total(w1, T) \in Int
      BY <1>10, <2>1, <2>2, TotalInt
    <2>8. Total(Zero, T) <= Total(w1, T)
      BY <1>10, <2>1, <2>2, TotalBound
    <2>9. QED
      BY <2>4, <2>6, <2>7, <2>8
  <1>11. /\ Total(w1, R) \in Nat /\ Total(w1, (S \ {e}) \ R) \in Nat
         /\ Total(w1, S \ {e}) = Total(w1, R) + Total(w1, (S \ {e}) \ R)
    <2>1. \A t \in R \cup ((S \ {e}) \ R) : w1[t] \in Int
      BY <1>2, <1>9
    <2> DEFINE U == (S \ {e}) \ R
    <2>2. U \in SUBSET S /\ R \in SUBSET S
      OBVIOUS
    <2>3. Total(w1, R) \in Nat /\ Total(w1, U) \in Nat
      BY <1>9, <1>10, <2>2
    <2> HIDE DEF U, w1, S
    <2>4. Total(w1, R \cup U) = Total(w1, R) + Total(w1, U)
      BY <1>9, <2>1, TotalUnion DEF U
    <2>5. S \ {e} = R \cup U
      BY <1>9, Zenon DEF U
    <2>6. QED
      BY <2>3, <2>4, <2>5, Zenon DEF U
  <1>12. Total(w1, S) = Cum(l, o, n + 1)
    BY DEF Cum
  <1>13. w1[e] \in Nat /\ w1[o[n + 1]] \in Nat
    BY <1>2, <1>4, <1>6
  <1> HIDE DEF w1, S
  <1>14. PICK a \in Nat : a = Total(w1, R)
    BY <1>11
  <1>15. PICK b \in Nat : b = Total(w1, (S \ {e}) \ R)
    BY <1>11
  <1>16. PICK c \in Nat : c = Cum(l, o, n)
    BY <1>8
  <1>17. c + w1[o[n + 1]] = w1[e] + (a + b)
    BY <1>5, <1>7, <1>11, <1>12, <1>14, <1>15, <1>16
  <1>18. a <= c
    BY <1>6, <1>13, <1>17
  <1>19. QED
    BY <1>14, <1>16, <1>18 DEF w1

\* The invariant draws from the nucleus.
LEMMA SamplerNucleus == SamplerInv => Sampling!DrawnFromNucleus
  <1>1. SUFFICES ASSUME SamplerInv, sampler_pc = "done", ~ params.greedy
                 PROVE  Sampling!DrawnFromNucleus
    BY DEF Sampling!DrawnFromNucleus
  <1>2. PICK l, o, pa : l = logits /\ o = order /\ pa = params
    OBVIOUS
  <1>3. PICK v \in Nat \ {0} : l \in Vectors(v) /\ Sorted(l, o, v) /\ keep = KeptOf(pa, v)
    BY <1>1, <1>2 DEF SamplerInv, Keeps
  <1>4. pa \in Sampling!Params
    BY <1>1, <1>2 DEF SamplerInv
  <1>5. PICK k \in 1..v : k = keep
    BY <1>3, <1>4, KeptRange
  <1>6. PICK q1 \in Nat : q1 = pa.top_p /\ q1 <= Parts
    BY <1>4, KeptRange
  <1>7. Parts \in Nat \ {0} /\ Draws \in Nat \ {0}
    BY OperatorsAssumption DEF Sampling!SamplerAssumption
  <1>8. PICK c \in Nat : c = Cum(l, o, k) /\ c > 0
    BY <1>3, CumNat
  <1> DEFINE E == Enough(l, o, pa, k)
             m == First(k, E)
  <1>9. E \in SUBSET (1..k) /\ k \in E
    BY <1>6, <1>7, <1>8 DEF Enough
  <1>10. m \in 1..k /\ m \in E /\ \A i \in E : m <= i
    BY <1>9, FirstIs
  <1>11. nucleus = NucleusOf(l, o, pa, k)
    BY <1>1, <1>2, <1>5 DEF SamplerInv
  <1>12. PICK u \in 0..(Draws - 1) : token = DrawnAt(l, o, nucleus, u)
    BY <1>1, <1>2 DEF SamplerInv, Draws1
  <1> DEFINE G == Reaching(l, o, nucleus, u)
             d == First(nucleus, G)
  <1>13. nucleus \in 1..k /\ m <= nucleus /\ Cum(l, o, m) * Parts >= q1 * c
         /\ (nucleus = m \/ (nucleus = k /\ q1 = Parts))
    <2>1. Cum(l, o, m) * Parts >= q1 * c
      BY <1>6, <1>8, <1>10 DEF Enough
    <2>2. CASE q1 < Parts
      <3>1. nucleus = m
        BY <1>6, <1>11, <2>2, Zenon DEF NucleusOf
      <3> HIDE DEF m, E
      <3>2. QED
        BY <1>10, <2>1, <3>1
    <2>3. CASE ~ (q1 < Parts)
      <3>1. nucleus = k
        BY <1>6, <1>11, <2>3, Zenon DEF NucleusOf
      <3>2. q1 = Parts
        BY <1>6, <1>7, <2>3
      <3> HIDE DEF m, E
      <3>3. QED
        BY <1>10, <2>1, <3>1, <3>2
    <2>4. QED
      BY <2>2, <2>3
  <1> HIDE DEF m, E
  <1>14. PICK cm \in Nat : cm = Cum(l, o, m)
    BY <1>3, <1>10, CumNat
  <1>15. m \in G
    BY <1>7, <1>8, <1>10, <1>13, <1>14 DEF Reaching
  <1>16. d \in 1..m /\ token = o[d]
    BY <1>10, <1>12, <1>13, <1>15, FirstIs DEF Reaching, DrawnAt
  <1> HIDE DEF d, G
  <1> DEFINE K == Ranks(o, k)
             S == Ranks(o, m)
  <1>17. /\ K \in SUBSET Sampling!Tokens /\ Sampling!IsTop(K, Sampling!Tokens)
    <2>1. Sampling!Tokens = Ranks(o, v) /\ v \in 1..v
      BY <1>2, <1>3, RanksTop DEF Sampling!Tokens, Vectors
    <2>2. K \subseteq Ranks(o, v) /\ \A a \in K, b \in Ranks(o, v) \ K : l[a] >= l[b]
      BY <1>3, <2>1, RanksTop
    <2> HIDE DEF K
    <2>3. QED
      BY <1>2, <2>1, <2>2, Zenon DEF Sampling!IsTop
  <1>18. Sampling!Cardinality(K) = IF pa.top_k \in 1..Sampling!vocab THEN pa.top_k ELSE Sampling!vocab
    <2>1. Sampling!Cardinality(K) = Cardinality(K)
      BY Zenon DEF Sampling!Cardinality, Cardinality
    <2>2. k \in 0..v
      OBVIOUS
    <2>3. Cardinality(K) = k
      BY <1>3, <2>2, RanksCount
    <2>4. Sampling!vocab = v
      BY <1>2, <1>3, SamplerCounts DEF Sampling!vocab, Sampling!Tokens
    <2>5. pa.top_k \in Int
      BY <1>4, KeptRange
    <2>6. k = IF pa.top_k \in 1..v THEN pa.top_k ELSE v
      BY <1>3, <1>5, <2>5 DEF KeptOf
    <2>7. QED
      BY <2>1, <2>3, <2>4, <2>6
  <1>19. S \in SUBSET K /\ Sampling!IsTop(S, K)
    <2>1. S \subseteq K /\ \A a \in S, b \in K \ S : l[a] >= l[b]
      BY <1>3, <1>10, RanksTop
    <2> HIDE DEF K, S
    <2>2. QED
      BY <1>2, <2>1, Zenon DEF Sampling!IsTop
  <1>20. token \in S
    BY <1>16 DEF Ranks
  <1>21. ASSUME NEW R \in (SUBSET S) \ {{}, S}
         PROVE  Sampling!Mass(R) * Parts < pa.top_p * Sampling!Mass(K)
    <2>1. IsFiniteSet(R) /\ IsFiniteSet(K)
      BY <1>10, RanksFinite, FS_Subset
    <2>2. Sampling!Mass(R) = Total(Weights(l), R) /\ Sampling!Mass(K) = c
      BY <1>2, <1>8, <2>1, MassIs DEF Cum
    <2>3. m # 1
      <3>1. SUFFICES ASSUME m = 1 PROVE FALSE
        OBVIOUS
      <3>2. S = {o[1]}
        BY <3>1 DEF Ranks
      <3> HIDE DEF S
      <3>3. QED
        BY <3>2
    <2>4. PICK n \in Nat : m = n + 1 /\ n \in 1..k /\ n \in 0..v
      BY <1>10, <2>3
    <2>5. n + 1 <= v /\ S = Ranks(o, n + 1)
      BY <1>10, <2>4
    <2>6. Total(Weights(l), R) \in Nat /\ Total(Weights(l), R) <= Cum(l, o, n)
      BY <1>3, <2>5, FewerWeighLess
    <2>7. n \notin E
      BY <1>10, <2>4
    <2>8. PICK cn \in Nat : cn = Cum(l, o, n)
      BY <1>3, <2>4, CumNat
    <2>9. ~ (cn * Parts >= q1 * c)
      BY <1>6, <1>8, <2>4, <2>7, <2>8 DEF E, Enough
    <2>10. PICK a \in Nat : a = Total(Weights(l), R)
      BY <2>6
    <2>11. a * Parts <= cn * Parts
      BY <1>7, <2>6, <2>8, <2>10, SMT
    <2>12. a * Parts \in Nat /\ cn * Parts \in Nat /\ q1 * c \in Nat
      BY <1>7
    <2>13. a * Parts < q1 * c
      BY <2>9, <2>11, <2>12
    <2>14. QED
      BY <1>6, <2>2, <2>10, <2>13
  <1> HIDE DEF K, S
  <1>22. QED
    BY <1>2, <1>17, <1>18, <1>19, <1>20, <1>21, Zenon DEF Sampling!DrawnFromNucleus

-----------------------------------------------------------------------------
(* The sampler: the draw. *)

Between(d, c, a, b, first) ==
    {u \in 0..(d - 1) : u * c <= d * b /\ (first \/ ~ (u * c <= d * a))}

\* Among d points, those whose share of c is between a and b are as many as b - a of c,
\* to one point.
LEMMA ShareError ==
  ASSUME NEW d \in Nat \ {0}, NEW c \in Nat \ {0}, NEW a \in Nat, NEW b \in Nat,
         a <= b, b <= c, NEW first \in BOOLEAN, first => a = 0
  PROVE  /\ Cardinality(Between(d, c, a, b, first)) \in Nat
         /\ Cardinality(Between(d, c, a, b, first)) * c - d * (b - a) \in (0 - c)..c
  <1>1. d * a \in Nat /\ d * b \in Nat /\ d * c \in Nat /\ d * (b - a) = d * b - d * a
    OBVIOUS
  <1>2. PICK qa \in Nat, ya \in 0..(c - 1) : d * a = qa * c + ya
    BY <1>1, DivisionIs
  <1>3. PICK qb \in Nat, yb \in 0..(c - 1) : d * b = qb * c + yb
    BY <1>1, DivisionIs
  <1>4. d * a <= d * b /\ d * b <= d * c
    BY SMT
  <1>5. qa <= qb
    BY <1>2, <1>3, <1>4, MultiplesUpTo
  <1>6. qb <= d
    BY <1>1, <1>3, <1>4, MultiplesUpTo
  <1>7. first => qa = 0 /\ ya = 0
    <2>1. SUFFICES ASSUME first PROVE qa = 0 /\ ya = 0
      OBVIOUS
    <2>2. d * a = 0
      BY <2>1
    <2>3. qa * c \in Nat
      OBVIOUS
    <2>4. qa * c = 0 /\ ya = 0
      BY <1>2, <2>2, <2>3
    <2>5. qa = 0
      BY <2>4, SMT
    <2>6. QED
      BY <2>4, <2>5
  <1> DEFINE low == IF first THEN 0 ELSE qa + 1
             high == IF qb <= d - 1 THEN qb ELSE d - 1
             H == Between(d, c, a, b, first)
  <1>8. H = low..high
    <2>1. ASSUME NEW u \in 0..(d - 1)
          PROVE  u * c <= d * b /\ (first \/ ~ (u * c <= d * a)) <=> u <= qb /\ (first \/ u > qa)
      BY <1>2, <1>3, MultiplesUpTo
    <2>2. H = {u \in 0..(d - 1) : u <= qb /\ (first \/ u > qa)}
      BY <2>1, Zenon DEF Between
    <2> HIDE DEF H
    <2>3. QED
      BY <2>2
  <1> HIDE DEF H
  <1>9. PICK h \in Nat : h = Cardinality(H) /\ h = IF low > high THEN 0 ELSE high - low + 1
    <2>1. low \in Int /\ high \in Int
      OBVIOUS
    <2>2. Cardinality(H) = IF low > high THEN 0 ELSE high - low + 1
      BY <1>8, <2>1, FS_Interval
    <2>3. (IF low > high THEN 0 ELSE high - low + 1) \in Nat
      BY <2>1
    <2>4. QED
      BY <2>2, <2>3
  <1>10. PICK p \in Nat : p = qa * c
    OBVIOUS
  <1>11. PICK s \in Nat : s = qb * c
    OBVIOUS
  <1>12. PICK z \in Int : z = h * c - d * (b - a) /\ z = h * c - (s + yb) + (p + ya)
    BY <1>1, <1>2, <1>3, <1>10, <1>11
  <1>13. CASE qb <= d - 1
    BY <1>5, <1>7, <1>9, <1>10, <1>11, <1>12, <1>13 DEF H
  <1>14. CASE ~ (qb <= d - 1)
    <2>1. qb = d /\ yb = 0 /\ s = d * c
      BY <1>3, <1>4, <1>6, <1>11, <1>14
    <2>2. CASE first
      BY <1>7, <1>9, <1>10, <1>12, <1>14, <2>1, <2>2 DEF H
    <2>3. CASE ~ first /\ qa <= d - 1
      BY <1>9, <1>10, <1>12, <1>14, <2>1, <2>3 DEF H
    <2>4. CASE ~ first /\ ~ (qa <= d - 1)
      <3>1. h = 0 /\ qa = d
        BY <1>5, <1>9, <1>14, <2>1, <2>4
      <3>2. p = s /\ h * c = 0
        BY <1>10, <2>1, <3>1
      <3>3. p + ya <= s
        BY <1>2, <1>4, <1>1, <1>10, <2>1
      <3>4. z = 0
        BY <1>12, <2>1, <3>2, <3>3
      <3>5. QED
        BY <1>9, <1>12, <3>4 DEF H
    <2>5. QED
      BY <2>2, <2>3, <2>4
  <1>15. QED
    BY <1>13, <1>14

\* The draw ends at a rank when its threshold is behind the rank before and not behind it.
LEMMA DrawnAtRank ==
  ASSUME NEW v \in Nat \ {0}, NEW l \in Vectors(v), NEW o, Sorted(l, o, v), NEW n \in 1..v,
         NEW k \in 1..n, NEW u \in 0..(Draws - 1)
  PROVE  DrawnAt(l, o, n, u) = o[k]
         <=> /\ u * Cum(l, o, n) <= Draws * Cum(l, o, k)
             /\ k = 1 \/ ~ (u * Cum(l, o, n) <= Draws * Cum(l, o, k - 1))
  <1> DEFINE G == Reaching(l, o, n, u)
             f == First(n, G)
  <1>1. Draws \in Nat \ {0}
    BY OperatorsAssumption DEF Sampling!SamplerAssumption
  <1>2. \A i \in 0..n : Cum(l, o, i) \in Nat /\ i \in 0..v
    BY CumNat
  <1>3. u * Cum(l, o, n) <= Draws * Cum(l, o, n)
    BY <1>1, <1>2
  <1>4. G \in SUBSET (1..n) /\ n \in G
    BY <1>3 DEF Reaching
  <1>5. f \in 1..n /\ f \in G /\ \A i \in G : f <= i
    BY <1>4, FirstIs
  <1>6. DrawnAt(l, o, n, u) = o[k] <=> f = k
    BY <1>5 DEF Sorted, DrawnAt
  <1> HIDE DEF f, G
  <1>7. ASSUME f = k
        PROVE  /\ u * Cum(l, o, n) <= Draws * Cum(l, o, k)
               /\ k = 1 \/ ~ (u * Cum(l, o, n) <= Draws * Cum(l, o, k - 1))
    BY <1>5, <1>7 DEF G, Reaching
  <1>8. ASSUME u * Cum(l, o, n) <= Draws * Cum(l, o, k),
               k = 1 \/ ~ (u * Cum(l, o, n) <= Draws * Cum(l, o, k - 1))
        PROVE  f = k
    <2>1. k \in G
      BY <1>8 DEF G, Reaching
    <2>2. f <= k
      BY <1>5, <2>1
    <2>3. SUFFICES ASSUME f < k PROVE FALSE
      BY <1>5, <2>2
    <2>4. k # 1 /\ f <= k - 1 /\ k - 1 \in 0..n /\ f \in 0..n
      BY <1>5, <2>3
    <2>5. Cum(l, o, f) <= Cum(l, o, k - 1)
      BY <1>2, <2>4, CumNat
    <2>6. PICK cf \in Nat : cf = Cum(l, o, f)
      BY <1>2, <2>4
    <2>7. PICK ck \in Nat : ck = Cum(l, o, k - 1)
      BY <1>2, <2>4
    <2>8. PICK cn \in Nat : cn = Cum(l, o, n)
      BY <1>2
    <2>9. u * cn <= Draws * cf
      BY <1>5, <2>6, <2>8 DEF G, Reaching
    <2>10. Draws * cf <= Draws * ck
      BY <1>1, <2>5, <2>6, <2>7, SMT
    <2>11. u * cn \in Nat /\ Draws * cf \in Nat /\ Draws * ck \in Nat
      BY <1>1
    <2>12. u * cn <= Draws * ck
      BY <2>9, <2>10, <2>11
    <2>13. QED
      BY <1>8, <2>4, <2>7, <2>8, <2>12
  <1>9. QED
    BY <1>6, <1>7, <1>8

\* The invariant draws each token for its share of the values, to one of them.
LEMMA SamplerMultinomial == SamplerInv => Sampling!Multinomial
  <1>1. SUFFICES ASSUME SamplerInv, sampler_pc = "draw", NEW t \in Sampling!Ranked(nucleus)
                 PROVE  LET error == Sampling!Cardinality(Sampling!Hits(t)) * Sampling!Cumulative(nucleus)
                                       - Draws * Sampling!Weight(t)
                        IN /\ error \in -Sampling!Cumulative(nucleus)..Sampling!Cumulative(nucleus)
                           /\ Sampling!Weight(t) = 0 => Sampling!Hits(t) = {}
    BY Zenon DEF Sampling!Multinomial
  <1>2. PICK l, o : l = logits /\ o = order
    OBVIOUS
  <1>3. PICK v \in Nat \ {0} : l \in Vectors(v) /\ Sorted(l, o, v) /\ keep = KeptOf(params, v)
    BY <1>1, <1>2 DEF SamplerInv, Keeps
  <1>4. keep \in 1..v
    BY <1>1, <1>3, KeptRange DEF SamplerInv
  <1>5. PICK n \in 1..v : n = nucleus
    BY <1>1, <1>4, NucleusRange DEF SamplerInv
  <1>6. PICK k \in 1..n : t = o[k]
    BY <1>1, <1>2, <1>5 DEF Sampling!Ranked
  <1>7. k \in 1..v /\ k - 1 \in 0..v /\ k \in 0..v /\ n \in 0..v /\ k - 1 \in Nat /\ (k - 1) + 1 = k /\ k - 1 < v
    OBVIOUS
  <1>8. PICK c \in Nat \ {0} : c = Cum(l, o, n)
    BY <1>3, <1>7, CumNat
  <1>9. PICK a \in Nat : a = Cum(l, o, k - 1)
    BY <1>3, <1>7, CumNat
  <1>10. PICK b \in Nat \ {0} : b = Cum(l, o, k)
    BY <1>3, <1>7, CumNat
  <1>11. a <= b /\ b <= c /\ (k = 1 => a = 0)
    BY <1>3, <1>7, <1>8, <1>9, <1>10, CumNat
  <1>12. Sampling!Weight(t) = b - a
    <2>1. o[k] \in 0..(v - 1) /\ Cum(l, o, (k - 1) + 1) = Cum(l, o, k - 1) + Weights(l)[o[(k - 1) + 1]]
      BY <1>3, <1>7, CumStep
    <2>2. Weights(l)[o[k]] \in Nat
      BY <1>3, <2>1, WeightsOrdered
    <2>3. Weights(l)[o[k]] = b - a
      BY <1>7, <1>9, <1>10, <2>1, <2>2
    <2>4. Weights(l)[t] = WeightIn(l, t)
      BY <1>3, <1>6, <2>1 DEF Vectors, Weights
    <2>5. Sampling!Weight(t) = WeightIn(l, t)
      BY <1>2, Zenon DEF Sampling!Weight, WeightIn, GreatestLogit
    <2>6. QED
      BY <1>6, <2>3, <2>4, <2>5
  <1>13. Sampling!Hits(t) = Between(Draws, c, a, b, k = 1)
    <2>1. ASSUME NEW u \in 0..(Draws - 1)
          PROVE  Sampling!Drawn(u) = t <=> u * c <= Draws * b /\ (k = 1 \/ ~ (u * c <= Draws * a))
      <3>1. n \in Nat
        BY <1>7
      <3>2. Sampling!Drawn(u) = DrawnAt(l, o, n, u)
        BY <1>2, <1>5, <3>1, DrawnIs
      <3>3. QED
        BY <1>3, <1>6, <1>8, <1>9, <1>10, <3>2, DrawnAtRank
    <2>2. QED
      BY <2>1, Zenon DEF Sampling!Hits, Between
  <1>14. Sampling!Cumulative(nucleus) = c
    BY <1>2, <1>5, <1>7, <1>8, CumIs
  <1>15. Draws \in Nat \ {0}
    BY OperatorsAssumption DEF Sampling!SamplerAssumption
  <1>16. PICK h \in Nat : h = Sampling!Cardinality(Sampling!Hits(t)) /\ h * c - Draws * (b - a) \in (0 - c)..c
    <2>1. Sampling!Cardinality(Sampling!Hits(t)) = Cardinality(Sampling!Hits(t))
      BY Zenon DEF Sampling!Cardinality, Cardinality
    <2>2. (k = 1) \in BOOLEAN
      OBVIOUS
    <2>3. QED
      BY <1>11, <1>13, <1>15, <2>1, <2>2, ShareError
  <1>17. ASSUME b - a = 0 PROVE Sampling!Hits(t) = {}
    BY <1>11, <1>13, <1>17 DEF Between
  <1>18. -c = 0 - c
    OBVIOUS
  <1>19. QED
    BY <1>12, <1>14, <1>16, <1>17, <1>18

\* A run on the subject is a run of its module.
LEMMA SamplerRuns ==
  /\ Init => (subject = "sampler" => Sampling!Init)
  /\ [Next]_allVars => UNCHANGED subject
                       /\ (subject = "sampler" => [Sampling!Next]_(Sampling!vars))
  BY DEF Init, allVars, samplerVars, Sampling!vars, Next

\* Sampler::sample() draws from a smallest set of most likely tokens that holds top_p of
\* what a largest set of top_k of them does, however std::sort ordered equal logits, for
\* any vocabulary, logits, parameters and draw.
THEOREM SampledFromNucleus == Spec => []DrawnFromNucleus
  <1> DEFINE Inv == subject = "sampler" => SamplerInv
  <1>1. Init => Inv
    BY SamplerInit, SamplerRuns
  <1>2. Inv /\ [Next]_allVars => Inv'
    BY SamplerNext, SamplerRuns
  <1>3. Inv => DrawnFromNucleus
    BY SamplerNucleus DEF DrawnFromNucleus
  <1>4. QED
    BY <1>1, <1>2, <1>3, PTL DEF Spec

\* Over the uniform draws a token of the nucleus comes up as often as its share of the
\* nucleus says, to one draw, and never if its weight underflowed to zero.
THEOREM SampledByWeight == Spec => []Multinomial
  <1> DEFINE Inv == subject = "sampler" => SamplerInv
  <1>1. Init => Inv
    BY SamplerInit, SamplerRuns
  <1>2. Inv /\ [Next]_allVars => Inv'
    BY SamplerNext, SamplerRuns
  <1>3. Inv => Multinomial
    BY SamplerMultinomial DEF Multinomial
  <1>4. QED
    BY <1>1, <1>2, <1>3, PTL DEF Spec

-----------------------------------------------------------------------------
(* A sharded linear layer: sums. *)

\* The sums of the layer are sums over sets.
LEMMA ShardSumIsTotal ==
  ASSUME NEW f, NEW S, IsFiniteSet(S) PROVE Sharding!SumFunctionOnSet(f, S) = Total(f, S)
  <1> DEFINE F(g) == [s \in SUBSET S |->
                        IF s = {} THEN 0 ELSE f[CHOOSE e \in s : TRUE] + g[s \ {CHOOSE e \in s : TRUE}]]
             C == CHOOSE g : g = F(g)
  <1>1. Sharding!SumFunctionOnSet(f, S) = C[S]
    BY Zenon DEF Sharding!SumFunctionOnSet, Sharding!FoldFunctionOnSet, Sharding!MapThenFoldSet
  <1>2. ASSUME NEW g PROVE g = F(g) <=> SumOf(f, g, S)
    BY Zenon DEF SumOf, Pick
  <1>3. \E g : SumOf(f, g, S)
    BY SumExists
  <1> HIDE DEF F
  <1>4. C = F(C)
    BY <1>2, <1>3, Zenon
  <1> DEFINE D == CHOOSE g : SumOf(f, g, S)
  <1>5. SumOf(f, C, S) /\ SumOf(f, D, S)
    BY <1>2, <1>3, <1>4, Zenon
  <1>6. Total(f, S) = D[S] /\ S \subseteq S
    BY DEF Total
  <1> HIDE DEF C, D
  <1>7. C[S] = D[S]
    BY <1>5, <1>6, SumUnique
  <1>8. QED
    BY <1>1, <1>6, <1>7

\* A sum over an interval ends with its last term.
LEMMA TotalLast ==
  ASSUME NEW a \in Nat, NEW n \in Nat, NEW v, \A i \in a..(a + n) : v[i] \in Int
  PROVE  /\ Total(v, a..(a + n)) = Total(v, a..(a + n - 1)) + v[a + n]
         /\ Total(v, a..(a + n - 1)) \in Int
  <1>1. IsFiniteSet(a..(a + n)) /\ IsFiniteSet(a..(a + n - 1))
    BY FS_Interval
  <1>2. a + n \in a..(a + n) /\ (a..(a + n)) \ {a + n} = a..(a + n - 1)
    OBVIOUS
  <1>3. Total(v, a..(a + n)) = v[a + n] + Total(v, (a..(a + n)) \ {a + n})
    BY <1>1, <1>2, TotalStep
  <1>4. \A i \in a..(a + n - 1) : v[i] \in Int
    OBVIOUS
  <1>5. PICK s \in Int : s = Total(v, a..(a + n - 1))
    BY <1>1, <1>4, TotalInt
  <1>6. PICK l \in Int : l = v[a + n]
    BY <1>2
  <1>7. Total(v, a..(a + n)) = l + s
    BY <1>2, <1>3, <1>5, <1>6, Zenon
  <1>8. QED
    BY <1>5, <1>6, <1>7

\* A sum over no number is nothing.
LEMMA TotalNone == ASSUME NEW a \in Int, NEW v PROVE Total(v, a..(a - 1)) = 0
  <1>1. a..(a - 1) = {} /\ IsFiniteSet({})
    BY FS_EmptySet
  <1>2. QED
    BY <1>1, TotalOf, Zenon

\* A sum of terms counted from b is one of terms counted from 0.
LEMMA TotalShift ==
  ASSUME NEW b \in Nat, NEW n \in Nat, NEW v, NEW u,
         \A k \in 0..(n - 1) : v[b + k] \in Int /\ u[k] = v[b + k]
  PROVE  Total(u, 0..(n - 1)) = Total(v, b..(b + n - 1))
  <1> DEFINE P == {m \in Nat : m <= n => Total(u, 0..(m - 1)) = Total(v, b..(b + m - 1))}
  <1>1. 0 \in P
    BY TotalNone
  <1>2. ASSUME NEW m \in Nat, m \in P PROVE m + 1 \in P
    <2>1. SUFFICES ASSUME m + 1 <= n
                   PROVE  Total(u, 0..((m + 1) - 1)) = Total(v, b..(b + (m + 1) - 1))
      OBVIOUS
    <2>2. Total(u, 0..(m - 1)) = Total(v, b..(b + m - 1))
      BY <1>2, <2>1
    <2>3. \A i \in 0..(0 + m) : u[i] \in Int
      BY <2>1
    <2>4. \A i \in b..(b + m) : v[i] \in Int
      <3>1. SUFFICES ASSUME NEW i \in b..(b + m) PROVE v[i] \in Int
        OBVIOUS
      <3>2. i - b \in 0..(n - 1) /\ b + (i - b) = i
        BY <2>1
      <3>3. QED
        BY <3>2
    <2>5. Total(u, 0..(0 + m)) = Total(u, 0..(0 + m - 1)) + u[0 + m]
      BY <2>3, TotalLast, Zenon
    <2>6. Total(v, b..(b + m)) = Total(v, b..(b + m - 1)) + v[b + m]
      BY <2>4, TotalLast, Zenon
    <2>7. 0 + m = m /\ (m + 1) - 1 = m /\ b + (m + 1) - 1 = b + m /\ 0 + m - 1 = m - 1
      OBVIOUS
    <2>8. u[m] = v[b + m]
      BY <2>1
    <2>9. QED
      BY <2>2, <2>5, <2>6, <2>7, <2>8
  <1> HIDE DEF P
  <1>3. n \in P
    BY <1>1, <1>2, Induct
  <1>4. QED
    BY <1>3 DEF P

\* A sum over n intervals of c terms is one over n * c terms.
LEMMA TotalPieces ==
  ASSUME NEW c \in Nat, NEW n \in Nat, NEW v, NEW u, \A i \in 0..(n * c - 1) : v[i] \in Int,
         \A p \in 1..n : u[p] = Total(v, ((p - 1) * c)..((p - 1) * c + c - 1))
  PROVE  Total(u, 1..n) = Total(v, 0..(n * c - 1))
  <1> DEFINE P == {m \in Nat : m <= n => Total(u, 1..m) = Total(v, 0..(m * c - 1))}
  <1>1. 0 \in P
    BY TotalNone
  <1>2. ASSUME NEW m \in Nat, m \in P PROVE m + 1 \in P
    <2>1. SUFFICES ASSUME m + 1 <= n
                   PROVE  Total(u, 1..(m + 1)) = Total(v, 0..((m + 1) * c - 1))
      OBVIOUS
    <2>2. Total(u, 1..m) = Total(v, 0..(m * c - 1))
      BY <1>2, <2>1
    <2>3. PICK b \in Nat : b = m * c
      OBVIOUS
    <2>4. (m + 1) * c = b + c
      BY <2>3
    <2>5. PICK z \in Nat : z = n * c
      OBVIOUS
    <2>6. b + c <= z
      BY <2>1, <2>4, <2>5
    <2>7. IsFiniteSet(0..(b - 1)) /\ IsFiniteSet(b..(b + c - 1))
      BY FS_Interval
    <2>8. (0..(b - 1)) \cap (b..(b + c - 1)) = {} /\ (0..(b - 1)) \cup (b..(b + c - 1)) = 0..(b + c - 1)
      OBVIOUS
    <2>9. \A i \in (0..(b - 1)) \cup (b..(b + c - 1)) : v[i] \in Int
      BY <2>5, <2>6
    <2>10. Total(v, 0..(b + c - 1)) = Total(v, 0..(b - 1)) + Total(v, b..(b + c - 1))
      BY <2>7, <2>8, <2>9, TotalUnion
    <2>11. u[m + 1] = Total(v, b..(b + c - 1))
      BY <2>1, <2>3
    <2>12. \A i \in 1..(1 + m) : u[i] \in Int
      <3>1. SUFFICES ASSUME NEW i \in 1..(1 + m) PROVE u[i] \in Int
        OBVIOUS
      <3>2. i \in 1..n
        BY <2>1
      <3>3. PICK d \in Nat : d = (i - 1) * c
        OBVIOUS
      <3>4. d + c <= z
        BY <2>5, <3>2, <3>3
      <3>5. \A k \in d..(d + c - 1) : v[k] \in Int
        BY <2>5, <3>4
      <3>6. Total(v, d..(d + c - 1)) \in Int
        <4>1. IsFiniteSet(d..(d + c - 1))
          BY FS_Interval
        <4>2. QED
          BY <3>5, <4>1, TotalInt, Zenon
      <3>7. QED
        BY <3>2, <3>3, <3>6
    <2>13. Total(u, 1..(1 + m)) = Total(u, 1..(1 + m - 1)) + u[1 + m]
      BY <2>12, TotalLast, Zenon
    <2>14. 1 + m = m + 1 /\ 1 + m - 1 = m
      OBVIOUS
    <2>15. QED
      BY <2>2, <2>3, <2>4, <2>10, <2>11, <2>13, <2>14
  <1> HIDE DEF P
  <1>3. n \in P
    BY <1>1, <1>2, Induct
  <1>4. QED
    BY <1>3 DEF P

-----------------------------------------------------------------------------
(* A sharded linear layer: its tensors. *)

\* Places of a row-major tensor of h rows and c columns.
Cells(h, c) == 0..(h * c - 1)
Cell(o, c, i) == o * c + i

\* A cell of a matrix, by its row and its column.
LEMMA CellIs ==
  ASSUME NEW c \in Nat \ {0}, NEW h \in Nat, NEW o \in 0..(h - 1), NEW i \in 0..(c - 1)
  PROVE  Cell(o, c, i) \in Cells(h, c) /\ Cell(o, c, i) \div c = o /\ Cell(o, c, i) % c = i
  BY Place, PlaceIn DEF Cell, Cells

\* Every cell has a row and a column.
LEMMA CellOf ==
  ASSUME NEW c \in Nat \ {0}, NEW h \in Nat, NEW n \in Cells(h, c)
  PROVE  \E o \in 0..(h - 1), i \in 0..(c - 1) : n = Cell(o, c, i)
  BY PlaceOf, Zenon DEF Cell, Cells

\* t is a tensor of h rows and c columns.
Shaped(t, h, c) == t = [rows |-> h, cols |-> c, data |-> [i \in Cells(h, c) |-> t.data[i]]]

\* Matrices of one shape and the same values are the same.
LEMMA ShapedEqual ==
  ASSUME NEW h, NEW c, NEW t, NEW u, Shaped(t, h, c), Shaped(u, h, c),
         \A i \in Cells(h, c) : t.data[i] = u.data[i]
  PROVE  t = u
  BY DEF Shaped

IsMatrix(m) == /\ m.rows \in Nat \ {0} /\ m.cols \in Nat \ {0}
               /\ m.data \in [Cells(m.rows, m.cols) -> Int]

\* The products that row o of a and row j of b add up, both of c columns.
Products(a, b, c, o, j) == [k \in 0..(c - 1) |-> a[Cell(o, c, k)] * b[Cell(j, c, k)]]
RowDot(a, b, c, o, j) == Total(Products(a, b, c, o, j), 0..(c - 1))

\* The output of a linear layer, cell by cell.
LEMMA LinearIs ==
  ASSUME NEW a, NEW b, a.cols \in Nat
  PROVE  /\ Shaped(Sharding!linear(a, b), a.rows, b.rows)
         /\ Sharding!linear(a, b).rows = a.rows /\ Sharding!linear(a, b).cols = b.rows
         /\ \A i \in Cells(a.rows, b.rows) : Sharding!linear(a, b).data[i]
                = RowDot(a.data, b.data, a.cols, i \div b.rows, i % b.rows)
  <1> DEFINE G(i) == Products(a.data, b.data, a.cols, i \div b.rows, i % b.rows)
             L == [rows |-> a.rows, cols |-> b.rows,
                   data |-> [i \in Cells(a.rows, b.rows) |-> Sharding!SumFunction(G(i))]]
  <1>1. Sharding!linear(a, b) = L
    BY Zenon DEF Sharding!linear, Sharding!Tensor, Products, Cell, Cells
  <1>2. ASSUME NEW i \in Cells(a.rows, b.rows)
        PROVE  Sharding!SumFunction(G(i)) = RowDot(a.data, b.data, a.cols, i \div b.rows, i % b.rows)
    BY FS_Interval, ShardSumIsTotal DEF Products, Sharding!SumFunction, RowDot
  <1> HIDE DEF G
  <1>3. L.rows = a.rows /\ L.cols = b.rows
        /\ \A i \in Cells(a.rows, b.rows) : L.data[i] = Sharding!SumFunction(G(i))
    OBVIOUS
  <1>4. Shaped(L, a.rows, b.rows)
    BY DEF Shaped
  <1> HIDE DEF L
  <1>5. \A i \in Cells(a.rows, b.rows) :
            L.data[i] = RowDot(a.data, b.data, a.cols, i \div b.rows, i % b.rows)
    BY <1>2, <1>3, Zenon
  <1>6. QED
    BY <1>1, <1>3, <1>4, <1>5, Zenon

\* The output of a linear layer at a row and a column.
LEMMA LinearAt ==
  ASSUME NEW a, NEW b, a.cols \in Nat, a.rows \in Nat, b.rows \in Nat \ {0},
         NEW o \in 0..(a.rows - 1), NEW j \in 0..(b.rows - 1)
  PROVE  Sharding!linear(a, b).data[Cell(o, b.rows, j)] = RowDot(a.data, b.data, a.cols, o, j)
  BY CellIs, LinearIs

\* The products of two rows are integers.
LEMMA ProductsInt ==
  ASSUME NEW c \in Nat \ {0}, NEW h \in Nat, NEW g \in Nat,
         NEW a \in [Cells(h, c) -> Int], NEW b \in [Cells(g, c) -> Int],
         NEW o \in 0..(h - 1), NEW j \in 0..(g - 1), NEW k \in 0..(c - 1)
  PROVE  Products(a, b, c, o, j)[k] \in Int
  BY CellIs DEF Products

\* What divides is a number of equal parts.
LEMMA Divided ==
  ASSUME NEW m \in Nat \ {0}, NEW n \in Nat \ {0}, m % n = 0
  PROVE  \E per \in Nat \ {0} : per = m \div n /\ m = n * per
  OBVIOUS

\* Rows z and up of the matrix d of c columns, per of them.
RowsFrom(d, per, c, z) == [i \in Cells(per, c) |-> d[z * c + i]]

\* The rows of one shard.
LEMMA RowsOf ==
  ASSUME NEW b, NEW n \in Nat \ {0}, NEW s \in 1..n, NEW per, per = b.rows \div n
  PROVE  Sharding!split_rows(b, n)[s]
           = [rows |-> per, cols |-> b.cols,
              data |-> RowsFrom(b.data, per, b.cols, (s - 1) * per)]
  BY Zenon DEF Sharding!split_rows, Sharding!Tensor, Cells, RowsFrom

\* Shard s of a column-parallel layer computes columns z and up, z = (s - 1) * per.
LEMMA ColumnShard ==
  ASSUME NEW a, NEW b, NEW n \in Nat \ {0}, NEW per \in Nat \ {0}, NEW c \in Nat \ {0},
         NEW s \in 1..n, NEW z \in Nat, NEW o \in 0..(a.rows - 1), NEW y \in 0..(per - 1)
  PROVE  IsMatrix(a) /\ a.cols = c /\ b.cols = c /\ per = b.rows \div n /\ z = (s - 1) * per
         => /\ Sharding!split_rows(b, n)[s].rows = per
            /\ Sharding!linear(a, Sharding!split_rows(b, n)[s]).data[Cell(o, per, y)]
                 = RowDot(a.data, b.data, c, o, z + y)
  <1>0. HAVE IsMatrix(a) /\ a.cols = c /\ b.cols = c /\ per = b.rows \div n /\ z = (s - 1) * per
  <1>1. PICK b1 : b1 = Sharding!split_rows(b, n)[s]
    OBVIOUS
  <1>2. b1.rows = per /\ \A i \in Cells(per, c) : b1.data[i] = b.data[z * c + i]
    <2>1. per = b.rows \div n
      BY <1>0
    <2>2. b1 = [rows |-> per, cols |-> b.cols,
                data |-> RowsFrom(b.data, per, b.cols, (s - 1) * per)]
      BY <1>1, <2>1, RowsOf, Zenon
    <2>3. b1.rows = per /\ b1.data = RowsFrom(b.data, per, c, z)
      BY <1>0, <2>2
    <2>4. QED
      BY <2>3 DEF RowsFrom
  <1>3. a.rows \in Nat /\ a.cols \in Nat /\ b1.rows \in Nat \ {0} /\ y \in 0..(b1.rows - 1)
    BY <1>0, <1>2 DEF IsMatrix
  <1>4. Sharding!linear(a, b1).data[Cell(o, b1.rows, y)] = RowDot(a.data, b1.data, a.cols, o, y)
    BY <1>3, LinearAt
  <1>5. ASSUME NEW k \in 0..(c - 1)
        PROVE  Products(a.data, b1.data, c, o, y)[k] = Products(a.data, b.data, c, o, z + y)[k]
    <2>1. Cell(y, c, k) \in Cells(per, c)
      BY CellIs
    <2>2. z * c + Cell(y, c, k) = Cell(z + y, c, k)
      BY DEF Cell
    <2>3. b1.data[Cell(y, c, k)] = b.data[Cell(z + y, c, k)]
      BY <1>2, <2>1, <2>2
    <2>4. QED
      BY <2>3 DEF Products
  <1>6. RowDot(a.data, b1.data, c, o, y) = RowDot(a.data, b.data, c, o, z + y)
    <2>1. IsFiniteSet(0..(c - 1))
      BY FS_Interval
    <2>2. QED
      BY <1>5, <2>1, TotalSame, Zenon DEF RowDot
  <1>7. QED
    BY <1>0, <1>1, <1>2, <1>4, <1>6

\* Columns z and up of the h by c matrix d, per of them.
ColumnsFrom(d, h, per, c, z) ==
    [i \in Cells(h, per) |-> d[(i \div per) * c + z + (i % per)]]

\* A column of one shard is a column of the whole.
LEMMA ColumnsAt ==
  ASSUME NEW h \in Nat, NEW per \in Nat \ {0}, NEW c \in Nat, NEW z \in Nat, NEW d,
         NEW o \in 0..(h - 1), NEW k \in 0..(per - 1)
  PROVE  ColumnsFrom(d, h, per, c, z)[Cell(o, per, k)] = d[Cell(o, c, z + k)]
  <1>1. Cell(o, per, k) \in Cells(h, per) /\ Cell(o, per, k) \div per = o /\ Cell(o, per, k) % per = k
    BY CellIs
  <1>2. ColumnsFrom(d, h, per, c, z)[Cell(o, per, k)] = d[o * c + z + k]
    BY <1>1 DEF ColumnsFrom
  <1>3. o * c + z + k = Cell(o, c, z + k)
    BY DEF Cell
  <1>4. QED
    BY <1>2, <1>3

\* The columns of one shard.
LEMMA ColumnsOf ==
  ASSUME NEW m, NEW n \in Nat \ {0}, NEW s \in 1..n, NEW per, per = m.cols \div n
  PROVE  Sharding!split_columns(m, n)[s]
           = [rows |-> m.rows, cols |-> per,
              data |-> ColumnsFrom(m.data, m.rows, per, m.cols, (s - 1) * per)]
  BY Zenon DEF Sharding!split_columns, Sharding!Tensor, ColumnsFrom, Cells

\* Row o of a1 is that of a from column z on.
IsPiece(a1, a, per, c, z, o) == \A k \in 0..(per - 1) : a1[Cell(o, per, k)] = a[Cell(o, c, z + k)]

\* The products of columns z and up of two matrices are products of the matrices.
LEMMA PieceOfRow ==
  ASSUME NEW c \in Nat \ {0}, NEW h \in Nat, NEW g \in Nat,
         NEW a \in [Cells(h, c) -> Int], NEW b \in [Cells(g, c) -> Int],
         NEW per \in Nat, NEW z \in Nat, z + per <= c, NEW a1, NEW b1,
         NEW o \in 0..(h - 1), NEW j \in 0..(g - 1),
         IsPiece(a1, a, per, c, z, o), IsPiece(b1, b, per, c, z, j)
  PROVE  /\ RowDot(a1, b1, per, o, j) = Total(Products(a, b, c, o, j), z..(z + per - 1))
         /\ \A k \in 0..(c - 1) : Products(a, b, c, o, j)[k] \in Int
  <1>1. \A k \in 0..(c - 1) : Products(a, b, c, o, j)[k] \in Int
    BY ProductsInt, Zenon
  <1>2. ASSUME NEW k \in 0..(per - 1)
        PROVE  /\ Products(a, b, c, o, j)[z + k] \in Int
               /\ Products(a1, b1, per, o, j)[k] = Products(a, b, c, o, j)[z + k]
    BY <1>1, SMTT(30) DEF Products, IsPiece
  <1>3. Total(Products(a1, b1, per, o, j), 0..(per - 1)) = Total(Products(a, b, c, o, j), z..(z + per - 1))
    BY <1>2, TotalShift, Zenon
  <1>4. QED
    BY <1>1, <1>3 DEF RowDot

\* Both matrices of a row-parallel layer cut into n pieces of per columns, piece s from column z.
CutAt(a, b, n, per, c, s, z) ==
  IsMatrix(a) /\ IsMatrix(b) /\ a.cols = c /\ b.cols = c /\ c = n * per /\ per = c \div n /\ z = (s - 1) * per

\* What shard s puts at row o, column j: the products of its own columns, added.
OwnProducts(a, b, n, per, c, s, z, o, j) ==
  /\ Sharding!linear(Sharding!split_columns(a, n)[s], Sharding!split_columns(b, n)[s]).data[Cell(o, b.rows, j)]
       = Total(Products(a.data, b.data, c, o, j), z..(z + per - 1))
  /\ \A k \in 0..(c - 1) : Products(a.data, b.data, c, o, j)[k] \in Int

\* Shard s of a row-parallel layer adds up the products from z on, z = (s - 1) * per.
LEMMA RowShard ==
  ASSUME NEW a, NEW b, NEW n \in Nat \ {0}, NEW per \in Nat \ {0}, NEW c \in Nat \ {0},
         NEW s \in 1..n, NEW z \in Nat, NEW o \in 0..(a.rows - 1), NEW j \in 0..(b.rows - 1)
  PROVE  CutAt(a, b, n, per, c, s, z) => OwnProducts(a, b, n, per, c, s, z, o, j)
  <1>. HAVE CutAt(a, b, n, per, c, s, z)
  <1>0. IsMatrix(a) /\ IsMatrix(b) /\ a.cols = c /\ b.cols = c /\ c = n * per /\ per = c \div n
        /\ z = (s - 1) * per
    BY DEF CutAt
  <1>1. PICK a1 : a1 = Sharding!split_columns(a, n)[s]
    OBVIOUS
  <1>2. PICK b1 : b1 = Sharding!split_columns(b, n)[s]
    OBVIOUS
  <1>3. PICK h \in Nat : h = a.rows
    BY <1>0 DEF IsMatrix
  <1>4. PICK g \in Nat \ {0} : g = b.rows
    BY <1>0 DEF IsMatrix
  <1>5. a1.rows = h /\ a1.cols = per /\ a1.data = ColumnsFrom(a.data, h, per, c, z)
    <2>1. per = a.cols \div n
      BY <1>0
    <2>2. a1 = [rows |-> a.rows, cols |-> per, data |-> ColumnsFrom(a.data, a.rows, per, a.cols, (s - 1) * per)]
      BY <1>1, <2>1, ColumnsOf, ZenonT(60)
    <2>3. QED
      BY <1>0, <1>3, <2>2
  <1>6. b1.rows = g /\ b1.data = ColumnsFrom(b.data, g, per, c, z)
    <2>1. per = b.cols \div n
      BY <1>0
    <2>2. b1 = [rows |-> b.rows, cols |-> per, data |-> ColumnsFrom(b.data, b.rows, per, b.cols, (s - 1) * per)]
      BY <1>2, <2>1, ColumnsOf, ZenonT(60)
    <2>3. QED
      BY <1>0, <1>4, <2>2
  <1>7. o \in 0..(h - 1) /\ j \in 0..(g - 1) /\ c \in Nat /\ g \in Nat /\ per \in Nat
        /\ a.data \in [Cells(h, c) -> Int] /\ b.data \in [Cells(g, c) -> Int]
    BY <1>0, <1>3, <1>4 DEF IsMatrix
  <1>8. IsPiece(a1.data, a.data, per, c, z, o) /\ IsPiece(b1.data, b.data, per, c, z, j)
    <2>1. \A k \in 0..(per - 1) : a1.data[Cell(o, per, k)] = a.data[Cell(o, c, z + k)]
      BY <1>5, <1>7, ColumnsAt
    <2>2. \A k \in 0..(per - 1) : b1.data[Cell(j, per, k)] = b.data[Cell(j, c, z + k)]
      BY <1>6, <1>7, ColumnsAt
    <2>3. QED
      BY <2>1, <2>2 DEF IsPiece
  <1>9. z + per <= c
    BY <1>0
  <1>10. Sharding!linear(a1, b1).data[Cell(o, g, j)] = RowDot(a1.data, b1.data, per, o, j)
    BY <1>5, <1>6, <1>7, LinearAt
  <1>11. /\ RowDot(a1.data, b1.data, per, o, j) = Total(Products(a.data, b.data, c, o, j), z..(z + per - 1))
         /\ \A k \in 0..(c - 1) : Products(a.data, b.data, c, o, j)[k] \in Int
    BY <1>7, <1>8, <1>9, PieceOfRow
  <1>12. QED
    BY <1>1, <1>2, <1>4, <1>10, <1>11 DEF OwnProducts

-----------------------------------------------------------------------------
(* A sharded linear layer: its outputs put together. *)

\* The output of shard s of n, and those of the first k.
ShardOutput(a, b, n, m, s) ==
    IF m = "column" THEN Sharding!linear(a, Sharding!split_rows(b, n)[s])
    ELSE Sharding!linear(Sharding!split_columns(a, n)[s], Sharding!split_columns(b, n)[s])
Outputs(a, b, n, m, k) == [s \in 1..k |-> ShardOutput(a, b, n, m, s)]

\* n parts of h rows and per columns.
Uniform(parts, n, h, per) == /\ Len(parts) = n /\ DOMAIN parts = 1..n /\ parts[1].rows = h
                             /\ \A p \in 1..n : parts[p].cols = per

\* Parts of one width start at its multiples.
LEMMA OffsetIs ==
  ASSUME NEW parts, NEW n \in Nat, NEW per \in Nat, NEW h, Uniform(parts, n, h, per), NEW x1 \in 1..(n + 1)
  PROVE  Sharding!Offset(parts, x1) = (x1 - 1) * per
  <1> DEFINE v == [p \in DOMAIN parts |-> parts[p].cols]
             P == {m \in Nat : m <= n => Total(v, 1..m) = m * per}
  <1>1. \A p \in 1..n : v[p] = per
    BY DEF Uniform
  <1>0. PICK u \in Nat : u = x1 - 1 /\ u <= n
    OBVIOUS
  <1>2. Sharding!Offset(parts, x1) = Total(v, 1..u)
    BY <1>0, FS_Interval, ShardSumIsTotal DEF Sharding!Offset
  <1> HIDE DEF v
  <1>3. 0 \in P
    BY TotalNone
  <1>4. ASSUME NEW m \in Nat, m \in P PROVE m + 1 \in P
    <2>1. SUFFICES ASSUME m + 1 <= n PROVE Total(v, 1..(m + 1)) = (m + 1) * per
      OBVIOUS
    <2>2. \A p \in 1..(1 + m) : v[p] \in Int
      BY <1>1, <2>1
    <2>3. Total(v, 1..(1 + m)) = Total(v, 1..(1 + m - 1)) + v[1 + m]
      BY <2>2, TotalLast, Zenon
    <2>4. 1 + m = m + 1 /\ 1 + m - 1 = m /\ v[1 + m] = per
      BY <1>1, <2>1
    <2>5. Total(v, 1..m) = m * per
      BY <1>4, <2>1
    <2>6. Total(v, 1..(m + 1)) = m * per + per
      BY <2>3, <2>4, <2>5
    <2>7. m * per + per = (m + 1) * per
      OBVIOUS
    <2>8. QED
      BY <2>6, <2>7
  <1> HIDE DEF P
  <1>5. u \in P
    BY <1>3, <1>4, Induct
  <1>6. QED
    BY <1>0, <1>2, <1>5 DEF P

PartAt(parts, c) == Sharding!Max({p \in DOMAIN parts : Sharding!Offset(parts, p) <= c})

\* The part that column y1 of part u + 1 is looked for in is that part.
LEMMA PartIs ==
  ASSUME NEW parts, NEW n \in Nat, NEW per \in Nat \ {0}, NEW h, Uniform(parts, n, h, per), NEW u \in 0..(n - 1), NEW y1 \in 0..(per - 1)
  PROVE  PartAt(parts, Cell(u, per, y1)) = u + 1
  <1>1. ASSUME NEW p \in 1..n
        PROVE  Sharding!Offset(parts, p) <= Cell(u, per, y1) <=> p <= u + 1
    BY OffsetIs, MultiplesUpTo DEF Cell
  <1> DEFINE S == {p \in DOMAIN parts : Sharding!Offset(parts, p) <= Cell(u, per, y1)}
  <1>2. u + 1 \in S /\ \A p \in S : p <= u + 1 /\ p \in Int
    BY <1>1 DEF Uniform
  <1>3. PartAt(parts, Cell(u, per, y1)) = CHOOSE p \in S : \A p2 \in S : p >= p2
    BY Zenon DEF PartAt, Sharding!Max
  <1> HIDE DEF S
  <1>4. PICK e : e = CHOOSE p \in S : \A p2 \in S : p >= p2
    OBVIOUS
  <1>5. e \in S /\ e >= u + 1
    BY <1>2, <1>4
  <1>6. QED
    BY <1>2, <1>3, <1>4, <1>5

\* What the whole takes from a part for its place i.
FromPart(parts, i, total) ==
    parts[PartAt(parts, i % total)].data[
        (i \div total) * parts[PartAt(parts, i % total)].cols + (i % total)
        - Sharding!Offset(parts, PartAt(parts, i % total))]

\* Outputs next to each other, cell by cell.
LEMMA ConcatIs ==
  ASSUME NEW parts, NEW total, total = Sharding!Offset(parts, Len(parts) + 1)
  PROVE  /\ Shaped(Sharding!concat_columns(parts), parts[1].rows, total)
         /\ \A i \in Cells(parts[1].rows, total) :
               Sharding!concat_columns(parts).data[i] = FromPart(parts, i, total)
  <1> DEFINE L == [rows |-> parts[1].rows, cols |-> total,
                   data |-> [i \in Cells(parts[1].rows, total) |-> FromPart(parts, i, total)]]
  <1>1. Sharding!concat_columns(parts) = L
    BY Zenon DEF Sharding!concat_columns, Sharding!Tensor, Cells, PartAt, FromPart
  <1>2. /\ Shaped(L, parts[1].rows, total)
        /\ \A i \in Cells(parts[1].rows, total) : L.data[i] = FromPart(parts, i, total)
    BY DEF Shaped
  <1> HIDE DEF L
  <1>3. QED
    BY <1>1, <1>2, Zenon

Joined(T, parts, n, h, per, total) ==
    \A o \in 0..(h - 1), u \in 0..(n - 1), y1 \in 0..(per - 1) :
       T.data[Cell(o, total, Cell(u, per, y1))] = parts[u + 1].data[Cell(o, per, y1)]

\* Column y1 of part u + 1 becomes column u * per + y1 of the whole.
LEMMA ConcatAt ==
  ASSUME NEW parts, NEW n \in Nat \ {0}, NEW per \in Nat \ {0}, NEW h \in Nat,
         Uniform(parts, n, h, per), NEW total \in Nat \ {0}, total = n * per
  PROVE  /\ Shaped(Sharding!concat_columns(parts), h, total)
         /\ Joined(Sharding!concat_columns(parts), parts, n, h, per, total)
  <1>2. total = Sharding!Offset(parts, Len(parts) + 1)
    <2>1. per \in Nat /\ n \in Nat /\ n + 1 \in 1..(n + 1) /\ (n + 1) - 1 = n
      OBVIOUS
    <2>2. Sharding!Offset(parts, n + 1) = total
      BY <2>1, OffsetIs
    <2>3. QED
      BY <2>2 DEF Uniform
  <1>3. /\ Shaped(Sharding!concat_columns(parts), h, total)
        /\ \A i \in Cells(h, total) : Sharding!concat_columns(parts).data[i] = FromPart(parts, i, total)
    BY <1>2, ConcatIs DEF Uniform
  <1>4. ASSUME NEW o \in 0..(h - 1), NEW u \in 0..(n - 1), NEW y1 \in 0..(per - 1)
        PROVE  Sharding!concat_columns(parts).data[Cell(o, total, Cell(u, per, y1))]
                 = parts[u + 1].data[Cell(o, per, y1)]
    <2>1. PICK j \in 0..(total - 1) : j = Cell(u, per, y1)
      BY CellIs DEF Cells
    <2>2. Cell(o, total, j) \in Cells(h, total) /\ Cell(o, total, j) \div total = o
          /\ Cell(o, total, j) % total = j
      BY CellIs
    <2>3. PICK i \in Cells(h, total) : i = Cell(o, total, j)
      BY <2>2
    <2>4. i \div total = o /\ i % total = j
      BY <2>2, <2>3
    <2>5. PartAt(parts, j) = u + 1
      BY <2>1, PartIs
    <2>6. FromPart(parts, i, total)
            = parts[u + 1].data[o * parts[u + 1].cols + j - Sharding!Offset(parts, u + 1)]
      BY <2>4, <2>5, Zenon DEF FromPart
    <2>7. parts[u + 1].cols = per
      BY DEF Uniform
    <2>8. Sharding!Offset(parts, u + 1) = u * per
      BY OffsetIs
    <2>9. o * per + j - u * per = Cell(o, per, y1)
      BY <2>1 DEF Cell
    <2>10. FromPart(parts, i, total) = parts[u + 1].data[Cell(o, per, y1)]
      BY <2>6, <2>7, <2>8, <2>9, Zenon
    <2>11. Sharding!concat_columns(parts).data[i] = parts[u + 1].data[Cell(o, per, y1)]
      BY <1>3, <2>10
    <2>12. QED
      BY <2>1, <2>3, <2>11
  <1>5. QED
    BY <1>3, <1>4 DEF Joined

\* Concatenating the outputs of a column-parallel layer gives that of the whole one.
LEMMA ColumnsTogether ==
  ASSUME NEW a, NEW b, NEW n \in Nat \ {0}
  PROVE  IsMatrix(a) /\ IsMatrix(b) /\ a.cols = b.cols /\ b.rows % n = 0
         => Sharding!concat_columns(Outputs(a, b, n, "column", n)) = Sharding!linear(a, b)
  <1>0. HAVE IsMatrix(a) /\ IsMatrix(b) /\ a.cols = b.cols /\ b.rows % n = 0
  <1>1. PICK h \in Nat \ {0}, g \in Nat \ {0}, c \in Nat \ {0} : h = a.rows /\ g = b.rows /\ c = a.cols /\ c = b.cols
    BY <1>0 DEF IsMatrix
  <1>2. PICK per \in Nat \ {0} : per = g \div n /\ g = n * per
    <2>1. g % n = 0
      BY <1>0, <1>1
    <2>2. QED
      BY <2>1, Divided, ZenonT(60)
  <1>3. PICK parts : parts = Outputs(a, b, n, "column", n)
    OBVIOUS
  <1>4. per = b.rows \div n
    BY <1>1, <1>2
  <1>5. ASSUME NEW s \in 1..n
        PROVE  /\ parts[s] = Sharding!linear(a, Sharding!split_rows(b, n)[s])
               /\ parts[s].rows = h /\ parts[s].cols = per
    <2>1. parts[s] = Sharding!linear(a, Sharding!split_rows(b, n)[s])
      BY <1>3 DEF Outputs, ShardOutput
    <2>2. PICK b1 : b1 = Sharding!split_rows(b, n)[s]
      OBVIOUS
    <2>3. b1 = [rows |-> per, cols |-> b.cols,
                data |-> RowsFrom(b.data, per, b.cols, (s - 1) * per)]
      BY <1>4, <2>2, RowsOf, Zenon
    <2>4. b1.rows = per
      BY <2>3
    <2>5. Sharding!linear(a, b1).rows = a.rows /\ Sharding!linear(a, b1).cols = b1.rows
      BY <1>1, LinearIs
    <2>6. QED
      BY <1>1, <2>1, <2>2, <2>4, <2>5
  <1>6. Uniform(parts, n, h, per)
    BY <1>3, <1>5 DEF Outputs, Uniform
  <1>7. PICK T : T = Sharding!concat_columns(parts)
    OBVIOUS
  <1>8. Shaped(T, h, g) /\ Joined(T, parts, n, h, per, g)
    BY <1>2, <1>6, <1>7, ConcatAt
  <1>9. Shaped(Sharding!linear(a, b), h, g)
    BY <1>1, LinearIs
  <1>10. ASSUME NEW i \in Cells(h, g) PROVE T.data[i] = Sharding!linear(a, b).data[i]
    <2>1. PICK o \in 0..(h - 1), j \in 0..(g - 1) : i = Cell(o, g, j)
      BY CellOf
    <2>2. j \in Cells(n, per)
      BY <1>2 DEF Cells
    <2>3. PICK u \in 0..(n - 1), y1 \in 0..(per - 1) : j = Cell(u, per, y1)
      BY <2>2, CellOf
    <2>4. T.data[i] = parts[u + 1].data[Cell(o, per, y1)]
      BY <1>8, <2>1, <2>3 DEF Joined
    <2>5. PICK s \in 1..n, z \in Nat : s = u + 1 /\ z = u * per /\ z = (s - 1) * per
      OBVIOUS
    <2>6. parts[s].data[Cell(o, per, y1)] = RowDot(a.data, b.data, c, o, z + y1)
      <3>1. o \in 0..(a.rows - 1) /\ a.cols = c /\ b.cols = c
        BY <1>1
      <3>2. Sharding!linear(a, Sharding!split_rows(b, n)[s]).data[Cell(o, per, y1)]
              = RowDot(a.data, b.data, c, o, z + y1)
        BY <1>0, <1>4, <2>5, <3>1, ColumnShard
      <3>3. QED
        BY <1>5, <3>2
    <2>7. z + y1 = j
      BY <2>3, <2>5 DEF Cell
    <2>8. Sharding!linear(a, b).data[i] = RowDot(a.data, b.data, c, o, j)
      <3>1. a.cols \in Nat /\ a.rows \in Nat /\ b.rows \in Nat \ {0} /\ o \in 0..(a.rows - 1) /\ j \in 0..(b.rows - 1)
        BY <1>1
      <3>2. Sharding!linear(a, b).data[Cell(o, b.rows, j)] = RowDot(a.data, b.data, a.cols, o, j)
        BY <3>1, LinearAt
      <3>3. QED
        BY <1>1, <2>1, <3>2
    <2>9. QED
      BY <2>4, <2>5, <2>6, <2>7, <2>8
  <1>11. T = Sharding!linear(a, b)
    BY <1>8, <1>9, <1>10, ShapedEqual
  <1>12. QED
    BY <1>3, <1>7, <1>11

\* What sum() adds up for its place i.
Addends(parts, i) == [p \in DOMAIN parts |-> parts[p].data[i]]

\* Partial sums added, cell by cell.
LEMMA AddedIs ==
  ASSUME NEW parts, NEW n \in Nat, DOMAIN parts = 1..n
  PROVE  /\ Shaped(Sharding!sum(parts), parts[1].rows, parts[1].cols)
         /\ \A i \in Cells(parts[1].rows, parts[1].cols) :
               Sharding!sum(parts).data[i] = Total(Addends(parts, i), 1..n)
  <1> DEFINE L == [rows |-> parts[1].rows, cols |-> parts[1].cols,
                   data |-> [i \in Cells(parts[1].rows, parts[1].cols) |-> Sharding!SumFunction(Addends(parts, i))]]
  <1>1. Sharding!sum(parts) = L
    BY Zenon DEF Sharding!sum, Sharding!Tensor, Cells, Addends
  <1>2. /\ Shaped(L, parts[1].rows, parts[1].cols)
        /\ \A i \in Cells(parts[1].rows, parts[1].cols) : L.data[i] = Sharding!SumFunction(Addends(parts, i))
    BY DEF Shaped
  <1>3. ASSUME NEW i PROVE Sharding!SumFunction(Addends(parts, i)) = Total(Addends(parts, i), 1..n)
    BY FS_Interval, ShardSumIsTotal DEF Addends, Sharding!SumFunction
  <1> HIDE DEF L
  <1>4. QED
    BY <1>1, <1>2, <1>3, Zenon

\* Adding up the outputs of a row-parallel layer gives that of the whole one.
LEMMA RowsTogether ==
  ASSUME NEW a, NEW b, NEW n \in Nat \ {0}
  PROVE  IsMatrix(a) /\ IsMatrix(b) /\ a.cols = b.cols /\ b.cols % n = 0
         => Sharding!sum(Outputs(a, b, n, "row", n)) = Sharding!linear(a, b)
  <1>0. HAVE IsMatrix(a) /\ IsMatrix(b) /\ a.cols = b.cols /\ b.cols % n = 0
  <1>1. PICK h \in Nat \ {0}, g \in Nat \ {0}, c \in Nat \ {0} : h = a.rows /\ g = b.rows /\ c = a.cols /\ c = b.cols
    BY <1>0 DEF IsMatrix
  <1>2. PICK per \in Nat \ {0} : per = c \div n /\ c = n * per
    BY <1>0, <1>1, Divided
  <1>3. PICK parts : parts = Outputs(a, b, n, "row", n)
    OBVIOUS
  <1>4. DOMAIN parts = 1..n
    BY <1>3 DEF Outputs
  <1>5. ASSUME NEW s \in 1..n
        PROVE  /\ parts[s] = Sharding!linear(Sharding!split_columns(a, n)[s], Sharding!split_columns(b, n)[s])
               /\ parts[s].rows = h /\ parts[s].cols = g
    <2>1. parts[s] = Sharding!linear(Sharding!split_columns(a, n)[s], Sharding!split_columns(b, n)[s])
      BY <1>3 DEF Outputs, ShardOutput
    <2>2. PICK a1, b1 : a1 = Sharding!split_columns(a, n)[s] /\ b1 = Sharding!split_columns(b, n)[s]
      OBVIOUS
    <2>3. a1.rows = h /\ a1.cols = per
      <3>1. per = a.cols \div n
        BY <1>1, <1>2
      <3>2. a1 = [rows |-> a.rows, cols |-> per, data |-> ColumnsFrom(a.data, a.rows, per, a.cols, (s - 1) * per)]
        BY <2>2, <3>1, ColumnsOf, ZenonT(60)
      <3>3. QED
        BY <1>1, <3>2
    <2>4. b1.rows = g
      <3>1. per = b.cols \div n
        BY <1>1, <1>2
      <3>2. b1 = [rows |-> b.rows, cols |-> per, data |-> ColumnsFrom(b.data, b.rows, per, b.cols, (s - 1) * per)]
        BY <2>2, <3>1, ColumnsOf, ZenonT(60)
      <3>3. QED
        BY <1>1, <3>2
    <2>5. Sharding!linear(a1, b1).rows = a1.rows /\ Sharding!linear(a1, b1).cols = b1.rows
      BY <2>3, LinearIs
    <2>6. QED
      BY <2>1, <2>2, <2>3, <2>4, <2>5
  <1>6. PICK T : T = Sharding!sum(parts)
    OBVIOUS
  <1>7. /\ Shaped(T, h, g)
        /\ \A i \in Cells(h, g) : T.data[i] = Total(Addends(parts, i), 1..n)
    BY <1>4, <1>5, <1>6, AddedIs
  <1>8. Shaped(Sharding!linear(a, b), h, g)
    BY <1>1, LinearIs
  <1>9. ASSUME NEW i \in Cells(h, g) PROVE T.data[i] = Sharding!linear(a, b).data[i]
    <2>1. PICK o \in 0..(h - 1), j \in 0..(g - 1) : i = Cell(o, g, j)
      BY CellOf
    <2>2. PICK V : V = Products(a.data, b.data, c, o, j)
      OBVIOUS
    <2>3. ASSUME NEW s \in 1..n
          PROVE  /\ Addends(parts, i)[s] = Total(V, ((s - 1) * per)..((s - 1) * per + per - 1))
                 /\ \A k \in 0..(c - 1) : V[k] \in Int
      <3>1. PICK z \in Nat : z = (s - 1) * per
        OBVIOUS
      <3>2. o \in 0..(a.rows - 1) /\ j \in 0..(b.rows - 1) /\ a.cols = c /\ b.cols = c
        BY <1>1
      <3>3. /\ Sharding!linear(Sharding!split_columns(a, n)[s], Sharding!split_columns(b, n)[s]).data[Cell(o, b.rows, j)]
                 = Total(Products(a.data, b.data, c, o, j), z..(z + per - 1))
            /\ \A k \in 0..(c - 1) : Products(a.data, b.data, c, o, j)[k] \in Int
        <4>1. CutAt(a, b, n, per, c, s, z)
          BY <1>0, <1>2, <3>1, <3>2 DEF CutAt
        <4>2. OwnProducts(a, b, n, per, c, s, z, o, j)
          BY <3>2, <4>1, RowShard, Zenon
        <4>3. QED
          BY <4>2 DEF OwnProducts
      <3>4. parts[s].data[i] = Total(V, z..(z + per - 1))
        BY <1>1, <1>5, <2>1, <2>2, <3>3
      <3>5. Addends(parts, i)[s] = parts[s].data[i]
        BY <1>4 DEF Addends
      <3>6. QED
        BY <2>2, <3>1, <3>3, <3>4, <3>5
    <2>4. Total(Addends(parts, i), 1..n) = Total(V, 0..(c - 1))
      <3>1. 1 \in 1..n /\ per \in Nat /\ n \in Nat
        OBVIOUS
      <3>2. \A k \in 0..(c - 1) : V[k] \in Int
        BY <2>3, <3>1
      <3>3. \A s \in 1..n : Addends(parts, i)[s] = Total(V, ((s - 1) * per)..((s - 1) * per + per - 1))
        BY <2>3
      <3> DEFINE U == Addends(parts, i)
      <3> HIDE DEF U
      <3>4. \A k \in 0..(n * per - 1) : V[k] \in Int
        BY <1>2, <3>2
      <3>5. \A s \in 1..n : U[s] = Total(V, ((s - 1) * per)..((s - 1) * per + per - 1))
        BY <3>3 DEF U
      <3>6. Total(U, 1..n) = Total(V, 0..(n * per - 1))
        BY <3>1, <3>4, <3>5, TotalPieces
      <3>7. QED
        BY <1>2, <3>6 DEF U
    <2>5. Sharding!linear(a, b).data[i] = RowDot(a.data, b.data, c, o, j)
      <3>1. a.cols \in Nat /\ a.rows \in Nat /\ b.rows \in Nat \ {0} /\ o \in 0..(a.rows - 1) /\ j \in 0..(b.rows - 1)
        BY <1>1
      <3>2. Sharding!linear(a, b).data[Cell(o, b.rows, j)] = RowDot(a.data, b.data, a.cols, o, j)
        BY <3>1, LinearAt
      <3>3. QED
        BY <1>1, <2>1, <3>2
    <2>6. QED
      BY <1>7, <2>2, <2>4, <2>5 DEF RowDot
  <1>10. T = Sharding!linear(a, b)
    BY <1>7, <1>8, <1>9, ShapedEqual
  <1>11. QED
    BY <1>3, <1>6, <1>10

-----------------------------------------------------------------------------
(* A sharded linear layer: the run. *)

ShardsOf(a, b, n, m) ==
    /\ weights = IF m = "column" THEN Sharding!split_rows(b, n) ELSE Sharding!split_columns(b, n)
    /\ inputs = IF m = "column" THEN [s \in 1..n |-> a] ELSE Sharding!split_columns(a, n)

TensorInv == /\ IsMatrix(x) /\ IsMatrix(w) /\ x.cols = w.cols
             /\ shards \in Nat \ {0} /\ mode \in {"column", "row"}
             /\ pc = "split" => partials = <<>>
             /\ pc = "run" => /\ (IF mode = "column" THEN w.rows ELSE w.cols) % shards = 0
                              /\ ShardsOf(x, w, shards, mode)
                              /\ \E k \in 0..shards : partials = Outputs(x, w, shards, mode, k)
             /\ Sharding!MatchesUnsharded

\* The matrices of the problem are matrices.
LEMMA UnitIsMatrix ==
  ASSUME NEW h \in Nat \ {0}, NEW c \in Nat \ {0}, NEW n
  PROVE  IsMatrix(Sharding!Unit(h, c, n)) /\ Sharding!Unit(h, c, n).cols = c
  <1>1. Sharding!Unit(h, c, n)
          = [rows |-> h, cols |-> c, data |-> [i \in 0..(h * c - 1) |-> IF i = n THEN 1 ELSE 0]]
    BY Zenon DEF Sharding!Unit, Sharding!Tensor
  <1> DEFINE t == [i \in 0..(h * c - 1) |-> IF i = n THEN 1 ELSE 0]
  <1>2. t \in [0..(h * c - 1) -> Int]
    OBVIOUS
  <1> HIDE DEF t
  <1>3. PICK u : u = [rows |-> h, cols |-> c, data |-> t]
    OBVIOUS
  <1>4. u.rows = h /\ u.cols = c /\ u.data = t
    BY <1>3
  <1>5. u = Sharding!Unit(h, c, n)
    BY <1>1, <1>3 DEF t
  <1>6. QED
    BY <1>2, <1>4, <1>5, Zenon DEF IsMatrix, Cells

\* The layer starts in its invariant.
LEMMA TensorInit == Sharding!Init => TensorInv
  <1>1. SUFFICES ASSUME Sharding!Init PROVE TensorInv
    OBVIOUS
  <1>2. TensorRows \cup In \cup Out \cup ShardCounts \subseteq Nat \ {0}
    BY OperatorsAssumption, Zenon DEF Sharding!TensorParallelAssumption
  <1>3. PICK h \in TensorRows, c \in In, g \in Out :
            /\ x \in {Sharding!Unit(h, c, n) : n \in 0..(h * c - 1)}
            /\ w \in {Sharding!Unit(g, c, n) : n \in 0..(g * c - 1)}
    BY <1>1, Zenon DEF Sharding!Init
  <1>4. h \in Nat \ {0} /\ c \in Nat \ {0} /\ g \in Nat \ {0}
    BY <1>2
  <1>5. IsMatrix(x) /\ x.cols = c
    BY <1>3, <1>4, UnitIsMatrix
  <1>6. IsMatrix(w) /\ w.cols = c
    BY <1>3, <1>4, UnitIsMatrix
  <1>7. shards \in Nat \ {0} /\ mode \in {"column", "row"} /\ partials = <<>> /\ pc = "split"
    BY <1>1, <1>2 DEF Sharding!Init
  <1>8. QED
    BY <1>5, <1>6, <1>7 DEF TensorInv, Sharding!MatchesUnsharded

\* The outputs of the first shards are as many.
LEMMA OutputsLen ==
  ASSUME NEW a, NEW b, NEW n, NEW m, NEW k \in Nat
  PROVE  Len(Outputs(a, b, n, m, k)) = k
  <1> DEFINE F(s) == ShardOutput(a, b, n, m, s)
  <1> HIDE DEF F
  <1>1. Len([s \in 1..k |-> F(s)]) = k
    OBVIOUS
  <1>2. QED
    BY <1>1 DEF F, Outputs

\* The outputs of the first k shards followed by shard l's, the next one.
LEMMA OutputsGrow ==
  ASSUME NEW a, NEW b, NEW n, NEW m, NEW k \in Nat, NEW l \in {k + 1}
  PROVE  Append(Outputs(a, b, n, m, k), ShardOutput(a, b, n, m, l)) = Outputs(a, b, n, m, l)
  <1> DEFINE F(s) == ShardOutput(a, b, n, m, s)
  <1> HIDE DEF F
  <1>1. Append([s \in 1..k |-> F(s)], F(k + 1)) = [s \in 1..(k + 1) |-> F(s)]
    OBVIOUS
  <1>2. Append([s \in 1..k |-> F(s)], F(l)) = [s \in 1..l |-> F(s)]
    BY <1>1
  <1>3. QED
    BY <1>2 DEF F, Outputs

\* Every step of the sharded layer keeps the invariant.
LEMMA TensorNext == TensorInv /\ [Sharding!Next]_(Sharding!vars) => TensorInv'
  <1>1. SUFFICES ASSUME TensorInv, [Sharding!Next]_(Sharding!vars) PROVE TensorInv'
    OBVIOUS
  <1>2. CASE Sharding!Throw
    BY <1>1, <1>2 DEF TensorInv, Sharding!Throw, Sharding!problem, Sharding!MatchesUnsharded
  <1>3. ASSUME NEW t, t = Outputs(x, w, shards, mode, 0) PROVE t = <<>>
    BY <1>3 DEF Outputs
  <1>4. CASE Sharding!SplitColumnParallel
    <2>1. x' = x /\ w' = w /\ shards' = shards /\ mode' = mode /\ partials' = partials /\ pc' = "run"
          /\ mode = "column" /\ pc = "split" /\ Sharding!Divides
          /\ weights' = Sharding!split_rows(w, shards) /\ inputs' = [s \in 1..shards |-> x]
      BY <1>4 DEF Sharding!SplitColumnParallel, Sharding!problem
    <2>2. 0 \in 0..shards /\ partials' = Outputs(x, w, shards, mode, 0)
      BY <1>1, <1>3, <2>1 DEF TensorInv
    <2>3. QED
      BY <1>1, <2>1, <2>2 DEF TensorInv, ShardsOf, Sharding!Divides, Sharding!MatchesUnsharded
  <1>5. CASE Sharding!SplitRowParallel
    <2>1. x' = x /\ w' = w /\ shards' = shards /\ mode' = mode /\ partials' = partials /\ pc' = "run"
          /\ mode = "row" /\ pc = "split" /\ Sharding!Divides
          /\ weights' = Sharding!split_columns(w, shards) /\ inputs' = Sharding!split_columns(x, shards)
      BY <1>5 DEF Sharding!SplitRowParallel, Sharding!problem
    <2>2. 0 \in 0..shards /\ partials' = Outputs(x, w, shards, mode, 0)
      BY <1>1, <1>3, <2>1 DEF TensorInv
    <2>3. QED
      BY <1>1, <2>1, <2>2 DEF TensorInv, ShardsOf, Sharding!Divides, Sharding!MatchesUnsharded
  <1>6. CASE Sharding!RunShard
    <2>1. x' = x /\ w' = w /\ shards' = shards /\ mode' = mode /\ pc' = pc
          /\ weights' = weights /\ inputs' = inputs /\ out' = out
          /\ pc = "run" /\ Len(partials) + 1 <= shards
          /\ partials' = Append(partials, Sharding!linear(inputs[Len(partials) + 1], weights[Len(partials) + 1]))
      BY <1>6 DEF Sharding!RunShard, Sharding!problem
    <2>2. PICK k \in 0..shards : partials = Outputs(x, w, shards, mode, k)
      BY <1>1, <2>1 DEF TensorInv
    <2>3. k \in Nat /\ shards \in Nat \ {0}
      BY <1>1 DEF TensorInv
    <2>4. Len(partials) = k /\ k + 1 \in 1..shards /\ k + 1 \in 0..shards
      BY <2>1, <2>2, <2>3, OutputsLen
    <2>5. ShardsOf(x, w, shards, mode)
      BY <1>1, <2>1 DEF TensorInv
    <2>6. Sharding!linear(inputs[k + 1], weights[k + 1]) = ShardOutput(x, w, shards, mode, k + 1)
      BY <2>4, <2>5 DEF ShardsOf, ShardOutput
    <2>7. partials' = Outputs(x, w, shards, mode, k + 1)
      <3>1. PICK l \in {k + 1} : l = k + 1
        OBVIOUS
      <3>2. partials' = Append(partials, Sharding!linear(inputs[l], weights[l]))
        BY <2>1, <2>4, <3>1
      <3>3. Sharding!linear(inputs[l], weights[l]) = ShardOutput(x, w, shards, mode, l)
        BY <2>6, <3>1
      <3>4. k \in Nat
        BY <2>3
      <3>5. Append(Outputs(x, w, shards, mode, k), ShardOutput(x, w, shards, mode, l)) = Outputs(x, w, shards, mode, l)
        BY <3>1, <3>4, OutputsGrow, Zenon
      <3>6. partials' = Outputs(x, w, shards, mode, l)
        BY <2>2, <3>2, <3>3, <3>5
      <3>7. QED
        BY <3>1, <3>6
    <2>8. QED
      BY <1>1, <2>1, <2>4, <2>7 DEF TensorInv, ShardsOf, Sharding!MatchesUnsharded
  <1>7. CASE Sharding!Combine
    BY <1>1, <1>7, OutputsLen, ColumnsTogether, RowsTogether DEF Sharding!Combine, Sharding!problem, TensorInv,
      Sharding!MatchesUnsharded
  <1>8. CASE UNCHANGED Sharding!vars
    BY <1>1, <1>8 DEF TensorInv, ShardsOf, Sharding!vars, Sharding!MatchesUnsharded
  <1>9. QED
    BY <1>1, <1>2, <1>4, <1>5, <1>6, <1>7, <1>8 DEF Sharding!Next, Sharding!Finished

\* A run on the subject is a run of its module.
LEMMA TensorRuns ==
  /\ Init => (subject = "tensor" => Sharding!Init)
  /\ [Next]_allVars => UNCHANGED subject /\ (subject = "tensor" => [Sharding!Next]_(Sharding!vars))
  BY DEF Init, allVars, tensorVars, Sharding!vars, Next

\* Splitting a linear layer over shards changes nothing: columns concatenated and
\* partial sums added are the output of the whole layer, for every shape and every
\* number of shards that divides it.
THEOREM ShardedMatchesWhole == Spec => []MatchesUnsharded
  <1> DEFINE Inv == subject = "tensor" => TensorInv
  <1>1. Init => Inv
    BY TensorInit, TensorRuns
  <1>2. Inv /\ [Next]_allVars => Inv'
    BY TensorNext, TensorRuns
  <1>3. Inv => MatchesUnsharded
    BY DEF TensorInv, MatchesUnsharded
  <1>4. QED
    BY <1>1, <1>2, <1>3, PTL DEF Spec

-----------------------------------------------------------------------------
(* The forward pass: sequences one after the other. *)

FlatOf(f, g, n) == f = [i \in 1..n |-> IF i = 1 THEN g[i] ELSE f[i - 1] \o g[i]]

\* The first k sequences of g in one, and the place before the i-th.
Joint(g, k) == Forwards!FlattenSeq([j \in 1..k |-> g[j]])
Before(g, i) == Len(Joint(g, i - 1))
AreSeqs(g, k, S) == \A j \in 1..k : g[j] \in Seq(S)

\* The equation of FlattenSeq has a solution.
LEMMA FlatExists ==
  ASSUME NEW g, NEW n \in Nat PROVE \E f : FlatOf(f, g, n)
  <1> DEFINE P == {m \in Nat : \E f : FlatOf(f, g, m)}
  <1>1. 0 \in P
    <2>1. FlatOf([i \in 1..0 |-> 0], g, 0)
      BY DEF FlatOf
    <2>2. QED
      BY <2>1
  <1>2. ASSUME NEW m \in Nat, m \in P PROVE m + 1 \in P
    <2>1. PICK f : FlatOf(f, g, m)
      BY <1>2
    <2>2. PICK h : h = [i \in 1..(m + 1) |-> IF i = m + 1 THEN (IF i = 1 THEN g[i] ELSE f[i - 1] \o g[i]) ELSE f[i]]
      OBVIOUS
    <2>3. ASSUME NEW i \in 1..(m + 1) PROVE h[i] = IF i = 1 THEN g[i] ELSE h[i - 1] \o g[i]
      <3>1. CASE i = m + 1
        BY <2>2, <3>1
      <3>2. CASE i # m + 1
        <4>1. i \in 1..m /\ (i # 1 => i - 1 \in 1..(m + 1) /\ i - 1 # m + 1)
          BY <3>2
        <4>2. h[i] = f[i] /\ (i # 1 => h[i - 1] = f[i - 1])
          BY <2>2, <3>2, <4>1
        <4>3. f[i] = IF i = 1 THEN g[i] ELSE f[i - 1] \o g[i]
          BY <2>1, <4>1 DEF FlatOf
        <4>4. QED
          BY <4>2, <4>3
      <3>3. QED
        BY <3>1, <3>2
    <2>4. FlatOf(h, g, m + 1)
      BY <2>2, <2>3 DEF FlatOf
    <2>5. QED
      BY <2>4
  <1> HIDE DEF P
  <1>3. n \in P
    BY <1>1, <1>2, Induct
  <1>4. QED
    BY <1>3 DEF P

\* Solutions for a list and for a prefix of it agree.
LEMMA FlatUnique ==
  ASSUME NEW g, NEW h, NEW n \in Nat, NEW m \in Nat, NEW f, NEW e, FlatOf(f, g, n), FlatOf(e, h, m),
         m <= n, \A i \in 1..m : g[i] = h[i], NEW k \in 1..m
  PROVE  f[k] = e[k]
  <1> DEFINE P == {i \in Nat : i + 1 <= m => f[i + 1] = e[i + 1]}
  <1>1. 0 \in P
    BY DEF FlatOf
  <1>2. ASSUME NEW i \in Nat, i \in P PROVE i + 1 \in P
    <2>1. SUFFICES ASSUME i + 2 <= m PROVE f[i + 2] = e[i + 2]
      OBVIOUS
    <2>2. i + 2 \in 1..m /\ i + 2 \in 1..n /\ i + 2 # 1 /\ (i + 2) - 1 = i + 1
      BY <2>1
    <2>3. f[i + 2] = f[i + 1] \o g[i + 2]
      BY <2>2, ZenonT(60) DEF FlatOf
    <2>4. e[i + 2] = e[i + 1] \o h[i + 2]
      BY <2>2 DEF FlatOf
    <2>5. f[i + 1] = e[i + 1]
      BY <1>2, <2>1
    <2>6. QED
      BY <2>2, <2>3, <2>4, <2>5
  <1> HIDE DEF P
  <1>3. k - 1 \in P
    BY <1>1, <1>2, Induct
  <1>4. QED
    BY <1>3 DEF P

\* One more sequence.
LEMMA JointIs ==
  ASSUME NEW g, NEW k \in Nat
  PROVE  /\ Joint(g, 0) = <<>>
         /\ \A S : g[k + 1] \in Seq(S) => Joint(g, k + 1) = Joint(g, k) \o g[k + 1]
  <1> DEFINE C(n) == CHOOSE f : FlatOf(f, [j \in 1..n |-> g[j]], n)
  <1>1. ASSUME NEW n \in Nat
        PROVE  FlatOf(C(n), [j \in 1..n |-> g[j]], n)
    BY FlatExists, Zenon
  <1>2. ASSUME NEW n \in Nat \ {0} PROVE Joint(g, n) = C(n)[n]
    BY DEF Joint, Forwards!FlattenSeq, FlatOf
  <1>3. Joint(g, 0) = <<>>
    BY DEF Joint, Forwards!FlattenSeq
  <1> HIDE DEF C
  <1>4. ASSUME NEW S, g[k + 1] \in Seq(S) PROVE Joint(g, k + 1) = Joint(g, k) \o g[k + 1]
    <2>1. k + 1 \in Nat \ {0} /\ k + 1 \in 1..(k + 1)
      OBVIOUS
    <2>2. PICK h : h = [j \in 1..(k + 1) |-> g[j]]
      OBVIOUS
    <2>3. FlatOf(C(k + 1), h, k + 1)
      BY <1>1, <2>1, <2>2
    <2>4. h[k + 1] = g[k + 1]
      BY <2>1, <2>2
    <2>5. CASE k = 0
      BY <1>2, <1>3, <1>4, <2>3, <2>4, <2>5 DEF FlatOf
    <2>6. CASE k # 0
      <3>1. PICK e : e = [j \in 1..k |-> g[j]]
        OBVIOUS
      <3>2. FlatOf(C(k), e, k)
        BY <1>1, <3>1
      <3>3. \A i \in 1..k : h[i] = e[i]
        BY <2>2, <3>1
      <3>4. k \in 1..k /\ k + 1 # 1 /\ (k + 1) - 1 = k
        BY <2>6
      <3>5. C(k + 1)[k] = C(k)[k]
        BY <2>1, <2>3, <3>2, <3>3, <3>4, FlatUnique
      <3>6. C(k + 1)[k + 1] = C(k + 1)[k] \o h[k + 1]
        BY <2>1, <2>3, <3>4 DEF FlatOf
      <3>7. Joint(g, k) = C(k)[k] /\ Joint(g, k + 1) = C(k + 1)[k + 1]
        BY <1>2, <2>1, <2>6
      <3>8. QED
        BY <2>4, <3>5, <3>6, <3>7
    <2>7. QED
      BY <2>5, <2>6
  <1>5. QED
    BY <1>3, <1>4

\* What is joined is a sequence, and its parts start one after the other.
LEMMA JointSeq ==
  ASSUME NEW g, NEW S, NEW n \in Nat, AreSeqs(g, n, S), NEW k \in 0..n
  PROVE  Joint(g, k) \in Seq(S) /\ Len(Joint(g, k)) \in Nat
  <1> DEFINE P == {m \in Nat : m <= n => Joint(g, m) \in Seq(S)}
  <1>1. 0 \in P
    <2>1. <<>> \in Seq(S)
      OBVIOUS
    <2>2. QED
      BY <2>1, JointIs
  <1>2. ASSUME NEW m \in Nat, m \in P PROVE m + 1 \in P
    <2>1. SUFFICES ASSUME m + 1 <= n PROVE Joint(g, m + 1) \in Seq(S)
      OBVIOUS
    <2>2. Joint(g, m) \in Seq(S)
      BY <1>2, <2>1
    <2>3. g[m + 1] \in Seq(S)
      BY <2>1 DEF AreSeqs
    <2>4. Joint(g, m + 1) = Joint(g, m) \o g[m + 1]
      BY <2>3, JointIs
    <2>5. Joint(g, m) \o g[m + 1] \in Seq(S)
      BY <2>2, <2>3, ConcatProperties, Zenon
    <2>6. QED
      BY <2>4, <2>5
  <1> HIDE DEF P
  <1>3. k \in P
    BY <1>1, <1>2, Induct
  <1>4. Joint(g, k) \in Seq(S)
    BY <1>3 DEF P
  <1>5. QED
    BY <1>4

\* Part i is followed by part i + 1.
LEMMA BeforeNext ==
  ASSUME NEW g, NEW S, NEW n \in Nat, AreSeqs(g, n, S), NEW i \in 1..n
  PROVE  /\ Before(g, i) \in Nat /\ Len(g[i]) \in Nat /\ Before(g, 1) = 0
         /\ Before(g, i + 1) = Before(g, i) + Len(g[i])
         /\ Joint(g, i) = Joint(g, i - 1) \o g[i]
  <1>1. g[i] \in Seq(S)
    BY DEF AreSeqs
  <1>2. Joint(g, i - 1) \in Seq(S) /\ Len(Joint(g, i - 1)) \in Nat
    BY JointSeq
  <1>3. PICK k \in Nat : k = i - 1 /\ i = k + 1
    OBVIOUS
  <1>4. Joint(g, i) = Joint(g, i - 1) \o g[i]
    BY <1>1, <1>3, JointIs
  <1>5. Len(Joint(g, i)) = Len(Joint(g, i - 1)) + Len(g[i])
    BY <1>1, <1>2, <1>4
  <1>6. Before(g, 1) = 0
    BY JointIs DEF Before
  <1>7. Before(g, i + 1) = Len(Joint(g, i)) /\ Before(g, i) = Len(Joint(g, i - 1))
    BY DEF Before
  <1>8. Len(g[i]) \in Nat
    BY <1>1, LenProperties, Zenon
  <1>9. Before(g, i) \in Nat /\ Before(g, i + 1) = Before(g, i) + Len(g[i])
    BY <1>2, <1>5, <1>7
  <1>10. QED
    BY <1>4, <1>6, <1>8, <1>9, Zenon

\* The rows of part i, in what is joined from k parts.
LEMMA JointAt ==
  ASSUME NEW g, NEW S, NEW n \in Nat, AreSeqs(g, n, S), NEW i \in 1..n, NEW t \in 1..Len(g[i]),
         NEW k \in i..n
  PROVE  Before(g, i) + t \in 1..Len(Joint(g, k)) /\ Joint(g, k)[Before(g, i) + t] = g[i][t]
  <1> DEFINE P == {m \in Nat : i + m <= n =>
                     /\ Before(g, i) + t <= Len(Joint(g, i + m))
                     /\ Joint(g, i + m)[Before(g, i) + t] = g[i][t]}
  <1>0. Before(g, i) \in Nat /\ Len(g[i]) \in Nat /\ t \in Nat /\ t >= 1
    <2>1. Before(g, i) \in Nat /\ Len(g[i]) \in Nat
      BY BeforeNext, Zenon
    <2>2. QED
      BY <2>1
  <1>1. 0 \in P
    <2>1. PICK a, b : a = Joint(g, i - 1) /\ b = g[i]
      OBVIOUS
    <2>2. Joint(g, i) = a \o b /\ Before(g, i) = Len(a)
      BY <2>1, BeforeNext DEF Before
    <2>3. a \in Seq(S) /\ b \in Seq(S) /\ t \in 1..Len(b)
      <3>1. i - 1 \in 0..n
        OBVIOUS
      <3>2. QED
        BY <2>1, <3>1, JointSeq DEF AreSeqs
    <2>4. Len(a) + t \in 1..Len(a \o b) /\ (a \o b)[Len(a) + t] = b[t]
      BY <2>3
    <2>5. Before(g, i) + t <= Len(Joint(g, i)) /\ Joint(g, i)[Before(g, i) + t] = g[i][t]
      <3>1. Len(a) + t <= Len(a \o b)
        BY <2>4
      <3>2. QED
        BY <2>1, <2>2, <2>4, <3>1
    <2>6. i + 0 = i
      OBVIOUS
    <2>7. QED
      BY <2>5, <2>6
  <1>2. ASSUME NEW m \in Nat, m \in P PROVE m + 1 \in P
    <2>1. SUFFICES ASSUME i + (m + 1) <= n
                   PROVE  /\ Before(g, i) + t <= Len(Joint(g, i + (m + 1)))
                          /\ Joint(g, i + (m + 1))[Before(g, i) + t] = g[i][t]
      OBVIOUS
    <2>2. PICK j \in 1..n : j = i + (m + 1) /\ j - 1 = i + m
      BY <2>1
    <2>3. PICK a, b : a = Joint(g, j - 1) /\ b = g[j]
      OBVIOUS
    <2>4. a \in Seq(S) /\ b \in Seq(S)
      <3>1. j - 1 \in 0..n
        BY <2>2
      <3>2. QED
        BY <2>3, <3>1, JointSeq DEF AreSeqs
    <2>5. Joint(g, j) = a \o b
      BY <2>3, BeforeNext
    <2>6. i + m <= n
      BY <2>1
    <2>7. Before(g, i) + t <= Len(a) /\ a[Before(g, i) + t] = g[i][t]
      BY <1>2, <2>2, <2>3, <2>6
    <2>8. PICK r0 \in Nat : r0 = Before(g, i) + t /\ r0 >= 1
      BY <1>0
    <2>9. r0 <= Len(a \o b) /\ (a \o b)[r0] = a[r0]
      BY <2>4, <2>7, <2>8
    <2>10. QED
      BY <2>2, <2>5, <2>7, <2>8, <2>9
  <1> HIDE DEF P
  <1>3. k - i \in P
    BY <1>1, <1>2, Induct
  <1>4. i + (k - i) = k /\ k - i \in Nat
    OBVIOUS
  <1>5. Before(g, i) + t <= Len(Joint(g, k)) /\ Joint(g, k)[Before(g, i) + t] = g[i][t]
    BY <1>3, <1>4 DEF P
  <1>6. Len(Joint(g, k)) \in Nat
    BY JointSeq
  <1>7. QED
    BY <1>0, <1>5, <1>6

\* Every row is of some part.
LEMMA JointCover ==
  ASSUME NEW g, NEW S, NEW n \in Nat, AreSeqs(g, n, S), NEW k \in 0..n, NEW r0 \in 1..Len(Joint(g, k))
  PROVE  \E i \in 1..k : \E t \in 1..Len(g[i]) : r0 = Before(g, i) + t
  <1> DEFINE Somewhere(m) == \E i \in 1..m : \E t \in 1..Len(g[i]) : r0 = Before(g, i) + t
             P == {m \in Nat : m <= n /\ r0 <= Len(Joint(g, m)) => Somewhere(m)}
  <1>1. 0 \in P
    BY JointIs, JointSeq
  <1>2. ASSUME NEW m \in Nat, m \in P PROVE m + 1 \in P
    <2>1. SUFFICES ASSUME m + 1 <= n, r0 <= Len(Joint(g, m + 1)) PROVE Somewhere(m + 1)
      OBVIOUS
    <2>2. m + 1 \in 1..n /\ (m + 1) - 1 = m /\ m \in 0..n
      BY <2>1
    <2>3. PICK e \in 1..n : e = m + 1
      BY <2>2
    <2>4. /\ Before(g, e) \in Nat /\ Len(g[e]) \in Nat
          /\ Before(g, e + 1) = Before(g, e) + Len(g[e])
      BY BeforeNext
    <2>5. Before(g, e) = Len(Joint(g, m)) /\ Before(g, e + 1) = Len(Joint(g, m + 1))
      BY <2>3 DEF Before
    <2>6. r0 \in Nat /\ r0 >= 1
      BY JointSeq
    <2>7. CASE r0 <= Before(g, e)
      BY <1>2, <2>1, <2>5, <2>7
    <2>8. CASE r0 > Before(g, e)
      <3>1. r0 - Before(g, e) \in 1..Len(g[e]) /\ r0 = Before(g, e) + (r0 - Before(g, e))
        BY <2>1, <2>4, <2>5, <2>6, <2>8
      <3>2. e \in 1..(m + 1)
        BY <2>3
      <3>3. QED
        BY <3>1, <3>2
    <2>9. QED
      BY <2>4, <2>6, <2>7, <2>8
  <1> HIDE DEF P
  <1>3. k \in P
    BY <1>1, <1>2, Induct
  <1>4. Len(Joint(g, k)) \in Nat
    BY JointSeq
  <1>5. QED
    BY <1>3, <1>4 DEF P

\* Parts lie apart: an earlier one ends where a later one starts, or before.
LEMMA BeforeOrder ==
  ASSUME NEW g, NEW S, NEW n \in Nat, AreSeqs(g, n, S), NEW i \in 1..n, NEW j \in 1..n, i < j
  PROVE  Before(g, i) + Len(g[i]) <= Before(g, j)
  <1> DEFINE P == {m \in Nat : i + 1 + m <= n => Before(g, i) + Len(g[i]) <= Before(g, i + 1 + m)}
  <1>0. Before(g, i) \in Nat /\ Len(g[i]) \in Nat
    BY BeforeNext
  <1>1. 0 \in P
    <2>1. Before(g, i + 1) = Before(g, i) + Len(g[i])
      BY BeforeNext
    <2>2. i + 1 + 0 = i + 1
      OBVIOUS
    <2>3. QED
      BY <1>0, <2>1, <2>2
  <1>2. ASSUME NEW m \in Nat, m \in P PROVE m + 1 \in P
    <2>1. SUFFICES ASSUME i + 1 + (m + 1) <= n
                   PROVE  Before(g, i) + Len(g[i]) <= Before(g, i + 1 + (m + 1))
      OBVIOUS
    <2>2. PICK e \in 1..n : e = i + 1 + m /\ e + 1 = i + 1 + (m + 1)
      BY <2>1
    <2>3. Before(g, e) \in Nat /\ Len(g[e]) \in Nat /\ Before(g, e + 1) = Before(g, e) + Len(g[e])
      BY BeforeNext
    <2>4. Before(g, i) + Len(g[i]) <= Before(g, e)
      BY <1>2, <2>2
    <2>5. QED
      BY <1>0, <2>2, <2>3, <2>4
  <1> HIDE DEF P
  <1>3. j - (i + 1) \in P
    BY <1>1, <1>2, Induct
  <1>4. i + 1 + (j - (i + 1)) = j
    OBVIOUS
  <1>5. QED
    BY <1>3, <1>4 DEF P

\* So a row is of one part.
LEMMA PartsApart ==
  ASSUME NEW g, NEW S, NEW n \in Nat, AreSeqs(g, n, S), NEW i \in 1..n, NEW j \in 1..n,
         NEW t \in 1..Len(g[i]), (Before(g, i) + t) - Before(g, j) \in 1..Len(g[j])
  PROVE  i = j
  <1>1. /\ Before(g, i) \in Nat /\ Len(g[i]) \in Nat
        /\ Before(g, j) \in Nat /\ Len(g[j]) \in Nat
    BY BeforeNext
  <1>2. i < j => Before(g, i) + Len(g[i]) <= Before(g, j)
    BY BeforeOrder
  <1>3. j < i => Before(g, j) + Len(g[j]) <= Before(g, i)
    BY BeforeOrder
  <1>4. QED
    BY <1>1, <1>2, <1>3

\* Lists whose parts are equally long have them at the same places.
LEMMA BeforeSame ==
  ASSUME NEW g, NEW S, NEW h, NEW U, NEW n \in Nat, AreSeqs(g, n, S), AreSeqs(h, n, U),
         \A i \in 1..n : Len(g[i]) = Len(h[i]), NEW k \in 0..n
  PROVE  Before(g, k + 1) = Before(h, k + 1)
  <1> DEFINE P == {m \in Nat : m <= n => Before(g, m + 1) = Before(h, m + 1)}
  <1>1. 0 \in P
    BY JointIs DEF Before
  <1>2. ASSUME NEW m \in Nat, m \in P PROVE m + 1 \in P
    <2>1. SUFFICES ASSUME m + 1 <= n PROVE Before(g, (m + 1) + 1) = Before(h, (m + 1) + 1)
      OBVIOUS
    <2>2. PICK e \in 1..n : e = m + 1
      BY <2>1
    <2>3. Before(g, e + 1) = Before(g, e) + Len(g[e])
      BY BeforeNext
    <2>4. Before(h, e + 1) = Before(h, e) + Len(h[e])
      BY BeforeNext
    <2>5. Before(g, e) = Before(h, e)
      BY <1>2, <2>1, <2>2
    <2>6. QED
      BY <2>2, <2>3, <2>4, <2>5
  <1> HIDE DEF P
  <1>3. k \in P
    BY <1>1, <1>2, Induct
  <1>4. QED
    BY <1>3 DEF P

\* If one part at most has rows, the whole is as long as that.
LEMMA OnlyPart ==
  ASSUME NEW g, NEW S, NEW n \in Nat, AreSeqs(g, n, S), NEW e \in 0..n,
         \A i \in 1..n : i # e => Len(g[i]) = 0
  PROVE  Len(Joint(g, n)) = IF e = 0 THEN 0 ELSE Len(g[e])
  <1> DEFINE P == {m \in Nat : m <= n => Len(Joint(g, m)) = IF e = 0 \/ m < e THEN 0 ELSE Len(g[e])}
  <1>1. 0 \in P
    BY JointIs
  <1>2. ASSUME NEW m \in Nat, m \in P PROVE m + 1 \in P
    <2>1. SUFFICES ASSUME m + 1 <= n
                   PROVE  Len(Joint(g, m + 1)) = IF e = 0 \/ m + 1 < e THEN 0 ELSE Len(g[e])
      OBVIOUS
    <2>2. PICK c \in 1..n : c = m + 1
      BY <2>1
    <2>3. Before(g, c + 1) = Before(g, c) + Len(g[c]) /\ Len(g[c]) \in Nat
      BY BeforeNext
    <2>4. Before(g, c) = Len(Joint(g, m)) /\ Before(g, c + 1) = Len(Joint(g, m + 1))
      BY <2>2 DEF Before
    <2>5. Len(Joint(g, m)) = IF e = 0 \/ m < e THEN 0 ELSE Len(g[e])
      BY <1>2, <2>1
    <2>6. e \in 1..n => Len(g[e]) \in Nat
      BY BeforeNext
    <2>7. CASE c = e
      BY <2>2, <2>3, <2>4, <2>5, <2>7
    <2>8. CASE c # e
      BY <2>2, <2>3, <2>4, <2>5, <2>6, <2>8
    <2>9. QED
      BY <2>7, <2>8
  <1> HIDE DEF P
  <1>3. n \in P
    BY <1>1, <1>2, Induct
  <1>4. QED
    BY <1>3 DEF P

-----------------------------------------------------------------------------
(* The forward pass of one context. *)

KeysOf(c, n, was) == [e \in DOMAIN c |-> Forwards!KeyValue(n, was[e], e - 1)]
LayerRow(c, n, was, e) ==
    Forwards!Mlp(n, was[e], Forwards!Attention(Forwards!Query(n, was[e], e - 1), SubSeq(KeysOf(c, n, was), 1, e)))
LayerOf(c, n, was) == [e \in DOMAIN c |-> LayerRow(c, n, was, e)]
Embedded(c) == [e \in DOMAIN c |-> Forwards!Embed(c[e])]
AfterOf(f, c, l) == f = [n \in 0..l |-> IF n = 0 THEN Embedded(c) ELSE LayerOf(c, n, f[n - 1])]

\* The equation of the layers has a solution.
LEMMA AfterExists ==
  ASSUME NEW c, NEW l \in Nat PROVE \E f : AfterOf(f, c, l)
  <1> DEFINE P == {m \in Nat : \E f : AfterOf(f, c, m)}
  <1>1. 0 \in P
    <2>1. PICK f : f = [n \in 0..0 |-> Embedded(c)]
      OBVIOUS
    <2>2. AfterOf(f, c, 0)
      BY <2>1 DEF AfterOf
    <2>3. QED
      BY <2>2
  <1>2. ASSUME NEW m \in Nat, m \in P PROVE m + 1 \in P
    <2>1. PICK f : AfterOf(f, c, m)
      BY <1>2
    <2>2. PICK h : h = [n \in 0..(m + 1) |-> IF n = m + 1 THEN LayerOf(c, n, f[n - 1]) ELSE f[n]]
      OBVIOUS
    <2>3. ASSUME NEW n \in 0..(m + 1) PROVE h[n] = IF n = 0 THEN Embedded(c) ELSE LayerOf(c, n, h[n - 1])
      BY <2>1, <2>2 DEF AfterOf
    <2>4. AfterOf(h, c, m + 1)
      BY <2>2, <2>3 DEF AfterOf
    <2>5. QED
      BY <2>4
  <1> HIDE DEF P
  <1>3. l \in P
    BY <1>1, <1>2, Induct
  <1>4. QED
    BY <1>3 DEF P

\* Solutions for different depths agree.
LEMMA AfterUnique ==
  ASSUME NEW c, NEW l \in Nat, NEW m \in Nat, NEW f, NEW h, AfterOf(f, c, l), AfterOf(h, c, m), m <= l,
         NEW k \in 0..m
  PROVE  f[k] = h[k]
  <1> DEFINE P == {n \in Nat : n <= m => f[n] = h[n]}
  <1>1. 0 \in P
    BY DEF AfterOf
  <1>2. ASSUME NEW n \in Nat, n \in P PROVE n + 1 \in P
    <2>1. SUFFICES ASSUME n + 1 <= m PROVE f[n + 1] = h[n + 1]
      OBVIOUS
    <2>2. n + 1 \in 0..l /\ n + 1 \in 0..m /\ n + 1 # 0 /\ (n + 1) - 1 = n
      BY <2>1
    <2>3. f[n + 1] = LayerOf(c, n + 1, f[n]) /\ h[n + 1] = LayerOf(c, n + 1, h[n])
      BY <2>2 DEF AfterOf
    <2>4. f[n] = h[n]
      BY <1>2, <2>1
    <2>5. QED
      BY <2>3, <2>4
  <1> HIDE DEF P
  <1>3. k \in P
    BY <1>1, <1>2, Induct
  <1>4. QED
    BY <1>3 DEF P

\* The rows after no layer, and after one more.
LEMMA HiddenIs ==
  ASSUME NEW c, NEW l \in Nat
  PROVE  /\ Forwards!Hidden(c, 0) = Embedded(c)
         /\ Forwards!Hidden(c, l + 1) = LayerOf(c, l + 1, Forwards!Hidden(c, l))
  <1> DEFINE C(m) == CHOOSE f : AfterOf(f, c, m)
  <1>1. ASSUME NEW m \in Nat PROVE AfterOf(C(m), c, m)
    BY AfterExists, Zenon
  <1>2. ASSUME NEW m \in Nat PROVE Forwards!Hidden(c, m) = C(m)[m]
    BY Zenon DEF Forwards!Hidden, AfterOf, Embedded, LayerOf, LayerRow, KeysOf
  <1> HIDE DEF C
  <1>3. C(0)[0] = Embedded(c)
    BY <1>1 DEF AfterOf
  <1>4. C(l + 1)[l + 1] = LayerOf(c, l + 1, C(l + 1)[l])
    BY <1>1 DEF AfterOf
  <1>5. C(l + 1)[l] = C(l)[l]
    BY <1>1, AfterUnique
  <1>6. 0 \in Nat /\ l + 1 \in Nat
    OBVIOUS
  <1>7. Forwards!Hidden(c, 0) = C(0)[0] /\ Forwards!Hidden(c, l) = C(l)[l]
        /\ Forwards!Hidden(c, l + 1) = C(l + 1)[l + 1]
    BY <1>2, <1>6
  <1>8. QED
    BY <1>3, <1>4, <1>5, <1>7

\* Sequences that begin alike.
LEMMA PrefixSame ==
  ASSUME NEW a, NEW b, NEW n \in Nat, \A i \in 1..n : a[i] = b[i]
  PROVE  SubSeq(a, 1, n) = SubSeq(b, 1, n)
  <1> DEFINE S == {a[i] : i \in 1..n}
  <1>1. \A i \in 1..n : a[i] \in S /\ b[i] \in S
    OBVIOUS
  <1> HIDE DEF S
  <1>2. /\ SubSeq(a, 1, n) \in Seq(S)
        /\ Len(SubSeq(a, 1, n)) = IF 1 <= n THEN n - 1 + 1 ELSE 0
        /\ \A i \in 1..(n - 1 + 1) : SubSeq(a, 1, n)[i] = a[1 + i - 1]
    BY <1>1, SubSeqProperties
  <1>3. /\ SubSeq(b, 1, n) \in Seq(S)
        /\ Len(SubSeq(b, 1, n)) = IF 1 <= n THEN n - 1 + 1 ELSE 0
        /\ \A i \in 1..(n - 1 + 1) : SubSeq(b, 1, n)[i] = b[1 + i - 1]
    BY <1>1, SubSeqProperties
  <1>4. Len(SubSeq(a, 1, n)) = n /\ Len(SubSeq(b, 1, n)) = n
    BY <1>2, <1>3
  <1>5. ASSUME NEW i \in 1..n PROVE SubSeq(a, 1, n)[i] = SubSeq(b, 1, n)[i]
    BY <1>2, <1>3
  <1>6. QED
    BY <1>2, <1>3, <1>4, <1>5, SeqEqual

\* A beginning of a sequence.
LEMMA PrefixIs ==
  ASSUME NEW c, NEW S, c \in Seq(S), NEW n \in 0..Len(c)
  PROVE  /\ SubSeq(c, 1, n) \in Seq(S) /\ Len(SubSeq(c, 1, n)) = n /\ DOMAIN SubSeq(c, 1, n) = 1..n
         /\ \A i \in 1..n : SubSeq(c, 1, n)[i] = c[i]
  BY LenProperties, ElementOfSeq, SubSeqProperties

\* A row depends on the tokens up to its own only.
LEMMA Causal ==
  ASSUME NEW c, NEW S, c \in Seq(S), NEW n \in 0..Len(c), NEW l \in Nat, NEW e \in 1..n
  PROVE  Forwards!Hidden(SubSeq(c, 1, n), l)[e] = Forwards!Hidden(c, l)[e]
  <1> DEFINE d == SubSeq(c, 1, n)
             P == {m \in Nat : \A i \in 1..n : Forwards!Hidden(d, m)[i] = Forwards!Hidden(c, m)[i]}
  <1>0. Len(c) \in Nat /\ DOMAIN c = 1..Len(c) /\ n \in Nat /\ n <= Len(c)
    BY LenProperties
  <1>1. DOMAIN d = 1..n /\ \A i \in 1..n : d[i] = c[i]
    BY PrefixIs
  <1>2. \A i \in 1..n : i \in 1..Len(c)
    BY <1>0
  <1> HIDE DEF d
  <1>3. 0 \in P
    BY <1>0, <1>1, <1>2, HiddenIs DEF Embedded
  <1>4. ASSUME NEW m \in Nat, m \in P PROVE m + 1 \in P
    <2>1. PICK a, b : a = Forwards!Hidden(d, m) /\ b = Forwards!Hidden(c, m)
      OBVIOUS
    <2>2. \A i \in 1..n : a[i] = b[i]
      BY <1>4, <2>1
    <2>3. Forwards!Hidden(d, m + 1) = LayerOf(d, m + 1, a) /\ Forwards!Hidden(c, m + 1) = LayerOf(c, m + 1, b)
      BY <2>1, HiddenIs
    <2>4. ASSUME NEW i \in 1..n PROVE LayerOf(d, m + 1, a)[i] = LayerOf(c, m + 1, b)[i]
      <3>1. PICK ka, kb : ka = KeysOf(d, m + 1, a) /\ kb = KeysOf(c, m + 1, b)
        OBVIOUS
      <3>2. \A j \in 1..n : ka[j] = kb[j]
        BY <1>0, <1>1, <1>2, <2>2, <3>1 DEF KeysOf
      <3>3. SubSeq(ka, 1, i) = SubSeq(kb, 1, i)
        BY <1>0, <3>2, PrefixSame
      <3>4. LayerRow(d, m + 1, a, i) = LayerRow(c, m + 1, b, i)
        BY <2>2, <3>1, <3>3 DEF LayerRow
      <3>5. QED
        BY <1>0, <1>1, <1>2, <3>4 DEF LayerOf
    <2>5. QED
      BY <2>3, <2>4
  <1> HIDE DEF P
  <1>5. l \in P
    BY <1>3, <1>4, Induct
  <1>6. QED
    BY <1>5 DEF P, d

-----------------------------------------------------------------------------
(* The forward pass: what a batch holds, row by row. *)

\* Row p of sequence s after l layers, and what its keys at layer l are.
RowAt(s, l, p) == Forwards!Hidden(Texts[s], l)[p]
KeyAt(s, l, p) == Forwards!KeyValue(l, RowAt(s, l - 1, p), p - 1)
QueryAt(s, l, p) == Forwards!Query(l, RowAt(s, l - 1, p), p - 1)
KeysAt(s, l) == [p \in 1..Len(Texts[s]) |-> KeyAt(s, l, p)]
KeysTo(s, l, p) == SubSeq(KeysAt(s, l), 1, p)
SeenAt(s, l, p) == Forwards!Attention(QueryAt(s, l, p), KeysTo(s, l, p))
AllKeys == {KeyAt(s, l, p) : s \in Forwards!Seqs, l \in Nat, p \in Nat}
AllTokens == UNION {Forwards!ToSet(Texts[s]) : s \in Forwards!Seqs}

TokensOf(b) == [i \in DOMAIN b |-> b[i].tokens]
Place3(b, i, t) == Before(TokensOf(b), i) + t
RowsIn(b) == Len(Joint(TokensOf(b), Len(b)))

\* A batch: pieces of different texts, each from where its sequence has come to.
IsPieceOf(piece, ln) ==
    /\ piece.seq \in Forwards!Seqs /\ piece.tokens \in Seq(AllTokens)
    /\ Len(piece.tokens) >= 1
    /\ ln[piece.seq] + Len(piece.tokens) <= Len(Texts[piece.seq])
    /\ \A t \in 1..Len(piece.tokens) : piece.tokens[t] = Texts[piece.seq][ln[piece.seq] + t]
IsBatch(b, ln) ==
    /\ Len(b) \in Nat /\ DOMAIN b = 1..Len(b)
    /\ \A i \in 1..Len(b) : IsPieceOf(b[i], ln)
    /\ \A i, j \in 1..Len(b) : b[i].seq = b[j].seq => i = j

\* What the rows of the batch hold: hidden states, queries, keys, attention of the
\* items before n.
HoldRows(y, b, ln, l) ==
    /\ DOMAIN y = 1..RowsIn(b)
    /\ \A i \in 1..Len(b) : \A t \in 1..Len(b[i].tokens) :
          y[Place3(b, i, t)] = RowAt(b[i].seq, l, ln[b[i].seq] + t)
HoldQueries(y, b, ln, l) ==
    /\ DOMAIN y = 1..RowsIn(b)
    /\ \A i \in 1..Len(b) : \A t \in 1..Len(b[i].tokens) :
          y[Place3(b, i, t)] = QueryAt(b[i].seq, l, ln[b[i].seq] + t)
HoldKeys(y, b, ln, l) ==
    /\ DOMAIN y = 1..RowsIn(b)
    /\ \A i \in 1..Len(b) : \A t \in 1..Len(b[i].tokens) :
          y[Place3(b, i, t)] = KeyAt(b[i].seq, l, ln[b[i].seq] + t)
HoldSeen(y, b, ln, l, n) ==
    /\ DOMAIN y = 1..RowsIn(b)
    /\ \A i \in 1..Len(b) : i < n => \A t \in 1..Len(b[i].tokens) :
          y[Place3(b, i, t)] = SeenAt(b[i].seq, l, ln[b[i].seq] + t)

\* Texts are sequences, and the model has a layer.
LEMMA TextsHold ==
  /\ TextLayers \in Nat \ {0}
  /\ \A s \in Forwards!Seqs : Texts[s] \in Seq(AllTokens) /\ Len(Texts[s]) \in Nat /\ DOMAIN Texts[s] = 1..Len(Texts[s])
  BY OperatorsAssumption, SeqMonotonic, LenProperties DEF Forwards!TextsAssumption, AllTokens

\* The keys of a text, up to a row.
LEMMA KeysToIs ==
  ASSUME NEW s \in Forwards!Seqs, NEW l \in Nat, NEW n \in 0..Len(Texts[s])
  PROVE  /\ KeysTo(s, l, n) \in Seq(AllKeys) /\ Len(KeysTo(s, l, n)) = n
         /\ \A p \in 1..n : KeysTo(s, l, n)[p] = KeyAt(s, l, p)
  <1>1. Len(Texts[s]) \in Nat
    BY TextsHold
  <1>2. \A p \in 1..Len(Texts[s]) : KeyAt(s, l, p) \in AllKeys
    BY <1>1 DEF AllKeys
  <1>3. PICK k : k = KeysAt(s, l)
    OBVIOUS
  <1>4. k \in [1..Len(Texts[s]) -> AllKeys]
    BY <1>2, <1>3 DEF KeysAt
  <1>5. k \in Seq(AllKeys) /\ Len(k) = Len(Texts[s])
    BY <1>1, <1>4
  <1>6. /\ SubSeq(k, 1, n) \in Seq(AllKeys) /\ Len(SubSeq(k, 1, n)) = n
        /\ \A p \in 1..n : SubSeq(k, 1, n)[p] = k[p]
    BY <1>5, PrefixIs
  <1>7. \A p \in 1..n : k[p] = KeyAt(s, l, p)
    BY <1>1, <1>3 DEF KeysAt
  <1>8. QED
    BY <1>3, <1>6, <1>7 DEF KeysTo

\* A row after no layer and after one more.
LEMMA RowAtIs ==
  ASSUME NEW s \in Forwards!Seqs, NEW p \in 1..Len(Texts[s])
  PROVE  /\ RowAt(s, 0, p) = Forwards!Embed(Texts[s][p])
         /\ \A l \in Nat \ {0} : RowAt(s, l, p) = Forwards!Mlp(l, RowAt(s, l - 1, p), SeenAt(s, l, p))
  <1>1. DOMAIN Texts[s] = 1..Len(Texts[s])
    BY TextsHold
  <1>2. PICK c : c = Texts[s]
    OBVIOUS
  <1>3. RowAt(s, 0, p) = Forwards!Embed(Texts[s][p])
    BY <1>1, <1>2, HiddenIs DEF RowAt, Embedded
  <1>4. ASSUME NEW l \in Nat \ {0}
        PROVE  RowAt(s, l, p) = Forwards!Mlp(l, RowAt(s, l - 1, p), SeenAt(s, l, p))
    <2>1. PICK m \in Nat : m = l - 1 /\ l = m + 1
      OBVIOUS
    <2>2. PICK was : was = Forwards!Hidden(c, l - 1)
      OBVIOUS
    <2>3. Forwards!Hidden(c, l) = LayerOf(c, l, was)
      BY <2>1, <2>2, HiddenIs
    <2>4. Forwards!Hidden(c, l)[p] = LayerRow(c, l, was, p)
      BY <1>1, <1>2, <2>3 DEF LayerOf
    <2>5. KeysOf(c, l, was) = KeysAt(s, l)
      BY <1>1, <1>2, <2>2 DEF KeysOf, KeysAt, KeyAt, RowAt
    <2>6. LayerRow(c, l, was, p) = Forwards!Mlp(l, was[p], Forwards!Attention(Forwards!Query(l, was[p], p - 1), SubSeq(KeysAt(s, l), 1, p)))
      BY <2>5 DEF LayerRow
    <2>7. was[p] = RowAt(s, l - 1, p) /\ Forwards!Hidden(c, l)[p] = RowAt(s, l, p)
      BY <1>2, <2>2 DEF RowAt
    <2>8. QED
      BY <2>4, <2>6, <2>7 DEF SeenAt, QueryAt, KeysTo
  <1>5. QED
    BY <1>3, <1>4

\* The rows of a batch: where they are, and that they are all of them.
LEMMA BatchRows ==
  ASSUME NEW b, NEW ln, IsBatch(b, ln)
  PROVE  /\ AreSeqs(TokensOf(b), Len(b), AllTokens)
         /\ \A i \in 1..Len(b) : TokensOf(b)[i] = b[i].tokens /\ Len(b[i].tokens) \in Nat
         /\ RowsIn(b) \in Nat
         /\ \A i \in 1..Len(b) : \A t \in 1..Len(b[i].tokens) : Place3(b, i, t) \in 1..RowsIn(b)
         /\ \A e \in 1..RowsIn(b) : \E i \in 1..Len(b) : \E t \in 1..Len(b[i].tokens) : e = Place3(b, i, t)
  <1> DEFINE T == TokensOf(b)
             n == Len(b)
  <1>1. n \in Nat /\ n \in 0..n /\ \A i \in 1..n : T[i] = b[i].tokens /\ T[i] \in Seq(AllTokens)
    BY DEF IsBatch, IsPieceOf, TokensOf
  <1>2. AreSeqs(T, n, AllTokens)
    BY <1>1 DEF AreSeqs
  <1>3. \A i \in 1..n : Len(T[i]) \in Nat
    BY <1>1, LenProperties
  <1> HIDE DEF T, n
  <1>4. Len(Joint(T, n)) \in Nat
    BY <1>1, <1>2, JointSeq
  <1>5. ASSUME NEW i \in 1..n, NEW t \in 1..Len(T[i]) PROVE Before(T, i) + t \in 1..Len(Joint(T, n))
    BY <1>1, <1>2, JointAt
  <1>6. ASSUME NEW e \in 1..Len(Joint(T, n))
        PROVE  \E i \in 1..n : \E t \in 1..Len(T[i]) : e = Before(T, i) + t
    BY <1>1, <1>2, JointCover
  <1>7. \A i \in 1..n : T[i] = b[i].tokens
    BY <1>1
  <1>8. QED
    BY <1>2, <1>3, <1>4, <1>5, <1>6, <1>7 DEF T, n, Place3, RowsIn

\* A row is of one item.
LEMMA RowsApart ==
  ASSUME NEW b, NEW ln, IsBatch(b, ln), NEW i \in 1..Len(b), NEW j \in 1..Len(b),
         NEW t \in 1..Len(b[i].tokens)
  PROVE  /\ Place3(b, i, t) - Before(TokensOf(b), j) \in 1..Len(b[j].tokens) => i = j
         /\ Place3(b, i, t) - Before(TokensOf(b), i) = t
  <1>1. /\ AreSeqs(TokensOf(b), Len(b), AllTokens) /\ Len(b) \in Nat
        /\ \A k \in 1..Len(b) : TokensOf(b)[k] = b[k].tokens /\ Len(b[k].tokens) \in Nat
    BY BatchRows DEF IsBatch
  <1>2. PICK T : T = TokensOf(b)
    OBVIOUS
  <1>3. T[i] = b[i].tokens /\ T[j] = b[j].tokens /\ AreSeqs(T, Len(b), AllTokens)
    BY <1>1, <1>2
  <1>4. Before(T, i) \in Nat /\ Len(T[i]) \in Nat
    BY <1>1, <1>3, BeforeNext
  <1>5. t \in 1..Len(T[i]) /\ t \in Nat
    BY <1>3, <1>4
  <1>6. (Before(T, i) + t) - Before(T, j) \in 1..Len(T[j]) => i = j
    BY <1>1, <1>3, <1>5, PartsApart
  <1>7. (Before(T, i) + t) - Before(T, i) = t
    BY <1>4, <1>5
  <1>8. QED
    BY <1>2, <1>3, <1>6, <1>7 DEF Place3

\* The tokens of a batch, packed.
LEMMA PackedIs ==
  ASSUME NEW b, NEW ln, IsBatch(b, ln)
  PROVE  /\ DOMAIN Forwards!AllIds(b) = 1..RowsIn(b)
         /\ \A i \in 1..Len(b) : \A t \in 1..Len(b[i].tokens) :
               Forwards!AllIds(b)[Place3(b, i, t)] = Texts[b[i].seq][ln[b[i].seq] + t]
  <1>1. /\ AreSeqs(TokensOf(b), Len(b), AllTokens) /\ Len(b) \in Nat /\ DOMAIN b = 1..Len(b)
        /\ \A k \in 1..Len(b) : TokensOf(b)[k] = b[k].tokens /\ Len(b[k].tokens) \in Nat
    BY BatchRows DEF IsBatch
  <1>2. PICK T : T = TokensOf(b)
    OBVIOUS
  <1>3. PICK n \in Nat : n = Len(b)
    BY <1>1
  <1>4. Forwards!AllIds(b) = Joint(T, n)
    BY <1>1, <1>2, <1>3 DEF TokensOf, Forwards!AllIds, Joint
  <1>5. AreSeqs(T, n, AllTokens)
    BY <1>1, <1>2, <1>3
  <1>6. n \in 0..n
    OBVIOUS
  <1>7. Joint(T, n) \in Seq(AllTokens)
    BY <1>5, <1>6, JointSeq
  <1>8. DOMAIN Joint(T, n) = 1..Len(Joint(T, n))
    BY <1>7, LenProperties
  <1>9. ASSUME NEW i \in 1..Len(b), NEW t \in 1..Len(b[i].tokens)
        PROVE  Joint(T, n)[Place3(b, i, t)] = Texts[b[i].seq][ln[b[i].seq] + t]
    <2>1. i \in 1..n /\ t \in 1..Len(T[i]) /\ n \in i..n
      BY <1>1, <1>2, <1>3
    <2>2. Joint(T, n)[Before(T, i) + t] = T[i][t]
      BY <1>5, <2>1, JointAt
    <2>3. b[i].tokens[t] = Texts[b[i].seq][ln[b[i].seq] + t]
      BY DEF IsBatch, IsPieceOf
    <2>4. QED
      BY <1>1, <1>2, <2>2, <2>3 DEF Place3
  <1>10. QED
    BY <1>2, <1>3, <1>4, <1>8, <1>9 DEF RowsIn

\* The place before an item, as the model counts it.
LEMMA ItemOffset ==
  ASSUME IsBatch(items, length), NEW i \in 1..Len(items)
  PROVE  Forwards!Offset(i) = Before(TokensOf(items), i) /\ Forwards!ItemLen(i) = Len(items[i].tokens)
         /\ Forwards!Past(i) = length[items[i].seq]
  <1>1. Len(items) \in Nat /\ DOMAIN items = 1..Len(items)
    BY DEF IsBatch
  <1>2. PICK n \in Nat : n = Len(items) /\ i \in 1..n /\ DOMAIN items = 1..n
    BY <1>1
  <1>3. \A j \in 1..(i - 1) : j \in 1..n
    BY <1>2
  <1>4. [j \in 1..(i - 1) |-> items[j].tokens] = [j \in 1..(i - 1) |-> TokensOf(items)[j]]
    BY <1>2, <1>3 DEF TokensOf
  <1>5. Forwards!Offset(i) = Before(TokensOf(items), i)
    BY <1>4, Zenon DEF Forwards!Offset, Before, Joint
  <1>6. QED
    BY <1>5 DEF Forwards!ItemLen, Forwards!Past

\* The position of a row.
LEMMA PositionsAre ==
  ASSUME IsBatch(items, length), NEW i \in 1..Len(items), NEW t \in 1..Len(items[i].tokens),
         length \in [Forwards!Seqs -> Nat]
  PROVE  Forwards!Positions[Place3(items, i, t)] = length[items[i].seq] + t - 1
  <1> DEFINE T == TokensOf(items)
             G == [j \in DOMAIN items |-> [e \in 1..Forwards!ItemLen(j) |-> Forwards!Past(j) + e - 1]]
             n == Len(items)
  <1>1. /\ AreSeqs(T, n, AllTokens) /\ n \in Nat /\ DOMAIN items = 1..n
        /\ \A k \in 1..n : T[k] = items[k].tokens /\ Len(items[k].tokens) \in Nat
    BY BatchRows DEF IsBatch
  <1>2. ASSUME NEW k \in 1..n
        PROVE  /\ G[k] = [e \in 1..Len(T[k]) |-> length[items[k].seq] + e - 1]
               /\ G[k] \in Seq(Int) /\ Len(G[k]) = Len(T[k])
    <2>1. Forwards!ItemLen(k) = Len(T[k]) /\ Forwards!Past(k) = length[items[k].seq]
      BY <1>1, ItemOffset
    <2>2. length[items[k].seq] \in Nat
      BY DEF IsBatch, IsPieceOf
    <2>3. PICK m \in Nat, a \in Nat : m = Len(T[k]) /\ a = length[items[k].seq]
      BY <1>1, <2>2
    <2>4. G[k] = [e \in 1..m |-> a + e - 1]
      BY <1>1, <2>1, <2>3
    <2>5. [e \in 1..m |-> a + e - 1] \in Seq(Int) /\ Len([e \in 1..m |-> a + e - 1]) = m
      OBVIOUS
    <2>6. QED
      BY <2>3, <2>4, <2>5
  <1>3. Forwards!Positions = Joint(G, n)
    <2>1. G = [j \in 1..n |-> G[j]]
      BY <1>1
    <2>2. Forwards!Positions = Forwards!FlattenSeq(G)
      BY Zenon DEF Forwards!Positions
    <2> HIDE DEF G
    <2>3. QED
      BY <2>1, <2>2 DEF Joint
  <1> HIDE DEF G
  <1>4. AreSeqs(G, n, Int)
    BY <1>2 DEF AreSeqs
  <1>5. i \in 1..n /\ t \in 1..Len(T[i]) /\ t \in 1..Len(G[i]) /\ n \in i..n /\ t \in Nat
    <2>1. i \in 1..n
      OBVIOUS
    <2>2. T[i] = items[i].tokens /\ Len(items[i].tokens) \in Nat
      BY <1>1, <2>1
    <2>3. Len(G[i]) = Len(T[i])
      BY <1>2, <2>1
    <2>4. t \in 1..Len(T[i]) /\ t \in 1..Len(G[i]) /\ t \in Nat
      BY <2>2, <2>3
    <2> HIDE DEF T, n
    <2>5. QED
      BY <1>1, <2>1, <2>4
  <1>6. Joint(G, n)[Before(G, i) + t] = G[i][t]
    BY <1>1, <1>4, <1>5, JointAt
  <1>7. Before(G, i) = Before(T, i)
    <2>1. PICK k \in 0..n : i = k + 1
      BY <1>5
    <2>2. \A j \in 1..n : Len(G[j]) = Len(T[j])
      BY <1>2
    <2> HIDE DEF T, n
    <2>3. Before(G, k + 1) = Before(T, k + 1)
      <3>1. n \in Nat /\ AreSeqs(T, n, AllTokens)
        BY <1>1
      <3>2. AreSeqs(G, n, Int) /\ \A j \in 1..n : Len(G[j]) = Len(T[j])
        BY <1>4, <2>2
      <3>3. QED
        BY <3>1, <3>2, BeforeSame
    <2>4. QED
      BY <2>1, <2>3
  <1>8. G[i][t] = length[items[i].seq] + t - 1
    BY <1>2, <1>5
  <1>9. QED
    BY <1>3, <1>6, <1>7, <1>8 DEF Place3

\* Every choice the model has is a batch.
LEMMA BatchesAre ==
  ASSUME NEW b \in Forwards!Batches, length \in [Forwards!Seqs -> Nat],
         \A s \in Forwards!Seqs : length[s] <= Len(Texts[s])
  PROVE  IsBatch(b, length)
  <1> DEFINE piece(s, n) == [seq |-> s, tokens |-> SubSeq(Texts[s], length[s] + 1, length[s] + n)]
             Pieces == UNION {{piece(s, n) : n \in 1..(Len(Texts[s]) - length[s])} : s \in Forwards!Seqs}
             K == Forwards!Cardinality(Forwards!Seqs)
  <1>1. K \in Nat
    BY OperatorsAssumption, FS_CardinalityType DEF Forwards!TextsAssumption, Forwards!IsFiniteSet, IsFiniteSet,
      Forwards!Cardinality, Cardinality
  <1>2. /\ b \in UNION {[1..n -> Pieces] : n \in 1..K}
        /\ \A i, j \in DOMAIN b : i # j => b[i].seq # b[j].seq
    BY DEF Forwards!Batches
  <1>3. ASSUME NEW e \in Pieces PROVE IsPieceOf(e, length)
    <2>1. PICK s \in Forwards!Seqs : \E n \in 1..(Len(Texts[s]) - length[s]) : e = piece(s, n)
      BY <1>3
    <2>0. PICK n \in 1..(Len(Texts[s]) - length[s]) : e = piece(s, n)
      BY <2>1
    <2>2. PICK c : c = Texts[s]
      OBVIOUS
    <2>3. PICK a \in Nat : a = length[s]
      OBVIOUS
    <2>4. Len(c) \in Nat /\ (\A i \in 1..Len(c) : c[i] \in AllTokens)
      BY <2>2, TextsHold, ElementOfSeq
    <2>5. n \in Nat /\ 1 <= n /\ a + n <= Len(c)
      BY <2>2, <2>3, <2>4
    <2>6. \A i \in (a + 1)..(a + n) : c[i] \in AllTokens
      BY <2>4, <2>5
    <2>7. PICK d : d = SubSeq(c, a + 1, a + n)
      OBVIOUS
    <2>8. /\ d \in Seq(AllTokens)
          /\ Len(d) = IF a + 1 <= a + n THEN (a + n) - (a + 1) + 1 ELSE 0
          /\ \A i \in 1..((a + n) - (a + 1) + 1) : d[i] = c[(a + 1) + i - 1]
      BY <2>5, <2>6, <2>7, SubSeqProperties
    <2>9. Len(d) = n
      BY <2>5, <2>8
    <2>10. \A t \in 1..n : d[t] = c[a + t]
      <3>1. SUFFICES ASSUME NEW t \in 1..n PROVE d[t] = c[a + t]
        OBVIOUS
      <3>2. t \in 1..((a + n) - (a + 1) + 1) /\ (a + 1) + t - 1 = a + t
        BY <2>5
      <3>3. QED
        BY <2>8, <3>2
    <2>11. e.seq = s /\ e.tokens = d
      BY <2>0, <2>2, <2>3, <2>7
    <2>12. QED
      BY <2>2, <2>3, <2>5, <2>8, <2>9, <2>10, <2>11 DEF IsPieceOf
  <1> HIDE DEF Pieces, K
  <1>4. PICK m \in 1..K : b \in [1..m -> Pieces]
    BY <1>2
  <1>5. m \in Nat /\ DOMAIN b = 1..m /\ Len(b) = m
    BY <1>1, <1>4
  <1>6. \A i \in 1..m : IsPieceOf(b[i], length)
    BY <1>3, <1>4
  <1>7. \A i, j \in 1..m : b[i].seq = b[j].seq => i = j
    BY <1>2, <1>5
  <1>8. QED
    BY <1>5, <1>6, <1>7 DEF IsBatch

\* A forward moves the length of a sequence by the tokens it was fed.
LEMMA LengthsAre ==
  ASSUME IsBatch(items, length), NEW s \in Forwards!Seqs
  PROVE  LET fed == Len(Forwards!FlattenSeq([i \in DOMAIN items |->
                          IF items[i].seq = s THEN items[i].tokens ELSE <<>>]))
         IN  /\ \A i \in 1..Len(items) : items[i].seq = s => fed = Len(items[i].tokens)
             /\ (\A i \in 1..Len(items) : items[i].seq # s) => fed = 0
  <1> DEFINE g == [i \in DOMAIN items |-> IF items[i].seq = s THEN items[i].tokens ELSE <<>>]
             n == Len(items)
  <1>1. n \in Nat /\ DOMAIN items = 1..n /\ \A i \in 1..n : items[i].tokens \in Seq(AllTokens)
    BY DEF IsBatch, IsPieceOf
  <1>2. \A i \in 1..n : g[i] = IF items[i].seq = s THEN items[i].tokens ELSE <<>>
    BY <1>1
  <1>3. g = [i \in 1..n |-> g[i]]
    BY <1>1
  <1> HIDE DEF g, n
  <1>4. Forwards!FlattenSeq(g) = Joint(g, n)
    BY <1>3 DEF Joint
  <1>5. AreSeqs(g, n, AllTokens)
    BY <1>1, <1>2, EmptySeq DEF AreSeqs
  <1>6. Len(<<>>) = 0
    OBVIOUS
  <1>7. ASSUME NEW i \in 1..n, items[i].seq = s PROVE Len(Joint(g, n)) = Len(items[i].tokens)
    <2>1. \A j \in 1..n : j # i => Len(g[j]) = 0
      BY <1>2, <1>6, <1>7 DEF IsBatch, n
    <2>2. i \in 0..n /\ i # 0
      BY <1>1
    <2>3. Len(Joint(g, n)) = IF i = 0 THEN 0 ELSE Len(g[i])
      BY <1>1, <1>5, <2>1, <2>2, OnlyPart
    <2>4. QED
      BY <1>2, <1>7, <2>2, <2>3
  <1>8. ASSUME \A i \in 1..n : items[i].seq # s PROVE Len(Joint(g, n)) = 0
    BY <1>1, <1>2, <1>5, <1>6, <1>8, OnlyPart
  <1>9. QED
    BY <1>4, <1>7, <1>8 DEF g, n

\* A token of an item is a row of its text.
LEMMA BatchItem ==
  ASSUME NEW b, NEW ln, IsBatch(b, ln), ln \in [Forwards!Seqs -> Nat], NEW i \in 1..Len(b)
  PROVE  /\ b[i].seq \in Forwards!Seqs /\ ln[b[i].seq] \in Nat /\ Len(b[i].tokens) \in Nat
         /\ ln[b[i].seq] + Len(b[i].tokens) \in 0..Len(Texts[b[i].seq])
         /\ \A t \in 1..Len(b[i].tokens) : \E s \in Forwards!Seqs : \E p \in 1..Len(Texts[s]) : s = b[i].seq /\ p = ln[s] + t
  BY BatchRows, TextsHold DEF IsBatch, IsPieceOf

-----------------------------------------------------------------------------
(* The forward pass: the run. *)

\* Item i of the running forward has put its keys at layer l.
Stored(i, l) == forward_pc # "idle" /\ (l < layer \/ (l = layer /\ forward_pc = "attend" /\ i < item))

\* What is in the caches: the keys of what each sequence was fed, and of its item.
KeysStored ==
    /\ kv = [s \in Forwards!Seqs |-> [l \in 1..TextLayers |-> kv[s][l]]]
    /\ \A i \in 1..Len(items), l \in 1..TextLayers : Stored(i, l) =>
          kv[items[i].seq][l] = KeysTo(items[i].seq, l, length[items[i].seq] + Len(items[i].tokens))
    /\ \A s \in Forwards!Seqs, l \in 1..TextLayers :
          (\A i \in 1..Len(items) : items[i].seq = s => ~ Stored(i, l)) =>
             kv[s][l] = KeysTo(s, l, length[s])

FwdShape ==
    /\ forward_pc \in {"idle", "project", "attend", "logits"}
    /\ length \in [Forwards!Seqs -> Nat] /\ \A s \in Forwards!Seqs : length[s] <= Len(Texts[s])
    /\ layer \in Nat \ {0}
    /\ forward_pc = "idle" => layer = 1
    /\ forward_pc \in {"project", "attend"} => layer <= TextLayers
    /\ forward_pc = "logits" => layer = TextLayers + 1
    /\ tmp \in Seq(AllKeys)
    /\ Len(items) \in Nat

ForwardInv ==
    /\ FwdShape /\ KeysStored
    /\ forward_pc # "idle" => /\ IsBatch(items, length) /\ HoldRows(rows, items, length, layer - 1)
                              /\ every => Len(items) = 1
    /\ forward_pc = "attend" =>
          /\ item \in 1..(Len(items) + 1)
          /\ HoldQueries(q, items, length, layer) /\ HoldKeys(new_kv, items, length, layer)
          /\ HoldSeen(attn, items, length, layer, item)
    /\ Forwards!MatchesSingle

\* Before the first forward.
LEMMA ForwardInit == Forwards!Init => ForwardInv
  <1>1. SUFFICES ASSUME Forwards!Init PROVE ForwardInv
    OBVIOUS
  <1>2. /\ length = [s \in Forwards!Seqs |-> 0]
        /\ kv = [s \in Forwards!Seqs |-> [l \in 1..TextLayers |-> <<>>]]
        /\ items = <<>> /\ layer = 1 /\ item = 1 /\ tmp = <<>> /\ forward_pc = "idle"
    BY <1>1 DEF Forwards!Init
  <1>3. Len(items) = 0 /\ DOMAIN items = {}
    BY <1>2
  <1>4. FwdShape
    BY <1>2, <1>3, TextsHold, EmptySeq DEF FwdShape
  <1>5. ASSUME NEW s \in Forwards!Seqs, NEW l \in 1..TextLayers PROVE kv[s][l] = KeysTo(s, l, length[s])
    BY <1>2, TextsHold, KeysToIs, EmptySeq
  <1>6. kv = [s \in Forwards!Seqs |-> [l \in 1..TextLayers |-> kv[s][l]]]
    BY <1>2
  <1>7. KeysStored
    BY <1>3, <1>5, <1>6 DEF KeysStored
  <1>8. Forwards!MatchesSingle
    BY <1>3 DEF Forwards!MatchesSingle
  <1>9. QED
    BY <1>2, <1>4, <1>7, <1>8 DEF ForwardInv

\* Packing a batch.
LEMMA PackInv ==
  ASSUME ForwardInv, NEW b \in Forwards!Batches, Forwards!Pack(b), every' => Len(b) = 1
  PROVE  ForwardInv'
  <1>1. /\ forward_pc = "idle" /\ forward_pc' = "project" /\ items' = b
        /\ rows' = [e \in DOMAIN Forwards!AllIds(b) |-> Forwards!Embed(Forwards!AllIds(b)[e])]
        /\ length' = length /\ kv' = kv /\ layer' = layer /\ tmp' = tmp
    BY DEF Forwards!Pack
  <1>2. FwdShape /\ KeysStored /\ layer = 1
    BY <1>1 DEF ForwardInv, FwdShape
  <1>3. IsBatch(b, length)
    BY <1>2, BatchesAre DEF FwdShape
  <1>4. FwdShape'
    BY <1>1, <1>2, <1>3, TextsHold DEF FwdShape, IsBatch
  <1>5. \A s \in Forwards!Seqs, l \in 1..TextLayers : kv[s][l] = KeysTo(s, l, length[s])
    BY <1>1, <1>2 DEF KeysStored, Stored
  <1>6. \A i \in 1..Len(b), l \in 1..TextLayers : ~ Stored(i, l)'
    BY <1>1, <1>2 DEF Stored
  <1>7. KeysStored'
    BY <1>1, <1>2, <1>5, <1>6 DEF KeysStored
  <1>8. HoldRows(rows', b, length, 0)
    <2>1. DOMAIN rows' = 1..RowsIn(b)
      BY <1>1, <1>3, PackedIs
    <2>2. ASSUME NEW i \in 1..Len(b), NEW t \in 1..Len(b[i].tokens)
          PROVE  rows'[Place3(b, i, t)] = RowAt(b[i].seq, 0, length[b[i].seq] + t)
      <3>1. PICK s \in Forwards!Seqs : \E p \in 1..Len(Texts[s]) : s = b[i].seq /\ p = length[s] + t
        BY <1>2, <1>3, BatchItem DEF FwdShape
      <3>2. PICK p \in 1..Len(Texts[s]) : s = b[i].seq /\ p = length[s] + t
        BY <3>1
      <3>3. Place3(b, i, t) \in 1..RowsIn(b)
        BY <1>3, BatchRows
      <3>4. Forwards!AllIds(b)[Place3(b, i, t)] = Texts[s][p]
        BY <1>3, <3>2, PackedIs
      <3>5. RowAt(s, 0, p) = Forwards!Embed(Texts[s][p])
        BY RowAtIs
      <3>6. rows'[Place3(b, i, t)] = Forwards!Embed(Forwards!AllIds(b)[Place3(b, i, t)])
        BY <1>1, <2>1, <3>3
      <3>7. QED
        BY <3>2, <3>4, <3>5, <3>6
    <2>3. QED
      BY <2>1, <2>2 DEF HoldRows
  <1>9. Forwards!MatchesSingle'
    BY <1>1 DEF Forwards!MatchesSingle
  <1>10. layer' - 1 = 0
    BY <1>1, <1>2
  <1>11. QED
    BY <1>1, <1>3, <1>4, <1>7, <1>8, <1>9, <1>10 DEF ForwardInv

\* Projecting the rows.
LEMMA ProjectInv == ForwardInv /\ Forwards!ProjectRows => ForwardInv'
  <1>1. SUFFICES ASSUME ForwardInv, Forwards!ProjectRows PROVE ForwardInv'
    OBVIOUS
  <1>2. /\ forward_pc = "project" /\ forward_pc' = "attend" /\ item' = 1
        /\ q' = [e \in DOMAIN rows |-> Forwards!Query(layer, rows[e], Forwards!Positions[e])]
        /\ new_kv' = [e \in DOMAIN rows |-> Forwards!KeyValue(layer, rows[e], Forwards!Positions[e])]
        /\ attn' = [e \in DOMAIN rows |-> <<>>]
        /\ length' = length /\ kv' = kv /\ items' = items /\ every' = every /\ layer' = layer
        /\ rows' = rows /\ tmp' = tmp
    BY <1>1 DEF Forwards!ProjectRows
  <1>3. /\ FwdShape /\ KeysStored /\ IsBatch(items, length) /\ (every => Len(items) = 1)
        /\ HoldRows(rows, items, length, layer - 1)
    BY <1>1, <1>2 DEF ForwardInv
  <1>4. FwdShape'
    BY <1>2, <1>3 DEF FwdShape
  <1>5. \A i \in 1..Len(items), l \in 1..TextLayers : Stored(i, l)' <=> Stored(i, l)
    BY <1>2 DEF Stored
  <1>6. KeysStored'
    BY <1>2, <1>3, <1>5 DEF KeysStored
  <1>7. DOMAIN rows = 1..RowsIn(items)
    BY <1>3 DEF HoldRows
  <1>8. ASSUME NEW i \in 1..Len(items), NEW t \in 1..Len(items[i].tokens)
        PROVE  /\ q'[Place3(items, i, t)] = QueryAt(items[i].seq, layer, length[items[i].seq] + t)
               /\ new_kv'[Place3(items, i, t)] = KeyAt(items[i].seq, layer, length[items[i].seq] + t)
    <2>1. Place3(items, i, t) \in 1..RowsIn(items)
      BY <1>3, BatchRows
    <2>2. Forwards!Positions[Place3(items, i, t)] = length[items[i].seq] + t - 1
      BY <1>3, PositionsAre DEF FwdShape
    <2>3. rows[Place3(items, i, t)] = RowAt(items[i].seq, layer - 1, length[items[i].seq] + t)
      BY <1>3 DEF HoldRows
    <2>4. PICK e \in 1..RowsIn(items) : e = Place3(items, i, t)
      BY <2>1
    <2>5. q'[e] = Forwards!Query(layer, rows[e], Forwards!Positions[e])
      BY <1>2, <1>7
    <2>6. new_kv'[e] = Forwards!KeyValue(layer, rows[e], Forwards!Positions[e])
      BY <1>2, <1>7
    <2>7. PICK p, s : p = length[items[i].seq] + t /\ s = items[i].seq
      OBVIOUS
    <2>8. Forwards!Positions[e] = p - 1 /\ rows[e] = RowAt(s, layer - 1, p)
      <3>1. length[items[i].seq] + t - 1 = p - 1
        <4>1. length[items[i].seq] \in Nat /\ t \in Nat
          <5>1. IsBatch(items, length) /\ length \in [Forwards!Seqs -> Nat]
            BY <1>3 DEF FwdShape
          <5>2. length[items[i].seq] \in Nat
            BY <5>1, BatchItem
          <5>3. Len(items[i].tokens) \in Nat
            BY <5>1, BatchRows
          <5>4. QED
            BY <5>2, <5>3
        <4>2. QED
          BY <2>7, <4>1
      <3>2. Forwards!Positions[e] = p - 1
        BY <2>2, <2>4, <3>1
      <3>3. rows[e] = RowAt(s, layer - 1, p)
        BY <2>3, <2>4, <2>7
      <3>4. QED
        BY <3>2, <3>3
    <2>9. q'[e] = QueryAt(s, layer, p) /\ new_kv'[e] = KeyAt(s, layer, p)
      BY <2>5, <2>6, <2>8 DEF QueryAt, KeyAt
    <2>10. QED
      BY <2>4, <2>7, <2>9
  <1>9. HoldQueries(q', items, length, layer) /\ HoldKeys(new_kv', items, length, layer)
    BY <1>2, <1>7, <1>8 DEF HoldQueries, HoldKeys
  <1>10. HoldSeen(attn', items, length, layer, 1)
    BY <1>2, <1>7 DEF HoldSeen
  <1>11. item' \in 1..(Len(items) + 1)
    BY <1>2, <1>3 DEF FwdShape
  <1>12. Forwards!MatchesSingle'
    BY <1>2 DEF Forwards!MatchesSingle
  <1>13. QED
    BY <1>2, <1>3, <1>4, <1>6, <1>9, <1>10, <1>11, <1>12 DEF ForwardInv

\* An item puts its keys and attends.
LEMMA AttendInv == ForwardInv /\ Forwards!AttendItem => ForwardInv'
  <1>1. SUFFICES ASSUME ForwardInv, Forwards!AttendItem PROVE ForwardInv'
    OBVIOUS
  <1>2. forward_pc = "attend" /\ item <= Len(items)
    BY <1>1 DEF Forwards!AttendItem
  <1>3. /\ FwdShape /\ KeysStored /\ IsBatch(items, length) /\ (every => Len(items) = 1)
        /\ HoldRows(rows, items, length, layer - 1)
        /\ item \in 1..(Len(items) + 1)
        /\ HoldQueries(q, items, length, layer) /\ HoldKeys(new_kv, items, length, layer)
        /\ HoldSeen(attn, items, length, layer, item)
    BY <1>1, <1>2 DEF ForwardInv
  <1>4. /\ item \in 1..Len(items) /\ layer \in 1..TextLayers /\ layer \in Nat /\ Len(items) \in Nat
        /\ length \in [Forwards!Seqs -> Nat]
    BY <1>2, <1>3, TextsHold DEF FwdShape
  <1>5. PICK s \in Forwards!Seqs : s = items[item].seq
    BY <1>3, <1>4, BatchItem
  <1>6. PICK m \in Nat, n \in Nat : m = length[s] /\ n = Len(items[item].tokens) /\ m + n \in 0..Len(Texts[s])
    BY <1>3, <1>4, <1>5, BatchItem
  <1>7. PICK own : own = kv[s][layer] \o [t \in 1..n |-> new_kv[Forwards!Offset(item) + t]]
    OBVIOUS
  <1>8. PICK keys : keys = IF store = "paged" THEN Forwards!Gathered(own) ELSE own
    OBVIOUS
  <1>9. Forwards!ItemLen(item) = n /\ Forwards!Past(item) = m /\ Forwards!Offset(item) = Before(TokensOf(items), item)
    BY <1>3, <1>4, <1>5, <1>6, ItemOffset
  <1>10. /\ kv' = [kv EXCEPT ![s][layer] = own]
         /\ tmp' = IF store = "paged" THEN Forwards!Gathered(own) ELSE tmp
         /\ attn' = [e \in DOMAIN attn |->
                       IF e - Forwards!Offset(item) \in 1..n
                       THEN Forwards!Attention(q[e], SubSeq(keys, 1, m + e - Forwards!Offset(item)))
                       ELSE attn[e]]
         /\ item' = item + 1
         /\ length' = length /\ items' = items /\ every' = every /\ layer' = layer
         /\ rows' = rows /\ q' = q /\ new_kv' = new_kv /\ forward_pc' = forward_pc
    BY <1>1, <1>5, <1>7, <1>8, <1>9 DEF Forwards!AttendItem
  \* Nobody else of the batch is this sequence, so its keys are those of its rows.
  <1>11. kv[s][layer] = KeysTo(s, layer, m)
    <2>1. \A i \in 1..Len(items) : items[i].seq = s => i = item
      BY <1>3, <1>4, <1>5 DEF IsBatch
    <2>2. ~ Stored(item, layer)
      BY <1>4 DEF Stored
    <2>3. QED
      BY <1>3, <1>4, <1>6, <2>1, <2>2 DEF KeysStored
  <1>12. own = KeysTo(s, layer, m + n)
    <2>1. PICK a : a = KeysTo(s, layer, m)
      OBVIOUS
    <2>2. PICK b : b = [t \in 1..n |-> new_kv[Forwards!Offset(item) + t]]
      OBVIOUS
    <2>3. m \in 0..Len(Texts[s])
      BY <1>6, TextsHold
    <2>4. a \in Seq(AllKeys) /\ Len(a) = m /\ \A p \in 1..m : a[p] = KeyAt(s, layer, p)
      BY <1>4, <2>1, <2>3, KeysToIs
    <2>5. ASSUME NEW t \in 1..n PROVE b[t] = KeyAt(s, layer, m + t)
      BY <1>3, <1>4, <1>5, <1>6, <1>9, <2>2 DEF HoldKeys, Place3
    <2>6. b \in Seq(AllKeys) /\ Len(b) = n
      <3>1. \A t \in 1..n : KeyAt(s, layer, m + t) \in AllKeys
        BY <1>4 DEF AllKeys
      <3>2. DOMAIN b = 1..n /\ \A t \in 1..n : b[t] \in AllKeys
        BY <2>2, <2>5, <3>1
      <3>3. b \in [1..n -> AllKeys]
        BY <2>2, <3>2
      <3>4. QED
        BY <3>3
    <2>7. PICK c : c = KeysTo(s, layer, m + n)
      OBVIOUS
    <2>8. c \in Seq(AllKeys) /\ Len(c) = m + n /\ \A p \in 1..(m + n) : c[p] = KeyAt(s, layer, p)
      BY <1>4, <1>6, <2>7, KeysToIs
    <2>9. /\ a \o b \in Seq(AllKeys) /\ Len(a \o b) = m + n
          /\ \A p \in 1..(m + n) : (a \o b)[p] = IF p <= m THEN a[p] ELSE b[p - m]
      BY <2>4, <2>6, ConcatProperties
    <2>10. ASSUME NEW p \in 1..(m + n) PROVE (a \o b)[p] = c[p]
      <3>1. CASE p <= m
        BY <2>4, <2>8, <2>9, <3>1
      <3>2. CASE p > m
        BY <2>5, <2>8, <2>9, <3>2
      <3>3. p <= m \/ p > m
        OBVIOUS
      <3>4. QED
        BY <3>1, <3>2, <3>3, Zenon
    <2>11. a \o b = c
      BY <2>8, <2>9, <2>10, SeqEqual
    <2>12. QED
      BY <1>7, <1>11, <2>1, <2>2, <2>7, <2>11
  <1>13. own \in Seq(AllKeys) /\ Len(own) = m + n /\ \A p \in 1..(m + n) : own[p] = KeyAt(s, layer, p)
    BY <1>4, <1>6, <1>12, KeysToIs
  \* What is gathered over the scratch buffer begins with the item's own keys.
  <1>14. /\ Forwards!Gathered(own) \in Seq(AllKeys)
         /\ \A p \in 1..(m + n) : Forwards!Gathered(own)[p] = own[p]
    BY <1>3, <1>13, LenProperties, ElementOfSeq, SubSeqProperties, ConcatProperties DEF FwdShape,
      Forwards!Gathered
  <1>15. FwdShape'
    BY <1>3, <1>10, <1>14 DEF FwdShape
  <1>16. KeysStored'
    <2>1. /\ kv' = [a \in Forwards!Seqs |-> [l \in 1..TextLayers |-> kv'[a][l]]]
          /\ kv'[s][layer] = own
          /\ \A a \in Forwards!Seqs, l \in 1..TextLayers : a # s \/ l # layer => kv'[a][l] = kv[a][l]
      BY <1>3, <1>4, <1>10 DEF KeysStored
    <2>2. ASSUME NEW i \in 1..Len(items), NEW l \in 1..TextLayers
          PROVE  Stored(i, l)' <=> Stored(i, l) \/ (i = item /\ l = layer)
      BY <1>2, <1>4, <1>10 DEF Stored
    <2>3. ASSUME NEW i \in 1..Len(items), NEW l \in 1..TextLayers, Stored(i, l)'
          PROVE  kv'[items[i].seq][l] = KeysTo(items[i].seq, l, length[items[i].seq] + Len(items[i].tokens))
      <3>1. CASE i = item /\ l = layer
        BY <1>5, <1>6, <1>12, <2>1, <3>1
      <3>2. CASE ~ (i = item /\ l = layer)
        <4>1. Stored(i, l)
          BY <2>2, <2>3, <3>2
        <4>2. kv[items[i].seq][l] = KeysTo(items[i].seq, l, length[items[i].seq] + Len(items[i].tokens))
          BY <1>3, <4>1 DEF KeysStored
        <4>3. items[i].seq = s => i = item
          BY <1>3, <1>4, <1>5 DEF IsBatch
        <4>4. items[i].seq \in Forwards!Seqs
          BY <1>3, <1>4, BatchItem
        <4>5. kv'[items[i].seq][l] = kv[items[i].seq][l]
          BY <2>1, <3>2, <4>3, <4>4
        <4>6. QED
          BY <4>2, <4>5
      <3>3. QED
        BY <3>1, <3>2
    <2>4. ASSUME NEW a \in Forwards!Seqs, NEW l \in 1..TextLayers,
                 \A i \in 1..Len(items) : items[i].seq = a => ~ Stored(i, l)'
          PROVE  kv'[a][l] = KeysTo(a, l, length[a])
      BY <1>3, <1>4, <1>5, <2>1, <2>2, <2>4 DEF KeysStored
    <2>5. QED
      BY <1>10, <2>1, <2>3, <2>4 DEF KeysStored
  <1>17. HoldSeen(attn', items, length, layer, item + 1)
    <2>1. DOMAIN attn' = 1..RowsIn(items) /\ DOMAIN attn = 1..RowsIn(items)
      BY <1>3, <1>10 DEF HoldSeen
    <2>2. ASSUME NEW i \in 1..Len(items), i < item + 1, NEW t \in 1..Len(items[i].tokens)
          PROVE  attn'[Place3(items, i, t)] = SeenAt(items[i].seq, layer, length[items[i].seq] + t)
      <3>1. PICK e \in 1..RowsIn(items) : e = Place3(items, i, t)
        BY <1>3, BatchRows
      <3>2. attn'[e] = IF e - Forwards!Offset(item) \in 1..n
                       THEN Forwards!Attention(q[e], SubSeq(keys, 1, m + e - Forwards!Offset(item)))
                       ELSE attn[e]
        BY <1>10, <2>1
      <3>3. CASE i = item
        <4>1. t \in 1..n
          BY <1>6, <3>3
        <4>2. e - Forwards!Offset(item) = t
          BY <1>3, <1>4, <1>9, <3>1, <3>3, RowsApart
        <4>3. PICK o \in Nat : o = Forwards!Offset(item) /\ e = o + t
          BY <1>3, <1>4, <1>9, <3>1, <3>3, BatchRows, BeforeNext DEF Place3
        <4>4. (m + e) - o = m + t
          BY <4>1, <4>3
        <4>5. attn'[e] = Forwards!Attention(q[e], SubSeq(keys, 1, m + t))
          BY <3>2, <4>1, <4>2, <4>3, <4>4
        <4>6. q[e] = QueryAt(s, layer, m + t)
          BY <1>3, <1>5, <1>6, <3>1, <3>3 DEF HoldQueries
        <4>7. SubSeq(keys, 1, m + t) = KeysTo(s, layer, m + t)
          <5>1. \A p \in 1..(m + n) : keys[p] = KeyAt(s, layer, p)
            BY <1>8, <1>13, <1>14
          <5>2. PICK k : k = KeysAt(s, layer)
            OBVIOUS
          <5>3. \A p \in 1..(m + n) : k[p] = KeyAt(s, layer, p)
            BY <1>6, <5>2, TextsHold DEF KeysAt
          <5>4. m + t \in Nat /\ \A p \in 1..(m + t) : p \in 1..(m + n)
            BY <4>1
          <5>5. \A p \in 1..(m + t) : keys[p] = k[p]
            BY <5>1, <5>3, <5>4
          <5>6. SubSeq(keys, 1, m + t) = SubSeq(k, 1, m + t)
            BY <5>4, <5>5, PrefixSame
          <5>7. QED
            BY <5>2, <5>6 DEF KeysTo
        <4>8. QED
          BY <1>5, <1>6, <3>1, <3>3, <4>5, <4>6, <4>7 DEF SeenAt
      <3>4. CASE i # item
        <4>1. ~ (e - Forwards!Offset(item) \in 1..n)
          BY <1>3, <1>4, <1>6, <1>9, <3>1, <3>4, RowsApart
        <4>2. i < item
          BY <1>4, <2>2, <3>4
        <4>3. attn[e] = SeenAt(items[i].seq, layer, length[items[i].seq] + t)
          BY <1>3, <3>1, <4>2 DEF HoldSeen
        <4>4. QED
          BY <3>1, <3>2, <4>1, <4>3
      <3>5. QED
        BY <3>3, <3>4
    <2>3. QED
      BY <2>1, <2>2 DEF HoldSeen
  <1>18. item' \in 1..(Len(items) + 1)
    BY <1>4, <1>10
  <1>19. Forwards!MatchesSingle'
    BY <1>2, <1>10 DEF Forwards!MatchesSingle
  <1>20. QED
    BY <1>2, <1>3, <1>10, <1>15, <1>16, <1>17, <1>18, <1>19 DEF ForwardInv

\* The rest of a layer.
LEMMA FinishInv == ForwardInv /\ Forwards!FinishLayer => ForwardInv'
  <1>1. SUFFICES ASSUME ForwardInv, Forwards!FinishLayer PROVE ForwardInv'
    OBVIOUS
  <1>2. /\ forward_pc = "attend" /\ item > Len(items)
        /\ rows' = [e \in DOMAIN rows |-> Forwards!Mlp(layer, rows[e], attn[e])]
        /\ layer' = layer + 1
        /\ forward_pc' = IF layer = TextLayers THEN "logits" ELSE "project"
        /\ length' = length /\ kv' = kv /\ items' = items /\ every' = every /\ tmp' = tmp
    BY <1>1 DEF Forwards!FinishLayer
  <1>3. /\ FwdShape /\ KeysStored /\ IsBatch(items, length) /\ (every => Len(items) = 1)
        /\ HoldRows(rows, items, length, layer - 1)
        /\ item \in 1..(Len(items) + 1)
        /\ HoldSeen(attn, items, length, layer, item)
    BY <1>1, <1>2 DEF ForwardInv
  <1>4. /\ layer \in Nat \ {0} /\ layer <= TextLayers /\ TextLayers \in Nat /\ Len(items) \in Nat
        /\ length \in [Forwards!Seqs -> Nat] /\ layer' - 1 = layer
    BY <1>2, <1>3, TextsHold DEF FwdShape
  <1>5. FwdShape'
    BY <1>2, <1>3, <1>4 DEF FwdShape
  <1>6. ASSUME NEW i \in 1..Len(items), NEW l \in 1..TextLayers PROVE Stored(i, l)' <=> Stored(i, l)
    BY <1>2, <1>3, <1>4 DEF Stored
  <1>7. KeysStored'
    BY <1>2, <1>3, <1>6 DEF KeysStored
  <1>8. HoldRows(rows', items, length, layer)
    <2>1. DOMAIN rows = 1..RowsIn(items) /\ DOMAIN rows' = 1..RowsIn(items)
      BY <1>2, <1>3 DEF HoldRows
    <2>2. ASSUME NEW i \in 1..Len(items), NEW t \in 1..Len(items[i].tokens)
          PROVE  rows'[Place3(items, i, t)] = RowAt(items[i].seq, layer, length[items[i].seq] + t)
      <3>1. PICK s \in Forwards!Seqs : \E p \in 1..Len(Texts[s]) : s = items[i].seq /\ p = length[s] + t
        <4>1. IsBatch(items, length) /\ length \in [Forwards!Seqs -> Nat]
          BY <1>3, <1>4
        <4>2. \E s \in Forwards!Seqs : \E p \in 1..Len(Texts[s]) : s = items[i].seq /\ p = length[s] + t
          BY <4>1, BatchItem
        <4>3. QED
          BY <4>2
      <3>2. PICK p \in 1..Len(Texts[s]) : s = items[i].seq /\ p = length[s] + t
        BY <3>1
      <3>3. PICK e \in 1..RowsIn(items) : e = Place3(items, i, t)
        BY <1>3, BatchRows
      <3>4. rows[e] = RowAt(s, layer - 1, p)
        BY <1>3, <3>2, <3>3 DEF HoldRows
      <3>5. attn[e] = SeenAt(s, layer, p)
        BY <1>2, <1>3, <1>4, <3>2, <3>3 DEF HoldSeen
      <3>6. RowAt(s, layer, p) = Forwards!Mlp(layer, RowAt(s, layer - 1, p), SeenAt(s, layer, p))
        BY <1>4, RowAtIs
      <3>7. rows'[e] = Forwards!Mlp(layer, rows[e], attn[e])
        BY <1>2, <2>1
      <3>8. QED
        BY <3>2, <3>3, <3>4, <3>5, <3>6, <3>7
    <2>3. QED
      BY <2>1, <2>2 DEF HoldRows
  <1>9. Forwards!MatchesSingle' /\ forward_pc' # "idle" /\ forward_pc' # "attend"
    BY <1>2 DEF Forwards!MatchesSingle
  <1>10. QED
    BY <1>2, <1>3, <1>4, <1>5, <1>7, <1>8, <1>9 DEF ForwardInv

\* The logits of a context whose last row is row p of text s.
LEMMA LogitsAre ==
  ASSUME NEW s \in Forwards!Seqs, NEW p \in 1..Len(Texts[s])
  PROVE  /\ Forwards!ForwardLogits(SubSeq(Texts[s], 1, p)) = Forwards!Project(RowAt(s, TextLayers, p))
         /\ \A e \in p..Len(Texts[s]) :
               /\ SubSeq(SubSeq(Texts[s], 1, e), 1, p) = SubSeq(Texts[s], 1, p)
               /\ Len(SubSeq(Texts[s], 1, e)) = e
  <1>1. Texts[s] \in Seq(AllTokens) /\ Len(Texts[s]) \in Nat
    BY TextsHold
  <1>2. Forwards!ForwardLogits(SubSeq(Texts[s], 1, p)) = Forwards!Project(RowAt(s, TextLayers, p))
    BY <1>1, TextsHold, PrefixIs, Causal DEF Forwards!ForwardLogits, RowAt
  <1>3. QED
    BY <1>1, <1>2, PrefixIs, PrefixSame

\* The caches once a forward is over.
LEMMA LeaveInv ==
  ASSUME ForwardInv, forward_pc = "logits", Forwards!Leave
  PROVE  /\ FwdShape' /\ KeysStored' /\ items' = items /\ every' = every
         /\ \A i \in 1..Len(items) : length'[items[i].seq] = length[items[i].seq] + Len(items[i].tokens)
  <1>1. /\ forward_pc' = "idle" /\ layer' = 1 /\ tmp' = <<>>
        /\ kv' = kv /\ items' = items /\ every' = every
    BY DEF Forwards!Leave
  <1>2. FwdShape /\ KeysStored /\ IsBatch(items, length)
    BY DEF ForwardInv
  <1>3. layer = TextLayers + 1 /\ Len(items) \in Nat /\ length \in [Forwards!Seqs -> Nat]
        /\ TextLayers \in Nat
    BY <1>2, TextsHold DEF FwdShape
  <1>4. ASSUME NEW s \in Forwards!Seqs
        PROVE  /\ \A i \in 1..Len(items) : items[i].seq = s => length'[s] = length[s] + Len(items[i].tokens)
               /\ (\A i \in 1..Len(items) : items[i].seq # s) => length'[s] = length[s]
    <2> DEFINE fed == Len(Forwards!FlattenSeq([i \in DOMAIN items |->
                            IF items[i].seq = s THEN items[i].tokens ELSE <<>>]))
    <2>1. length'[s] = length[s] + fed
      BY DEF Forwards!Leave
    <2>2. /\ \A i \in 1..Len(items) : items[i].seq = s => fed = Len(items[i].tokens)
          /\ (\A i \in 1..Len(items) : items[i].seq # s) => fed = 0
      BY <1>2, LengthsAre
    <2> HIDE DEF fed
    <2>3. length[s] \in Nat
      BY <1>3
    <2>4. QED
      BY <2>1, <2>2, <2>3
  <1>5. \A i \in 1..Len(items) : length'[items[i].seq] = length[items[i].seq] + Len(items[i].tokens)
    BY <1>2, <1>3, <1>4, BatchItem
  <1>6. ASSUME NEW s \in Forwards!Seqs PROVE length'[s] \in Nat /\ length'[s] <= Len(Texts[s])
    <2>1. CASE \E i \in 1..Len(items) : items[i].seq = s
      BY <1>2, <1>3, <1>4, <2>1, BatchItem, TextsHold
    <2>2. CASE \A i \in 1..Len(items) : items[i].seq # s
      BY <1>2, <1>3, <1>4, <2>2 DEF FwdShape
    <2>3. QED
      BY <2>1, <2>2
  <1>7. length' \in [Forwards!Seqs -> Nat]
    BY <1>6 DEF Forwards!Leave
  <1>8. FwdShape'
    BY <1>1, <1>3, <1>6, <1>7, EmptySeq DEF FwdShape
  <1>9. ASSUME NEW s \in Forwards!Seqs, NEW l \in 1..TextLayers PROVE kv[s][l] = KeysTo(s, l, length'[s])
    <2>1. \A i \in 1..Len(items) : Stored(i, l)
      BY <1>3 DEF Stored
    <2>2. CASE \E i \in 1..Len(items) : items[i].seq = s
      BY <1>2, <1>4, <2>1, <2>2 DEF KeysStored
    <2>3. CASE \A i \in 1..Len(items) : items[i].seq # s
      BY <1>2, <1>4, <2>3 DEF KeysStored
    <2>4. QED
      BY <2>2, <2>3
  <1>10. \A i \in 1..Len(items), l \in 1..TextLayers : ~ Stored(i, l)'
    BY <1>1 DEF Stored
  <1>11. kv = [s \in Forwards!Seqs |-> [l \in 1..TextLayers |-> kv[s][l]]]
    BY <1>2 DEF KeysStored
  <1>12. KeysStored'
    BY <1>1, <1>9, <1>10, <1>11 DEF KeysStored
  <1>13. QED
    BY <1>1, <1>5, <1>8, <1>12

\* Which row of a finished batch a token is, and what the row holds.
LEMMA LastRows ==
  ASSUME ForwardInv, forward_pc = "logits", NEW i \in 1..Len(items), NEW t \in 1..Len(items[i].tokens)
  PROVE  /\ DOMAIN rows = 1..RowsIn(items) /\ Place3(items, i, t) \in DOMAIN rows
         /\ \E s \in Forwards!Seqs : \E p \in 1..Len(Texts[s]) :
               /\ s = items[i].seq /\ p = length[s] + t
               /\ length[s] + Len(items[i].tokens) \in p..Len(Texts[s])
               /\ rows[Place3(items, i, t)] = RowAt(s, TextLayers, p)
  <1>1. /\ FwdShape /\ IsBatch(items, length) /\ HoldRows(rows, items, length, layer - 1)
    BY DEF ForwardInv
  <1>2. layer - 1 = TextLayers /\ length \in [Forwards!Seqs -> Nat]
    BY <1>1, TextsHold DEF FwdShape
  <1>3. HoldRows(rows, items, length, TextLayers)
    BY <1>1, <1>2
  <1>4. DOMAIN rows = 1..RowsIn(items)
    BY <1>3 DEF HoldRows
  <1>5. Place3(items, i, t) \in 1..RowsIn(items)
    BY <1>1, BatchRows
  <1>6. rows[Place3(items, i, t)] = RowAt(items[i].seq, TextLayers, length[items[i].seq] + t)
    BY <1>3 DEF HoldRows
  <1>7. \E s \in Forwards!Seqs : \E p \in 1..Len(Texts[s]) : s = items[i].seq /\ p = length[s] + t
    BY <1>1, <1>2, BatchItem
  <1>8. PICK s \in Forwards!Seqs : \E p \in 1..Len(Texts[s]) : s = items[i].seq /\ p = length[s] + t
    BY <1>7
  <1>9. PICK p \in 1..Len(Texts[s]) : s = items[i].seq /\ p = length[s] + t
    BY <1>8
  <1>10. length[s] + Len(items[i].tokens) \in 0..Len(Texts[s]) /\ length[s] \in Nat
         /\ Len(items[i].tokens) \in Nat
    BY <1>1, <1>2, <1>9, BatchItem
  <1>11. length[s] + Len(items[i].tokens) \in p..Len(Texts[s])
    BY <1>9, <1>10
  <1>12. rows[Place3(items, i, t)] = RowAt(s, TextLayers, p)
    BY <1>6, <1>9
  <1>13. QED
    BY <1>4, <1>5, <1>9, <1>11, <1>12

\* All rows are projected: those of the only item are the first ones.
LEMMA ReturnRowsInv == ForwardInv /\ Forwards!ReturnRows => ForwardInv'
  <1>1. SUFFICES ASSUME ForwardInv, Forwards!ReturnRows PROVE ForwardInv'
    OBVIOUS
  <1>2. /\ forward_pc = "logits" /\ every /\ Forwards!Leave
        /\ next_logits' = [e \in DOMAIN rows |-> Forwards!Project(rows[e])]
    BY <1>1 DEF Forwards!ReturnRows
  <1>3. /\ FwdShape' /\ KeysStored' /\ items' = items /\ every' = every
        /\ \A i \in 1..Len(items) : length'[items[i].seq] = length[items[i].seq] + Len(items[i].tokens)
        /\ forward_pc' = "idle"
    BY <1>1, <1>2, LeaveInv DEF Forwards!Leave
  <1>4. IsBatch(items, length) /\ Len(items) = 1
    BY <1>1, <1>2 DEF ForwardInv
  <1>5. DOMAIN items = 1..Len(items)
    BY <1>4 DEF IsBatch
  <1>6. ASSUME NEW i \in 1..Len(items), NEW t \in 1..Len(items[i].tokens)
        PROVE  LET c == SubSeq(Texts[items[i].seq], 1, length'[items[i].seq])
               IN next_logits'[t] = Forwards!ForwardLogits(SubSeq(c, 1, Len(c) - Len(items[i].tokens) + t))
    <2>1. /\ DOMAIN rows = 1..RowsIn(items) /\ Place3(items, i, t) \in DOMAIN rows
          /\ \E s \in Forwards!Seqs : \E p \in 1..Len(Texts[s]) :
                /\ s = items[i].seq /\ p = length[s] + t
                /\ length[s] + Len(items[i].tokens) \in p..Len(Texts[s])
                /\ rows[Place3(items, i, t)] = RowAt(s, TextLayers, p)
      BY <1>1, <1>2, LastRows
    <2>2. PICK s \in Forwards!Seqs : \E p \in 1..Len(Texts[s]) :
             /\ s = items[i].seq /\ p = length[s] + t
             /\ length[s] + Len(items[i].tokens) \in p..Len(Texts[s])
             /\ rows[Place3(items, i, t)] = RowAt(s, TextLayers, p)
      BY <2>1
    <2>3. PICK p \in 1..Len(Texts[s]) :
             /\ s = items[i].seq /\ p = length[s] + t
             /\ length[s] + Len(items[i].tokens) \in p..Len(Texts[s])
             /\ rows[Place3(items, i, t)] = RowAt(s, TextLayers, p)
      BY <2>2
    <2>4. PICK e \in p..Len(Texts[s]) : e = length[s] + Len(items[i].tokens)
      BY <2>3
    <2>5. Place3(items, i, t) = t
      <3>1. AreSeqs(TokensOf(items), Len(items), AllTokens)
        BY <1>4, BatchRows
      <3>2. i = 1 /\ t \in Nat
        BY <1>4, BatchRows
      <3>3. PICK n \in Nat : n = Len(items) /\ 1 \in 1..n
        BY <1>4
      <3>4. Before(TokensOf(items), 1) = 0
        BY <3>1, <3>3, BeforeNext
      <3>5. QED
        BY <3>2, <3>4 DEF Place3
    <2>6. next_logits'[t] = Forwards!Project(RowAt(s, TextLayers, p))
      BY <1>2, <2>1, <2>3, <2>5
    <2>7. /\ Forwards!ForwardLogits(SubSeq(Texts[s], 1, p)) = Forwards!Project(RowAt(s, TextLayers, p))
          /\ SubSeq(SubSeq(Texts[s], 1, e), 1, p) = SubSeq(Texts[s], 1, p)
          /\ Len(SubSeq(Texts[s], 1, e)) = e
      BY LogitsAre
    <2>8. length'[s] = e
      BY <1>3, <2>3, <2>4
    <2>9. e - Len(items[i].tokens) + t = p
      BY <1>1, <1>4, <2>3, <2>4, BatchItem, BatchRows DEF ForwardInv, FwdShape
    <2>10. PICK c : c = SubSeq(Texts[s], 1, e)
      OBVIOUS
    <2>11. Len(c) - Len(items[i].tokens) + t = p
      BY <2>7, <2>9, <2>10
    <2>12. next_logits'[t] = Forwards!ForwardLogits(SubSeq(c, 1, Len(c) - Len(items[i].tokens) + t))
      BY <2>6, <2>7, <2>10, <2>11
    <2>13. c = SubSeq(Texts[items[i].seq], 1, length'[items[i].seq])
      BY <2>3, <2>8, <2>10
    <2>14. QED
      BY <2>12, <2>13
  <1>7. Forwards!MatchesSingle'
    <2>1. DOMAIN items' = 1..Len(items) /\ every'
      BY <1>2, <1>3, <1>5
    <2>2. ASSUME NEW i \in 1..Len(items), NEW t \in 1..Forwards!ItemLen(i)'
          PROVE  LET c == SubSeq(Texts[items'[i].seq], 1, Forwards!Past(i)')
                 IN next_logits'[t] = Forwards!ForwardLogits(SubSeq(c, 1, Len(c) - Forwards!ItemLen(i)' + t))
      BY <1>3, <1>6 DEF Forwards!ItemLen, Forwards!Past
    <2>3. QED
      BY <2>1, <2>2, Zenon DEF Forwards!MatchesSingle
  <1>8. QED
    BY <1>3, <1>7 DEF ForwardInv

\* The last row of each item is projected.
LEMMA ReturnLastInv == ForwardInv /\ Forwards!ReturnLast => ForwardInv'
  <1>1. SUFFICES ASSUME ForwardInv, Forwards!ReturnLast PROVE ForwardInv'
    OBVIOUS
  <1>2. /\ forward_pc = "logits" /\ ~ every /\ Forwards!Leave
        /\ next_logits' = [i \in DOMAIN items |-> Forwards!Project(rows[Forwards!LastRow(i)])]
    BY <1>1 DEF Forwards!ReturnLast
  <1>3. /\ FwdShape' /\ KeysStored' /\ items' = items /\ every' = every
        /\ \A i \in 1..Len(items) : length'[items[i].seq] = length[items[i].seq] + Len(items[i].tokens)
        /\ forward_pc' = "idle"
    BY <1>1, <1>2, LeaveInv DEF Forwards!Leave
  <1>4. IsBatch(items, length)
    BY <1>1, <1>2 DEF ForwardInv
  <1>5. DOMAIN items = 1..Len(items)
    BY <1>4 DEF IsBatch
  <1>6. ASSUME NEW i \in 1..Len(items)
        PROVE  next_logits'[i] = Forwards!ForwardLogits(SubSeq(Texts[items[i].seq], 1, length'[items[i].seq]))
    <2>1. Len(items[i].tokens) \in Nat \ {0}
      BY <1>4, BatchRows DEF IsBatch, IsPieceOf
    <2>2. PICK t \in 1..Len(items[i].tokens) : t = Len(items[i].tokens)
      BY <2>1
    <2>3. /\ DOMAIN rows = 1..RowsIn(items) /\ Place3(items, i, t) \in DOMAIN rows
          /\ \E s \in Forwards!Seqs : \E p \in 1..Len(Texts[s]) :
                /\ s = items[i].seq /\ p = length[s] + t
                /\ length[s] + Len(items[i].tokens) \in p..Len(Texts[s])
                /\ rows[Place3(items, i, t)] = RowAt(s, TextLayers, p)
      BY <1>1, <1>2, LastRows
    <2>4. PICK s \in Forwards!Seqs : \E p \in 1..Len(Texts[s]) :
             /\ s = items[i].seq /\ p = length[s] + t
             /\ rows[Place3(items, i, t)] = RowAt(s, TextLayers, p)
      BY <2>3
    <2>5. PICK p \in 1..Len(Texts[s]) :
             /\ s = items[i].seq /\ p = length[s] + t
             /\ rows[Place3(items, i, t)] = RowAt(s, TextLayers, p)
      BY <2>4
    <2>6. Forwards!LastRow(i) = Place3(items, i, t)
      BY <1>4, <2>2, ItemOffset DEF Forwards!LastRow, Place3
    <2>7. next_logits'[i] = Forwards!Project(rows[Forwards!LastRow(i)])
      BY <1>2, <1>5
    <2>8. Forwards!ForwardLogits(SubSeq(Texts[s], 1, p)) = Forwards!Project(RowAt(s, TextLayers, p))
      BY LogitsAre
    <2>9. length'[items[i].seq] = p
      BY <1>3, <2>2, <2>5
    <2>10. QED
      BY <2>5, <2>6, <2>7, <2>8, <2>9
  <1>7. Forwards!MatchesSingle'
    BY <1>2, <1>3, <1>5, <1>6 DEF Forwards!MatchesSingle, Forwards!Past
  <1>8. QED
    BY <1>3, <1>7 DEF ForwardInv

\* Every step of a forward keeps the invariant.
LEMMA ForwardNext == ForwardInv /\ [Forwards!Next]_(Forwards!vars) => ForwardInv'
  <1>1. SUFFICES ASSUME ForwardInv, [Forwards!Next]_(Forwards!vars) PROVE ForwardInv'
    OBVIOUS
  <1>2. ASSUME NEW b \in Forwards!Batches, Forwards!ForwardCached(b) PROVE ForwardInv'
    BY <1>1, <1>2, PackInv DEF Forwards!ForwardCached
  <1>3. ASSUME NEW b \in Forwards!Batches, Forwards!ForwardBatch(b) PROVE ForwardInv'
    BY <1>1, <1>3, PackInv DEF Forwards!ForwardBatch
  <1>4. CASE Forwards!ProjectRows
    BY <1>1, <1>4, ProjectInv
  <1>5. CASE Forwards!AttendItem
    BY <1>1, <1>5, AttendInv
  <1>6. CASE Forwards!FinishLayer
    BY <1>1, <1>6, FinishInv
  <1>7. CASE Forwards!ReturnRows
    BY <1>1, <1>7, ReturnRowsInv
  <1>8. CASE Forwards!ReturnLast
    BY <1>1, <1>8, ReturnLastInv
  <1>9. CASE UNCHANGED Forwards!vars
    <2>1. /\ length' = length /\ kv' = kv /\ items' = items /\ every' = every /\ layer' = layer
          /\ item' = item /\ rows' = rows /\ q' = q /\ new_kv' = new_kv /\ attn' = attn
          /\ tmp' = tmp /\ next_logits' = next_logits /\ forward_pc' = forward_pc
      BY <1>9 DEF Forwards!vars
    <2>2. FwdShape'
      BY <1>1, <2>1 DEF ForwardInv, FwdShape
    <2>3. KeysStored'
      BY <1>1, <2>1 DEF ForwardInv, KeysStored, Stored
    <2>4. Forwards!MatchesSingle'
      BY <1>1, <2>1 DEF ForwardInv, Forwards!MatchesSingle, Forwards!Past, Forwards!ItemLen
    <2>5. QED
      BY <1>1, <2>1, <2>2, <2>3, <2>4 DEF ForwardInv
  <1>10. Forwards!Finished => UNCHANGED Forwards!vars
    BY DEF Forwards!Finished
  <1>11. QED
    BY <1>1, <1>2, <1>3, <1>4, <1>5, <1>6, <1>7, <1>8, <1>9, <1>10 DEF Forwards!Next

\* The run's steps are those of a forward while that is its subject.
LEMMA ForwardRuns ==
  /\ Init => (subject = "forward" => Forwards!Init)
  /\ [Next]_allVars => UNCHANGED subject /\ (subject = "forward" => [Forwards!Next]_(Forwards!vars))
  BY DEF Init, allVars, forwardVars, Forwards!vars, Next

\* Each sequence attends only over its own rows, and the last row of each item drives its
\* next token: for all texts, however they are cut into pieces and pieces into batches,
\* through caches or paged with a shared scratch buffer, the logits of forward_cached()
\* and forward_batch() are those of a forward over the sequence's whole context.
THEOREM BatchesMatchSingle == Spec => []MatchesSingle
  <1> DEFINE Inv == subject = "forward" => ForwardInv
  <1>1. Init => Inv
    BY ForwardInit, ForwardRuns
  <1>2. Inv /\ [Next]_allVars => Inv'
    BY ForwardNext, ForwardRuns
  <1>3. Inv => MatchesSingle
    BY DEF ForwardInv, MatchesSingle
  <1>4. QED
    BY <1>1, <1>2, <1>3, PTL DEF Spec

-----------------------------------------------------------------------------
(* What the reductions compute: powers of two, and the slots of a row. *)

Pow2s == {2^i : i \in Nat}

\* The least of two powers of two is half the other at most, and halves are powers.
LEMMA PowsHalve ==
  ASSUME NEW c \in Pow2s
  PROVE  /\ c \in Nat \ {0}
         /\ (c = 1 /\ c \div 2 = 0) \/ \E h \in Pow2s : c = h + h /\ c \div 2 = h
         /\ \A h \in Pow2s : h < c => h + h <= c
  <1>1. PICK k \in Nat : c = 2^k
    BY DEF Pow2s
  <1>2. c \in Nat \ {0}
    BY <1>1, PowPositive
  <1>3. CASE k = 0
    BY <1>1, <1>3, PowZero, PowPositive DEF Pow2s
  <1>4. CASE k # 0
    <2>1. PICK m \in Nat : k = m + 1
      BY <1>4
    <2>2. PICK h \in Nat \ {0} : h = 2^m
      BY PowPositive
    <2>3. c = h + h
      BY <1>1, <2>1, <2>2, PowSucc
    <2>4. h \in Pow2s
      BY <2>2 DEF Pow2s
    <2>5. c \div 2 = h
      BY <2>3
    <2>6. ASSUME NEW e \in Pow2s, e < c PROVE e + e <= c
      <3>1. PICK n \in Nat : e = 2^n
        BY DEF Pow2s
      <3>2. e \in Nat
        BY <3>1, PowPositive
      <3>3. n <= m
        <4>1. SUFFICES ASSUME k <= n PROVE FALSE
          BY <2>1
        <4>2. c <= e
          BY <1>1, <3>1, <4>1, PowGrows
        <4>3. QED
          BY <1>2, <2>6, <3>2, <4>2
      <3>4. e <= h
        BY <2>2, <3>1, <3>3, PowGrows
      <3>5. QED
        BY <2>3, <3>2, <3>4
    <2>7. QED
      BY <1>2, <2>3, <2>4, <2>5, <2>6
  <1>5. QED
    BY <1>2, <1>3, <1>4

\* One is a power of two, and so is the number of threads.
LEMMA ThreadsArePow == 1 \in Pow2s /\ NumThreads \in Pow2s
  <1>1. PICK k \in 0..10 : NumThreads = 2^k
    BY OperatorsAssumption, Zenon DEF RowKernel!RowKernelsAssumption
  <1>2. k \in Nat /\ 0 \in Nat
    OBVIOUS
  <1>3. 1 = 2^0
    BY PowZero
  <1>4. QED
    BY <1>1, <1>2, <1>3 DEF Pow2s

\* The columns of a row of n that slot t of s slots stands for.
Part(n, s, t) == {j \in 0..(n - 1) : j % s = t}

\* Slots t and t + s of twice as many are slot t.
LEMMA PartSplit ==
  ASSUME NEW n \in Nat, NEW s \in Nat \ {0}, NEW t \in 0..(s - 1)
  PROVE  /\ Part(n, s, t) = Part(n, s + s, t) \cup Part(n, s + s, t + s)
         /\ Part(n, s + s, t) \cap Part(n, s + s, t + s) = {}
  <1>1. s + s \in Nat \ {0}
    OBVIOUS
  <1>2. ASSUME NEW j \in Nat
        PROVE  /\ j % s = t <=> j % (s + s) = t \/ j % (s + s) = t + s
               /\ ~ (j % (s + s) = t /\ j % (s + s) = t + s)
    <2>1. PICK q1 \in Nat, y1 \in 0..((s + s) - 1) : j = q1 * (s + s) + y1
      BY <1>1, DivisionIs
    <2>2. j % (s + s) = y1
      BY <1>1, <2>1, Place, Zenon
    <2>3. CASE y1 < s
      <3>1. PICK m \in Nat : m = q1 + q1
        OBVIOUS
      <3>2. j = m * s + y1
        BY <2>1, <3>1, SMT
      <3>3. y1 \in 0..(s - 1)
        BY <2>3
      <3>4. j % s = y1
        BY <3>2, <3>3, Place, Zenon
      <3>5. QED
        BY <2>2, <2>3, <3>4
    <2>4. CASE s <= y1
      <3>1. PICK m \in Nat : m = q1 + q1 + 1
        OBVIOUS
      <3>2. PICK e \in 0..(s - 1) : y1 = e + s
        BY <2>4
      <3>3. j = m * s + e
        BY <2>1, <3>1, <3>2, SMT
      <3>4. j % s = e
        BY <3>3, Place, Zenon
      <3>5. QED
        BY <2>2, <3>2, <3>4
    <2>5. QED
      BY <2>3, <2>4
  <1>3. \A j \in 0..(n - 1) : j \in Nat
    OBVIOUS
  <1>4. QED
    BY <1>2, <1>3 DEF Part

\* One slot is the row, and every column is in a slot.
LEMMA PartAll ==
  ASSUME NEW n \in Nat
  PROVE  /\ Part(n, 1, 0) = 0..(n - 1)
         /\ \A s, t : Part(n, s, t) \subseteq 0..(n - 1)
         /\ \A s \in Nat \ {0} : \A j \in 0..(n - 1) : \E t \in 0..(s - 1) : j \in Part(n, s, t)
  BY DEF Part

-----------------------------------------------------------------------------
(* What the reductions compute: the first of the greatest, and the sum of squares. *)

\* The first of the greatest of y in S.
IsFirst(y, S, j) == j \in S /\ \A k \in S : y[k] < y[j] \/ (y[k] = y[j] /\ j <= k)
FirstMost(y, S) == CHOOSE j \in S : \A k \in S : y[k] < y[j] \/ (y[k] = y[j] /\ j <= k)
BestVal(y, S) == IF S = {} THEN 0 ELSE y[FirstMost(y, S)]
BestIdx(y, S) == IF S = {} THEN 0 ELSE FirstMost(y, S)
Squares(y) == [j \in DOMAIN y |-> y[j] * y[j]]

\* What a slot holds once it stands for S.
HoldsFor(kn, y, S, v, i) == IF kn = "argmax" THEN v = BestVal(y, S) /\ i = BestIdx(y, S)
                            ELSE v = Total(Squares(y), S)

\* There is a first of the greatest.
LEMMA FirstExists ==
  ASSUME NEW n \in Nat \ {0}, NEW y \in [0..(n - 1) -> Nat], NEW S \in SUBSET (0..(n - 1)), S # {}
  PROVE  \E j : IsFirst(y, S, j)
  <1>1. PICK f : f = [j \in 0..(n - 1) |-> IF j \in S THEN y[j] ELSE -1]
    OBVIOUS
  <1>2. n - 1 \in Nat /\ \A j \in 0..(n - 1) : f[j] \in Int
    BY <1>1
  <1>3. PICK g \in 0..(n - 1) : \A j \in 0..(n - 1) : f[j] <= f[g]
    BY <1>2, GreatestOf
  <1>4. PICK a \in S : TRUE
    OBVIOUS
  <1>5. f[a] \in Nat
    BY <1>1
  <1>6. g \in S
    BY <1>1, <1>3, <1>5
  <1>7. \A j \in S : y[j] <= y[g] /\ y[j] \in Nat
    <2>1. SUFFICES ASSUME NEW j \in S PROVE y[j] <= y[g] /\ y[j] \in Nat
      OBVIOUS
    <2>2. j \in 0..(n - 1)
      OBVIOUS
    <2>3. f[j] = y[j] /\ f[g] = y[g] /\ f[j] <= f[g]
      BY <1>1, <1>3, <1>6, <2>2
    <2>4. QED
      BY <2>2, <2>3
  <1> DEFINE T == {j \in S : y[j] = y[g]}
  <1>8. T \in SUBSET Nat /\ T # {}
    <2>1. \A j \in S : j \in Nat
      OBVIOUS
    <2>2. g \in T
      BY <1>6
    <2>3. QED
      BY <2>1, <2>2
  <1>9. PICK j \in T : \A k \in T : j <= k
    BY <1>8, LeastOf
  <1>10. ASSUME NEW k \in S PROVE y[k] < y[j] \/ (y[k] = y[j] /\ j <= k)
    BY <1>6, <1>7, <1>9
  <1>11. QED
    BY <1>9, <1>10 DEF IsFirst

\* There is only one, and FirstMost is it.
LEMMA FirstGreatest ==
  ASSUME NEW n \in Nat \ {0}, NEW y \in [0..(n - 1) -> Nat], NEW S \in SUBSET (0..(n - 1)), S # {}
  PROVE  IsFirst(y, S, FirstMost(y, S)) /\ \A j : IsFirst(y, S, j) => j = FirstMost(y, S)
  <1>1. \E j \in S : \A k \in S : y[k] < y[j] \/ (y[k] = y[j] /\ j <= k)
    BY FirstExists DEF IsFirst
  <1>2. PICK f : f = FirstMost(y, S)
    OBVIOUS
  <1>3. f \in S /\ \A k \in S : y[k] < y[f] \/ (y[k] = y[f] /\ f <= k)
    BY <1>1, <1>2, Zenon DEF FirstMost
  <1>4. ASSUME NEW j \in S, \A k \in S : y[k] < y[j] \/ (y[k] = y[j] /\ j <= k) PROVE j = f
    BY <1>3, <1>4
  <1>5. QED
    BY <1>2, <1>3, <1>4 DEF IsFirst

\* The better of two slots is the best of both.
LEMMA BestMerges ==
  ASSUME NEW n \in Nat \ {0}, NEW y \in [0..(n - 1) -> Nat \ {0}],
         NEW A \in SUBSET (0..(n - 1)), NEW B \in SUBSET (0..(n - 1))
  PROVE  LET better == BestVal(y, B) > BestVal(y, A)
                       \/ (BestVal(y, B) = BestVal(y, A) /\ BestIdx(y, B) < BestIdx(y, A))
             C == IF better THEN B ELSE A
         IN BestVal(y, A \cup B) = BestVal(y, C) /\ BestIdx(y, A \cup B) = BestIdx(y, C)
  <1>1. y \in [0..(n - 1) -> Nat]
    OBVIOUS
  <1>2. CASE B = {}
    <2>1. A \cup B = A /\ BestVal(y, B) = 0 /\ BestIdx(y, B) = 0
      BY <1>2 DEF BestVal, BestIdx
    <2>2. ~ (0 > BestVal(y, A)) /\ ~ (0 = BestVal(y, A) /\ 0 < BestIdx(y, A))
      <3>1. CASE A = {}
        BY <3>1 DEF BestVal, BestIdx
      <3>2. CASE A # {}
        <4>1. FirstMost(y, A) \in A
          BY <1>1, <3>2, FirstGreatest DEF IsFirst
        <4>2. BestVal(y, A) \in Nat \ {0}
          BY <3>2, <4>1 DEF BestVal
        <4>3. QED
          BY <4>2
      <3>3. QED
        BY <3>1, <3>2
    <2>3. QED
      BY <2>1, <2>2
  <1>3. CASE B # {} /\ A = {}
    <2>1. A \cup B = B /\ BestVal(y, A) = 0 /\ BestIdx(y, A) = 0
      BY <1>3 DEF BestVal, BestIdx
    <2>2. FirstMost(y, B) \in B
      BY <1>1, <1>3, FirstGreatest DEF IsFirst
    <2>3. BestVal(y, B) \in Nat \ {0}
      BY <1>3, <2>2 DEF BestVal
    <2>4. BestVal(y, B) > BestVal(y, A)
      BY <2>1, <2>3
    <2>5. QED
      BY <2>1, <2>4
  <1>4. CASE B # {} /\ A # {}
    <2>1. PICK a : a = FirstMost(y, A)
      OBVIOUS
    <2>2. PICK b : b = FirstMost(y, B)
      OBVIOUS
    <2>3. IsFirst(y, A, a) /\ IsFirst(y, B, b)
      BY <1>1, <1>4, <2>1, <2>2, FirstGreatest
    <2>4. /\ a \in Nat /\ b \in Nat /\ y[a] \in Nat /\ y[b] \in Nat
          /\ BestVal(y, A) = y[a] /\ BestIdx(y, A) = a
          /\ BestVal(y, B) = y[b] /\ BestIdx(y, B) = b
      BY <1>4, <2>1, <2>2, <2>3 DEF IsFirst, BestVal, BestIdx
    <2>5. A \cup B \in SUBSET (0..(n - 1)) /\ A \cup B # {}
      BY <1>4
    <2>6. \A k \in A \cup B : k \in Nat /\ y[k] \in Nat
      BY <2>5
    <2>7. CASE y[b] > y[a] \/ (y[b] = y[a] /\ b < a)
      <3>1. IsFirst(y, A \cup B, b)
        BY <2>3, <2>4, <2>6, <2>7 DEF IsFirst
      <3>2. b = FirstMost(y, A \cup B)
        BY <1>1, <2>5, <3>1, FirstGreatest
      <3>3. BestVal(y, A \cup B) = y[b] /\ BestIdx(y, A \cup B) = b
        BY <2>5, <3>2 DEF BestVal, BestIdx
      <3>4. QED
        BY <2>4, <2>7, <3>3
    <2>8. CASE ~ (y[b] > y[a] \/ (y[b] = y[a] /\ b < a))
      <3>1. IsFirst(y, A \cup B, a)
        BY <2>3, <2>4, <2>6, <2>8 DEF IsFirst
      <3>2. a = FirstMost(y, A \cup B)
        BY <1>1, <2>5, <3>1, FirstGreatest
      <3>3. BestVal(y, A \cup B) = y[a] /\ BestIdx(y, A \cup B) = a
        BY <2>5, <3>2 DEF BestVal, BestIdx
      <3>4. QED
        BY <2>4, <2>8, <3>3
    <2>9. QED
      BY <2>7, <2>8
  <1>5. QED
    BY <1>2, <1>3, <1>4

\* The kernel's sum of squares is a sum over a set.
LEMMA SquareSumIs ==
  ASSUME NEW S, S \subseteq DOMAIN r, IsFiniteSet(S)
  PROVE  RowKernel!SquareSum(S) = Total(Squares(r), S)
  <1> DEFINE v == Squares(r)
             F(g) == [s \in SUBSET S |->
                        IF s = {} THEN 0
                        ELSE r[CHOOSE e \in s : TRUE] * r[CHOOSE e \in s : TRUE]
                             + g[s \ {CHOOSE e \in s : TRUE}]]
             C == CHOOSE g : g = F(g)
  <1>1. RowKernel!SquareSum(S) = C[S]
    BY Zenon DEF RowKernel!SquareSum, RowKernel!MapThenSumSet, RowKernel!MapThenFoldSet
  <1>2. ASSUME NEW s \in SUBSET S, s # {}
        PROVE  v[Pick(s)] = r[Pick(s)] * r[Pick(s)]
    BY <1>2, PickOf DEF Squares
  <1>3. ASSUME NEW g PROVE g = F(g) <=> SumOf(v, g, S)
    <2>1. F(g) = [s \in SUBSET S |-> IF s = {} THEN 0 ELSE v[Pick(s)] + g[s \ {Pick(s)}]]
      <3> HIDE DEF v
      <3>1. QED
        BY <1>2 DEF Pick
    <2> HIDE DEF F, v
    <2>2. QED
      BY <2>1, Zenon DEF SumOf
  <1>4. \E g : SumOf(v, g, S)
    BY SumExists
  <1> HIDE DEF F, v
  <1>5. C = F(C)
    BY <1>3, <1>4, Zenon
  <1> DEFINE D == CHOOSE g : SumOf(v, g, S)
  <1>6. SumOf(v, C, S) /\ SumOf(v, D, S)
    BY <1>3, <1>4, <1>5, Zenon
  <1>7. Total(v, S) = D[S] /\ S \subseteq S
    BY DEF Total
  <1> HIDE DEF C, D
  <1>8. C[S] = D[S]
    BY <1>6, <1>7, SumUnique
  <1>9. QED
    BY <1>1, <1>7, <1>8 DEF v

\* What two slots hold, combined as the kernels do, is what their union holds.
LEMMA SlotsMerge ==
  ASSUME NEW n \in Nat \ {0}, NEW y \in [0..(n - 1) -> Nat \ {0}],
         NEW A \in SUBSET (0..(n - 1)), NEW B \in SUBSET (0..(n - 1)), A \cap B = {},
         NEW kn \in {"argmax", "rms_norm"}, NEW v, NEW i, NEW u, NEW j,
         HoldsFor(kn, y, A, v, i), kn = "argmax" => HoldsFor(kn, y, B, u, j),
         kn = "rms_norm" => u = Total(Squares(y), B)
  PROVE  /\ kn = "argmax" =>
              /\ (u > v \/ (u = v /\ j < i)) => HoldsFor(kn, y, A \cup B, u, j)
              /\ ~ (u > v \/ (u = v /\ j < i)) => HoldsFor(kn, y, A \cup B, v, i)
         /\ kn = "rms_norm" => HoldsFor(kn, y, A \cup B, v + u, i)
  <1>1. ASSUME kn = "argmax"
        PROVE  /\ (u > v \/ (u = v /\ j < i)) => HoldsFor(kn, y, A \cup B, u, j)
               /\ ~ (u > v \/ (u = v /\ j < i)) => HoldsFor(kn, y, A \cup B, v, i)
    BY <1>1, BestMerges DEF HoldsFor
  <1>2. ASSUME kn = "rms_norm" PROVE HoldsFor(kn, y, A \cup B, v + u, i)
    <2>1. IsFiniteSet(A) /\ IsFiniteSet(B)
      <3>1. IsFiniteSet(0..(n - 1))
        BY FS_Interval
      <3>2. QED
        BY <3>1, FS_Subset
    <2>2. \A e \in A \cup B : Squares(y)[e] \in Int
      BY DEF Squares
    <2>3. Total(Squares(y), A \cup B) = Total(Squares(y), A) + Total(Squares(y), B)
      BY <2>1, <2>2, TotalUnion
    <2>4. QED
      BY <1>2, <2>3 DEF HoldsFor
  <1>3. QED
    BY <1>1, <1>2

-----------------------------------------------------------------------------
(* What the reductions compute: the invariant. *)

\* The number of slots that thread t has last combined with its own into.
Round(t) == IF thread_pc[t] \in {"load", "store"} THEN stride[t] + stride[t] ELSE stride[t]

\* Of c slots, slot t is combined with no other once the rounds are down to s.
Final(t, c, s) == c \in Pow2s /\ t < c /\ s <= c /\ c <= NumThreads /\ (c = s \/ c \div 2 <= t)

SlotHolds(t, c) == HoldsFor(kernel, r, Part(cols, c, t), sval[t], sidx[t])

RowTypes ==
    /\ kernel \in {"argmax", "rms_norm"}
    /\ cols \in Nat \ {0} /\ r \in [0..(cols - 1) -> Nat \ {0}]
    /\ DOMAIN sval = RowKernel!Threads /\ DOMAIN sidx = RowKernel!Threads
    /\ DOMAIN other = RowKernel!Threads /\ DOMAIN row_out = 0..(cols - 1)
    /\ \A t \in RowKernel!Threads : stride[t] \in Pow2s \cup {0, -1}

\* What thread t has in its slot, and what it has loaded.
SlotsOf(t) ==
    /\ thread_pc[t] = "scan" => stride[t] = NumThreads /\ sval[t] = 0 /\ sidx[t] = 0
    /\ thread_pc[t] # "scan" => \A c : Final(t, c, Round(t)) => SlotHolds(t, c)
    /\ thread_pc[t] = "store" =>
          HoldsFor(kernel, r, Part(cols, stride[t] + stride[t], t + stride[t]), other[t].val, other[t].idx)
RowSlots == \A t \in RowKernel!Threads : SlotsOf(t)

\* What leaves the reduction.
ArgmaxIs(t) ==
    /\ stride[t] <= 0 => thread_pc[t] \in {"write", "done"}
    /\ thread_pc[t] = "write" => t = 0 /\ stride[t] <= 0
    /\ t = 0 /\ thread_pc[t] = "done" => row_out[0] = FirstMost(r, 0..(cols - 1))
ScaleIs == scale # <<>> => scale = <<Total(Squares(r), 0..(cols - 1))>>
NormResult(t) == thread_pc[t] = "done" =>
    \A j \in Part(cols, NumThreads, t) : row_out[j] = Total(Squares(r), 0..(cols - 1))
Results ==
    /\ kernel = "argmax" => \A t \in RowKernel!Threads : ArgmaxIs(t)
    /\ kernel = "rms_norm" => ScaleIs /\ \A t \in RowKernel!Threads : NormResult(t)

TwinInv == RowInv /\ RowTypes /\ RowSlots /\ Results

\* Thread t is the only one that moves.
Alone(t) ==
    /\ kernel' = kernel /\ cols' = cols /\ r' = r
    /\ DOMAIN sval' = DOMAIN sval /\ DOMAIN sidx' = DOMAIN sidx /\ DOMAIN other' = DOMAIN other
    /\ DOMAIN row_out' = DOMAIN row_out
    /\ \A u \in RowKernel!Threads : u # t =>
          /\ sval'[u] = sval[u] /\ sidx'[u] = sidx[u] /\ other'[u] = other[u]
          /\ stride'[u] = stride[u] /\ thread_pc'[u] = thread_pc[u]

\* A step of thread t keeps what the other threads hold.
LEMMA OtherSlots ==
  ASSUME RowSlots, NEW t \in RowKernel!Threads, Alone(t), SlotsOf(t)'
  PROVE  RowSlots'
  BY DEF RowSlots, Alone, Round, SlotHolds, SlotsOf

\* Twice a power of two is one.
LEMMA PowsDouble == ASSUME NEW c \in Pow2s PROVE c + c \in Pow2s /\ (c + c) \div 2 = c
  BY PowSucc, PowsHalve DEF Pow2s

\* The last round leaves all in slot 0.
LEMMA AllInZero ==
  ASSUME RowTypes, SlotsOf(0), thread_pc[0] # "scan", Round(0) <= 0
  PROVE  HoldsFor(kernel, r, 0..(cols - 1), sval[0], sidx[0])
  <1>1. 1 \in Pow2s /\ 1 <= NumThreads
    BY ThreadsArePow, HasThread
  <1>2. Round(0) <= 1
    <2>1. stride[0] \in Int
      BY ThreadZero, HasThread, PowsHalve DEF RowTypes
    <2>2. QED
      BY <2>1 DEF Round
  <1>3. Final(0, 1, Round(0))
    BY <1>1, <1>2 DEF Final
  <1>4. SlotHolds(0, 1)
    BY <1>3 DEF SlotsOf
  <1>5. Part(cols, 1, 0) = 0..(cols - 1)
    BY PartAll DEF RowTypes
  <1>6. QED
    BY <1>4, <1>5 DEF SlotHolds

\* At the start no thread has scanned.
LEMMA RowTwinInit == RowKernel!Init => TwinInv
  <1>1. SUFFICES ASSUME RowKernel!Init PROVE TwinInv
    OBVIOUS
  <1>2. NumThreads \in Nat \ {0} /\ NumThreads \in Pow2s
    BY HasThread, ThreadsArePow
  <1>3. RowInv
    BY <1>1, <1>2, RowInit
  <1>4. /\ kernel \in {"argmax", "rms_norm"} /\ cols \in RowWidths /\ r \in [0..(cols - 1) -> RowValues]
        /\ sval = [t \in RowKernel!Threads |-> 0] /\ sidx = [t \in RowKernel!Threads |-> 0]
        /\ scale = <<>> /\ stride = [t \in RowKernel!Threads |-> NumThreads]
        /\ thread_pc = [t \in RowKernel!Threads |-> "scan"]
        /\ DOMAIN other = RowKernel!Threads /\ DOMAIN row_out = 0..(cols - 1)
    BY <1>1 DEF RowKernel!Init, RowKernel!Lowest
  <1>5. RowWidths \subseteq Nat \ {0} /\ RowValues \subseteq Nat \ {0}
    BY OperatorsAssumption DEF RowKernel!RowKernelsAssumption, RowKernel!Lowest
  <1>6. RowTypes
    BY <1>2, <1>4, <1>5 DEF RowTypes
  <1>7. RowSlots
    BY <1>4 DEF RowSlots, SlotsOf
  <1>8. Results
    BY <1>2, <1>4 DEF Results, ArgmaxIs, ScaleIs, NormResult
  <1>9. QED
    BY <1>3, <1>6, <1>7, <1>8 DEF TwinInv

-----------------------------------------------------------------------------
(* What the reductions compute: the steps. *)

\* A scan leaves the best of the slice, or the sum of its squares.
LEMMA ScanTwin ==
  ASSUME TwinInv, NEW t \in RowKernel!Threads, RowKernel!Scan(t)
  PROVE  RowSlots' /\ Results' /\ RowTypes'
  <1>1. RowTypes /\ RowSlots /\ Results /\ SlotsOf(t) /\ RowShape
    BY DEF TwinInv, RowSlots, RowInv
  <1>2. /\ thread_pc[t] = "scan" /\ thread_pc' = [thread_pc EXCEPT ![t] = "sync"]
        /\ kernel' = kernel /\ cols' = cols /\ r' = r /\ scale' = scale /\ stride' = stride
        /\ other' = other /\ row_out' = row_out
    BY DEF RowKernel!Scan, RowKernel!Goto, RowKernel!row
  <1>3. /\ stride[t] = NumThreads /\ sval[t] = 0 /\ sidx[t] = 0
    BY <1>1, <1>2 DEF SlotsOf
  <1>4. PICK S : S = Part(cols, NumThreads, t)
    OBVIOUS
  <1>5. S = RowKernel!Slice(t) /\ S \subseteq DOMAIN r /\ IsFiniteSet(S)
    <2>1. S = RowKernel!Slice(t)
      BY <1>4 DEF RowKernel!Slice, Part
    <2>2. S \subseteq 0..(cols - 1) /\ DOMAIN r = 0..(cols - 1) /\ cols \in Nat
      BY <1>1, <1>4, PartAll DEF RowTypes
    <2>3. IsFiniteSet(0..(cols - 1))
      BY <2>2, FS_Interval
    <2>4. QED
      BY <2>1, <2>2, <2>3, FS_Subset
  <1>6. /\ DOMAIN sval' = DOMAIN sval /\ DOMAIN sidx' = DOMAIN sidx
        /\ \A u \in RowKernel!Threads : u # t => sval'[u] = sval[u] /\ sidx'[u] = sidx[u]
    BY <1>1 DEF RowKernel!Scan, RowTypes
  <1>7. HoldsFor(kernel, r, S, sval'[t], sidx'[t])
    <2>1. CASE kernel = "argmax" /\ S # {}
      <3>1. /\ sidx' = [sidx EXCEPT ![t] = RowKernel!FirstMax(S)]
            /\ sval' = [sval EXCEPT ![t] = r[RowKernel!FirstMax(S)]]
        BY <1>5, <2>1 DEF RowKernel!Scan
      <3>2. RowKernel!FirstMax(S) = FirstMost(r, S)
        BY DEF RowKernel!FirstMax, FirstMost
      <3>3. sidx'[t] = FirstMost(r, S) /\ sval'[t] = r[FirstMost(r, S)]
        BY <1>1, <3>1, <3>2 DEF RowTypes
      <3>4. QED
        BY <2>1, <3>3 DEF HoldsFor, BestVal, BestIdx
    <2>2. CASE kernel = "argmax" /\ S = {}
      BY <1>3, <1>5, <2>2 DEF RowKernel!Scan, HoldsFor, BestVal, BestIdx
    <2>3. CASE kernel = "rms_norm"
      BY <1>1, <1>5, <2>3, SquareSumIs DEF RowKernel!Scan, RowTypes, HoldsFor
    <2>4. QED
      BY <1>1, <2>1, <2>2, <2>3 DEF RowTypes
  <1>8. thread_pc'[t] = "sync" /\ \A u \in RowKernel!Threads : u # t => thread_pc'[u] = thread_pc[u]
    BY <1>1, <1>2 DEF RowShape
  <1>9. Alone(t)
    BY <1>2, <1>6, <1>8 DEF Alone
  <1>10. SlotsOf(t)'
    BY <1>2, <1>3, <1>4, <1>7, <1>8, PowsHalve, HasThread DEF Round, Final, SlotHolds, SlotsOf
  <1>11. RowSlots'
    BY <1>1, <1>9, <1>10, OtherSlots
  <1>12. Results'
    BY <1>1, <1>2, <1>3, <1>8, HasThread DEF Results, ArgmaxIs, NormResult, ScaleIs
  <1>13. RowTypes'
    BY <1>1, <1>2, <1>6 DEF RowTypes
  <1>14. QED
    BY <1>11, <1>12, <1>13

\* A thread that loads finds what the other slot is final with.
LEMMA LoadTwin ==
  ASSUME TwinInv, NEW t \in RowKernel!Threads, RowKernel!Load(t)
  PROVE  RowSlots' /\ Results' /\ RowTypes'
  <1>1. RowTypes /\ RowSlots /\ Results /\ SlotsOf(t) /\ RowShape /\ RowInv
    BY DEF TwinInv, RowSlots, RowInv
  <1>2. /\ thread_pc[t] = "load" /\ thread_pc' = [thread_pc EXCEPT ![t] = "store"]
        /\ kernel' = kernel /\ cols' = cols /\ r' = r /\ scale' = scale /\ stride' = stride
        /\ sval' = sval /\ sidx' = sidx /\ row_out' = row_out
        /\ other' = [other EXCEPT ![t] = [val |-> sval[t + stride[t]], idx |-> sidx[t + stride[t]]]]
    BY DEF RowKernel!Load, RowKernel!Goto, RowKernel!row
  <1>3. PICK s \in Nat : s = stride[t] /\ 0 < s /\ s <= NumThreads \div 2 /\ t < s /\ t \in Nat
    BY <1>1, <1>2, ThreadZero, HasThread DEF RowInv, Working, RowShape
  <1>4. PICK u : u = t + s
    OBVIOUS
  <1>5. u \in RowKernel!Threads /\ s <= u /\ u < s + s /\ s + s <= NumThreads /\ u # t
    BY <1>3, <1>4, HasThread DEF RowKernel!Threads
  <1>6. thread_pc[u] = "sync" /\ stride[u] >= s
    BY <1>1, <1>2, <1>3, <1>4, RowRaceFree, HasThread DEF RowKernel!RaceFree
  <1>7. s \in Pow2s /\ s + s \in Pow2s /\ (s + s) \div 2 = s
    BY <1>1, <1>3, PowsDouble DEF RowTypes
  <1>8. stride[u] <= s + s
    <2>1. stride[u] = s \/ Ahead(u, t)
      BY <1>1, <1>2, <1>3, <1>5 DEF RowInv, InStep, Ahead
    <2>2. CASE Ahead(u, t)
      <3>1. stride[u] \in Pow2s /\ s = stride[u] \div 2
        BY <1>1, <1>3, <1>5, <1>6, <2>2 DEF RowTypes, Ahead, Halved
      <3>2. stride[u] = s + s
        BY <1>3, <3>1, PowsHalve
      <3>3. QED
        BY <1>3, <3>2
    <2>3. QED
      BY <1>3, <2>1, <2>2
  <1>9. SlotHolds(u, s + s)
    BY <1>1, <1>5, <1>6, <1>7, <1>8 DEF Round, Final, RowSlots, SlotsOf
  <1>10. thread_pc'[t] = "store" /\ \A e \in RowKernel!Threads : e # t => thread_pc'[e] = thread_pc[e]
    BY <1>1, <1>2 DEF RowShape
  <1>11. /\ other'[t] = [val |-> sval[u], idx |-> sidx[u]] /\ DOMAIN other' = DOMAIN other
         /\ \A e \in RowKernel!Threads : e # t => other'[e] = other[e]
    BY <1>1, <1>2, <1>3, <1>4 DEF RowTypes
  <1>12. Alone(t)
    BY <1>2, <1>10, <1>11 DEF Alone
  <1>13. SlotsOf(t)'
    BY <1>1, <1>2, <1>3, <1>4, <1>9, <1>10, <1>11 DEF Round, SlotHolds, SlotsOf
  <1>14. RowSlots'
    BY <1>1, <1>12, <1>13, OtherSlots
  <1>15. Results'
    BY <1>1, <1>2, <1>3, <1>10 DEF Results, ArgmaxIs, NormResult, ScaleIs
  <1>16. RowTypes'
    BY <1>1, <1>2, <1>11 DEF RowTypes
  <1>17. QED
    BY <1>14, <1>15, <1>16

\* A store makes one slot of two.
LEMMA StoreTwin ==
  ASSUME TwinInv, NEW t \in RowKernel!Threads, RowKernel!Store(t)
  PROVE  RowSlots' /\ Results' /\ RowTypes'
  <1>1. RowTypes /\ RowSlots /\ Results /\ SlotsOf(t) /\ RowShape /\ RowInv
    BY DEF TwinInv, RowSlots, RowInv
  <1>2. /\ thread_pc[t] = "store" /\ thread_pc' = [thread_pc EXCEPT ![t] = "sync"]
        /\ kernel' = kernel /\ cols' = cols /\ r' = r /\ scale' = scale /\ stride' = stride
        /\ other' = other /\ row_out' = row_out
    BY DEF RowKernel!Store, RowKernel!Goto, RowKernel!row
  <1>3. PICK s \in Nat : s = stride[t] /\ 0 < s /\ s <= NumThreads \div 2 /\ t < s /\ t \in Nat
    BY <1>1, <1>2, ThreadZero, HasThread DEF RowInv, Working, RowShape
  <1>4. s \in Pow2s /\ s + s \in Pow2s /\ (s + s) \div 2 = s /\ s + s <= NumThreads
    BY <1>1, <1>3, PowsDouble, HasThread DEF RowTypes
  <1>5. PICK A : A = Part(cols, s + s, t)
    OBVIOUS
  <1>6. PICK B : B = Part(cols, s + s, t + s)
    OBVIOUS
  <1>7. cols \in Nat \ {0} /\ r \in [0..(cols - 1) -> Nat \ {0}] /\ kernel \in {"argmax", "rms_norm"}
    BY <1>1 DEF RowTypes
  <1>8. Part(cols, s, t) = A \cup B /\ A \cap B = {}
    BY <1>3, <1>5, <1>6, <1>7, PartSplit
  <1>9. A \in SUBSET (0..(cols - 1)) /\ B \in SUBSET (0..(cols - 1))
    BY <1>5, <1>6, <1>7, PartAll
  <1>10. HoldsFor(kernel, r, A, sval[t], sidx[t])
    BY <1>1, <1>2, <1>3, <1>4, <1>5 DEF Round, Final, SlotsOf, SlotHolds
  <1>11. HoldsFor(kernel, r, B, other[t].val, other[t].idx)
    BY <1>1, <1>2, <1>3, <1>6 DEF SlotsOf
  <1>12. PICK v, i : v = sval[t] /\ i = sidx[t]
    OBVIOUS
  <1>13. PICK u, j : u = other[t].val /\ j = other[t].idx
    OBVIOUS
  <1>14. kernel = "rms_norm" => u = Total(Squares(r), B)
    BY <1>11, <1>13 DEF HoldsFor
  <1>15. /\ kernel = "argmax" =>
              /\ (u > v \/ (u = v /\ j < i)) => HoldsFor(kernel, r, A \cup B, u, j)
              /\ ~ (u > v \/ (u = v /\ j < i)) => HoldsFor(kernel, r, A \cup B, v, i)
         /\ kernel = "rms_norm" => HoldsFor(kernel, r, A \cup B, v + u, i)
    <2>1. HoldsFor(kernel, r, A, v, i) /\ HoldsFor(kernel, r, B, u, j)
      BY <1>10, <1>11, <1>12, <1>13
    <2>2. PICK n \in Nat \ {0} : n = cols
      BY <1>7
    <2>3. PICK y \in [0..(n - 1) -> Nat \ {0}] : y = r
      BY <1>7, <2>2
    <2>4. PICK kn \in {"argmax", "rms_norm"} : kn = kernel
      BY <1>7
    <2>5. A \in SUBSET (0..(n - 1)) /\ B \in SUBSET (0..(n - 1)) /\ A \cap B = {}
      BY <1>8, <1>9, <2>2
    <2>6. /\ HoldsFor(kn, y, A, v, i) /\ HoldsFor(kn, y, B, u, j)
          /\ kn = "rms_norm" => u = Total(Squares(y), B)
      BY <1>14, <2>1, <2>3, <2>4
    <2>7. kn = "argmax" =>
             /\ (u > v \/ (u = v /\ j < i)) => HoldsFor(kn, y, A \cup B, u, j)
             /\ ~ (u > v \/ (u = v /\ j < i)) => HoldsFor(kn, y, A \cup B, v, i)
      BY <2>5, <2>6, SlotsMerge, Zenon
    <2>8. kn = "rms_norm" => HoldsFor(kn, y, A \cup B, v + u, i)
      BY <2>5, <2>6, SlotsMerge, Zenon
    <2>9. QED
      BY <2>3, <2>4, <2>7, <2>8
  <1>16. /\ DOMAIN sval' = DOMAIN sval /\ DOMAIN sidx' = DOMAIN sidx
         /\ \A e \in RowKernel!Threads : e # t => sval'[e] = sval[e] /\ sidx'[e] = sidx[e]
    BY <1>1 DEF RowKernel!Store, RowTypes
  <1>17. HoldsFor(kernel, r, Part(cols, s, t), sval'[t], sidx'[t])
    BY <1>1, <1>7, <1>8, <1>12, <1>13, <1>15 DEF RowKernel!Better, RowKernel!Store, RowTypes
  <1>18. thread_pc'[t] = "sync" /\ \A e \in RowKernel!Threads : e # t => thread_pc'[e] = thread_pc[e]
    BY <1>1, <1>2 DEF RowShape
  <1>19. Alone(t)
    BY <1>2, <1>16, <1>18 DEF Alone
  <1>20. SlotsOf(t)'
    <2>1. Round(t)' = s
      BY <1>2, <1>3, <1>18 DEF Round
    <2>2. ASSUME NEW c, Final(t, c, s) PROVE c = s
      <3>1. c \in Pow2s /\ s <= c /\ (c = s \/ c \div 2 <= t)
        BY <2>2 DEF Final
      <3>2. c \in Nat \ {0}
        BY <3>1, PowsHalve
      <3>3. CASE s < c
        BY <1>3, <1>4, <3>1, <3>2, <3>3, PowsHalve
      <3>4. QED
        BY <1>3, <3>1, <3>2, <3>3
    <2>3. SlotHolds(t, s)'
      BY <1>2, <1>17 DEF SlotHolds
    <2>4. QED
      BY <1>18, <2>1, <2>2, <2>3 DEF SlotsOf
  <1>21. RowSlots'
    BY <1>1, <1>19, <1>20, OtherSlots
  <1>22. Results'
    BY <1>1, <1>2, <1>3, <1>18 DEF Results, ArgmaxIs, NormResult, ScaleIs
  <1>23. RowTypes'
    BY <1>1, <1>2, <1>16 DEF RowTypes
  <1>24. QED
    BY <1>21, <1>22, <1>23

\* A barrier changes no slot.
LEMMA SyncTwin ==
  ASSUME TwinInv, NEW t \in RowKernel!Threads, RowKernel!Sync(t) \/ RowKernel!SyncScale(t)
  PROVE  RowSlots' /\ Results' /\ RowTypes'
  <1>1. RowTypes /\ RowSlots /\ Results /\ SlotsOf(t) /\ RowShape /\ RowInv
    BY DEF TwinInv, RowSlots, RowInv
  <1>2. /\ thread_pc[t] = "sync"
        /\ kernel' = kernel /\ cols' = cols /\ r' = r /\ scale' = scale
        /\ sval' = sval /\ sidx' = sidx /\ other' = other /\ row_out' = row_out
    BY DEF RowKernel!Sync, RowKernel!SyncScale, RowKernel!row
  <1>3. t \in Nat
    BY ThreadZero, HasThread
  <1>4. PICK s \in Pow2s \cup {0} : s = stride[t]
    BY <1>1 DEF RowKernel!Sync, RowKernel!SyncScale, RowTypes
  <1>5. PICK h : h = Halved(s)
    OBVIOUS
  <1>6. stride' = [stride EXCEPT ![t] = h] /\ (RowKernel!SyncScale(t) => s = 0) /\ (RowKernel!Sync(t) => s # 0)
    <2>1. s # 0 => s \in Nat \ {0}
      BY <1>4, PowsHalve
    <2>2. CASE RowKernel!Sync(t)
      <3>1. stride[t] > 0 /\ stride' = [stride EXCEPT ![t] = stride[t] \div 2]
        BY <2>2 DEF RowKernel!Sync
      <3>2. s # 0
        BY <1>4, <3>1
      <3>3. h = stride[t] \div 2
        BY <1>4, <1>5, <3>2 DEF Halved
      <3>4. ~ RowKernel!SyncScale(t)
        BY <1>4, <3>2 DEF RowKernel!SyncScale
      <3>5. QED
        BY <3>1, <3>2, <3>3, <3>4
    <2>3. CASE RowKernel!SyncScale(t)
      BY <1>4, <1>5, <2>3 DEF RowKernel!SyncScale, Halved, RowKernel!Sync
    <2>4. QED
      BY <1>1, <2>2, <2>3
  <1>7. \/ s = 0 /\ h = -1
        \/ s = 1 /\ h = 0
        \/ s \in Pow2s /\ h \in Pow2s /\ s = h + h
    BY <1>4, <1>5, PowsHalve DEF Halved
  <1>8. h \in Pow2s => h \in Nat \ {0}
    BY PowsHalve
  <1>9. PICK label \in RowLabels :
          /\ thread_pc' = [thread_pc EXCEPT ![t] = label]
          /\ label \in {"load", "sync", "scale", "write", "done"}
          /\ label = "load" => h > 0 /\ t < h
          /\ h > 0 /\ t >= h => label = "sync"
          /\ h > 0 /\ t < h => label = "load"
          /\ kernel = "argmax" /\ h = 0 => label = IF t = 0 THEN "write" ELSE "done"
          /\ kernel = "rms_norm" => label # "done"
    <2>1. CASE RowKernel!Sync(t)
      <3>1. h = s \div 2 /\ s = stride[t]
        BY <1>4, <1>5, <1>6, <2>1 DEF Halved
      <3>2. CASE h > 0
        BY <1>3, <1>7, <1>8, <2>1, <3>1, <3>2 DEF RowKernel!Sync, RowKernel!Goto, RowLabels
      <3>3. CASE h = 0 /\ kernel = "argmax"
        BY <2>1, <3>1, <3>3 DEF RowKernel!Sync, RowKernel!Goto, RowLabels
      <3>4. CASE h = 0 /\ kernel = "rms_norm"
        BY <2>1, <3>1, <3>4 DEF RowKernel!Sync, RowKernel!Goto, RowLabels
      <3>5. h > 0 \/ h = 0
        BY <1>6, <1>7, <1>8, <2>1
      <3>6. QED
        BY <1>1, <3>2, <3>3, <3>4, <3>5 DEF RowTypes
    <2>2. CASE RowKernel!SyncScale(t)
      <3>1. h = -1
        BY <1>6, <1>7, <2>2, <1>5 DEF Halved
      <3>2. QED
        BY <2>2, <3>1 DEF RowKernel!SyncScale, RowKernel!Goto, RowLabels
    <2>3. QED
      BY <2>1, <2>2
  <1>10. thread_pc'[t] = label /\ stride'[t] = h
         /\ \A e \in RowKernel!Threads : e # t => thread_pc'[e] = thread_pc[e] /\ stride'[e] = stride[e]
    BY <1>1, <1>6, <1>9 DEF RowShape
  <1>11. Alone(t)
    BY <1>2, <1>10 DEF Alone
  <1>12. SlotsOf(t)'
    <2>1. \A c : SlotHolds(t, c)' <=> SlotHolds(t, c)
      BY <1>2 DEF SlotHolds
    <2>2. \A c : Final(t, c, s) => SlotHolds(t, c)
      BY <1>1, <1>2, <1>4 DEF SlotsOf, Round
    <2>3. CASE label = "load"
      BY <1>7, <1>8, <1>9, <1>10, <2>1, <2>2, <2>3 DEF Round, SlotsOf
    <2>4. CASE label # "load"
      <3>1. Round(t)' = h
        BY <1>9, <1>10, <2>4 DEF Round
      <3>2. ASSUME NEW c, Final(t, c, h) PROVE Final(t, c, s)
        <4>1. c \in Pow2s /\ t < c /\ h <= c /\ c <= NumThreads /\ (c = h \/ c \div 2 <= t)
          BY <3>2 DEF Final
        <4>2. c \in Nat \ {0}
          BY <4>1, PowsHalve
        <4>3. c # h /\ s <= c
          <5>1. CASE h \in Pow2s /\ s = h + h
            <6>1. t >= h
              BY <1>3, <1>8, <1>9, <2>4, <5>1
            <6>2. h < c
              BY <1>3, <1>8, <4>1, <4>2, <5>1, <6>1
            <6>3. h + h <= c
              BY <4>1, <5>1, <6>2, PowsHalve
            <6>4. QED
              BY <1>8, <4>2, <5>1, <6>2, <6>3
          <5>2. CASE s = 1 /\ h = 0
            BY <4>2, <5>2
          <5>3. CASE s = 0 /\ h = -1
            BY <4>2, <5>3
          <5>4. QED
            BY <1>7, <5>1, <5>2, <5>3
        <4>4. QED
          BY <4>1, <4>3 DEF Final
      <3>3. label # "scan" /\ label # "store"
        BY <1>9
      <3>4. QED
        BY <1>10, <2>1, <2>2, <3>1, <3>2, <3>3 DEF SlotsOf
    <2>5. QED
      BY <2>3, <2>4
  <1>13. RowSlots'
    BY <1>1, <1>11, <1>12, OtherSlots
  <1>14. Results'
    <2>1. ASSUME kernel = "argmax", NEW e \in RowKernel!Threads PROVE ArgmaxIs(e)'
      <3>1. ArgmaxIs(e) /\ ArgmaxIs(t)
        BY <1>1, <2>1 DEF Results
      <3>2. s # 0
        BY <1>2, <1>4, <3>1 DEF ArgmaxIs
      <3>3. CASE e = t
        <4>1. h > 0 \/ h = 0
          BY <1>7, <1>8, <3>2
        <4>2. CASE h > 0
          BY <1>3, <1>7, <1>8, <1>9, <1>10, <3>3, <4>2 DEF ArgmaxIs
        <4>3. CASE h = 0
          BY <1>9, <1>10, <2>1, <3>3, <4>3 DEF ArgmaxIs
        <4>4. QED
          BY <4>1, <4>2, <4>3
      <3>4. CASE e # t
        BY <1>2, <1>10, <3>1, <3>4 DEF ArgmaxIs
      <3>5. QED
        BY <3>3, <3>4
    <2>2. ASSUME kernel = "rms_norm", NEW e \in RowKernel!Threads PROVE NormResult(e)'
      BY <1>1, <1>2, <1>9, <1>10, <2>2 DEF Results, NormResult
    <2>3. ScaleIs <=> ScaleIs'
      BY <1>2 DEF ScaleIs
    <2>4. QED
      BY <1>1, <1>2, <2>1, <2>2, <2>3 DEF Results
  <1>15. RowTypes'
    BY <1>1, <1>2, <1>7, <1>10 DEF RowTypes
  <1>16. QED
    BY <1>13, <1>14, <1>15

\* Thread 0 has the whole row when it writes the scale.
LEMMA ScaleTwin ==
  ASSUME TwinInv, NEW t \in RowKernel!Threads, RowKernel!WriteScale(t)
  PROVE  RowSlots' /\ Results' /\ RowTypes'
  <1>1. RowTypes /\ RowSlots /\ Results /\ SlotsOf(t) /\ RowShape /\ RowInv
    BY DEF TwinInv, RowSlots, RowInv
  <1>2. /\ thread_pc[t] = "scale" /\ thread_pc' = [thread_pc EXCEPT ![t] = "sync"]
        /\ kernel' = kernel /\ cols' = cols /\ r' = r /\ stride' = stride
        /\ sval' = sval /\ sidx' = sidx /\ other' = other /\ row_out' = row_out
        /\ scale' = <<sval[0]>>
    BY DEF RowKernel!WriteScale, RowKernel!Goto, RowKernel!row
  <1>3. t = 0 /\ stride[t] = 0
    BY <1>1, <1>2 DEF RowInv, ScaleFirst
  <1>4. kernel = "rms_norm"
    BY <1>1, <1>2, <1>3 DEF Results, RowTypes, ArgmaxIs
  <1>5. thread_pc'[t] = "sync" /\ \A e \in RowKernel!Threads : e # t => thread_pc'[e] = thread_pc[e]
    BY <1>1, <1>2 DEF RowShape
  <1>6. Alone(t)
    BY <1>2, <1>5 DEF Alone
  <1>7. SlotsOf(t)'
    BY <1>1, <1>2, <1>5 DEF Round, SlotHolds, SlotsOf
  <1>8. RowSlots'
    BY <1>1, <1>6, <1>7, OtherSlots
  <1>9. sval[0] = Total(Squares(r), 0..(cols - 1))
    BY <1>1, <1>2, <1>3, <1>4, AllInZero DEF Round, HoldsFor
  <1>10. Results'
    BY <1>1, <1>2, <1>4, <1>5, <1>9 DEF ScaleIs, Results, NormResult
  <1>11. RowTypes'
    BY <1>1, <1>2 DEF RowTypes
  <1>12. QED
    BY <1>8, <1>10, <1>11

\* What is written is the first of the greatest, or scaled by the whole row.
LEMMA WriteTwin ==
  ASSUME TwinInv, NEW t \in RowKernel!Threads, RowKernel!WriteOut(t)
  PROVE  RowSlots' /\ Results' /\ RowTypes'
  <1>1. RowTypes /\ RowSlots /\ Results /\ SlotsOf(t) /\ RowShape /\ RowInv
    BY DEF TwinInv, RowSlots, RowInv
  <1>2. /\ thread_pc[t] = "write" /\ thread_pc' = [thread_pc EXCEPT ![t] = "done"]
        /\ kernel' = kernel /\ cols' = cols /\ r' = r /\ stride' = stride
        /\ sval' = sval /\ sidx' = sidx /\ other' = other /\ scale' = scale
        /\ row_out' = [j \in DOMAIN row_out |->
                 IF kernel = "argmax" /\ j = 0 THEN sidx[0]
                 ELSE IF kernel = "rms_norm" /\ j \in RowKernel!Slice(t) THEN scale[1] ELSE row_out[j]]
    BY DEF RowKernel!WriteOut, RowKernel!Goto, RowKernel!row
  <1>3. thread_pc'[t] = "done" /\ \A e \in RowKernel!Threads : e # t => thread_pc'[e] = thread_pc[e]
    BY <1>1, <1>2 DEF RowShape
  <1>4. Alone(t)
    BY <1>2, <1>3 DEF Alone
  <1>5. SlotsOf(t)'
    BY <1>1, <1>2, <1>3 DEF Round, SlotHolds, SlotsOf
  <1>6. RowSlots'
    BY <1>1, <1>4, <1>5, OtherSlots
  <1>7. ASSUME kernel = "argmax", NEW e \in RowKernel!Threads PROVE ArgmaxIs(e)'
    <2>1. ArgmaxIs(e) /\ ArgmaxIs(t)
      BY <1>1, <1>7 DEF Results
    <2>2. t = 0 /\ stride[t] <= 0
      BY <1>2, <2>1 DEF ArgmaxIs
    <2>3. sidx[0] = FirstMost(r, 0..(cols - 1))
      <3>1. HoldsFor(kernel, r, 0..(cols - 1), sval[0], sidx[0])
        BY <1>1, <1>2, <2>2, AllInZero DEF Round
      <3>2. 0..(cols - 1) # {}
        <4>1. cols \in Nat \ {0}
          BY <1>1 DEF RowTypes
        <4>2. 0 \in 0..(cols - 1)
          BY <4>1
        <4>3. QED
          BY <4>2
      <3>3. QED
        BY <1>7, <3>1, <3>2 DEF HoldsFor, BestIdx
    <2>4. 0 \in DOMAIN row_out
      BY <1>1 DEF RowTypes
    <2>5. row_out'[0] = FirstMost(r, 0..(cols - 1))
      BY <1>2, <1>7, <2>3, <2>4
    <2>6. CASE e = t
      BY <1>2, <1>3, <2>2, <2>5, <2>6 DEF ArgmaxIs
    <2>7. CASE e # t
      BY <1>2, <1>3, <2>1, <2>5, <2>7 DEF ArgmaxIs
    <2>8. QED
      BY <2>6, <2>7
  <1>8. ASSUME kernel = "rms_norm", NEW e \in RowKernel!Threads PROVE NormResult(e)'
    <2>1. NormResult(e) /\ ScaleIs
      BY <1>1, <1>8 DEF Results
    <2>2. scale[1] = Total(Squares(r), 0..(cols - 1))
      BY <1>1, <1>2, <1>8, <2>1, RowRaceFree, HasThread DEF RowKernel!RaceFree, ScaleIs
    <2>3. RowKernel!Slice(t) = Part(cols, NumThreads, t)
      BY DEF RowKernel!Slice, Part
    <2>4. ASSUME thread_pc'[e] = "done", NEW j \in Part(cols, NumThreads, e)
          PROVE  row_out'[j] = Total(Squares(r), 0..(cols - 1))
      <3>1. j \in DOMAIN row_out
        BY <1>1, PartAll DEF RowTypes
      <3>2. CASE j \in RowKernel!Slice(t)
        BY <1>2, <1>8, <2>2, <3>1, <3>2
      <3>3. CASE j \notin RowKernel!Slice(t)
        <4>1. e # t
          BY <2>3, <2>4, <3>3
        <4>2. row_out[j] = Total(Squares(r), 0..(cols - 1))
          BY <1>3, <2>1, <2>4, <4>1 DEF NormResult
        <4>3. QED
          BY <1>2, <1>8, <3>1, <3>3, <4>2
      <3>4. QED
        BY <3>2, <3>3
    <2>5. QED
      BY <1>2, <2>4 DEF NormResult
  <1>9. Results'
    BY <1>1, <1>2, <1>7, <1>8 DEF ScaleIs, Results
  <1>10. RowTypes'
    BY <1>1, <1>2 DEF RowTypes
  <1>11. QED
    BY <1>6, <1>9, <1>10

\* Every step keeps the invariant.
LEMMA RowTwinNext == TwinInv /\ [RowKernel!Next]_(RowKernel!vars) => TwinInv'
  <1>1. SUFFICES ASSUME TwinInv, [RowKernel!Next]_(RowKernel!vars) PROVE TwinInv'
    OBVIOUS
  <1>2. RowInv'
    BY <1>1, RowNext, HasThread DEF TwinInv
  <1>3. ASSUME NEW t \in RowKernel!Threads,
               \/ RowKernel!Scan(t) \/ RowKernel!Sync(t) \/ RowKernel!Load(t) \/ RowKernel!Store(t)
               \/ RowKernel!WriteScale(t) \/ RowKernel!SyncScale(t) \/ RowKernel!WriteOut(t)
        PROVE  RowSlots' /\ Results' /\ RowTypes'
    BY <1>1, <1>3, ScanTwin, LoadTwin, StoreTwin, SyncTwin, ScaleTwin, WriteTwin
  <1>4. CASE UNCHANGED RowKernel!vars
    <2>1. /\ kernel' = kernel /\ cols' = cols /\ r' = r /\ sval' = sval /\ sidx' = sidx
          /\ scale' = scale /\ stride' = stride /\ thread_pc' = thread_pc /\ other' = other
          /\ row_out' = row_out
      BY <1>4 DEF RowKernel!vars
    <2>2. RowSlots'
      BY <1>1, <2>1 DEF Round, SlotHolds, TwinInv, RowSlots, SlotsOf
    <2>3. Results'
      BY <1>1, <2>1 DEF TwinInv, Results, ArgmaxIs, ScaleIs, NormResult
    <2>4. RowTypes'
      BY <1>1, <2>1 DEF TwinInv, RowTypes
    <2>5. QED
      BY <1>2, <2>2, <2>3, <2>4 DEF TwinInv
  <1>5. RowKernel!Finished => UNCHANGED RowKernel!vars
    BY DEF RowKernel!Finished
  <1>6. QED
    BY <1>1, <1>2, <1>3, <1>4, <1>5 DEF RowKernel!Next, TwinInv

\* When all threads are done, the row is what the CPU twin computes.
LEMMA RowTwin == TwinInv => RowKernel!MatchesTwin
  <1>1. SUFFICES ASSUME TwinInv, RowKernel!AllDone
                 PROVE  IF kernel = "argmax" THEN RowKernel!ArgmaxTwin ELSE RowKernel!RmsNormTwin
    BY DEF RowKernel!MatchesTwin
  <1>2. RowTypes /\ Results /\ DOMAIN r = 0..(cols - 1) /\ cols \in Nat \ {0}
    BY <1>1 DEF TwinInv, RowTypes
  <1>3. 0 \in RowKernel!Threads /\ \A t \in RowKernel!Threads : thread_pc[t] = "done"
    BY <1>1, ThreadZero, HasThread DEF RowKernel!AllDone
  <1>4. CASE kernel = "argmax"
    BY <1>2, <1>3, <1>4 DEF Results, ArgmaxIs, RowKernel!FirstMax, FirstMost, RowKernel!ArgmaxTwin
  <1>5. CASE kernel # "argmax"
    <2>1. kernel = "rms_norm"
      BY <1>2, <1>5 DEF RowTypes
    <2>2. RowKernel!SquareSum(DOMAIN r) = Total(Squares(r), 0..(cols - 1))
      <3>1. IsFiniteSet(DOMAIN r) /\ DOMAIN r \subseteq DOMAIN r
        BY <1>2, FS_Interval
      <3>2. QED
        BY <1>2, <3>1, SquareSumIs
    <2>3. ASSUME NEW j \in DOMAIN r PROVE row_out[j] = Total(Squares(r), 0..(cols - 1))
      BY <1>2, <1>3, <2>1, <2>3, PartAll, HasThread DEF RowKernel!Threads, Results, NormResult
    <2>4. QED
      BY <1>5, <2>2, <2>3 DEF RowKernel!RmsNormTwin
  <1>6. QED
    BY <1>4, <1>5

-----------------------------------------------------------------------------
(* The grid kernels: where a task writes, and what. *)

Tasks(l) == 0..(GridKernel!Work(l) - 1)

RopePlace(l, t) ==
    LET per_row == l.n_heads * GridKernel!Half(l)
        hh == (t % per_row) \div GridKernel!Half(l)
    IN (t \div per_row) * l.n_heads * l.head_dim + hh * l.head_dim + (t % GridKernel!Half(l))
RopePair(l, t) == <<GridKernel!Was(RopePlace(l, t)),
                    GridKernel!Was(RopePlace(l, t) + GridKernel!Half(l))>>
RopeTurn(l, t) == <<l.positions[(t \div (l.n_heads * GridKernel!Half(l))) + 1],
                    t % GridKernel!Half(l)>>
ScatterPlace(l, t) == GridKernel!PagedCell(l, l.start + (t \div l.kv_dim), t % l.kv_dim)
HeadPlace(l, t) == (t % l.q_len) * l.n_heads * l.head_dim + (t \div l.q_len) * l.head_dim
HeadOf(l, t) == GridKernel!Online(l, t % l.q_len, t \div l.q_len, l.query_offset + (t % l.q_len))

\* The offsets task t of a launch writes, and what it writes there.
Places(l, t) ==
    CASE l.kernel = "rope" -> {RopePlace(l, t), RopePlace(l, t) + GridKernel!Half(l)}
      [] l.kernel = "attention" -> HeadPlace(l, t)..(HeadPlace(l, t) + l.head_dim - 1)
      [] l.kernel = "paged_scatter" -> {ScatterPlace(l, t)}
      [] OTHER -> {t}
Written(l, t, c) ==
    CASE l.kernel = "embedding" ->
           <<"weight", l.ids[(t \div l.hidden) + 1] * l.hidden + (t % l.hidden)>>
      [] l.kernel = "add_bias" -> <<"+", GridKernel!Was(t), <<"bias", t % l.out_dim>>>>
      [] l.kernel = "add_inplace" -> <<"+", GridKernel!Was(t), <<"y", t>>>>
      [] l.kernel = "rope" -> IF c = RopePlace(l, t) THEN <<"first", RopePair(l, t), RopeTurn(l, t)>>
                              ELSE <<"second", RopePair(l, t), RopeTurn(l, t)>>
      [] l.kernel = "attention" -> <<"head", HeadOf(l, t).acc[c - HeadPlace(l, t)], HeadOf(l, t).sum>>
      [] l.kernel = "paged_scatter" -> <<"src", (t \div l.kv_dim) * l.kv_dim + (t % l.kv_dim)>>
      [] l.kernel = "paged_gather" -> <<"pool", GridKernel!PagedCell(l, t \div l.kv_dim, t % l.kv_dim)>>

KernelNames == {"embedding", "add_bias", "add_inplace", "rope", "attention",
                "paged_scatter", "paged_gather"}

\* A launch fits.
LEMMA LaunchFits ==
  ASSUME NEW l \in Launches
  PROVE  l.kernel \in KernelNames /\ GridKernel!Fits(l)
  BY OperatorsAssumption DEF GridKernel!LaunchesAssumption, GridKernel!Fits, KernelNames

\* The shape of a launch, kernel by kernel.
LEMMA ShapeOf ==
  ASSUME NEW l \in Launches
  PROVE  /\ l.kernel = "embedding" => /\ l.ids \in Seq(0..(l.vocab - 1))
                                      /\ l.vocab \in Nat /\ l.hidden \in Nat \ {0}
         /\ l.kernel = "add_bias" => l.rows \in Nat /\ l.out_dim \in Nat \ {0}
         /\ l.kernel = "add_inplace" => l.n \in Nat
         /\ l.kernel = "rope" => l.rows \in Nat /\ l.n_heads \in Nat \ {0} /\ l.head_dim \in Nat \ {0}
         /\ l.kernel = "paged_gather" => l.rows \in Nat /\ l.kv_dim \in Nat \ {0}
         /\ l.kernel = "attention" => /\ l.query_offset \in Nat
                                      /\ l.q_len \in Nat \ {0} /\ l.n_heads \in Nat \ {0}
                                      /\ l.n_kv_heads \in Nat \ {0} /\ l.head_dim \in Nat \ {0}
  BY LaunchFits DEF GridKernel!Fits

\* The block table of a launch that scatters.
LEMMA TableOf ==
  ASSUME NEW l \in Launches, l.kernel = "paged_scatter"
  PROVE  /\ l.start \in Nat /\ l.n \in Nat
         /\ l.num_blocks \in Nat \ {0} /\ l.block_size \in Nat \ {0} /\ l.kv_dim \in Nat \ {0}
         /\ l.block_table \in Seq(0..(l.num_blocks - 1))
         /\ \A a, b \in DOMAIN l.block_table : l.block_table[a] = l.block_table[b] => a = b
         /\ l.start + l.n <= Len(l.block_table) * l.block_size
  BY LaunchFits DEF GridKernel!Fits

\* The work, kernel by kernel.
LEMMA WorkOf ==
  ASSUME NEW l
  PROVE  /\ l.kernel = "embedding" => GridKernel!Work(l) = Len(l.ids) * l.hidden
         /\ l.kernel = "add_bias" => GridKernel!Work(l) = l.rows * l.out_dim
         /\ l.kernel = "add_inplace" => GridKernel!Work(l) = l.n
         /\ l.kernel = "rope" => GridKernel!Work(l) = l.rows * l.n_heads * GridKernel!Half(l)
         /\ l.kernel = "attention" => GridKernel!Work(l) = l.n_heads * l.q_len
         /\ l.kernel = "paged_scatter" => GridKernel!Work(l) = l.n * l.kv_dim
         /\ l.kernel = "paged_gather" => GridKernel!Work(l) = l.rows * l.kv_dim
  BY DEF GridKernel!Work

\* The offsets of the buffer, kernel by kernel.
LEMMA CellsOf ==
  ASSUME NEW l
  PROVE  /\ l.kernel = "rope" => GridKernel!Cells(l) = 0..(l.rows * l.n_heads * l.head_dim - 1)
         /\ l.kernel = "attention" => GridKernel!Cells(l) = 0..(l.q_len * l.n_heads * l.head_dim - 1)
         /\ l.kernel = "paged_scatter"
              => GridKernel!Cells(l) = 0..(l.num_blocks * l.block_size * l.kv_dim - 1)
         /\ l.kernel \in {"embedding", "add_bias", "add_inplace", "paged_gather"}
              => GridKernel!Cells(l) = Tasks(l)
  BY DEF GridKernel!Cells, Tasks

\* Where a task writes, kernel by kernel.
LEMMA PlacesOf ==
  ASSUME NEW l, NEW t
  PROVE  /\ l.kernel = "rope" => Places(l, t) = {RopePlace(l, t), RopePlace(l, t) + GridKernel!Half(l)}
         /\ l.kernel = "attention" => Places(l, t) = HeadPlace(l, t)..(HeadPlace(l, t) + l.head_dim - 1)
         /\ l.kernel = "paged_scatter" => Places(l, t) = {ScatterPlace(l, t)}
         /\ l.kernel \in {"embedding", "add_bias", "add_inplace", "paged_gather"} => Places(l, t) = {t}
  BY DEF Places

\* What a task writes, kernel by kernel.
LEMMA WrittenOf ==
  ASSUME NEW l, NEW t, NEW c
  PROVE  /\ l.kernel = "embedding"
              => Written(l, t, c) = <<"weight", l.ids[(t \div l.hidden) + 1] * l.hidden + (t % l.hidden)>>
         /\ l.kernel = "add_bias"
              => Written(l, t, c) = <<"+", GridKernel!Was(t), <<"bias", t % l.out_dim>>>>
         /\ l.kernel = "add_inplace" => Written(l, t, c) = <<"+", GridKernel!Was(t), <<"y", t>>>>
         /\ l.kernel = "rope"
              => Written(l, t, c) = IF c = RopePlace(l, t)
                                    THEN <<"first", RopePair(l, t), RopeTurn(l, t)>>
                                    ELSE <<"second", RopePair(l, t), RopeTurn(l, t)>>
         /\ l.kernel = "attention"
              => Written(l, t, c) = <<"head", HeadOf(l, t).acc[c - HeadPlace(l, t)], HeadOf(l, t).sum>>
         /\ l.kernel = "paged_scatter"
              => Written(l, t, c) = <<"src", (t \div l.kv_dim) * l.kv_dim + (t % l.kv_dim)>>
         /\ l.kernel = "paged_gather"
              => Written(l, t, c)
                   = <<"pool", GridKernel!PagedCell(l, t \div l.kv_dim, t % l.kv_dim)>>
  BY Zenon DEF Written

\* Number d of head o of row i, for n heads of c numbers.
InThree(t, n, c, i, o, d) == t = (i * n + o) * c + d

\* Rows, heads and pairs of numbers, counted row by row and head by head.
LEMMA PlaceOfThree ==
  ASSUME NEW n \in Nat \ {0}, NEW c \in Nat \ {0}, NEW i \in Nat, NEW o \in 0..(n - 1),
         NEW d \in 0..(c - 1), NEW t, InThree(t, n, c, i, o, d)
  PROVE  /\ t \in Nat /\ t \div (n * c) = i /\ (t % (n * c)) \div c = o /\ t % c = d
  <1>1. PICK m \in Nat \ {0} : m = n * c
    OBVIOUS
  <1>2. PICK e \in 0..(m - 1) : e = o * c + d
    BY <1>1, PlaceIn
  <1>0. t = (i * n + o) * c + d
    BY DEF InThree
  <1>3. t = i * m + e
    BY <1>0, <1>1, <1>2
  <1>4. t \in Nat /\ t \div m = i /\ t % m = e
    BY <1>3, Place
  <1>5. e \div c = o
    BY <1>2, Place
  <1>6. t % c = d
    BY <1>0, Place
  <1>7. QED
    BY <1>1, <1>4, <1>5, <1>6

\* Every number below h * n * c is number d of some head of some row.
LEMMA PlaceInThree ==
  ASSUME NEW n \in Nat \ {0}, NEW c \in Nat \ {0}, NEW h \in Nat, NEW t \in 0..(h * n * c - 1)
  PROVE  \E i \in 0..(h - 1) : \E o \in 0..(n - 1) : \E d \in 0..(c - 1) : InThree(t, n, c, i, o, d)
  <1>1. PICK z \in Nat : z = h * n
    OBVIOUS
  <1>2. PICK a \in 0..(z - 1), d \in 0..(c - 1) : t = a * c + d
    BY <1>1, PlaceOf
  <1>3. PICK i \in 0..(h - 1), o \in 0..(n - 1) : a = i * n + o
    BY <1>1, PlaceOf
  <1>4. InThree(t, n, c, i, o, d)
    BY <1>2, <1>3 DEF InThree
  <1>5. QED
    BY <1>4

\* Number d of a head of a row is below h * n * c.
LEMMA AllInThree ==
  ASSUME NEW n \in Nat \ {0}, NEW c \in Nat \ {0}, NEW h \in Nat, NEW i \in 0..(h - 1),
         NEW o \in 0..(n - 1), NEW d \in 0..(c - 1)
  PROVE  (i * n + o) * c + d \in 0..(h * n * c - 1)
  BY PlaceIn

\* Half a head.
LEMMA HalfOf ==
  ASSUME NEW l, l.head_dim \in Nat \ {0}
  PROVE  \E c \in Nat : /\ c = GridKernel!Half(l) /\ c + c <= l.head_dim
                        /\ l.head_dim % 2 = 1 => l.head_dim = c + c + 1
  BY DEF GridKernel!Half

\* Every task of rope is a pair of a head of a row.
LEMMA RopeTask ==
  ASSUME NEW l \in Launches, l.kernel = "rope", NEW t \in Tasks(l)
  PROVE  /\ GridKernel!Half(l) \in Nat \ {0}
         /\ \E i \in 0..(l.rows - 1) : \E o \in 0..(l.n_heads - 1) : \E d \in 0..(GridKernel!Half(l) - 1) :
              InThree(t, l.n_heads, GridKernel!Half(l), i, o, d)
  <1>1. l.rows \in Nat /\ l.n_heads \in Nat \ {0} /\ l.head_dim \in Nat \ {0}
    BY ShapeOf
  <1>2. PICK c \in Nat : c = GridKernel!Half(l)
    BY <1>1, HalfOf
  <1>3. PICK h \in Nat, n \in Nat \ {0} : h = l.rows /\ n = l.n_heads
    BY <1>1
  <1>4. t \in 0..(h * n * c - 1)
    BY <1>2, <1>3, WorkOf DEF Tasks
  <1>5. c # 0
    BY <1>4
  <1>6. \E i \in 0..(h - 1) : \E o \in 0..(n - 1) : \E d \in 0..(c - 1) : InThree(t, n, c, i, o, d)
    BY <1>4, <1>5, PlaceInThree
  <1>7. QED
    BY <1>2, <1>3, <1>5, <1>6

\* Pair d of head o of row i is a task, and where it is.
LEMMA RopePlaceIs ==
  ASSUME NEW l \in Launches, l.kernel = "rope", NEW i \in 0..(l.rows - 1), NEW o \in 0..(l.n_heads - 1),
         NEW d \in 0..(GridKernel!Half(l) - 1),
         NEW t, InThree(t, l.n_heads, GridKernel!Half(l), i, o, d)
  PROVE  /\ t \in Tasks(l)
         /\ RopePlace(l, t) = (i * l.n_heads + o) * l.head_dim + d
         /\ RopeTurn(l, t) = <<l.positions[i + 1], d>>
  <1>1. l.rows \in Nat /\ l.n_heads \in Nat \ {0} /\ l.head_dim \in Nat \ {0}
    BY ShapeOf
  <1>2. PICK c \in Nat : c = GridKernel!Half(l)
    BY <1>1, HalfOf
  <1>3. PICK h \in Nat, n \in Nat \ {0}, m \in Nat \ {0} : h = l.rows /\ n = l.n_heads /\ m = l.head_dim
    BY <1>1
  <1>4. c \in Nat \ {0} /\ i \in 0..(h - 1) /\ o \in 0..(n - 1) /\ d \in 0..(c - 1) /\ i \in Nat
    BY <1>2, <1>3
  <1>5. t = (i * n + o) * c + d
    BY <1>2, <1>3 DEF InThree
  <1>6. t \in 0..(h * n * c - 1)
    BY <1>4, <1>5, AllInThree
  <1>7. t \div (n * c) = i /\ (t % (n * c)) \div c = o /\ t % c = d
    <2>1. InThree(t, n, c, i, o, d)
      BY <1>5 DEF InThree
    <2>2. QED
      BY <1>4, <2>1, PlaceOfThree
  <1>8. RopePlace(l, t) = (t \div (n * c)) * n * m + ((t % (n * c)) \div c) * m + (t % c)
    BY <1>2, <1>3, Zenon DEF RopePlace
  <1>9. RopePlace(l, t) = i * n * m + o * m + d
    BY <1>7, <1>8, Zenon
  <1>10. i * n * m + o * m = (i * n + o) * m
    BY <1>4, SMT
  <1>11. RopeTurn(l, t) = <<l.positions[i + 1], d>>
    BY <1>2, <1>3, <1>7, Zenon DEF RopeTurn
  <1>12. QED
    BY <1>2, <1>3, <1>6, <1>9, <1>10, <1>11, WorkOf DEF Tasks

\* Every task of attention is a query and a head.
LEMMA HeadTask ==
  ASSUME NEW l \in Launches, l.kernel = "attention", NEW t \in Tasks(l)
  PROVE  \E h \in 0..(l.n_heads - 1) : \E i \in 0..(l.q_len - 1) : t = h * l.q_len + i
  <1>1. PICK n \in Nat \ {0}, c \in Nat \ {0} : n = l.n_heads /\ c = l.q_len
    BY ShapeOf
  <1>2. t \in 0..(n * c - 1)
    BY <1>1, WorkOf DEF Tasks
  <1>3. \E h \in 0..(n - 1), i \in 0..(c - 1) : t = h * c + i
    BY <1>2, PlaceOf
  <1>4. QED
    BY <1>1, <1>3

\* Head h of query i is a task, and where it is.
LEMMA HeadPlaceIs ==
  ASSUME NEW l \in Launches, l.kernel = "attention", NEW h \in 0..(l.n_heads - 1),
         NEW i \in 0..(l.q_len - 1), NEW t, t = h * l.q_len + i
  PROVE  /\ t \in Tasks(l) /\ t % l.q_len = i /\ t \div l.q_len = h
         /\ HeadPlace(l, t) = (i * l.n_heads + h) * l.head_dim
  <1>1. PICK n \in Nat \ {0}, c \in Nat \ {0}, m \in Nat \ {0} :
          n = l.n_heads /\ c = l.q_len /\ m = l.head_dim
    BY ShapeOf
  <1>2. h \in 0..(n - 1) /\ i \in 0..(c - 1) /\ t = h * c + i /\ h \in Nat /\ i \in Nat
    BY <1>1
  <1>3. t \in 0..(n * c - 1)
    BY <1>2, PlaceIn
  <1>4. t % c = i /\ t \div c = h
    BY <1>2, Place
  <1>5. HeadPlace(l, t) = (t % c) * n * m + (t \div c) * m
    BY <1>1, Zenon DEF HeadPlace
  <1>6. HeadPlace(l, t) = i * n * m + h * m
    BY <1>4, <1>5, Zenon
  <1>7. i * n * m + h * m = (i * n + h) * m
    BY <1>2, SMT
  <1>8. QED
    BY <1>1, <1>3, <1>4, <1>6, <1>7, WorkOf DEF Tasks

\* Where a row of a sequence is in the pool: its block and its place in the block.
LEMMA RowPlaceIs ==
  ASSUME NEW l \in Launches, l.kernel = "paged_scatter", NEW y \in 0..(l.n - 1), NEW e \in 0..(l.kv_dim - 1)
  PROVE  \E a \in DOMAIN l.block_table : \E o \in 0..(l.block_size - 1) :
           /\ l.start + y = (a - 1) * l.block_size + o
           /\ l.block_table[a] \in 0..(l.num_blocks - 1)
           /\ GridKernel!PagedCell(l, l.start + y, e) = (l.block_table[a] * l.block_size + o) * l.kv_dim + e
  <1>1. PICK s \in Nat, n \in Nat, c \in Nat \ {0}, m \in Nat :
          s = l.start /\ n = l.n /\ c = l.block_size /\ m = Len(l.block_table)
    BY TableOf, LenProperties
  <1>2. s + y \in 0..(m * c - 1)
    <2>1. s + n <= m * c
      BY <1>1, TableOf
    <2>2. m * c \in Nat /\ y \in 0..(n - 1)
      BY <1>1
    <2>3. QED
      BY <2>1, <2>2
  <1>3. PICK b \in 0..(m - 1), o \in 0..(c - 1) : s + y = b * c + o
    BY <1>2, PlaceOf
  <1>4. (s + y) \div c = b /\ (s + y) % c = o
    BY <1>3, Place
  <1>5. b + 1 \in DOMAIN l.block_table /\ l.block_table[b + 1] \in 0..(l.num_blocks - 1)
    <2>1. l.block_table \in Seq(0..(l.num_blocks - 1))
      BY TableOf
    <2>2. PICK B, table : B = 0..(l.num_blocks - 1) /\ table = l.block_table /\ table \in Seq(B)
      BY <2>1
    <2>3. b + 1 \in 1..Len(table)
      BY <1>1, <1>3, <2>2
    <2>4. b + 1 \in DOMAIN table /\ table[b + 1] \in B
      BY <2>2, <2>3, LenProperties, ElementOfSeq
    <2>5. QED
      BY <2>2, <2>4
  <1>6. GridKernel!PagedCell(l, l.start + y, e)
          = (l.block_table[((s + y) \div c) + 1] * c + ((s + y) % c)) * l.kv_dim + e
    BY <1>1, Zenon DEF GridKernel!PagedCell
  <1>7. GridKernel!PagedCell(l, l.start + y, e) = (l.block_table[b + 1] * c + o) * l.kv_dim + e
    BY <1>4, <1>6, Zenon
  <1>8. (b + 1) - 1 = b
    BY <1>3
  <1>9. QED
    BY <1>1, <1>3, <1>5, <1>7, <1>8, Zenon

\* Every task of scatter is an element of a row.
LEMMA ScatterTask ==
  ASSUME NEW l \in Launches, l.kernel = "paged_scatter", NEW t \in Tasks(l)
  PROVE  \E y \in 0..(l.n - 1) : \E e \in 0..(l.kv_dim - 1) : t = y * l.kv_dim + e
  <1>1. PICK n \in Nat, c \in Nat \ {0} : n = l.n /\ c = l.kv_dim
    BY TableOf
  <1>2. t \in 0..(n * c - 1)
    BY <1>1, WorkOf DEF Tasks
  <1>3. \E y \in 0..(n - 1), e \in 0..(c - 1) : t = y * c + e
    BY <1>2, PlaceOf
  <1>4. QED
    BY <1>1, <1>3

\* Element e of row y of the source is a task, and its place is that of row start + y.
LEMMA ScatterPlaceIs ==
  ASSUME NEW l \in Launches, l.kernel = "paged_scatter", NEW y \in 0..(l.n - 1),
         NEW e \in 0..(l.kv_dim - 1), NEW t, t = y * l.kv_dim + e
  PROVE  /\ t \in Tasks(l) /\ t \div l.kv_dim = y /\ t % l.kv_dim = e
         /\ ScatterPlace(l, t) = GridKernel!PagedCell(l, l.start + y, e)
  <1>1. PICK n \in Nat, c \in Nat \ {0} : n = l.n /\ c = l.kv_dim
    BY TableOf
  <1>2. y \in 0..(n - 1) /\ e \in 0..(c - 1) /\ t = y * c + e /\ y \in Nat
    BY <1>1
  <1>3. t \in 0..(n * c - 1)
    BY <1>2, PlaceIn
  <1>4. t % c = e /\ t \div c = y
    BY <1>2, Place
  <1>5. ScatterPlace(l, t) = GridKernel!PagedCell(l, l.start + (t \div c), t % c)
    BY <1>1, Zenon DEF ScatterPlace
  <1>6. QED
    BY <1>1, <1>3, <1>4, <1>5, WorkOf DEF Tasks

IsPlace(k, c, o, i) == k = o * c + i

\* A place of a matrix has one row and one column.
LEMMA OnePlace ==
  ASSUME NEW c \in Nat \ {0}, NEW o \in Nat, NEW i \in 0..(c - 1), NEW a \in Nat, NEW b \in 0..(c - 1),
         NEW k, IsPlace(k, c, o, i), IsPlace(k, c, a, b)
  PROVE  o = a /\ i = b
  BY Place DEF IsPlace

\* Where the pair of a task of rope is, as row of heads and place in the head.
LEMMA RopePlaces ==
  ASSUME NEW l \in Launches, l.kernel = "rope", NEW t \in Tasks(l)
  PROVE  \E a \in 0..(l.rows * l.n_heads - 1) : \E d \in 0..(GridKernel!Half(l) - 1) :
           /\ t = a * GridKernel!Half(l) + d
           /\ Places(l, t) = {a * l.head_dim + d, a * l.head_dim + (d + GridKernel!Half(l))}
  <1>1. PICK c \in Nat \ {0}, h \in Nat, n \in Nat \ {0}, m \in Nat \ {0} :
          c = GridKernel!Half(l) /\ h = l.rows /\ n = l.n_heads /\ m = l.head_dim
    BY RopeTask, ShapeOf
  <1>2. PICK i \in 0..(h - 1), o \in 0..(n - 1), d \in 0..(c - 1) : InThree(t, n, c, i, o, d)
    BY <1>1, RopeTask
  <1>3. RopePlace(l, t) = (i * n + o) * m + d
    BY <1>1, <1>2, RopePlaceIs
  <1>4. PICK a \in 0..(h * n - 1) : a = i * n + o
    BY <1>2, PlaceIn
  <1>5. Places(l, t) = {RopePlace(l, t), RopePlace(l, t) + c}
    BY <1>1, PlacesOf
  <1>6. a * m + d + c = a * m + (d + c)
    BY <1>1, <1>2, <1>4
  <1>7. t = a * c + d /\ Places(l, t) = {a * m + d, a * m + (d + c)}
    BY <1>2, <1>3, <1>4, <1>5, <1>6, Zenon DEF InThree
  <1>8. QED
    BY <1>1, <1>4, <1>7, Zenon

\* What a task writes is part of the buffer.
LEMMA PlacesIn ==
  ASSUME NEW l \in Launches, NEW t \in Tasks(l) PROVE Places(l, t) \subseteq GridKernel!Cells(l)
  <1>1. CASE l.kernel \in {"embedding", "add_bias", "add_inplace", "paged_gather"}
    BY <1>1, PlacesOf, CellsOf
  <1>2. CASE l.kernel = "rope"
    <2>1. PICK c \in Nat \ {0}, h \in Nat, n \in Nat \ {0}, m \in Nat \ {0} :
            /\ c = GridKernel!Half(l) /\ h = l.rows /\ n = l.n_heads /\ m = l.head_dim
            /\ c + c <= m
      BY <1>2, RopeTask, ShapeOf, HalfOf
    <2>2. PICK a \in 0..(h * n - 1), d \in 0..(c - 1) : Places(l, t) = {a * m + d, a * m + (d + c)}
      BY <1>2, <2>1, RopePlaces
    <2>3. PICK z \in Nat : z = h * n
      OBVIOUS
    <2>4. d \in 0..(m - 1) /\ d + c \in 0..(m - 1) /\ a \in 0..(z - 1)
      BY <2>1, <2>2, <2>3
    <2>5. a * m + d \in 0..(z * m - 1) /\ a * m + (d + c) \in 0..(z * m - 1)
      BY <2>4, PlaceIn
    <2>6. GridKernel!Cells(l) = 0..(z * m - 1)
      BY <1>2, <2>1, <2>3, CellsOf
    <2>7. QED
      BY <2>2, <2>5, <2>6
  <1>3. CASE l.kernel = "attention"
    <2>1. PICK n \in Nat \ {0}, c \in Nat \ {0}, m \in Nat \ {0} :
            n = l.n_heads /\ c = l.q_len /\ m = l.head_dim
      BY <1>3, ShapeOf
    <2>2. PICK h \in 0..(n - 1), i \in 0..(c - 1) : t = h * c + i
      BY <1>3, <2>1, HeadTask
    <2>3. PICK a \in 0..(c * n - 1) : a = i * n + h
      BY <2>2, PlaceIn
    <2>4. HeadPlace(l, t) = a * m
      BY <1>3, <2>1, <2>2, <2>3, HeadPlaceIs
    <2>5. PICK z \in Nat : z = c * n
      OBVIOUS
    <2>6. GridKernel!Cells(l) = 0..(z * m - 1) /\ Places(l, t) = (a * m)..(a * m + m - 1)
      <3>1. GridKernel!Cells(l) = 0..(c * n * m - 1)
        BY <1>3, <2>1, CellsOf, Zenon
      <3>2. Places(l, t) = HeadPlace(l, t)..(HeadPlace(l, t) + m - 1)
        BY <1>3, <2>1, PlacesOf, Zenon
      <3>3. QED
        BY <2>4, <2>5, <3>1, <3>2, Zenon
    <2>7. ASSUME NEW e \in (a * m)..(a * m + m - 1) PROVE e \in 0..(z * m - 1)
      BY <2>3, <2>5, <2>7, PlaceIn
    <2>8. QED
      BY <2>6, <2>7
  <1>4. CASE l.kernel = "paged_scatter"
    <2>1. PICK y \in 0..(l.n - 1), e \in 0..(l.kv_dim - 1) : t = y * l.kv_dim + e
      BY <1>4, ScatterTask
    <2>2. ScatterPlace(l, t) = GridKernel!PagedCell(l, l.start + y, e)
      BY <1>4, <2>1, ScatterPlaceIs
    <2>3. PICK a \in DOMAIN l.block_table, o \in 0..(l.block_size - 1) :
            /\ l.block_table[a] \in 0..(l.num_blocks - 1)
            /\ GridKernel!PagedCell(l, l.start + y, e)
                 = (l.block_table[a] * l.block_size + o) * l.kv_dim + e
      BY <1>4, <2>1, RowPlaceIs
    <2>4. PICK h \in Nat, n \in Nat \ {0}, c \in Nat \ {0} :
            h = l.num_blocks /\ n = l.block_size /\ c = l.kv_dim
      BY <1>4, TableOf
    <2>9. PICK b : b = l.block_table[a]
      OBVIOUS
    <2>5. (b * n + o) * c + e \in 0..(h * n * c - 1)
      BY <2>1, <2>3, <2>4, <2>9, AllInThree
    <2>6. ScatterPlace(l, t) = (b * n + o) * c + e
      BY <2>2, <2>3, <2>4, <2>9
    <2>7. GridKernel!Cells(l) = 0..(h * n * c - 1) /\ Places(l, t) = {ScatterPlace(l, t)}
      BY <1>4, <2>4, CellsOf, PlacesOf
    <2>8. QED
      BY <2>5, <2>6, <2>7
  <1>5. QED
    BY <1>1, <1>2, <1>3, <1>4, LaunchFits DEF KernelNames

\* No two tasks write the same place.
LEMMA PlacesApart ==
  ASSUME NEW l \in Launches, NEW t \in Tasks(l), NEW u \in Tasks(l), NEW e \in Places(l, t),
         e \in Places(l, u)
  PROVE  t = u
  <1>1. CASE l.kernel \in {"embedding", "add_bias", "add_inplace", "paged_gather"}
    BY <1>1, PlacesOf
  <1>2. CASE l.kernel = "rope"
    <2>1. PICK c \in Nat \ {0}, h \in Nat, n \in Nat \ {0}, m \in Nat \ {0} :
            /\ c = GridKernel!Half(l) /\ h = l.rows /\ n = l.n_heads /\ m = l.head_dim
            /\ c + c <= m
      BY <1>2, RopeTask, ShapeOf, HalfOf
    <2>2. PICK a \in 0..(h * n - 1), d \in 0..(c - 1) :
            t = a * c + d /\ Places(l, t) = {a * m + d, a * m + (d + c)}
      BY <1>2, <2>1, RopePlaces
    <2>3. PICK b \in 0..(h * n - 1), g \in 0..(c - 1) :
            u = b * c + g /\ Places(l, u) = {b * m + g, b * m + (g + c)}
      BY <1>2, <2>1, RopePlaces
    <2>4. PICK i \in 0..(m - 1) : e = a * m + i /\ (i = d \/ i = d + c)
      BY <2>1, <2>2
    <2>5. PICK j \in 0..(m - 1) : e = b * m + j /\ (j = g \/ j = g + c)
      BY <2>1, <2>3
    <2>6. a \in Nat /\ b \in Nat
      BY <2>2, <2>3
    <2>7. a = b /\ i = j
      BY <2>4, <2>5, <2>6, OnePlace DEF IsPlace
    <2>8. d = g
      BY <2>2, <2>3, <2>4, <2>5, <2>7
    <2>9. QED
      BY <2>2, <2>3, <2>7, <2>8
  <1>3. CASE l.kernel = "attention"
    <2>1. PICK n \in Nat \ {0}, c \in Nat \ {0}, m \in Nat \ {0} :
            n = l.n_heads /\ c = l.q_len /\ m = l.head_dim
      BY <1>3, ShapeOf
    <2>2. PICK h \in 0..(n - 1), i \in 0..(c - 1) : t = h * c + i
      BY <1>3, <2>1, HeadTask
    <2>3. PICK y \in 0..(n - 1), j \in 0..(c - 1) : u = y * c + j
      BY <1>3, <2>1, HeadTask
    <2>4. HeadPlace(l, t) = (i * n + h) * m /\ HeadPlace(l, u) = (j * n + y) * m
      BY <1>3, <2>1, <2>2, <2>3, HeadPlaceIs
    <2>5. PICK a \in Nat, b \in Nat : a = i * n + h /\ b = j * n + y
      BY <2>2, <2>3
    <2>6. Places(l, t) = (a * m)..(a * m + m - 1) /\ Places(l, u) = (b * m)..(b * m + m - 1)
      BY <1>3, <2>1, <2>4, <2>5, PlacesOf, ZenonT(60)
    <2>7. PICK d \in 0..(m - 1), g \in 0..(m - 1) : e = a * m + d /\ e = b * m + g
      <3>1. PICK s \in Nat, z \in Nat : s = a * m /\ z = b * m
        BY <2>5
      <3>2. e - s \in 0..(m - 1) /\ e - z \in 0..(m - 1) /\ e = s + (e - s) /\ e = z + (e - z)
        BY <2>6, <3>1
      <3>3. QED
        BY <3>1, <3>2
    <2>8. a = b
      BY <2>7, OnePlace DEF IsPlace
    <2>9. i = j /\ h = y
      BY <2>2, <2>3, <2>5, <2>8, OnePlace DEF IsPlace
    <2>10. QED
      BY <2>2, <2>3, <2>9
  <1>4. CASE l.kernel = "paged_scatter"
    <2>1. PICK y \in 0..(l.n - 1), i \in 0..(l.kv_dim - 1) : t = y * l.kv_dim + i
      BY <1>4, ScatterTask
    <2>2. PICK z \in 0..(l.n - 1), j \in 0..(l.kv_dim - 1) : u = z * l.kv_dim + j
      BY <1>4, ScatterTask
    <2>3. PICK a \in DOMAIN l.block_table, o \in 0..(l.block_size - 1) :
            /\ l.start + y = (a - 1) * l.block_size + o
            /\ l.block_table[a] \in 0..(l.num_blocks - 1)
            /\ GridKernel!PagedCell(l, l.start + y, i)
                 = (l.block_table[a] * l.block_size + o) * l.kv_dim + i
      BY <1>4, <2>1, RowPlaceIs
    <2>4. PICK b \in DOMAIN l.block_table, p \in 0..(l.block_size - 1) :
            /\ l.start + z = (b - 1) * l.block_size + p
            /\ l.block_table[b] \in 0..(l.num_blocks - 1)
            /\ GridKernel!PagedCell(l, l.start + z, j)
                 = (l.block_table[b] * l.block_size + p) * l.kv_dim + j
      BY <1>4, <2>2, RowPlaceIs
    <2>5. PICK n \in Nat \ {0}, c \in Nat \ {0}, s \in Nat, v \in Nat :
            n = l.block_size /\ c = l.kv_dim /\ s = l.start /\ v = l.n
      BY <1>4, TableOf
    <2>15. PICK f \in Nat, g \in Nat : f = l.block_table[a] /\ g = l.block_table[b]
      BY <2>3, <2>4
    <2>6. f \in Nat /\ g \in Nat /\ o \in 0..(n - 1) /\ p \in 0..(n - 1) /\ i \in 0..(c - 1)
          /\ j \in 0..(c - 1) /\ y \in Nat /\ z \in Nat
      BY <2>1, <2>2, <2>3, <2>4, <2>5
    <2>7. e = (f * n + o) * c + i
      <3>1. e = GridKernel!PagedCell(l, l.start + y, i)
        BY <1>4, <2>1, ScatterPlaceIs, PlacesOf
      <3>2. QED
        BY <2>3, <2>5, <2>15, <3>1, Zenon
    <2>8. e = (g * n + p) * c + j
      <3>1. e = GridKernel!PagedCell(l, l.start + z, j)
        BY <1>4, <2>2, ScatterPlaceIs, PlacesOf
      <3>2. QED
        BY <2>4, <2>5, <2>15, <3>1, Zenon
    <2>9. PICK k \in Nat : k = f * n + o /\ k = g * n + p /\ i = j
      BY <2>6, <2>7, <2>8, OnePlace DEF IsPlace
    <2>10. f = g /\ o = p
      BY <2>6, <2>9, OnePlace DEF IsPlace
    <2>11. a = b
      BY <1>4, <2>10, <2>15, TableOf
    <2>12. s + y = s + z
      BY <2>3, <2>4, <2>5, <2>10, <2>11
    <2>13. y = z
      BY <2>5, <2>6, <2>12
    <2>14. QED
      BY <2>1, <2>2, <2>9, <2>13
  <1>5. QED
    BY <1>1, <1>2, <1>3, <1>4, LaunchFits DEF KernelNames

\* The work of a launch is a number.
LEMMA WorkNat == ASSUME NEW l \in Launches PROVE GridKernel!Work(l) \in Nat
  BY ShapeOf, LenProperties, WorkOf, HalfOf, TableOf, LaunchFits DEF KernelNames

\* Started threads are numbers, the tasks among them.
LEMMA TasksStarted ==
  ASSUME launch \in Launches
  PROVE  /\ Tasks(launch) \subseteq GridKernel!Started
         /\ \A t \in GridKernel!Started : t \in Tasks(launch) \/ t >= GridKernel!Work(launch)
  <1>1. BlockDim \in Nat \ {0}
    BY OperatorsAssumption, Zenon DEF GridKernel!LaunchesAssumption
  <1>2. PICK w1 \in Nat : w1 = GridKernel!Work(launch)
    BY WorkNat
  <1>3. PICK b \in Nat \ {0}, e \in Nat : b = BlockDim /\ e = (w1 + b - 1) \div b /\ w1 + b - 1 < b * e + b
    <2>1. PICK b \in Nat \ {0}, s \in Nat : b = BlockDim /\ s = w1 + b - 1
      BY <1>1
    <2>2. s \div b \in Nat
      BY <2>1, SMT
    <2>3. s < b * (s \div b) + b
      BY <2>1, QuotientBounds, Zenon
    <2>4. QED
      BY <2>1, <2>2, <2>3
  <1>4. PICK z \in Nat : z = e * b
    OBVIOUS
  <1>5. w1 <= z
    BY <1>3, <1>4
  <1>6. GridKernel!Started = 0..(z - 1)
    BY <1>2, <1>3, <1>4, Zenon DEF GridKernel!Started, GridKernel!GridFor
  <1>7. Tasks(launch) = 0..(w1 - 1)
    BY <1>2 DEF Tasks
  <1>8. QED
    BY <1>2, <1>5, <1>6, <1>7

-----------------------------------------------------------------------------
(* The invariant of a launch: what the tasks that ran have written is what   *)
(* their kernel writes, and the rest of the buffer is as it was.             *)

Ran(t) == t \in Tasks(launch) /\ t \in ran
GridShape == /\ launch \in Launches /\ DOMAIN mem = GridKernel!Cells(launch)
             /\ DOMAIN held = GridKernel!Started /\ ran \subseteq GridKernel!Started
             /\ \A t \in GridKernel!Started : t >= GridKernel!Work(launch) => t \in ran
GridDone == \A t : Ran(t) => \A c \in Places(launch, t) : mem[c] = Written(launch, t, c)
GridRest == \A c \in GridKernel!Cells(launch) :
              (\A t : Ran(t) => c \notin Places(launch, t)) => mem[c] = GridKernel!Was(c)
GridHeld == launch.kernel = "rope" =>
              \A t \in Tasks(launch) : t \in ran \/ held[t] = GridKernel!Nothing
                                       \/ held[t] = RopePair(launch, t)
GridInv == GridShape /\ GridDone /\ GridRest /\ GridHeld

\* A thread with work to do is a task, and its places are as they were.
LEMMA TaskToDo ==
  ASSUME GridInv, NEW t \in GridKernel!Started \ ran
  PROVE  /\ t \in Tasks(launch)
         /\ \A c \in Places(launch, t) : c \in DOMAIN mem /\ mem[c] = GridKernel!Was(c)
  BY TasksStarted, PlacesIn, PlacesApart DEF GridInv, GridShape, Ran, GridRest

\* A step in which a task writes its places and returns.
TaskWrites(t) ==
  /\ t \in Tasks(launch) /\ launch' = launch /\ held' = held /\ ran' = ran \cup {t}
  /\ DOMAIN mem' = DOMAIN mem
  /\ \A c \in DOMAIN mem :
       mem'[c] = IF c \in Places(launch, t) THEN Written(launch, t, c) ELSE mem[c]

\* Such a step keeps the invariant.
LEMMA TaskInv ==
  ASSUME GridInv, NEW t, TaskWrites(t) PROVE GridInv'
  <1>1. launch \in Launches /\ DOMAIN mem = GridKernel!Cells(launch)
    BY DEF GridInv, GridShape
  <1>2. launch' = launch /\ held' = held /\ ran' = ran \cup {t} /\ t \in Tasks(launch)
    BY DEF TaskWrites
  <1>3. GridKernel!Started' = GridKernel!Started
    BY <1>2 DEF GridKernel!Started
  <1>4. GridShape'
    BY <1>1, <1>2, <1>3, TasksStarted DEF GridInv, GridShape, TaskWrites
  <1>5. \A u : Ran(u)' <=> Ran(u) \/ u = t
    BY <1>2 DEF Ran
  <1>6. GridDone'
    <2>1. ASSUME NEW u, Ran(u)', NEW c \in Places(launch, u) PROVE mem'[c] = Written(launch, u, c)
      <3>1. u \in Tasks(launch)
        BY <1>2, <1>5, <2>1 DEF Ran
      <3>2. c \in DOMAIN mem
        BY <1>1, <2>1, <3>1, PlacesIn
      <3>3. CASE u = t
        BY <2>1, <3>2, <3>3 DEF TaskWrites
      <3>4. CASE u # t
        <4>1. Ran(u) /\ c \notin Places(launch, t)
          BY <1>1, <1>2, <1>5, <2>1, <3>1, <3>4, PlacesApart
        <4>2. mem[c] = Written(launch, u, c)
          BY <2>1, <4>1 DEF GridInv, GridDone
        <4>3. QED
          BY <3>2, <4>1, <4>2 DEF TaskWrites
      <3>5. QED
        BY <3>3, <3>4
    <2>2. QED
      BY <1>2, <2>1 DEF GridDone
  <1>7. GridRest'
    BY <1>1, <1>2, <1>5 DEF GridInv, GridRest, TaskWrites
  <1>8. GridHeld'
    BY <1>2 DEF GridInv, GridHeld
  <1>9. QED
    BY <1>4, <1>6, <1>7, <1>8 DEF GridInv

\* A launch starts with nothing written.
LEMMA GridInit == OperatorsAssumption /\ GridKernel!Init => GridInv
  <1>1. SUFFICES ASSUME GridKernel!Init PROVE GridInv
    OBVIOUS
  <1>2. launch \in Launches /\ mem = [c \in GridKernel!Cells(launch) |-> GridKernel!Was(c)]
        /\ held = [t \in GridKernel!Started |-> GridKernel!Nothing]
        /\ ran = {t \in GridKernel!Started : t >= GridKernel!Work(launch)}
    BY <1>1 DEF GridKernel!Init
  <1>3. GridShape
    BY <1>2 DEF GridShape
  <1>4. \A t : ~ Ran(t)
    BY <1>2, WorkNat DEF Tasks, Ran
  <1>5. GridHeld
    BY <1>2, TasksStarted DEF GridHeld
  <1>6. QED
    BY <1>2, <1>3, <1>4, <1>5 DEF GridInv, GridDone, GridRest

\* What the kernels of one element per task write.
LEMMA ElementWrites ==
  ASSUME GridInv, NEW t \in GridKernel!Started,
         \/ GridKernel!EmbeddingThread(t) \/ GridKernel!AddBiasThread(t) \/ GridKernel!AddThread(t)
         \/ GridKernel!ScatterThread(t) \/ GridKernel!GatherThread(t)
  PROVE  TaskWrites(t)
  <1>1. t \notin ran /\ launch' = launch /\ held' = held /\ ran' = ran \cup {t}
    BY DEF GridKernel!EmbeddingThread, GridKernel!AddBiasThread, GridKernel!AddThread,
           GridKernel!ScatterThread, GridKernel!GatherThread, GridKernel!Runs, GridKernel!Returns
  <1>2. t \in Tasks(launch)
        /\ \A c \in Places(launch, t) : c \in DOMAIN mem /\ mem[c] = GridKernel!Was(c)
    BY <1>1, TaskToDo
  <1>3. ASSUME NEW c, Places(launch, t) = {c}, mem' = [mem EXCEPT ![c] = Written(launch, t, c)]
        PROVE  TaskWrites(t)
    BY <1>1, <1>2, <1>3 DEF TaskWrites
  <1>4. CASE GridKernel!EmbeddingThread(t)
    <2>1. launch.kernel = "embedding"
          /\ mem' = [mem EXCEPT ![t] = <<"weight",
                launch.ids[(t \div launch.hidden) + 1] * launch.hidden + (t % launch.hidden)>>]
      BY <1>4 DEF GridKernel!EmbeddingThread, GridKernel!Runs
    <2>2. mem' = [mem EXCEPT ![t] = Written(launch, t, t)]
      BY <2>1, WrittenOf, Zenon
    <2>3. QED
      BY <1>3, <2>1, <2>2, PlacesOf
  <1>5. CASE GridKernel!AddBiasThread(t)
    <2>1. launch.kernel = "add_bias"
          /\ mem' = [mem EXCEPT ![t] = <<"+", mem[t], <<"bias", t % launch.out_dim>>>>]
      BY <1>5 DEF GridKernel!AddBiasThread, GridKernel!Runs
    <2>2. Places(launch, t) = {t}
      BY <2>1, PlacesOf
    <2>3. mem[t] = GridKernel!Was(t)
      BY <1>2, <2>2
    <2>4. mem' = [mem EXCEPT ![t] = Written(launch, t, t)]
      <3>1. Written(launch, t, t) = <<"+", GridKernel!Was(t), <<"bias", t % launch.out_dim>>>>
        BY <2>1, WrittenOf, ZenonT(60)
      <3>2. <<"+", mem[t], <<"bias", t % launch.out_dim>>>> = Written(launch, t, t)
        BY <2>3, <3>1
      <3>3. QED
        BY <2>1, <3>2, Zenon
    <2>5. QED
      BY <1>3, <2>2, <2>4
  <1>6. CASE GridKernel!AddThread(t)
    <2>1. launch.kernel = "add_inplace" /\ mem' = [mem EXCEPT ![t] = <<"+", mem[t], <<"y", t>>>>]
      BY <1>6 DEF GridKernel!AddThread, GridKernel!Runs
    <2>2. Places(launch, t) = {t}
      BY <2>1, PlacesOf
    <2>3. mem[t] = GridKernel!Was(t)
      BY <1>2, <2>2
    <2>4. mem' = [mem EXCEPT ![t] = Written(launch, t, t)]
      <3>1. Written(launch, t, t) = <<"+", GridKernel!Was(t), <<"y", t>>>>
        BY <2>1, WrittenOf
      <3>2. <<"+", mem[t], <<"y", t>>>> = Written(launch, t, t)
        BY <2>3, <3>1
      <3>3. QED
        BY <2>1, <3>2, Zenon
    <2>5. QED
      BY <1>3, <2>2, <2>4
  <1>7. CASE GridKernel!ScatterThread(t)
    <2>1. launch.kernel = "paged_scatter"
          /\ mem' = [mem EXCEPT ![ScatterPlace(launch, t)]
                       = <<"src", (t \div launch.kv_dim) * launch.kv_dim + (t % launch.kv_dim)>>]
      BY <1>7, Zenon DEF GridKernel!ScatterThread, GridKernel!Runs, ScatterPlace
    <2>2. mem' = [mem EXCEPT ![ScatterPlace(launch, t)] = Written(launch, t, ScatterPlace(launch, t))]
      BY <2>1, WrittenOf, ZenonT(60)
    <2>3. QED
      BY <1>3, <2>1, <2>2, PlacesOf
  <1>8. CASE GridKernel!GatherThread(t)
    <2>1. launch.kernel = "paged_gather"
          /\ mem' = [mem EXCEPT ![t] =
                       <<"pool", GridKernel!PagedCell(launch, t \div launch.kv_dim, t % launch.kv_dim)>>]
      BY <1>8, Zenon DEF GridKernel!GatherThread, GridKernel!Runs
    <2>2. mem' = [mem EXCEPT ![t] = Written(launch, t, t)]
      BY <2>1, WrittenOf, ZenonT(60)
    <2>3. QED
      BY <1>3, <2>1, <2>2, PlacesOf
  <1>9. QED
    BY <1>4, <1>5, <1>6, <1>7, <1>8

\* rope writes both of its places from the pair it has loaded.
LEMMA RopeWrites ==
  ASSUME GridInv, NEW t \in GridKernel!Started, GridKernel!RopeStore(t) PROVE TaskWrites(t)
  <1>1. /\ launch.kernel = "rope" /\ t \notin ran /\ held[t] # GridKernel!Nothing
        /\ launch' = launch /\ held' = held /\ ran' = ran \cup {t}
        /\ mem' = [mem EXCEPT
             ![RopePlace(launch, t)] = <<"first", held[t], RopeTurn(launch, t)>>,
             ![RopePlace(launch, t) + GridKernel!Half(launch)] = <<"second", held[t], RopeTurn(launch, t)>>]
    BY Zenon DEF GridKernel!RopeStore, GridKernel!Runs, GridKernel!Returns, GridKernel!RopeCell,
       GridKernel!RopeAngle, RopePlace, RopeTurn
  <1>2. t \in Tasks(launch)
        /\ \A c \in Places(launch, t) : c \in DOMAIN mem /\ mem[c] = GridKernel!Was(c)
    BY <1>1, TaskToDo
  <1>3. held[t] = RopePair(launch, t)
    BY <1>1, <1>2 DEF GridInv, GridHeld
  <1>4. PICK a, c : a = RopePlace(launch, t) /\ c = RopePlace(launch, t) + GridKernel!Half(launch)
    OBVIOUS
  <1>5. Places(launch, t) = {a, c}
    BY <1>1, <1>4, PlacesOf
  <1>6. a # c
    <2>1. PICK l \in Launches : l = launch
      BY DEF GridInv, GridShape
    <2>2. GridKernel!Half(l) \in Nat \ {0} /\ \E i \in 0..(l.rows - 1) : \E o \in 0..(l.n_heads - 1) :
             \E d \in 0..(GridKernel!Half(l) - 1) : InThree(t, l.n_heads, GridKernel!Half(l), i, o, d)
      BY <1>1, <1>2, <2>1, RopeTask
    <2>3. a \in Int
      <3>1. PICK i \in 0..(l.rows - 1), o \in 0..(l.n_heads - 1), d \in 0..(GridKernel!Half(l) - 1) :
               InThree(t, l.n_heads, GridKernel!Half(l), i, o, d)
        BY <2>2
      <3>2. RopePlace(l, t) = (i * l.n_heads + o) * l.head_dim + d
        BY <1>1, <2>1, <3>1, RopePlaceIs
      <3>3. l.n_heads \in Nat /\ l.head_dim \in Nat
        BY <1>1, <2>1, ShapeOf
      <3>4. QED
        BY <1>4, <2>1, <3>1, <3>2, <3>3
    <2>4. QED
      BY <1>4, <2>1, <2>2, <2>3
  <1>7. \A z : Written(launch, t, z) = IF z = a THEN <<"first", held[t], RopeTurn(launch, t)>>
                                       ELSE <<"second", held[t], RopeTurn(launch, t)>>
    BY <1>1, <1>3, <1>4, WrittenOf
  <1>8. mem' = [mem EXCEPT ![a] = Written(launch, t, a), ![c] = Written(launch, t, c)]
    BY <1>1, <1>4, <1>6, <1>7, Zenon
  <1>9. DOMAIN mem' = DOMAIN mem
    BY <1>8
  <1>10. \A z \in DOMAIN mem : mem'[z] = IF z \in {a, c} THEN Written(launch, t, z) ELSE mem[z]
    BY <1>2, <1>5, <1>6, <1>8
  <1>11. QED
    BY <1>1, <1>2, <1>5, <1>9, <1>10, Zenon DEF TaskWrites

\* A thread of attention writes its head.
LEMMA HeadWrites ==
  ASSUME GridInv, NEW t \in GridKernel!Started, GridKernel!AttentionThread(t) PROVE TaskWrites(t)
  <1>1. /\ launch.kernel = "attention" /\ t \notin ran
        /\ launch' = launch /\ held' = held /\ ran' = ran \cup {t}
        /\ mem' = [c \in DOMAIN mem |->
                     IF c \in HeadPlace(launch, t)..(HeadPlace(launch, t) + launch.head_dim - 1)
                     THEN <<"head", HeadOf(launch, t).acc[c - HeadPlace(launch, t)], HeadOf(launch, t).sum>>
                     ELSE mem[c]]
    BY Zenon DEF GridKernel!AttentionThread, GridKernel!Runs, GridKernel!Returns, HeadPlace, HeadOf
  <1>2. t \in Tasks(launch)
    BY <1>1, TaskToDo
  <1>3. Places(launch, t) = HeadPlace(launch, t)..(HeadPlace(launch, t) + launch.head_dim - 1)
    BY <1>1, PlacesOf
  <1>4. \A c : Written(launch, t, c)
                 = <<"head", HeadOf(launch, t).acc[c - HeadPlace(launch, t)], HeadOf(launch, t).sum>>
    BY <1>1, WrittenOf
  <1>5. DOMAIN mem' = DOMAIN mem
    BY <1>1, Zenon
  <1>6. ASSUME NEW c \in DOMAIN mem
        PROVE  mem'[c] = IF c \in Places(launch, t) THEN Written(launch, t, c) ELSE mem[c]
    BY <1>1, <1>3, <1>4, <1>6
  <1>7. QED
    BY <1>1, <1>2, <1>5, <1>6, Zenon DEF TaskWrites

\* Loading a pair keeps the invariant: no other thread writes it.
LEMMA RopeLoads ==
  ASSUME GridInv, NEW t \in GridKernel!Started, GridKernel!RopeLoad(t) PROVE GridInv'
  <1>1. /\ launch.kernel = "rope" /\ t \notin ran
        /\ launch' = launch /\ mem' = mem /\ ran' = ran
        /\ held' = [held EXCEPT ![t] = <<mem[RopePlace(launch, t)],
                                         mem[RopePlace(launch, t) + GridKernel!Half(launch)]>>]
    BY Zenon DEF GridKernel!RopeLoad, GridKernel!Runs, GridKernel!RopeCell, RopePlace
  <1>2. \A c \in Places(launch, t) : c \in DOMAIN mem /\ mem[c] = GridKernel!Was(c)
    BY <1>1, TaskToDo
  <1>3. Places(launch, t) = {RopePlace(launch, t), RopePlace(launch, t) + GridKernel!Half(launch)}
    BY <1>1, PlacesOf
  <1>4. <<mem[RopePlace(launch, t)], mem[RopePlace(launch, t) + GridKernel!Half(launch)]>>
          = RopePair(launch, t)
    BY <1>2, <1>3 DEF RopePair
  <1>5. held' = [held EXCEPT ![t] = RopePair(launch, t)]
    BY <1>1, <1>4, Zenon
  <1>6. GridKernel!Started' = GridKernel!Started
    BY <1>1 DEF GridKernel!Started
  <1>7. GridShape'
    BY <1>1, <1>5, <1>6 DEF GridInv, GridShape
  <1>8. GridHeld'
    BY <1>1, <1>5, TasksStarted DEF GridInv, GridShape, GridHeld
  <1>9. GridDone' /\ GridRest'
    BY <1>1 DEF Ran, GridInv, GridDone, GridRest
  <1>10. QED
    BY <1>7, <1>8, <1>9 DEF GridInv

\* Every step keeps the invariant.
LEMMA GridNext == GridInv /\ [GridKernel!Next]_(GridKernel!vars) => GridInv'
  <1>1. SUFFICES ASSUME GridInv, [GridKernel!Next]_(GridKernel!vars) PROVE GridInv'
    OBVIOUS
  <1>2. CASE UNCHANGED GridKernel!vars
    <2>1. launch' = launch /\ mem' = mem /\ held' = held /\ ran' = ran
      BY <1>2 DEF GridKernel!vars
    <2>2. GridKernel!Started' = GridKernel!Started /\ \A t : Ran(t)' <=> Ran(t)
      BY <2>1 DEF GridKernel!Started, Ran
    <2>3. QED
      BY <1>1, <2>1, <2>2 DEF GridInv, GridShape, GridDone, GridRest, GridHeld
  <1>3. ASSUME NEW t \in GridKernel!Started,
               \/ GridKernel!EmbeddingThread(t) \/ GridKernel!AddBiasThread(t) \/ GridKernel!AddThread(t)
               \/ GridKernel!RopeLoad(t) \/ GridKernel!RopeStore(t)
               \/ GridKernel!ScatterThread(t) \/ GridKernel!GatherThread(t)
               \/ GridKernel!AttentionThread(t)
        PROVE  GridInv'
    BY <1>1, <1>3, RopeLoads, RopeWrites, TaskInv, HeadWrites, ElementWrites
  <1>4. GridKernel!Finished => UNCHANGED GridKernel!vars
    BY DEF GridKernel!Finished
  <1>5. QED
    BY <1>1, <1>2, <1>3, <1>4 DEF GridKernel!Next

\* When all have run, every place of a task is as its kernel writes it.
LEMMA AllWritten ==
  ASSUME GridInv, GridKernel!AllRan, NEW t \in Tasks(launch), NEW c \in Places(launch, t)
  PROVE  mem[c] = Written(launch, t, c)
  BY TasksStarted DEF GridInv, GridShape, GridKernel!AllRan, GridDone, Ran

\* embedding: every element of every row.
LEMMA EmbeddingIs ==
  ASSUME GridInv, GridKernel!AllRan, launch.kernel = "embedding" PROVE GridKernel!EmbeddingTwin(launch)
  <1>1. PICK l \in Launches : l = launch
    BY DEF GridInv, GridShape
  <1>2. PICK n \in Nat, c \in Nat \ {0} : n = Len(l.ids) /\ c = l.hidden
    BY <1>1, ShapeOf, LenProperties
  <1>3. ASSUME NEW i \in 1..n, NEW e \in 0..(c - 1)
        PROVE  mem[(i - 1) * c + e] = <<"weight", l.ids[i] * c + e>>
    <2>1. PICK o \in 0..(n - 1) : o = i - 1 /\ o + 1 = i
      OBVIOUS
    <2>2. PICK t \in 0..(n * c - 1) : t = o * c + e /\ t \div c = o /\ t % c = e
      BY PlaceIs
    <2>3. t \in Tasks(l) /\ Places(l, t) = {t}
      BY <1>1, <1>2, <2>2, WorkOf, PlacesOf, ZenonT(60) DEF Tasks
    <2>4. mem[t] = Written(l, t, t)
      BY <1>1, <2>3, AllWritten
    <2>5. Written(l, t, t) = <<"weight", l.ids[(t \div c) + 1] * c + (t % c)>>
      BY <1>1, <1>2, WrittenOf, Zenon
    <2>6. QED
      BY <2>1, <2>2, <2>4, <2>5, Zenon
  <1>4. \A i \in 1..n : l.ids[i] >= 0 /\ l.ids[i] < l.vocab
    BY <1>1, <1>2, ShapeOf
  <1>5. QED
    BY <1>1, <1>2, <1>3, <1>4, Zenon DEF GridKernel!EmbeddingTwin

\* add_bias: every element of every row.
LEMMA AddBiasIs ==
  ASSUME GridInv, GridKernel!AllRan, launch.kernel = "add_bias" PROVE GridKernel!AddBiasTwin(launch)
  <1>1. PICK l \in Launches : l = launch
    BY DEF GridInv, GridShape
  <1>2. PICK n \in Nat, c \in Nat \ {0} : n = l.rows /\ c = l.out_dim
    BY <1>1, ShapeOf
  <1>3. ASSUME NEW i \in 0..(n - 1), NEW o \in 0..(c - 1)
        PROVE  mem[i * c + o] = <<"+", GridKernel!Was(i * c + o), <<"bias", o>>>>
    <2>1. PICK t \in 0..(n * c - 1) : t = i * c + o /\ t % c = o
      BY PlaceIs
    <2>2. t \in Tasks(l) /\ Places(l, t) = {t}
      BY <1>1, <1>2, <2>1, WorkOf, PlacesOf, ZenonT(60) DEF Tasks
    <2>3. mem[t] = Written(l, t, t)
      BY <1>1, <2>2, AllWritten
    <2>4. Written(l, t, t) = <<"+", GridKernel!Was(t), <<"bias", t % c>>>>
      BY <1>1, <1>2, WrittenOf
    <2>5. QED
      BY <2>1, <2>3, <2>4, Zenon
  <1>4. QED
    BY <1>1, <1>2, <1>3, Zenon DEF GridKernel!AddBiasTwin

\* add_inplace: every element.
LEMMA AddIs ==
  ASSUME GridInv, GridKernel!AllRan, launch.kernel = "add_inplace", NEW i \in 0..(launch.n - 1)
  PROVE  mem[i] = <<"+", GridKernel!Was(i), <<"y", i>>>>
  BY WorkOf, PlacesOf, AllWritten, WrittenOf DEF Tasks

\* paged_gather: every element of every row of the sequence.
LEMMA GatherIs ==
  ASSUME GridInv, GridKernel!AllRan, launch.kernel = "paged_gather" PROVE GridKernel!GatherTwin(launch)
  <1>1. PICK l \in Launches : l = launch
    BY DEF GridInv, GridShape
  <1>2. PICK n \in Nat, c \in Nat \ {0} : n = l.rows /\ c = l.kv_dim
    BY <1>1, ShapeOf
  <1>3. ASSUME NEW i \in 0..(n - 1), NEW e \in 0..(c - 1)
        PROVE  mem[i * c + e] = <<"pool", GridKernel!PagedCell(l, i, e)>>
    <2>1. PICK t \in 0..(n * c - 1) : t = i * c + e /\ t \div c = i /\ t % c = e
      BY PlaceIs
    <2>2. t \in Tasks(l) /\ Places(l, t) = {t}
      BY <1>1, <1>2, <2>1, WorkOf, PlacesOf, ZenonT(60) DEF Tasks
    <2>3. mem[t] = Written(l, t, t)
      BY <1>1, <2>2, AllWritten
    <2>4. Written(l, t, t) = <<"pool", GridKernel!PagedCell(l, t \div c, t % c)>>
      BY <1>1, <1>2, WrittenOf
    <2>5. QED
      BY <2>1, <2>3, <2>4, Zenon
  <1>4. QED
    BY <1>1, <1>2, <1>3, Zenon DEF GridKernel!GatherTwin

\* The head of row i that starts at head: every pair of it, and the element an odd head leaves.
HeadTurned(l, i, head) ==
    LET pair(d) == <<GridKernel!Was(head + d), GridKernel!Was(head + d + GridKernel!Half(l))>>
        angle(d) == <<l.positions[i], d>>
    IN /\ \A d \in 0..(GridKernel!Half(l) - 1) :
            /\ mem[head + d] = <<"first", pair(d), angle(d)>>
            /\ mem[head + d + GridKernel!Half(l)] = <<"second", pair(d), angle(d)>>
       /\ l.head_dim % 2 = 1 => mem[head + l.head_dim - 1] = GridKernel!Was(head + l.head_dim - 1)

\* rope: every head of every row.
LEMMA RopeIs ==
  ASSUME GridInv, GridKernel!AllRan, launch.kernel = "rope" PROVE GridKernel!RopeTwin(launch)
  <1>1. PICK l \in Launches : l = launch
    BY DEF GridInv, GridShape
  <1>2. PICK n \in Nat, v \in Nat \ {0}, m \in Nat \ {0}, c \in Nat :
          /\ n = l.rows /\ v = l.n_heads /\ m = l.head_dim /\ c = GridKernel!Half(l) /\ c + c <= m
          /\ m % 2 = 1 => m = c + c + 1
    BY <1>1, ShapeOf, HalfOf
  <1>3. ASSUME NEW i \in 1..n, NEW hh \in 0..(v - 1), NEW head, head = (i - 1) * v * m + hh * m
        PROVE  HeadTurned(l, i, head)
    <2>1. PICK o \in 0..(n - 1) : o = i - 1 /\ o + 1 = i
      OBVIOUS
    <2>2. PICK a \in 0..(n * v - 1) : a = o * v + hh
      BY PlaceIn
    <2>3. head = a * m /\ head \in Nat
      BY <1>3, <2>1, <2>2
    <2>4. ASSUME NEW d \in 0..(c - 1)
          PROVE  /\ mem[head + d] = <<"first", <<GridKernel!Was(head + d), GridKernel!Was(head + d + c)>>,
                                       <<l.positions[i], d>>>>
                 /\ mem[head + d + c] = <<"second", <<GridKernel!Was(head + d), GridKernel!Was(head + d + c)>>,
                                           <<l.positions[i], d>>>>
      <3>1. PICK t : t = (o * v + hh) * c + d
        OBVIOUS
      <3>2. t \in Tasks(l) /\ RopePlace(l, t) = (o * v + hh) * m + d
            /\ RopeTurn(l, t) = <<l.positions[o + 1], d>>
        BY <1>1, <1>2, <3>1, RopePlaceIs DEF InThree
      <3>3. RopePlace(l, t) = head + d
        BY <2>2, <2>3, <3>2, Zenon
      <3>4. PICK z, y : z = head + d /\ y = head + d + c
        OBVIOUS
      <3>5. z # y
        BY <2>3, <2>4, <3>4
      <3>6. Places(l, t) = {z, y}
        BY <1>1, <1>2, <3>3, <3>4, PlacesOf, Zenon
      <3>7. mem[z] = Written(l, t, z) /\ mem[y] = Written(l, t, y)
        BY <1>1, <3>2, <3>6, AllWritten
      <3>8. RopePair(l, t) = <<GridKernel!Was(z), GridKernel!Was(y)>>
        BY <1>2, <3>3, <3>4, Zenon DEF RopePair
      <3>9. PICK f, g : f = <<"first", RopePair(l, t), RopeTurn(l, t)>>
                        /\ g = <<"second", RopePair(l, t), RopeTurn(l, t)>>
        OBVIOUS
      <3>10. \A e : Written(l, t, e) = IF e = RopePlace(l, t) THEN f ELSE g
        BY <1>1, <3>9, WrittenOf
      <3>11. mem[z] = f /\ mem[y] = g
        BY <3>3, <3>4, <3>5, <3>7, <3>10
      <3>12. QED
        BY <2>1, <3>2, <3>4, <3>8, <3>9, <3>11, Zenon
    <2>5. ASSUME m % 2 = 1 PROVE mem[head + m - 1] = GridKernel!Was(head + m - 1)
      <3>1. PICK z : z = head + m - 1
        OBVIOUS
      <3>2. m - 1 \in 0..(m - 1) /\ z = a * m + (m - 1)
        BY <1>2, <2>3, <3>1
      <3>3. z \in GridKernel!Cells(l)
        <4>1. PICK h \in Nat : h = n * v
          OBVIOUS
        <4>2. a \in 0..(h - 1)
          BY <2>2, <4>1
        <4>3. z \in 0..(h * m - 1)
          BY <3>2, <4>2, PlaceIn
        <4>4. GridKernel!Cells(l) = 0..(h * m - 1)
          BY <1>1, <1>2, <4>1, CellsOf, Zenon
        <4>5. QED
          BY <4>3, <4>4
      <3>4. ASSUME NEW t, Ran(t), z \in Places(l, t) PROVE FALSE
        <4>1. t \in Tasks(l)
          BY <1>1, <3>4 DEF Ran
        <4>2. PICK b \in 0..(n * v - 1), d \in 0..(c - 1) : Places(l, t) = {b * m + d, b * m + (d + c)}
          BY <1>1, <1>2, <4>1, RopePlaces
        <4>3. PICK j \in 0..(m - 1) : z = b * m + j /\ (j = d \/ j = d + c)
          BY <1>2, <3>4, <4>2
        <4>4. IsPlace(z, m, a, m - 1) /\ IsPlace(z, m, b, j) /\ a \in Nat /\ b \in Nat
          BY <2>2, <3>2, <4>2, <4>3 DEF IsPlace
        <4>5. m - 1 = j
          BY <3>2, <4>4, OnePlace
        <4>6. m = c + c + 1
          BY <1>2, <2>5
        <4>7. QED
          BY <4>2, <4>3, <4>5, <4>6
      <3>5. QED
        BY <1>1, <3>1, <3>3, <3>4 DEF GridInv, GridRest
    <2>6. GridKernel!Half(l) = c /\ l.head_dim = m
      BY <1>2
    <2>7. QED
      BY <2>4, <2>5, <2>6, Zenon DEF HeadTurned
  <1>4. ASSUME NEW i \in 1..l.rows, NEW hh \in 0..(l.n_heads - 1)
        PROVE  HeadTurned(l, i, (i - 1) * l.n_heads * l.head_dim + hh * l.head_dim)
    BY <1>2, <1>3
  <1>5. GridKernel!RopeTwin(l)
    BY <1>4 DEF GridKernel!RopeTwin, HeadTurned
  <1>6. QED
    BY <1>1, <1>5, Zenon

\* scatter: every element of every row, and nothing else.
LEMMA ScatterIs ==
  ASSUME GridInv, GridKernel!AllRan, launch.kernel = "paged_scatter" PROVE GridKernel!ScatterTwin(launch)
  <1>1. PICK l \in Launches : l = launch
    BY DEF GridInv, GridShape
  <1>2. PICK n \in Nat, c \in Nat \ {0} : n = l.n /\ c = l.kv_dim
    BY <1>1, TableOf
  <1>3. ASSUME NEW y \in 0..(n - 1), NEW e \in 0..(c - 1)
        PROVE  /\ mem[GridKernel!PagedCell(l, l.start + y, e)] = <<"src", y * c + e>>
    <2>1. PICK t : t = y * c + e
      OBVIOUS
    <2>2. /\ t \in Tasks(l) /\ t \div c = y /\ t % c = e
          /\ ScatterPlace(l, t) = GridKernel!PagedCell(l, l.start + y, e)
      BY <1>1, <1>2, <2>1, ScatterPlaceIs
    <2>3. Places(l, t) = {ScatterPlace(l, t)}
      BY <1>1, PlacesOf
    <2>4. mem[ScatterPlace(l, t)] = Written(l, t, ScatterPlace(l, t))
      BY <1>1, <2>2, <2>3, AllWritten
    <2>5. Written(l, t, ScatterPlace(l, t)) = <<"src", (t \div c) * c + (t % c)>>
      BY <1>1, <1>2, WrittenOf
    <2>6. QED
      BY <2>2, <2>4, <2>5, Zenon
  <1>4. ASSUME NEW z \in DOMAIN mem,
               \A y \in 0..(l.n - 1) : \A e \in 0..(l.kv_dim - 1) : z # GridKernel!PagedCell(l, l.start + y, e)
        PROVE  mem[z] = GridKernel!Was(z)
    BY <1>1, <1>4, ScatterTask, ScatterPlaceIs, PlacesOf DEF GridInv, GridShape, Ran, GridRest
  <1>5. \A y \in 0..(l.n - 1) : \A e \in 0..(l.kv_dim - 1) :
          mem[GridKernel!PagedCell(l, l.start + y, e)] = <<"src", y * l.kv_dim + e>>
    BY <1>2, <1>3
  <1> DEFINE RowPlaces(y) == [e \in 0..(l.kv_dim - 1) |-> GridKernel!PagedCell(l, l.start + y, e)]
             Moved == UNION {{RowPlaces(y)[e] : e \in 0..(l.kv_dim - 1)} : y \in 0..(l.n - 1)}
  <1>6. \A y \in 0..(l.n - 1), e \in 0..(l.kv_dim - 1) : mem[RowPlaces(y)[e]] = <<"src", y * l.kv_dim + e>>
    BY <1>5
  <1>7. ASSUME NEW z \in DOMAIN mem \ Moved PROVE mem[z] = GridKernel!Was(z)
    <2>1. ASSUME NEW y \in 0..(l.n - 1), NEW e \in 0..(l.kv_dim - 1) PROVE z # GridKernel!PagedCell(l, l.start + y, e)
      <3>1. RowPlaces(y)[e] \in {RowPlaces(y)[f] : f \in 0..(l.kv_dim - 1)}
        OBVIOUS
      <3>2. RowPlaces(y)[e] = GridKernel!PagedCell(l, l.start + y, e)
        OBVIOUS
      <3> HIDE DEF RowPlaces
      <3>3. RowPlaces(y)[e] \in Moved
        BY <3>1
      <3>4. QED
        BY <1>7, <3>2, <3>3
    <2>2. QED
      BY <1>4, <1>7, <2>1
  <1>8. \A z \in DOMAIN mem \ Moved : mem[z] = GridKernel!Was(z)
    BY <1>7
  <1>9. GridKernel!ScatterTwin(l)
    BY <1>6, <1>8, Zenon DEF GridKernel!ScatterTwin
  <1>10. QED
    BY <1>1, <1>9, Zenon

-----------------------------------------------------------------------------
(* The online softmax is the two-pass softmax. *)

\* The greatest of the first scores, the weight of each, and their weighted sum.
Top(s, j) == GridKernel!Max({s[i] : i \in 0..j})
KeyWeights(s, u, j, top) == [i \in 0..j |-> GridKernel!Exp(s[i], top) * u[i]]
Softmax(s, u, j) == Total(KeyWeights(s, u, j, Top(s, j)), 0..j)

\* Scores that differ by no more than Span.
Scores(s, n) == \A i \in 0..n : s[i] \in Int /\ \A j \in 0..n : s[i] - s[j] <= Span

\* The greatest score is one of them.
LEMMA TopIs ==
  ASSUME NEW n \in Nat, NEW s, \A i \in 0..n : s[i] \in Int
  PROVE  /\ Top(s, n) \in Int /\ \E k \in 0..n : Top(s, n) = s[k]
         /\ \A i \in 0..n : s[i] <= Top(s, n)
  <1> DEFINE V == {s[i] : i \in 0..n}
  <1>1. PICK k \in 0..n : \A j \in 0..n : s[j] <= s[k]
    BY GreatestOf
  <1>2. s[k] \in V /\ \A e \in V : s[k] >= e
    BY <1>1
  <1>3. PICK m : m = CHOOSE e \in V : \A z \in V : e >= z
    OBVIOUS
  <1>4. m \in V /\ \A z \in V : m >= z
    <2> HIDE DEF V
    <2>1. QED
      BY <1>2, <1>3
  <1>5. m = Top(s, n)
    BY <1>3 DEF Top, GridKernel!Max
  <1>6. QED
    BY <1>4, <1>5

\* The greatest of one score more.
LEMMA TopNext ==
  ASSUME NEW n \in Nat, NEW s, \A i \in 0..(n + 1) : s[i] \in Int
  PROVE  Top(s, n + 1) = IF s[n + 1] > Top(s, n) THEN s[n + 1] ELSE Top(s, n)
  BY TopIs

\* The greatest of one score.
LEMMA TopFirst ==
  ASSUME NEW s, s[0] \in Int PROVE Top(s, 0) = s[0]
  BY TopIs

\* A multiple of a power is divided by it exactly.
LEMMA DividesBack ==
  ASSUME NEW p \in Nat \ {0}, NEW z \in Int PROVE (p * z) \div p = z
  BY SMTT(30)

\* A larger maximum makes every weight smaller by the same power.
LEMMA WeightShrinks ==
  ASSUME Span \in Nat, NEW n \in Nat, NEW s, Scores(s, n), NEW i \in 0..n,
         NEW a \in Int, NEW b \in Int, a <= b, NEW k \in 0..n, b = s[k]
  PROVE  /\ GridKernel!Exp(s[i], b) \in Nat \ {0} /\ 2^(b - a) \in Nat \ {0}
         /\ GridKernel!Exp(s[i], a) = 2^(b - a) * GridKernel!Exp(s[i], b)
  <1>1. PICK e \in Int : e = s[i]
    BY DEF Scores
  <1>2. b - e <= Span
    BY <1>1 DEF Scores
  <1>3. PICK f \in Nat : f = Span + e - b
    BY <1>1, <1>2
  <1>4. PICK g \in Nat : g = b - a
    OBVIOUS
  <1>5. Span + e - a = g + f
    BY <1>1, <1>3, <1>4
  <1>6. 2^f \in Nat \ {0} /\ 2^g \in Nat \ {0}
    BY PowPositive
  <1>7. 2^(g + f) = 2^g * 2^f
    BY PowAdd
  <1>8. GridKernel!Exp(e, a) = 2^(g + f) /\ GridKernel!Exp(e, b) = 2^f
    BY <1>3, <1>5, Zenon DEF GridKernel!Exp
  <1>9. QED
    BY <1>1, <1>4, <1>6, <1>7, <1>8, Zenon

\* The sums of one key more: the old ones shrink to the new maximum.
LEMMA SoftmaxNext ==
  ASSUME Span \in Nat, NEW n \in Nat, NEW s, Scores(s, n + 1), NEW u, \A i \in 0..(n + 1) : u[i] \in Int
  PROVE  Softmax(s, u, n + 1)
           = GridKernel!Shrink(Softmax(s, u, n), Top(s, n), Top(s, n + 1))
             + GridKernel!Exp(s[n + 1], Top(s, n + 1)) * u[n + 1]
  <1>1. n + 1 \in Nat /\ 0..n \subseteq 0..(n + 1) /\ n + 1 \in 0..(n + 1)
    OBVIOUS
  <1>2. \A i \in 0..(n + 1) : s[i] \in Int
    BY DEF Scores
  <1>3. PICK a \in Int : a = Top(s, n)
    BY <1>1, <1>2, TopIs
  <1>4. PICK b \in Int, k \in 0..(n + 1) : b = Top(s, n + 1) /\ b = s[k]
    BY <1>1, <1>2, TopIs
  <1>5. a <= b
    BY <1>1, <1>2, <1>3, <1>4, TopNext
  <1>6. PICK p \in Nat \ {0} : p = 2^(b - a)
    BY <1>5, PowPositive
  <1>7. PICK v : v = KeyWeights(s, u, n + 1, b)
    OBVIOUS
  <1>8. PICK z : z = KeyWeights(s, u, n, a)
    OBVIOUS
  <1>9. ASSUME NEW i \in 0..(n + 1)
        PROVE  v[i] = GridKernel!Exp(s[i], b) * u[i] /\ v[i] \in Int /\ GridKernel!Exp(s[i], b) \in Nat
    <2>1. GridKernel!Exp(s[i], b) \in Nat
      BY <1>1, <1>3, <1>4, <1>5, WeightShrinks
    <2>2. v[i] = GridKernel!Exp(s[i], b) * u[i]
      BY <1>7 DEF KeyWeights
    <2>3. QED
      BY <2>1, <2>2
  <1>21. PICK o \in Int : o = 0
    OBVIOUS
  <1>10. ASSUME NEW i \in 0..n PROVE z[i] = p * v[i] + o * v[i]
    <2>1. i \in 0..(n + 1)
      BY <1>1
    <2>2. GridKernel!Exp(s[i], a) = p * GridKernel!Exp(s[i], b)
      BY <1>1, <1>3, <1>4, <1>5, <1>6, <2>1, WeightShrinks
    <2>3. z[i] = GridKernel!Exp(s[i], a) * u[i]
      BY <1>8 DEF KeyWeights
    <2>4. PICK e \in Nat, g \in Int : e = GridKernel!Exp(s[i], b) /\ g = u[i]
      BY <1>9, <2>1
    <2>5. z[i] = (p * e) * g /\ v[i] = e * g
      BY <1>9, <2>1, <2>2, <2>3, <2>4
    <2>6. (p * e) * g = p * (e * g) + o * (e * g)
      BY <1>21, SMT
    <2>7. QED
      BY <2>5, <2>6
  <1>11. IsFiniteSet(0..n) /\ IsFiniteSet(0..(n + 1))
    BY <1>1, FS_Interval
  <1>12. PICK t \in Int : t = Total(v, 0..n)
    BY <1>1, <1>9, <1>11, TotalInt
  <1>13. Total(z, 0..n) = p * t + o * t
    <2>1. PICK S : S = 0..n
      OBVIOUS
    <2>2. p \in Int /\ IsFiniteSet(S)
      BY <1>11, <2>1
    <2>3. \A e \in S : v[e] \in Int /\ v[e] \in Int /\ z[e] = p * v[e] + o * v[e]
      BY <1>1, <1>9, <1>10, <2>1
    <2>4. Total(z, S) = p * Total(v, S) + o * Total(v, S)
      BY <2>2, <2>3, TotalLinear
    <2>5. QED
      BY <1>12, <2>1, <2>4, Zenon
  <1>14. Total(z, 0..n) \div p = t
    BY <1>13, <1>21, DividesBack
  <1>15. Total(v, 0..(n + 1)) = v[n + 1] + t
    <2>1. (0..(n + 1)) \ {n + 1} = 0..n
      OBVIOUS
    <2>2. Total(v, 0..(n + 1)) = v[n + 1] + Total(v, (0..(n + 1)) \ {n + 1})
      BY <1>1, <1>9, <1>11, TotalStep
    <2>3. QED
      BY <1>12, <2>1, <2>2
  <1>16. GridKernel!Shrink(Softmax(s, u, n), Top(s, n), Top(s, n + 1)) = t
    BY <1>3, <1>4, <1>6, <1>8, <1>14, Zenon DEF GridKernel!Shrink, Softmax
  <1>17. Softmax(s, u, n + 1) = Total(v, 0..(n + 1))
    BY <1>4, <1>7, Zenon DEF Softmax
  <1>18. v[n + 1] = GridKernel!Exp(s[n + 1], Top(s, n + 1)) * u[n + 1]
    BY <1>1, <1>4, <1>9
  <1>19. v[n + 1] \in Int
    BY <1>1, <1>9
  <1>20. QED
    BY <1>12, <1>15, <1>16, <1>17, <1>18, <1>19

\* The sum of the first key.
LEMMA SoftmaxFirst ==
  ASSUME Span \in Nat, NEW s, s[0] \in Int, NEW u, u[0] \in Int
  PROVE  Softmax(s, u, 0) = GridKernel!Exp(0, 0) * u[0]
  <1>1. Top(s, 0) = s[0]
    BY TopFirst
  <1>2. PICK a \in Int : a = s[0]
    OBVIOUS
  <1>3. GridKernel!Exp(a, a) = GridKernel!Exp(0, 0)
    BY DEF GridKernel!Exp
  <1>4. PICK v : v = KeyWeights(s, u, 0, a)
    OBVIOUS
  <1>5. v[0] = GridKernel!Exp(0, 0) * u[0]
    BY <1>2, <1>3, <1>4 DEF KeyWeights
  <1>6. v[0] \in Int
    BY <1>5, PowPositive DEF GridKernel!Exp
  <1>7. 0..0 = {0} /\ IsFiniteSet({0}) /\ IsFiniteSet({}) /\ {0} \ {0} = {}
    BY FS_Singleton, FS_EmptySet
  <1>8. Total(v, {0}) = v[0] + Total(v, {})
    BY <1>6, <1>7, TotalStep
  <1>9. Total(v, {}) = 0
    BY <1>7, TotalOf
  <1>10. Softmax(s, u, 0) = Total(v, 0..0)
    BY <1>1, <1>2, <1>4, Zenon DEF Softmax
  <1>11. QED
    BY <1>5, <1>6, <1>7, <1>8, <1>9, <1>10

\* The key head of a head.
KeyHead(l, h) == h \div (l.n_heads \div l.n_kv_heads)

\* A head reads one of the key heads.
LEMMA KeyHeadIn ==
  ASSUME NEW l \in Launches, l.kernel = "attention", NEW h \in 0..(l.n_heads - 1)
  PROVE  KeyHead(l, h) \in 0..(l.n_kv_heads - 1)
  <1>1. PICK n \in Nat \ {0}, z \in Nat \ {0} : n = l.n_heads /\ z = l.n_kv_heads
    BY ShapeOf
  <1>2. n % z = 0
    BY <1>1, LaunchFits DEF GridKernel!Fits
  <1>3. PICK per \in Nat \ {0} : per = n \div z /\ n = z * per
    BY <1>2, Divided
  <1>4. h \in 0..(z * per - 1)
    BY <1>1, <1>3
  <1>5. PICK o \in 0..(z - 1), i \in 0..(per - 1) : h = o * per + i
    BY <1>4, PlaceOf
  <1>6. h \div per = o
    BY <1>5, Place
  <1>7. KeyHead(l, h) = h \div per
    BY <1>1, <1>3, Zenon DEF KeyHead
  <1>8. QED
    BY <1>1, <1>6, <1>7

\* The data of an attention, and its scores.
LEMMA AttentionFits ==
  ASSUME NEW l \in Launches, l.kernel = "attention"
  PROVE  /\ GridKernel!Data(l.q, l.q_len * l.n_heads * l.head_dim)
         /\ GridKernel!Data(l.k, (l.query_offset + l.q_len) * l.n_kv_heads * l.head_dim)
         /\ GridKernel!Data(l.v, (l.query_offset + l.q_len) * l.n_kv_heads * l.head_dim)
         /\ \A h \in 0..(l.n_heads - 1), i \in 0..(l.q_len - 1) :
              \A a, b \in 0..(l.query_offset + i) :
                GridKernel!Score(l, i, h, a, KeyHead(l, h)) - GridKernel!Score(l, i, h, b, KeyHead(l, h)) <= Span
  BY LaunchFits DEF GridKernel!Fits, KeyHead

\* The products that make a score.
ScoreTerms(l, i, h, j, kvh) ==
    [d \in 0..(l.head_dim - 1) |-> l.q[i * l.n_heads * l.head_dim + h * l.head_dim + d]
                                   * l.k[j * l.n_kv_heads * l.head_dim + kvh * l.head_dim + d]]

\* A score is their sum.
LEMMA ScoreIs ==
  ASSUME NEW l, NEW i, NEW h, NEW j, NEW kvh, l.head_dim \in Nat
  PROVE  GridKernel!Score(l, i, h, j, kvh) = Total(ScoreTerms(l, i, h, j, kvh), 0..(l.head_dim - 1))
  <1> DEFINE S == 0..(l.head_dim - 1)
             v == ScoreTerms(l, i, h, j, kvh)
             term(d) == l.q[i * l.n_heads * l.head_dim + h * l.head_dim + d]
                        * l.k[j * l.n_kv_heads * l.head_dim + kvh * l.head_dim + d]
             F(g) == [s \in SUBSET S |->
                        IF s = {} THEN 0
                        ELSE term(CHOOSE e \in s : TRUE) + g[s \ {CHOOSE e \in s : TRUE}]]
             C == CHOOSE g : g = F(g)
  <1>1. GridKernel!Score(l, i, h, j, kvh) = C[S]
    BY Zenon DEF GridKernel!Score, GridKernel!MapThenSumSet, GridKernel!MapThenFoldSet
  <1>2. IsFiniteSet(S)
    BY FS_Interval
  <1>3. \A d \in S : v[d] = term(d)
    BY DEF ScoreTerms
  <1> HIDE DEF v, term, S
  <1>4. ASSUME NEW s \in SUBSET S, s # {} PROVE v[Pick(s)] = term(Pick(s))
    BY <1>3, <1>4, PickOf
  <1>5. ASSUME NEW g PROVE g = F(g) <=> SumOf(v, g, S)
    <2>1. F(g) = [s \in SUBSET S |-> IF s = {} THEN 0 ELSE v[Pick(s)] + g[s \ {Pick(s)}]]
      BY <1>4 DEF Pick
    <2> HIDE DEF F
    <2>2. QED
      BY <2>1, Zenon DEF SumOf
  <1>6. \E g : SumOf(v, g, S)
    BY <1>2, SumExists
  <1> HIDE DEF F
  <1>7. C = F(C)
    BY <1>5, <1>6, Zenon
  <1> DEFINE D == CHOOSE g : SumOf(v, g, S)
  <1>8. SumOf(v, C, S) /\ SumOf(v, D, S)
    BY <1>5, <1>6, <1>7, Zenon
  <1>9. Total(v, S) = D[S] /\ S \subseteq S
    BY DEF Total
  <1> HIDE DEF C, D
  <1>10. C[S] = D[S]
    BY <1>2, <1>8, <1>9, SumUnique
  <1>11. QED
    BY <1>1, <1>9, <1>10 DEF v, S

\* Scores are integers, and so are the elements of the values.
LEMMA ScoreInt ==
  ASSUME NEW l \in Launches, l.kernel = "attention", NEW h \in 0..(l.n_heads - 1),
         NEW i \in 0..(l.q_len - 1), NEW j \in 0..(l.query_offset + i)
  PROVE  /\ GridKernel!Score(l, i, h, j, KeyHead(l, h)) \in Int
         /\ \A d \in 0..(l.head_dim - 1) : GridKernel!Value(l, j, KeyHead(l, h), d) \in Int
  <1>1. PICK c \in Nat \ {0}, n \in Nat \ {0}, z \in Nat \ {0}, m \in Nat \ {0}, o \in Nat :
          c = l.q_len /\ n = l.n_heads /\ z = l.n_kv_heads /\ m = l.head_dim /\ o = l.query_offset
    BY ShapeOf
  <1>2. PICK y \in 0..(z - 1) : y = KeyHead(l, h)
    BY <1>1, KeyHeadIn
  <1>3. PICK b \in Nat : b = o + c
    OBVIOUS
  <1>4. j \in 0..(b - 1) /\ i \in 0..(c - 1) /\ h \in 0..(n - 1) /\ i \in Nat /\ j \in Nat /\ h \in Nat
    BY <1>1, <1>3
  <1>5. ASSUME NEW d \in 0..(m - 1)
        PROVE  /\ l.q[i * n * m + h * m + d] \in Int /\ l.k[j * z * m + y * m + d] \in Int
               /\ l.v[j * z * m + y * m + d] \in Int
    <2>1. PICK a \in 0..(c * n * m - 1) : a = i * n * m + h * m + d
      BY <1>4, AllInThree
    <2>2. PICK e \in 0..(b * z * m - 1) : e = j * z * m + y * m + d
      BY <1>4, AllInThree
    <2>3. GridKernel!Data(l.q, c * n * m) /\ GridKernel!Data(l.k, b * z * m) /\ GridKernel!Data(l.v, b * z * m)
      BY <1>1, <1>3, AttentionFits, Zenon
    <2>4. l.q[a] \in Int /\ l.k[e] \in Int /\ l.v[e] \in Int
      BY <2>3, Zenon DEF GridKernel!Data
    <2>5. QED
      BY <2>1, <2>2, <2>4, Zenon
  <1>6. PICK v : v = ScoreTerms(l, i, h, j, y)
    OBVIOUS
  <1>7. ASSUME NEW d \in 0..(m - 1) PROVE v[d] \in Int
    <2>1. v[d] = l.q[i * n * m + h * m + d] * l.k[j * z * m + y * m + d]
      BY <1>1, <1>6 DEF ScoreTerms
    <2>2. PICK e \in Int, f \in Int : e = l.q[i * n * m + h * m + d] /\ f = l.k[j * z * m + y * m + d]
      BY <1>5, Zenon
    <2>3. v[d] = e * f
      BY <2>1, <2>2, Zenon
    <2>4. QED
      BY <2>3
  <1>8. GridKernel!Score(l, i, h, j, y) \in Int
    <2>1. IsFiniteSet(0..(m - 1))
      BY FS_Interval
    <2>2. GridKernel!Score(l, i, h, j, y) = Total(v, 0..(m - 1))
      BY <1>1, <1>6, ScoreIs
    <2>3. QED
      BY <1>7, <2>1, <2>2, TotalInt
  <1>9. ASSUME NEW d \in 0..(l.head_dim - 1) PROVE GridKernel!Value(l, j, y, d) \in Int
    BY <1>1, <1>5, <1>9 DEF GridKernel!Value
  <1>10. QED
    BY <1>2, <1>8, <1>9

\* The scores of a query and a head, the elements of the values, and ones.
ScoresOf(l, i, h) == [j \in 0..(l.query_offset + i) |-> GridKernel!Score(l, i, h, j, KeyHead(l, h))]
ValuesOf(l, i, h, d) == [j \in 0..(l.query_offset + i) |-> GridKernel!Value(l, j, KeyHead(l, h), d)]
Ones(n) == [j \in 0..n |-> 1]

\* What the recursion of the kernel computes: after[j] from after[j - 1].
AfterKey(l, i, h, after, j) ==
    LET kvh == h \div (l.n_heads \div l.n_kv_heads)
        Dims == 0..(l.head_dim - 1)
        dot == GridKernel!Score(l, i, h, j, kvh)
        was == after[j - 1]
        max == IF dot > was.max THEN dot ELSE was.max
        weight == GridKernel!Exp(dot, max)
    IN IF j = 0 THEN [max |-> dot, sum |-> GridKernel!Exp(0, 0),
                      acc |-> [d \in Dims |-> GridKernel!Exp(0, 0) * GridKernel!Value(l, 0, kvh, d)]]
       ELSE [max |-> max, sum |-> GridKernel!Shrink(was.sum, was.max, max) + weight,
             acc |-> [d \in Dims |-> GridKernel!Shrink(was.acc[d], was.max, max)
                                     + weight * GridKernel!Value(l, j, kvh, d)]]

\* The sums of the two passes over the keys up to j.
TwoPass(l, i, h, j) ==
    [max |-> Top(ScoresOf(l, i, h), j), sum |-> Softmax(ScoresOf(l, i, h), Ones(l.query_offset + i), j),
     acc |-> [d \in 0..(l.head_dim - 1) |-> Softmax(ScoresOf(l, i, h), ValuesOf(l, i, h, d), j)]]

\* One more key keeps the recursion at the sums of the two passes.
LEMMA AfterKeyIs ==
  ASSUME NEW l \in Launches, l.kernel = "attention", NEW h \in 0..(l.n_heads - 1),
         NEW i \in 0..(l.q_len - 1), NEW j \in 0..(l.query_offset + i), NEW after,
         j # 0 => after[j - 1] = TwoPass(l, i, h, j - 1)
  PROVE  AfterKey(l, i, h, after, j) = TwoPass(l, i, h, j)
  <1>1. PICK o \in Nat, m \in Nat : o = l.query_offset + i /\ m = l.head_dim
    BY ShapeOf
  <1>2. PICK s : s = ScoresOf(l, i, h)
    OBVIOUS
  <1>3. PICK one : one = Ones(o)
    OBVIOUS
  <1>4. Span \in Nat
    BY OperatorsAssumption, Zenon DEF GridKernel!LaunchesAssumption
  <1>5. \A k \in 0..o : s[k] = GridKernel!Score(l, i, h, k, KeyHead(l, h)) /\ s[k] \in Int
    BY <1>1, <1>2, ScoreInt DEF ScoresOf
  <1>6. ASSUME NEW n \in 0..o PROVE Scores(s, n)
    BY <1>1, <1>5, AttentionFits DEF Scores
  <1>7. \A k \in 0..o : one[k] = 1
    BY <1>3 DEF Ones
  <1>8. \A d \in 0..(m - 1) : \A k \in 0..o :
          ValuesOf(l, i, h, d)[k] = GridKernel!Value(l, k, KeyHead(l, h), d) /\ ValuesOf(l, i, h, d)[k] \in Int
    BY <1>1, ScoreInt DEF ValuesOf
  <1>9. PICK f : f = GridKernel!Exp(0, 0)
    OBVIOUS
  <1>10. CASE j = 0
    <2>1. AfterKey(l, i, h, after, j)
            = [max |-> GridKernel!Score(l, i, h, 0, KeyHead(l, h)), sum |-> f,
               acc |-> [d \in 0..(l.head_dim - 1) |-> f * GridKernel!Value(l, 0, KeyHead(l, h), d)]]
      BY <1>9, <1>10 DEF AfterKey, KeyHead
    <2>2. 0 \in 0..o
      BY <1>1
    <2>3. Top(s, 0) = GridKernel!Score(l, i, h, 0, KeyHead(l, h))
      BY <1>5, <2>2, TopFirst
    <2>4. f \in Nat
      BY <1>4, <1>9, PowPositive DEF GridKernel!Exp
    <2>5. Softmax(s, one, 0) = f
      BY <1>4, <1>5, <1>7, <1>9, <2>2, <2>4, SoftmaxFirst
    <2>6. ASSUME NEW d \in 0..(m - 1)
          PROVE  Softmax(s, ValuesOf(l, i, h, d), 0) = f * GridKernel!Value(l, 0, KeyHead(l, h), d)
      BY <1>4, <1>5, <1>8, <1>9, <2>2, <2>6, SoftmaxFirst
    <2>7. [d \in 0..(m - 1) |-> Softmax(s, ValuesOf(l, i, h, d), 0)]
            = [d \in 0..(m - 1) |-> f * GridKernel!Value(l, 0, KeyHead(l, h), d)]
      BY <2>6
    <2>8. TwoPass(l, i, h, 0)
            = [max |-> Top(s, 0), sum |-> Softmax(s, one, 0),
               acc |-> [d \in 0..(m - 1) |-> Softmax(s, ValuesOf(l, i, h, d), 0)]]
      BY <1>1, <1>2, <1>3, Zenon DEF TwoPass
    <2>9. QED
      BY <1>1, <1>10, <2>1, <2>3, <2>5, <2>7, <2>8, Zenon
  <1>11. CASE j # 0
    <2>1. PICK n \in Nat : n = j - 1 /\ j = n + 1 /\ n \in 0..o /\ n + 1 \in 0..o
      BY <1>1, <1>11
    <2>2. PICK a, b : a = Top(s, n) /\ b = Top(s, n + 1)
      OBVIOUS
    <2>3. \A k \in 0..(n + 1) : k \in 0..o /\ s[k] \in Int
      BY <1>5, <2>1
    <2>4. b = IF s[n + 1] > a THEN s[n + 1] ELSE a
      BY <2>2, <2>3, TopNext
    <2>5. PICK y : y = TwoPass(l, i, h, n)
      OBVIOUS
    <2>6. /\ y.max = a /\ y.sum = Softmax(s, one, n)
          /\ \A d \in 0..(m - 1) : y.acc[d] = Softmax(s, ValuesOf(l, i, h, d), n)
      BY <1>1, <1>2, <1>3, <2>2, <2>5 DEF TwoPass
    <2>7. after[j - 1] = y
      BY <1>11, <2>1, <2>5
    <2>8. PICK e : e = GridKernel!Exp(s[n + 1], b)
      OBVIOUS
    <2>9. AfterKey(l, i, h, after, j)
            = [max |-> b, sum |-> GridKernel!Shrink(y.sum, a, b) + e,
               acc |-> [d \in 0..(m - 1) |-> GridKernel!Shrink(y.acc[d], a, b)
                                             + e * GridKernel!Value(l, j, KeyHead(l, h), d)]]
      <3>1. s[n + 1] = GridKernel!Score(l, i, h, j, h \div (l.n_heads \div l.n_kv_heads))
        BY <1>5, <2>1 DEF KeyHead
      <3>2. PICK dot : dot = s[n + 1]
        OBVIOUS
      <3>3. b = IF dot > y.max THEN dot ELSE y.max
        BY <2>4, <2>6, <3>2
      <3>4. AfterKey(l, i, h, after, j)
              = LET max == IF dot > y.max THEN dot ELSE y.max
                    weight == GridKernel!Exp(dot, max)
                IN [max |-> max, sum |-> GridKernel!Shrink(y.sum, y.max, max) + weight,
                    acc |-> [d \in 0..(l.head_dim - 1) |-> GridKernel!Shrink(y.acc[d], y.max, max)
                               + weight * GridKernel!Value(l, j, h \div (l.n_heads \div l.n_kv_heads), d)]]
        BY <1>11, <2>7, <3>1, <3>2, Zenon DEF AfterKey
      <3>5. QED
        BY <1>1, <2>6, <2>8, <3>2, <3>3, <3>4, Zenon DEF KeyHead
    <2>10. ASSUME NEW u, \A k \in 0..o : u[k] \in Int
           PROVE  Softmax(s, u, n + 1) = GridKernel!Shrink(Softmax(s, u, n), a, b) + e * u[n + 1]
      <3>1. Scores(s, n + 1)
        BY <1>6, <2>1
      <3>2. \A k \in 0..(n + 1) : u[k] \in Int
        BY <2>3, <2>10
      <3>3. QED
        BY <1>4, <2>1, <2>2, <2>8, <3>1, <3>2, SoftmaxNext
    <2>11. e \in Nat
      <3>1. Top(s, n + 1) \in Int /\ \E k \in 0..(n + 1) : Top(s, n + 1) = s[k]
        BY <2>1, <2>3, TopIs
      <3>2. Scores(s, n + 1) /\ n + 1 \in 0..(n + 1) /\ n + 1 \in Nat
        BY <1>6, <2>1
      <3>3. PICK k \in 0..(n + 1) : b = s[k] /\ b \in Int
        BY <2>2, <3>1
      <3>4. b <= b
        BY <3>3
      <3>5. GridKernel!Exp(s[n + 1], b) \in Nat \ {0}
        BY <1>4, <3>2, <3>3, <3>4, WeightShrinks
      <3>6. QED
        BY <2>8, <3>5
    <2>12. Softmax(s, one, n + 1) = GridKernel!Shrink(y.sum, a, b) + e
      BY <1>7, <2>1, <2>6, <2>10, <2>11
    <2>13. ASSUME NEW d \in 0..(m - 1)
           PROVE  Softmax(s, ValuesOf(l, i, h, d), n + 1)
                    = GridKernel!Shrink(y.acc[d], a, b) + e * GridKernel!Value(l, j, KeyHead(l, h), d)
      BY <1>8, <2>1, <2>6, <2>10, <2>13
    <2>14. [d \in 0..(m - 1) |-> Softmax(s, ValuesOf(l, i, h, d), n + 1)]
             = [d \in 0..(m - 1) |-> GridKernel!Shrink(y.acc[d], a, b)
                                     + e * GridKernel!Value(l, j, KeyHead(l, h), d)]
      BY <2>13
    <2>15. TwoPass(l, i, h, n + 1)
             = [max |-> Top(s, n + 1), sum |-> Softmax(s, one, n + 1),
                acc |-> [d \in 0..(m - 1) |-> Softmax(s, ValuesOf(l, i, h, d), n + 1)]]
      BY <1>1, <1>2, <1>3, Zenon DEF TwoPass
    <2>16. QED
      BY <2>1, <2>2, <2>9, <2>12, <2>14, <2>15, Zenon
  <1>12. QED
    BY <1>10, <1>11

\* The online softmax is the sums of the two passes.
LEMMA OnlineIs ==
  ASSUME NEW l \in Launches, l.kernel = "attention", NEW h \in 0..(l.n_heads - 1),
         NEW i \in 0..(l.q_len - 1)
  PROVE  GridKernel!Online(l, i, h, l.query_offset + i) = TwoPass(l, i, h, l.query_offset + i)
  <1>1. PICK o \in Nat : o = l.query_offset + i
    BY ShapeOf
  <1> DEFINE F(g) == [j \in 0..o |-> AfterKey(l, i, h, g, j)]
             C == CHOOSE g : g = F(g)
             G == [j \in 0..o |-> TwoPass(l, i, h, j)]
  <1>2. GridKernel!Online(l, i, h, o) = C[o]
    BY Zenon DEF GridKernel!Online, AfterKey
  <1>3. G = F(G)
    <2>1. ASSUME NEW j \in 0..o PROVE TwoPass(l, i, h, j) = AfterKey(l, i, h, G, j)
      <3>1. j # 0 => G[j - 1] = TwoPass(l, i, h, j - 1)
        OBVIOUS
      <3> HIDE DEF G
      <3>2. QED
        BY <1>1, <2>1, <3>1, AfterKeyIs
    <2> DEFINE T == [j \in 0..o |-> AfterKey(l, i, h, G, j)]
    <2>2. G = T
      <3> DEFINE A(j) == AfterKey(l, i, h, G, j)
      <3>1. \A j \in 0..o : TwoPass(l, i, h, j) = A(j)
        BY <2>1
      <3> HIDE DEF A
      <3>2. G = [j \in 0..o |-> A(j)]
        BY <3>1
      <3>3. QED
        BY <3>2 DEF A
    <2>3. QED
      BY <2>2
  <1> HIDE DEF G, F
  <1>4. C = F(C)
    BY <1>3
  <1> DEFINE P == {n \in Nat : n <= o => C[n] = TwoPass(l, i, h, n)}
  <1>5. ASSUME NEW n \in 0..o, n # 0 => C[n - 1] = TwoPass(l, i, h, n - 1)
        PROVE  C[n] = TwoPass(l, i, h, n)
    <2> HIDE DEF C
    <2>1. C[n] = AfterKey(l, i, h, C, n)
      BY <1>4 DEF F
    <2>2. QED
      BY <1>1, <1>5, <2>1, AfterKeyIs
  <1> HIDE DEF C
  <1>6. 0 \in P
    BY <1>5
  <1>7. ASSUME NEW n \in Nat, n \in P PROVE n + 1 \in P
    BY <1>5, <1>7
  <1> HIDE DEF P
  <1>8. o \in P
    BY <1>6, <1>7, Induct
  <1>9. C[o] = TwoPass(l, i, h, o)
    BY <1>8 DEF P
  <1>10. QED
    BY <1>1, <1>2, <1>9, Zenon

-----------------------------------------------------------------------------
(* The attention of the CPU twin is the two passes. *)

\* The sums of the twin over some keys, for given scores and their greatest.
TwinSum(s, top, keys) ==
    GridKernel!MapThenSumSet(LAMBDA j : GridKernel!Exp(s[j], top), keys)
TwinAcc(l, kvh, d, s, top, keys) ==
    GridKernel!MapThenSumSet(LAMBDA j : GridKernel!Exp(s[j], top) * GridKernel!Value(l, j, kvh, d), keys)

\* What the twin says of one query and head, for its scores.
HeadTwin(l, i, h, s) ==
    LET kvh == h \div (l.n_heads \div l.n_kv_heads)
        keys == 0..(l.query_offset + i)
        greatest == GridKernel!Max({s[j] : j \in keys})
    IN \A d \in 0..(l.head_dim - 1) :
         mem[i * l.n_heads * l.head_dim + h * l.head_dim + d]
           = <<"head", TwinAcc(l, kvh, d, s, greatest, keys), TwinSum(s, greatest, keys)>>

\* The twin says it of every query and head.
LEMMA AttentionTwinIs ==
  ASSUME NEW l,
         \A h \in 0..(l.n_heads - 1), i \in 0..(l.q_len - 1) :
           HeadTwin(l, i, h, [j \in 0..(l.query_offset + i) |->
                       GridKernel!Score(l, i, h, j, h \div (l.n_heads \div l.n_kv_heads))])
  PROVE  GridKernel!AttentionTwin(l)
  BY Zenon DEF GridKernel!AttentionTwin, HeadTwin, TwinAcc, TwinSum

\* The sum of the weights.
LEMMA TwinSumIs ==
  ASSUME NEW S, IsFiniteSet(S), NEW s, NEW top
  PROVE  TwinSum(s, top, S) = Total([j \in S |-> GridKernel!Exp(s[j], top)], S)
  <1> DEFINE term(j) == GridKernel!Exp(s[j], top)
             v == [j \in S |-> term(j)]
             F(g) == [a \in SUBSET S |->
                        IF a = {} THEN 0
                        ELSE term(CHOOSE e \in a : TRUE) + g[a \ {CHOOSE e \in a : TRUE}]]
             C == CHOOSE g : g = F(g)
  <1>1. TwinSum(s, top, S) = C[S]
    BY Zenon DEF TwinSum, GridKernel!MapThenSumSet, GridKernel!MapThenFoldSet
  <1>3. \A j \in S : v[j] = term(j)
    OBVIOUS
  <1> HIDE DEF v, term
  <1>4. ASSUME NEW a \in SUBSET S, a # {} PROVE v[Pick(a)] = term(Pick(a))
    BY <1>3, <1>4, PickOf
  <1>5. ASSUME NEW g PROVE g = F(g) <=> SumOf(v, g, S)
    <2>1. F(g) = [a \in SUBSET S |-> IF a = {} THEN 0 ELSE v[Pick(a)] + g[a \ {Pick(a)}]]
      BY <1>4 DEF Pick
    <2> HIDE DEF F
    <2>2. QED
      BY <2>1, Zenon DEF SumOf
  <1>6. \E g : SumOf(v, g, S)
    BY SumExists
  <1> HIDE DEF F
  <1>7. C = F(C)
    BY <1>5, <1>6, Zenon
  <1> DEFINE D == CHOOSE g : SumOf(v, g, S)
  <1>8. SumOf(v, C, S) /\ SumOf(v, D, S)
    BY <1>5, <1>6, <1>7, Zenon
  <1>9. Total(v, S) = D[S] /\ S \subseteq S
    BY DEF Total
  <1> HIDE DEF C, D
  <1>10. C[S] = D[S]
    BY <1>8, <1>9, SumUnique
  <1>11. QED
    BY <1>1, <1>9, <1>10 DEF v, term

\* The weighted sum of an element of the values.
LEMMA TwinAccIs ==
  ASSUME NEW S, IsFiniteSet(S), NEW s, NEW top, NEW l, NEW kvh, NEW d
  PROVE  TwinAcc(l, kvh, d, s, top, S)
           = Total([j \in S |-> GridKernel!Exp(s[j], top) * GridKernel!Value(l, j, kvh, d)], S)
  <1> DEFINE term(j) == GridKernel!Exp(s[j], top) * GridKernel!Value(l, j, kvh, d)
             v == [j \in S |-> term(j)]
             F(g) == [a \in SUBSET S |->
                        IF a = {} THEN 0
                        ELSE term(CHOOSE e \in a : TRUE) + g[a \ {CHOOSE e \in a : TRUE}]]
             C == CHOOSE g : g = F(g)
  <1>1. TwinAcc(l, kvh, d, s, top, S) = C[S]
    BY Zenon DEF TwinAcc, GridKernel!MapThenSumSet, GridKernel!MapThenFoldSet
  <1>3. \A j \in S : v[j] = term(j)
    OBVIOUS
  <1> HIDE DEF v, term
  <1>4. ASSUME NEW a \in SUBSET S, a # {} PROVE v[Pick(a)] = term(Pick(a))
    BY <1>3, <1>4, PickOf
  <1>5. ASSUME NEW g PROVE g = F(g) <=> SumOf(v, g, S)
    <2>1. F(g) = [a \in SUBSET S |-> IF a = {} THEN 0 ELSE v[Pick(a)] + g[a \ {Pick(a)}]]
      BY <1>4 DEF Pick
    <2> HIDE DEF F
    <2>2. QED
      BY <2>1, Zenon DEF SumOf
  <1>6. \E g : SumOf(v, g, S)
    BY SumExists
  <1> HIDE DEF F
  <1>7. C = F(C)
    BY <1>5, <1>6, Zenon
  <1> DEFINE D == CHOOSE g : SumOf(v, g, S)
  <1>8. SumOf(v, C, S) /\ SumOf(v, D, S)
    BY <1>5, <1>6, <1>7, Zenon
  <1>9. Total(v, S) = D[S] /\ S \subseteq S
    BY DEF Total
  <1> HIDE DEF C, D
  <1>10. C[S] = D[S]
    BY <1>8, <1>9, SumUnique
  <1>11. QED
    BY <1>1, <1>9, <1>10 DEF v, term

\* For the scores of a query and a head, the sums of the twin are those of the two passes.
LEMMA TwinIsTwoPass ==
  ASSUME NEW l \in Launches, l.kernel = "attention", NEW h \in 0..(l.n_heads - 1),
         NEW i \in 0..(l.q_len - 1), NEW o, o = l.query_offset + i, NEW s, s = ScoresOf(l, i, h),
         NEW top, top = Top(s, o)
  PROVE  /\ TwoPass(l, i, h, o).sum = TwinSum(s, top, 0..o)
         /\ \A d \in 0..(l.head_dim - 1) :
              TwoPass(l, i, h, o).acc[d] = TwinAcc(l, KeyHead(l, h), d, s, top, 0..o)
  <1>1. o \in Nat
    BY ShapeOf
  <1>2. Span \in Nat
    BY OperatorsAssumption, Zenon DEF GridKernel!LaunchesAssumption
  <1>3. PICK S : S = 0..o
    OBVIOUS
  <1>4. IsFiniteSet(S)
    <2>1. PICK n \in Nat : n = o
      BY <1>1
    <2>2. IsFiniteSet(0..n)
      BY FS_Interval
    <2>3. QED
      BY <1>3, <2>1, <2>2, Zenon
  <1>5. \A k \in 0..o : s[k] = GridKernel!Score(l, i, h, k, KeyHead(l, h)) /\ s[k] \in Int
    BY ScoreInt DEF ScoresOf
  <1>6. Scores(s, o)
    BY <1>5, AttentionFits DEF Scores
  <1>7. PICK k \in 0..o : top = s[k] /\ top \in Int
    BY <1>1, <1>5, TopIs
  <1>8. ASSUME NEW j \in S PROVE GridKernel!Exp(s[j], top) \in Nat
    <2>1. top <= top /\ j \in 0..o
      BY <1>3, <1>7
    <2>2. QED
      BY <1>1, <1>2, <1>6, <1>7, <2>1, WeightShrinks
  <1>9. Softmax(s, Ones(o), o) = TwinSum(s, top, S)
    <2>1. PICK v : v = KeyWeights(s, Ones(o), o, top)
      OBVIOUS
    <2>2. PICK u : u = [j \in S |-> GridKernel!Exp(s[j], top)]
      OBVIOUS
    <2>3. \A j \in S : v[j] = GridKernel!Exp(s[j], top) * Ones(o)[j] /\ Ones(o)[j] = 1
      BY <1>3, <2>1 DEF KeyWeights, Ones
    <2>4. \A j \in S : v[j] = u[j]
      BY <1>8, <2>2, <2>3
    <2>5. Total(v, S) = Total(u, S)
      BY <1>4, <2>4, TotalSame
    <2>6. TwinSum(s, top, S) = Total(u, S)
      BY <1>4, <2>2, TwinSumIs, Zenon
    <2>7. Softmax(s, Ones(o), o) = Total(v, S)
      BY <1>3, <2>1, Zenon DEF Softmax
    <2>8. QED
      BY <2>5, <2>6, <2>7
  <1>10. ASSUME NEW d \in 0..(l.head_dim - 1)
         PROVE  Softmax(s, ValuesOf(l, i, h, d), o) = TwinAcc(l, KeyHead(l, h), d, s, top, S)
    <2>1. PICK v : v = KeyWeights(s, ValuesOf(l, i, h, d), o, top)
      OBVIOUS
    <2>2. PICK u : u = [j \in S |-> GridKernel!Exp(s[j], top) * GridKernel!Value(l, j, KeyHead(l, h), d)]
      OBVIOUS
    <2>3. \A j \in S : v[j] = GridKernel!Exp(s[j], top) * ValuesOf(l, i, h, d)[j]
                       /\ ValuesOf(l, i, h, d)[j] = GridKernel!Value(l, j, KeyHead(l, h), d)
      BY <1>3, <2>1 DEF KeyWeights, ValuesOf
    <2>4. \A j \in S : v[j] = u[j]
      BY <2>2, <2>3
    <2>5. Total(v, S) = Total(u, S)
      BY <1>4, <2>4, TotalSame
    <2>6. TwinAcc(l, KeyHead(l, h), d, s, top, S) = Total(u, S)
      BY <1>4, <2>2, TwinAccIs
    <2>7. Softmax(s, ValuesOf(l, i, h, d), o) = Total(v, S)
      BY <1>3, <2>1, Zenon DEF Softmax
    <2>8. QED
      BY <2>5, <2>6, <2>7
  <1>11. /\ TwoPass(l, i, h, o).sum = Softmax(s, Ones(o), o)
         /\ \A d \in 0..(l.head_dim - 1) :
              TwoPass(l, i, h, o).acc[d] = Softmax(s, ValuesOf(l, i, h, d), o)
    BY DEF TwoPass
  <1>12. QED
    BY <1>3, <1>9, <1>10, <1>11

\* attention: every element of every head of every query.
LEMMA AttentionIs ==
  ASSUME GridInv, GridKernel!AllRan, launch.kernel = "attention" PROVE GridKernel!AttentionTwin(launch)
  <1>1. PICK l \in Launches : l = launch
    BY DEF GridInv, GridShape
  <1>2. ASSUME NEW h \in 0..(l.n_heads - 1), NEW i \in 0..(l.q_len - 1)
        PROVE  HeadTwin(l, i, h, ScoresOf(l, i, h))
    <2>1. PICK t : t = h * l.q_len + i
      OBVIOUS
    <2>2. t \in Tasks(l) /\ t % l.q_len = i /\ t \div l.q_len = h
          /\ HeadPlace(l, t) = (i * l.n_heads + h) * l.head_dim
      BY <1>1, <1>2, <2>1, HeadPlaceIs
    <2>3. PICK o, s, top : o = l.query_offset + i /\ s = ScoresOf(l, i, h) /\ top = Top(s, o)
      OBVIOUS
    <2>4. PICK e : e = TwoPass(l, i, h, o)
      OBVIOUS
    <2>5. HeadOf(l, t) = e
      BY <1>1, <2>2, <2>3, <2>4, OnlineIs DEF HeadOf
    <2>6. PICK n \in Nat \ {0}, m \in Nat \ {0} : n = l.n_heads /\ m = l.head_dim
      BY <1>1, ShapeOf
    <2>7. PICK a \in Nat : a = i * n * m + h * m /\ a = HeadPlace(l, t)
      BY <1>2, <2>2, <2>6
    <2>8. ASSUME NEW d \in 0..(m - 1)
          PROVE  mem[a + d] = <<"head", TwinAcc(l, KeyHead(l, h), d, s, top, 0..o), TwinSum(s, top, 0..o)>>
      <3>1. PICK z : z = a + d
        OBVIOUS
      <3>2. z \in Places(l, t)
        <4>1. Places(l, t) = a..(a + m - 1)
          BY <1>1, <2>6, <2>7, PlacesOf, ZenonT(60)
        <4>2. QED
          BY <3>1, <4>1
      <3>3. mem[z] = Written(l, t, z)
        BY <1>1, <2>2, <3>2, AllWritten
      <3>4. Written(l, t, z) = <<"head", HeadOf(l, t).acc[z - HeadPlace(l, t)], HeadOf(l, t).sum>>
        BY <1>1, WrittenOf
      <3>5. z - HeadPlace(l, t) = d
        BY <2>7, <3>1
      <3>6. e.sum = TwinSum(s, top, 0..o) /\ e.acc[d] = TwinAcc(l, KeyHead(l, h), d, s, top, 0..o)
        BY <1>1, <2>3, <2>4, <2>6, TwinIsTwoPass
      <3>7. QED
        BY <2>5, <3>1, <3>3, <3>4, <3>5, <3>6, Zenon
    <2>9. \A d \in 0..(l.head_dim - 1) :
            mem[i * l.n_heads * l.head_dim + h * l.head_dim + d]
              = <<"head", TwinAcc(l, KeyHead(l, h), d, s, top, 0..o), TwinSum(s, top, 0..o)>>
      BY <2>6, <2>7, <2>8, Zenon
    <2>10. top = GridKernel!Max({s[j] : j \in 0..o})
      BY <2>3, Zenon DEF Top
    <2>11. QED
      BY <2>3, <2>9, <2>10, Zenon DEF HeadTwin, KeyHead
  <1>3. GridKernel!AttentionTwin(l)
    BY <1>2, AttentionTwinIs DEF ScoresOf, KeyHead
  <1>4. QED
    BY <1>1, <1>3, Zenon

-----------------------------------------------------------------------------
(* The kernels and their twins. *)

\* When all threads have returned, the buffer is what the CPU twin computes.
LEMMA GridTwin == GridInv => GridKernel!MatchesTwin
  <1>1. SUFFICES ASSUME GridInv, GridKernel!AllRan
                 PROVE  /\ launch.kernel = "embedding" => GridKernel!EmbeddingTwin(launch)
                        /\ launch.kernel = "add_bias" => GridKernel!AddBiasTwin(launch)
                        /\ launch.kernel = "add_inplace" =>
                             \A i \in 0..(launch.n - 1) : mem[i] = <<"+", GridKernel!Was(i), <<"y", i>>>>
                        /\ launch.kernel = "rope" => GridKernel!RopeTwin(launch)
                        /\ launch.kernel = "attention" => GridKernel!AttentionTwin(launch)
                        /\ launch.kernel = "paged_scatter" => GridKernel!ScatterTwin(launch)
                        /\ launch.kernel = "paged_gather" => GridKernel!GatherTwin(launch)
    BY Zenon DEF GridKernel!MatchesTwin
  <1>2. QED
    BY <1>1, EmbeddingIs, AddBiasIs, AddIs, RopeIs, AttentionIs, ScatterIs, GatherIs

\* A run on the subject is a run of its module.
LEMMA GridRuns ==
  /\ Init => (subject = "grid kernel" => GridKernel!Init)
  /\ [Next]_allVars => UNCHANGED subject
                       /\ (subject = "grid kernel" => [GridKernel!Next]_(GridKernel!vars))
  BY DEF Init, allVars, gridVars, GridKernel!vars, Next

\* When a kernel of src/cuda/device.cu is over, its buffer is what the CPU function it
\* is the twin of computes (nn.cpp, block_manager.cpp, sampler.cpp), for every number of
\* threads, every order they run in and every launch that fits, that is, of token ids in
\* the vocabulary, of heads the wrapper takes, and so on (Fits): the tree reductions of
\* argmax_kernel and rms_norm_kernel find the first maximum and the whole sum, no two
\* threads of the other kernels share a place, and the one-pass softmax of
\* attention_kernel is the two-pass one of attention().
THEOREM KernelsMatchTwins == Spec => []MatchesTwin
  <1> DEFINE Inv == /\ subject = "row kernel" => TwinInv
                    /\ subject = "grid kernel" => GridInv
  <1>1. Init => Inv
    BY OperatorsAssumption, RowRuns, GridRuns, RowTwinInit, GridInit
  <1>2. Inv /\ [Next]_allVars => Inv'
    BY RowRuns, GridRuns, RowTwinNext, GridNext
  <1>3. Inv => MatchesTwin
    BY RowTwin, GridTwin DEF MatchesTwin
  <1>4. QED
    BY <1>1, <1>2, <1>3, PTL DEF Spec
=============================================================================
