---------------------------- MODULE MoneyProofs -----------------------------
(***************************************************************************)
(* Facts about the money arithmetic, for every amount, and about the sums   *)
(* of amounts the ledger and the pages are checked against.                 *)
(*                                                                         *)
(* A sum over a finite set is a recursive function, and the induction       *)
(* theorems of the library take a predicate as a parameter.  So induction   *)
(* is stated here over a set of sets (SubsetInduction), from the library's  *)
(* fact that a well-founded order has minimal elements.                     *)
(***************************************************************************)
EXTENDS Money, Functions, FiniteSetTheorems, TLAPS

(* quantize returns the integer nearest to n/d and takes a tie upwards, for *)
(* the two divisors a product of two stored numbers has, so an amount is    *)
(* never more than half a cent off the exact product.                       *)
THEOREM HalfUpNearest ==
    ASSUME NEW n \in Nat, NEW d \in {100, 10000}
    PROVE  /\ HalfUp(n, d) \in Nat
           /\ 2 * n - d < 2 * d * HalfUp(n, d)
           /\ 2 * d * HalfUp(n, d) <= 2 * n + d
  <1>1. CASE d = 100
    BY <1>1, SMT DEF HalfUp
  <1>2. CASE d = 10000
    BY <1>2, SMT DEF HalfUp
  <1>3. QED
    BY <1>1, <1>2

(* What is taxed never exceeds the subtotal and is never negative, so a     *)
(* discount larger than the bill cannot turn into money owed to the client. *)
LEMMA TaxableBounds ==
    ASSUME NEW s \in Nat, NEW d \in Nat
    PROVE  Taxable(s, d) \in Nat /\ Taxable(s, d) <= s
  BY SMT DEF Taxable

(* A rate is a natural number, and an invoice may have none.                *)
LEMMA RatesAreNat == TaxRates \subseteq Nat /\ 0 \in TaxRates
  BY DEF TaxRates

(* A product of two natural numbers is one (the only non-linear fact used). *)
LEMMA ProductNat ==
    ASSUME NEW a \in Nat, NEW b \in Nat
    PROVE  a * b \in Nat
  BY SMT

(* The total recalculate_invoice stores is an amount, whatever the lines,   *)
(* the discount and the rate.                                               *)
THEOREM InvoiceTotalNat ==
    ASSUME NEW s \in Nat, NEW d \in Nat, NEW r \in Nat
    PROVE  InvoiceTotal(s, d, r) \in Nat
  <1> DEFINE t == Taxable(s, d)
  <1>1. t \in Nat
    BY TaxableBounds
  <1>2. t * r \in Nat
    BY <1>1, ProductNat
  <1>3. HalfUp(t * r, 10000) \in Nat
    BY <1>2, HalfUpNearest
  <1>4. QED
    BY <1>1, <1>3 DEF InvoiceTotal, TaxCents

(* The rounded tax is at most the taxed amount as long as the rate is at    *)
(* most 100 percent: rounding never makes the tax exceed the bill.          *)
THEOREM TaxAtMostTaxable ==
    ASSUME NEW s \in Nat, NEW d \in Nat, NEW r \in TaxRates
    PROVE  TaxCents(s, d, r) <= Taxable(s, d)
  <1> DEFINE t == Taxable(s, d)
  <1>1. t \in Nat
    BY TaxableBounds
  <1>2. t * r \in Nat /\ t * r <= 10000 * t
    <2>1. r \in Nat /\ 10000 - r \in Nat
      BY DEF TaxRates
    <2>2. t * (10000 - r) \in Nat
      BY <1>1, <2>1, ProductNat
    <2>3. t * (10000 - r) = 10000 * t - t * r
      BY <1>1, <2>1, SMT
    <2>4. t * r \in Nat
      BY <1>1, <2>1, ProductNat
    <2>5. \A m \in Nat : 10000 * t - m \in Nat => m <= 10000 * t
      BY <1>1
    <2> QED
      BY <2>2, <2>3, <2>4, <2>5
  <1>3. \A n \in Nat : n <= 10000 * t => HalfUp(n, 10000) <= t
    BY <1>1, SMT DEF HalfUp
  <1>4. QED
    BY <1>2, <1>3 DEF TaxCents

(* The table of the sums of f over the subsets of S.                        *)
Any(s) == CHOOSE x \in s : TRUE
SumTable(f, S, g) ==
   g = [s \in SUBSET S |-> IF s = {} THEN 0 ELSE f[Any(s)] + g[s \ {Any(s)}]]

(* A non-empty set of subsets of a finite set has a smallest one in it.     *)
LEMMA SmallestSubset ==
    ASSUME NEW S, IsFiniteSet(S), NEW B \in SUBSET (SUBSET S), B # {}
    PROVE  \E T \in B : \A U \in B : U \subseteq T => U = T
  <1> DEFINE R == StrictSubsetOrdering(S)
  <1>1. IsWellFoundedOn(R, SUBSET S)
    BY FS_StrictSubsetOrderingWellFounded, FS_FiniteSubsetsOfFinite
  <1>2. \E T \in B : \A U \in B : <<U, T>> \notin R
    <2> HIDE DEF R
    <2> QED BY <1>1, WFMin
  <1>3. QED
    BY <1>2 DEF StrictSubsetOrdering

(* A sum is read from the table of the sums over all the subsets.           *)
LEMMA SumIsFold ==
    ASSUME NEW f, NEW S
    PROVE SumFunctionOnSet(f, S) = (CHOOSE g : SumTable(f, S, g))[S]
  BY DEF SumFunctionOnSet, FoldFunctionOnSet, MapThenFoldSet, SumTable, Any

(* Two such tables agree where both are defined.                            *)
LEMMA TableUnique ==
    ASSUME NEW f, NEW S, IsFiniteSet(S), NEW T \in SUBSET S, NEW U \in SUBSET S,
           NEW g, SumTable(f, T, g), NEW h, SumTable(f, U, h),
           NEW W, W \subseteq T, W \subseteq U
    PROVE  g[W] = h[W]
  <1> DEFINE B == {V \in SUBSET S : V \subseteq W /\ g[V] # h[V]}
  <1>1. SUFFICES ASSUME B # {} PROVE FALSE
    OBVIOUS
  <1>2. PICK V \in B : \A X \in B : X \subseteq V => X = V
    <2> HIDE DEF B
    <2>1. B \in SUBSET SUBSET S
      BY DEF B
    <2>2. QED BY <1>1, <2>1, SmallestSubset
  <1>3. g[V] = IF V = {} THEN 0 ELSE f[Any(V)] + g[V \ {Any(V)}]
    BY <1>2 DEF SumTable
  <1>4. h[V] = IF V = {} THEN 0 ELSE f[Any(V)] + h[V \ {Any(V)}]
    BY <1>2 DEF SumTable
  <1>5. V # {}
    BY <1>2, <1>3, <1>4
  <1>6. Any(V) \in V
    BY <1>5 DEF Any
  <1>7. V \ {Any(V)} \notin B
    BY <1>2, <1>6
  <1>8. g[V \ {Any(V)}] = h[V \ {Any(V)}]
    BY <1>7, <1>2
  <1> QED
    BY <1>2, <1>3, <1>4, <1>5, <1>8

(* A finite set has such a table.                                           *)
LEMMA TableExists ==
    ASSUME NEW f, NEW S, IsFiniteSet(S)
    PROVE  \E g : SumTable(f, S, g)
  <1> DEFINE Good(T) == \E g : SumTable(f, T, g)
             B == {T \in SUBSET S : ~Good(T)}
  <1>1. SUFFICES ASSUME B # {} PROVE FALSE
    OBVIOUS
  <1>2. PICK T \in B : \A X \in B : X \subseteq T => X = T
    <2> HIDE DEF B
    <2>1. B \in SUBSET SUBSET S
      BY DEF B
    <2>2. QED BY <1>1, <2>1, SmallestSubset
  <1> DEFINE G(U) == CHOOSE g : SumTable(f, U, g)
             h == [s \in SUBSET T |-> IF s = {} THEN 0
                       ELSE f[Any(s)] + G(s \ {Any(s)})[s \ {Any(s)}]]
  <1>3. ASSUME NEW U \in SUBSET T, U # T
        PROVE  SumTable(f, U, G(U))
    BY <1>2, <1>3
  <1>4. ASSUME NEW U \in SUBSET T, U # T
        PROVE  h[U] = G(U)[U]
    <2>1. G(U)[U] = IF U = {} THEN 0 ELSE f[Any(U)] + G(U)[U \ {Any(U)}]
      <3> HIDE DEF G
      <3> QED BY <1>3, <1>4 DEF SumTable
    <2>2. CASE U = {}
      <3> HIDE DEF G
      <3> QED BY <2>1, <2>2
    <2>3. CASE U # {}
      <3> DEFINE W == U \ {Any(U)}
      <3>1. Any(U) \in U
        BY <2>3 DEF Any
      <3>2. SumTable(f, W, G(W))
        <4>1. W \in SUBSET T /\ W # T
          BY <3>1, <1>4
        <4> HIDE DEF G, W
        <4>2. QED BY <1>3, <4>1
      <3>3. G(W)[W] = G(U)[W]
        <4>1. W \subseteq U /\ W \in SUBSET S /\ U \in SUBSET S
          BY <1>2, <1>4
        <4>2. SumTable(f, U, G(U))
          <5> HIDE DEF G
          <5>1. QED BY <1>3, <1>4
        <4> HIDE DEF G, W
        <4>3. QED BY <3>2, <4>1, <4>2, TableUnique
      <3> HIDE DEF G
      <3> QED BY <2>1, <2>3, <3>3
    <2> QED BY <2>2, <2>3
  <1>5. ASSUME NEW s \in SUBSET T, s # {}
        PROVE  h[s] = f[Any(s)] + h[s \ {Any(s)}]
    <2>1. Any(s) \in s
      BY <1>5 DEF Any
    <2>2. s \ {Any(s)} \in SUBSET T /\ s \ {Any(s)} # T
      BY <2>1
    <2> DEFINE W == s \ {Any(s)}
    <2>3. h[W] = G(W)[W]
      <3> HIDE DEF h, G, W
      <3>1. W \in SUBSET T /\ W # T
        BY <2>2 DEF W
      <3>2. QED BY <1>4, <3>1
    <2>4. h[s] = f[Any(s)] + G(W)[W]
      <3> HIDE DEF G
      <3> QED BY <1>5
    <2> HIDE DEF h, G
    <2> QED BY <2>3, <2>4
  <1>6. SumTable(f, T, h)
    <2>1. h = [s \in SUBSET T |-> h[s]]
      OBVIOUS
    <2>2. h[{}] = 0
      OBVIOUS
    <2> HIDE DEF h
    <2> QED BY <1>5, <2>1, <2>2 DEF SumTable
  <1> QED
    BY <1>2, <1>6

(* A sum takes away one element after the other.                            *)
LEMMA SumStep ==
    ASSUME NEW f, NEW S, IsFiniteSet(S)
    PROVE  SumFunctionOnSet(f, S) =
             IF S = {} THEN 0
             ELSE f[Any(S)] + SumFunctionOnSet(f, S \ {Any(S)})
  <1> DEFINE G(U) == CHOOSE g : SumTable(f, U, g)
             W == S \ {Any(S)}
  <1>1. /\ SumFunctionOnSet(f, S) = G(S)[S]
        /\ SumFunctionOnSet(f, W) = G(W)[W]
    BY SumIsFold
  <1>2. IsFiniteSet(W) /\ W \in SUBSET S
    BY FS_RemoveElement
  <1>3. SumTable(f, S, G(S))
    BY TableExists
  <1>4. SumTable(f, W, G(W))
    BY <1>2, TableExists
  <1> HIDE DEF G
  <1>5. G(S)[S] = IF S = {} THEN 0 ELSE f[Any(S)] + G(S)[W]
    BY <1>3 DEF SumTable
  <1>6. G(S)[W] = G(W)[W]
    <2> HIDE DEF W
    <2> QED BY <1>2, <1>3, <1>4, TableUnique
  <1> QED
    BY <1>1, <1>5, <1>6

(* The empty sum.                                                           *)
LEMMA SumEmpty ==
    ASSUME NEW f
    PROVE  SumFunctionOnSet(f, {}) = 0
  BY SumStep, FS_EmptySet

(* Any element may be taken first.                                          *)
LEMMA SumRemove ==
    ASSUME NEW f, NEW S, IsFiniteSet(S), \A x \in S : f[x] \in Int
    PROVE  /\ SumFunctionOnSet(f, S) \in Int
           /\ \A x \in S : SumFunctionOnSet(f, S) = f[x] + SumFunctionOnSet(f, S \ {x})
  <1> DEFINE Sum(T) == SumFunctionOnSet(f, T)
             Good(T) == Sum(T) \in Int /\ \A x \in T : Sum(T) = f[x] + Sum(T \ {x})
             B == {T \in SUBSET S : ~Good(T)}
  <1>1. SUFFICES ASSUME B # {} PROVE FALSE
    OBVIOUS
  <1>2. PICK T \in B : \A X \in B : X \subseteq T => X = T
    <2> HIDE DEF B
    <2>1. B \in SUBSET SUBSET S
      BY DEF B
    <2>2. QED
      BY <1>1, <2>1, SmallestSubset
  <1> DEFINE a == Any(T)
  <1>3. IsFiniteSet(T) /\ T \in SUBSET S
    BY <1>2, FS_Subset
  <1>4. Sum(T) = IF T = {} THEN 0 ELSE f[a] + Sum(T \ {a})
    BY <1>3, SumStep
  <1>5. ASSUME NEW U \in SUBSET T, U # T
        PROVE  Good(U)
    BY <1>2, <1>5
  <1> HIDE DEF Sum
  <1>6. T # {}
    BY <1>2, <1>4
  <1>7. a \in T
    BY <1>6 DEF Any
  <1>8. Sum(T \ {a}) \in Int
    BY <1>5, <1>7
  <1>9. Sum(T) \in Int /\ Sum(T) = f[a] + Sum(T \ {a})
    BY <1>3, <1>4, <1>6, <1>7, <1>8
  <1>10. ASSUME NEW x \in T, x # a
         PROVE  Sum(T) = f[x] + Sum(T \ {x})
    <2>1. Sum(T \ {a}) = f[x] + Sum((T \ {a}) \ {x})
      BY <1>5, <1>7, <1>10
    <2>2. Sum(T \ {x}) = f[a] + Sum((T \ {x}) \ {a})
      BY <1>5, <1>7, <1>10
    <2>3. (T \ {a}) \ {x} = (T \ {x}) \ {a}
      OBVIOUS
    <2>4. Sum((T \ {a}) \ {x}) \in Int
      BY <1>5, <1>7
    <2> DEFINE m == Sum((T \ {a}) \ {x})
    <2>5. f[x] \in Int /\ f[a] \in Int /\ m \in Int
      BY <1>3, <1>7, <1>10, <2>4
    <2>6. Sum(T) = f[a] + (f[x] + m) /\ Sum(T \ {x}) = f[a] + m
      BY <1>9, <2>1, <2>2, <2>3
    <2> HIDE DEF m
    <2>7. QED
      BY <2>5, <2>6
  <1>11. QED
    BY <1>2, <1>9, <1>10

(* A sum gains the term of an element that is added.                        *)
LEMMA SumAdd ==
    ASSUME NEW f, NEW S, IsFiniteSet(S), NEW x, x \notin S,
           \A y \in S \cup {x} : f[y] \in Int
    PROVE  SumFunctionOnSet(f, S \cup {x}) = f[x] + SumFunctionOnSet(f, S)
  <1>1. IsFiniteSet(S \cup {x}) /\ (S \cup {x}) \ {x} = S
    BY FS_AddElement
  <1>2. QED
    BY <1>1, SumRemove

(* Induction over the subsets of a finite set, for a set G of good ones.    *)
LEMMA SubsetInduction ==
    ASSUME NEW S, IsFiniteSet(S), NEW G, {} \in G,
           \A T \in SUBSET S : \A x \in S \ T : T \in G => T \cup {x} \in G
    PROVE  S \in G
  <1> DEFINE B == {T \in SUBSET S : T \notin G}
  <1>1. SUFFICES ASSUME B # {} PROVE FALSE
    OBVIOUS
  <1>2. PICK T \in B : \A X \in B : X \subseteq T => X = T
    <2> HIDE DEF B
    <2>1. B \in SUBSET SUBSET S
      BY DEF B
    <2>2. QED
      BY <1>1, <2>1, SmallestSubset
  <1>3. PICK x \in T : TRUE
    BY <1>2
  <1>4. T \ {x} \in G /\ (T \ {x}) \cup {x} = T
    BY <1>2, <1>3
  <1>5. QED
    BY <1>2, <1>3, <1>4

(* Equal terms, equal sums; smaller terms, a smaller sum.                   *)
LEMMA SumMonotonic ==
    ASSUME NEW f, NEW g, NEW S, IsFiniteSet(S),
           \A x \in S : f[x] \in Int /\ g[x] \in Int /\ f[x] <= g[x]
    PROVE  SumFunctionOnSet(f, S) <= SumFunctionOnSet(g, S)
  <1> DEFINE G == {T \in SUBSET S : SumFunctionOnSet(f, T) <= SumFunctionOnSet(g, T)}
  <1>1. {} \in G
    BY SumEmpty
  <1>2. ASSUME NEW T \in SUBSET S, NEW x \in S \ T, T \in G
        PROVE  T \cup {x} \in G
    <2>1. IsFiniteSet(T)
      BY FS_Subset
    <2>2. /\ SumFunctionOnSet(f, T \cup {x}) = f[x] + SumFunctionOnSet(f, T)
          /\ SumFunctionOnSet(g, T \cup {x}) = g[x] + SumFunctionOnSet(g, T)
      BY <2>1, SumAdd
    <2>3. SumFunctionOnSet(f, T) \in Int /\ SumFunctionOnSet(g, T) \in Int
      BY <2>1, SumRemove
    <2>4. QED
      BY <1>2, <2>2, <2>3
  <1>3. S \in G
    <2> HIDE DEF G
    <2>1. QED
      BY <1>1, <1>2, SubsetInduction
  <1>4. QED
    BY <1>3

(* Sums of equal terms are equal.                                           *)
LEMMA SumSame ==
    ASSUME NEW f, NEW g, NEW S, IsFiniteSet(S), \A x \in S : f[x] = g[x]
    PROVE  SumFunctionOnSet(f, S) = SumFunctionOnSet(g, S)
  <1> DEFINE G == {T \in SUBSET S : SumFunctionOnSet(f, T) = SumFunctionOnSet(g, T)}
             B == {T \in SUBSET S : T \notin G}
  <1>1. SUFFICES ASSUME B # {} PROVE FALSE
    OBVIOUS
  <1>2. PICK T \in B : \A X \in B : X \subseteq T => X = T
    <2> HIDE DEF B
    <2>1. B \in SUBSET SUBSET S
      BY DEF B
    <2>2. QED
      BY <1>1, <2>1, SmallestSubset
  <1>3. IsFiniteSet(T)
    BY <1>2, FS_Subset
  <1>4. /\ SumFunctionOnSet(f, T) = IF T = {} THEN 0
                ELSE f[Any(T)] + SumFunctionOnSet(f, T \ {Any(T)})
        /\ SumFunctionOnSet(g, T) = IF T = {} THEN 0
                ELSE g[Any(T)] + SumFunctionOnSet(g, T \ {Any(T)})
    BY <1>3, SumStep
  <1>5. T # {} /\ Any(T) \in T
    BY <1>2, <1>4 DEF Any
  <1>6. SumFunctionOnSet(f, T \ {Any(T)}) = SumFunctionOnSet(g, T \ {Any(T)})
    BY <1>2, <1>5
  <1>7. QED
    BY <1>2, <1>4, <1>5, <1>6

(* No amount is negative, and neither is their sum.                         *)
LEMMA SumNat ==
    ASSUME NEW f, NEW S, IsFiniteSet(S), \A x \in S : f[x] \in Nat
    PROVE  /\ SumFunctionOnSet(f, S) \in Nat
           /\ \A x \in S : f[x] <= SumFunctionOnSet(f, S)
  <1> DEFINE G == {T \in SUBSET S : SumFunctionOnSet(f, T) \in Nat}
  <1>1. {} \in G
    BY SumEmpty
  <1>2. ASSUME NEW T \in SUBSET S, NEW x \in S \ T, T \in G
        PROVE  T \cup {x} \in G
    <2>1. IsFiniteSet(T)
      BY FS_Subset
    <2>2. SumFunctionOnSet(f, T \cup {x}) = f[x] + SumFunctionOnSet(f, T)
      BY <2>1, SumAdd
    <2>3. QED
      BY <1>2, <2>2
  <1> HIDE DEF G
  <1>3. \A T \in SUBSET S : T \in G
    <2> TAKE T \in SUBSET S
    <2>1. IsFiniteSet(T) /\ \A U \in SUBSET T : \A x \in T \ U : U \in G => U \cup {x} \in G
      BY <1>2, FS_Subset
    <2>2. QED
      BY <1>1, <2>1, SubsetInduction
  <1>4. ASSUME NEW x \in S
        PROVE  f[x] <= SumFunctionOnSet(f, S)
    <2>1. SumFunctionOnSet(f, S) = f[x] + SumFunctionOnSet(f, S \ {x})
      BY SumRemove
    <2>2. SumFunctionOnSet(f, S \ {x}) \in Nat
      BY <1>3 DEF G
    <2>3. QED
      BY <2>1, <2>2
  <1>5. QED
    BY <1>3, <1>4 DEF G

(* The sum over two parts, and the sum of two columns.                      *)
LEMMA SumUnion ==
    ASSUME NEW f, NEW S, IsFiniteSet(S), NEW U, IsFiniteSet(U), S \cap U = {},
           \A x \in S \cup U : f[x] \in Int
    PROVE  SumFunctionOnSet(f, S \cup U)
              = SumFunctionOnSet(f, S) + SumFunctionOnSet(f, U)
  <1> DEFINE G == {T \in SUBSET S : SumFunctionOnSet(f, T \cup U)
                     = SumFunctionOnSet(f, T) + SumFunctionOnSet(f, U)}
  <1>0. SumFunctionOnSet(f, U) \in Int
    BY SumRemove
  <1>1. {} \in G
    BY <1>0, SumEmpty
  <1>2. ASSUME NEW T \in SUBSET S, NEW x \in S \ T, T \in G
        PROVE  T \cup {x} \in G
    <2>1. IsFiniteSet(T) /\ IsFiniteSet(T \cup U)
      BY FS_Subset, FS_Union
    <2>2. SumFunctionOnSet(f, T \cup {x}) = f[x] + SumFunctionOnSet(f, T)
      BY <2>1, SumAdd
    <2>3. SumFunctionOnSet(f, (T \cup U) \cup {x}) = f[x] + SumFunctionOnSet(f, T \cup U)
      <3>1. x \notin T \cup U
        OBVIOUS
      <3>2. \A y \in (T \cup U) \cup {x} : f[y] \in Int
        OBVIOUS
      <3>3. QED
        BY <2>1, <3>1, <3>2, SumAdd
    <2>4. (T \cup U) \cup {x} = (T \cup {x}) \cup U
      OBVIOUS
    <2>5. SumFunctionOnSet(f, T) \in Int
      BY <2>1, SumRemove
    <2>6. f[x] \in Int
      OBVIOUS
    <2>7. SumFunctionOnSet(f, T \cup U)
             = SumFunctionOnSet(f, T) + SumFunctionOnSet(f, U)
      BY <1>2
    <2> DEFINE t == SumFunctionOnSet(f, T)
               u == SumFunctionOnSet(f, U)
    <2>8. /\ SumFunctionOnSet(f, (T \cup {x}) \cup U) = f[x] + (t + u)
          /\ SumFunctionOnSet(f, T \cup {x}) + u = (f[x] + t) + u
      BY <2>2, <2>3, <2>4, <2>7
    <2> HIDE DEF t, u
    <2>9. f[x] + (t + u) = (f[x] + t) + u
      BY <1>0, <2>5, <2>6 DEF t, u
    <2>10. QED
      BY <2>8, <2>9 DEF u
  <1>3. S \in G
    <2> HIDE DEF G
    <2>1. QED
      BY <1>1, <1>2, SubsetInduction
  <1>4. QED
    BY <1>3

(* The sum of the terms of two functions is the sum of their sums.          *)
LEMMA SumOfSums ==
    ASSUME NEW f, NEW g, NEW h, NEW S, IsFiniteSet(S),
           \A x \in S : f[x] \in Int /\ g[x] \in Int /\ h[x] = f[x] + g[x]
    PROVE  SumFunctionOnSet(h, S) = SumFunctionOnSet(f, S) + SumFunctionOnSet(g, S)
  <1> DEFINE G == {T \in SUBSET S : SumFunctionOnSet(h, T)
                     = SumFunctionOnSet(f, T) + SumFunctionOnSet(g, T)}
  <1>1. {} \in G
    BY SumEmpty
  <1>2. ASSUME NEW T \in SUBSET S, NEW x \in S \ T, T \in G
        PROVE  T \cup {x} \in G
    <2>1. IsFiniteSet(T)
      BY FS_Subset
    <2>2. /\ SumFunctionOnSet(f, T \cup {x}) = f[x] + SumFunctionOnSet(f, T)
          /\ SumFunctionOnSet(g, T \cup {x}) = g[x] + SumFunctionOnSet(g, T)
          /\ SumFunctionOnSet(h, T \cup {x}) = h[x] + SumFunctionOnSet(h, T)
      BY <2>1, SumAdd
    <2>3. SumFunctionOnSet(f, T) \in Int /\ SumFunctionOnSet(g, T) \in Int
      BY <2>1, SumRemove
    <2>4. QED
      BY <1>2, <2>2, <2>3
  <1>3. S \in G
    <2> HIDE DEF G
    <2>1. QED
      BY <1>1, <1>2, SubsetInduction
  <1>4. QED
    BY <1>3

(* A sum in groups: of each key, then of the groups, as the reports sum a   *)
(* currency by its categories (build_expense_report) or by age (aging).     *)
THEOREM SumInGroups ==
    ASSUME NEW f, NEW S, IsFiniteSet(S), \A x \in S : f[x] \in Int,
           NEW K, IsFiniteSet(K), NEW key, NEW sums,
           \A x \in S : key[x] \in K,
           \A k \in K : sums[k] = SumFunctionOnSet(f, {x \in S : key[x] = k})
    PROVE  SumFunctionOnSet(sums, K) = SumFunctionOnSet(f, S)
  <1> DEFINE In(J) == {x \in S : key[x] \in J}
             G == {J \in SUBSET K : SumFunctionOnSet(sums, J) = SumFunctionOnSet(f, In(J))}
  <1>0. \A J : IsFiniteSet(In(J)) /\ SumFunctionOnSet(f, In(J)) \in Int
    <2> TAKE J
    <2>1. IsFiniteSet(In(J))
      BY FS_Subset
    <2>2. QED
      BY <2>1, SumRemove
  <1>1. {} \in G
    BY SumEmpty
  <1>2. ASSUME NEW J \in SUBSET K, NEW k \in K \ J, J \in G
        PROVE  J \cup {k} \in G
    <2>1. \A i \in K : sums[i] \in Int
      <3> TAKE i \in K
      <3>1. {x \in S : key[x] = i} = In({i})
        OBVIOUS
      <3>2. sums[i] = SumFunctionOnSet(f, In({i}))
        BY <3>1
      <3> HIDE DEF In
      <3>3. QED
        BY <1>0, <3>2
    <2>2. IsFiniteSet(J)
      BY FS_Subset
    <2>3. SumFunctionOnSet(sums, J \cup {k}) = sums[k] + SumFunctionOnSet(sums, J)
      BY <2>1, <2>2, SumAdd
    <2>4. In(J \cup {k}) = In(J) \cup In({k}) /\ In(J) \cap In({k}) = {}
      OBVIOUS
    <2>5. sums[k] = SumFunctionOnSet(f, In({k}))
      <3>1. {x \in S : key[x] = k} = In({k})
        OBVIOUS
      <3>2. QED
        BY <3>1
    <2>6. \A x \in In(J) \cup In({k}) : f[x] \in Int
      OBVIOUS
    <2>7. SumFunctionOnSet(sums, J) = SumFunctionOnSet(f, In(J))
      BY <1>2
    <2> HIDE DEF In
    <2>8. SumFunctionOnSet(f, In(J) \cup In({k}))
             = SumFunctionOnSet(f, In(J)) + SumFunctionOnSet(f, In({k}))
      BY <1>0, <2>4, <2>6, SumUnion
    <2> DEFINE a == SumFunctionOnSet(f, In({k}))
               b == SumFunctionOnSet(f, In(J))
    <2>9. SumFunctionOnSet(sums, J \cup {k}) = SumFunctionOnSet(f, In(J \cup {k}))
      <3>1. a \in Int /\ b \in Int
        BY <1>0
      <3>2. SumFunctionOnSet(sums, J \cup {k}) = a + b
        BY <2>3, <2>5, <2>7
      <3>3. SumFunctionOnSet(f, In(J \cup {k})) = b + a
        BY <2>4, <2>8
      <3> HIDE DEF a, b
      <3>4. QED
        BY <3>1, <3>2, <3>3
    <2>10. QED
      BY <2>9
  <1>3. K \in G
    <2> HIDE DEF G
    <2>1. QED
      BY <1>1, <1>2, SubsetInduction
  <1>4. In(K) = S
    OBVIOUS
  <1>5. QED
    BY <1>3, <1>4

(* Counting is summing ones.                                                *)
LEMMA SumOfOnes ==
    ASSUME NEW f, NEW S, IsFiniteSet(S), \A x \in S : f[x] = 1
    PROVE  SumFunctionOnSet(f, S) = Cardinality(S)
  <1> DEFINE G == {T \in SUBSET S : SumFunctionOnSet(f, T) = Cardinality(T)}
  <1>1. {} \in G
    BY SumEmpty, FS_EmptySet
  <1>2. ASSUME NEW T \in SUBSET S, NEW x \in S \ T, T \in G
        PROVE  T \cup {x} \in G
    <2>1. IsFiniteSet(T)
      BY FS_Subset
    <2>2. SumFunctionOnSet(f, T \cup {x}) = f[x] + SumFunctionOnSet(f, T)
      BY <2>1, SumAdd
    <2>3. Cardinality(T \cup {x}) = Cardinality(T) + 1 /\ Cardinality(T) \in Nat
      BY <2>1, FS_AddElement, FS_CardinalityType
    <2>4. QED
      BY <1>2, <2>2, <2>3
  <1>3. S \in G
    <2> HIDE DEF G
    <2>1. QED
      BY <1>1, <1>2, SubsetInduction
  <1>4. QED
    BY <1>3

(* Counted by groups, every element is counted once.                        *)
LEMMA CountInGroups ==
    ASSUME NEW S, IsFiniteSet(S), NEW K, IsFiniteSet(K), NEW key, NEW counts,
           \A x \in S : key[x] \in K,
           \A k \in K : counts[k] = Cardinality({x \in S : key[x] = k})
    PROVE  SumFunctionOnSet(counts, K) = Cardinality(S)
  <1> DEFINE one == [x \in S |-> 1]
  <1>1. \A x \in S : one[x] = 1
    OBVIOUS
  <1> HIDE DEF one
  <1>2. \A k \in K : counts[k] = SumFunctionOnSet(one, {x \in S : key[x] = k})
    <2> TAKE k \in K
    <2> DEFINE T == {x \in S : key[x] = k}
    <2>1. IsFiniteSet(T) /\ \A x \in T : one[x] = 1
      BY <1>1, FS_Subset
    <2> HIDE DEF T
    <2>2. SumFunctionOnSet(one, T) = Cardinality(T)
      BY <2>1, SumOfOnes
    <2>3. QED
      BY <2>2 DEF T
  <1>3. SumFunctionOnSet(counts, K) = SumFunctionOnSet(one, S)
    <2>1. \A x \in S : one[x] \in Int
      BY <1>1
    <2>2. QED
      BY <1>2, <2>1, SumInGroups
  <1>4. QED
    BY <1>1, <1>3, SumOfOnes

(* A sum after one term of it changed.                                      *)
LEMMA SumOneChanged ==
    ASSUME NEW f, NEW g, NEW S, IsFiniteSet(S), NEW x \in S,
           \A y \in S : f[y] \in Int /\ g[y] \in Int,
           \A y \in S : y # x => g[y] = f[y]
    PROVE  SumFunctionOnSet(g, S) = SumFunctionOnSet(f, S) + (g[x] - f[x])
  <1> DEFINE R == S \ {x}
             r == SumFunctionOnSet(f, R)
  <1>1. IsFiniteSet(R)
    BY FS_RemoveElement
  <1>2. SumFunctionOnSet(g, R) = r /\ r \in Int
    BY <1>1, SumSame, SumRemove
  <1>3. SumFunctionOnSet(f, S) = f[x] + r /\ SumFunctionOnSet(g, S) = g[x] + r
    BY <1>2, SumRemove
  <1> HIDE DEF r
  <1>4. QED
    BY <1>2, <1>3
=============================================================================
