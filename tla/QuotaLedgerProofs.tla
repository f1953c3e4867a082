-------------------------- MODULE QuotaLedgerProofs --------------------------
(***************************************************************************)
(* Proofs about QuotaLedger, for every set of keys, requests, quotas and   *)
(* amounts.  Three inductive invariants build on each other: QuotaInv, the *)
(* bounds on the counters of a key; FreshInv, a request without a log row  *)
(* has no journal either; and AccountInv, the counter of a key is the sum  *)
(* of what the running requests hold on it.  The sums come first: what     *)
(* MapThenSumSet returns is described by a first-order operator SumOf, and *)
(* what is true of every finite sum follows from a smallest set of which   *)
(* it would be false.  The last part shows that keys are prepaid accounts. *)
(***************************************************************************)
EXTENDS QuotaLedger, FiniteSetTheorems, TLAPS

-----------------------------------------------------------------------------
(* Sums over a finite set, for a function of its elements.                   *)

\* iter gives every subset of S its sum, the way MapThenSumSet computes it.
IsSum(iter, f, S) ==
  iter = [s \in SUBSET S |->
            IF s = {} THEN 0
            ELSE f[CHOOSE x \in s : TRUE] + iter[s \ {CHOOSE x \in s : TRUE}]]

\* The sum of f over S.
SumOf(f, S) == (CHOOSE iter : IsSum(iter, f, S))[S]

\* Of the subsets of a finite set that are counted, one has no counted proper
\* subset.
LEMMA LeastSubset ==
  ASSUME NEW S, IsFiniteSet(S), NEW B \in SUBSET (SUBSET S), B # {}
  PROVE  \E T \in B : \A U \in SUBSET T : U # T => U \notin B
<1>. DEFINE R == StrictSubsetOrdering(S)
<1>1. IsWellFoundedOn(R, SUBSET S)
  BY FS_StrictSubsetOrderingWellFounded, FS_FiniteSubsetsOfFinite, Zenon
<1>2. \A U, T \in SUBSET S : U \subseteq T /\ U # T => <<U, T>> \in R
  BY DEF StrictSubsetOrdering
<1>. HIDE DEF R
<1>3. PICK T \in B : \A U \in B : ~(<<U, T>> \in R)
  BY <1>1, WFMin, Zenon
<1>. QED
  BY <1>2, <1>3

\* Two ways to sum the subsets of S agree.
LEMMA SumUnique ==
  ASSUME NEW S, IsFiniteSet(S), NEW f, NEW g, NEW h, IsSum(g, f, S), IsSum(h, f, S)
  PROVE  g = h
<1>. DEFINE B == {s \in SUBSET S : g[s] # h[s]}
<1>1. CASE B = {}
  BY <1>1 DEF IsSum
<1>2. CASE B # {}
  <2>0. B \in SUBSET (SUBSET S)
    OBVIOUS
  <2>1. PICK T \in B : \A U \in SUBSET T : U # T => U \notin B
    <3>. HIDE DEF B
    <3>. QED BY <1>2, <2>0, LeastSubset
  <2>. DEFINE x == CHOOSE x \in T : TRUE
              U == T \ {x}
  <2>2. T # {}
    BY <2>1 DEF IsSum
  <2>3. x \in T /\ U \in SUBSET T /\ U # T /\ U \in SUBSET S
    BY <2>1, <2>2
  <2>4. g[T] = f[x] + g[U] /\ h[T] = f[x] + h[U]
    BY <2>1, <2>2 DEF IsSum
  <2>5. g[U] = h[U]
    BY <2>1, <2>3
  <2>. QED
    BY <2>1, <2>4, <2>5
<1>. QED
  BY <1>1, <1>2

\* Summing the subsets of S sums the subsets of a part of S.
LEMMA SumRestricts ==
  ASSUME NEW S, NEW T \in SUBSET S, NEW f, NEW g, IsSum(g, f, S),
         NEW h, h = [s \in SUBSET T |-> g[s]]
  PROVE  IsSum(h, f, T)
<1>1. ASSUME NEW s \in SUBSET T
      PROVE  h[s] = IF s = {} THEN 0
                    ELSE f[CHOOSE x \in s : TRUE] + h[s \ {CHOOSE x \in s : TRUE}]
  <2>1. s \ {CHOOSE x \in s : TRUE} \in SUBSET T
    OBVIOUS
  <2>2. h[s] = g[s] /\ h[s \ {CHOOSE x \in s : TRUE}] = g[s \ {CHOOSE x \in s : TRUE}]
    BY <2>1
  <2>3. g[s] = IF s = {} THEN 0
               ELSE f[CHOOSE x \in s : TRUE] + g[s \ {CHOOSE x \in s : TRUE}]
    BY DEF IsSum
  <2>. QED
    BY <2>2, <2>3
<1>2. h = [s \in SUBSET T |-> h[s]]
  OBVIOUS
<1>. QED
  BY <1>1, <1>2, Zenon DEF IsSum

\* The subsets of every finite set can be summed.
LEMMA SumExists ==
  ASSUME NEW S, IsFiniteSet(S), NEW f
  PROVE  \E g : IsSum(g, f, S)
<1>. DEFINE Summed(T) == \E g : IsSum(g, f, T)
            B == {T \in SUBSET S : ~Summed(T)}
<1>1. SUFFICES ASSUME B # {} PROVE FALSE
  BY Zenon
<1>2. PICK T \in B : \A U \in SUBSET T : U # T => U \notin B
  <2>1. B \in SUBSET (SUBSET S)
    OBVIOUS
  <2>. HIDE DEF B
  <2>. QED BY <1>1, <2>1, LeastSubset
<1>. DEFINE iter(U) == CHOOSE g : IsSum(g, f, U)
<1>3. ASSUME NEW U \in SUBSET T, U # T
      PROVE  IsSum(iter(U), f, U)
  <2>1. Summed(U)
    <3>. HIDE DEF Summed
    <3>. QED BY <1>2, <1>3
  <2>. QED
    BY <2>1, Zenon
<1>. DEFINE fst(s) == CHOOSE x \in s : TRUE
            rest(s) == s \ {fst(s)}
            G == [s \in SUBSET T |-> IF s = {} THEN 0 ELSE f[fst(s)] + iter(rest(s))[rest(s)]]
<1>4. ASSUME NEW s \in SUBSET T, s # {}
      PROVE  rest(s) \in SUBSET T /\ rest(s) # T /\ fst(s) \in s
  BY <1>4
<1>5. ASSUME NEW U \in SUBSET T, U # T
      PROVE  iter(U)[U] = G[U]
  <2>. DEFINE V == rest(U)
  <2>1. IsSum(iter(U), f, U) /\ IsFiniteSet(U)
    BY <1>3, <1>5, FS_Subset
  <2>. HIDE DEF iter
  <2>2. CASE U = {}
    BY <2>1, <2>2 DEF IsSum
  <2>3. CASE U # {}
    <3>1. iter(U)[U] = f[fst(U)] + iter(U)[V]
      BY <2>1, <2>3 DEF IsSum
    <3>2. V \in SUBSET U /\ V \in SUBSET T /\ V # T
      BY <1>4, <1>5, <2>3
    <3>. DEFINE h == [s \in SUBSET V |-> iter(U)[s]]
    <3>3. IsSum(h, f, V)
      <4>1. IsSum(iter(U), f, U) /\ V \in SUBSET U /\ h = [s \in SUBSET V |-> iter(U)[s]]
        BY <2>1, <3>2
      <4>. HIDE DEF V, h
      <4>. QED BY <4>1, SumRestricts
    <3>4. IsSum(iter(V), f, V) /\ IsFiniteSet(V)
      <4>. HIDE DEF V
      <4>. QED BY <1>3, <2>1, <3>2, FS_Subset
    <3>5. iter(V) = h
      <4>. HIDE DEF V, h
      <4>. QED BY <3>3, <3>4, SumUnique
    <3>6. iter(V)[V] = iter(U)[V]
      <4>. HIDE DEF V
      <4>. QED BY <3>5
    <3>. QED
      BY <3>1, <3>6, <2>3
  <2>. QED
    BY <2>2, <2>3
<1>6. ASSUME NEW s \in SUBSET T
      PROVE  G[s] = IF s = {} THEN 0 ELSE f[fst(s)] + G[rest(s)]
  <2>. HIDE DEF iter
  <2>1. CASE s = {}
    BY <2>1
  <2>2. CASE s # {}
    <3>1. iter(rest(s))[rest(s)] = G[rest(s)]
      <4>. HIDE DEF rest, G
      <4>. QED BY <1>4, <1>5, <2>2
    <3>. QED
      BY <2>2, <3>1
  <2>. QED
    BY <2>1, <2>2
<1>7. G = [s \in SUBSET T |-> G[s]]
  <2>. HIDE DEF iter, rest, fst
  <2>. QED OBVIOUS
<1>8. IsSum(G, f, T)
  <2>. HIDE DEF G
  <2>. QED BY <1>6, <1>7, Zenon DEF IsSum
<1>. QED
  BY <1>2, <1>8, Zenon

\* SumOf reads its value off any way to sum the subsets of a larger set.
LEMMA SumAgrees ==
  ASSUME NEW S, IsFiniteSet(S), NEW f, NEW g, IsSum(g, f, S), NEW T \in SUBSET S
  PROVE  SumOf(f, T) = g[T]
<1>. DEFINE i == CHOOSE iter : IsSum(iter, f, T)
            h == [s \in SUBSET T |-> g[s]]
<1>1. IsFiniteSet(T)
  BY FS_Subset
<1>2. IsSum(i, f, T)
  BY <1>1, SumExists, Zenon
<1>3. h = [s \in SUBSET T |-> g[s]]
  OBVIOUS
<1>. HIDE DEF i, h
<1>4. IsSum(h, f, T)
  BY <1>3, SumRestricts
<1>5. i = h
  BY <1>1, <1>2, <1>4, SumUnique
<1>. QED
  BY <1>3, <1>5 DEF SumOf, i

\* An empty sum, and the element that MapThenSumSet takes first.
LEMMA SumFirst ==
  ASSUME NEW S, IsFiniteSet(S), NEW f
  PROVE  /\ SumOf(f, {}) = 0
         /\ \A T \in SUBSET S : T # {} =>
              \E x \in T : SumOf(f, T) = f[x] + SumOf(f, T \ {x})
<1>1. PICK g : IsSum(g, f, S)
  BY SumExists
<1>2. \A T \in SUBSET S : SumOf(f, T) = g[T]
  BY <1>1, SumAgrees
<1>3. g[{}] = 0
  BY <1>1 DEF IsSum
<1>4. ASSUME NEW T \in SUBSET S, T # {}
      PROVE  \E x \in T : g[T] = f[x] + g[T \ {x}]
  <2>. DEFINE x == CHOOSE x \in T : TRUE
  <2>1. x \in T
    BY <1>4
  <2>2. g[T] = f[x] + g[T \ {x}]
    BY <1>1, <1>4 DEF IsSum
  <2>. QED
    BY <2>1, <2>2
<1>. QED
  BY <1>2, <1>3, <1>4

\* A sum of naturals is a natural.
LEMMA SumType ==
  ASSUME NEW S, IsFiniteSet(S), NEW f, \A x \in S : f[x] \in Nat
  PROVE  SumOf(f, S) \in Nat
<1>. DEFINE B == {T \in SUBSET S : SumOf(f, T) \notin Nat}
<1>0. B \in SUBSET (SUBSET S)
  OBVIOUS
<1>1. SUFFICES ASSUME B # {} PROVE FALSE
  BY Zenon
<1>2. PICK T \in B : \A U \in SUBSET T : U # T => U \notin B
  <2>. HIDE DEF B
  <2>. QED BY <1>0, <1>1, LeastSubset
<1>3. T # {}
  <2>1. SumOf(f, {}) = 0
    BY SumFirst
  <2>. QED BY <1>2, <2>1
<1>4. PICK x \in T : SumOf(f, T) = f[x] + SumOf(f, T \ {x})
  BY <1>3, SumFirst
<1>5. SumOf(f, T \ {x}) \in Nat
  BY <1>2
<1>. QED
  BY <1>4, <1>5

\* The order in which the elements are taken does not matter.
LEMMA SumSplit ==
  ASSUME NEW S, IsFiniteSet(S), NEW f, \A x \in S : f[x] \in Nat, NEW y \in S
  PROVE  SumOf(f, S) = f[y] + SumOf(f, S \ {y})
<1>. DEFINE Splits(T) == \A z \in T : SumOf(f, T) = f[z] + SumOf(f, T \ {z})
            B == {T \in SUBSET S : ~Splits(T)}
<1>0. B \in SUBSET (SUBSET S)
  OBVIOUS
<1>1. SUFFICES ASSUME B # {} PROVE FALSE
  BY Zenon
<1>2. PICK T \in B : \A U \in SUBSET T : U # T => U \notin B
  <2>. HIDE DEF B
  <2>. QED BY <1>0, <1>1, LeastSubset
<1>3. \A U \in SUBSET S : SumOf(f, U) \in Nat
  <2>1. ASSUME NEW U \in SUBSET S PROVE SumOf(f, U) \in Nat
    <3>1. IsFiniteSet(U)
      BY FS_Subset
    <3>. QED BY <3>1, SumType
  <2>. QED BY <2>1
<1>4. PICK z \in T : SumOf(f, T) # f[z] + SumOf(f, T \ {z})
  BY <1>2
<1>5. PICK x \in T : SumOf(f, T) = f[x] + SumOf(f, T \ {x})
  BY <1>4, SumFirst
<1>6. x # z
  BY <1>4, <1>5
<1>7. Splits(T \ {x}) /\ Splits(T \ {z})
  BY <1>2
<1>8. /\ SumOf(f, T \ {x}) = f[z] + SumOf(f, (T \ {x}) \ {z})
      /\ SumOf(f, T \ {z}) = f[x] + SumOf(f, (T \ {z}) \ {x})
  BY <1>6, <1>7
<1>9. (T \ {x}) \ {z} = (T \ {z}) \ {x}
  OBVIOUS
<1>10. f[x] \in Nat /\ f[z] \in Nat /\ SumOf(f, (T \ {x}) \ {z}) \in Nat
  BY <1>3
<1>11. SumOf(f, T) = f[x] + (f[z] + SumOf(f, (T \ {x}) \ {z}))
  BY <1>5, <1>8
<1>12. SumOf(f, T \ {z}) = f[x] + SumOf(f, (T \ {x}) \ {z})
  BY <1>8, <1>9
<1>. HIDE DEF B
<1>. QED
  BY <1>4, <1>10, <1>11, <1>12

\* The sum over one element.
LEMMA SumOfOne ==
  ASSUME NEW x, NEW f, f[x] \in Nat
  PROVE  SumOf(f, {x}) = f[x]
<1>1. IsFiniteSet({x}) /\ {x} \ {x} = {}
  BY FS_Singleton
<1>2. SumOf(f, {x}) = f[x] + SumOf(f, {x} \ {x})
  BY <1>1, SumSplit
<1>3. SumOf(f, {}) = 0
  BY <1>1, SumFirst
<1>. QED
  BY <1>1, <1>2, <1>3

\* Equal summands have equal sums.
LEMMA SumSame ==
  ASSUME NEW S, IsFiniteSet(S), NEW f, NEW g, \A x \in S : f[x] = g[x] /\ f[x] \in Nat
  PROVE  SumOf(f, S) = SumOf(g, S)
<1>. DEFINE B == {T \in SUBSET S : SumOf(f, T) # SumOf(g, T)}
<1>0. B \in SUBSET (SUBSET S)
  OBVIOUS
<1>1. SUFFICES ASSUME B # {} PROVE FALSE
  BY Zenon
<1>2. PICK T \in B : \A U \in SUBSET T : U # T => U \notin B
  <2>. HIDE DEF B
  <2>. QED BY <1>0, <1>1, LeastSubset
<1>3. T # {} /\ T \in SUBSET S
  <2>1. SumOf(f, {}) = 0 /\ SumOf(g, {}) = 0
    BY SumFirst
  <2>. QED BY <1>2, <2>1
<1>4. PICK x \in T : SumOf(f, T) = f[x] + SumOf(f, T \ {x})
  BY <1>3, SumFirst
<1>5. IsFiniteSet(T) /\ \A y \in T : g[y] \in Nat
  BY <1>3, FS_Subset
<1>6. SumOf(g, T) = g[x] + SumOf(g, T \ {x})
  BY <1>5, SumSplit
<1>7. SumOf(f, T \ {x}) = SumOf(g, T \ {x})
  BY <1>2
<1>. QED
  BY <1>2, <1>4, <1>6, <1>7

\* What contributes nothing can be left out.
LEMMA SumPart ==
  ASSUME NEW S, IsFiniteSet(S), NEW f, \A x \in S : f[x] \in Nat,
         NEW P \in SUBSET S, \A x \in S \ P : f[x] = 0
  PROVE  SumOf(f, S) = SumOf(f, P)
<1>. DEFINE B == {T \in SUBSET S : P \subseteq T /\ SumOf(f, T) # SumOf(f, P)}
<1>0. B \in SUBSET (SUBSET S)
  OBVIOUS
<1>1. SUFFICES ASSUME B # {} PROVE FALSE
  BY Zenon
<1>2. PICK T \in B : \A U \in SUBSET T : U # T => U \notin B
  <2>. HIDE DEF B
  <2>. QED BY <1>0, <1>1, LeastSubset
<1>3. PICK x \in T : x \notin P
  <2>1. T # P /\ P \subseteq T
    BY <1>2
  <2>. QED BY <2>1, Zenon
<1>4. IsFiniteSet(T) /\ \A y \in T : f[y] \in Nat
  BY <1>2, FS_Subset
<1>5. SumOf(f, T) = f[x] + SumOf(f, T \ {x})
  BY <1>4, SumSplit
<1>6. f[x] = 0 /\ SumOf(f, T \ {x}) = SumOf(f, P)
  BY <1>2, <1>3
<1>7. SumOf(f, T \ {x}) \in Nat
  <2>1. IsFiniteSet(T \ {x})
    BY <1>4, FS_Subset
  <2>. QED BY <1>4, <2>1, SumType
<1>. QED
  BY <1>2, <1>5, <1>6, <1>7

\* No element exceeds the sum.
LEMMA SumBounds ==
  ASSUME NEW S, IsFiniteSet(S), NEW f, \A x \in S : f[x] \in Nat, NEW y \in S
  PROVE  f[y] <= SumOf(f, S)
<1>1. IsFiniteSet(S \ {y})
  BY FS_Subset
<1>2. SumOf(f, S \ {y}) \in Nat
  BY <1>1, SumType
<1>. QED
  BY <1>2, SumSplit

\* A sum of zeros.
LEMMA SumOfZeros ==
  ASSUME NEW S, IsFiniteSet(S), NEW f, \A x \in S : f[x] = 0
  PROVE  SumOf(f, S) = 0
<1>1. SumOf(f, S) = SumOf(f, {})
  BY SumPart
<1>. QED
  BY <1>1, SumFirst

-----------------------------------------------------------------------------
(* Sums of the journal                                                       *)

\* Total adds the amounts of the rows of some types.
LEMMA TotalIsSum ==
  ASSUME NEW rows, IsFiniteSet(rows), NEW types
  PROVE  Total(rows, types) =
           SumOf([row \in rows |-> row.amount], {row \in rows : row.type \in types})
<1>. DEFINE S == {row \in rows : row.type \in types}
            f == [row \in rows |-> row.amount]
            Adds(iter) == iter = [s \in SUBSET S |->
                IF s = {} THEN 0
                ELSE (CHOOSE x \in s : TRUE).amount + iter[s \ {CHOOSE x \in s : TRUE}]]
<1>1. IsFiniteSet(S) /\ S \subseteq rows
  BY FS_Subset
<1>2. \A s \in SUBSET S : s # {} => f[CHOOSE x \in s : TRUE] = (CHOOSE x \in s : TRUE).amount
  OBVIOUS
<1>3. ASSUME NEW g
      PROVE  Adds(g) <=> IsSum(g, f, S)
  <2>. HIDE DEF S, f
  <2>1. [s \in SUBSET S |-> IF s = {} THEN 0
                ELSE (CHOOSE x \in s : TRUE).amount + g[s \ {CHOOSE x \in s : TRUE}]]
        = [s \in SUBSET S |-> IF s = {} THEN 0
                ELSE f[CHOOSE x \in s : TRUE] + g[s \ {CHOOSE x \in s : TRUE}]]
    BY <1>2
  <2>. QED
    BY <2>1, Zenon DEF IsSum
<1>4. \E g : Adds(g)
  <2>. HIDE DEF S, f, Adds
  <2>1. PICK g : IsSum(g, f, S)
    BY <1>1, SumExists
  <2>. QED
    BY <1>3, <2>1
<1>5. \E g : Adds(g) /\ Total(rows, types) = g[S]
  <2>. HIDE DEF f
  <2>. QED
    BY <1>4, Zenon DEF Total, MapThenSumSet, MapThenFoldSet
<1>6. PICK g : Adds(g) /\ Total(rows, types) = g[S]
  BY <1>5
<1>. HIDE DEF S, f, Adds
<1>7. IsSum(g, f, S)
  BY <1>3, <1>6
<1>8. SumOf(f, S) = g[S]
  BY <1>1, <1>7, SumAgrees
<1>. QED
  BY <1>6, <1>8 DEF S, f

\* Nothing totals nothing.
LEMMA TotalOfNone ==
  ASSUME NEW rows, IsFiniteSet(rows), NEW types, \A row \in rows : row.type \notin types
  PROVE  Total(rows, types) = 0
<1>1. {row \in rows : row.type \in types} = {}
  OBVIOUS
<1>2. SumOf([row \in rows |-> row.amount], {}) = 0
  BY SumFirst
<1>. QED
  BY <1>1, <1>2, TotalIsSum

\* One row of the types totals its amount.
LEMMA TotalOfOne ==
  ASSUME NEW rows, IsFiniteSet(rows), NEW types, NEW one \in rows, one.type \in types,
         one.amount \in Nat, \A row \in rows : row.type \in types => row = one
  PROVE  Total(rows, types) = one.amount
<1>. DEFINE f == [row \in rows |-> row.amount]
<1>1. {row \in rows : row.type \in types} = {one}
  OBVIOUS
<1>2. f[one] = one.amount
  OBVIOUS
<1>. HIDE DEF f
<1>3. SumOf(f, {one}) = one.amount
  BY <1>2, SumOfOne
<1>. QED
  BY <1>1, <1>3, TotalIsSum DEF f

\* Two rows of the types total the sum of their amounts.
LEMMA TotalOfTwo ==
  ASSUME NEW rows, IsFiniteSet(rows), NEW types, NEW one \in rows, NEW two \in rows,
         one # two, one.type \in types, two.type \in types,
         one.amount \in Nat, two.amount \in Nat,
         \A row \in rows : row.type \in types => row = one \/ row = two
  PROVE  Total(rows, types) = one.amount + two.amount
<1>. DEFINE f == [row \in rows |-> row.amount]
            S == {one, two}
<1>1. {row \in rows : row.type \in types} = S
  OBVIOUS
<1>2. f[one] = one.amount /\ f[two] = two.amount
  OBVIOUS
<1>3. IsFiniteSet(S) /\ S \ {one} = {two} /\ \A x \in S : f[x] \in Nat
  <2>1. S \subseteq rows
    OBVIOUS
  <2>. QED BY <1>2, <2>1, FS_Subset
<1>4. SumOf(f, {two}) = two.amount
  <2>. HIDE DEF f, S
  <2>. QED BY <1>2, SumOfOne
<1>5. one \in S
  OBVIOUS
<1>6. SumOf(f, S) = f[one] + SumOf(f, S \ {one})
  <2>. HIDE DEF f, S
  <2>. QED BY <1>3, <1>5, SumSplit
<1>7. SumOf(f, S) = one.amount + two.amount
  <2>. HIDE DEF f, S
  <2>. QED BY <1>2, <1>3, <1>4, <1>6
<1>. HIDE DEF S
<1>. QED
  BY <1>1, <1>7, TotalIsSum DEF f

\* A request without rows of a key has nothing outstanding on it.
LEMMA NothingOutstanding ==
  ASSUME NEW r, NEW k, RowsOf(r, k) = {}
  PROVE  Outstanding(r, k) = 0
<1>1. IsFiniteSet({})
  BY FS_EmptySet
<1>2. Total({}, {"reserve"}) = 0 /\ Total({}, {"settle", "release"}) = 0
  BY <1>1, TotalOfNone
<1>. QED
  BY <1>2 DEF Outstanding

\* A request whose only row is its reservation has it outstanding.
LEMMA ReservationOutstanding ==
  ASSUME NEW r, NEW k, NEW row, RowsOf(r, k) = {row}, row.type = "reserve",
         row.amount \in Nat
  PROVE  Outstanding(r, k) = row.amount
<1>1. IsFiniteSet({row})
  BY FS_Singleton
<1>2. Total({row}, {"reserve"}) = row.amount
  BY <1>1, TotalOfOne
<1>3. Total({row}, {"settle", "release"}) = 0
  BY <1>1, TotalOfNone
<1>. QED
  BY <1>2, <1>3 DEF Outstanding

\* The requests whose log row says running.
RunningRequests == {r \in Request : Running(r)}

\* What each running request has outstanding on a key.
OutstandingOn(k) == [r \in RunningRequests |-> Outstanding(r, k)]

\* Every running request has an amount outstanding on every key, possibly zero.
Countable ==
  /\ IsFiniteSet(RunningRequests)
  /\ \A k \in Key : \A r \in RunningRequests : Outstanding(r, k) \in Nat

\* What recovery gives back is the sum over the running requests.
OrphanedIsTheSum ==
  Countable => \A k \in Key : Orphaned(k) = SumOf(OutstandingOn(k), RunningRequests)

\* Recovery's query over the running requests, as a sum.
LEMMA OrphanedIsSum == OrphanedIsTheSum
<1>. SUFFICES ASSUME Countable, NEW k \in Key
              PROVE  Orphaned(k) = SumOf(OutstandingOn(k), RunningRequests)
  BY DEF OrphanedIsTheSum
<1>. DEFINE S == RunningRequests
            f == OutstandingOn(k)
            Adds(iter) == iter = [s \in SUBSET S |->
                IF s = {} THEN 0
                ELSE Outstanding(CHOOSE x \in s : TRUE, k) + iter[s \ {CHOOSE x \in s : TRUE}]]
<1>1. IsFiniteSet(S)
  BY DEF Countable
<1>2. \A s \in SUBSET S : s # {} => f[CHOOSE x \in s : TRUE] = Outstanding(CHOOSE x \in s : TRUE, k)
  BY DEF OutstandingOn
<1>3. ASSUME NEW g
      PROVE  Adds(g) <=> IsSum(g, f, S)
  <2>. HIDE DEF S, f
  <2>1. [s \in SUBSET S |-> IF s = {} THEN 0
                ELSE Outstanding(CHOOSE x \in s : TRUE, k) + g[s \ {CHOOSE x \in s : TRUE}]]
        = [s \in SUBSET S |-> IF s = {} THEN 0
                ELSE f[CHOOSE x \in s : TRUE] + g[s \ {CHOOSE x \in s : TRUE}]]
    BY <1>2
  <2>. QED
    BY <2>1, Zenon DEF IsSum
<1>4. \E g : Adds(g)
  <2>. HIDE DEF S, f, Adds
  <2>1. PICK g : IsSum(g, f, S)
    BY <1>1, SumExists
  <2>. QED
    BY <1>3, <2>1
<1>5. \E g : Adds(g) /\ Orphaned(k) = g[S]
  <2>. HIDE DEF f
  <2>. QED
    BY <1>4, Zenon DEF Orphaned, MapThenSumSet, MapThenFoldSet, RunningRequests
<1>6. PICK g : Adds(g) /\ Orphaned(k) = g[S]
  BY <1>5
<1>. HIDE DEF S, f, Adds
<1>7. IsSum(g, f, S)
  BY <1>3, <1>6
<1>8. SumOf(f, S) = g[S]
  BY <1>1, <1>7, SumAgrees
<1>. QED
  BY <1>6, <1>8 DEF S, f

\* The same query after a step.
LEMMA OrphanedIsSumNext == OrphanedIsTheSum'
BY OrphanedIsSum, PTL

-----------------------------------------------------------------------------
(* The counters of a key.                                                   *)

USE KeyAssumption, MaxIntAssumption, QuotasAssumption, AmountsAssumption

\* The inductive invariant.
QuotaInv ==
  /\ TypeOK
  /\ QuotaNeverOverspent
  /\ UsageFitsWidth

\* A finite quota is a number.
LEMMA QuotaIsNat ==
  ASSUME NEW q \in Quotas \union {Unlimited}
  PROVE  q # Unlimited => q \in Nat
OBVIOUS

\* One ledger row at most, and a well-formed one.
LEMMA EntryIsRow ==
  ASSUME NEW k \in Key, NEW r \in Request, NEW type \in EntryType, NEW amount \in Int
  PROVE  Entry(k, r, type, amount) \subseteq LedgerRow
BY DEF Entry, LedgerRow

\* The rows of a settlement are well-formed.
LEMMA SettlementRowsType ==
  ASSUME NEW k \in Key, NEW r \in Request, NEW reserved \in Nat, NEW applied \in Nat
  PROVE  SettlementRows(k, r, reserved, applied) \subseteq LedgerRow
BY EntryIsRow DEF SettlementRows, EntryType

\* Writing one key row keeps the invariant on all keys if that row keeps it.
LEMMA KeyRowWrite ==
  ASSUME QuotaInv, NEW k \in Key, NEW row \in KeyRow,
         keys' = [keys EXCEPT ![k] = row],
         row.used <= MaxInt,
         row.row = "live" /\ row.quota # Unlimited => row.used + row.reserved <= row.quota
  PROVE  keys' \in [Key -> KeyRow] /\ UsageFitsWidth' /\ QuotaNeverOverspent'
<1>. USE DEF QuotaInv, TypeOK
<1>1. keys' \in [Key -> KeyRow]
  OBVIOUS
<1>2. \A j \in Key : keys'[j] = IF j = k THEN row ELSE keys[j]
  OBVIOUS
<1>. QED
  BY <1>1, <1>2 DEF UsageFitsWidth, QuotaNeverOverspent, Live, Finite

\* At the first state no key exists.
LEMMA InitQuotaInv == Init => QuotaInv
BY DEF Init, QuotaInv, TypeOK, QuotaNeverOverspent, UsageFitsWidth, KeyRow, LogRow, GatewayRow, Live

\* The counters of a row, as numbers.
LEMMA KeyRowType ==
  ASSUME TypeOK, NEW k \in Key
  PROVE  /\ keys[k].used \in Nat /\ keys[k].reserved \in Nat
         /\ keys[k].quota # Unlimited => keys[k].quota \in Nat
BY QuotaIsNat DEF TypeOK, KeyRow

\* Administration: a new quota covers what is used and reserved, a reset or a
\* deletion needs an empty reservation.
LEMMA AdminStep ==
  ASSUME QuotaInv, AdminNext
  PROVE  QuotaInv'
<1>. USE DEF QuotaInv
<1>. PICK k \in Key :
       \/ \E q \in Quotas \union {Unlimited} : CreateDownstreamKey(k, q)
       \/ \E q \in Quotas \union {Unlimited}, e \in BOOLEAN : UpdateDownstreamKey(k, q, e)
       \/ DeleteDownstreamKey(k)
       \/ ResetDownstreamKeyUsage(k)
  BY DEF AdminNext
<1>1. ASSUME NEW q \in Quotas \union {Unlimited}, CreateDownstreamKey(k, q)
      PROVE  QuotaInv'
  <2>. DEFINE row == [row |-> "live", enabled |-> TRUE, quota |-> q, used |-> 0, reserved |-> 0]
  <2>1. row \in KeyRow /\ row.used = 0 /\ row.reserved = 0 /\ row.quota = q
    BY DEF KeyRow
  <2>2. keys' = [keys EXCEPT ![k] = row] /\ UNCHANGED <<log, ledger, gw, up>>
    BY <1>1 DEF CreateDownstreamKey
  <2>. HIDE DEF row
  <2>3. /\ row.used <= MaxInt
        /\ row.quota # Unlimited => row.used + row.reserved <= row.quota
    BY <2>1, QuotaIsNat
  <2>4. keys' \in [Key -> KeyRow] /\ UsageFitsWidth' /\ QuotaNeverOverspent'
    BY <2>1, <2>2, <2>3, KeyRowWrite
  <2>. QED
    BY <2>2, <2>4 DEF TypeOK
<1>2. ASSUME NEW q \in Quotas \union {Unlimited}, NEW e \in BOOLEAN,
             UpdateDownstreamKey(k, q, e)
      PROVE  QuotaInv'
  <2>. DEFINE row == [keys[k] EXCEPT !.quota = q, !.enabled = e]
  <2>1. /\ row \in KeyRow
        /\ row.used = keys[k].used /\ row.reserved = keys[k].reserved /\ row.quota = q
    BY DEF KeyRow, TypeOK
  <2>2. keys' = [keys EXCEPT ![k] = row] /\ UNCHANGED <<log, ledger, gw, up>>
    BY <1>2 DEF UpdateDownstreamKey
  <2>3. q # Unlimited => q >= keys[k].used /\ q - keys[k].used >= keys[k].reserved
    BY <1>2 DEF UpdateDownstreamKey
  <2>. HIDE DEF row
  <2>4. row.quota # Unlimited => row.used + row.reserved <= row.quota
    BY <2>1, <2>3, QuotaIsNat, KeyRowType
  <2>5. row.used <= MaxInt
    BY <2>1 DEF UsageFitsWidth
  <2>6. keys' \in [Key -> KeyRow] /\ UsageFitsWidth' /\ QuotaNeverOverspent'
    BY <2>1, <2>2, <2>4, <2>5, KeyRowWrite
  <2>. QED
    BY <2>2, <2>6 DEF TypeOK
<1>3. CASE DeleteDownstreamKey(k)
  <2>. DEFINE row == [row |-> "deleted", enabled |-> FALSE, quota |-> Unlimited,
                      used |-> 0, reserved |-> 0]
  <2>1. row \in KeyRow /\ row.used = 0 /\ row.row = "deleted"
    BY DEF KeyRow
  <2>2. keys' = [keys EXCEPT ![k] = row] /\ UNCHANGED <<gw, up>>
    BY <1>3 DEF DeleteDownstreamKey
  <2>3. log' \in [Request -> LogRow] /\ ledger' \subseteq LedgerRow
    BY <1>3 DEF DeleteDownstreamKey, LogRow, TypeOK
  <2>. HIDE DEF row
  <2>5. row.used <= MaxInt
    BY <2>1
  <2>4. keys' \in [Key -> KeyRow] /\ UsageFitsWidth' /\ QuotaNeverOverspent'
    BY <2>1, <2>2, <2>5, KeyRowWrite
  <2>. QED
    BY <2>2, <2>3, <2>4 DEF TypeOK
<1>4. CASE ResetDownstreamKeyUsage(k)
  <2>. DEFINE row == [keys[k] EXCEPT !.used = 0]
  <2>1. /\ row \in KeyRow
        /\ row.used = 0 /\ row.reserved = keys[k].reserved /\ row.quota = keys[k].quota
    BY DEF KeyRow, TypeOK
  <2>2. /\ keys' = [keys EXCEPT ![k] = row] /\ UNCHANGED <<log, gw, up>>
        /\ ledger' \subseteq ledger
        /\ keys[k].reserved = 0
    BY <1>4 DEF ResetDownstreamKeyUsage
  <2>. HIDE DEF row
  <2>3. /\ row.used <= MaxInt
        /\ row.quota # Unlimited => row.used + row.reserved <= row.quota
    BY <2>1, <2>2, KeyRowType
  <2>4. keys' \in [Key -> KeyRow] /\ UsageFitsWidth' /\ QuotaNeverOverspent'
    BY <2>1, <2>2, <2>3, KeyRowWrite
  <2>. QED
    BY <2>2, <2>4 DEF TypeOK
<1>. QED
  BY <1>1, <1>2, <1>3, <1>4

\* Admission: the conditional UPDATE reserves only what is left.
LEMMA StartStep ==
  ASSUME QuotaInv, NEW r \in Request, NEW a \in Amounts, StartRequest(r, a)
  PROVE  QuotaInv'
<1>. DEFINE k == gw[r].key
            reserved == Reservation(r, a)
            row == [keys[k] EXCEPT !.reserved = @ + reserved]
<1>. USE DEF QuotaInv
<1>1. k \in Key /\ reserved \in Nat /\ gw[r] \in GatewayRow
  BY DEF StartRequest, Admits, Live, Reservation, TypeOK
<1>2. /\ row \in KeyRow
      /\ row.used = keys[k].used /\ row.reserved = keys[k].reserved + reserved
      /\ row.quota = keys[k].quota
  BY <1>1 DEF TypeOK, KeyRow
<1>3. /\ keys' = [keys EXCEPT ![k] = row]
      /\ log' = [log EXCEPT ![r] = [status |-> "running", key |-> k]]
      /\ gw' = [gw EXCEPT ![r] = [@ EXCEPT !.pc = "inflight", !.reserved = reserved]]
      /\ ledger' = ledger \union Entry(k, r, "reserve", reserved)
      /\ up' = up
      /\ IF gw[r].finite THEN Admits(k, reserved) ELSE reserved = 0
  BY DEF StartRequest, Reservation
<1>. HIDE DEF k, reserved, row
<1>4. ledger' \subseteq LedgerRow
  BY <1>1, <1>3, EntryIsRow DEF EntryType, TypeOK
<1>5. log' \in [Request -> LogRow]
  BY <1>1, <1>3 DEF LogRow, TypeOK
<1>6. gw' \in [Request -> GatewayRow]
  BY <1>1, <1>3 DEF GatewayRow, TypeOK
<1>7. /\ row.used <= MaxInt
      /\ row.row = "live" /\ row.quota # Unlimited => row.used + row.reserved <= row.quota
  <2>1. CASE gw[r].finite
    BY <2>1, <1>1, <1>2, <1>3, KeyRowType DEF Admits, UsageFitsWidth
  <2>2. CASE ~gw[r].finite
    <3>1. row.row = keys[k].row /\ row.reserved = keys[k].reserved
      BY <2>2, <1>1, <1>2, <1>3, KeyRowType DEF row
    <3>. QED
      BY <3>1, <1>1, <1>2 DEF UsageFitsWidth, QuotaNeverOverspent, Live, Finite
  <2>. QED
    BY <2>1, <2>2
<1>8. keys' \in [Key -> KeyRow] /\ UsageFitsWidth' /\ QuotaNeverOverspent'
  BY <1>1, <1>2, <1>3, <1>7, KeyRowWrite
<1>. QED
  BY <1>3, <1>4, <1>5, <1>6, <1>8 DEF TypeOK

\* Settlement: the charge is clipped to what this request's reservation and the
\* rest of the quota leave, whatever the price engine asked for.
LEMMA SettleStep ==
  ASSUME QuotaInv, NEW r \in Request, NEW charged \in Amounts, Settle(r, charged),
         gw' \in [Request -> GatewayRow], up' \in BOOLEAN
  PROVE  QuotaInv'
<1>. DEFINE k == gw[r].key
            reserved == gw[r].reserved
            applied == Applied(k, reserved, charged)
            row == [keys[k] EXCEPT !.reserved = keys[k].reserved - reserved,
                                   !.used = keys[k].used + applied]
<1>. USE DEF QuotaInv
<1>1. k \in Key /\ reserved \in Nat /\ charged \in Nat
  BY DEF Settle, Live, TypeOK, GatewayRow
<1>2. /\ keys' = [keys EXCEPT ![k] = row]
      /\ log' = [log EXCEPT ![r].status = "finished"]
      /\ ledger' = ledger \union SettlementRows(k, r, reserved, applied)
      /\ QuotaStateValid(k, reserved)
      /\ keys[k].used <= MaxInt - applied
  BY DEF Settle, Settled
<1>3. /\ applied \in Nat
      /\ keys[k].reserved - reserved \in Nat
      /\ Finite(k) => applied <= keys[k].quota - keys[k].used - (keys[k].reserved - reserved)
  <2>1. /\ keys[k].used \in Nat /\ keys[k].reserved \in Nat
        /\ keys[k].quota # Unlimited => keys[k].quota \in Nat
    BY <1>1, KeyRowType
  <2>2. QuotaStateValid(k, reserved)
    BY <1>2
  <2>3. reserved \in Nat /\ charged \in Nat
    BY <1>1
  <2>. HIDE DEF QuotaInv
  <2>. QED BY <2>1, <2>2, <2>3 DEF Applied, QuotaStateValid, Available, Finite
<1>. HIDE DEF k, reserved, applied
<1>4. /\ row \in KeyRow
      /\ row.used = keys[k].used + applied /\ row.reserved = keys[k].reserved - reserved
      /\ row.quota = keys[k].quota
  <2>1. keys[k] \in KeyRow /\ keys[k].used + applied \in Nat
    BY <1>1, <1>3, KeyRowType DEF TypeOK
  <2>. QED
    BY <2>1, <1>3 DEF KeyRow
<1>. HIDE DEF row
<1>5. ledger' \subseteq LedgerRow
  BY <1>1, <1>2, <1>3, SettlementRowsType DEF TypeOK
<1>6. log' \in [Request -> LogRow]
  BY <1>2 DEF LogRow, TypeOK
<1>7. /\ row.used <= MaxInt
      /\ row.quota # Unlimited => row.used + row.reserved <= row.quota
  <2>1. /\ keys[k].used \in Nat /\ keys[k].reserved \in Nat
        /\ keys[k].quota # Unlimited => keys[k].quota \in Nat
    BY <1>1, KeyRowType
  <2>2. row.used <= MaxInt
    BY <2>1, <1>2, <1>3, <1>4
  <2>3. ASSUME keys[k].quota # Unlimited
        PROVE  keys[k].used + applied + (keys[k].reserved - reserved) <= keys[k].quota
    BY <2>1, <2>3, <1>1, <1>3 DEF Finite
  <2>. QED
    BY <2>2, <2>3, <1>4
<1>8. keys' \in [Key -> KeyRow] /\ UsageFitsWidth' /\ QuotaNeverOverspent'
  BY <1>1, <1>2, <1>4, <1>7, KeyRowWrite
<1>. QED
  BY <1>5, <1>6, <1>8 DEF TypeOK

\* Requests: only admission and settlement touch a key.
LEMMA RequestStep ==
  ASSUME QuotaInv, RequestNext
  PROVE  QuotaInv'
<1>. PICK r \in Request :
       \/ \E k \in Key : AuthenticateDownstreamKey(r, k)
       \/ \E a \in Amounts : StartRequest(r, a)
       \/ StartRequestRejected(r)
       \/ \E a \in Amounts : Finish(r, a)
       \/ \E a \in Amounts : FinishAcknowledgementLost(r, a)
       \/ FinishFails(r)
  BY DEF RequestNext
<1>. USE DEF QuotaInv
<1>1. Forgotten \in GatewayRow /\ AfterError(gw[r]) \in GatewayRow
  BY DEF Forgotten, AfterError, TypeOK, GatewayRow
<1>2. ASSUME UNCHANGED <<keys, log, ledger, up>>, gw' \in [Request -> GatewayRow]
      PROVE  QuotaInv'
  BY <1>2 DEF TypeOK, QuotaNeverOverspent, UsageFitsWidth, Live, Finite
<1>3. ASSUME NEW k \in Key, AuthenticateDownstreamKey(r, k) PROVE QuotaInv'
  <2>1. gw' \in [Request -> GatewayRow]
    BY <1>3 DEF AuthenticateDownstreamKey, TypeOK, GatewayRow, Finite
  <2>. QED
    BY <2>1, <1>2, <1>3 DEF AuthenticateDownstreamKey
<1>4. CASE StartRequestRejected(r)
  BY <1>1, <1>2, <1>4 DEF StartRequestRejected, TypeOK
<1>5. CASE FinishFails(r)
  BY <1>1, <1>2, <1>5 DEF FinishFails, TypeOK
<1>6. ASSUME NEW a \in Amounts, Finish(r, a) PROVE QuotaInv'
  <2>1. gw' \in [Request -> GatewayRow] /\ up' \in BOOLEAN /\ Settle(r, a)
    BY <1>1, <1>6 DEF Finish, TypeOK
  <2>. QED
    BY <2>1, SettleStep
<1>7. ASSUME NEW a \in Amounts, FinishAcknowledgementLost(r, a) PROVE QuotaInv'
  <2>1. gw' \in [Request -> GatewayRow] /\ up' \in BOOLEAN /\ Settle(r, a)
    BY <1>1, <1>7 DEF FinishAcknowledgementLost, TypeOK
  <2>. QED
    BY <2>1, SettleStep
<1>. QED
  BY <1>3, <1>4, <1>5, <1>6, <1>7, StartStep

\* Startup: recovery only gives back what the counter of the key holds.
LEMMA RecoveryStep ==
  ASSUME QuotaInv, RecoverRunningRequests
  PROVE  QuotaInv'
<1>. USE DEF QuotaInv
<1>1. \A k \in Key : keys'[k] = [keys[k] EXCEPT !.reserved = keys[k].reserved - Orphaned(k)]
  BY DEF RecoverRunningRequests
<1>2. \A k \in Key : Orphaned(k) \in 0..keys[k].reserved
  BY DEF RecoverRunningRequests
<1>3. ASSUME NEW k \in Key
      PROVE  /\ keys'[k] \in KeyRow
             /\ keys'[k].row = keys[k].row /\ keys'[k].quota = keys[k].quota
             /\ keys'[k].used = keys[k].used /\ keys'[k].reserved <= keys[k].reserved
  <2>. DEFINE left == keys[k].reserved - Orphaned(k)
  <2>1. left \in Nat /\ left <= keys[k].reserved
    BY <1>2, KeyRowType
  <2>2. keys[k] \in KeyRow /\ keys'[k] = [keys[k] EXCEPT !.reserved = left]
    BY <1>1 DEF TypeOK
  <2>. HIDE DEF left
  <2>. QED
    BY <2>1, <2>2 DEF KeyRow
<1>4. keys' \in [Key -> KeyRow]
  BY <1>3 DEF RecoverRunningRequests
<1>5. QuotaNeverOverspent' /\ UsageFitsWidth'
  <2>1. ASSUME NEW k \in Key
        PROVE  /\ keys[k].used \in Nat /\ keys[k].reserved \in Nat /\ keys'[k].reserved \in Nat
               /\ keys[k].quota # Unlimited => keys[k].quota \in Nat
    BY <1>3, KeyRowType DEF KeyRow
  <2>. QED
    BY <1>3, <2>1 DEF QuotaNeverOverspent, UsageFitsWidth, Live, Finite
<1>6. ASSUME NEW k \in Key, NEW r \in Request, Running(r)
      PROVE  Entry(k, r, "release", Outstanding(r, k)) \subseteq LedgerRow
  BY <1>6, EntryIsRow DEF RecoverRunningRequests, EntryType
<1>7. ledger' \subseteq LedgerRow
  BY <1>6 DEF RecoverRunningRequests, TypeOK
<1>8. log' \in [Request -> LogRow] /\ up' \in BOOLEAN /\ gw' = gw
  BY DEF RecoverRunningRequests, TypeOK, LogRow
<1>. QED
  BY <1>4, <1>5, <1>7, <1>8 DEF TypeOK

\* Every step keeps the invariant.
LEMMA NextQuotaInv == QuotaInv /\ [Next]_vars => QuotaInv'
<1>. SUFFICES ASSUME QuotaInv, [Next]_vars PROVE QuotaInv'
  OBVIOUS
<1>1. ASSUME UNCHANGED keys, log' \in [Request -> LogRow], ledger' \subseteq ledger,
             gw' \in [Request -> GatewayRow], up' \in BOOLEAN
      PROVE  QuotaInv'
  BY <1>1 DEF QuotaInv, TypeOK, QuotaNeverOverspent, UsageFitsWidth, Live, Finite
<1>2. ASSUME NEW old \in SUBSET Request, DeleteOldLogs(old) PROVE QuotaInv'
  <2>1. log' \in [Request -> LogRow]
    BY <1>2 DEF DeleteOldLogs, QuotaInv, TypeOK, LogRow
  <2>2. UNCHANGED <<keys, gw, up>> /\ ledger' \subseteq ledger
    BY <1>2 DEF DeleteOldLogs
  <2>. QED
    BY <1>1, <2>1, <2>2 DEF QuotaInv, TypeOK
<1>3. CASE Crash
  <2>1. gw' \in [Request -> GatewayRow]
    BY <1>3 DEF Crash, QuotaInv, TypeOK, GatewayRow, Forgotten
  <2>. QED
    BY <1>1, <1>3, <2>1 DEF Crash, QuotaInv, TypeOK
<1>4. CASE UNCHANGED vars
  BY <1>1, <1>4 DEF vars, QuotaInv, TypeOK
<1>. QED
  BY <1>2, <1>3, <1>4, AdminStep, RequestStep, RecoveryStep DEF Next

\* For every set of keys and requests, every quota the administrator may set
\* and every price: the variables keep their types, no finite quota is
\* overspent and no usage counter leaves 64 bits.
THEOREM QuotaInvariant == Spec => []QuotaInv
BY InitQuotaInv, NextQuotaInv, PTL DEF Spec

\* Every stored value keeps its type: counters are never negative, whatever
\* the order of reservations, settlements and restarts.
THEOREM TypeCorrect == Spec => []TypeOK
<1>1. QuotaInv => TypeOK
  BY DEF QuotaInv
<1>. QED
  BY <1>1, QuotaInvariant, PTL

\* What a key with a finite quota has spent and promised never exceeds it.
THEOREM QuotaSafety == Spec => []QuotaNeverOverspent
<1>1. QuotaInv => QuotaNeverOverspent
  BY DEF QuotaInv
<1>. QED
  BY <1>1, QuotaInvariant, PTL

\* used_micro_usd stays representable.
THEOREM UsageWidth == Spec => []UsageFitsWidth
<1>1. QuotaInv => UsageFitsWidth
  BY DEF QuotaInv
<1>. QED
  BY <1>1, QuotaInvariant, PTL

-----------------------------------------------------------------------------
(* Finishing is final.  The step needs to know that a request that has not   *)
(* been admitted yet has no log row, so that admission cannot reopen one.    *)

\* A request that is not admitted yet has no log row.
FreshInv ==
  \A r \in Request : gw[r].pc \in {"idle", "authed"} => log[r].status = "none"

\* Ledger rows are written for the request of the step only.
LEMMA SettlementRowsRequest ==
  ASSUME NEW k, NEW r, NEW reserved, NEW applied
  PROVE  \A row \in SettlementRows(k, r, reserved, applied) : row.request = r
BY DEF SettlementRows, Entry

\* Administration of keys leaves the requests alone.
LEMMA AdminKeepsRequests ==
  ASSUME TypeOK, AdminNext
  PROVE  /\ gw' = gw /\ ledger' \subseteq ledger
         /\ \A r \in Request : log'[r].status = log[r].status
<1>. PICK k \in Key :
       \/ \E q \in Quotas \union {Unlimited} : CreateDownstreamKey(k, q)
       \/ \E q \in Quotas \union {Unlimited}, e \in BOOLEAN : UpdateDownstreamKey(k, q, e)
       \/ DeleteDownstreamKey(k)
       \/ ResetDownstreamKeyUsage(k)
  BY DEF AdminNext
<1>1. CASE UNCHANGED <<log, ledger, gw>>
  BY <1>1
<1>2. CASE DeleteDownstreamKey(k)
  BY <1>2 DEF DeleteDownstreamKey, TypeOK, LogRow
<1>3. CASE ResetDownstreamKeyUsage(k)
  BY <1>3 DEF ResetDownstreamKeyUsage
<1>. QED
  BY <1>1, <1>2, <1>3 DEF CreateDownstreamKey, UpdateDownstreamKey

\* A settlement finishes its own request only.
LEMMA SettleKeepsOthers ==
  ASSUME TypeOK, NEW r \in Request, NEW a \in Amounts, Settle(r, a)
  PROVE  /\ log[r].status = "running"
         /\ \A q \in Request \ {r} : log'[q] = log[q]
         /\ \A row \in ledger' : row \in ledger \/ row.request = r
<1>1. log[r].status = "running" /\ log' = [log EXCEPT ![r].status = "finished"]
  BY DEF Settle, LogRowOpen, Running
<1>2. ledger' = ledger \union SettlementRows(gw[r].key, r, gw[r].reserved,
                                 Applied(gw[r].key, gw[r].reserved, a))
  BY DEF Settle
<1>. QED
  BY <1>1, <1>2, SettlementRowsRequest DEF TypeOK

\* Admission opens its own request only.
LEMMA StartKeepsOthers ==
  ASSUME TypeOK, NEW r \in Request, NEW a \in Amounts, StartRequest(r, a)
  PROVE  /\ gw[r].pc = "authed" /\ gw'[r].pc = "inflight"
         /\ \A q \in Request \ {r} : log'[q] = log[q] /\ gw'[q] = gw[q]
         /\ \A row \in ledger' : row \in ledger \/ row.request = r
<1>1. /\ gw[r].pc = "authed"
      /\ gw' = [gw EXCEPT ![r] = [@ EXCEPT !.pc = "inflight",
                                           !.reserved = Reservation(r, a)]]
      /\ log' = [log EXCEPT ![r] = [status |-> "running", key |-> gw[r].key]]
      /\ ledger' = ledger \union Entry(gw[r].key, r, "reserve", Reservation(r, a))
  BY DEF StartRequest
<1>2. gw[r] \in GatewayRow
  BY DEF TypeOK
<1>3. gw'[r].pc = "inflight"
  BY <1>1, <1>2 DEF GatewayRow, TypeOK
<1>4. \A row \in Entry(gw[r].key, r, "reserve", Reservation(r, a)) : row.request = r
  BY DEF Entry
<1>. QED
  BY <1>1, <1>3, <1>4 DEF TypeOK

\* Log rows appear at admission only, and admission leaves "authed" for good.
LEMMA NextFreshInv == TypeOK /\ FreshInv /\ [Next]_vars => FreshInv'
<1>. SUFFICES ASSUME TypeOK, FreshInv, [Next]_vars PROVE FreshInv'
  OBVIOUS
<1>. USE DEF FreshInv, TypeOK
<1>1. CASE AdminNext
  BY <1>1, AdminKeepsRequests
<1>2. CASE RequestNext
  <2>. PICK r \in Request :
         \/ \E k \in Key : AuthenticateDownstreamKey(r, k)
         \/ \E a \in Amounts : StartRequest(r, a)
         \/ StartRequestRejected(r)
         \/ \E a \in Amounts : Finish(r, a)
         \/ \E a \in Amounts : FinishAcknowledgementLost(r, a)
         \/ FinishFails(r)
    BY <1>2 DEF RequestNext
  <2>1. ASSUME NEW k \in Key, AuthenticateDownstreamKey(r, k) PROVE FreshInv'
    BY <2>1 DEF AuthenticateDownstreamKey
  <2>2. CASE StartRequestRejected(r)
    BY <2>2 DEF StartRequestRejected, Forgotten
  <2>3. ASSUME NEW a \in Amounts, StartRequest(r, a) PROVE FreshInv'
    BY <2>3, StartKeepsOthers
  <2>4. AfterError(gw[r]).pc \notin {"idle", "authed"}
    BY DEF AfterError, Forgotten, GatewayRow
  <2>5. CASE FinishFails(r)
    BY <2>4, <2>5 DEF FinishFails
  <2>6. ASSUME NEW a \in Amounts, Settle(r, a), gw'[r].pc \notin {"idle", "authed"},
               \A q \in Request \ {r} : gw'[q] = gw[q]
        PROVE  FreshInv'
    BY <2>6, SettleKeepsOthers
  <2>7. ASSUME NEW a \in Amounts, Finish(r, a) PROVE FreshInv'
    BY <2>6, <2>7 DEF Finish, Forgotten
  <2>8. ASSUME NEW a \in Amounts, FinishAcknowledgementLost(r, a) PROVE FreshInv'
    BY <2>4, <2>6, <2>8 DEF FinishAcknowledgementLost
  <2>. QED
    BY <2>1, <2>2, <2>3, <2>5, <2>7, <2>8
<1>3. ASSUME NEW old \in SUBSET Request, DeleteOldLogs(old) PROVE FreshInv'
  BY <1>3 DEF DeleteOldLogs
<1>4. CASE Crash
  BY <1>4 DEF Crash, Forgotten
<1>5. CASE RecoverRunningRequests
  BY <1>5 DEF RecoverRunningRequests, Running
<1>6. CASE UNCHANGED vars
  BY <1>6 DEF vars
<1>. QED
  BY <1>1, <1>2, <1>3, <1>4, <1>5, <1>6 DEF Next

\* The step relation inside FinishedIsFinal.
FinalStep ==
  \A r \in Request :
    log[r].status \in {"finished", "deleted"} =>
      /\ log'[r].status \in {log[r].status, "deleted"}
      /\ \A row \in ledger' : row.request = r => row \in ledger

\* No action reopens a finished request or writes a ledger row for it.
LEMMA NextFinal == TypeOK /\ FreshInv /\ [Next]_vars => FinalStep
<1>. SUFFICES ASSUME TypeOK, FreshInv, [Next]_vars PROVE FinalStep
  OBVIOUS
<1>. USE DEF FreshInv, TypeOK, FinalStep
<1>1. CASE AdminNext
  BY <1>1, AdminKeepsRequests
<1>2. CASE RequestNext
  <2>. PICK r \in Request :
         \/ \E k \in Key : AuthenticateDownstreamKey(r, k)
         \/ \E a \in Amounts : StartRequest(r, a)
         \/ StartRequestRejected(r)
         \/ \E a \in Amounts : Finish(r, a)
         \/ \E a \in Amounts : FinishAcknowledgementLost(r, a)
         \/ FinishFails(r)
    BY <1>2 DEF RequestNext
  <2>1. ASSUME UNCHANGED <<log, ledger>> PROVE FinalStep
    BY <2>1
  <2>2. ASSUME NEW a \in Amounts, StartRequest(r, a) PROVE FinalStep
    BY <2>2, StartKeepsOthers
  <2>3. ASSUME NEW a \in Amounts, Settle(r, a) PROVE FinalStep
    BY <2>3, SettleKeepsOthers
  <2>. QED
    BY <2>1, <2>2, <2>3 DEF AuthenticateDownstreamKey, StartRequestRejected, Finish,
       FinishAcknowledgementLost, FinishFails
<1>3. ASSUME NEW old \in SUBSET Request, DeleteOldLogs(old) PROVE FinalStep
  <2>1. \A r \in Request : log'[r].status \in {log[r].status, "deleted"}
    BY <1>3 DEF DeleteOldLogs, LogRow
  <2>. QED
    BY <1>3, <2>1 DEF DeleteOldLogs
<1>4. CASE Crash
  BY <1>4 DEF Crash
<1>5. CASE RecoverRunningRequests
  <2>1. \A r \in Request : ~Running(r) => log'[r] = log[r]
    BY <1>5 DEF RecoverRunningRequests
  <2>2. \A row \in ledger' : row \in ledger \/ \E r \in Request : Running(r) /\ row.request = r
    BY <1>5 DEF RecoverRunningRequests, Entry
  <2>. QED
    BY <2>1, <2>2 DEF Running
<1>6. CASE UNCHANGED vars
  BY <1>6 DEF vars
<1>. QED
  BY <1>1, <1>2, <1>3, <1>4, <1>5, <1>6 DEF Next

\* No request is charged, released or reopened after it has finished, whatever
\* is retried and however often the process restarts.
THEOREM FinishedStaysFinished == Spec => FinishedIsFinal
<1>1. Init => FreshInv
  BY DEF Init, FreshInv
<1>2. Spec => [](TypeOK /\ FreshInv)
  <2>1. QuotaInv => TypeOK
    BY DEF QuotaInv
  <2>. QED
    BY <1>1, <2>1, NextFreshInv, QuotaInvariant, PTL DEF Spec
<1>3. TypeOK /\ FreshInv /\ [Next]_vars => [FinalStep]_vars
  BY NextFinal
<1>4. Spec => [][FinalStep]_vars
  BY <1>2, <1>3, PTL DEF Spec
<1>. QED
  BY <1>4 DEF FinishedIsFinal, FinalStep

-----------------------------------------------------------------------------
(* The journal of the running requests.                                      *)

\* The journal of a running request is its reservation on the key of its log
\* row, if it reserved anything.
JournalInv ==
  \A row \in ledger :
    /\ row.amount > 0
    /\ log[row.request].status # "none"
    /\ Running(row.request) =>
         /\ row.type = "reserve" /\ row.key = log[row.request].key
         /\ \A other \in ledger : other.request = row.request => other = row

\* A running request keeps its key alive or has lost it; what the gateway
\* remembers of a request it still has to finish is what the rows say, as long
\* as the key lives.
HolderInv ==
  \A r \in Request :
    /\ Running(r) => log[r].key = NoKey \/ Live(log[r].key)
    /\ gw[r].pc \in {"authed", "inflight", "retry"} =>
         gw[r].key \in Key /\ keys[gw[r].key].row # "none"
    /\ gw[r].pc \in {"inflight", "retry"} /\ Running(r) /\ Live(gw[r].key) =>
         log[r].key = gw[r].key /\ Outstanding(r, gw[r].key) = gw[r].reserved

\* The counter of a key is the sum of what the running requests hold on it.
ReservedInv ==
  /\ IsFiniteSet(RunningRequests)
  /\ \A k \in Key : keys[k].reserved = Orphaned(k)

\* A key that does not exist promises nothing.
ClosedInv ==
  \A k \in Key :
    ~Live(k) => keys[k].quota = Unlimited /\ keys[k].used = 0 /\ keys[k].reserved = 0

\* The inductive invariant of the accounts.
AccountInv == JournalInv /\ HolderInv /\ ReservedInv /\ ClosedInv

\* What the journal says of the running requests.
JournalReads ==
  TypeOK /\ JournalInv =>
    \A r \in Request : Running(r) =>
      /\ \A k : Outstanding(r, k) \in Nat
      /\ \A row \in ledger : row.request = r =>
           row.amount \in Nat \ {0} /\ Outstanding(r, row.key) = row.amount
      /\ \A k : (\A row \in ledger : row.request = r => row.key # k) => Outstanding(r, k) = 0
      /\ \A k : k # log[r].key => Outstanding(r, k) = 0

\* A running request has outstanding what its one reservation row says.
LEMMA JournalIsRead == JournalReads
<1>. SUFFICES ASSUME TypeOK, JournalInv, NEW r \in Request, Running(r)
     PROVE  /\ \A k : Outstanding(r, k) \in Nat
            /\ \A row \in ledger : row.request = r =>
                 row.amount \in Nat \ {0} /\ Outstanding(r, row.key) = row.amount
            /\ \A k : (\A row \in ledger : row.request = r => row.key # k) => Outstanding(r, k) = 0
            /\ \A k : k # log[r].key => Outstanding(r, k) = 0
  BY DEF JournalReads
<1>1. ASSUME NEW k, \A row \in ledger : row.request = r => row.key # k
      PROVE  Outstanding(r, k) = 0
  <2>1. RowsOf(r, k) = {}
    BY <1>1 DEF RowsOf
  <2>. QED BY <2>1, NothingOutstanding
<1>2. ASSUME NEW row \in ledger, row.request = r
      PROVE  /\ row.amount \in Nat \ {0} /\ Outstanding(r, row.key) = row.amount
             /\ row.key = log[r].key
  <2>1. row.amount \in Nat /\ row.amount > 0
    BY DEF TypeOK, LedgerRow, JournalInv
  <2>2. RowsOf(r, row.key) = {row} /\ row.type = "reserve" /\ row.key = log[r].key
    BY <1>2 DEF RowsOf, JournalInv
  <2>3. Outstanding(r, row.key) = row.amount
    BY <2>1, <2>2, ReservationOutstanding
  <2>. QED BY <2>1, <2>2, <2>3
<1>3. ASSUME NEW k PROVE Outstanding(r, k) \in Nat
  <2>1. CASE \A row \in ledger : row.request = r => row.key # k
    BY <1>1, <2>1
  <2>2. CASE \E row \in ledger : row.request = r /\ row.key = k
    BY <1>2, <2>2
  <2>. QED BY <2>1, <2>2
<1>4. ASSUME NEW k, k # log[r].key PROVE Outstanding(r, k) = 0
  BY <1>1, <1>2, <1>4
<1>. QED
  BY <1>1, <1>2, <1>3, <1>4

\* The same after a step.
LEMMA JournalIsReadNext == JournalReads'
BY JournalIsRead, PTL

\* The rows of a request decide what it has outstanding.
LEMMA SameRows ==
  ASSUME NEW r, NEW k,
         {row \in ledger' : row.request = r /\ row.key = k} = RowsOf(r, k)
  PROVE  Outstanding(r, k)' = Outstanding(r, k)
<1>1. RowsOf(r, k)' = RowsOf(r, k)
  BY DEF RowsOf
<1>. QED
  BY <1>1 DEF Outstanding

\* The counters and the sums stay as they are.
LEMMA ReservedKept ==
  ASSUME TypeOK, TypeOK', JournalInv, JournalInv', ReservedInv,
         RunningRequests' = RunningRequests,
         \A k \in Key : keys'[k].reserved = keys[k].reserved,
         \A r \in RunningRequests, k \in Key : Outstanding(r, k)' = Outstanding(r, k)
  PROVE  ReservedInv'
<1>1. Countable /\ Countable'
  BY JournalIsRead, JournalIsReadNext DEF Countable, JournalReads, RunningRequests, ReservedInv
<1>2. ASSUME NEW k \in Key PROVE Orphaned(k)' = Orphaned(k)
  <2>1. Orphaned(k) = SumOf(OutstandingOn(k), RunningRequests)
    BY <1>1, OrphanedIsSum DEF OrphanedIsTheSum
  <2>2. Orphaned(k)' = SumOf(OutstandingOn(k)', RunningRequests')
    BY <1>1, OrphanedIsSumNext DEF OrphanedIsTheSum
  <2>3. OutstandingOn(k)' = OutstandingOn(k)
    BY DEF OutstandingOn
  <2>. QED BY <2>1, <2>2, <2>3
<1>. QED
  BY <1>2 DEF ReservedInv

\* A key that promises nothing has no row of a running request.
LEMMA UnreservedKey ==
  ASSUME TypeOK, JournalInv, ReservedInv, NEW k \in Key, keys[k].reserved = 0
  PROVE  \A row \in ledger : Running(row.request) => row.key # k
<1>. SUFFICES ASSUME NEW row \in ledger, Running(row.request), row.key = k PROVE FALSE
  OBVIOUS
<1>. DEFINE r == row.request
<1>0. r \in RunningRequests
  BY DEF RunningRequests, TypeOK, LedgerRow
<1>1. Countable
  BY JournalIsRead DEF Countable, JournalReads, RunningRequests, ReservedInv
<1>2. SumOf(OutstandingOn(k), RunningRequests) = 0
  BY <1>1, OrphanedIsSum DEF OrphanedIsTheSum, ReservedInv
<1>3. Outstanding(r, k) \in Nat \ {0}
  BY <1>0, JournalIsRead DEF JournalReads, RunningRequests
<1>. DEFINE f == OutstandingOn(k)
<1>4. \A q \in RunningRequests : f[q] \in Nat
  BY <1>1 DEF Countable, OutstandingOn
<1>5. f[r] = Outstanding(r, k)
  BY <1>0 DEF OutstandingOn
<1>6. IsFiniteSet(RunningRequests)
  BY DEF ReservedInv
<1>. HIDE DEF f, r
<1>7. f[r] <= SumOf(f, RunningRequests)
  BY <1>0, <1>4, <1>6, SumBounds
<1>. QED
  BY <1>2, <1>3, <1>5, <1>7 DEF f

\* Steps of the gateway's memory alone: a request is forgotten or tried again.
LEMMA MemoryStep ==
  ASSUME TypeOK, TypeOK', AccountInv, UNCHANGED <<keys, log, ledger>>,
         \A r \in Request : gw'[r] \in {gw[r], Forgotten, AfterError(gw[r])}
                            /\ (gw'[r] # gw[r] /\ gw'[r] # Forgotten => gw[r].pc = "inflight")
  PROVE  AccountInv'
<1>1. ASSUME NEW r \in Request
      PROVE  \/ gw'[r].pc = "gone"
             \/ gw'[r] = gw[r]
             \/ /\ gw[r].pc = "inflight" /\ gw'[r].pc = "retry"
                /\ gw'[r].key = gw[r].key /\ gw'[r].reserved = gw[r].reserved
  BY DEF Forgotten, AfterError, TypeOK, GatewayRow
<1>2. JournalInv' /\ ClosedInv'
  BY DEF AccountInv, JournalInv, ClosedInv, Running, Live
<1>3. \A r, k : Outstanding(r, k)' = Outstanding(r, k)
  BY DEF Outstanding, RowsOf
<1>4. HolderInv'
  BY <1>1, <1>3 DEF AccountInv, HolderInv, Running, Live
<1>6. ReservedInv'
  <2>1. RunningRequests' = RunningRequests
    BY DEF RunningRequests, Running
  <2>. QED
    BY <1>2, <1>3, <2>1, ReservedKept DEF AccountInv
<1>. QED
  BY <1>2, <1>4, <1>6 DEF AccountInv

\* Administration: a key is created, changed, deleted or reset.
LEMMA AdminAccounts ==
  ASSUME TypeOK, TypeOK', AccountInv, AdminNext
  PROVE  AccountInv'
<1>. PICK k \in Key :
       \/ \E q \in Quotas \union {Unlimited} : CreateDownstreamKey(k, q)
       \/ \E q \in Quotas \union {Unlimited}, e \in BOOLEAN : UpdateDownstreamKey(k, q, e)
       \/ DeleteDownstreamKey(k)
       \/ ResetDownstreamKeyUsage(k)
  BY DEF AdminNext
<1>1. ASSUME log' = log, ledger' = ledger, gw' = gw,
             \A j \in Key : keys'[j].reserved = keys[j].reserved,
             \A j \in Key : \/ keys'[j].row = keys[j].row
                            \/ keys[j].row = "none" /\ keys'[j].row = "live",
             ClosedInv'
      PROVE  AccountInv'
  <2>1. JournalInv'
    BY <1>1 DEF AccountInv, JournalInv, Running
  <2>2. \A r, j : Outstanding(r, j)' = Outstanding(r, j)
    BY <1>1 DEF Outstanding, RowsOf
  <2>3. HolderInv'
    BY <1>1, <2>2 DEF AccountInv, HolderInv, Running, Live
  <2>4. RunningRequests' = RunningRequests
    BY <1>1 DEF RunningRequests, Running
  <2>5. ReservedInv'
    BY <1>1, <2>1, <2>2, <2>4, ReservedKept DEF AccountInv
  <2>. QED
    BY <1>1, <2>1, <2>3, <2>5 DEF AccountInv
<1>2. ASSUME NEW q \in Quotas \union {Unlimited}, CreateDownstreamKey(k, q)
      PROVE  AccountInv'
  <2>1. /\ keys[k].row = "none" /\ keys'[k].row = "live" /\ keys'[k].reserved = 0
        /\ \A j \in Key \ {k} : keys'[j] = keys[j]
        /\ log' = log /\ ledger' = ledger /\ gw' = gw
    BY <1>2 DEF CreateDownstreamKey, TypeOK
  <2>2. keys[k].reserved = 0
    BY <2>1 DEF AccountInv, ClosedInv, Live
  <2>3. ClosedInv'
    BY <2>1 DEF AccountInv, ClosedInv, Live
  <2>4. \A j \in Key : /\ keys'[j].reserved = keys[j].reserved
                      /\ \/ keys'[j].row = keys[j].row
                         \/ keys[j].row = "none" /\ keys'[j].row = "live"
    BY <2>1, <2>2
  <2>. QED
    BY <1>1, <2>1, <2>3, <2>4
<1>3. ASSUME NEW q \in Quotas \union {Unlimited}, NEW e \in BOOLEAN,
             UpdateDownstreamKey(k, q, e)
      PROVE  AccountInv'
  <2>1. /\ keys[k] \in KeyRow /\ Live(k) /\ log' = log /\ ledger' = ledger /\ gw' = gw
        /\ keys' = [keys EXCEPT ![k] = [keys[k] EXCEPT !.quota = q, !.enabled = e]]
    BY <1>3 DEF UpdateDownstreamKey, TypeOK
  <2>2. /\ keys'[k].row = keys[k].row /\ keys'[k].reserved = keys[k].reserved
        /\ \A j \in Key \ {k} : keys'[j] = keys[j]
    BY <2>1 DEF KeyRow, TypeOK
  <2>3. ClosedInv'
    BY <2>1, <2>2 DEF AccountInv, ClosedInv, Live
  <2>4. \A j \in Key : /\ keys'[j].reserved = keys[j].reserved
                      /\ \/ keys'[j].row = keys[j].row
                         \/ keys[j].row = "none" /\ keys'[j].row = "live"
    BY <2>1, <2>2
  <2>. QED
    BY <1>1, <2>1, <2>3, <2>4
<1>4. ASSUME keys[k].reserved = 0, keys'[k].reserved = 0, Live(k),
             \A j \in Key \ {k} : keys'[j] = keys[j],
             ledger' = {row \in ledger : row.key # k}, gw' = gw,
             log' \in [Request -> LogRow],
             \A r \in Request : log'[r].status = log[r].status,
             \A r \in Request : log[r].key # k => log'[r] = log[r],
             \/ log' = log /\ Live(k)'
             \/ ~Live(k)' /\ keys'[k].row # "none"
                /\ \A r \in Request : log[r].key = k => log'[r].key = NoKey,
             ClosedInv'
      PROVE  AccountInv'
  <2>1. \A row \in ledger : Running(row.request) => row.key # k
    BY <1>4, UnreservedKey DEF AccountInv
  <2>2. JournalInv'
    <3>1. \A row \in ledger : row.request \in Request
      BY DEF TypeOK, LedgerRow
    <3>. QED BY <1>4, <2>1, <3>1 DEF AccountInv, JournalInv, Running
  <2>3. ASSUME NEW r \in Request, Running(r), NEW j
        PROVE  Outstanding(r, j)' = Outstanding(r, j)
    <3>1. {row \in ledger' : row.request = r /\ row.key = j} = RowsOf(r, j)
      BY <1>4, <2>1, <2>3 DEF RowsOf
    <3>. QED BY <3>1, SameRows
  <2>4. \A j \in Key : j # k => (Live(j)' <=> Live(j)) /\ keys'[j].row = keys[j].row
    BY <1>4 DEF Live
  <2>5. keys[k].row # "none" /\ keys'[k].row # "none"
    BY <1>4 DEF Live
  <2>6. HolderInv'
    <3>1. \A r \in Request : Running(r)' <=> Running(r)
      BY <1>4 DEF Running
    <3>2. ASSUME NEW r \in Request, Running(r)' PROVE log'[r].key = NoKey \/ Live(log[r].key)'
      <4>1. log'[r].key \in Key \union {NoKey} /\ log[r].key \in Key \union {NoKey}
        BY <1>4 DEF LogRow, TypeOK
      <4>2. log[r].key = NoKey \/ Live(log[r].key)
        BY <3>1, <3>2 DEF AccountInv, HolderInv
      <4>. QED BY <1>4, <2>4, <4>1, <4>2 DEF Live
    <3>3. ASSUME NEW r \in Request, gw'[r].pc \in {"authed", "inflight", "retry"}
          PROVE  gw'[r].key \in Key /\ keys'[gw'[r].key].row # "none"
      BY <1>4, <2>4, <2>5, <3>3 DEF AccountInv, HolderInv
    <3>4. ASSUME NEW r \in Request, NEW g \in Key, g = gw[r].key,
                 gw[r].pc \in {"inflight", "retry"}, Running(r)', Live(g)'
          PROVE  log'[r].key = g /\ Outstanding(r, g)' = gw[r].reserved
      <4>1. Running(r) /\ Live(g)
        BY <1>4, <2>4, <3>1, <3>4
      <4>2. log[r].key = g /\ Outstanding(r, g) = gw[r].reserved
        BY <3>4, <4>1 DEF AccountInv, HolderInv
      <4>3. log'[r] = log[r]
        BY <1>4, <3>4, <4>1, <4>2
      <4>. QED BY <2>3, <4>1, <4>2, <4>3
    <3>5. gw' = gw
      BY <1>4
    <3>6. HolderInv' = \A r \in Request :
            /\ Running(r)' => log'[r].key = NoKey \/ Live(log[r].key)'
            /\ gw[r].pc \in {"authed", "inflight", "retry"} =>
                 gw[r].key \in Key /\ keys'[gw[r].key].row # "none"
            /\ gw[r].pc \in {"inflight", "retry"} /\ Running(r)' /\ Live(gw[r].key)' =>
                 log'[r].key = gw'[r].key /\ Outstanding(r, gw[r].key)' = gw[r].reserved
      BY <3>5 DEF HolderInv
    <3>. QED BY <3>2, <3>3, <3>4, <3>5, <3>6
  <2>7. ReservedInv'
    <3>1. RunningRequests' = RunningRequests
      BY <1>4 DEF RunningRequests, Running
    <3>2. \A r \in RunningRequests, j \in Key : Outstanding(r, j)' = Outstanding(r, j)
      BY <2>3 DEF RunningRequests
    <3>3. \A j \in Key : keys'[j].reserved = keys[j].reserved
      BY <1>4
    <3>. QED BY <2>2, <3>1, <3>2, <3>3, ReservedKept DEF AccountInv
  <2>. QED
    BY <1>4, <2>2, <2>6, <2>7 DEF AccountInv
<1>5. CASE DeleteDownstreamKey(k)
  <2>1. /\ keys[k].reserved = 0 /\ Live(k)
        /\ keys'[k] = [row |-> "deleted", enabled |-> FALSE, quota |-> Unlimited,
                       used |-> 0, reserved |-> 0]
        /\ \A j \in Key \ {k} : keys'[j] = keys[j]
        /\ ledger' = {row \in ledger : row.key # k} /\ gw' = gw
    BY <1>5 DEF DeleteDownstreamKey, TypeOK
  <2>2. \A r \in Request : log'[r] = IF log[r].key = k THEN [log[r] EXCEPT !.key = NoKey] ELSE log[r]
    BY <1>5 DEF DeleteDownstreamKey
  <2>3. \A r \in Request : /\ log'[r].status = log[r].status
                           /\ log[r].key = k => log'[r].key = NoKey
    BY <2>2 DEF TypeOK, LogRow
  <2>4. ~Live(k)' /\ keys'[k].row # "none" /\ keys'[k].reserved = 0
    BY <2>1 DEF Live
  <2>5. ClosedInv'
    BY <2>1 DEF AccountInv, ClosedInv, Live
  <2>6. log' \in [Request -> LogRow]
    BY DEF TypeOK
  <2>. QED
    BY <1>4, <2>1, <2>2, <2>3, <2>4, <2>5, <2>6
<1>6. CASE ResetDownstreamKeyUsage(k)
  <2>1. /\ keys[k].reserved = 0 /\ Live(k) /\ keys[k] \in KeyRow
        /\ keys' = [keys EXCEPT ![k] = [keys[k] EXCEPT !.used = 0]]
        /\ ledger' = {row \in ledger : row.key # k} /\ gw' = gw /\ log' = log
    BY <1>6 DEF ResetDownstreamKeyUsage, TypeOK
  <2>2. /\ \A j \in Key \ {k} : keys'[j] = keys[j]
        /\ keys'[k].reserved = 0 /\ keys'[k].row = keys[k].row
    BY <2>1 DEF TypeOK, KeyRow
  <2>3. Live(k)' /\ ClosedInv'
    BY <2>1, <2>2 DEF AccountInv, ClosedInv, Live
  <2>4. log' \in [Request -> LogRow] /\ \A r \in Request : log'[r].status = log[r].status
    BY <2>1 DEF TypeOK
  <2>. QED
    BY <1>4, <2>1, <2>2, <2>3, <2>4
<1>. QED
  BY <1>2, <1>3, <1>5, <1>6

\* A request starts to run and adds what it reserves.
LEMMA ReservedAdds ==
  ASSUME TypeOK, TypeOK', JournalInv, JournalInv', ReservedInv,
         NEW r, r \notin RunningRequests,
         RunningRequests' = RunningRequests \union {r},
         \A q \in RunningRequests, k \in Key : Outstanding(q, k)' = Outstanding(q, k),
         \A k \in Key : keys'[k].reserved = keys[k].reserved + Outstanding(r, k)'
  PROVE  ReservedInv'
<1>. DEFINE S == RunningRequests
            Snext == RunningRequests'
<1>1. IsFiniteSet(S) /\ IsFiniteSet(Snext)
  BY FS_AddElement DEF ReservedInv
<1>2. Countable /\ Countable'
  BY <1>1, JournalIsRead, JournalIsReadNext DEF Countable, JournalReads, RunningRequests
<1>3. ASSUME NEW k \in Key PROVE keys'[k].reserved = Orphaned(k)'
  <2>. DEFINE f == OutstandingOn(k)
              g == OutstandingOn(k)'
  <2>1. Orphaned(k) = SumOf(f, S)
    BY <1>2, OrphanedIsSum DEF OrphanedIsTheSum
  <2>2. Orphaned(k)' = SumOf(g, Snext)
    BY <1>2, OrphanedIsSumNext DEF OrphanedIsTheSum
  <2>3. \A q \in S : f[q] = g[q] /\ f[q] \in Nat
    BY <1>2 DEF OutstandingOn, Countable
  <2>4. \A q \in Snext : g[q] \in Nat
    BY <1>2 DEF OutstandingOn, Countable
  <2>5. r \in Snext /\ Snext \ {r} = S /\ g[r] = Outstanding(r, k)'
    BY DEF OutstandingOn
  <2>6. SumOf(f, S) = SumOf(g, S)
    <3>. HIDE DEF f, g, S
    <3>. QED BY <1>1, <2>3, SumSame
  <2>7. SumOf(g, Snext) = g[r] + SumOf(g, S)
    <3>1. SumOf(g, Snext) = g[r] + SumOf(g, Snext \ {r})
      <4>. HIDE DEF g, Snext
      <4>. QED BY <1>1, <2>4, <2>5, SumSplit
    <3>. QED BY <2>5, <3>1
  <2>8. keys[k].reserved \in Nat /\ keys[k].reserved = SumOf(f, S) /\ g[r] \in Nat
    BY <2>1, <2>4, <2>5, KeyRowType DEF ReservedInv
  <2>9. keys'[k].reserved = keys[k].reserved + g[r]
    BY <2>5
  <2>. HIDE DEF f, g, S, Snext
  <2>. QED BY <2>2, <2>6, <2>7, <2>8, <2>9
<1>. QED
  BY <1>1, <1>3 DEF ReservedInv

\* A request ends and takes away what it reserved.
LEMMA ReservedDrops ==
  ASSUME TypeOK, TypeOK', JournalInv, JournalInv', ReservedInv,
         NEW r \in RunningRequests,
         RunningRequests' = RunningRequests \ {r},
         \A q \in RunningRequests \ {r}, k \in Key : Outstanding(q, k)' = Outstanding(q, k),
         \A k \in Key : keys'[k].reserved = keys[k].reserved - Outstanding(r, k)
  PROVE  ReservedInv'
<1>. DEFINE S == RunningRequests
            Snext == RunningRequests'
<1>1. IsFiniteSet(S) /\ IsFiniteSet(Snext)
  BY FS_Subset DEF ReservedInv
<1>2. Countable /\ Countable'
  BY <1>1, JournalIsRead, JournalIsReadNext DEF Countable, JournalReads, RunningRequests
<1>3. ASSUME NEW k \in Key PROVE keys'[k].reserved = Orphaned(k)'
  <2>. DEFINE f == OutstandingOn(k)
              g == OutstandingOn(k)'
  <2>1. Orphaned(k) = SumOf(f, S)
    BY <1>2, OrphanedIsSum DEF OrphanedIsTheSum
  <2>2. Orphaned(k)' = SumOf(g, Snext)
    BY <1>2, OrphanedIsSumNext DEF OrphanedIsTheSum
  <2>3. \A q \in Snext : f[q] = g[q] /\ f[q] \in Nat
    BY <1>2 DEF OutstandingOn, Countable
  <2>4. \A q \in S : f[q] \in Nat
    BY <1>2 DEF OutstandingOn, Countable
  <2>5. r \in S /\ S \ {r} = Snext /\ f[r] = Outstanding(r, k)
    BY DEF OutstandingOn
  <2>6. SumOf(f, Snext) = SumOf(g, Snext) /\ SumOf(f, Snext) \in Nat
    <3>. HIDE DEF f, g, Snext
    <3>. QED BY <1>1, <2>3, SumSame, SumType
  <2>7. SumOf(f, S) = f[r] + SumOf(f, Snext)
    <3>1. SumOf(f, S) = f[r] + SumOf(f, S \ {r})
      <4>. HIDE DEF f, S
      <4>. QED BY <1>1, <2>4, <2>5, SumSplit
    <3>. QED BY <2>5, <3>1
  <2>8. keys[k].reserved = SumOf(f, S) /\ f[r] \in Nat
    BY <2>1, <2>4, <2>5 DEF ReservedInv
  <2>9. keys'[k].reserved = keys[k].reserved - f[r]
    BY <2>5
  <2>. HIDE DEF f, g, S, Snext
  <2>. QED BY <2>2, <2>6, <2>7, <2>8, <2>9
<1>. QED
  BY <1>1, <1>3 DEF ReservedInv

\* Admission: the request gets its reservation row, and the key counts it.
LEMMA StartAccounts ==
  ASSUME TypeOK, TypeOK', FreshInv, AccountInv,
         NEW r \in Request, NEW a \in Amounts, StartRequest(r, a),
         NEW k, k = gw[r].key, NEW reserved, reserved = Reservation(r, a)
  PROVE  /\ AccountInv'
         /\ k \in Key /\ Live(k) /\ reserved \in Nat
         /\ log[r].status = "none" /\ log'[r] = [status |-> "running", key |-> k]
         /\ \A q \in Request \ {r} : log'[q] = log[q] /\ \A j : Outstanding(q, j)' = Outstanding(q, j)
         /\ Outstanding(r, k)' = reserved
<1>. PICK new : new = [key |-> k, request |-> r, type |-> "reserve", amount |-> reserved]
  OBVIOUS
<1>1. k \in Key /\ Live(k) /\ reserved \in Nat /\ gw[r] \in GatewayRow
  BY DEF StartRequest, Admits, Live, Reservation, TypeOK
<1>2. /\ gw[r].pc = "authed"
      /\ keys' = [keys EXCEPT ![k].reserved = @ + reserved]
      /\ log' = [log EXCEPT ![r] = [status |-> "running", key |-> k]]
      /\ gw' = [gw EXCEPT ![r] = [@ EXCEPT !.pc = "inflight", !.reserved = reserved]]
      /\ ledger' = ledger \union Entry(k, r, "reserve", reserved)
  BY DEF StartRequest
<1>3. log[r].status = "none" /\ \A row \in ledger : row.request # r
  BY <1>2 DEF FreshInv, AccountInv, JournalInv
<1>4. ledger' = ledger \union (IF reserved > 0 THEN {new} ELSE {})
  BY <1>2 DEF Entry
<1>5. /\ new.key = k /\ new.request = r /\ new.type = "reserve" /\ new.amount = reserved
  OBVIOUS
<1>6. /\ gw'[r].pc = "inflight" /\ gw'[r].key = k /\ gw'[r].reserved = reserved
      /\ \A q \in Request \ {r} : gw'[q] = gw[q]
  BY <1>1, <1>2 DEF TypeOK, GatewayRow
<1>7. /\ keys'[k].reserved = keys[k].reserved + reserved /\ keys'[k].row = keys[k].row
      /\ \A j \in Key \ {k} : keys'[j] = keys[j]
  <2>1. keys[k] \in KeyRow
    BY <1>1 DEF TypeOK
  <2>2. keys'[k] = [keys[k] EXCEPT !.reserved = keys[k].reserved + reserved]
    BY <1>1, <1>2 DEF TypeOK
  <2>3. \A j \in Key \ {k} : keys'[j] = keys[j]
    BY <1>2 DEF TypeOK
  <2>. QED BY <2>1, <2>2, <2>3 DEF KeyRow
<1>8. /\ log'[r].status = "running" /\ log'[r].key = k
      /\ \A q \in Request \ {r} : log'[q] = log[q]
  BY <1>2 DEF TypeOK
<1>9. \A row \in ledger : row.request \in Request \ {r}
  BY <1>3 DEF TypeOK, LedgerRow
<1>10. ~Running(r) /\ Running(r)' /\ \A q \in Request \ {r} : Running(q)' <=> Running(q)
  BY <1>3, <1>8 DEF Running
<1>11. JournalInv'
  <2>1. \A row \in ledger' : row \in ledger \/ (reserved > 0 /\ row = new)
    BY <1>4
  <2>2. ASSUME NEW row \in ledger
        PROVE  /\ row.amount > 0 /\ log'[row.request].status # "none"
               /\ Running(row.request)' =>
                    /\ row.type = "reserve" /\ row.key = log'[row.request].key
                    /\ \A other \in ledger' : other.request = row.request => other = row
    BY <1>5, <1>8, <1>9, <1>10, <2>1 DEF AccountInv, JournalInv
  <2>3. /\ log'[new.request].status # "none" /\ new.type = "reserve"
        /\ new.key = log'[new.request].key
        /\ \A other \in ledger' : other.request = new.request => other = new
    BY <1>3, <1>5, <1>8, <2>1
  <2>4. reserved > 0 => new.amount > 0
    BY <1>5
  <2>. QED BY <2>1, <2>2, <2>3, <2>4 DEF JournalInv
<1>12. ASSUME NEW q \in Request \ {r}, NEW j
       PROVE  Outstanding(q, j)' = Outstanding(q, j)
  <2>1. {row \in ledger' : row.request = q /\ row.key = j} = RowsOf(q, j)
    BY <1>4, <1>5 DEF RowsOf
  <2>. QED BY <2>1, SameRows
<1>13. Outstanding(r, k)' = reserved /\ \A j : j # k => Outstanding(r, j)' = 0
  <2>. USE JournalIsReadNext, <1>10, <1>11 DEF JournalReads
  <2>1. CASE reserved > 0
    <3>1. new \in ledger'
      BY <1>4, <2>1
    <3>2. Outstanding(r, new.key)' = new.amount
      BY <1>5, <3>1
    <3>. QED BY <1>5, <1>8, <3>2
  <2>2. CASE reserved = 0
    <3>1. \A row \in ledger' : row.request # r
      BY <1>3, <1>4, <2>2
    <3>. QED BY <2>2, <3>1
  <2>. QED BY <1>1, <2>1, <2>2
<1>14. \A j \in Key : (Live(j)' <=> Live(j)) /\ keys'[j].row = keys[j].row
  BY <1>7 DEF Live
<1>15. HolderInv'
  <2>1. ASSUME NEW q \in Request \ {r}
        PROVE  /\ Running(q)' => log'[q].key = NoKey \/ Live(log[q].key)'
               /\ gw'[q].pc \in {"authed", "inflight", "retry"} =>
                    gw'[q].key \in Key /\ keys'[gw'[q].key].row # "none"
               /\ gw'[q].pc \in {"inflight", "retry"} /\ Running(q)' /\ Live(gw[q].key)' =>
                    log'[q].key = gw'[q].key /\ Outstanding(q, gw[q].key)' = gw'[q].reserved
    <3>1. gw'[q] = gw[q] /\ log'[q] = log[q] /\ (Running(q)' <=> Running(q))
      BY <1>6, <1>8, <1>10
    <3>2. \A j : Live(j)' <=> Live(j)
      BY <1>14 DEF Live
    <3>. QED BY <1>12, <1>14, <3>1, <3>2 DEF AccountInv, HolderInv
  <2>2. /\ log'[r].key = k /\ Live(k)' /\ gw'[r].key \in Key /\ keys'[gw'[r].key].row # "none"
        /\ Outstanding(r, k)' = gw'[r].reserved
    BY <1>1, <1>6, <1>8, <1>13, <1>14 DEF Live
  <2>3. ASSUME NEW q \in Request
        PROVE  /\ Running(q)' => log'[q].key = NoKey \/ Live(log[q].key)'
               /\ gw'[q].pc \in {"authed", "inflight", "retry"} =>
                    gw'[q].key \in Key /\ keys'[gw'[q].key].row # "none"
               /\ gw'[q].pc \in {"inflight", "retry"} /\ Running(q)' /\ Live(gw[q].key)' =>
                    log'[q].key = gw'[q].key /\ Outstanding(q, gw[q].key)' = gw'[q].reserved
    BY <1>6, <2>1, <2>2
  <2>. QED BY <2>3 DEF HolderInv
<1>16. ClosedInv'
  BY <1>1, <1>7, <1>14 DEF AccountInv, ClosedInv
<1>17. ReservedInv'
  <2>1. r \notin RunningRequests /\ RunningRequests' = RunningRequests \union {r}
    BY <1>10 DEF RunningRequests
  <2>2. \A q \in RunningRequests, j \in Key : Outstanding(q, j)' = Outstanding(q, j)
    BY <1>12, <2>1 DEF RunningRequests
  <2>3. ASSUME NEW j \in Key
        PROVE  keys'[j].reserved = keys[j].reserved + Outstanding(r, j)'
    BY <1>7, <1>13, KeyRowType
  <2>. QED BY <1>11, <2>1, <2>2, <2>3, ReservedAdds DEF AccountInv
<1>. QED
  <2>1. log'[r] = [status |-> "running", key |-> k]
    BY <1>2 DEF TypeOK
  <2>. QED BY <1>1, <1>3, <1>8, <1>11, <1>12, <1>13, <1>15, <1>16, <1>17, <2>1 DEF AccountInv

\* Settlement: the request leaves the running ones with all it reserved.
LEMMA SettleAccounts ==
  ASSUME TypeOK, TypeOK', AccountInv,
         NEW r \in Request, NEW a \in Amounts, Settle(r, a),
         gw[r].pc \in {"inflight", "retry"},
         gw'[r] \in {Forgotten, AfterError(gw[r])}, \A q \in Request \ {r} : gw'[q] = gw[q],
         NEW k, k = gw[r].key, NEW reserved, reserved = gw[r].reserved,
         NEW applied, applied = Applied(k, reserved, a)
  PROVE  /\ AccountInv'
         /\ k \in Key /\ Live(k) /\ reserved \in Nat /\ applied \in Nat
         /\ QuotaStateValid(k, reserved)
         /\ Running(r) /\ log[r].key = k /\ log'[r].status = "finished"
         /\ \A q \in Request \ {r} : log'[q] = log[q] /\ \A j : Outstanding(q, j)' = Outstanding(q, j)
         /\ Outstanding(r, k) = reserved
         /\ keys' = [keys EXCEPT ![k] = Settled(keys[k], reserved, applied)]
         /\ keys'[k].reserved = keys[k].reserved - reserved
         /\ keys'[k].used = keys[k].used + applied
         /\ keys'[k].row = keys[k].row /\ keys'[k].quota = keys[k].quota
         /\ ledger' = ledger \union SettlementRows(k, r, reserved, applied)
<1>1. /\ k \in Key /\ Live(k) /\ reserved \in Nat /\ a \in Nat /\ gw[r] \in GatewayRow
      /\ keys[k] \in KeyRow
  BY DEF Settle, Live, TypeOK, GatewayRow
<1>2. /\ QuotaStateValid(k, reserved) /\ Running(r) /\ log[r].key = k
      /\ keys' = [keys EXCEPT ![k] = Settled(keys[k], reserved, applied)]
      /\ log' = [log EXCEPT ![r].status = "finished"]
      /\ ledger' = ledger \union SettlementRows(k, r, reserved, applied)
  BY DEF Settle, LogRowOpen
<1>3. applied \in Nat
  BY <1>1, <1>2, KeyRowType DEF Applied, QuotaStateValid, Available, Finite
<1>4. Outstanding(r, k) = reserved
  BY <1>1, <1>2 DEF AccountInv, HolderInv
<1>5. /\ keys'[k].reserved = keys[k].reserved - reserved
      /\ keys'[k].used = keys[k].used + applied
      /\ keys'[k].row = keys[k].row /\ keys'[k].quota = keys[k].quota
      /\ \A j \in Key \ {k} : keys'[j] = keys[j]
  <2>1. keys'[k] = Settled(keys[k], reserved, applied) /\ \A j \in Key \ {k} : keys'[j] = keys[j]
    BY <1>1, <1>2 DEF TypeOK
  <2>. QED BY <1>1, <2>1 DEF Settled, KeyRow
<1>6. log'[r].status = "finished" /\ \A q \in Request \ {r} : log'[q] = log[q]
  BY <1>2 DEF TypeOK, LogRow
<1>7. \A row \in SettlementRows(k, r, reserved, applied) : row.request = r /\ row.amount > 0
  BY DEF SettlementRows, Entry
<1>8. ~Running(r)' /\ \A q \in Request \ {r} : Running(q)' <=> Running(q)
  BY <1>6 DEF Running
<1>9. JournalInv'
  <2>1. ASSUME NEW row \in ledger'
        PROVE  row.amount > 0 /\ log'[row.request].status # "none" /\ row.request \in Request
    <3>1. row.request \in Request
      BY DEF TypeOK, LedgerRow
    <3>. QED BY <1>2, <1>6, <1>7, <3>1 DEF AccountInv, JournalInv
  <2>2. ASSUME NEW row \in ledger', Running(row.request)'
        PROVE  row \in ledger /\ row.request # r /\ Running(row.request)
    BY <1>2, <1>7, <1>8, <2>1, <2>2
  <2>3. ASSUME NEW row \in ledger', Running(row.request)'
        PROVE  /\ row.type = "reserve" /\ row.key = log'[row.request].key
               /\ \A other \in ledger' : other.request = row.request => other = row
    BY <1>2, <1>6, <1>7, <2>1, <2>2, <2>3 DEF AccountInv, JournalInv
  <2>. QED BY <2>1, <2>3 DEF JournalInv
<1>10. ASSUME NEW q \in Request \ {r}, NEW j
       PROVE  Outstanding(q, j)' = Outstanding(q, j)
  <2>1. {row \in ledger' : row.request = q /\ row.key = j} = RowsOf(q, j)
    BY <1>2, <1>7 DEF RowsOf
  <2>. QED BY <2>1, SameRows
<1>11. \A j : j # k => Outstanding(r, j) = 0
  BY <1>2, JournalIsRead DEF JournalReads, AccountInv
<1>12. /\ \A j \in Key : keys'[j].row = keys[j].row
       /\ \A j : Live(j)' <=> Live(j)
  BY <1>5 DEF Live
<1>13. HolderInv'
  <2>1. /\ gw'[r].pc = "gone" \/ (gw'[r].pc = "retry" /\ gw'[r].key = k)
    BY <1>1 DEF Forgotten, AfterError, GatewayRow
  <2>2. ASSUME NEW q \in Request
        PROVE  /\ Running(q)' => log'[q].key = NoKey \/ Live(log[q].key)'
               /\ gw'[q].pc \in {"authed", "inflight", "retry"} =>
                    gw'[q].key \in Key /\ keys'[gw'[q].key].row # "none"
               /\ gw'[q].pc \in {"inflight", "retry"} /\ Running(q)' /\ Live(gw[q].key)' =>
                    log'[q].key = gw'[q].key /\ Outstanding(q, gw[q].key)' = gw'[q].reserved
    <3>1. CASE q = r
      BY <1>1, <1>8, <1>12, <2>1, <3>1 DEF Live
    <3>2. CASE q # r
      <4>1. gw'[q] = gw[q] /\ log'[q] = log[q] /\ (Running(q)' <=> Running(q))
        BY <1>6, <1>8, <3>2
      <4>. QED BY <1>10, <1>12, <3>2, <4>1 DEF AccountInv, HolderInv
    <3>. QED BY <3>1, <3>2
  <2>. QED BY <2>2 DEF HolderInv
<1>14. ClosedInv'
  BY <1>1, <1>5, <1>12 DEF AccountInv, ClosedInv
<1>15. ReservedInv'
  <2>1. r \in RunningRequests /\ RunningRequests' = RunningRequests \ {r}
    BY <1>2, <1>8 DEF RunningRequests
  <2>2. \A q \in RunningRequests \ {r}, j \in Key : Outstanding(q, j)' = Outstanding(q, j)
    BY <1>10 DEF RunningRequests
  <2>3. ASSUME NEW j \in Key
        PROVE  keys'[j].reserved = keys[j].reserved - Outstanding(r, j)
    BY <1>4, <1>5, <1>11, KeyRowType
  <2>. QED BY <1>9, <2>1, <2>2, <2>3, ReservedDrops DEF AccountInv
<1>. QED
  BY <1>1, <1>2, <1>3, <1>4, <1>5, <1>6, <1>9, <1>10, <1>13, <1>14, <1>15 DEF AccountInv

\* Cleanup: the journal of finished requests goes, nobody's reservation does.
LEMMA CleanupAccounts ==
  ASSUME TypeOK, TypeOK', AccountInv, NEW old \in SUBSET Request, DeleteOldLogs(old)
  PROVE  /\ AccountInv'
         /\ \A r \in Request : Running(r) => \A j : Outstanding(r, j)' = Outstanding(r, j)
<1>1. /\ \A r \in Request : log'[r] = IF r \in old /\ log[r].status = "finished"
                                     THEN [log[r] EXCEPT !.status = "deleted"] ELSE log[r]
      /\ ledger' = {row \in ledger : log'[row.request].status \notin {"none", "deleted"}}
      /\ keys' = keys /\ gw' = gw
  BY DEF DeleteOldLogs
<1>2. \A r \in Request : /\ Running(r)' <=> Running(r)
                         /\ Running(r) => log'[r] = log[r]
  BY <1>1 DEF TypeOK, LogRow, Running
<1>3. \A row \in ledger : row.request \in Request
  BY DEF TypeOK, LedgerRow
<1>4. JournalInv'
  BY <1>1, <1>2, <1>3 DEF AccountInv, JournalInv
<1>5. ASSUME NEW r \in Request, Running(r), NEW j
      PROVE  Outstanding(r, j)' = Outstanding(r, j)
  <2>1. {row \in ledger' : row.request = r /\ row.key = j} = RowsOf(r, j)
    BY <1>1, <1>2, <1>5 DEF RowsOf, Running
  <2>. QED BY <2>1, SameRows
<1>6. HolderInv'
  <2>1. \A j : Live(j)' <=> Live(j)
    BY <1>1 DEF Live
  <2>. QED BY <1>1, <1>2, <1>5, <2>1 DEF AccountInv, HolderInv
<1>7. ClosedInv'
  BY <1>1 DEF AccountInv, ClosedInv, Live
<1>8. ReservedInv'
  <2>1. RunningRequests' = RunningRequests
    BY <1>2 DEF RunningRequests
  <2>2. \A r \in RunningRequests, j \in Key : Outstanding(r, j)' = Outstanding(r, j)
    BY <1>5 DEF RunningRequests
  <2>. QED BY <1>1, <1>4, <2>1, <2>2, ReservedKept DEF AccountInv
<1>. QED
  BY <1>4, <1>5, <1>6, <1>7, <1>8 DEF AccountInv

\* Startup: every interrupted reservation is given back, and none is left.
LEMMA RecoveryAccounts ==
  ASSUME TypeOK, TypeOK', AccountInv, RecoverRunningRequests
  PROVE  /\ AccountInv'
         /\ \A k \in Key : keys'[k] = [keys[k] EXCEPT !.reserved = 0]
         /\ \A r \in Request : ~Running(r)'
<1>1. /\ \A k \in Key : keys'[k] = [keys[k] EXCEPT !.reserved = keys[k].reserved - Orphaned(k)]
      /\ \A r \in Request : log'[r] = IF Running(r) THEN [log[r] EXCEPT !.status = "finished"]
                                     ELSE log[r]
      /\ gw' = gw
  BY DEF RecoverRunningRequests
<1>2. \A k \in Key : keys'[k] = [keys[k] EXCEPT !.reserved = 0]
  <2>1. ASSUME NEW k \in Key PROVE keys[k].reserved - Orphaned(k) = 0
    BY KeyRowType DEF AccountInv, ReservedInv
  <2>. QED BY <1>1, <2>1
<1>3. \A r \in Request : ~Running(r)' /\ (log'[r].status = "none" => log[r].status = "none")
  BY <1>1 DEF TypeOK, LogRow, Running
<1>4. \A row \in ledger' : \/ row \in ledger
                           \/ /\ row.amount > 0
                              /\ log[row.request].status = "running"
  BY DEF RecoverRunningRequests, Entry, Running
<1>5. \A row \in ledger' : row.request \in Request
  BY DEF TypeOK, LedgerRow
<1>6. JournalInv'
  BY <1>3, <1>4, <1>5 DEF AccountInv, JournalInv
<1>7. ASSUME NEW k \in Key
      PROVE  /\ keys'[k].row = keys[k].row /\ keys'[k].quota = keys[k].quota
             /\ keys'[k].used = keys[k].used /\ keys'[k].reserved = 0
  <2>1. keys[k] \in KeyRow
    BY DEF TypeOK
  <2>. QED BY <1>2, <2>1, ZenonT(30) DEF KeyRow
<1>8. HolderInv'
  BY <1>1, <1>3, <1>7 DEF AccountInv, HolderInv
<1>9. ClosedInv'
  BY <1>7 DEF AccountInv, ClosedInv, Live
<1>10. RunningRequests' = {}
  BY <1>3 DEF RunningRequests
<1>11. ReservedInv'
  <2>1. IsFiniteSet(RunningRequests')
    BY <1>10, FS_EmptySet
  <2>2. Countable'
    BY <1>10, <2>1 DEF Countable
  <2>3. ASSUME NEW k \in Key PROVE Orphaned(k)' = 0
    <3>1. Orphaned(k)' = SumOf(OutstandingOn(k)', RunningRequests')
      BY <2>2, OrphanedIsSumNext DEF OrphanedIsTheSum
    <3>2. SumOf(OutstandingOn(k)', {}) = 0
      BY FS_EmptySet, SumFirst
    <3>. QED BY <1>10, <3>1, <3>2
  <2>. QED BY <1>7, <2>1, <2>3 DEF ReservedInv
<1>. QED
  BY <1>2, <1>3, <1>6, <1>8, <1>9, <1>11 DEF AccountInv

\* Authentication hands the gateway a key that exists.
LEMMA AuthenticateAccounts ==
  ASSUME TypeOK, TypeOK', AccountInv, NEW r \in Request, NEW k \in Key,
         AuthenticateDownstreamKey(r, k)
  PROVE  AccountInv'
<1>1. /\ Live(k) /\ keys' = keys /\ log' = log /\ ledger' = ledger
      /\ gw' = [gw EXCEPT ![r] = [pc |-> "authed", key |-> k,
                                  finite |-> Finite(k), reserved |-> 0]]
  BY DEF AuthenticateDownstreamKey
<1>2. /\ gw'[r].pc = "authed" /\ gw'[r].key = k
      /\ \A q \in Request \ {r} : gw'[q] = gw[q]
  BY <1>1 DEF TypeOK
<1>3. JournalInv' /\ ClosedInv'
  BY <1>1 DEF AccountInv, JournalInv, ClosedInv, Running, Live
<1>4. \A q, j : Outstanding(q, j)' = Outstanding(q, j)
  BY <1>1 DEF Outstanding, RowsOf
<1>5. HolderInv'
  BY <1>1, <1>2, <1>4 DEF AccountInv, HolderInv, Running, Live
<1>6. ReservedInv'
  <2>1. RunningRequests' = RunningRequests
    BY <1>1 DEF RunningRequests, Running
  <2>. QED BY <1>1, <1>3, <1>4, <2>1, ReservedKept DEF AccountInv
<1>. QED
  BY <1>3, <1>5, <1>6 DEF AccountInv

\* The two ways to commit a settlement leave the request to nobody, or to the
\* repeated finish().
LEMMA FinishMemory ==
  ASSUME TypeOK, NEW r \in Request, NEW a \in Amounts,
         Finish(r, a) \/ FinishAcknowledgementLost(r, a)
  PROVE  /\ Settle(r, a) /\ gw[r].pc \in {"inflight", "retry"}
         /\ gw'[r] \in {Forgotten, AfterError(gw[r])}
         /\ \A q \in Request \ {r} : gw'[q] = gw[q]
         /\ up' = up
BY DEF Finish, FinishAcknowledgementLost, TypeOK

\* Every step keeps the accounts.
LEMMA NextAccountInv ==
  TypeOK /\ TypeOK' /\ FreshInv /\ AccountInv /\ [Next]_vars => AccountInv'
<1>. SUFFICES ASSUME TypeOK, TypeOK', FreshInv, AccountInv, [Next]_vars PROVE AccountInv'
  OBVIOUS
<1>1. CASE AdminNext
  BY <1>1, AdminAccounts
<1>2. CASE RequestNext
  <2>. PICK r \in Request :
         \/ \E k \in Key : AuthenticateDownstreamKey(r, k)
         \/ \E a \in Amounts : StartRequest(r, a)
         \/ StartRequestRejected(r)
         \/ \E a \in Amounts : Finish(r, a)
         \/ \E a \in Amounts : FinishAcknowledgementLost(r, a)
         \/ FinishFails(r)
    BY <1>2 DEF RequestNext
  <2>1. ASSUME NEW k \in Key, AuthenticateDownstreamKey(r, k) PROVE AccountInv'
    BY <2>1, AuthenticateAccounts
  <2>2. ASSUME NEW a \in Amounts, StartRequest(r, a) PROVE AccountInv'
    <3>. PICK k, reserved : k = gw[r].key /\ reserved = Reservation(r, a)
      OBVIOUS
    <3>. QED BY <2>2, StartAccounts
  <2>3. CASE StartRequestRejected(r)
    <3>1. \A q \in Request : gw'[q] \in {gw[q], Forgotten}
      BY <2>3 DEF StartRequestRejected, TypeOK
    <3>2. keys' = keys /\ log' = log /\ ledger' = ledger
      BY <2>3 DEF StartRequestRejected
    <3>. QED BY <3>1, <3>2, MemoryStep
  <2>4. ASSUME NEW a \in Amounts, Finish(r, a) \/ FinishAcknowledgementLost(r, a)
        PROVE  AccountInv'
    <3>1. /\ Settle(r, a) /\ gw[r].pc \in {"inflight", "retry"}
          /\ gw'[r] \in {Forgotten, AfterError(gw[r])}
          /\ \A q \in Request \ {r} : gw'[q] = gw[q]
      BY <2>4, FinishMemory
    <3>. PICK k, reserved, applied :
           k = gw[r].key /\ reserved = gw[r].reserved /\ applied = Applied(k, reserved, a)
      OBVIOUS
    <3>. QED BY <3>1, SettleAccounts
  <2>5. CASE FinishFails(r)
    <3>1. \A q \in Request : gw'[q] = IF q = r THEN AfterError(gw[q]) ELSE gw[q]
      BY <2>5 DEF FinishFails, TypeOK
    <3>2. keys' = keys /\ log' = log /\ ledger' = ledger
      BY <2>5 DEF FinishFails
    <3>3. AfterError(gw[r]) # Forgotten => gw[r].pc = "inflight"
      BY DEF AfterError
    <3>. QED BY <3>1, <3>2, <3>3, MemoryStep
  <2>. QED
    BY <2>1, <2>2, <2>3, <2>4, <2>5
<1>3. ASSUME NEW old \in SUBSET Request, DeleteOldLogs(old) PROVE AccountInv'
  BY <1>3, CleanupAccounts
<1>4. CASE Crash
  <2>1. \A q \in Request : gw'[q] \in {gw[q], Forgotten}
    BY <1>4 DEF Crash
  <2>2. keys' = keys /\ log' = log /\ ledger' = ledger
    BY <1>4 DEF Crash
  <2>. QED BY <2>1, <2>2, MemoryStep
<1>5. CASE RecoverRunningRequests
  BY <1>5, RecoveryAccounts
<1>6. CASE UNCHANGED vars
  <2>1. keys' = keys /\ log' = log /\ ledger' = ledger /\ gw' = gw
    BY <1>6 DEF vars
  <2>. QED BY <2>1, MemoryStep
<1>. QED
  BY <1>1, <1>2, <1>3, <1>4, <1>5, <1>6 DEF Next

\* At the first state nothing runs and nothing is promised.
LEMMA InitAccountInv == Init => AccountInv /\ FreshInv
<1>. SUFFICES ASSUME Init PROVE AccountInv /\ FreshInv
  OBVIOUS
<1>1. FreshInv /\ JournalInv
  BY DEF Init, FreshInv, JournalInv
<1>2. ClosedInv /\ \A k \in Key : keys[k].reserved = 0
  BY DEF Init, ClosedInv
<1>3. \A r \in Request : ~Running(r) /\ gw[r].pc = "idle"
  BY DEF Init, Running
<1>4. HolderInv
  BY <1>3 DEF HolderInv
<1>5. RunningRequests = {} /\ IsFiniteSet(RunningRequests)
  BY <1>3, FS_EmptySet DEF RunningRequests
<1>6. Countable
  BY <1>5 DEF Countable
<1>7. ASSUME NEW k \in Key PROVE Orphaned(k) = 0
  <2>1. Orphaned(k) = SumOf(OutstandingOn(k), RunningRequests)
    BY <1>6, OrphanedIsSum DEF OrphanedIsTheSum
  <2>2. SumOf(OutstandingOn(k), {}) = 0
    BY FS_EmptySet, SumFirst
  <2>. QED BY <1>5, <2>1, <2>2
<1>. QED
  BY <1>1, <1>2, <1>4, <1>5, <1>7 DEF AccountInv, ReservedInv

\* For every number of keys and requests in flight: reserved_micro_usd of a key
\* is the sum of what the journal has outstanding for the running requests,
\* and the gateway's memory of a reservation agrees with it.
THEOREM AccountInvariant == Spec => [](QuotaInv /\ FreshInv /\ AccountInv)
<1>1. QuotaInv => TypeOK
  BY DEF QuotaInv
<1>2. QuotaInv /\ QuotaInv' => TypeOK /\ TypeOK'
  BY DEF QuotaInv
<1>3. QuotaInv /\ FreshInv /\ AccountInv /\ [Next]_vars => QuotaInv' /\ FreshInv' /\ AccountInv'
  BY <1>1, <1>2, NextQuotaInv, NextFreshInv, NextAccountInv
<1>. QED
  BY <1>3, InitAccountInv, InitQuotaInv, PTL DEF Spec

\* The counter of a key covers every reservation made on it.
LEMMA ReservationCovered ==
  ASSUME TypeOK, AccountInv, NEW r \in Request, Running(r), NEW k \in Key
  PROVE  /\ Outstanding(r, k) \in Nat
         /\ Outstanding(r, k) <= keys[k].reserved
<1>. DEFINE f == OutstandingOn(k)
<1>1. r \in RunningRequests /\ f[r] = Outstanding(r, k)
  BY DEF RunningRequests, OutstandingOn
<1>2. Countable
  BY JournalIsRead DEF Countable, JournalReads, RunningRequests, AccountInv, ReservedInv
<1>3. keys[k].reserved = SumOf(f, RunningRequests)
  BY <1>2, OrphanedIsSum DEF OrphanedIsTheSum, AccountInv, ReservedInv
<1>4. IsFiniteSet(RunningRequests) /\ \A q \in RunningRequests : f[q] \in Nat
  BY <1>2 DEF Countable, OutstandingOn
<1>. HIDE DEF f
<1>5. f[r] <= SumOf(f, RunningRequests)
  BY <1>1, <1>4, SumBounds
<1>. QED
  BY <1>1, <1>3, <1>4, <1>5

\* FinishRequestAndSettle never meets ErrInvalidQuotaState: the counter covers
\* the reservation, and the quota covers the rest.
THEOREM SettlementAccepted == Spec => []SettlementNeverRefused
<1>1. ASSUME QuotaInv, AccountInv PROVE SettlementNeverRefused
  <2>. SUFFICES ASSUME NEW r \in Request, gw[r].pc \in {"inflight", "retry"}, Running(r),
                       NEW k, k = gw[r].key, Live(k)
                PROVE  QuotaStateValid(k, gw[r].reserved)
    BY DEF SettlementNeverRefused
  <2>1. Outstanding(r, k) = gw[r].reserved /\ k \in Key
    BY <1>1 DEF AccountInv, HolderInv
  <2>2. gw[r].reserved \in Nat /\ gw[r].reserved <= keys[k].reserved
    BY <1>1, <2>1, ReservationCovered DEF QuotaInv
  <2>3. Finite(k) => keys[k].used + keys[k].reserved <= keys[k].quota
    BY <1>1, <2>1 DEF QuotaInv, QuotaNeverOverspent
  <2>. QED
    BY <1>1, <2>1, <2>2, <2>3, KeyRowType DEF QuotaInv, QuotaStateValid, Available, Finite
<1>. QED
  BY <1>1, AccountInvariant, PTL

\* What RecoverRunningRequests checks before it changes anything.
RecoveryChecksPass ==
  /\ \A r \in Request, k \in Key : Running(r) => Outstanding(r, k) \in Nat
  /\ \A k \in Key : Orphaned(k) \in 0..keys[k].reserved

\* Startup is never aborted by a negative or an unbacked reservation, whenever
\* the process dies.
THEOREM RecoveryNeverAborts == Spec => []RecoveryChecksPass
<1>1. ASSUME QuotaInv, AccountInv PROVE RecoveryChecksPass
  <2>1. TypeOK
    BY <1>1 DEF QuotaInv
  <2>2. \A r \in Request, k \in Key : Running(r) => Outstanding(r, k) \in Nat
    BY <1>1, <2>1, ReservationCovered
  <2>3. ASSUME NEW k \in Key PROVE Orphaned(k) \in 0..keys[k].reserved
    BY <1>1, <2>1, KeyRowType DEF AccountInv, ReservedInv
  <2>. QED BY <2>2, <2>3 DEF RecoveryChecksPass
<1>. QED
  BY <1>1, AccountInvariant, PTL

\* The settle and additional rows of a settlement add up to the charge.
LEMMA SettlementTotal ==
  ASSUME NEW k, NEW r, NEW reserved \in Nat, NEW applied \in Nat
  PROVE  Total(SettlementRows(k, r, reserved, applied), {"settle", "additional"}) = applied
<1>. DEFINE rows == SettlementRows(k, r, reserved, applied)
            types == {"settle", "additional"}
            row(type, amount) == [key |-> k, request |-> r, type |-> type, amount |-> amount]
<1>0. \A type, amount : /\ Entry(k, r, type, amount) = IF amount > 0 THEN {row(type, amount)} ELSE {}
                        /\ row(type, amount).type = type /\ row(type, amount).amount = amount
                        /\ IsFiniteSet(Entry(k, r, type, amount))
  BY FS_EmptySet, FS_Singleton DEF Entry
<1>. HIDE DEF row
<1>1. /\ "settle" \in types /\ "additional" \in types /\ "release" \notin types
  OBVIOUS
<1>. HIDE DEF types
<1>2. CASE reserved = 0
  <2>1. rows = Entry(k, r, "settle", applied)
    BY <1>2 DEF SettlementRows
  <2>2. CASE applied = 0
    <3>1. rows = {} /\ IsFiniteSet(rows)
      BY <1>0, <2>1, <2>2, FS_EmptySet
    <3>. HIDE DEF rows
    <3>2. Total(rows, types) = 0
      BY <3>1, TotalOfNone
    <3>. QED BY <2>2, <3>2 DEF rows, types
  <2>3. CASE applied > 0
    <3>. DEFINE one == row("settle", applied)
    <3>1. rows = {one} /\ one.type = "settle" /\ one.amount = applied
      BY <1>0, <2>1, <2>3
    <3>2. IsFiniteSet(rows)
      BY <3>1, FS_Singleton
    <3>. HIDE DEF one, rows
    <3>3. Total(rows, types) = one.amount
      BY <1>1, <3>1, <3>2, TotalOfOne
    <3>. QED BY <3>1, <3>3 DEF rows, types
  <2>. QED BY <2>2, <2>3
<1>3. CASE reserved # 0 /\ applied <= reserved
  <2>. DEFINE left == Entry(k, r, "settle", applied)
              right == Entry(k, r, "release", reserved - applied)
  <2>1. rows = left \union right
    BY <1>3 DEF SettlementRows
  <2>2. IsFiniteSet(left) /\ IsFiniteSet(right)
    BY <1>0
  <2>3. \A w \in right : w.type = "release"
    BY DEF Entry
  <2>4. IsFiniteSet(rows)
    <3>. HIDE DEF left, right, rows
    <3>. QED BY <2>1, <2>2, FS_Union
  <2>5. CASE applied = 0
    <3>1. left = {}
      BY <1>0, <2>5
    <3>. HIDE DEF rows, left, right
    <3>2. \A w \in rows : w.type \notin types
      BY <1>1, <2>1, <2>3, <3>1
    <3>3. Total(rows, types) = 0
      BY <2>4, <3>2, TotalOfNone
    <3>. QED BY <2>5, <3>3 DEF rows, types
  <2>6. CASE applied > 0
    <3>. DEFINE one == row("settle", applied)
    <3>1. left = {one} /\ one.type = "settle" /\ one.amount = applied
      BY <1>0, <2>6
    <3>. HIDE DEF one, rows, left, right
    <3>2. one \in rows /\ \A w \in rows : w.type \in types => w = one
      BY <1>1, <2>1, <2>3, <3>1
    <3>3. Total(rows, types) = one.amount
      BY <1>1, <2>4, <3>1, <3>2, TotalOfOne
    <3>. QED BY <3>1, <3>3 DEF rows, types
  <2>. QED BY <2>5, <2>6
<1>4. CASE reserved # 0 /\ ~(applied <= reserved)
  <2>. DEFINE one == row("settle", reserved)
              two == row("additional", applied - reserved)
  <2>1. rows = Entry(k, r, "settle", reserved) \union Entry(k, r, "additional", applied - reserved)
    BY <1>4 DEF SettlementRows
  <2>2. /\ Entry(k, r, "settle", reserved) = {one}
        /\ Entry(k, r, "additional", applied - reserved) = {two}
        /\ one.type = "settle" /\ one.amount = reserved
        /\ two.type = "additional" /\ two.amount = applied - reserved
        /\ applied - reserved \in Nat
    BY <1>0, <1>4
  <2>3. IsFiniteSet({one}) /\ IsFiniteSet({two})
    BY FS_Singleton
  <2>4. rows = {one} \union {two}
    BY <2>1, <2>2
  <2>. HIDE DEF one, two, rows
  <2>5. IsFiniteSet(rows)
    BY <2>3, <2>4, FS_Union
  <2>6. Total(rows, types) = one.amount + two.amount
    BY <1>1, <2>2, <2>4, <2>5, TotalOfTwo
  <2>. QED BY <2>2, <2>6 DEF rows, types
<1>. QED
  BY <1>2, <1>3, <1>4

\* The step relation inside SpendingIsJournaled.
SpendingStep ==
  \A k \in Key :
    keys'[k].used # keys[k].used =>
      \/ keys'[k].used = 0 /\ \A row \in ledger' : row.key # k
      \/ \E r \in Request :
           /\ Running(r) /\ log'[r].status = "finished"
           /\ keys'[k].used - keys[k].used =
                Total({row \in ledger' \ ledger : row.key = k /\ row.request = r},
                      {"settle", "additional"})

\* A settlement journals what it charges.
LEMMA SettleSpends ==
  ASSUME TypeOK, TypeOK', AccountInv,
         NEW r \in Request, NEW a \in Amounts, Finish(r, a) \/ FinishAcknowledgementLost(r, a)
  PROVE  SpendingStep
<1>0. /\ Settle(r, a) /\ gw[r].pc \in {"inflight", "retry"}
      /\ gw'[r] \in {Forgotten, AfterError(gw[r])}
      /\ \A q \in Request \ {r} : gw'[q] = gw[q]
  BY FinishMemory
<1>. PICK k, reserved, applied :
       k = gw[r].key /\ reserved = gw[r].reserved /\ applied = Applied(k, reserved, a)
  OBVIOUS
<1>1. /\ k \in Key /\ reserved \in Nat /\ applied \in Nat
      /\ Running(r) /\ log'[r].status = "finished"
      /\ keys' = [keys EXCEPT ![k] = Settled(keys[k], reserved, applied)]
      /\ keys'[k].used = keys[k].used + applied
      /\ ledger' = ledger \union SettlementRows(k, r, reserved, applied)
  BY <1>0, SettleAccounts
<1>2. \A row \in SettlementRows(k, r, reserved, applied) :
        row.key = k /\ row.request = r /\ row.type # "reserve"
  BY DEF SettlementRows, Entry
<1>3. {row \in ledger' \ ledger : row.key = k /\ row.request = r}
        = SettlementRows(k, r, reserved, applied)
  BY <1>1, <1>2 DEF AccountInv, JournalInv
<1>4. Total({row \in ledger' \ ledger : row.key = k /\ row.request = r}, {"settle", "additional"})
        = applied
  <2>1. Total(SettlementRows(k, r, reserved, applied), {"settle", "additional"}) = applied
    BY <1>1, SettlementTotal
  <2>. QED BY <1>3, <2>1, Zenon
<1>5. \A j \in Key \ {k} : keys'[j].used = keys[j].used
  BY <1>1 DEF TypeOK
<1>6. keys'[k].used - keys[k].used = applied
  BY <1>1, KeyRowType
<1>7. /\ Running(r) /\ log'[r].status = "finished"
      /\ keys'[k].used - keys[k].used =
           Total({row \in ledger' \ ledger : row.key = k /\ row.request = r},
                 {"settle", "additional"})
  BY <1>1, <1>4, <1>6, Zenon
<1>. QED
  BY <1>5, <1>7, ZenonT(30) DEF SpendingStep

\* Usage moves with a settlement, or goes to zero with its journal.
LEMMA NextSpending == TypeOK /\ TypeOK' /\ AccountInv /\ [Next]_vars => SpendingStep
<1>. SUFFICES ASSUME TypeOK, TypeOK', AccountInv, [Next]_vars PROVE SpendingStep
  OBVIOUS
<1>1. ASSUME \A k \in Key : keys'[k].used = keys[k].used PROVE SpendingStep
  BY <1>1 DEF SpendingStep
<1>2. CASE AdminNext
  <2>. PICK k \in Key :
         \/ \E q \in Quotas \union {Unlimited} : CreateDownstreamKey(k, q)
         \/ \E q \in Quotas \union {Unlimited}, e \in BOOLEAN : UpdateDownstreamKey(k, q, e)
         \/ DeleteDownstreamKey(k)
         \/ ResetDownstreamKeyUsage(k)
    BY <1>2 DEF AdminNext
  <2>0. keys[k] \in KeyRow
    BY DEF TypeOK
  <2>1. ASSUME NEW q \in Quotas \union {Unlimited}, CreateDownstreamKey(k, q) PROVE SpendingStep
    <3>1. /\ keys[k].row = "none" /\ keys'[k].used = 0
          /\ \A j \in Key \ {k} : keys'[j].used = keys[j].used
      BY <2>1 DEF CreateDownstreamKey, TypeOK
    <3>2. keys[k].used = 0
      BY <3>1 DEF AccountInv, ClosedInv, Live
    <3>. QED BY <1>1, <3>1, <3>2
  <2>2. ASSUME NEW q \in Quotas \union {Unlimited}, NEW e \in BOOLEAN,
               UpdateDownstreamKey(k, q, e)
        PROVE  SpendingStep
    <3>1. keys' = [keys EXCEPT ![k] = [keys[k] EXCEPT !.quota = q, !.enabled = e]]
      BY <2>2 DEF UpdateDownstreamKey
    <3>2. keys'[k].used = keys[k].used /\ \A j \in Key \ {k} : keys'[j].used = keys[j].used
      BY <2>0, <3>1 DEF TypeOK, KeyRow
    <3>. QED BY <1>1, <3>2
  <2>3. ASSUME keys'[k].used = 0, \A j \in Key \ {k} : keys'[j] = keys[j],
               ledger' = {row \in ledger : row.key # k}
        PROVE  SpendingStep
    BY <2>3 DEF SpendingStep
  <2>4. CASE DeleteDownstreamKey(k)
    <3>1. /\ keys'[k].used = 0 /\ \A j \in Key \ {k} : keys'[j] = keys[j]
          /\ ledger' = {row \in ledger : row.key # k}
      BY <2>4 DEF DeleteDownstreamKey, TypeOK
    <3>. QED BY <2>3, <3>1
  <2>5. CASE ResetDownstreamKeyUsage(k)
    <3>1. /\ keys' = [keys EXCEPT ![k] = [keys[k] EXCEPT !.used = 0]]
          /\ ledger' = {row \in ledger : row.key # k}
      BY <2>5 DEF ResetDownstreamKeyUsage
    <3>2. keys'[k].used = 0 /\ \A j \in Key \ {k} : keys'[j] = keys[j]
      BY <2>0, <3>1 DEF TypeOK, KeyRow
    <3>. QED BY <2>3, <3>1, <3>2
  <2>. QED
    BY <2>1, <2>2, <2>4, <2>5
<1>3. CASE RequestNext
  <2>. PICK r \in Request :
         \/ \E k \in Key : AuthenticateDownstreamKey(r, k)
         \/ \E a \in Amounts : StartRequest(r, a)
         \/ StartRequestRejected(r)
         \/ \E a \in Amounts : Finish(r, a)
         \/ \E a \in Amounts : FinishAcknowledgementLost(r, a)
         \/ FinishFails(r)
    BY <1>3 DEF RequestNext
  <2>1. ASSUME keys' = keys PROVE SpendingStep
    BY <1>1, <2>1
  <2>2. ASSUME NEW a \in Amounts, StartRequest(r, a) PROVE SpendingStep
    <3>. PICK k, reserved : k = gw[r].key /\ reserved = Reservation(r, a)
      OBVIOUS
    <3>1. keys' = [keys EXCEPT ![k].reserved = @ + reserved]
      BY <2>2 DEF StartRequest
    <3>2. \A j \in Key : keys[j] \in KeyRow
      BY DEF TypeOK
    <3>3. \A j \in Key : keys'[j].used = keys[j].used
      BY <3>1, <3>2 DEF TypeOK, KeyRow
    <3>. QED BY <1>1, <3>3
  <2>3. ASSUME NEW a \in Amounts, Finish(r, a) \/ FinishAcknowledgementLost(r, a)
        PROVE  SpendingStep
    BY <2>3, SettleSpends
  <2>. QED
    BY <2>1, <2>2, <2>3 DEF AuthenticateDownstreamKey, StartRequestRejected, FinishFails
<1>4. ASSUME NEW old \in SUBSET Request, DeleteOldLogs(old) PROVE SpendingStep
  BY <1>1, <1>4 DEF DeleteOldLogs
<1>5. CASE Crash
  BY <1>1, <1>5 DEF Crash
<1>6. CASE RecoverRunningRequests
  <2>1. \A k \in Key : keys[k] \in KeyRow /\ keys'[k] = [keys[k] EXCEPT !.reserved = 0]
    BY <1>6, RecoveryAccounts DEF TypeOK
  <2>2. \A k \in Key : keys'[k].used = keys[k].used
    BY <2>1 DEF KeyRow
  <2>. QED BY <1>1, <2>2
<1>7. CASE UNCHANGED vars
  BY <1>1, <1>7 DEF vars
<1>. QED
  BY <1>2, <1>3, <1>4, <1>5, <1>6, <1>7 DEF Next

\* No key is charged except by the one step that finishes the request, and by
\* what that step journals: a repeated finish() and a recovery charge nothing.
THEOREM SpendingJournaled == Spec => SpendingIsJournaled
<1>1. QuotaInv /\ QuotaInv' => TypeOK /\ TypeOK'
  BY DEF QuotaInv
<1>2. QuotaInv /\ QuotaInv' /\ FreshInv /\ AccountInv /\ [Next]_vars => [SpendingStep]_vars
  BY <1>1, NextSpending
<1>3. Spec => [][SpendingStep]_vars
  BY <1>2, AccountInvariant, PTL DEF Spec
<1>. QED
  BY <1>3, PTL DEF SpendingIsJournaled, SpendingStep

-----------------------------------------------------------------------------
(* Keys are prepaid accounts.  The rows are read through the mapping of      *)
(* KeysArePrepaid, first pointwise, then step by step.                       *)

\* A key row as an account, field by field.
AccountReads ==
  TypeOK => \A k \in Key :
    /\ AccountOf(k) = [state |-> AccountOf(k).state, quota |-> keys[k].quota,
                       spent |-> keys[k].used, held |-> keys[k].reserved]
    /\ AccountOf(k).state = CASE keys[k].row = "none" -> "none"
                              [] keys[k].row = "live" -> "open"
                              [] keys[k].row = "deleted" -> "closed"

\* Every key row reads as an account.
LEMMA AccountIsRead == AccountReads
BY DEF AccountReads, AccountOf, Live, TypeOK, KeyRow

\* Every key row reads as an account after a step.
LEMMA AccountIsReadNext == AccountReads'
BY AccountIsRead, PTL

\* Steps that change nothing an account promises.
LEMMA PrepaidStutter ==
  ASSUME \A k \in Key : AccountOf(k)' = AccountOf(k),
         \A r \in Request : StageOf(r)' = StageOf(r) /\ HoldOf(r)' = HoldOf(r)
  PROVE  UNCHANGED Prepaid!promised
BY DEF Prepaid!promised

\* A new or changed key.
LEMMA PrepaidSet ==
  ASSUME NEW k \in Key, NEW q \in Quotas \union {Unlimited},
         AccountOf(k) = [state |-> AccountOf(k).state, quota |-> keys[k].quota,
                       spent |-> keys[k].used, held |-> keys[k].reserved],
         AccountOf(k).state # "closed",
         AccountOf(k)' = [state |-> "open", quota |-> q,
                          spent |-> keys[k].used, held |-> keys[k].reserved],
         q # Unlimited => keys[k].used + keys[k].reserved <= q,
         \A j \in Key \ {k} : AccountOf(j)' = AccountOf(j),
         \A r \in Request : StageOf(r)' = StageOf(r) /\ HoldOf(r)' = HoldOf(r)
  PROVE  Prepaid!PrepaidNext
<1>. PICK A : A = [j \in Key |-> AccountOf(j)]
  OBVIOUS
<1>. PICK B : B = [j \in Key |-> AccountOf(j)]'
  OBVIOUS
<1>1. B = [j \in Key |-> AccountOf(j)'] /\ A = [j \in Key |-> AccountOf(j)]
  OBVIOUS
<1>2. /\ A[k] = [state |-> AccountOf(k).state, quota |-> keys[k].quota,
                 spent |-> keys[k].used, held |-> keys[k].reserved]
      /\ B[k] = [state |-> "open", quota |-> q, spent |-> keys[k].used, held |-> keys[k].reserved]
      /\ A[k].state # "closed"
  BY <1>1
<1>3. B[k].quota = q /\ B[k].spent = keys[k].used /\ B[k].held = keys[k].reserved
  BY <1>2
<1>4. B = [A EXCEPT ![k].state = "open", ![k].quota = B[k].quota]
  <2>. DEFINE C == [A EXCEPT ![k].state = "open", ![k].quota = B[k].quota]
  <2>1. DOMAIN A = Key /\ A = [j \in Key |-> A[j]]
    BY <1>1
  <2>. DEFINE D == [A EXCEPT ![k].state = "open"]
  <2>2. D[k] = [state |-> "open", quota |-> keys[k].quota, spent |-> keys[k].used, held |-> keys[k].reserved]
    BY <1>2, <2>1
  <2>3. D = [j \in Key |-> D[j]] /\ \A j \in Key \ {k} : D[j] = A[j]
    BY <2>1
  <2>4. C = [D EXCEPT ![k].quota = B[k].quota]
    OBVIOUS
  <2>. HIDE DEF C, D
  <2>5. C[k] = B[k]
    BY <1>2, <1>3, <2>2, <2>3, <2>4
  <2>6. C = [j \in Key |-> C[j]] /\ \A j \in Key \ {k} : C[j] = A[j]
    BY <2>3, <2>4
  <2>7. B = [j \in Key |-> B[j]] /\ \A j \in Key \ {k} : B[j] = A[j]
    BY <1>1
  <2>8. B = C
    BY <2>5, <2>6, <2>7
  <2>. QED BY <2>8 DEF C
<1>5. Prepaid!Within(B[k])
  BY <1>3 DEF Prepaid!Within
<1>6. UNCHANGED <<[r \in Request |-> StageOf(r)], [r \in Request |-> HoldOf(r)]>>
  OBVIOUS
<1>7. Prepaid!SetAccount(k)
  BY <1>2, <1>3, <1>4, <1>5, <1>6, Zenon DEF Prepaid!SetAccount
<1>. QED
  BY <1>7 DEF Prepaid!PrepaidNext

\* A key is deleted: requests that hold nothing lose it.
LEMMA PrepaidClose ==
  ASSUME NEW k \in Key,
         AccountOf(k).state = "open", AccountOf(k).held = 0,
         AccountOf(k)' = [state |-> "closed", quota |-> Unlimited, spent |-> 0, held |-> 0],
         \A j \in Key \ {k} : AccountOf(j)' = AccountOf(j),
         \A r \in Request : StageOf(r)' = StageOf(r),
         \A r \in Request : HoldOf(r)' = IF HoldOf(r).key = k THEN Prepaid!Nothing ELSE HoldOf(r)
  PROVE  Prepaid!PrepaidNext
<1>. PICK A, B : A = [j \in Key |-> AccountOf(j)] /\ B = [j \in Key |-> AccountOf(j)]'
  OBVIOUS
<1>. PICK H, I : H = [r \in Request |-> HoldOf(r)] /\ I = [r \in Request |-> HoldOf(r)]'
  OBVIOUS
<1>1. A[k].state = "open" /\ A[k].held = 0
  OBVIOUS
<1>2. B = [A EXCEPT ![k] = [state |-> "closed", quota |-> Unlimited, spent |-> 0, held |-> 0]]
  OBVIOUS
<1>3. I = [r \in Request |-> IF H[r].key = k THEN Prepaid!Nothing ELSE H[r]]
  OBVIOUS
<1>4. UNCHANGED [r \in Request |-> StageOf(r)]
  OBVIOUS
<1>5. Prepaid!Close(k)
  BY <1>1, <1>2, <1>3, <1>4, Zenon DEF Prepaid!Close
<1>. QED
  BY <1>5 DEF Prepaid!PrepaidNext

\* The usage of a key that holds nothing is reset.
LEMMA PrepaidReset ==
  ASSUME NEW k \in Key,
         AccountOf(k) = [state |-> "open", quota |-> keys[k].quota,
                         spent |-> keys[k].used, held |-> 0],
         AccountOf(k)' = [state |-> "open", quota |-> keys[k].quota, spent |-> 0, held |-> 0],
         \A j \in Key \ {k} : AccountOf(j)' = AccountOf(j),
         \A r \in Request : StageOf(r)' = StageOf(r) /\ HoldOf(r)' = HoldOf(r)
  PROVE  Prepaid!PrepaidNext
<1>. PICK A, B : A = [j \in Key |-> AccountOf(j)] /\ B = [j \in Key |-> AccountOf(j)]'
  OBVIOUS
<1>1. A[k] = [state |-> "open", quota |-> keys[k].quota, spent |-> keys[k].used, held |-> 0]
  OBVIOUS
<1>2. A[k].state = "open" /\ A[k].held = 0 /\ B[k].spent = 0
  BY <1>1
<1>3. B = [A EXCEPT ![k].spent = 0]
  BY <1>1
<1>4. UNCHANGED <<[r \in Request |-> StageOf(r)], [r \in Request |-> HoldOf(r)]>>
  OBVIOUS
<1>5. Prepaid!Reset(k)
  BY <1>2, <1>3, <1>4, Zenon DEF Prepaid!Reset
<1>. QED
  BY <1>5 DEF Prepaid!PrepaidNext

\* A request starts and holds an amount.
LEMMA PrepaidStart ==
  ASSUME NEW r \in Request, NEW k \in Key, NEW amount,
         AccountOf(k) = [state |-> "open", quota |-> keys[k].quota,
                         spent |-> keys[k].used, held |-> keys[k].reserved],
         AccountOf(k)' = [state |-> "open", quota |-> keys[k].quota,
                          spent |-> keys[k].used, held |-> keys[k].reserved + amount],
         keys[k].quota # Unlimited => keys[k].used + (keys[k].reserved + amount) <= keys[k].quota,
         \A j \in Key \ {k} : AccountOf(j)' = AccountOf(j),
         StageOf(r) = "new", StageOf(r)' = "running",
         HoldOf(r)' = [key |-> k, amount |-> amount],
         \A q \in Request \ {r} : StageOf(q)' = StageOf(q) /\ HoldOf(q)' = HoldOf(q)
  PROVE  Prepaid!PrepaidNext
<1>. PICK A, B : A = [j \in Key |-> AccountOf(j)] /\ B = [j \in Key |-> AccountOf(j)]'
  OBVIOUS
<1>. PICK S, T : S = [q \in Request |-> StageOf(q)] /\ T = [q \in Request |-> StageOf(q)]'
  OBVIOUS
<1>. PICK H, I : H = [q \in Request |-> HoldOf(q)] /\ I = [q \in Request |-> HoldOf(q)]'
  OBVIOUS
<1>1. S[r] = "new" /\ T[r] = "running" /\ T = [S EXCEPT ![r] = "running"]
  OBVIOUS
<1>2. I[r] = [key |-> k, amount |-> amount] /\ I = [H EXCEPT ![r] = I[r]]
  OBVIOUS
<1>3. I[r].key = k /\ I[r].amount = amount
  BY <1>2
<1>4. /\ A[k] = [state |-> "open", quota |-> keys[k].quota,
                 spent |-> keys[k].used, held |-> keys[k].reserved]
      /\ B[k] = [state |-> "open", quota |-> keys[k].quota,
                 spent |-> keys[k].used, held |-> keys[k].reserved + amount]
  OBVIOUS
<1>5. A[k].state = "open" /\ B = [A EXCEPT ![k].held = @ + I[r].amount]
  BY <1>3, <1>4
<1>6. Prepaid!Within(B[k])
  BY <1>4 DEF Prepaid!Within
<1>7. Prepaid!Start(r)
  BY <1>1, <1>2, <1>3, <1>5, <1>6, ZenonT(30) DEF Prepaid!Start
<1>. QED
  BY <1>7 DEF Prepaid!PrepaidNext

\* A request ends with a charge and gives its whole hold back.
LEMMA PrepaidCharge ==
  ASSUME NEW r \in Request, NEW k \in Key, NEW amount, NEW spent \in Nat,
         keys[k].used \in Nat, keys[k].used <= spent,
         AccountOf(k) = [state |-> "open", quota |-> keys[k].quota,
                         spent |-> keys[k].used, held |-> keys[k].reserved],
         AccountOf(k)' = [state |-> "open", quota |-> keys[k].quota,
                          spent |-> spent, held |-> keys[k].reserved - amount],
         keys[k].quota # Unlimited => spent + (keys[k].reserved - amount) <= keys[k].quota,
         \A j \in Key \ {k} : AccountOf(j)' = AccountOf(j),
         StageOf(r) = "running", StageOf(r)' = "ended",
         HoldOf(r) = [key |-> k, amount |-> amount], HoldOf(r)' = Prepaid!Nothing,
         \A q \in Request \ {r} : StageOf(q)' = StageOf(q) /\ HoldOf(q)' = HoldOf(q)
  PROVE  Prepaid!PrepaidNext
<1>. PICK A, B : A = [j \in Key |-> AccountOf(j)] /\ B = [j \in Key |-> AccountOf(j)]'
  OBVIOUS
<1>. PICK S, T : S = [q \in Request |-> StageOf(q)] /\ T = [q \in Request |-> StageOf(q)]'
  OBVIOUS
<1>. PICK H, I : H = [q \in Request |-> HoldOf(q)] /\ I = [q \in Request |-> HoldOf(q)]'
  OBVIOUS
<1>1. S[r] = "running" /\ T[r] = "ended" /\ T = [S EXCEPT ![r] = "ended"]
  OBVIOUS
<1>2. H[r] = [key |-> k, amount |-> amount] /\ I = [H EXCEPT ![r] = Prepaid!Nothing]
  OBVIOUS
<1>3. H[r].key = k /\ H[r].amount = amount /\ k # NoKey
  BY <1>2
<1>4. /\ A[k] = [state |-> "open", quota |-> keys[k].quota,
                 spent |-> keys[k].used, held |-> keys[k].reserved]
      /\ B[k] = [state |-> "open", quota |-> keys[k].quota,
                 spent |-> spent, held |-> keys[k].reserved - amount]
      /\ A = [j \in Key |-> A[j]] /\ B = [j \in Key |-> B[j]]
      /\ \A j \in Key \ {k} : B[j] = A[j]
  OBVIOUS
<1>5. B = [A EXCEPT ![k].held = @ - H[r].amount, ![k].spent = B[k].spent]
  <2>. DEFINE D == [A EXCEPT ![k].held = @ - H[r].amount]
              C == [A EXCEPT ![k].held = @ - H[r].amount, ![k].spent = B[k].spent]
  <2>1. D[k] = [state |-> "open", quota |-> keys[k].quota,
                spent |-> keys[k].used, held |-> keys[k].reserved - amount]
    BY <1>3, <1>4
  <2>2. D = [j \in Key |-> D[j]] /\ \A j \in Key \ {k} : D[j] = A[j]
    BY <1>4
  <2>3. C = [D EXCEPT ![k].spent = B[k].spent]
    OBVIOUS
  <2>. HIDE DEF C, D
  <2>4. C[k] = B[k]
    BY <1>4, <2>1, <2>2, <2>3
  <2>5. C = [j \in Key |-> C[j]] /\ \A j \in Key \ {k} : C[j] = A[j]
    BY <2>2, <2>3
  <2>6. B = C
    BY <1>4, <2>4, <2>5
  <2>. QED BY <2>6 DEF C
<1>6. Prepaid!Within(B[k]) /\ B[k].spent >= A[k].spent
  BY <1>4 DEF Prepaid!Within
<1>7. Prepaid!Charge(r)
  BY <1>1, <1>2, <1>3, <1>5, <1>6, Zenon DEF Prepaid!Charge
<1>. QED
  BY <1>7 DEF Prepaid!PrepaidNext

\* The holds of some requests, the way Release sums them.
LEMMA HoldsAreSummed ==
  ASSUME NEW S \in SUBSET Request, IsFiniteSet(S), NEW f,
         \A r \in S : f[r] = HoldOf(r).amount
  PROVE  Prepaid!HeldBy(S) = SumOf(f, S)
<1>. DEFINE Adds(iter) == iter = [s \in SUBSET S |->
                IF s = {} THEN 0
                ELSE [r \in Request |-> HoldOf(r)][CHOOSE x \in s : TRUE].amount
                       + iter[s \ {CHOOSE x \in s : TRUE}]]
<1>2. \A s \in SUBSET S : s # {} => /\ (CHOOSE x \in s : TRUE) \in Request
                                    /\ (CHOOSE x \in s : TRUE) \in S
  OBVIOUS
<1>3. \A s \in SUBSET S : s # {} =>
        f[CHOOSE x \in s : TRUE] = [r \in Request |-> HoldOf(r)][CHOOSE x \in s : TRUE].amount
  BY <1>2
<1>4. ASSUME NEW g
      PROVE  Adds(g) <=> IsSum(g, f, S)
  <2>1. [s \in SUBSET S |-> IF s = {} THEN 0
                ELSE [r \in Request |-> HoldOf(r)][CHOOSE x \in s : TRUE].amount
                       + g[s \ {CHOOSE x \in s : TRUE}]]
        = [s \in SUBSET S |-> IF s = {} THEN 0
                ELSE f[CHOOSE x \in s : TRUE] + g[s \ {CHOOSE x \in s : TRUE}]]
    BY <1>3
  <2>. QED
    BY <2>1, Zenon DEF IsSum
<1>5. \E g : Adds(g)
  <2>. HIDE DEF Adds
  <2>1. PICK g : IsSum(g, f, S)
    BY SumExists
  <2>. QED
    BY <1>4, <2>1
<1>6. \E g : Adds(g) /\ Prepaid!HeldBy(S) = g[S]
  BY <1>5, Zenon DEF Prepaid!HeldBy, Prepaid!MapThenSumSet, Prepaid!MapThenFoldSet
<1>7. PICK g : Adds(g) /\ Prepaid!HeldBy(S) = g[S]
  BY <1>6
<1>8. IsSum(g, f, S)
  <2>. HIDE DEF Adds
  <2>. QED BY <1>4, <1>7
<1>9. SumOf(f, S) = g[S]
  BY <1>8, SumAgrees
<1>. QED
  BY <1>7, <1>9

\* What the accounts hold for interrupted requests, as one sum.
LEMMA HeldOnIsSum ==
  ASSUME NEW k \in Key, NEW P, P = {r \in Request : StageOf(r) = "running" /\ HoldOf(r).key = k},
         IsFiniteSet(P), NEW f, \A r \in P : f[r] = HoldOf(r).amount
  PROVE  Prepaid!HeldOn(k) = SumOf(f, P)
<1>1. P \in SUBSET Request
  OBVIOUS
<1>2. Prepaid!HeldBy(P) = SumOf(f, P)
  BY <1>1, HoldsAreSummed
<1>3. P = {r \in Prepaid!Interrupted : [q \in Request |-> HoldOf(q)][r].key = k}
  BY DEF Prepaid!Interrupted
<1>4. Prepaid!HeldOn(k) = Prepaid!HeldBy(P)
  BY <1>3, Zenon DEF Prepaid!HeldOn
<1>. QED BY <1>2, <1>4

\* Startup ends everything that was interrupted and gives its holds back.
LEMMA PrepaidRelease ==
  ASSUME NEW running \in SUBSET Request, running = {r \in Request : StageOf(r) = "running"},
         running # {},
         \A r \in Request : StageOf(r)' = IF r \in running THEN "ended" ELSE StageOf(r),
         \A r \in Request : HoldOf(r)' = Prepaid!Nothing,
         \A k \in Key :
           /\ AccountOf(k) = [state |-> AccountOf(k).state, quota |-> keys[k].quota,
                              spent |-> keys[k].used, held |-> keys[k].reserved]
           /\ AccountOf(k)' = [state |-> AccountOf(k).state, quota |-> keys[k].quota,
                               spent |-> keys[k].used, held |-> 0]
           /\ keys[k].reserved \in Nat
           /\ Prepaid!HeldOn(k) = keys[k].reserved
  PROVE  Prepaid!PrepaidNext
<1>1. Prepaid!Interrupted = running
  BY DEF Prepaid!Interrupted
<1>2. [r \in Request |-> StageOf(r)]'
        = [r \in Request |-> IF r \in Prepaid!Interrupted THEN "ended" ELSE [q \in Request |-> StageOf(q)][r]]
  BY <1>1
<1>3. [r \in Request |-> HoldOf(r)]' = [r \in Request |-> Prepaid!Nothing]
  OBVIOUS
<1>4. [k \in Key |-> AccountOf(k)]'
        = [k \in Key |-> [[j \in Key |-> AccountOf(j)][k] EXCEPT !.held = @ - Prepaid!HeldOn(k)]]
  <2>1. ASSUME NEW k \in Key
        PROVE  AccountOf(k)' = [AccountOf(k) EXCEPT !.held = @ - Prepaid!HeldOn(k)]
    <3>. PICK n : n = Prepaid!HeldOn(k)
      OBVIOUS
    <3>1. AccountOf(k).held = n /\ n - n = 0
      OBVIOUS
    <3>. QED BY <3>1
  <2>. QED BY <2>1
<1>5. \A k \in Key : [j \in Key |-> AccountOf(j)]'[k].held = 0
  OBVIOUS
<1>6. Prepaid!Release
  BY <1>1, <1>2, <1>3, <1>4, <1>5 DEF Prepaid!Release
<1>. QED
  BY <1>6 DEF Prepaid!PrepaidNext

\* What holds before and after every step.
AccountsHold == QuotaInv /\ FreshInv /\ AccountInv

\* A log row that stays, with its journal, reads the same.
LEMMA SameRequest ==
  ASSUME NEW r \in Request, log'[r] = log[r],
         Running(r) => \A j : Outstanding(r, j)' = Outstanding(r, j)
  PROVE  StageOf(r)' = StageOf(r) /\ HoldOf(r)' = HoldOf(r)
BY DEF StageOf, HoldOf, Running

\* A row that stays reads the same.
LEMMA SameKey ==
  ASSUME NEW k \in Key, keys'[k] = keys[k]
  PROVE  AccountOf(k)' = AccountOf(k)
BY DEF AccountOf, Live

\* A request that does not run holds nothing.
LEMMA NothingHeld ==
  ASSUME NEW r
  PROVE  ~Running(r) => HoldOf(r) = Prepaid!Nothing
BY DEF HoldOf, Prepaid!Nothing

\* No key, no hold.
LEMMA NoKeyHoldsNothing ==
  ASSUME TypeOK, JournalInv, NEW r \in Request, Running(r), log[r].key = NoKey
  PROVE  HoldOf(r) = Prepaid!Nothing
<1>1. \A row \in ledger : row.key # NoKey
  BY DEF TypeOK, LedgerRow
<1>2. Outstanding(r, NoKey) = 0
  BY <1>1, JournalIsRead DEF JournalReads
<1>. QED
  BY <1>2 DEF HoldOf, Prepaid!Nothing

\* The same after a step.
NoKeyHolds ==
  TypeOK /\ JournalInv =>
    \A r \in Request : Running(r) /\ log[r].key = NoKey => HoldOf(r) = Prepaid!Nothing

\* A request without a key holds nothing in the next state either.
LEMMA NoKeyHoldsNext == NoKeyHolds'
<1>1. NoKeyHolds
  BY NoKeyHoldsNothing DEF NoKeyHolds
<1>. QED BY <1>1, PTL

\* The administrator's calls, as calls on an account.
LEMMA AdminPrepaid ==
  ASSUME AccountsHold, AccountsHold', AdminNext
  PROVE  Prepaid!PrepaidNext \/ UNCHANGED Prepaid!promised
<1>. PICK k \in Key :
       \/ \E q \in Quotas \union {Unlimited} : CreateDownstreamKey(k, q)
       \/ \E q \in Quotas \union {Unlimited}, e \in BOOLEAN : UpdateDownstreamKey(k, q, e)
       \/ DeleteDownstreamKey(k)
       \/ ResetDownstreamKeyUsage(k)
  BY DEF AdminNext
<1>0. /\ TypeOK /\ TypeOK' /\ AccountInv /\ AccountInv' /\ QuotaNeverOverspent'
      /\ keys[k] \in KeyRow /\ keys'[k] \in KeyRow
  BY DEF AccountsHold, QuotaInv, TypeOK
<1>1. AccountReads /\ AccountReads'
  BY AccountIsRead, AccountIsReadNext
<1>2. ASSUME log' = log, ledger' = ledger
      PROVE  \A r \in Request : StageOf(r)' = StageOf(r) /\ HoldOf(r)' = HoldOf(r)
  BY <1>2, SameRequest, SameRows DEF RowsOf
<1>3. ASSUME \A j \in Key \ {k} : keys'[j] = keys[j]
      PROVE  \A j \in Key \ {k} : AccountOf(j)' = AccountOf(j)
  BY <1>3, SameKey
<1>4. ASSUME NEW q \in Quotas \union {Unlimited}, CreateDownstreamKey(k, q)
      PROVE  Prepaid!PrepaidNext
  <2>1. /\ keys[k].row = "none" /\ log' = log /\ ledger' = ledger
        /\ keys'[k] = [row |-> "live", enabled |-> TRUE, quota |-> q, used |-> 0, reserved |-> 0]
        /\ \A j \in Key \ {k} : keys'[j] = keys[j]
    BY <1>0, <1>4 DEF CreateDownstreamKey, TypeOK
  <2>2. keys[k].used = 0 /\ keys[k].reserved = 0
    BY <1>0, <2>1 DEF AccountInv, ClosedInv, Live
  <2>3. AccountOf(k).state # "closed"
    BY <1>0, <1>1, <2>1 DEF AccountReads
  <2>4. AccountOf(k)' = [state |-> "open", quota |-> q,
                         spent |-> keys[k].used, held |-> keys[k].reserved]
    BY <2>1, <2>2 DEF AccountOf, Live
  <2>5. q # Unlimited => keys[k].used + keys[k].reserved <= q
    BY <2>2, QuotaIsNat
  <2>. QED BY <1>0, <1>1, <1>2, <1>3, <2>1, <2>3, <2>4, <2>5, PrepaidSet DEF AccountReads
<1>5. ASSUME NEW q \in Quotas \union {Unlimited}, NEW e \in BOOLEAN, UpdateDownstreamKey(k, q, e)
      PROVE  Prepaid!PrepaidNext
  <2>1. /\ keys[k].row = "live" /\ log' = log /\ ledger' = ledger
        /\ keys' = [keys EXCEPT ![k] = [keys[k] EXCEPT !.quota = q, !.enabled = e]]
        /\ q # Unlimited => q >= keys[k].used /\ q - keys[k].used >= keys[k].reserved
    BY <1>5 DEF UpdateDownstreamKey, Live
  <2>2. /\ keys'[k].row = "live" /\ keys'[k].quota = q
        /\ keys'[k].used = keys[k].used /\ keys'[k].reserved = keys[k].reserved
        /\ \A j \in Key \ {k} : keys'[j] = keys[j]
    BY <1>0, <2>1 DEF TypeOK, KeyRow
  <2>3. AccountOf(k).state # "closed"
    BY <1>0, <1>1, <2>1 DEF AccountReads
  <2>4. AccountOf(k)' = [state |-> "open", quota |-> q,
                         spent |-> keys[k].used, held |-> keys[k].reserved]
    BY <2>2 DEF AccountOf, Live
  <2>5. q # Unlimited => keys[k].used + keys[k].reserved <= q
    BY <1>0, <2>1, QuotaIsNat, KeyRowType
  <2>. QED BY <1>0, <1>1, <1>2, <1>3, <2>1, <2>2, <2>3, <2>4, <2>5, PrepaidSet DEF AccountReads
<1>6. CASE DeleteDownstreamKey(k)
  <2>1. /\ keys[k].row = "live" /\ keys[k].reserved = 0
        /\ keys'[k] = [row |-> "deleted", enabled |-> FALSE,
                       quota |-> Unlimited, used |-> 0, reserved |-> 0]
        /\ \A j \in Key \ {k} : keys'[j] = keys[j]
        /\ ledger' = {row \in ledger : row.key # k}
        /\ \A r \in Request :
             log'[r] = IF log[r].key = k THEN [log[r] EXCEPT !.key = NoKey] ELSE log[r]
    BY <1>0, <1>6 DEF DeleteDownstreamKey, Live, TypeOK
  <2>2. AccountOf(k).state = "open" /\ AccountOf(k).held = 0
    BY <1>0, <1>1, <2>1 DEF AccountReads
  <2>3. AccountOf(k)' = [state |-> "closed", quota |-> Unlimited, spent |-> 0, held |-> 0]
    BY <2>1 DEF AccountOf, Live
  <2>4. ASSUME NEW r \in Request
        PROVE  /\ StageOf(r)' = StageOf(r)
               /\ HoldOf(r)' = IF HoldOf(r).key = k THEN Prepaid!Nothing ELSE HoldOf(r)
    <3>0. log[r] \in LogRow /\ log'[r].status = log[r].status
      BY <1>0, <2>1 DEF TypeOK, LogRow
    <3>1. StageOf(r)' = StageOf(r)
      BY <3>0 DEF StageOf, Running
    <3>2. CASE ~Running(r)
      <4>1. HoldOf(r) = Prepaid!Nothing /\ HoldOf(r)' = Prepaid!Nothing
        BY <3>0, <3>2 DEF HoldOf, Running, Prepaid!Nothing
      <4>. QED BY <3>1, <4>1
    <3>3. CASE Running(r) /\ log[r].key = k
      <4>1. HoldOf(r).key = k
        BY <3>3 DEF HoldOf
      <4>2. Running(r)' /\ log'[r].key = NoKey
        BY <2>1, <3>0, <3>3 DEF Running, LogRow
      <4>3. HoldOf(r)' = Prepaid!Nothing
        BY <1>0, <4>2, NoKeyHoldsNext DEF NoKeyHolds, AccountInv
      <4>. QED BY <3>1, <4>1, <4>3
    <3>4. CASE Running(r) /\ log[r].key # k
      <4>. PICK j : j = log[r].key
        OBVIOUS
      <4>1. {row \in ledger' : row.request = r /\ row.key = j} = RowsOf(r, j)
        BY <2>1, <3>4 DEF RowsOf
      <4>2. Outstanding(r, j)' = Outstanding(r, j)
        BY <4>1, SameRows
      <4>3. HoldOf(r)' = HoldOf(r) /\ HoldOf(r).key # k
        BY <2>1, <3>4, <4>2 DEF HoldOf, Running
      <4>. QED BY <3>1, <4>3
    <3>. QED BY <3>2, <3>3, <3>4
  <2>5. Prepaid!PrepaidNext
    BY <1>3, <2>1, <2>2, <2>3, <2>4, PrepaidClose
  <2>. QED BY <2>5
<1>7. CASE ResetDownstreamKeyUsage(k)
  <2>1. /\ keys[k].row = "live" /\ keys[k].reserved = 0 /\ log' = log
        /\ keys' = [keys EXCEPT ![k] = [keys[k] EXCEPT !.used = 0]]
        /\ ledger' = {row \in ledger : row.key # k}
    BY <1>7 DEF ResetDownstreamKeyUsage, Live
  <2>2. /\ keys'[k].row = "live" /\ keys'[k].quota = keys[k].quota
        /\ keys'[k].used = 0 /\ keys'[k].reserved = 0
        /\ \A j \in Key \ {k} : keys'[j] = keys[j]
    BY <1>0, <2>1 DEF TypeOK, KeyRow
  <2>3. AccountOf(k) = [state |-> "open", quota |-> keys[k].quota,
                        spent |-> keys[k].used, held |-> 0]
    BY <2>1 DEF AccountOf, Live
  <2>4. AccountOf(k)' = [state |-> "open", quota |-> keys[k].quota, spent |-> 0, held |-> 0]
    BY <2>2 DEF AccountOf, Live
  <2>5. ASSUME NEW r \in Request
        PROVE  StageOf(r)' = StageOf(r) /\ HoldOf(r)' = HoldOf(r)
    <3>1. ASSUME Running(r), NEW j PROVE Outstanding(r, j)' = Outstanding(r, j)
      <4>1. \A row \in ledger : row.request = r => row.key # k
        BY <1>0, <2>1, <3>1, UnreservedKey DEF AccountInv
      <4>2. {row \in ledger' : row.request = r /\ row.key = j} = RowsOf(r, j)
        BY <2>1, <4>1 DEF RowsOf
      <4>. QED BY <4>2, SameRows
    <3>. QED BY <2>1, <3>1, SameRequest
  <2>6. Prepaid!PrepaidNext
    BY <1>3, <2>2, <2>3, <2>4, <2>5, PrepaidReset
  <2>. QED BY <2>6
<1>. QED
  BY <1>4, <1>5, <1>6, <1>7

\* An admitted request, as a hold.
LEMMA StartPrepaid ==
  ASSUME AccountsHold, AccountsHold', NEW r \in Request, NEW a \in Amounts, StartRequest(r, a)
  PROVE  Prepaid!PrepaidNext
<1>. PICK k, reserved : k = gw[r].key /\ reserved = Reservation(r, a)
  OBVIOUS
<1>0. /\ TypeOK /\ TypeOK' /\ FreshInv /\ AccountInv /\ AccountInv' /\ QuotaNeverOverspent'
  BY DEF AccountsHold, QuotaInv
<1>1. /\ k \in Key /\ Live(k) /\ reserved \in Nat
      /\ log[r].status = "none" /\ log'[r] = [status |-> "running", key |-> k]
      /\ \A q \in Request \ {r} : log'[q] = log[q] /\ \A j : Outstanding(q, j)' = Outstanding(q, j)
      /\ Outstanding(r, k)' = reserved
  BY <1>0, StartAccounts
<1>2. keys' = [keys EXCEPT ![k].reserved = @ + reserved] /\ keys[k] \in KeyRow
  BY <1>0, <1>1 DEF StartRequest, TypeOK
<1>3. /\ keys'[k].row = "live" /\ keys'[k].quota = keys[k].quota
      /\ keys'[k].used = keys[k].used /\ keys'[k].reserved = keys[k].reserved + reserved
      /\ \A j \in Key \ {k} : keys'[j] = keys[j]
  BY <1>0, <1>1, <1>2 DEF TypeOK, KeyRow, Live
<1>4. AccountOf(k) = [state |-> "open", quota |-> keys[k].quota,
                      spent |-> keys[k].used, held |-> keys[k].reserved]
  BY <1>1 DEF AccountOf, Live
<1>5. AccountOf(k)' = [state |-> "open", quota |-> keys[k].quota,
                       spent |-> keys[k].used, held |-> keys[k].reserved + reserved]
  BY <1>1, <1>3 DEF AccountOf, Live
<1>6. keys[k].quota # Unlimited => keys[k].used + (keys[k].reserved + reserved) <= keys[k].quota
  BY <1>0, <1>1, <1>3 DEF QuotaNeverOverspent, Live, Finite
<1>7. \A j \in Key \ {k} : AccountOf(j)' = AccountOf(j)
  BY <1>3, SameKey
<1>8. StageOf(r) = "new" /\ StageOf(r)' = "running"
  BY <1>1 DEF StageOf, Running
<1>9. HoldOf(r)' = [key |-> k, amount |-> reserved]
  BY <1>1 DEF HoldOf, Running
<1>10. \A q \in Request \ {r} : StageOf(q)' = StageOf(q) /\ HoldOf(q)' = HoldOf(q)
  BY <1>1, SameRequest
<1>. QED
  BY <1>1, <1>4, <1>5, <1>6, <1>7, <1>8, <1>9, <1>10, PrepaidStart

\* A settled request, as a charge for its hold.
LEMMA FinishPrepaid ==
  ASSUME AccountsHold, AccountsHold', NEW r \in Request, NEW a \in Amounts,
         Finish(r, a) \/ FinishAcknowledgementLost(r, a)
  PROVE  Prepaid!PrepaidNext
<1>. PICK k, reserved, applied :
       k = gw[r].key /\ reserved = gw[r].reserved /\ applied = Applied(k, reserved, a)
  OBVIOUS
<1>0. /\ TypeOK /\ TypeOK' /\ AccountInv /\ AccountInv' /\ QuotaNeverOverspent'
  BY DEF AccountsHold, QuotaInv
<1>1. /\ Settle(r, a) /\ gw[r].pc \in {"inflight", "retry"}
      /\ gw'[r] \in {Forgotten, AfterError(gw[r])} /\ \A q \in Request \ {r} : gw'[q] = gw[q]
  BY <1>0, FinishMemory
<1>2. /\ k \in Key /\ Live(k) /\ reserved \in Nat /\ applied \in Nat
      /\ Running(r) /\ log[r].key = k /\ log'[r].status = "finished"
      /\ \A q \in Request \ {r} : log'[q] = log[q] /\ \A j : Outstanding(q, j)' = Outstanding(q, j)
      /\ Outstanding(r, k) = reserved
  BY <1>0, <1>1, SettleAccounts
<1>3. /\ keys' = [keys EXCEPT ![k] = Settled(keys[k], reserved, applied)]
      /\ keys[k] \in KeyRow
  BY <1>0, <1>1, <1>2 DEF Settle, TypeOK
<1>4. /\ keys'[k].row = "live" /\ keys'[k].quota = keys[k].quota
      /\ keys'[k].used = keys[k].used + applied /\ keys'[k].reserved = keys[k].reserved - reserved
      /\ \A j \in Key \ {k} : keys'[j] = keys[j]
  BY <1>0, <1>2, <1>3 DEF TypeOK, KeyRow, Live, Settled
<1>. PICK spent : spent = keys[k].used + applied
  OBVIOUS
<1>5. spent \in Nat /\ keys[k].used \in Nat /\ keys[k].used <= spent
  BY <1>0, <1>2, KeyRowType
<1>6. AccountOf(k) = [state |-> "open", quota |-> keys[k].quota,
                      spent |-> keys[k].used, held |-> keys[k].reserved]
  BY <1>2 DEF AccountOf, Live
<1>7. AccountOf(k)' = [state |-> "open", quota |-> keys[k].quota,
                       spent |-> spent, held |-> keys[k].reserved - reserved]
  BY <1>2, <1>4 DEF AccountOf, Live
<1>8. keys[k].quota # Unlimited => spent + (keys[k].reserved - reserved) <= keys[k].quota
  BY <1>0, <1>2, <1>4 DEF QuotaNeverOverspent, Live, Finite
<1>9. \A j \in Key \ {k} : AccountOf(j)' = AccountOf(j)
  BY <1>4, SameKey
<1>10. StageOf(r) = "running" /\ StageOf(r)' = "ended"
  BY <1>2 DEF StageOf, Running
<1>11. HoldOf(r) = [key |-> k, amount |-> reserved] /\ HoldOf(r)' = Prepaid!Nothing
  BY <1>2 DEF HoldOf, Running, Prepaid!Nothing
<1>12. \A q \in Request \ {r} : StageOf(q)' = StageOf(q) /\ HoldOf(q)' = HoldOf(q)
  BY <1>2, SameRequest
<1>. QED
  BY <1>2, <1>5, <1>6, <1>7, <1>8, <1>9, <1>10, <1>11, <1>12, PrepaidCharge

\* What the accounts hold for the interrupted requests is what they reserved.
LEMMA HeldIsReserved ==
  ASSUME TypeOK, AccountInv, NEW k \in Key
  PROVE  Prepaid!HeldOn(k) = keys[k].reserved
<1>. DEFINE S == RunningRequests
            f == OutstandingOn(k)
            P == {r \in Request : StageOf(r) = "running" /\ HoldOf(r).key = k}
<1>1. Countable
  BY JournalIsRead DEF Countable, JournalReads, RunningRequests, AccountInv, ReservedInv
<1>2. keys[k].reserved = SumOf(f, S)
  BY <1>1, OrphanedIsSum DEF OrphanedIsTheSum, AccountInv, ReservedInv
<1>3. IsFiniteSet(S) /\ \A r \in S : f[r] \in Nat
  BY <1>1 DEF Countable, OutstandingOn
<1>4. \A r \in Request : StageOf(r) = "running" <=> Running(r)
  BY DEF StageOf, Running
<1>5. P = {r \in S : log[r].key = k}
  BY <1>4 DEF HoldOf, RunningRequests
<1>6. \A r \in S \ P : f[r] = 0
  BY <1>5, JournalIsRead DEF JournalReads, RunningRequests, OutstandingOn, AccountInv
<1>7. \A r \in P : f[r] = HoldOf(r).amount
  BY <1>5 DEF HoldOf, RunningRequests, OutstandingOn
<1>8. IsFiniteSet(P) /\ P \in SUBSET S
  BY <1>3, <1>5, FS_Subset
<1>9. SumOf(f, S) = SumOf(f, P)
  <2>. HIDE DEF S, f, P
  <2>. QED BY <1>3, <1>6, <1>8, SumPart
<1>10. Prepaid!HeldOn(k) = SumOf(f, P)
  <2>. PICK Q, h : Q = P /\ h = f
    OBVIOUS
  <2>1. Q = {r \in Request : StageOf(r) = "running" /\ HoldOf(r).key = k}
    OBVIOUS
  <2>2. IsFiniteSet(Q) /\ \A r \in Q : h[r] = HoldOf(r).amount
    BY <1>7, <1>8
  <2>. HIDE DEF P, f, S
  <2>3. Prepaid!HeldOn(k) = SumOf(h, Q)
    BY <2>1, <2>2, HeldOnIsSum
  <2>. QED BY <2>3
<1>. QED
  BY <1>2, <1>9, <1>10

\* A row whose hold is given back is otherwise the row it was.
LEMMA ReleasedRow ==
  ASSUME NEW row \in KeyRow, NEW new, new = [row EXCEPT !.reserved = 0]
  PROVE  new.row = row.row /\ new.quota = row.quota /\ new.used = row.used /\ new.reserved = 0
BY DEF KeyRow

\* Startup, as the release of everything interrupted.
LEMMA RecoveryPrepaid ==
  ASSUME AccountsHold, AccountsHold', RecoverRunningRequests
  PROVE  Prepaid!PrepaidNext \/ UNCHANGED Prepaid!promised
<1>0. TypeOK /\ TypeOK' /\ AccountInv /\ AccountInv'
  BY DEF AccountsHold, QuotaInv
<1>1. /\ \A k \in Key : keys'[k] = [keys[k] EXCEPT !.reserved = 0]
      /\ \A r \in Request : ~Running(r)'
  BY <1>0, RecoveryAccounts
<1>2. \A r \in Request : log'[r] = IF Running(r) THEN [log[r] EXCEPT !.status = "finished"] ELSE log[r]
  BY DEF RecoverRunningRequests
<1>. PICK running : running = {r \in Request : StageOf(r) = "running"}
  OBVIOUS
<1>3. \A r \in Request : r \in running <=> Running(r)
  BY DEF StageOf, Running
<1>4. \A k \in Key : keys[k] \in KeyRow /\ keys[k].reserved \in Nat /\ Prepaid!HeldOn(k) = keys[k].reserved
  BY <1>0, HeldIsReserved DEF TypeOK, KeyRow
<1>5. CASE running = {}
  <2>1. \A r \in Request : StageOf(r)' = StageOf(r) /\ HoldOf(r)' = HoldOf(r)
    BY <1>2, <1>3, <1>5, SameRequest
  <2>2. RunningRequests = {}
    BY <1>3, <1>5 DEF RunningRequests
  <2>3. ASSUME NEW k \in Key PROVE keys[k].reserved = 0
    <3>1. Countable
      BY <2>2, FS_EmptySet DEF Countable
    <3>2. keys[k].reserved = SumOf(OutstandingOn(k), RunningRequests)
      BY <1>0, <3>1, OrphanedIsSum DEF OrphanedIsTheSum, AccountInv, ReservedInv
    <3>. PICK f : f = OutstandingOn(k)
      OBVIOUS
    <3>3. SumOf(f, {}) = 0
      BY FS_EmptySet, SumOfZeros
    <3>. QED BY <2>2, <3>2, <3>3
  <2>4. \A k \in Key : keys'[k] = keys[k]
    BY <1>1, <1>4, <2>3 DEF KeyRow
  <2>5. \A k \in Key : AccountOf(k)' = AccountOf(k)
    BY <2>4, SameKey
  <2>. QED BY <2>1, <2>5, PrepaidStutter
<1>6. CASE running # {}
  <2>1. \A r \in Request : StageOf(r)' = IF r \in running THEN "ended" ELSE StageOf(r)
    BY <1>0, <1>2, <1>3 DEF StageOf, Running, TypeOK, LogRow
  <2>2. \A r \in Request : HoldOf(r)' = Prepaid!Nothing
    BY <1>1 DEF HoldOf, Prepaid!Nothing
  <2>3. \A k \in Key :
          AccountOf(k) = [state |-> AccountOf(k).state, quota |-> keys[k].quota,
                          spent |-> keys[k].used, held |-> keys[k].reserved]
    BY <1>0, AccountIsRead DEF AccountReads
  <2>4. ASSUME NEW k \in Key
        PROVE  AccountOf(k)' = [state |-> AccountOf(k).state, quota |-> keys[k].quota,
                                spent |-> keys[k].used, held |-> 0]
    <3>1. /\ keys'[k].row = keys[k].row /\ keys'[k].quota = keys[k].quota
          /\ keys'[k].used = keys[k].used /\ keys'[k].reserved = 0
      <4>1. keys[k] \in KeyRow
        BY <1>4
      <4>2. keys'[k] = [keys[k] EXCEPT !.reserved = 0]
        BY <1>1
      <4>. QED BY <4>1, <4>2, ReleasedRow
    <3>. QED BY <3>1 DEF AccountOf, Live
  <2>5. Prepaid!PrepaidNext
    BY <1>4, <1>6, <2>1, <2>2, <2>3, <2>4, PrepaidRelease
  <2>. QED BY <2>5
<1>. QED
  BY <1>5, <1>6

\* Every step of the rows is a step of the accounts, or changes none of them.
LEMMA NextPrepaid ==
  AccountsHold /\ AccountsHold' /\ [Next]_vars => Prepaid!PrepaidNext \/ UNCHANGED Prepaid!promised
<1>. SUFFICES ASSUME AccountsHold, AccountsHold', [Next]_vars
              PROVE  Prepaid!PrepaidNext \/ UNCHANGED Prepaid!promised
  OBVIOUS
<1>0. TypeOK /\ TypeOK' /\ AccountInv /\ AccountInv'
  BY DEF AccountsHold, QuotaInv
<1>1. ASSUME keys' = keys, log' = log, ledger' = ledger
      PROVE  UNCHANGED Prepaid!promised
  BY <1>1, SameKey, SameRequest, SameRows, PrepaidStutter DEF RowsOf
<1>2. CASE AdminNext
  BY <1>2, AdminPrepaid
<1>3. CASE RequestNext
  <2>. PICK r \in Request :
         \/ \E k \in Key : AuthenticateDownstreamKey(r, k)
         \/ \E a \in Amounts : StartRequest(r, a)
         \/ StartRequestRejected(r)
         \/ \E a \in Amounts : Finish(r, a)
         \/ \E a \in Amounts : FinishAcknowledgementLost(r, a)
         \/ FinishFails(r)
    BY <1>3 DEF RequestNext
  <2>1. CASE \E a \in Amounts : StartRequest(r, a)
    BY <2>1, StartPrepaid
  <2>2. CASE \E a \in Amounts : Finish(r, a) \/ FinishAcknowledgementLost(r, a)
    BY <2>2, FinishPrepaid
  <2>3. CASE \/ \E k \in Key : AuthenticateDownstreamKey(r, k)
             \/ StartRequestRejected(r)
             \/ FinishFails(r)
    BY <1>1, <2>3 DEF AuthenticateDownstreamKey, StartRequestRejected, FinishFails
  <2>. QED BY <2>1, <2>2, <2>3
<1>4. ASSUME NEW old \in SUBSET Request, DeleteOldLogs(old)
      PROVE  UNCHANGED Prepaid!promised
  <2>1. /\ keys' = keys
        /\ \A r \in Request : log'[r] = IF r \in old /\ log[r].status = "finished"
                                        THEN [log[r] EXCEPT !.status = "deleted"] ELSE log[r]
    BY <1>4 DEF DeleteOldLogs
  <2>2. ASSUME NEW r \in Request
        PROVE  StageOf(r)' = StageOf(r) /\ HoldOf(r)' = HoldOf(r)
    <3>1. CASE Running(r)
      <4>1. log'[r] = log[r] /\ \A j : Outstanding(r, j)' = Outstanding(r, j)
        BY <1>0, <1>4, <2>1, <3>1, CleanupAccounts DEF Running
      <4>. QED BY <4>1, SameRequest
    <3>2. CASE ~Running(r)
      <4>1. \/ log'[r].status = log[r].status
            \/ log[r].status = "finished" /\ log'[r].status = "deleted"
        BY <1>0, <2>1 DEF TypeOK, LogRow
      <4>. QED BY <3>2, <4>1 DEF StageOf, HoldOf, Running
    <3>. QED BY <3>1, <3>2
  <2>. QED BY <2>1, <2>2, SameKey, PrepaidStutter
<1>5. CASE Crash
  BY <1>1, <1>5 DEF Crash
<1>6. CASE RecoverRunningRequests
  BY <1>6, RecoveryPrepaid
<1>7. CASE UNCHANGED vars
  BY <1>1, <1>7 DEF vars
<1>. QED
  BY <1>2, <1>3, <1>4, <1>5, <1>6, <1>7 DEF Next

\* At the first state no key exists and no request has started.
LEMMA InitPrepaid == Init => Prepaid!PrepaidInit
<1>. SUFFICES ASSUME Init PROVE Prepaid!PrepaidInit
  OBVIOUS
<1>1. \A k \in Key : AccountOf(k) = [state |-> "none", quota |-> Unlimited, spent |-> 0, held |-> 0]
  BY DEF Init, AccountOf, Live
<1>2. \A r \in Request : StageOf(r) = "new" /\ HoldOf(r) = Prepaid!Nothing
  BY DEF Init, StageOf, HoldOf, Running, Prepaid!Nothing
<1>. QED
  BY <1>1, <1>2 DEF Prepaid!PrepaidInit

\* Rows, journal, stale gateway memory, repeated finish() and recovery together
\* implement prepaid accounts.
THEOREM PrepaidRefinement == Spec => KeysArePrepaid
<1>1. Spec => []AccountsHold
  BY AccountInvariant, PTL DEF AccountsHold
<1>2. AccountsHold /\ AccountsHold' /\ [Next]_vars => [Prepaid!PrepaidNext]_Prepaid!promised
  BY NextPrepaid
<1>. QED
  BY <1>1, <1>2, InitPrepaid, PTL DEF Spec, KeysArePrepaid, Prepaid!PrepaidSpec

=============================================================================
