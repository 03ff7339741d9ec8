-------------------------- MODULE SwapSteps_proofs --------------------------
(***************************************************************************)
(* One quote over any pool, any tick arrays that an update may have left   *)
(* and any amount.                                                         *)
(***************************************************************************)
EXTENDS SwapSteps, TLAPS, FiniteSetTheorems, WellFoundedInduction

Running == {"loop", "find", "step"}

\* The arrays that a direction may lead through.
Ahead(c, z) ==
  {s \in Visible(c) : s = ArrayStart(c.tick) \/ Beyond(s, ArrayStart(c.tick), z)}

NoBitmap(c) == is_overflow_default_tickarray_bitmap(c) /\ ~c.ext

RequestInv == core \in Cores /\ zero_for_one \in BOOLEAN /\ amount \in Amounts

\* A quote starts from the pool as it was read.
StartInv ==
  pc = "init" => /\ price = core.price /\ tick = core.tick /\ walked = {} /\ remaining > 0
                 /\ liquidity = Liquidity(core.positions, core.tick)

\* The walk reads loaded arrays of its direction, the nearest one first.
WalkInv ==
  /\ walked \subseteq Ahead(core, zero_for_one) \cap DOMAIN core.arrays
  /\ walked # {} => /\ ~NoBitmap(core)
                    /\ Nearest(Ahead(core, zero_for_one), zero_for_one) \in walked
  /\ pc \in Running =>
       /\ ~NoBitmap(core) /\ start_index \in Ahead(core, zero_for_one)
       /\ walked = {} => start_index = Nearest(Ahead(core, zero_for_one), zero_for_one)

\* The price is within the tick, and the arrays beyond start_index are beyond
\* the tick.
PlaceInv ==
  pc \in Running =>
    /\ price \in PriceAt(tick)..PriceAt(tick + 1)
    /\ IF zero_for_one THEN tick >= start_index - 1 ELSE tick < start_index + ArrayTicks
    /\ ~is_match => Beyond(start_index, ArrayStart(tick), zero_for_one)

\* The tick that the next step goes to.
TargetInv ==
  /\ pc \in {"find", "step"} => remaining > 0 /\ price # sqrt_price_limit
  /\ pc = "step" =>
       /\ is_match /\ Loaded(start_index) /\ next_tick \in DOMAIN core.arrays[start_index]
       /\ IF zero_for_one THEN next_tick <= tick ELSE next_tick > tick

\* No initialized tick is passed over: neither by the walk, nor by next_tick.
GapInv ==
  Consistent /\ pc \in Running /\ remaining > 0 =>
    /\ \A t \in InitializedTicks(core.positions) :
         /\ zero_for_one /\ t <= tick => t < start_index + ArrayTicks
         /\ ~zero_for_one /\ t > tick => t >= start_index
    /\ pc = "step" => \A t \in InitializedTicks(core.positions) :
         IF zero_for_one THEN t <= tick => t <= next_tick ELSE t > tick => t >= next_tick
    /\ pc # "step" /\ is_match /\ price # sqrt_price_limit =>
         IF zero_for_one THEN tick < start_index + ArrayTicks ELSE tick >= start_index
    /\ liquidity = Liquidity(core.positions, tick)

IInv == RequestInv /\ StartInv /\ TypeOK /\ WalkInv /\ PlaceInv /\ TargetInv /\ GapInv

-----------------------------------------------------------------------------
(* Arithmetic.                                                              *)

LEMMA DivFacts ==
  ASSUME NEW p \in Int, NEW d \in Nat \ {0}, NEW q, q = p \div d
  PROVE  q \in Int /\ q * d <= p /\ p < q * d + d
  OBVIOUS

LEMMA TimesMonotone ==
  ASSUME NEW a \in Int, NEW b \in Int, a < b, NEW d \in Nat \ {0}
  PROVE  a * d \in Int /\ a * d + d <= b * d
  OBVIOUS

LEMMA PriceFacts ==
  ASSUME NEW a \in Int, NEW b \in Int
  PROVE  /\ PriceAt(a) \in Int /\ Scale \in Nat \ {0} /\ PriceAt(a + 1) = PriceAt(a) + Scale
         /\ a < b => PriceAt(a) + Scale <= PriceAt(b)
<1>1. Scale \in Nat \ {0}
  BY SwapStepsAssumption
<1>2. PriceAt(a) \in Int /\ PriceAt(a + 1) = PriceAt(a) + Scale
  BY <1>1 DEF PriceAt
<1>3. a < b => PriceAt(a) + Scale <= PriceAt(b)
  BY <1>1, TimesMonotone DEF PriceAt
<1>4. QED
  BY <1>1, <1>2, <1>3

LEMMA TickFacts ==
  ASSUME NEW p \in Int
  PROVE  /\ TickAt(p) \in Int /\ p \in PriceAt(TickAt(p))..PriceAt(TickAt(p) + 1)
         /\ \A t \in Int : /\ PriceAt(t) <= p => t <= TickAt(p)
                           /\ p < PriceAt(t) => TickAt(p) < t
<1>1. PICK q, d : q = TickAt(p) /\ d = Scale
  OBVIOUS
<1>2. d \in Nat \ {0} /\ q = p \div d
  BY <1>1, SwapStepsAssumption DEF TickAt
<1>3. q \in Int /\ q * d <= p /\ p < q * d + d
  BY <1>2, DivFacts
<1>4. PriceAt(q) <= p /\ p < PriceAt(q) + Scale
  BY <1>1, <1>3 DEF PriceAt
<1>5. PriceAt(q) \in Int /\ PriceAt(q + 1) = PriceAt(q) + Scale
  BY <1>3, PriceFacts
<1>6. ASSUME NEW t \in Int
      PROVE  (PriceAt(t) <= p => t <= q) /\ (p < PriceAt(t) => q < t)
  <2>1. PriceAt(t) \in Int /\ Scale \in Nat \ {0}
    BY PriceFacts
  <2>2. q < t => PriceAt(q) + Scale <= PriceAt(t)
    BY <1>3, PriceFacts
  <2>3. t < q => PriceAt(t) + Scale <= PriceAt(q)
    BY <1>3, PriceFacts
  <2>4. QED
    BY <1>3, <1>4, <1>5, <2>1, <2>2, <2>3
<1>7. p \in PriceAt(q)..PriceAt(q + 1)
  <2>1. Scale \in Int /\ PriceAt(q + 1) \in Int
    BY <1>5, SwapStepsAssumption
  <2>2. QED
    BY <1>4, <1>5, <2>1
<1>8. \A t \in Int : (PriceAt(t) <= p => t <= q) /\ (p < PriceAt(t) => q < t)
  BY <1>6
<1>9. QED
  BY <1>1, <1>3, <1>7, <1>8

LEMMA ArrayFacts ==
  ASSUME NEW t \in Int, NEW u \in Int
  PROVE  /\ ArrayTicks \in Nat \ {0} /\ ArrayStart(t) \in Int
         /\ ArrayStart(t) <= t /\ t < ArrayStart(t) + ArrayTicks
         /\ ArrayStart(t) < ArrayStart(u) => ArrayStart(t) + ArrayTicks <= ArrayStart(u)
<1>1. PICK d, q, r : d = ArrayTicks /\ q = t \div d /\ r = u \div d
  OBVIOUS
<1>2. d \in Nat \ {0}
  <2>1. tick_spacing \in Nat \ {0} /\ TICK_ARRAY_SIZE \in Nat \ {0}
    BY SwapStepsAssumption
  <2>2. tick_spacing * TICK_ARRAY_SIZE \in Nat \ {0}
    BY <2>1
  <2>3. QED
    BY <1>1, <2>2 DEF ArrayTicks
<1>3. q \in Int /\ q * d <= t /\ t < q * d + d /\ r \in Int
  BY <1>1, <1>2, DivFacts
<1>4. ArrayStart(t) = q * d /\ ArrayStart(u) = r * d
  BY <1>1 DEF ArrayStart
<1>5. q * d \in Int /\ r * d \in Int
  BY <1>2, <1>3
<1>6. q < r => q * d + d <= r * d
  BY <1>2, <1>3, TimesMonotone
<1>7. q = r \/ r < q => ~(q * d < r * d)
  BY <1>2, <1>3, <1>5, TimesMonotone
<1>8. QED
  BY <1>1, <1>2, <1>3, <1>4, <1>5, <1>6, <1>7

(* The nearest of several ticks or arrays.                                  *)

LEMMA Smallest ==
  ASSUME NEW S \in SUBSET Nat, S # {}
  PROVE  \E n \in S : \A k \in S : n <= k
<1>1. PICK less : less = OpToRel(<, Nat)
  OBVIOUS
<1>2. IsWellFoundedOn(less, Nat)
  BY <1>1, NatLessThanWellFounded
<1>3. PICK n \in S : \A k \in S : ~(<<k, n>> \in less)
  BY <1>2, WFMin
<1>4. \A k \in S : k < n => <<k, n>> \in less
  BY <1>1 DEF OpToRel
<1>5. ASSUME NEW k \in S PROVE n <= k
  <2>1. k \in Nat /\ n \in Nat /\ ~(k < n)
    BY <1>3, <1>4
  <2>2. QED
    BY <2>1
<1>6. QED
  BY <1>5

(* Sums over finite sets.  What holds of them for every set is shown on a     *)
(* smallest set for which it does not hold.                                   *)

AnyOf(s) == CHOOSE x \in s : TRUE

\* g sums f over every set of SS.
Sums(g, f, SS) ==
  g = [s \in SS |-> IF s = {} THEN 0 ELSE f[AnyOf(s)] + g[s \ {AnyOf(s)}]]

LEMMA SumIsFold ==
  ASSUME NEW f
  PROVE  SumFunction(f) = (CHOOSE g : Sums(g, f, SUBSET (DOMAIN f)))[DOMAIN f]
  BY Zenon DEF SumFunction, SumFunctionOnSet, FoldFunctionOnSet, MapThenFoldSet, Sums, AnyOf

LEMMA SmallestSet ==
  ASSUME NEW S, IsFiniteSet(S), NEW Bad \in SUBSET (SUBSET S), Bad # {}
  PROVE  \E w \in Bad : \A x \in w : w \ {x} \notin Bad
<1>1. \A w \in Bad : IsFiniteSet(w) /\ Cardinality(w) \in Nat
  BY FS_Subset, FS_CardinalityType
<1>2. PICK D : D = {Cardinality(w) : w \in Bad}
  OBVIOUS
<1>3. D \in SUBSET Nat /\ D # {}
  BY <1>1, <1>2
<1>4. PICK n \in D : \A k \in D : n <= k
  BY <1>3, Smallest
<1>5. PICK w \in Bad : n = Cardinality(w)
  BY <1>2, <1>4
<1>6. ASSUME NEW x \in w, w \ {x} \in Bad PROVE FALSE
  <2>1. Cardinality(w \ {x}) = Cardinality(w) - 1
    BY <1>1, FS_RemoveElement
  <2>2. Cardinality(w) <= Cardinality(w \ {x})
    BY <1>2, <1>4, <1>5, <1>6
  <2>3. QED
    BY <1>1, <2>1, <2>2
<1>7. QED
  BY <1>6

LEMMA SumsExist ==
  ASSUME NEW S, IsFiniteSet(S), NEW f
  PROVE  \E g : Sums(g, f, SUBSET S)
<1> DEFINE Small(n) == {s \in SUBSET S : Cardinality(s) <= n}
<1>1. \A s \in SUBSET S : IsFiniteSet(s) /\ Cardinality(s) \in Nat
  BY FS_Subset, FS_CardinalityType
<1>2. PICK D : D = {n \in Nat : ~\E g : Sums(g, f, Small(n))}
  OBVIOUS
<1>3. D = {}
  <2>1. SUFFICES ASSUME D # {} PROVE FALSE
    OBVIOUS
  <2>2. PICK n \in D : \A k \in D : n <= k
    BY <1>2, <2>1, Smallest
  <2>3. n \in Nat /\ ~\E g : Sums(g, f, Small(n))
    BY <1>2, <2>2
  <2>4. CASE n = 0
    <3>1. Small(n) = {{}}
      BY <1>1, <2>4, FS_EmptySet
    <3>2. PICK g : g = [s \in Small(n) |-> 0]
      OBVIOUS
    <3>3. Sums(g, f, Small(n))
      BY <3>1, <3>2 DEF Sums
    <3>4. QED
      BY <2>3, <3>3
  <2>5. CASE n # 0
    <3>1. n - 1 \in Nat /\ n - 1 \notin D
      BY <2>2, <2>3, <2>5
    <3>2. PICK h : Sums(h, f, Small(n - 1))
      BY <1>2, <3>1
    <3>3. PICK g : g = [s \in Small(n) |->
                          IF s = {} THEN 0 ELSE f[AnyOf(s)] + h[s \ {AnyOf(s)}]]
      OBVIOUS
    <3>4. Small(n - 1) \subseteq Small(n)
      BY <1>1, <2>3
    <3>5. ASSUME NEW s \in Small(n - 1) PROVE g[s] = h[s]
      BY <3>2, <3>3, <3>4 DEF Sums
    <3>6. ASSUME NEW s \in Small(n), s # {} PROVE s \ {AnyOf(s)} \in Small(n - 1)
      <4>1. AnyOf(s) \in s
        BY <3>6 DEF AnyOf
      <4>2. IsFiniteSet(s) /\ Cardinality(s) \in Nat /\ Cardinality(s) <= n
        BY <1>1
      <4>3. Cardinality(s \ {AnyOf(s)}) = Cardinality(s) - 1
        BY <4>1, <4>2, FS_RemoveElement
      <4>4. QED
        BY <2>3, <4>2, <4>3
    <3>7. Sums(g, f, Small(n))
      BY <3>3, <3>5, <3>6 DEF Sums
    <3>8. QED
      BY <2>3, <3>7
  <2>6. QED
    BY <2>4, <2>5
<1>4. PICK n : n = Cardinality(S)
  OBVIOUS
<1>5. n \in Nat /\ n \notin D
  BY <1>1, <1>3, <1>4
<1>6. PICK g : Sums(g, f, Small(n))
  BY <1>2, <1>5
<1>7. Small(n) = SUBSET S
  BY <1>4, FS_Subset
<1>8. QED
  BY <1>6, <1>7

LEMMA AnyOfFacts ==
  ASSUME NEW w, w # {}
  PROVE  AnyOf(w) \in w
  BY DEF AnyOf

Summed(g, f, S) == IsFiniteSet(S) /\ f \in [S -> Int] /\ Sums(g, f, SUBSET S)

LEMMA SumsInt ==
  ASSUME NEW S, NEW f, NEW g, Summed(g, f, S)
  PROVE  \A w \in SUBSET S : g[w] \in Int
<1>0. IsFiniteSet(S) /\ f \in [S -> Int] /\ Sums(g, f, SUBSET S)
  BY DEF Summed
<1>1. PICK Bad : Bad = {w \in SUBSET S : g[w] \notin Int}
  OBVIOUS
<1>2. SUFFICES ASSUME Bad # {} PROVE FALSE
  BY <1>1
<1>3. PICK w \in Bad : \A x \in w : w \ {x} \notin Bad
  BY <1>0, <1>1, <1>2, SmallestSet
<1>4. w \in SUBSET S /\ g[w] \notin Int
  BY <1>1, <1>3
<1>5. PICK x : x = AnyOf(w)
  OBVIOUS
<1>6. x \in w /\ g[w] = f[x] + g[w \ {x}]
  <2>1. IF w = {} THEN g[w] = 0 ELSE x \in w /\ g[w] = f[x] + g[w \ {x}]
    <3>1. g[w] = IF w = {} THEN 0 ELSE f[x] + g[w \ {x}]
      BY <1>0, <1>4, <1>5 DEF Sums
    <3>2. QED
      BY <1>4, <1>5, <3>1, AnyOfFacts
  <2>2. QED
    BY <1>4, <2>1
<1>7. g[w \ {x}] \in Int /\ f[x] \in Int
  BY <1>0, <1>1, <1>3, <1>4, <1>6
<1>8. QED
  BY <1>4, <1>6, <1>7

\* The order of the elements does not matter.
LEMMA SumsRemove ==
  ASSUME NEW S, NEW f, NEW g, Summed(g, f, S), NEW last \in S
  PROVE  g[S] = f[last] + g[S \ {last}]
<1>0. IsFiniteSet(S) /\ f \in [S -> Int] /\ Sums(g, f, SUBSET S)
  BY DEF Summed
<1>1. PICK Bad : Bad = {w \in SUBSET S : \E y \in w : g[w] # f[y] + g[w \ {y}]}
  OBVIOUS
<1>2. SUFFICES ASSUME Bad # {} PROVE FALSE
  BY <1>1
<1>3. PICK w \in Bad : \A x \in w : w \ {x} \notin Bad
  BY <1>0, <1>1, <1>2, SmallestSet
<1>4. PICK y \in w : g[w] # f[y] + g[w \ {y}]
  BY <1>1, <1>3
<1>5. w \in SUBSET S /\ w # {}
  BY <1>1, <1>3, <1>4
<1>6. PICK x : x = AnyOf(w)
  OBVIOUS
<1>7. x \in w /\ g[w] = f[x] + g[w \ {x}]
  <2>1. IF w = {} THEN g[w] = 0 ELSE x \in w /\ g[w] = f[x] + g[w \ {x}]
    <3>1. g[w] = IF w = {} THEN 0 ELSE f[x] + g[w \ {x}]
      BY <1>0, <1>5, <1>6 DEF Sums
    <3>2. QED
      BY <1>5, <1>6, <3>1, AnyOfFacts
  <2>2. QED
    BY <1>5, <2>1
<1>8. x # y
  BY <1>4, <1>7
<1>9. PICK u, v, both : u = w \ {x} /\ v = w \ {y} /\ both = w \ {x, y}
  OBVIOUS
<1>10. u \ {y} = both /\ v \ {x} = both /\ y \in u /\ x \in v
  BY <1>4, <1>7, <1>8, <1>9
<1>11. g[u] = f[y] + g[both] /\ g[v] = f[x] + g[both]
  <2>1. u \in SUBSET S /\ v \in SUBSET S /\ u \notin Bad /\ v \notin Bad
    BY <1>3, <1>4, <1>5, <1>7, <1>9
  <2>2. QED
    BY <1>1, <1>10, <2>1
<1>12. f[x] \in Int /\ f[y] \in Int /\ g[both] \in Int
  <2>1. both \in SUBSET S /\ x \in S /\ y \in S
    BY <1>4, <1>5, <1>7, <1>9
  <2>2. QED
    BY <1>0, <2>1, SumsInt
<1>13. QED
  BY <1>4, <1>7, <1>9, <1>11, <1>12

\* Only the values on the set matter.
Extends(e, T, f, S) == S \subseteq T /\ \A x \in S : e[x] = f[x]

LEMMA SumsAgree ==
  ASSUME NEW S, NEW f, NEW g, Summed(g, f, S),
         NEW T, NEW e, NEW h, Summed(h, e, T), Extends(e, T, f, S)
  PROVE  g[S] = h[S]
<1>0. IsFiniteSet(S) /\ f \in [S -> Int] /\ Sums(g, f, SUBSET S)
  BY DEF Summed
<1>00. Sums(h, e, SUBSET T) /\ S \subseteq T
  BY DEF Summed, Extends
<1>1. PICK Bad : Bad = {w \in SUBSET S : g[w] # h[w]}
  OBVIOUS
<1>2. SUFFICES ASSUME Bad # {} PROVE FALSE
  BY <1>1
<1>3. PICK w \in Bad : \A x \in w : w \ {x} \notin Bad
  BY <1>0, <1>1, <1>2, SmallestSet
<1>4. w \in SUBSET S /\ g[w] # h[w] /\ w \in SUBSET T
  BY <1>00, <1>1, <1>3
<1>5. PICK x : x = AnyOf(w)
  OBVIOUS
<1>6. IF w = {} THEN g[w] = 0 ELSE x \in w /\ g[w] = f[x] + g[w \ {x}]
  <2>1. g[w] = IF w = {} THEN 0 ELSE f[x] + g[w \ {x}]
    BY <1>0, <1>4, <1>5 DEF Sums
  <2>2. QED
    BY <1>4, <1>5, <2>1, AnyOfFacts
<1>7. IF w = {} THEN h[w] = 0 ELSE x \in w /\ h[w] = e[x] + h[w \ {x}]
  <2>1. h[w] = IF w = {} THEN 0 ELSE e[x] + h[w \ {x}]
    BY <1>00, <1>4, <1>5 DEF Sums
  <2>2. QED
    BY <1>4, <1>5, <2>1, AnyOfFacts
<1>8. w # {} /\ g[w \ {x}] = h[w \ {x}] /\ e[x] = f[x]
  BY <1>1, <1>3, <1>4, <1>6, <1>7 DEF Extends
<1>9. QED
  BY <1>4, <1>6, <1>7, <1>8

LEMMA SumFunctionSums ==
  ASSUME NEW S, IsFiniteSet(S), NEW f, DOMAIN f = S
  PROVE  \E g : Sums(g, f, SUBSET S) /\ SumFunction(f) = g[S]
  BY SumIsFold, SumsExist

LEMMA SumEmpty ==
  ASSUME NEW f, DOMAIN f = {}
  PROVE  SumFunction(f) = 0
<1>1. PICK g : Sums(g, f, SUBSET {}) /\ SumFunction(f) = g[{}]
  BY SumFunctionSums, FS_EmptySet
<1>2. QED
  BY <1>1 DEF Sums

LEMMA SumAdd ==
  ASSUME NEW S, IsFiniteSet(S), NEW y, y \notin S, NEW f \in [S \cup {y} -> Int],
         NEW e \in [S -> Int], \A x \in S : e[x] = f[x]
  PROVE  SumFunction(f) = SumFunction(e) + f[y] /\ SumFunction(e) \in Int
<1>1. PICK T : T = S \cup {y}
  OBVIOUS
<1>2. IsFiniteSet(T) /\ T \ {y} = S /\ DOMAIN f = T /\ DOMAIN e = S
  BY <1>1, FS_AddElement
<1>3. PICK g : Sums(g, f, SUBSET T) /\ SumFunction(f) = g[T]
  BY <1>2, SumFunctionSums
<1>4. PICK h : Sums(h, e, SUBSET S) /\ SumFunction(e) = h[S]
  BY <1>2, SumFunctionSums
<1>5. f \in [T -> Int] /\ y \in T
  BY <1>1
<1>6. Summed(h, e, S) /\ Summed(g, f, T)
  BY <1>2, <1>3, <1>4, <1>5 DEF Summed
<1>7. h[S] = g[S]
  <2>1. Extends(f, T, e, S)
    BY <1>1 DEF Extends
  <2>2. QED
    BY <1>6, <2>1, SumsAgree
<1>8. h[S] \in Int /\ f[y] \in Int
  BY <1>5, <1>6, SumsInt
<1>9. g[T] = f[y] + g[T \ {y}]
  BY <1>5, <1>6, SumsRemove
<1>10. g[T] = f[y] + h[S]
  BY <1>2, <1>7, <1>9
<1>11. f[y] + h[S] = h[S] + f[y]
  BY <1>8
<1>12. QED
  BY <1>3, <1>4, <1>8, <1>10, <1>11

\* A sum of natural numbers is one, and is 0 when they are.
LEMMA SumNat ==
  ASSUME NEW S, IsFiniteSet(S), NEW f \in [S -> Nat]
  PROVE  /\ SumFunction(f) \in Nat
         /\ (\A x \in S : f[x] = 0) => SumFunction(f) = 0
<1>1. PICK g : Sums(g, f, SUBSET S) /\ SumFunction(f) = g[S]
  BY SumFunctionSums
<1>2. PICK Bad : Bad = {w \in SUBSET S : ~(g[w] \in Nat /\ ((\A x \in S : f[x] = 0) => g[w] = 0))}
  OBVIOUS
<1>3. SUFFICES ASSUME Bad # {} PROVE FALSE
  BY <1>1, <1>2
<1>4. PICK w \in Bad : \A x \in w : w \ {x} \notin Bad
  BY <1>2, <1>3, SmallestSet
<1>5. w \in SUBSET S
  BY <1>2, <1>4
<1>6. PICK x : x = AnyOf(w)
  OBVIOUS
<1>7. x \in w /\ g[w] = f[x] + g[w \ {x}]
  <2>1. IF w = {} THEN g[w] = 0 ELSE x \in w /\ g[w] = f[x] + g[w \ {x}]
    <3>1. g[w] = IF w = {} THEN 0 ELSE f[x] + g[w \ {x}]
      BY <1>1, <1>5, <1>6 DEF Sums
    <3>2. QED
      BY <1>1, <1>5, <1>6, <3>1, AnyOfFacts
  <2>2. QED
    BY <1>2, <1>4, <2>1
<1>8. w \ {x} \in SUBSET S /\ w \ {x} \notin Bad
  BY <1>4, <1>5, <1>7
<1>9. g[w \ {x}] \in Nat /\ ((\A k \in S : f[k] = 0) => g[w \ {x}] = 0) /\ f[x] \in Nat
  BY <1>2, <1>5, <1>7, <1>8
<1>10. QED
  BY <1>2, <1>4, <1>5, <1>7, <1>9

LEMMA NearestFacts ==
  ASSUME NEW lo \in Int, NEW hi \in Int, NEW S \in SUBSET (lo..hi), S # {}, NEW z \in BOOLEAN
  PROVE  /\ Nearest(S, z) \in S
         /\ \A s \in S : IF z THEN s <= Nearest(S, z) ELSE Nearest(S, z) <= s
<1>1. CASE z = FALSE
  <2>1. PICK D : D = {s - lo : s \in S}
    OBVIOUS
  <2>2. D \in SUBSET Nat /\ D # {}
    <3>1. \A s \in S : s - lo \in Nat
      OBVIOUS
    <3>2. QED
      BY <2>1, <3>1
  <2>3. PICK n \in D : \A k \in D : n <= k
    BY <2>2, Smallest
  <2>4. PICK x \in S : n = x - lo
    BY <2>1, <2>3
  <2>5. ASSUME NEW y \in S PROVE x <= y
    <3>1. y - lo \in D /\ x \in Int /\ y \in Int
      BY <2>1
    <3>2. x - lo <= y - lo
      BY <2>3, <2>4, <3>1
    <3>3. QED
      BY <3>1, <3>2
  <2>6. \E m \in S : \A y \in S : m <= y
    BY <2>5
  <2>7. Nearest(S, z) = CHOOSE m \in S : \A y \in S : m <= y
    BY <1>1 DEF Nearest, Min
  <2>8. QED
    BY <1>1, <2>6, <2>7
<1>2. CASE z = TRUE
  <2>1. PICK D : D = {hi - s : s \in S}
    OBVIOUS
  <2>2. D \in SUBSET Nat /\ D # {}
    <3>1. \A s \in S : hi - s \in Nat
      OBVIOUS
    <3>2. QED
      BY <2>1, <3>1
  <2>3. PICK n \in D : \A k \in D : n <= k
    BY <2>2, Smallest
  <2>4. PICK x \in S : n = hi - x
    BY <2>1, <2>3
  <2>5. ASSUME NEW y \in S PROVE x >= y
    <3>1. hi - y \in D /\ x \in Int /\ y \in Int
      BY <2>1
    <3>2. hi - x <= hi - y
      BY <2>3, <2>4, <3>1
    <3>3. QED
      BY <3>1, <3>2
  <2>6. \E m \in S : \A y \in S : m >= y
    BY <2>5
  <2>7. Nearest(S, z) = CHOOSE m \in S : \A y \in S : m >= y
    BY <1>2 DEF Nearest, Max
  <2>8. PICK m : m = Nearest(S, z)
    OBVIOUS
  <2>9. m \in S /\ \A y \in S : m >= y
    BY <2>6, <2>7, <2>8
  <2>10. \A y \in S : y <= m
    <3>1. SUFFICES ASSUME NEW y \in S PROVE y <= m
      OBVIOUS
    <3>2. m \in Int /\ y \in Int /\ m >= y
      BY <2>9
    <3>3. QED
      BY <3>2
  <2>11. QED
    BY <1>2, <2>8, <2>9, <2>10
<1>3. QED
  BY <1>1, <1>2

\* A core's arrays lie within the ticks.
LEMMA CoreFacts ==
  ASSUME NEW c \in Cores
  PROVE  /\ c.tick \in Int /\ c.price \in Int /\ c.ext \in BOOLEAN
         /\ c.price \in PriceAt(c.tick)..PriceAt(c.tick + 1)
         /\ PriceAt(MIN_TICK) + 1 < c.price /\ c.price < PriceAt(MAX_TICK) - 1
         /\ MIN_TICK \in Int /\ MAX_TICK \in Int
  BY CoresAssumption, SwapStepsAssumption

LEMMA VisibleFacts ==
  ASSUME NEW c \in Cores
  PROVE  /\ Visible(c) \subseteq ArrayStart(MIN_TICK)..ArrayStart(MAX_TICK)
         /\ ArrayStart(MIN_TICK) \in Int /\ ArrayStart(MAX_TICK) \in Int
         /\ \A s \in Visible(c) : \E t \in InitializedTicks(c.positions) : s = ArrayStart(t)
         /\ \A t \in InitializedTicks(c.positions) :
              t \in Ticks /\ t \in Int /\ ArrayStart(t) \in InitializedArrays(c.positions)
<1>1. MIN_TICK \in Int /\ MAX_TICK \in Int
  BY SwapStepsAssumption
<1>2. \A t \in InitializedTicks(c.positions) : t \in Ticks /\ t \in Int
  BY <1>1, CoresAssumption DEF Ticks
<1>3. \A t \in InitializedTicks(c.positions) : ArrayStart(t) \in InitializedArrays(c.positions)
  BY DEF InitializedArrays
<1>4. \A s \in Visible(c) : \E t \in InitializedTicks(c.positions) : s = ArrayStart(t)
  BY DEF Visible, InitializedArrays
<1>5. ArrayStart(MIN_TICK) \in Int /\ ArrayStart(MAX_TICK) \in Int
  BY <1>1, ArrayFacts
<1>6. ASSUME NEW s \in Visible(c)
      PROVE  s \in ArrayStart(MIN_TICK)..ArrayStart(MAX_TICK)
  <2>1. PICK t \in InitializedTicks(c.positions) : s = ArrayStart(t)
    BY <1>4
  <2>2. t \in Int /\ MIN_TICK <= t /\ t <= MAX_TICK
    BY <1>1, <1>2 DEF Ticks
  <2>3. /\ ArrayTicks \in Nat \ {0} /\ s \in Int /\ s <= t /\ t < s + ArrayTicks
        /\ s < ArrayStart(MIN_TICK) => s + ArrayTicks <= ArrayStart(MIN_TICK)
    BY <1>1, <2>1, <2>2, ArrayFacts
  <2>4. ArrayStart(MIN_TICK) <= MIN_TICK /\ MAX_TICK < ArrayStart(MAX_TICK) + ArrayTicks
    BY <1>1, ArrayFacts
  <2>5. ArrayStart(MAX_TICK) < s => ArrayStart(MAX_TICK) + ArrayTicks <= s
    BY <1>1, <2>1, <2>2, ArrayFacts
  <2>6. QED
    BY <1>1, <1>5, <2>2, <2>3, <2>4, <2>5
<1>7. QED
  BY <1>2, <1>3, <1>4, <1>5, <1>6

(* Navigation.                                                              *)

\* The next array is one that the bitmaps show, and no such array lies between.
NextVisible(c, start, z, n) ==
  /\ n \in Visible(c) /\ n \in Int /\ Beyond(n, start, z)
  /\ \A s \in Visible(c) : Beyond(s, start, z) => ~Beyond(n, s, z)

LEMMA NextArrayFacts ==
  ASSUME NEW c \in Cores, NEW z \in BOOLEAN, NEW start \in Int,
         NEW n, n = next_initialized_tick_array_start_index(c, start, z)
  PROVE  /\ n \notin {None, Missing} => NextVisible(c, start, z, n)
         /\ n \in {None, Missing} => \A s \in Visible(c) : ~Beyond(s, start, z)
         /\ n = None => c.ext
<1>1. PICK S : S = {s \in Visible(c) : Beyond(s, start, z)}
  OBVIOUS
<1>2. n = IF S # {} THEN Nearest(S, z) ELSE IF c.ext THEN None ELSE Missing
  BY <1>1 DEF next_initialized_tick_array_start_index
<1>3. PICK lo, hi : lo = ArrayStart(MIN_TICK) /\ hi = ArrayStart(MAX_TICK)
  OBVIOUS
<1>4. lo \in Int /\ hi \in Int /\ S \in SUBSET (lo..hi)
  BY <1>1, <1>3, VisibleFacts
<1>5. None \notin Int /\ Missing \notin Int /\ None # Missing
  BY SwapStepsAssumption
<1>6. CASE S = {}
  BY <1>1, <1>2, <1>5, <1>6
<1>7. CASE S # {}
  <2>1. n = Nearest(S, z)
    BY <1>2, <1>7
  <2>2. n \in S /\ \A s \in S : IF z THEN s <= n ELSE n <= s
    BY <1>4, <1>7, <2>1, NearestFacts
  <2>3. n \in Int
    BY <1>4, <2>2
  <2>4. \A s \in S : ~Beyond(n, s, z)
    BY <1>4, <2>2, <2>3 DEF Beyond
  <2>5. QED
    BY <1>1, <1>5, <2>2, <2>3, <2>4 DEF NextVisible
<1>8. QED
  BY <1>6, <1>7

\* Where the walk begins.
FirstVisible(c, z, first) ==
  /\ ~NoBitmap(c) /\ first[2] \in Ahead(c, z) /\ first[2] = Nearest(Ahead(c, z), z)
  /\ first[1] \in BOOLEAN /\ first[2] \in Int
  /\ first[1] => first[2] = ArrayStart(c.tick)
  /\ ~first[1] => Beyond(first[2], ArrayStart(c.tick), z)
  /\ \A s \in Visible(c) : (s = ArrayStart(c.tick) \/ Beyond(s, ArrayStart(c.tick), z))
                              => ~Beyond(first[2], s, z)

LEMMA FirstArrayFacts ==
  ASSUME NEW c \in Cores, NEW z \in BOOLEAN, NEW first, first = first_initialized_tick_array(c, z),
         first[2] \notin {None, Missing}
  PROVE  FirstVisible(c, z, first)
<1>1. PICK current, next : /\ current = ArrayStart(c.tick)
                           /\ next = next_initialized_tick_array_start_index(c, current, z)
  OBVIOUS
<1>2. first = IF NoBitmap(c) THEN <<FALSE, Missing>>
              ELSE IF current \in Visible(c) THEN <<TRUE, current>> ELSE <<FALSE, next>>
  BY <1>1 DEF first_initialized_tick_array, NoBitmap
<1>3. ~NoBitmap(c)
  BY <1>2
<1>4. current \in Int
  BY <1>1, CoreFacts, ArrayFacts
<1>5. PICK lo, hi, A : lo = ArrayStart(MIN_TICK) /\ hi = ArrayStart(MAX_TICK) /\ A = Ahead(c, z)
  OBVIOUS
<1>6. lo \in Int /\ hi \in Int /\ A \in SUBSET (lo..hi)
  BY <1>5, VisibleFacts DEF Ahead
<1>7. A = {s \in Visible(c) : s = current \/ Beyond(s, current, z)}
  BY <1>1, <1>5 DEF Ahead
<1>8. ASSUME A # {}
      PROVE  Nearest(A, z) \in A /\ \A s \in A : IF z THEN s <= Nearest(A, z) ELSE Nearest(A, z) <= s
  BY <1>6, <1>8, NearestFacts
<1>9. \A s \in A : s \in Int
  BY <1>6
<1>10. CASE current \in Visible(c)
  <2>1. first[1] = TRUE /\ first[2] = current
    BY <1>2, <1>3, <1>10
  <2>2. current \in A
    BY <1>7, <1>10
  <2>3. PICK n : n = Nearest(A, z)
    OBVIOUS
  <2>4. n \in A /\ \A s \in A : IF z THEN s <= n ELSE n <= s
    BY <1>8, <2>2, <2>3
  <2>5. n = current \/ Beyond(n, current, z)
    BY <1>7, <2>4
  <2>6. n = current
    BY <1>4, <1>9, <2>2, <2>4, <2>5 DEF Beyond
  <2>7. \A s \in A : ~Beyond(current, s, z)
    BY <1>4, <1>9, <2>4, <2>6 DEF Beyond
  <2>8. QED
    BY <1>1, <1>3, <1>4, <1>5, <1>7, <2>1, <2>2, <2>3, <2>6, <2>7 DEF FirstVisible
<1>11. CASE current \notin Visible(c)
  <2>1. first[1] = FALSE /\ first[2] = next
    BY <1>2, <1>3, <1>11
  <2>2. A = {s \in Visible(c) : Beyond(s, current, z)}
    BY <1>7, <1>11
  <2>3. next = IF A # {} THEN Nearest(A, z) ELSE IF c.ext THEN None ELSE Missing
    BY <1>1, <2>2 DEF next_initialized_tick_array_start_index
  <2>4. A # {} /\ next = Nearest(A, z)
    BY <2>1, <2>3
  <2>5. next \in A /\ \A s \in A : IF z THEN s <= next ELSE next <= s
    BY <1>8, <2>4
  <2>6. next \in Int /\ Beyond(next, current, z)
    BY <1>9, <2>2, <2>5
  <2>7. \A s \in A : ~Beyond(next, s, z)
    BY <1>9, <2>5, <2>6 DEF Beyond
  <2>8. QED
    BY <1>1, <1>3, <1>5, <1>7, <2>1, <2>4, <2>5, <2>6, <2>7 DEF FirstVisible
<1>12. QED
  BY <1>10, <1>11

\* The ticks of a loaded array.
LEMMA LoadedFacts ==
  ASSUME NEW c \in Cores, NEW s \in DOMAIN c.arrays
  PROVE  /\ DOMAIN c.arrays[s] \in SUBSET (MIN_TICK..MAX_TICK)
         /\ \A t \in DOMAIN c.arrays[s] : /\ t \in Ticks /\ t \in Int /\ ArrayStart(t) = s
                                          /\ c.arrays[s][t] \in Int
  BY CoresAssumption, SwapStepsAssumption DEF Ticks

LEMMA FirstTickFacts ==
  ASSUME NEW c \in Cores, NEW s \in DOMAIN c.arrays, NEW z \in BOOLEAN,
         NEW f, f = first_initialized_tick(c, s, z)
  PROVE  /\ f = None => DOMAIN c.arrays[s] = {}
         /\ f # None => /\ f \in DOMAIN c.arrays[s]
                        /\ \A t \in DOMAIN c.arrays[s] : IF z THEN t <= f ELSE f <= t
<1>1. PICK S : S = DOMAIN c.arrays[s]
  OBVIOUS
<1>2. MIN_TICK \in Int /\ MAX_TICK \in Int /\ S \in SUBSET (MIN_TICK..MAX_TICK)
  BY <1>1, LoadedFacts, SwapStepsAssumption
<1>3. f = IF S = {} THEN None ELSE Nearest(S, z)
  BY <1>1 DEF first_initialized_tick
<1>4. CASE S = {}
  BY <1>1, <1>3, <1>4
<1>5. CASE S # {}
  <2>1. f = Nearest(S, z)
    BY <1>3, <1>5
  <2>2. f \in S /\ \A t \in S : IF z THEN t <= f ELSE f <= t
    BY <1>2, <1>5, <2>1, NearestFacts
  <2>3. f # None
    BY <1>2, <2>2, SwapStepsAssumption
  <2>4. QED
    BY <1>1, <2>2, <2>3
<1>6. QED
  BY <1>4, <1>5

LEMMA NextTickFacts ==
  ASSUME NEW c \in Cores, NEW s \in DOMAIN c.arrays, NEW t \in Int, NEW z \in BOOLEAN,
         NEW f, f = next_initialized_tick(c, s, t, z)
  PROVE  /\ f = None => ArrayStart(t) # s \/ \A u \in DOMAIN c.arrays[s] : ~(IF z THEN u <= t ELSE u > t)
         /\ f # None => /\ f \in DOMAIN c.arrays[s] /\ ArrayStart(t) = s
                        /\ IF z THEN f <= t ELSE f > t
                        /\ \A u \in DOMAIN c.arrays[s] :
                             IF z THEN u <= t => u <= f ELSE u > t => f <= u
<1>1. PICK S : S = {u \in DOMAIN c.arrays[s] : IF z THEN u <= t ELSE u > t}
  OBVIOUS
<1>2. MIN_TICK \in Int /\ MAX_TICK \in Int /\ S \in SUBSET (MIN_TICK..MAX_TICK)
  BY <1>1, LoadedFacts, SwapStepsAssumption
<1>3. f = IF ArrayStart(t) = s /\ S # {} THEN Nearest(S, z) ELSE None
  BY <1>1 DEF next_initialized_tick
<1>4. CASE ~(ArrayStart(t) = s /\ S # {})
  BY <1>1, <1>3, <1>4
<1>5. CASE ArrayStart(t) = s /\ S # {}
  <2>1. f = Nearest(S, z)
    BY <1>3, <1>5
  <2>2. f \in S /\ \A u \in S : IF z THEN u <= f ELSE f <= u
    BY <1>2, <1>5, <2>1, NearestFacts
  <2>3. f # None
    BY <1>2, <2>2, SwapStepsAssumption
  <2>4. QED
    BY <1>1, <1>5, <2>2, <2>3
<1>6. QED
  BY <1>4, <1>5

\* An array that the bitmaps do not show lies beyond every one that they show.
LEMMA Unseen ==
  ASSUME NEW c \in Cores, NEW z \in BOOLEAN, ~NoBitmap(c), NEW n \in Ahead(c, z),
         NEW t \in InitializedTicks(c.positions), NEW s, s = ArrayStart(t), s \notin Visible(c),
         s = ArrayStart(c.tick) \/ Beyond(s, ArrayStart(c.tick), z)
  PROVE  Beyond(s, n, z)
<1>1. PICK current : current = ArrayStart(c.tick)
  OBVIOUS
<1>2. s \in InitializedArrays(c.positions) /\ t \in Ticks /\ t \in Int
  BY VisibleFacts
<1>3. ~c.ext /\ s \notin DefaultStarts
  BY <1>2 DEF Visible
<1>4. current \in DefaultStarts
  BY <1>1, <1>3 DEF NoBitmap, is_overflow_default_tickarray_bitmap
<1>5. n \in DefaultStarts /\ (n = current \/ Beyond(n, current, z))
  BY <1>1, <1>3 DEF Ahead, Visible
<1>6. s \in Int /\ current \in Int /\ n \in Int
  BY <1>1, <1>2, CoreFacts, ArrayFacts, VisibleFacts DEF Ahead
<1>7. ~(n <= s /\ s <= current) /\ ~(current <= s /\ s <= n)
  BY <1>2, <1>3, <1>4, <1>5, SwapStepsAssumption
<1>8. Beyond(s, current, z)
  BY <1>1, <1>3, <1>4
<1>9. QED
  BY <1>5, <1>6, <1>7, <1>8 DEF Beyond

\* No initialized tick lies before the first array of the walk.
LEMMA FirstGap ==
  ASSUME NEW c \in Cores, NEW z \in BOOLEAN, NEW first, FirstVisible(c, z, first),
         NEW t \in InitializedTicks(c.positions)
  PROVE  /\ z /\ t <= c.tick => t < first[2] + ArrayTicks
         /\ ~z /\ t > c.tick => t >= first[2]
<1>1. SUFFICES ASSUME IF z THEN t <= c.tick ELSE t > c.tick
               PROVE  IF z THEN t < first[2] + ArrayTicks ELSE t >= first[2]
  OBVIOUS
<1>2. PICK s, current, n : s = ArrayStart(t) /\ current = ArrayStart(c.tick) /\ n = first[2]
  OBVIOUS
<1>3. t \in Int /\ c.tick \in Int
  BY VisibleFacts, CoreFacts
<1>4. /\ ArrayTicks \in Nat \ {0} /\ s \in Int /\ s <= t /\ t < s + ArrayTicks
      /\ s < current => s + ArrayTicks <= current
  BY <1>2, <1>3, ArrayFacts
<1>5. /\ current \in Int /\ current <= c.tick /\ c.tick < current + ArrayTicks
      /\ current < s => current + ArrayTicks <= s
  BY <1>2, <1>3, ArrayFacts
<1>6. s = current \/ Beyond(s, current, z)
  BY <1>1, <1>3, <1>4, <1>5 DEF Beyond
<1>7. n \in Int /\ ~Beyond(n, s, z)
  <2>1. n \in Int /\ n \in Ahead(c, z) /\ ~NoBitmap(c)
    BY <1>2 DEF FirstVisible
  <2>2. CASE s \in Visible(c)
    BY <1>2, <1>6, <2>1, <2>2 DEF FirstVisible
  <2>3. CASE s \notin Visible(c)
    <3>1. Beyond(s, n, z)
      BY <1>2, <1>6, <2>1, <2>3, Unseen
    <3>2. QED
      BY <1>4, <2>1, <3>1 DEF Beyond
  <2>4. QED
    BY <2>1, <2>2, <2>3
<1>8. QED
  BY <1>2, <1>3, <1>4, <1>7 DEF Beyond

\* Nor between an array and the next one.
LEMMA NextGap ==
  ASSUME NEW c \in Cores, NEW z \in BOOLEAN, ~NoBitmap(c), NEW start \in Ahead(c, z),
         NEW n, NextVisible(c, start, z, n), NEW t \in InitializedTicks(c.positions)
  PROVE  /\ n \in Ahead(c, z)
         /\ z /\ t < start => t < n + ArrayTicks
         /\ ~z /\ t >= start + ArrayTicks => t >= n
<1>1. PICK s, current : s = ArrayStart(t) /\ current = ArrayStart(c.tick)
  OBVIOUS
<1>2. start \in Int /\ t \in Int /\ c.tick \in Int /\ start \in Visible(c)
  BY VisibleFacts, CoreFacts DEF Ahead
<1>3. /\ ArrayTicks \in Nat \ {0} /\ s \in Int /\ s <= t /\ t < s + ArrayTicks /\ current \in Int
  BY <1>1, <1>2, ArrayFacts
<1>4. start = current \/ Beyond(start, current, z)
  BY <1>1 DEF Ahead
<1>5. n \in Visible(c) /\ n \in Int /\ Beyond(n, start, z)
  BY DEF NextVisible
<1>6. Beyond(n, current, z)
  BY <1>2, <1>3, <1>4, <1>5 DEF Beyond
<1>7. n \in Ahead(c, z)
  BY <1>1, <1>5, <1>6 DEF Ahead
<1>8. ASSUME IF z THEN t < start ELSE t >= start + ArrayTicks
      PROVE  IF z THEN t < n + ArrayTicks ELSE t >= n
  <2>1. Beyond(s, start, z)
    BY <1>2, <1>3, <1>8 DEF Beyond
  <2>2. Beyond(s, current, z)
    BY <1>2, <1>3, <1>4, <2>1 DEF Beyond
  <2>3. CASE s \in Visible(c)
    <3>1. ~Beyond(n, s, z)
      BY <2>1, <2>3 DEF NextVisible
    <3>2. QED
      BY <1>2, <1>3, <1>5, <3>1 DEF Beyond
  <2>4. CASE s \notin Visible(c)
    <3>1. Beyond(s, n, z)
      BY <1>1, <1>7, <2>2, <2>4, Unseen
    <3>2. QED
      BY <1>2, <1>3, <1>5, <3>1 DEF Beyond
  <2>5. QED
    BY <2>3, <2>4
<1>9. QED
  BY <1>7, <1>8

-----------------------------------------------------------------------------
(* Liquidity.                                                               *)

\* The liquidity at a tick is that of the positions around it, if there are any.
LEMMA LiquidityNat ==
  ASSUME NEW c \in Cores, NEW t \in Int
  PROVE  /\ Liquidity(c.positions, t) \in Nat
         /\ (\A q \in c.positions : ~(q.lower <= t /\ t < q.upper))
              => Liquidity(c.positions, t) = 0
<1>1. PICK P : P = c.positions
  OBVIOUS
<1>2. IsFiniteSet(P) /\ \A q \in P : q.liquidity \in Nat
  BY <1>1, CoresAssumption
<1>3. PICK f : f = [q \in P |-> IF t \in q.lower..(q.upper - 1) THEN q.liquidity ELSE 0]
  OBVIOUS
<1>4. f \in [P -> Nat] /\ Liquidity(P, t) = SumFunction(f)
  BY <1>2, <1>3 DEF Liquidity
<1>5. /\ SumFunction(f) \in Nat
      /\ (\A q \in P : f[q] = 0) => SumFunction(f) = 0
  BY <1>2, <1>4, SumNat
<1>6. ASSUME \A q \in P : ~(q.lower <= t /\ t < q.upper), NEW q \in P PROVE f[q] = 0
  <2>1. q.lower \in InitializedTicks(P) /\ q.upper \in InitializedTicks(P)
    BY DEF InitializedTicks
  <2>2. q.lower \in Int /\ q.upper \in Int
    BY <1>1, <2>1, VisibleFacts
  <2>3. PICK a, b : a = q.lower /\ b = q.upper
    OBVIOUS
  <2>4. t \notin a..(b - 1)
    BY <1>6, <2>2, <2>3
  <2>5. QED
    BY <1>3, <2>3, <2>4
<1>7. QED
  BY <1>1, <1>4, <1>5, <1>6

LEMMA LiquidityStep ==
  ASSUME NEW c \in Cores, NEW t \in Int, t \notin InitializedTicks(c.positions)
  PROVE  Liquidity(c.positions, t) = Liquidity(c.positions, t - 1)
<1>1. PICK P : P = c.positions
  OBVIOUS
<1>2. \A q \in P : q.lower \in InitializedTicks(P) /\ q.upper \in InitializedTicks(P)
  BY DEF InitializedTicks
<1>3. \A q \in P : q.lower \in Int /\ q.upper \in Int /\ q.lower # t /\ q.upper # t
  BY <1>1, <1>2, VisibleFacts
<1>4. \A q \in P : t \in q.lower..(q.upper - 1) <=> t - 1 \in q.lower..(q.upper - 1)
  <2>1. SUFFICES ASSUME NEW q \in P
                 PROVE  t \in q.lower..(q.upper - 1) <=> t - 1 \in q.lower..(q.upper - 1)
    OBVIOUS
  <2>2. PICK a, b : a = q.lower /\ b = q.upper
    OBVIOUS
  <2>3. a \in Int /\ b \in Int /\ a # t /\ b # t
    BY <1>3, <2>2
  <2>4. t \in a..(b - 1) <=> t - 1 \in a..(b - 1)
    BY <2>3
  <2>5. QED
    BY <2>2, <2>4
<1>5. [q \in P |-> IF t \in q.lower..(q.upper - 1) THEN q.liquidity ELSE 0]
        = [q \in P |-> IF t - 1 \in q.lower..(q.upper - 1) THEN q.liquidity ELSE 0]
  BY <1>4
<1>6. QED
  BY <1>1, <1>5 DEF Liquidity

\* Where no position begins or ends, the liquidity does not change.
LEMMA LiquidityConstant ==
  ASSUME NEW c \in Cores, NEW a \in Int, NEW b \in Int, a <= b,
         \A t \in InitializedTicks(c.positions) : ~(a < t /\ t <= b)
  PROVE  Liquidity(c.positions, a) = Liquidity(c.positions, b)
<1>1. PICK P : P = c.positions
  OBVIOUS
<1>2. PICK D : D = {n \in Nat : a + n <= b /\ Liquidity(P, a + n) # Liquidity(P, a)}
  OBVIOUS
<1>3. D = {}
  <2>1. SUFFICES ASSUME D # {} PROVE FALSE
    OBVIOUS
  <2>2. D \in SUBSET Nat
    BY <1>2
  <2>3. PICK n \in D : \A k \in D : n <= k
    BY <2>1, <2>2, Smallest
  <2>4. n \in Nat /\ a + n <= b /\ Liquidity(P, a + n) # Liquidity(P, a)
    BY <1>2, <2>3
  <2>5. n # 0
    <3>1. a + 0 = a
      OBVIOUS
    <3>2. QED
      BY <2>4, <3>1
  <2>6. n - 1 \in Nat /\ n - 1 \notin D /\ a + (n - 1) <= b
    BY <2>3, <2>4, <2>5
  <2>7. Liquidity(P, a + (n - 1)) = Liquidity(P, a)
    BY <1>2, <2>6
  <2>8. PICK t : t = a + n
    OBVIOUS
  <2>9. t \in Int /\ a < t /\ t <= b /\ a + (n - 1) = t - 1
    BY <2>4, <2>5, <2>8
  <2>10. Liquidity(P, t) = Liquidity(P, t - 1)
    BY <1>1, <2>9, LiquidityStep
  <2>11. QED
    BY <2>4, <2>7, <2>8, <2>9, <2>10
<1>4. PICK n : n = b - a
  OBVIOUS
<1>5. n \in Nat /\ a + n = b /\ a + n <= b
  BY <1>4
<1>6. Liquidity(P, a + n) = Liquidity(P, a)
  <2>1. n \notin D
    BY <1>3
  <2>2. QED
    BY <1>2, <1>5, <2>1
<1>7. QED
  BY <1>1, <1>5, <1>6

\* A consistent array holds the initialized ticks that belong to it.
LEMMA ConsistentFacts ==
  ASSUME Consistent, NEW s \in DOMAIN core.arrays
  PROVE  /\ DOMAIN core.arrays[s] = {u \in InitializedTicks(core.positions) : ArrayStart(u) = s}
         /\ \A t \in DOMAIN core.arrays[s] :
              core.arrays[s][t] = Liquidity(core.positions, t) - Liquidity(core.positions, t - 1)
<1>1. core.arrays[s] = TickArray(core.positions, s)
  BY DEF Consistent
<1>2. QED
  BY <1>1 DEF TickArray, Net

(* Prices.                                                                  *)

LEMMA ReachFacts ==
  ASSUME RequestInv
  PROVE  /\ sqrt_price_limit \in Int /\ core.price \in Int /\ MIN_TICK \in Int /\ MAX_TICK \in Int
         /\ PriceAt(MIN_TICK) \in Int /\ PriceAt(MAX_TICK) \in Int
         /\ PriceAt(MIN_TICK) + 1 <= sqrt_price_limit /\ sqrt_price_limit <= PriceAt(MAX_TICK) - 1
         /\ IF zero_for_one THEN sqrt_price_limit < core.price ELSE core.price < sqrt_price_limit
         /\ PriceAt(MIN_TICK) + 1 < core.price /\ core.price < PriceAt(MAX_TICK) - 1
<1>1. /\ core.price \in Int /\ PriceAt(MIN_TICK) + 1 < core.price
      /\ core.price < PriceAt(MAX_TICK) - 1 /\ MIN_TICK \in Int /\ MAX_TICK \in Int
  BY CoreFacts DEF RequestInv
<1>2. PriceAt(MIN_TICK) \in Int /\ PriceAt(MAX_TICK) \in Int
  BY <1>1, PriceFacts
<1>3. QED
  BY <1>1, <1>2 DEF sqrt_price_limit, RequestInv

\* A price that a swap may end at is within the ticks.
LEMMA ReachableTick ==
  ASSUME RequestInv, NEW p \in Reachable
  PROVE  p \in Int /\ TickAt(p) \in MIN_TICK..MAX_TICK
<1>1. PICK lo, hi : lo = PriceAt(MIN_TICK) /\ hi = PriceAt(MAX_TICK)
  OBVIOUS
<1>2. p \in Int /\ lo <= p /\ p < hi
  BY <1>1, ReachFacts DEF Reachable, RequestInv
<1>3. MIN_TICK \in Int /\ MAX_TICK \in Int
  BY ReachFacts
<1>4. /\ TickAt(p) \in Int
      /\ \A t \in Int : (PriceAt(t) <= p => t <= TickAt(p)) /\ (p < PriceAt(t) => TickAt(p) < t)
  BY <1>2, TickFacts
<1>5. MIN_TICK <= TickAt(p) /\ TickAt(p) < MAX_TICK
  BY <1>1, <1>2, <1>3, <1>4
<1>6. QED
  BY <1>2, <1>3, <1>4, <1>5

\* What a step takes: everything that is left, unless it comes to its target.
LEMMA StepFacts ==
  ASSUME zero_for_one \in BOOLEAN, price \in Int, remaining \in Nat, liquidity \in Nat,
         NEW target \in Int, IF zero_for_one THEN target <= price ELSE price <= target,
         NEW step, step = compute_swap_step(target)
  PROVE  /\ step.price \in Int /\ step.out \in Nat /\ step.in \in 0..remaining
         /\ IF zero_for_one THEN target <= step.price /\ step.price <= price
                            ELSE price <= step.price /\ step.price <= target
         /\ step.in < remaining => step.price = target
<1>1. PICK distance : distance = IF zero_for_one THEN price - target ELSE target - price
  OBVIOUS
<1>2. distance \in Nat
  BY <1>1
<1>3. PICK moved : moved = IF remaining >= liquidity * distance THEN distance
                                                                ELSE remaining \div liquidity
  OBVIOUS
<1>4. step = [price |-> IF zero_for_one THEN price - moved ELSE price + moved,
              out |-> liquidity * moved,
              in |-> IF moved = distance THEN liquidity * moved ELSE remaining]
  BY <1>1, <1>3 DEF compute_swap_step
<1>5. /\ step.price = IF zero_for_one THEN price - moved ELSE price + moved
      /\ step.out = liquidity * moved
      /\ step.in = IF moved = distance THEN liquidity * moved ELSE remaining
  BY <1>4
<1>6. CASE remaining >= liquidity * distance
  <2>1. moved = distance /\ liquidity * moved \in Nat /\ liquidity * moved <= remaining
    BY <1>2, <1>3, <1>6
  <2>2. step.in \in 0..remaining /\ step.out \in Nat
    BY <1>5, <2>1
  <2>3. QED
    BY <1>1, <1>2, <1>5, <2>1, <2>2
<1>7. CASE ~(remaining >= liquidity * distance)
  <2>1. liquidity # 0
    BY <1>2, <1>7
  <2>2. moved \in Int /\ moved * liquidity <= remaining /\ remaining < moved * liquidity + liquidity
    BY <1>3, <1>7, <2>1, DivFacts
  <2>3. moved \in Nat
    BY <2>1, <2>2
  <2>4. moved < distance
    <3>1. SUFFICES ASSUME moved >= distance PROVE FALSE
      BY <1>2, <2>3
    <3>2. liquidity * distance <= moved * liquidity
      BY <1>2, <2>3, <3>1
    <3>3. QED
      BY <1>2, <1>7, <2>2, <2>3, <3>2
  <2>5. liquidity * moved \in Nat /\ step.in = remaining
    BY <1>5, <2>3, <2>4
  <2>6. QED
    BY <1>1, <1>2, <1>5, <2>3, <2>4, <2>5
<1>8. QED
  BY <1>6, <1>7

-----------------------------------------------------------------------------
(* Every step keeps the invariant.                                          *)

LEMMA CoreTick ==
  ASSUME RequestInv
  PROVE  core.tick \in MIN_TICK..MAX_TICK /\ core.price \in Reachable
<1>1. core.price \in Reachable
  BY ReachFacts DEF Reachable, RequestInv
<1>2. PICK p, t : p = core.price /\ t = core.tick
  OBVIOUS
<1>3. t \in Int /\ p \in PriceAt(t)..PriceAt(t + 1) /\ PriceAt(MIN_TICK) + 1 < p
  BY <1>2, CoreFacts DEF RequestInv
<1>4. p \in Int /\ TickAt(p) \in MIN_TICK..MAX_TICK
  BY <1>1, <1>2, ReachableTick
<1>5. PriceAt(t) \in Int /\ PriceAt(t + 1) \in Int /\ PriceAt(MIN_TICK) \in Int /\ MIN_TICK \in Int
      /\ MAX_TICK \in Int /\ t + 1 \in Int
  BY <1>3, PriceFacts, SwapStepsAssumption
<1>6. t <= TickAt(p)
  BY <1>3, <1>4, <1>5, TickFacts
<1>7. MIN_TICK <= t
  <2>1. SUFFICES ASSUME t + 1 <= MIN_TICK PROVE FALSE
    BY <1>3, <1>5
  <2>2. t + 1 < MIN_TICK => PriceAt(t + 1) + Scale <= PriceAt(MIN_TICK)
    BY <1>5, PriceFacts
  <2>3. PriceAt(t + 1) <= PriceAt(MIN_TICK)
    BY <1>5, <2>1, <2>2, SwapStepsAssumption
  <2>4. QED
    BY <1>3, <1>4, <1>5, <2>3
<1>8. QED
  BY <1>1, <1>2, <1>3, <1>4, <1>5, <1>6, <1>7

LEMMA InitKeeps == Init => IInv
<1>1. SUFFICES ASSUME Init PROVE IInv
  OBVIOUS
<1>2. RequestInv
  BY <1>1 DEF Init, RequestInv
<1>3. TypeOK
  <2>1. amount \in Nat /\ remaining = amount /\ remaining \in 0..amount
    BY <1>1, SwapStepsAssumption DEF Init
  <2>2. tick \in (MIN_TICK - 1)..MAX_TICK /\ price \in Reachable
    BY <1>1, <1>2, CoreTick, SwapStepsAssumption DEF Init
  <2>3. liquidity \in Nat
    <3>1. core \in Cores /\ core.tick \in Int /\ liquidity = Liquidity(core.positions, core.tick)
      BY <1>1, CoreFacts DEF Init
    <3>2. QED
      BY <3>1, LiquidityNat
  <2>4. QED
    BY <1>1, <2>1, <2>2, <2>3 DEF Init, TypeOK
<1>4. StartInv /\ WalkInv /\ PlaceInv /\ TargetInv /\ GapInv
  <2>1. remaining > 0
    BY <1>1, SwapStepsAssumption DEF Init
  <2>2. QED
    BY <1>1, <2>1 DEF Init, StartInv, WalkInv, PlaceInv, TargetInv, GapInv, Running
<1>5. QED
  BY <1>2, <1>3, <1>4 DEF IInv

\* The end of a quote.
LEMMA DoneKeeps ==
  ASSUME IInv, pc' = "done", UNCHANGED <<core, zero_for_one, amount, next_tick, walked>>,
         UNCHANGED state, is_match' \in BOOLEAN, start_index' \in Int \cup {None}
  PROVE  IInv'
<1>1. RequestInv'
  BY DEF IInv, RequestInv
<1>2. TypeOK'
  BY DEF IInv, TypeOK, state, Reachable, sqrt_price_limit
<1>3. WalkInv'
  BY DEF IInv, WalkInv, Running
<1>4. StartInv' /\ PlaceInv' /\ TargetInv' /\ GapInv'
  BY DEF StartInv, PlaceInv, TargetInv, GapInv, Running
<1>5. QED
  BY <1>1, <1>2, <1>3, <1>4 DEF IInv

LEMMA QuotedKeeps == IInv /\ Quoted => IInv'
  BY DoneKeeps DEF Quoted, nav, IInv, TypeOK

LEMMA StutterKeeps == IInv /\ UNCHANGED vars => IInv'
<1>1. SUFFICES ASSUME IInv, UNCHANGED vars PROVE IInv'
  OBVIOUS
<1>2. UNCHANGED <<core, zero_for_one, amount, pc, is_match, start_index, next_tick, remaining,
                  calculated, price, tick, liquidity, walked, result>>
  BY <1>1 DEF vars, nav, state
<1>3. RequestInv' /\ StartInv'
  BY <1>1, <1>2 DEF IInv, RequestInv, StartInv
<1>4. TypeOK'
  BY <1>1, <1>2 DEF IInv, TypeOK, Reachable, sqrt_price_limit
<1>5. WalkInv'
  BY <1>1, <1>2 DEF IInv, WalkInv
<1>6. PlaceInv' /\ TargetInv'
  BY <1>1, <1>2 DEF IInv, PlaceInv, TargetInv, sqrt_price_limit, Loaded
<1>7. GapInv'
  BY <1>1, <1>2 DEF IInv, GapInv, Consistent, sqrt_price_limit
<1>8. QED
  BY <1>3, <1>4, <1>5, <1>6, <1>7 DEF IInv

LEMMA EnterLoopKeeps == IInv /\ EnterLoop => IInv'
<1>1. SUFFICES ASSUME IInv, EnterLoop PROVE IInv'
  OBVIOUS
<1>2. /\ pc = "loop" /\ pc' = "find"
      /\ UNCHANGED <<core, zero_for_one, amount, is_match, start_index, next_tick, remaining,
                     calculated, price, tick, liquidity, walked, result>>
  BY <1>1 DEF EnterLoop, nav, state
<1>3. remaining # 0 /\ price # sqrt_price_limit
  BY <1>1 DEF EnterLoop, LoopEnds
<1>4. RequestInv' /\ StartInv'
  BY <1>1, <1>2 DEF IInv, RequestInv, StartInv
<1>5. TypeOK'
  BY <1>1, <1>2 DEF IInv, TypeOK, Reachable, sqrt_price_limit
<1>6. WalkInv'
  BY <1>1, <1>2 DEF IInv, WalkInv, Running
<1>7. PlaceInv'
  BY <1>1, <1>2 DEF IInv, PlaceInv, Running
<1>8. TargetInv'
  <2>1. remaining > 0
    BY <1>1, <1>3, SwapStepsAssumption DEF IInv, TypeOK, RequestInv
  <2>2. QED
    BY <1>2, <1>3, <2>1 DEF TargetInv, sqrt_price_limit
<1>9. GapInv'
  BY <1>1, <1>2 DEF IInv, GapInv, Consistent, Running, sqrt_price_limit
<1>10. QED
  BY <1>4, <1>5, <1>6, <1>7, <1>8, <1>9 DEF IInv

LEMMA NavKeeps == IInv /\ init_tick_nav_state => IInv'
<1>1. SUFFICES ASSUME IInv, init_tick_nav_state PROVE IInv'
  OBVIOUS
<1>2. PICK first : first = first_initialized_tick_array(core, zero_for_one)
  OBVIOUS
<1>3. /\ pc = "init" /\ UNCHANGED <<core, zero_for_one, amount, next_tick, remaining, calculated,
                                    price, tick, liquidity, walked>>
  BY <1>1 DEF init_tick_nav_state, state
<1>4. RequestInv /\ StartInv /\ TypeOK /\ WalkInv /\ core \in Cores /\ zero_for_one \in BOOLEAN
  BY <1>1 DEF IInv, RequestInv
<1>5. CASE first[2] \in {None, Missing}
  <2>1. pc' = "done" /\ UNCHANGED <<is_match, start_index>>
    BY <1>1, <1>2, <1>5 DEF init_tick_nav_state, Stop, nav
  <2>2. QED
    BY <1>1, <1>3, <1>4, <2>1, DoneKeeps DEF TypeOK, state
<1>6. CASE first[2] \notin {None, Missing}
  <2>1. is_match' = first[1] /\ start_index' = first[2] /\ pc' = "loop"
    BY <1>1, <1>2, <1>6 DEF init_tick_nav_state
  <2>2. FirstVisible(core, zero_for_one, first)
    BY <1>2, <1>4, <1>6, FirstArrayFacts
  <2>3. price = core.price /\ tick = core.tick /\ walked = {}
          /\ liquidity = Liquidity(core.positions, core.tick)
    BY <1>3, <1>4 DEF StartInv
  <2>4. RequestInv' /\ StartInv' /\ TargetInv'
    BY <1>3, <1>4, <2>1 DEF RequestInv, StartInv, TargetInv
  <2>5. TypeOK'
    <3>1. is_match' \in BOOLEAN /\ start_index' \in Int
      BY <2>1, <2>2 DEF FirstVisible
    <3>2. QED
      BY <1>3, <1>4, <2>1, <3>1 DEF TypeOK, Reachable, sqrt_price_limit
  <2>6. WalkInv'
    BY <1>3, <1>4, <2>1, <2>2, <2>3 DEF WalkInv, FirstVisible
  <2>7. PICK current : current = ArrayStart(core.tick)
    OBVIOUS
  <2>8. /\ core.tick \in Int /\ current \in Int /\ ArrayTicks \in Nat \ {0}
        /\ current <= core.tick /\ core.tick < current + ArrayTicks
        /\ core.price \in PriceAt(core.tick)..PriceAt(core.tick + 1)
    BY <1>4, <2>7, CoreFacts, ArrayFacts
  <2>9. /\ first[2] \in Int /\ first[1] \in BOOLEAN
        /\ first[1] => first[2] = current
        /\ ~first[1] => Beyond(first[2], current, zero_for_one)
    BY <2>2, <2>7 DEF FirstVisible
  <2>10. /\ IF zero_for_one THEN core.tick >= first[2] - 1 ELSE core.tick < first[2] + ArrayTicks
         /\ first[1] => IF zero_for_one THEN core.tick < first[2] + ArrayTicks
                                        ELSE core.tick >= first[2]
    <3>1. PICK n, t : n = first[2] /\ t = core.tick
      OBVIOUS
    <3>2. n \in Int /\ t \in Int /\ current <= t /\ t < current + ArrayTicks
      BY <2>8, <2>9, <3>1
    <3>3. CASE first[1]
      <4>1. n = current
        BY <2>9, <3>1, <3>3, Zenon
      <4>2. t >= n - 1 /\ t >= n /\ t < n + ArrayTicks
        BY <2>8, <3>2, <4>1
      <4>3. QED
        BY <3>1, <4>2
    <3>4. CASE ~first[1]
      <4>1. Beyond(n, current, zero_for_one)
        BY <2>9, <3>1, <3>4, Zenon
      <4>2. IF zero_for_one THEN t >= n - 1 ELSE t < n + ArrayTicks
        BY <1>4, <2>8, <3>2, <4>1 DEF Beyond
      <4>3. QED
        BY <3>1, <3>4, <4>2, Zenon
    <3>5. QED
      BY <3>3, <3>4
  <2>11. PlaceInv'
    BY <1>3, <2>1, <2>3, <2>7, <2>8, <2>9, <2>10 DEF PlaceInv
  <2>12. GapInv'
    <3>1. \A t \in InitializedTicks(core.positions) :
            /\ zero_for_one /\ t <= core.tick => t < first[2] + ArrayTicks
            /\ ~zero_for_one /\ t > core.tick => t >= first[2]
      BY <1>4, <2>2, FirstGap
    <3>2. QED
      BY <1>3, <2>1, <2>3, <2>10, <3>1 DEF GapInv
  <2>13. QED
    BY <2>4, <2>5, <2>6, <2>11, <2>12 DEF IInv
<1>7. QED
  BY <1>5, <1>6

\* The walk comes to the tick t of the array s, having read the arrays W.
LEMMA FoundKeeps ==
  ASSUME IInv, pc = "find", pc' = "step", UNCHANGED <<core, zero_for_one, amount>>, UNCHANGED state,
         NEW s \in Ahead(core, zero_for_one), s \in DOMAIN core.arrays,
         NEW t \in DOMAIN core.arrays[s],
         NEW W \in SUBSET (Ahead(core, zero_for_one) \cap DOMAIN core.arrays), s \in W,
         walked = {} => Nearest(Ahead(core, zero_for_one), zero_for_one) \in W,
         is_match' = TRUE, start_index' = s, next_tick' = t, walked' = walked \cup W,
         IF zero_for_one THEN t <= tick /\ tick >= s - 1 ELSE t > tick /\ tick < s + ArrayTicks,
         Consistent => \A u \in InitializedTicks(core.positions) :
                         IF zero_for_one THEN u <= tick => u <= t ELSE u > tick => u >= t
  PROVE  IInv'
<1>1. core \in Cores /\ zero_for_one \in BOOLEAN
  BY DEF IInv, RequestInv
<1>2. t \in Ticks /\ t \in Int /\ ArrayStart(t) = s
  BY <1>1, LoadedFacts
<1>3. ArrayTicks \in Nat \ {0} /\ s \in Int /\ s <= t /\ t < s + ArrayTicks
  BY <1>2, ArrayFacts
<1>4. UNCHANGED <<remaining, calculated, price, tick, liquidity>>
  BY DEF state
<1>5. RequestInv' /\ StartInv'
  BY DEF IInv, RequestInv, StartInv
<1>6. TypeOK'
  <2>1. walked' \subseteq DOMAIN core.arrays
    BY DEF IInv, TypeOK
  <2>2. QED
    BY <1>2, <1>3, <1>4, <2>1 DEF IInv, TypeOK, Reachable, sqrt_price_limit
<1>7. WalkInv'
  BY DEF IInv, WalkInv, Running
<1>8. PlaceInv'
  BY <1>4 DEF IInv, PlaceInv, Running
<1>9. TargetInv'
  BY <1>4 DEF IInv, TargetInv, Loaded, sqrt_price_limit
<1>10. GapInv'
  <2>1. SUFFICES ASSUME Consistent, remaining > 0
                 PROVE  /\ \A u \in InitializedTicks(core.positions) :
                             /\ zero_for_one /\ u <= tick => u < s + ArrayTicks
                             /\ ~zero_for_one /\ u > tick => u >= s
                        /\ \A u \in InitializedTicks(core.positions) :
                             IF zero_for_one THEN u <= tick => u <= t ELSE u > tick => u >= t
                        /\ liquidity = Liquidity(core.positions, tick)
    BY <1>4 DEF GapInv, Consistent
  <2>2. liquidity = Liquidity(core.positions, tick)
    BY <2>1 DEF IInv, GapInv, Running
  <2>3. \A u \in InitializedTicks(core.positions) : u \in Int
    BY <1>1, VisibleFacts
  <2>4. QED
    BY <1>2, <1>3, <2>1, <2>2, <2>3
<1>11. QED
  BY <1>5, <1>6, <1>7, <1>8, <1>9, <1>10 DEF IInv

\* A tick within an array belongs to it.
LEMMA InArray ==
  ASSUME NEW t \in Int, NEW u \in Int, ArrayStart(t) <= u, u < ArrayStart(t) + ArrayTicks
  PROVE  ArrayStart(u) = ArrayStart(t)
<1>1. /\ ArrayTicks \in Nat \ {0} /\ ArrayStart(t) \in Int
      /\ ArrayStart(t) < ArrayStart(u) => ArrayStart(t) + ArrayTicks <= ArrayStart(u)
  BY ArrayFacts
<1>2. /\ ArrayStart(u) \in Int /\ ArrayStart(u) <= u /\ u < ArrayStart(u) + ArrayTicks
      /\ ArrayStart(u) < ArrayStart(t) => ArrayStart(u) + ArrayTicks <= ArrayStart(t)
  BY ArrayFacts
<1>3. QED
  BY <1>1, <1>2

\* An initialized tick in the range of a consistent array is in the array.
LEMMA InConsistent ==
  ASSUME Consistent, core \in Cores, NEW w \in Int, NEW s \in DOMAIN core.arrays, s = ArrayStart(w),
         NEW u \in InitializedTicks(core.positions), s <= u, u < s + ArrayTicks
  PROVE  u \in DOMAIN core.arrays[s]
<1>1. u \in Int
  BY VisibleFacts
<1>2. ArrayStart(u) = s
  BY <1>1, InArray
<1>3. QED
  BY <1>2, ConsistentFacts

\* The start of an array that the bitmaps show is that of an initialized tick.
LEMMA AheadFacts ==
  ASSUME core \in Cores, NEW s \in Ahead(core, zero_for_one)
  PROVE  /\ s \in Int /\ ArrayTicks \in Nat \ {0}
         /\ \E w \in InitializedTicks(core.positions) : w \in Int /\ s = ArrayStart(w)
         /\ Consistent /\ s \in DOMAIN core.arrays => DOMAIN core.arrays[s] # {}
<1>1. PICK w \in InitializedTicks(core.positions) : s = ArrayStart(w)
  BY VisibleFacts DEF Ahead
<1>2. w \in Int
  BY VisibleFacts
<1>3. s \in Int /\ ArrayTicks \in Nat \ {0}
  BY <1>1, <1>2, ArrayFacts
<1>4. Consistent /\ s \in DOMAIN core.arrays => w \in DOMAIN core.arrays[s]
  BY <1>1, ConsistentFacts
<1>5. QED
  BY <1>1, <1>2, <1>3, <1>4

LEMMA FindFacts ==
  ASSUME IInv, pc = "find"
  PROVE  /\ core \in Cores /\ zero_for_one \in BOOLEAN /\ is_match \in BOOLEAN
         /\ tick \in Int /\ start_index \in Int /\ ArrayTicks \in Nat \ {0}
         /\ ~NoBitmap(core) /\ start_index \in Ahead(core, zero_for_one)
         /\ IF zero_for_one THEN tick >= start_index - 1 ELSE tick < start_index + ArrayTicks
         /\ ~is_match => Beyond(start_index, ArrayStart(tick), zero_for_one)
         /\ remaining > 0 /\ price # sqrt_price_limit
         /\ walked = {} => start_index = Nearest(Ahead(core, zero_for_one), zero_for_one)
<1>1. core \in Cores /\ zero_for_one \in BOOLEAN
  BY DEF IInv, RequestInv
<1>2. is_match \in BOOLEAN /\ tick \in Int
  BY SwapStepsAssumption DEF IInv, TypeOK
<1>3. /\ ~NoBitmap(core) /\ start_index \in Ahead(core, zero_for_one)
      /\ walked = {} => start_index = Nearest(Ahead(core, zero_for_one), zero_for_one)
  BY DEF IInv, WalkInv, Running
<1>4. start_index \in Int /\ ArrayTicks \in Nat \ {0}
  BY <1>1, <1>3, AheadFacts
<1>5. /\ IF zero_for_one THEN tick >= start_index - 1 ELSE tick < start_index + ArrayTicks
      /\ ~is_match => Beyond(start_index, ArrayStart(tick), zero_for_one)
  BY DEF IInv, PlaceInv, Running
<1>6. remaining > 0 /\ price # sqrt_price_limit
  BY DEF IInv, TargetInv
<1>7. QED
  BY <1>1, <1>2, <1>3, <1>4, <1>5, <1>6

\* A tick of the current array lies ahead of the price.
LEMMA HereKeeps ==
  ASSUME IInv, pc = "find", pc' = "step", UNCHANGED <<core, zero_for_one, amount>>, UNCHANGED state,
         start_index \in DOMAIN core.arrays,
         NEW t, t = next_initialized_tick(core, start_index, tick, zero_for_one), t # None,
         next_tick' = t, walked' = walked \cup {start_index}, UNCHANGED nav
  PROVE  IInv'
<1>1. PICK s, z : s = start_index /\ z = zero_for_one
  OBVIOUS
<1>2. /\ core \in Cores /\ z \in BOOLEAN /\ is_match \in BOOLEAN
      /\ tick \in Int /\ s \in Int /\ ArrayTicks \in Nat \ {0} /\ s \in Ahead(core, z)
      /\ IF z THEN tick >= s - 1 ELSE tick < s + ArrayTicks
      /\ ~is_match => Beyond(s, ArrayStart(tick), z)
      /\ walked = {} => s = Nearest(Ahead(core, z), z)
      /\ remaining > 0
  BY <1>1, FindFacts
<1>3. /\ t \in DOMAIN core.arrays[s] /\ ArrayStart(tick) = s /\ IF z THEN t <= tick ELSE t > tick
      /\ \A u \in DOMAIN core.arrays[s] : IF z THEN u <= tick => u <= t ELSE u > tick => t <= u
  BY <1>1, <1>2, NextTickFacts
<1>4. is_match = TRUE
  BY <1>2, <1>3 DEF Beyond
<1>5. is_match' = TRUE /\ start_index' = s
  BY <1>1, <1>4 DEF nav
<1>6. t \in Int /\ ArrayStart(t) = s /\ s <= t /\ t < s + ArrayTicks
  BY <1>1, <1>2, <1>3, LoadedFacts, ArrayFacts
<1>7. ASSUME Consistent, NEW u \in InitializedTicks(core.positions)
      PROVE  IF z THEN u <= tick => u <= t ELSE u > tick => u >= t
  <2>1. u \in Int
    BY <1>2, VisibleFacts
  <2>2. (z /\ u <= tick => u < s + ArrayTicks) /\ (~z /\ u > tick => u >= s)
    BY <1>1, <1>2, <1>7 DEF IInv, GapInv, Running
  <2>3. s <= u /\ u < s + ArrayTicks => u \in DOMAIN core.arrays[s]
    BY <1>1, <1>2, <1>3, <1>7, InConsistent
  <2>4. QED
    BY <1>2, <1>3, <1>6, <2>1, <2>2, <2>3
<1>8. PICK W : W = {s}
  OBVIOUS
<1>9. W \in SUBSET (Ahead(core, z) \cap DOMAIN core.arrays) /\ s \in W /\ walked' = walked \cup W
        /\ (walked = {} => Nearest(Ahead(core, z), z) \in W)
  BY <1>1, <1>2, <1>8
<1>10. IF z THEN t <= tick /\ tick >= s - 1 ELSE t > tick /\ tick < s + ArrayTicks
  BY <1>2, <1>3
<1>11. QED
  BY <1>1, <1>2, <1>3, <1>5, <1>7, <1>9, <1>10, FoundKeeps

\* The walk begins beyond the pool's own array.
LEMMA FirstKeeps ==
  ASSUME IInv, pc = "find", pc' = "step", UNCHANGED <<core, zero_for_one, amount>>, UNCHANGED state,
         start_index \in DOMAIN core.arrays, ~is_match,
         NEW t, t = first_initialized_tick(core, start_index, zero_for_one), t # None,
         next_tick' = t, walked' = walked \cup {start_index}, is_match' = TRUE, UNCHANGED start_index
  PROVE  IInv'
<1>1. PICK s, z : s = start_index /\ z = zero_for_one
  OBVIOUS
<1>2. /\ core \in Cores /\ z \in BOOLEAN
      /\ tick \in Int /\ s \in Int /\ ArrayTicks \in Nat \ {0} /\ s \in Ahead(core, z)
      /\ IF z THEN tick >= s - 1 ELSE tick < s + ArrayTicks
      /\ walked = {} => s = Nearest(Ahead(core, z), z)
      /\ remaining > 0
  BY <1>1, FindFacts
<1>3. Beyond(s, ArrayStart(tick), z)
  BY <1>1, FindFacts
<1>4. /\ t \in DOMAIN core.arrays[s]
      /\ \A u \in DOMAIN core.arrays[s] : IF z THEN u <= t ELSE t <= u
  BY <1>1, <1>2, FirstTickFacts
<1>5. t \in Int /\ ArrayStart(t) = s /\ s <= t /\ t < s + ArrayTicks
  BY <1>1, <1>2, <1>4, LoadedFacts, ArrayFacts
<1>6. IF z THEN t <= tick /\ tick >= s - 1 ELSE t > tick /\ tick < s + ArrayTicks
  <2>1. PICK home : home = ArrayStart(tick)
    OBVIOUS
  <2>2. /\ home \in Int /\ home <= tick /\ tick < home + ArrayTicks
        /\ home < s => home + ArrayTicks <= s
    BY <1>2, <1>5, <2>1, ArrayFacts
  <2>3. s < home => s + ArrayTicks <= home
    BY <1>2, <1>5, <2>1, ArrayFacts
  <2>4. QED
    BY <1>2, <1>3, <1>5, <2>1, <2>2, <2>3 DEF Beyond
<1>7. ASSUME Consistent, NEW u \in InitializedTicks(core.positions)
      PROVE  IF z THEN u <= tick => u <= t ELSE u > tick => u >= t
  <2>1. u \in Int
    BY <1>2, VisibleFacts
  <2>2. (z /\ u <= tick => u < s + ArrayTicks) /\ (~z /\ u > tick => u >= s)
    BY <1>1, <1>2, <1>7 DEF IInv, GapInv, Running
  <2>3. s <= u /\ u < s + ArrayTicks => u \in DOMAIN core.arrays[s]
    BY <1>1, <1>2, <1>5, <1>7, InConsistent
  <2>4. QED
    BY <1>2, <1>4, <1>5, <2>1, <2>2, <2>3
<1>8. PICK W : W = {s}
  OBVIOUS
<1>9. W \in SUBSET (Ahead(core, z) \cap DOMAIN core.arrays) /\ s \in W /\ walked' = walked \cup W
        /\ (walked = {} => Nearest(Ahead(core, z), z) \in W)
  BY <1>1, <1>2, <1>8
<1>10. QED
  BY <1>1, <1>2, <1>4, <1>6, <1>7, <1>9, FoundKeeps

\* From an array to the next: what lies behind is behind the tick too.
LEMMA NextArrayPlace ==
  ASSUME IInv, pc = "find", start_index \in DOMAIN core.arrays,
         NEW n, NextVisible(core, start_index, zero_for_one, n)
  PROVE  /\ n \in Ahead(core, zero_for_one) /\ n \in Int
         /\ IF zero_for_one THEN n + ArrayTicks <= start_index ELSE start_index + ArrayTicks <= n
         /\ IF zero_for_one THEN n + ArrayTicks - 1 <= tick ELSE tick < n
<1>1. PICK s, z : s = start_index /\ z = zero_for_one
  OBVIOUS
<1>2. /\ core \in Cores /\ z \in BOOLEAN /\ ~NoBitmap(core)
      /\ tick \in Int /\ s \in Int /\ ArrayTicks \in Nat \ {0} /\ s \in Ahead(core, z)
      /\ IF z THEN tick >= s - 1 ELSE tick < s + ArrayTicks
  BY <1>1, FindFacts
<1>3. PICK w \in InitializedTicks(core.positions) : w \in Int /\ s = ArrayStart(w)
  BY <1>1, <1>2, AheadFacts
<1>4. n \in Ahead(core, z)
  BY <1>1, <1>2, <1>3, NextGap
<1>5. n \in Int /\ Beyond(n, s, z)
  BY <1>1 DEF NextVisible
<1>6. PICK v \in InitializedTicks(core.positions) : v \in Int /\ n = ArrayStart(v)
  BY <1>1, <1>2, <1>4, AheadFacts
<1>7. n < s => n + ArrayTicks <= s
  BY <1>3, <1>6, ArrayFacts
<1>8. s < n => s + ArrayTicks <= n
  BY <1>3, <1>6, ArrayFacts
<1>9. QED
  BY <1>1, <1>2, <1>4, <1>5, <1>7, <1>8 DEF Beyond

\* The current array has no more ticks: whatever lies ahead is beyond it.
LEMMA PastStart ==
  ASSUME IInv, pc = "find", Consistent, start_index \in DOMAIN core.arrays,
         next_initialized_tick(core, start_index, tick, zero_for_one) = None,
         ~is_match => first_initialized_tick(core, start_index, zero_for_one) = None,
         NEW u \in InitializedTicks(core.positions), IF zero_for_one THEN u <= tick ELSE u > tick
  PROVE  u \in Int /\ IF zero_for_one THEN u < start_index ELSE u >= start_index + ArrayTicks
<1>1. PICK s, z : s = start_index /\ z = zero_for_one
  OBVIOUS
<1>2. /\ core \in Cores /\ z \in BOOLEAN /\ tick \in Int /\ s \in Int /\ ArrayTicks \in Nat \ {0}
      /\ s \in Ahead(core, z) /\ remaining > 0 /\ price # sqrt_price_limit
      /\ IF z THEN tick >= s - 1 ELSE tick < s + ArrayTicks
  BY <1>1, FindFacts
<1>3. u \in Int
  BY <1>2, VisibleFacts
<1>4. is_match = TRUE
  <2>1. DOMAIN core.arrays[s] # {}
    BY <1>1, <1>2, AheadFacts
  <2>2. first_initialized_tick(core, s, z) # None
    BY <1>1, <1>2, <2>1, FirstTickFacts
  <2>3. QED
    BY <1>1, <2>2, FindFacts
<1>5. IF z THEN tick < s + ArrayTicks ELSE tick >= s
  BY <1>1, <1>2, <1>4 DEF IInv, GapInv, Running
<1>6. (z /\ u <= tick => u < s + ArrayTicks) /\ (~z /\ u > tick => u >= s)
  BY <1>1, <1>2 DEF IInv, GapInv, Running
<1>7. PICK w \in InitializedTicks(core.positions) : w \in Int /\ s = ArrayStart(w)
  BY <1>1, <1>2, AheadFacts
<1>8. s <= u /\ u < s + ArrayTicks => u \in DOMAIN core.arrays[s]
  BY <1>1, <1>2, <1>7, InConsistent
<1>9. s <= tick /\ tick < s + ArrayTicks => ArrayStart(tick) = s
  BY <1>2, <1>7, InArray
<1>10. ArrayStart(tick) # s \/ \A v \in DOMAIN core.arrays[s] : ~(IF z THEN v <= tick ELSE v > tick)
  BY <1>1, <1>2, NextTickFacts
<1>11. QED
  BY <1>1, <1>2, <1>3, <1>5, <1>6, <1>8, <1>9, <1>10

\* Then the next initialized tick lies in the next array.
LEMMA AheadKeeps ==
  ASSUME IInv, pc = "find", pc' = "step", UNCHANGED <<core, zero_for_one, amount>>, UNCHANGED state,
         start_index \in DOMAIN core.arrays,
         next_initialized_tick(core, start_index, tick, zero_for_one) = None,
         ~is_match => first_initialized_tick(core, start_index, zero_for_one) = None,
         NEW n, NextVisible(core, start_index, zero_for_one, n), n \in DOMAIN core.arrays,
         NEW t, t = first_initialized_tick(core, n, zero_for_one), t # None,
         next_tick' = t, walked' = walked \cup {start_index, n}, is_match' = TRUE, start_index' = n
  PROVE  IInv'
<1>1. PICK s, z : s = start_index /\ z = zero_for_one
  OBVIOUS
<1>2. /\ core \in Cores /\ z \in BOOLEAN /\ ~NoBitmap(core)
      /\ tick \in Int /\ s \in Int /\ ArrayTicks \in Nat \ {0} /\ s \in Ahead(core, z)
      /\ IF z THEN tick >= s - 1 ELSE tick < s + ArrayTicks
      /\ walked = {} => s = Nearest(Ahead(core, z), z)
      /\ remaining > 0 /\ price # sqrt_price_limit
  BY <1>1, FindFacts
<1>3. /\ n \in Ahead(core, z) /\ n \in Int
      /\ IF z THEN n + ArrayTicks <= s ELSE s + ArrayTicks <= n
      /\ IF z THEN n + ArrayTicks - 1 <= tick ELSE tick < n
  BY <1>1, NextArrayPlace
<1>4. /\ t \in DOMAIN core.arrays[n]
      /\ \A u \in DOMAIN core.arrays[n] : IF z THEN u <= t ELSE t <= u
  BY <1>1, <1>2, FirstTickFacts
<1>5. t \in Int /\ ArrayStart(t) = n /\ n <= t /\ t < n + ArrayTicks
  BY <1>1, <1>2, <1>4, LoadedFacts, ArrayFacts
<1>6. IF z THEN t <= tick /\ tick >= n - 1 ELSE t > tick /\ tick < n + ArrayTicks
  BY <1>2, <1>3, <1>5
<1>7. ASSUME Consistent, NEW u \in InitializedTicks(core.positions)
      PROVE  IF z THEN u <= tick => u <= t ELSE u > tick => u >= t
  <2>1. u \in Int
    BY <1>2, VisibleFacts
  <2>2. IF z THEN u <= tick => u < s ELSE u > tick => u >= s + ArrayTicks
    BY <1>1, <1>7, PastStart
  <2>3. /\ z /\ u < s => u < n + ArrayTicks
        /\ ~z /\ u >= s + ArrayTicks => u >= n
    BY <1>1, <1>2, <1>7, NextGap
  <2>4. n <= u /\ u < n + ArrayTicks => u \in DOMAIN core.arrays[n]
    BY <1>2, <1>5, <1>7, InConsistent
  <2>5. QED
    BY <1>2, <1>3, <1>4, <1>5, <2>1, <2>2, <2>3, <2>4
<1>8. PICK W : W = {s, n}
  OBVIOUS
<1>9. W \in SUBSET (Ahead(core, z) \cap DOMAIN core.arrays) /\ n \in W /\ walked' = walked \cup W
        /\ (walked = {} => Nearest(Ahead(core, z), z) \in W)
  BY <1>1, <1>2, <1>3, <1>8
<1>10. QED
  BY <1>1, <1>3, <1>4, <1>6, <1>7, <1>9, FoundKeeps

\* A loaded array without ticks, which only inconsistent arrays have.
LEMMA EmptyKeeps ==
  ASSUME IInv, pc = "find", UNCHANGED <<core, zero_for_one, amount, pc, next_tick>>, UNCHANGED state,
         start_index \in DOMAIN core.arrays,
         NEW n, NextVisible(core, start_index, zero_for_one, n), n \in DOMAIN core.arrays,
         first_initialized_tick(core, n, zero_for_one) = None,
         walked' = walked \cup {start_index, n}, is_match' = TRUE, start_index' = n
  PROVE  IInv'
<1>1. PICK s, z : s = start_index /\ z = zero_for_one
  OBVIOUS
<1>2. /\ core \in Cores /\ z \in BOOLEAN /\ ~NoBitmap(core)
      /\ tick \in Int /\ s \in Int /\ ArrayTicks \in Nat \ {0} /\ s \in Ahead(core, z)
      /\ walked = {} => s = Nearest(Ahead(core, z), z)
  BY <1>1, FindFacts
<1>3. /\ n \in Ahead(core, z) /\ n \in Int
      /\ IF z THEN n + ArrayTicks - 1 <= tick ELSE tick < n
  BY <1>1, NextArrayPlace
<1>4. UNCHANGED <<remaining, calculated, price, tick, liquidity>>
  BY DEF state
<1>5. RequestInv' /\ StartInv'
  BY DEF IInv, RequestInv, StartInv
<1>6. TypeOK'
  <2>1. walked' \subseteq DOMAIN core.arrays
    BY DEF IInv, TypeOK
  <2>2. QED
    BY <1>3, <1>4, <2>1 DEF IInv, TypeOK, Reachable, sqrt_price_limit
<1>7. WalkInv'
  BY <1>1, <1>2, <1>3 DEF IInv, WalkInv, Running
<1>8. IF z THEN tick >= n - 1 ELSE tick < n + ArrayTicks
  BY <1>2, <1>3
<1>9. PlaceInv'
  BY <1>1, <1>4, <1>8 DEF IInv, PlaceInv, Running
<1>10. TargetInv'
  BY <1>4 DEF IInv, TargetInv, sqrt_price_limit
<1>11. ~Consistent
  <2>1. DOMAIN core.arrays[n] = {}
    BY <1>1, <1>2, FirstTickFacts
  <2>2. QED
    BY <1>1, <1>2, <1>3, <2>1, AheadFacts
<1>12. GapInv'
  BY <1>11 DEF GapInv, Consistent
<1>13. QED
  BY <1>5, <1>6, <1>7, <1>9, <1>10, <1>12 DEF IInv

LEMMA FindKeeps == IInv /\ find_next_initialized_tick_with_nav => IInv'
<1>1. SUFFICES ASSUME IInv, find_next_initialized_tick_with_nav PROVE IInv'
  OBVIOUS
<1>2. pc = "find" /\ UNCHANGED <<core, zero_for_one, amount>> /\ UNCHANGED state
  BY <1>1 DEF find_next_initialized_tick_with_nav
<1>3. PICK here, first, next, ahead :
        /\ here  = next_initialized_tick(core, start_index, tick, zero_for_one)
        /\ first = first_initialized_tick(core, start_index, zero_for_one)
        /\ next  = next_initialized_tick_array_start_index(core, start_index, zero_for_one)
        /\ ahead = first_initialized_tick(core, next, zero_for_one)
  OBVIOUS
<1>4. /\ core \in Cores /\ zero_for_one \in BOOLEAN /\ is_match \in BOOLEAN /\ start_index \in Int
  BY <1>1, <1>2, FindFacts
<1>5. CASE /\ pc' = "done" /\ UNCHANGED <<next_tick, walked>> /\ is_match' \in BOOLEAN
           /\ start_index' \in Int
  BY <1>1, <1>2, <1>5, DoneKeeps
<1>6. CASE start_index \notin DOMAIN core.arrays
  <2>1. pc' = "done" /\ UNCHANGED <<next_tick, walked, is_match, start_index>>
    BY <1>1, <1>6 DEF find_next_initialized_tick_with_nav, Loaded, Stop, nav
  <2>2. QED
    BY <1>4, <1>5, <2>1
<1>7. CASE start_index \in DOMAIN core.arrays /\ here # None
  <2>1. /\ next_tick' = here /\ pc' = "step" /\ walked' = walked \cup {start_index} /\ UNCHANGED nav
    BY <1>1, <1>3, <1>7 DEF find_next_initialized_tick_with_nav, Loaded, Found
  <2>2. QED
    BY <1>1, <1>2, <1>3, <1>7, <2>1, HereKeeps
<1>8. CASE start_index \in DOMAIN core.arrays /\ here = None /\ ~is_match /\ first # None
  <2>1. /\ next_tick' = first /\ pc' = "step" /\ walked' = walked \cup {start_index}
        /\ is_match' = TRUE /\ UNCHANGED start_index
    BY <1>1, <1>3, <1>8 DEF find_next_initialized_tick_with_nav, Loaded, Found
  <2>2. QED
    BY <1>1, <1>2, <1>3, <1>8, <2>1, FirstKeeps
<1>9. CASE start_index \in DOMAIN core.arrays /\ here = None /\ ~(~is_match /\ first # None)
  <2>1. /\ is_match' = TRUE
        /\ IF next \in {None, Missing}
             THEN pc' = "done" /\ UNCHANGED <<start_index, next_tick, walked>>
           ELSE /\ start_index' = next
                /\ IF next \notin DOMAIN core.arrays
                     THEN pc' = "done" /\ UNCHANGED <<next_tick, walked>>
                   ELSE /\ walked' = walked \cup {start_index, next}
                        /\ IF ahead # None THEN next_tick' = ahead /\ pc' = "step"
                                           ELSE UNCHANGED <<pc, next_tick>>
    BY <1>1, <1>3, <1>9 DEF find_next_initialized_tick_with_nav, Loaded, Found, Stop
  <2>2. CASE next \in {None, Missing}
    BY <1>4, <1>5, <2>1, <2>2
  <2>3. CASE next \notin {None, Missing}
    <3>1. NextVisible(core, start_index, zero_for_one, next)
      BY <1>3, <1>4, <2>3, NextArrayFacts
    <3>2. next \in Int
      BY <3>1 DEF NextVisible
    <3>3. CASE next \notin DOMAIN core.arrays
      BY <1>5, <2>1, <2>3, <3>2, <3>3
    <3>4. CASE next \in DOMAIN core.arrays /\ ahead # None
      <4>1. ~is_match => first = None
        BY <1>9
      <4>2. /\ next_tick' = ahead /\ pc' = "step" /\ walked' = walked \cup {start_index, next}
            /\ is_match' = TRUE /\ start_index' = next
        BY <2>1, <2>3, <3>4
      <4>3. QED
        BY <1>1, <1>2, <1>3, <1>9, <3>1, <3>4, <4>1, <4>2, AheadKeeps
    <3>5. CASE next \in DOMAIN core.arrays /\ ahead = None
      <4>1. /\ UNCHANGED <<pc, next_tick>> /\ walked' = walked \cup {start_index, next}
            /\ is_match' = TRUE /\ start_index' = next
        BY <2>1, <2>3, <3>5
      <4>2. QED
        BY <1>1, <1>2, <1>3, <1>9, <3>1, <3>5, <4>1, EmptyKeeps
    <3>6. QED
      BY <3>3, <3>4, <3>5
  <2>4. QED
    BY <2>2, <2>3
<1>10. QED
  BY <1>6, <1>7, <1>8, <1>9

\* The target of a step: the next tick or the price limit, whichever is nearer.
LEMMA TargetFacts ==
  ASSUME IInv, pc = "step", NEW P, P = PriceAt(next_tick), NEW target, target = target_price
  PROVE  /\ P \in Int /\ target \in Int /\ target \in {P, sqrt_price_limit}
         /\ IF zero_for_one THEN P <= target /\ sqrt_price_limit <= target /\ target <= price
                            ELSE target <= P /\ target <= sqrt_price_limit /\ price <= target
<1>1. RequestInv /\ zero_for_one \in BOOLEAN /\ core \in Cores
  BY DEF IInv, RequestInv
<1>2. PICK limit, t : limit = sqrt_price_limit /\ t = next_tick
  OBVIOUS
<1>3. limit \in Int /\ core.price \in Int
  BY <1>1, <1>2, ReachFacts
<1>4. /\ start_index \in DOMAIN core.arrays /\ t \in DOMAIN core.arrays[start_index]
      /\ IF zero_for_one THEN t <= tick ELSE t > tick
  BY <1>2 DEF IInv, TargetInv, Loaded
<1>5. t \in Int /\ tick \in Int
  BY <1>1, <1>4, LoadedFacts, SwapStepsAssumption DEF IInv, TypeOK
<1>6. price \in PriceAt(tick)..PriceAt(tick + 1) /\ price \in Reachable
  BY DEF IInv, PlaceInv, TypeOK, Running
<1>7. P \in Int /\ PriceAt(tick) \in Int /\ PriceAt(tick + 1) \in Int /\ Scale \in Nat \ {0}
  <2>1. Scale \in Nat \ {0} /\ PriceAt(t) \in Int /\ PriceAt(tick) \in Int
    BY <1>5, SwapStepsAssumption DEF PriceAt
  <2>2. PriceAt(tick + 1) \in Int
    BY <1>5, SwapStepsAssumption DEF PriceAt
  <2>3. QED
    BY <1>2, <2>1, <2>2
<1>8. price \in Int /\ IF zero_for_one THEN limit <= price ELSE price <= limit
  BY <1>1, <1>2, <1>3, <1>6 DEF Reachable
<1>9. IF zero_for_one THEN P <= price ELSE price <= P
  <2>1. t < tick => PriceAt(t) + Scale <= PriceAt(tick)
    BY <1>5, PriceFacts
  <2>2. tick + 1 < t => PriceAt(tick + 1) + Scale <= PriceAt(t)
    BY <1>5, PriceFacts
  <2>3. CASE zero_for_one
    <3>1. PriceAt(t) <= PriceAt(tick)
      BY <1>2, <1>4, <1>5, <1>7, <2>1, <2>3
    <3>2. QED
      BY <1>2, <1>6, <1>7, <1>8, <2>3, <3>1
  <2>4. CASE ~zero_for_one
    <3>1. PriceAt(tick + 1) <= PriceAt(t)
      BY <1>2, <1>4, <1>5, <1>7, <2>2, <2>4
    <3>2. QED
      BY <1>2, <1>6, <1>7, <1>8, <2>4, <3>1
  <2>5. QED
    BY <2>3, <2>4
<1>10. CASE zero_for_one
  <2>1. target = CHOOSE x \in {P, limit} : \A y \in {P, limit} : x >= y
    BY <1>2, <1>10 DEF target_price, Max
  <2>2. \E x \in {P, limit} : \A y \in {P, limit} : x >= y
    BY <1>3, <1>7
  <2>3. target \in {P, limit} /\ target >= P /\ target >= limit
    BY <2>1, <2>2
  <2>4. QED
    BY <1>2, <1>3, <1>7, <1>8, <1>9, <1>10, <2>3
<1>11. CASE ~zero_for_one
  <2>1. target = CHOOSE x \in {P, limit} : \A y \in {P, limit} : x <= y
    BY <1>2, <1>11 DEF target_price, Min
  <2>2. \E x \in {P, limit} : \A y \in {P, limit} : x <= y
    BY <1>3, <1>7
  <2>3. target \in {P, limit} /\ target <= P /\ target <= limit
    BY <2>1, <2>2
  <2>4. QED
    BY <1>2, <1>3, <1>7, <1>8, <1>9, <1>11, <2>3
<1>12. QED
  BY <1>10, <1>11

\* On consistent arrays a crossing gives the liquidity of the positions on the
\* other side of the tick.
LEMMA CrossedFacts ==
  ASSUME IInv, pc = "step", Consistent, NEW net, net = get_tick_liquidity_net(core, next_tick)
  PROVE  liquidity + (IF zero_for_one THEN -net ELSE net)
           = Liquidity(core.positions, IF zero_for_one THEN next_tick - 1 ELSE next_tick)
<1>1. PICK z, t, s, above, below :
        /\ z = zero_for_one /\ t = next_tick /\ s = start_index
        /\ above = Liquidity(core.positions, t) /\ below = Liquidity(core.positions, t - 1)
  OBVIOUS
<1>2. /\ core \in Cores /\ z \in BOOLEAN /\ s \in DOMAIN core.arrays /\ t \in DOMAIN core.arrays[s]
      /\ IF z THEN t <= tick ELSE t > tick
      /\ remaining > 0
  BY <1>1 DEF IInv, RequestInv, TargetInv, Loaded
<1>3. t \in Int /\ ArrayStart(t) = s
  BY <1>2, LoadedFacts
<1>4. tick \in Int
  BY SwapStepsAssumption DEF IInv, TypeOK
<1>5. net = above - below
  BY <1>1, <1>2, <1>3, ConsistentFacts DEF get_tick_liquidity_net
<1>6. above \in Nat /\ below \in Nat
  <2>1. t \in Int /\ t - 1 \in Int
    BY <1>3
  <2>2. QED
    BY <1>1, <1>2, <2>1, LiquidityNat
<1>7. \A u \in InitializedTicks(core.positions) :
        /\ u \in Int
        /\ IF z THEN u <= tick => u <= t ELSE u > tick => u >= t
  BY <1>1, <1>2, VisibleFacts DEF IInv, GapInv, Running
<1>8. liquidity = Liquidity(core.positions, tick)
  BY <1>2 DEF IInv, GapInv, Running
<1>9. CASE z
  <2>1. t <= tick /\ \A u \in InitializedTicks(core.positions) : ~(t < u /\ u <= tick)
    BY <1>2, <1>3, <1>4, <1>7, <1>9
  <2>2. liquidity = above
    BY <1>1, <1>2, <1>3, <1>4, <1>8, <2>1, LiquidityConstant
  <2>3. liquidity + (-net) = below
    BY <1>5, <1>6, <2>2
  <2>4. QED
    BY <1>1, <1>9, <2>3
<1>10. CASE ~z
  <2>1. tick <= t - 1 /\ t - 1 \in Int
         /\ \A u \in InitializedTicks(core.positions) : ~(tick < u /\ u <= t - 1)
    BY <1>2, <1>3, <1>4, <1>7, <1>10
  <2>2. liquidity = below
    BY <1>1, <1>2, <1>4, <1>8, <2>1, LiquidityConstant
  <2>3. liquidity + net = above
    BY <1>5, <1>6, <2>2
  <2>4. QED
    BY <1>1, <1>10, <2>3
<1>11. QED
  BY <1>2, <1>9, <1>10

LEMMA SwapStepKeeps == IInv /\ SwapStep => IInv'
<1>1. SUFFICES ASSUME IInv, SwapStep PROVE IInv'
  OBVIOUS
<1>2. PICK z, t, s, P, limit, target, step, net, crossed :
        /\ z = zero_for_one /\ t = next_tick /\ s = start_index /\ P = PriceAt(next_tick)
        /\ limit = sqrt_price_limit /\ target = target_price
        /\ step = compute_swap_step(target_price)
        /\ net = get_tick_liquidity_net(core, next_tick)
        /\ crossed = liquidity + (IF zero_for_one THEN -net ELSE net)
  OBVIOUS
<1>3. /\ pc = "step" /\ price' = step.price /\ remaining' = remaining - step.in
      /\ calculated' = calculated + step.out
      /\ UNCHANGED <<core, zero_for_one, amount, is_match, start_index, next_tick, walked>>
      /\ IF step.price # P
           THEN tick' = TickAt(step.price) /\ pc' = "loop" /\ UNCHANGED liquidity
         ELSE IF crossed < 0
           THEN pc' = "done" /\ UNCHANGED <<tick, liquidity>>
         ELSE /\ liquidity' = crossed /\ tick' = (IF z THEN t - 1 ELSE t) /\ pc' = "loop"
  BY <1>1, <1>2 DEF SwapStep, Stop, nav, TickAfterCrossing
<1>4. /\ RequestInv /\ z \in BOOLEAN /\ core \in Cores /\ s \in DOMAIN core.arrays
      /\ t \in DOMAIN core.arrays[s] /\ is_match = TRUE
      /\ IF z THEN t <= tick ELSE t > tick
      /\ remaining > 0 /\ price # limit
  BY <1>1, <1>2, <1>3 DEF IInv, RequestInv, TargetInv, Loaded, TypeOK
<1>5. t \in Int /\ t \in Ticks /\ ArrayStart(t) = s /\ net \in Int
  BY <1>2, <1>4, LoadedFacts DEF get_tick_liquidity_net
<1>6. ArrayTicks \in Nat \ {0} /\ s \in Int /\ s <= t /\ t < s + ArrayTicks
  BY <1>5, ArrayFacts
<1>7. /\ amount \in Nat /\ remaining \in 0..amount /\ calculated \in Nat /\ liquidity \in Nat
      /\ tick \in Int /\ MIN_TICK \in Int /\ MAX_TICK \in Int
  BY <1>1, SwapStepsAssumption DEF IInv, TypeOK, RequestInv
<1>8. price \in Int /\ price \in Reachable /\ limit \in Int /\ core.price \in Int
  BY <1>1, <1>2, <1>4, ReachFacts, ReachableTick DEF IInv, TypeOK
<1>9. /\ P \in Int /\ target \in Int /\ target \in {P, limit}
      /\ IF z THEN P <= target /\ limit <= target /\ target <= price
              ELSE target <= P /\ target <= limit /\ price <= target
  BY <1>1, <1>2, <1>3, TargetFacts
<1>10. /\ step.price \in Int /\ step.out \in Nat /\ step.in \in 0..remaining
       /\ IF z THEN target <= step.price /\ step.price <= price
               ELSE price <= step.price /\ step.price <= target
       /\ step.in < remaining => step.price = target
  BY <1>2, <1>4, <1>7, <1>8, <1>9, StepFacts
<1>11. step.price \in Reachable
  BY <1>2, <1>4, <1>8, <1>9, <1>10 DEF Reachable
<1>12. RequestInv' /\ StartInv' /\ WalkInv' /\ TargetInv'
  <2>1. pc' \in {"loop", "done"}
    BY <1>3
  <2>2. RequestInv' /\ StartInv' /\ TargetInv'
    BY <1>3, <1>4, <2>1 DEF RequestInv, StartInv, TargetInv
  <2>3. WalkInv'
    BY <1>1, <1>3, <2>1 DEF IInv, WalkInv, Running
  <2>4. QED
    BY <2>2, <2>3
<1>13. price' \in Reachable' /\ remaining' \in 0..amount /\ calculated' \in Nat
  <2>1. Reachable' = Reachable
    BY <1>3 DEF Reachable, sqrt_price_limit
  <2>2. QED
    BY <1>3, <1>7, <1>10, <1>11, <2>1
<1>14. ASSUME tick' \in (MIN_TICK - 1)..MAX_TICK, liquidity' \in Nat PROVE TypeOK'
  <2>1. pc' \in {"loop", "done"}
    BY <1>3
  <2>2. QED
    BY <1>1, <1>3, <1>13, <1>14, <2>1 DEF IInv, TypeOK
<1>15. CASE step.price # P
  <2>1. tick' = TickAt(step.price) /\ pc' = "loop" /\ liquidity' = liquidity
    BY <1>3, <1>15
  <2>2. tick' \in MIN_TICK..MAX_TICK
    BY <1>4, <1>11, <2>1, ReachableTick
  <2>3. TypeOK'
    BY <1>7, <1>14, <2>1, <2>2
  <2>4. /\ tick' \in Int /\ price' \in PriceAt(tick')..PriceAt(tick' + 1)
        /\ \A w \in Int : /\ PriceAt(w) <= price' => w <= tick'
                          /\ price' < PriceAt(w) => tick' < w
    BY <1>3, <1>10, <2>1, TickFacts
  <2>5. IF z THEN t <= tick' ELSE tick' < t
    <3>1. IF z THEN PriceAt(t) <= price' ELSE price' < PriceAt(t)
      BY <1>2, <1>3, <1>4, <1>9, <1>10, <1>15
    <3>2. QED
      BY <1>5, <2>4, <3>1
  <2>6. IF z THEN tick' >= s - 1 ELSE tick' < s + ArrayTicks
    BY <1>4, <1>5, <1>6, <2>4, <2>5
  <2>7. PlaceInv'
    BY <1>2, <1>3, <1>4, <2>4, <2>6 DEF PlaceInv
  <2>8. GapInv'
    <3>1. SUFFICES ASSUME Consistent, remaining' > 0
                   PROVE  /\ \A u \in InitializedTicks(core.positions) :
                               /\ z /\ u <= tick' => u < s + ArrayTicks
                               /\ ~z /\ u > tick' => u >= s
                          /\ price' = limit
                          /\ liquidity' = Liquidity(core.positions, tick')
      BY <1>2, <1>3, <2>1 DEF GapInv, Consistent, sqrt_price_limit
    <3>2. price' = limit
      BY <1>3, <1>7, <1>9, <1>10, <1>15, <3>1
    <3>3. price \in PriceAt(tick)..PriceAt(tick + 1) /\ PriceAt(tick) \in Int /\ PriceAt(tick + 1) \in Int
      BY <1>1, <1>3, <1>7, PriceFacts DEF IInv, PlaceInv, Running
    <3>4. IF z THEN price' < PriceAt(tick + 1) ELSE PriceAt(tick) <= price'
      BY <1>3, <1>4, <1>8, <1>9, <1>10, <3>2, <3>3
    <3>5. IF z THEN tick' <= tick ELSE tick <= tick'
      <4>1. tick + 1 \in Int
        BY <1>7
      <4>2. z => tick' < tick + 1
        BY <2>4, <3>4, <4>1
      <4>3. ~z => tick <= tick'
        BY <1>7, <2>4, <3>4
      <4>4. QED
        BY <1>4, <1>7, <2>4, <4>2, <4>3
    <3>6. \A u \in InitializedTicks(core.positions) :
            /\ u \in Int
            /\ IF z THEN u <= tick => u <= t ELSE u > tick => u >= t
      BY <1>1, <1>2, <1>3, <1>4, <3>1, VisibleFacts DEF IInv, GapInv, Running
    <3>7. liquidity = Liquidity(core.positions, tick)
      BY <1>1, <1>3, <1>4, <3>1 DEF IInv, GapInv, Running
    <3>8. Liquidity(core.positions, tick) = Liquidity(core.positions, tick')
      <4>1. CASE z
        <5>1. \A u \in InitializedTicks(core.positions) : ~(tick' < u /\ u <= tick)
          BY <1>5, <1>7, <2>4, <2>5, <3>6, <4>1
        <5>2. QED
          BY <1>4, <1>7, <2>4, <3>5, <4>1, <5>1, LiquidityConstant
      <4>2. CASE ~z
        <5>1. \A u \in InitializedTicks(core.positions) : ~(tick < u /\ u <= tick')
          BY <1>5, <1>7, <2>4, <2>5, <3>6, <4>2
        <5>2. QED
          BY <1>4, <1>7, <2>4, <3>5, <4>2, <5>1, LiquidityConstant
      <4>3. QED
        BY <4>1, <4>2
    <3>9. \A u \in InitializedTicks(core.positions) : /\ z /\ u <= tick' => u < s + ArrayTicks
                                                      /\ ~z /\ u > tick' => u >= s
      BY <1>4, <1>5, <1>6, <1>7, <2>4, <3>5, <3>6
    <3>10. QED
      BY <2>1, <3>2, <3>7, <3>8, <3>9
  <2>9. QED
    BY <1>12, <2>3, <2>7, <2>8 DEF IInv
<1>16. CASE step.price = P /\ crossed < 0
  <2>1. pc' = "done" /\ UNCHANGED <<tick, liquidity>>
    BY <1>3, <1>16
  <2>2. TypeOK'
    BY <1>1, <1>14, <2>1 DEF IInv, TypeOK
  <2>3. PlaceInv' /\ GapInv'
    BY <2>1 DEF PlaceInv, GapInv, Running
  <2>4. QED
    BY <1>12, <2>2, <2>3 DEF IInv
<1>17. CASE step.price = P /\ ~(crossed < 0)
  <2>1. liquidity' = crossed /\ tick' = (IF z THEN t - 1 ELSE t) /\ pc' = "loop" /\ price' = P
    BY <1>3, <1>17
  <2>2. crossed \in Nat
    BY <1>2, <1>5, <1>7, <1>17
  <2>3. tick' \in Int /\ tick' \in (MIN_TICK - 1)..MAX_TICK
    BY <1>4, <1>5, <1>7, <2>1 DEF Ticks
  <2>4. TypeOK'
    BY <1>14, <2>1, <2>2, <2>3
  <2>5. /\ IF z THEN tick' >= s - 1 ELSE tick' < s + ArrayTicks
        /\ IF z THEN tick' < s + ArrayTicks ELSE tick' >= s
    BY <1>4, <1>5, <1>6, <2>1
  <2>6. price' \in PriceAt(tick')..PriceAt(tick' + 1)
    <3>1. /\ PriceAt(tick') \in Int /\ PriceAt(tick' + 1) = PriceAt(tick') + Scale
          /\ Scale \in Nat \ {0}
      BY <2>3, PriceFacts
    <3>2. P = PriceAt(tick') \/ P = PriceAt(tick' + 1)
      <4>1. t - 1 + 1 = t
        BY <1>5
      <4>2. QED
        BY <1>2, <2>1, <4>1
    <3>3. QED
      BY <1>9, <2>1, <3>1, <3>2
  <2>7. PlaceInv'
    BY <1>2, <1>3, <1>4, <2>5, <2>6 DEF PlaceInv
  <2>8. GapInv'
    <3>1. SUFFICES ASSUME Consistent, remaining' > 0
                   PROVE  /\ \A u \in InitializedTicks(core.positions) :
                               /\ z /\ u <= tick' => u < s + ArrayTicks
                               /\ ~z /\ u > tick' => u >= s
                          /\ crossed = Liquidity(core.positions, tick')
      BY <1>2, <1>3, <2>1, <2>5 DEF GapInv, Consistent, sqrt_price_limit
    <3>2. \A u \in InitializedTicks(core.positions) :
            /\ u \in Int
            /\ IF z THEN u <= tick => u <= t ELSE u > tick => u >= t
      BY <1>1, <1>2, <1>3, <1>4, <3>1, VisibleFacts DEF IInv, GapInv, Running
    <3>3. \A u \in InitializedTicks(core.positions) : /\ z /\ u <= tick' => u < s + ArrayTicks
                                                      /\ ~z /\ u > tick' => u >= s
      BY <1>4, <1>5, <1>6, <1>7, <2>1, <3>2
    <3>4. crossed = Liquidity(core.positions, tick')
      BY <1>1, <1>2, <1>3, <2>1, <3>1, CrossedFacts
    <3>5. QED
      BY <3>3, <3>4
  <2>9. QED
    BY <1>12, <2>4, <2>7, <2>8 DEF IInv
<1>18. QED
  BY <1>15, <1>16, <1>17

\* Every action of a quote keeps the invariant.
THEOREM NextKeeps == IInv /\ [Next]_vars => IInv'
<1>1. SUFFICES ASSUME IInv, [Next]_vars PROVE IInv'
  OBVIOUS
<1>2. CASE init_tick_nav_state
  BY <1>1, <1>2, NavKeeps
<1>3. CASE EnterLoop
  BY <1>1, <1>3, EnterLoopKeeps
<1>4. CASE Quoted
  BY <1>1, <1>4, QuotedKeeps
<1>5. CASE find_next_initialized_tick_with_nav
  BY <1>1, <1>5, FindKeeps
<1>6. CASE SwapStep
  BY <1>1, <1>6, SwapStepKeeps
<1>7. CASE Done \/ UNCHANGED vars
  BY <1>1, <1>7, StutterKeeps DEF Done
<1>8. QED
  BY <1>1, <1>2, <1>3, <1>4, <1>5, <1>6, <1>7 DEF Next

\* The invariant holds throughout every quote.
THEOREM Inductive == Spec => []IInv
<1>1. Init => IInv
  BY InitKeeps
<1>2. IInv /\ [Next]_vars => IInv'
  BY NextKeeps
<1>3. QED
  BY <1>1, <1>2, PTL DEF Spec

-----------------------------------------------------------------------------
(* What it takes to move the price.                                         *)

Span(c, z, p) == IF z THEN p..(c.price - 1) ELSE c.price..(p - 1)
Cost(c, z, p) == SumFunction([x \in Span(c, z, p) |-> Liquidity(c.positions, TickAt(x))])

\* The price d points further, and the point that the price leaves behind.
Moved(z, p, d) == IF z THEN p - d ELSE p + d
PointAfter(z, p) == IF z THEN p - 1 ELSE p

OnTheWay(c, z, p) == p \in Int /\ IF z THEN p <= c.price ELSE c.price <= p

LEMMA CapacityIsCost == \A p : Capacity(p) = Cost(core, zero_for_one, p)
  BY DEF Capacity, Cost, Span

LEMMA CostStep ==
  ASSUME NEW c \in Cores, NEW z \in BOOLEAN, NEW p, OnTheWay(c, z, p)
  PROVE  /\ Cost(c, z, p) \in Nat
         /\ Cost(c, z, Moved(z, p, 1)) =
              Cost(c, z, p) + Liquidity(c.positions, TickAt(PointAfter(z, p)))
<1>1. PICK S, y, n : S = Span(c, z, p) /\ y = PointAfter(z, p) /\ n = Moved(z, p, 1)
  OBVIOUS
<1>2. p \in Int /\ c.price \in Int
  BY CoreFacts DEF OnTheWay
<1>3. S \subseteq Int /\ y \in Int /\ y \notin S /\ Span(c, z, n) = S \cup {y}
  BY <1>1, <1>2 DEF OnTheWay, Span, PointAfter, Moved
<1>4. IsFiniteSet(S)
  <2>1. c.price - 1 \in Int /\ p - 1 \in Int
    BY <1>2
  <2>2. QED
    BY <1>1, <1>2, <2>1, FS_Interval DEF Span
<1>5. \A x \in Int : Liquidity(c.positions, TickAt(x)) \in Nat
  BY TickFacts, LiquidityNat
<1>6. PICK e, f : /\ e = [x \in S |-> Liquidity(c.positions, TickAt(x))]
                  /\ f = [x \in S \cup {y} |-> Liquidity(c.positions, TickAt(x))]
  OBVIOUS
<1>7. /\ e \in [S -> Nat] /\ e \in [S -> Int] /\ f \in [S \cup {y} -> Int]
      /\ \A x \in S : e[x] = f[x]
  BY <1>3, <1>5, <1>6
<1>8. SumFunction(f) = SumFunction(e) + f[y]
  BY <1>3, <1>4, <1>7, SumAdd
<1>9. SumFunction(e) \in Nat
  BY <1>4, <1>7, SumNat
<1>10. Cost(c, z, p) = SumFunction(e) /\ Cost(c, z, n) = SumFunction(f)
  BY <1>1, <1>3, <1>6 DEF Cost
<1>11. f[y] = Liquidity(c.positions, TickAt(y))
  BY <1>6
<1>12. QED
  BY <1>1, <1>8, <1>9, <1>10, <1>11

LEMMA CostOfNothing ==
  ASSUME NEW c \in Cores, NEW z \in BOOLEAN
  PROVE  Cost(c, z, c.price) = 0
<1>1. c.price \in Int
  BY CoreFacts
<1>2. Span(c, z, c.price) = {}
  BY <1>1 DEF Span
<1>3. QED
  BY <1>2, SumEmpty DEF Cost

\* Where the liquidity does not change, every point costs the same.
LEMMA CostOfRun ==
  ASSUME NEW c \in Cores, NEW z \in BOOLEAN, NEW p, OnTheWay(c, z, p), NEW d \in Nat, NEW L \in Nat,
         \A k \in 0..(d - 1) : Liquidity(c.positions, TickAt(PointAfter(z, Moved(z, p, k)))) = L
  PROVE  \A k \in 0..d : Cost(c, z, Moved(z, p, k)) = Cost(c, z, p) + L * k
<1>1. PICK Bad : Bad = {k \in 0..d : Cost(c, z, Moved(z, p, k)) # Cost(c, z, p) + L * k}
  OBVIOUS
<1>2. SUFFICES ASSUME Bad # {} PROVE FALSE
  BY <1>1
<1>3. Bad \in SUBSET Nat
  BY <1>1
<1>4. PICK n \in Bad : \A k \in Bad : n <= k
  BY <1>2, <1>3, Smallest
<1>5. p \in Int /\ Cost(c, z, p) \in Nat /\ c.price \in Int
  BY CostStep, CoreFacts DEF OnTheWay
<1>6. n \in 0..d /\ Cost(c, z, Moved(z, p, n)) # Cost(c, z, p) + L * n
  BY <1>1, <1>4
<1>7. n # 0
  <2>1. Moved(z, p, 0) = p /\ L * 0 = 0
    BY <1>5 DEF Moved
  <2>2. QED
    BY <1>5, <1>6, <2>1
<1>8. PICK m, q : m = n - 1 /\ q = Moved(z, p, m)
  OBVIOUS
<1>9. m \in 0..(d - 1) /\ m \in 0..d /\ m \notin Bad /\ n = m + 1 /\ m \in Nat
  BY <1>3, <1>4, <1>6, <1>7, <1>8
<1>10. Cost(c, z, q) = Cost(c, z, p) + L * m
  BY <1>1, <1>8, <1>9
<1>11. OnTheWay(c, z, q) /\ Moved(z, q, 1) = Moved(z, p, n)
  BY <1>5, <1>8, <1>9 DEF OnTheWay, Moved
<1>12. Cost(c, z, Moved(z, q, 1)) = Cost(c, z, q) + Liquidity(c.positions, TickAt(PointAfter(z, q)))
  BY <1>11, CostStep
<1>13. Cost(c, z, Moved(z, p, n)) = Cost(c, z, p) + L * m + L
  BY <1>8, <1>9, <1>10, <1>11, <1>12
<1>14. L * n = L * m + L
  BY <1>9
<1>15. L * m \in Nat
  BY <1>9
<1>16. QED
  BY <1>5, <1>6, <1>13, <1>14, <1>15

\* Going further never costs less.
LEMMA CostGrows ==
  ASSUME NEW c \in Cores, NEW z \in BOOLEAN, NEW p, OnTheWay(c, z, p), NEW d \in Nat
  PROVE  /\ OnTheWay(c, z, Moved(z, p, d))
         /\ Cost(c, z, p) \in Nat /\ Cost(c, z, Moved(z, p, d)) \in Nat
         /\ Cost(c, z, p) <= Cost(c, z, Moved(z, p, d))
<1>1. PICK Bad : Bad = {k \in Nat : ~(Cost(c, z, p) <= Cost(c, z, Moved(z, p, k)))}
  OBVIOUS
<1>2. p \in Int /\ c.price \in Int
  BY CoreFacts DEF OnTheWay
<1>3. ASSUME NEW k \in Nat PROVE OnTheWay(c, z, Moved(z, p, k)) /\ Cost(c, z, Moved(z, p, k)) \in Nat
  <2>1. OnTheWay(c, z, Moved(z, p, k))
    BY <1>2 DEF OnTheWay, Moved
  <2>2. QED
    BY <2>1, CostStep
<1>4. Cost(c, z, p) \in Nat
  BY CostStep
<1>5. Bad = {}
  <2>1. SUFFICES ASSUME Bad # {} PROVE FALSE
    OBVIOUS
  <2>2. PICK n \in Bad : \A k \in Bad : n <= k
    BY <1>1, <2>1, Smallest
  <2>3. n \in Nat /\ ~(Cost(c, z, p) <= Cost(c, z, Moved(z, p, n)))
    BY <1>1, <2>2
  <2>4. n # 0
    <3>1. Moved(z, p, 0) = p
      BY <1>2 DEF Moved
    <3>2. QED
      BY <1>4, <2>3, <3>1
  <2>5. PICK m, q : m = n - 1 /\ q = Moved(z, p, m)
    OBVIOUS
  <2>6. m \in Nat /\ m \notin Bad /\ Cost(c, z, p) <= Cost(c, z, q)
    BY <1>1, <2>2, <2>3, <2>4, <2>5
  <2>7. OnTheWay(c, z, q) /\ Cost(c, z, q) \in Nat
    BY <1>3, <2>5, <2>6
  <2>8. Moved(z, q, 1) = Moved(z, p, n)
    BY <1>2, <2>3, <2>5 DEF Moved
  <2>9. PICK L : L = Liquidity(c.positions, TickAt(PointAfter(z, q)))
    OBVIOUS
  <2>10. L \in Nat
    <3>1. PointAfter(z, q) \in Int
      BY <2>7 DEF PointAfter, OnTheWay
    <3>2. QED
      BY <2>9, <3>1, TickFacts, LiquidityNat
  <2>11. Cost(c, z, Moved(z, p, n)) = Cost(c, z, q) + L
    BY <2>7, <2>8, <2>9, CostStep
  <2>12. QED
    BY <1>4, <2>3, <2>6, <2>7, <2>10, <2>11
<1>6. QED
  BY <1>1, <1>3, <1>4, <1>5

-----------------------------------------------------------------------------
(* The amounts.                                                             *)

Limit(z)   == IF z THEN PriceAt(MIN_TICK) + 1 ELSE PriceAt(MAX_TICK) - 1
Way(c, z)  == IF z THEN Limit(z)..c.price ELSE c.price..Limit(z)
Agrees(c)  == \A s \in DOMAIN c.arrays : c.arrays[s] = TickArray(c.positions, s)

\* No price on the way that the amount a can pay for costs more than out.
NothingBetter(c, z, a, out) == \A q \in Way(c, z) : Cost(c, z, q) <= a => Cost(c, z, q) <= out

\* What was calculated so far is what the price p costs.  Only the last step
\* leaves input that buys nothing, when no price further on can be paid.
CostOk(c, z, a, rest, out, p) ==
  /\ out = Cost(c, z, p)
  /\ rest > 0 \/ p = Limit(z) => a - rest = out
  /\ rest = 0 => NothingBetter(c, z, a, out)

AnswerOk(c, z, a, p, r) ==
  /\ r.status = "Ok" => /\ r.out = Cost(c, z, p)
                        /\ NothingBetter(c, z, a, r.out)
                        /\ r.in = IF p = Limit(z) THEN r.out ELSE a
  /\ r.status = "Illiquid" => Cost(c, z, Limit(z)) < a

EInv ==
  Agrees(core) =>
    /\ pc # "done" => CostOk(core, zero_for_one, amount, remaining, calculated, price)
    /\ pc = "done" => AnswerOk(core, zero_for_one, amount, price, result)

LEMMA WayFacts ==
  /\ Consistent <=> Agrees(core)
  /\ sqrt_price_limit = Limit(zero_for_one)
  /\ Reachable = Way(core, zero_for_one)
  BY DEF Consistent, Agrees, sqrt_price_limit, Limit, Reachable, Way

LEMMA LimitFacts ==
  ASSUME NEW c \in Cores, NEW z \in BOOLEAN
  PROVE  c.price \in Int /\ Limit(z) \in Int /\ Limit(z) \in Way(c, z)
<1>1. /\ c.price \in Int /\ MIN_TICK \in Int /\ MAX_TICK \in Int
      /\ PriceAt(MIN_TICK) + 1 < c.price /\ c.price < PriceAt(MAX_TICK) - 1
  BY CoreFacts
<1>2. PriceAt(MIN_TICK) \in Int /\ PriceAt(MAX_TICK) \in Int
  BY <1>1, PriceFacts
<1>3. QED
  BY <1>1, <1>2 DEF Limit, Way

\* Capacity and the properties, in these terms.
LEMMA ExactProperties == EInv => QuoteExact /\ IlliquidIsTrue
<1>1. \A p : Capacity(p) = Cost(core, zero_for_one, p)
  BY CapacityIsCost
<1>2. EInv => IlliquidIsTrue
  BY <1>1, WayFacts DEF EInv, AnswerOk, IlliquidIsTrue
<1>3. EInv => QuoteExact
  BY <1>1, WayFacts DEF EInv, AnswerOk, NothingBetter, QuoteExact
<1>4. QED
  BY <1>2, <1>3

\* Two prices on the way, the second one at least as far as the first.
Further(z, a, b) == IF z THEN b <= a ELSE a <= b
Distance(z, a, b) == IF z THEN a - b ELSE b - a

LEMMA WayCost ==
  ASSUME NEW c \in Cores, NEW z \in BOOLEAN, NEW a \in Way(c, z), NEW b \in Way(c, z),
         Further(z, a, b)
  PROVE  /\ a \in Int /\ b \in Int /\ Distance(z, a, b) \in Nat
         /\ Cost(c, z, a) \in Nat /\ Cost(c, z, b) \in Nat
         /\ Cost(c, z, a) <= Cost(c, z, b)
<1>1. c.price \in Int /\ Limit(z) \in Int
  BY LimitFacts
<1>3. a \in Int /\ b \in Int /\ OnTheWay(c, z, a)
  BY <1>1 DEF Way, OnTheWay
<1>4. PICK d : d = Distance(z, a, b)
  OBVIOUS
<1>5. d \in Nat /\ Moved(z, a, d) = b
  BY <1>3, <1>4 DEF Further, Distance, Moved
<1>6. QED
  BY <1>3, <1>4, <1>5, CostGrows

\* Prices p and target with the same liquidity L at every point between them.
Flat(c, z, p, target, L) ==
  \A x \in Int : (IF z THEN target <= x /\ x < p ELSE p <= x /\ x < target)
                    => Liquidity(c.positions, TickAt(x)) = L

LEMMA FlatCost ==
  ASSUME NEW c \in Cores, NEW z \in BOOLEAN, NEW p \in Way(c, z), NEW target \in Way(c, z),
         NEW q \in Int, Further(z, p, q), Further(z, q, target),
         NEW L \in Nat, Flat(c, z, p, target, L)
  PROVE  q \in Way(c, z) /\ Cost(c, z, q) = Cost(c, z, p) + L * Distance(z, p, q)
<1>1. c.price \in Int /\ Limit(z) \in Int
  BY LimitFacts
<1>2. p \in Int /\ target \in Int /\ OnTheWay(c, z, p)
  BY <1>1 DEF Way, OnTheWay
<1>3. q \in Way(c, z)
  BY <1>1, <1>2 DEF Way, Further
<1>4. PICK d : d = Distance(z, p, q)
  OBVIOUS
<1>5. d \in Nat /\ Moved(z, p, d) = q /\ d \in 0..d
  BY <1>2, <1>4 DEF Distance, Further, Moved
<1>6. ASSUME NEW k \in 0..(d - 1)
      PROVE  Liquidity(c.positions, TickAt(PointAfter(z, Moved(z, p, k)))) = L
  <2>1. PICK x : x = PointAfter(z, Moved(z, p, k))
    OBVIOUS
  <2>2. x \in Int /\ IF z THEN target <= x /\ x < p ELSE p <= x /\ x < target
    BY <1>2, <1>4, <1>5, <2>1 DEF PointAfter, Moved, Distance, Further
  <2>3. QED
    BY <2>1, <2>2 DEF Flat
<1>7. \A k \in 0..d : Cost(c, z, Moved(z, p, k)) = Cost(c, z, p) + L * k
  BY <1>2, <1>5, <1>6, CostOfRun
<1>8. QED
  BY <1>3, <1>4, <1>5, <1>7

(* Steps that do not trade.                                                 *)

LEMMA PassExact ==
  ASSUME EInv, pc # "done", pc' # "done", UNCHANGED <<core, zero_for_one, amount>>, UNCHANGED state
  PROVE  EInv'
  BY DEF EInv, state

LEMMA ErrorExact ==
  ASSUME pc' = "done", result'.status = "MathError"
  PROVE  EInv'
  BY DEF EInv, AnswerOk

LEMMA InitExact == Init => EInv
<1>1. SUFFICES ASSUME Init PROVE EInv
  OBVIOUS
<1>2. core \in Cores /\ zero_for_one \in BOOLEAN /\ amount \in Nat \ {0} /\ pc = "init"
        /\ remaining = amount /\ calculated = 0 /\ price = core.price
  BY <1>1, SwapStepsAssumption DEF Init
<1>3. Cost(core, zero_for_one, core.price) = 0
  BY <1>2, CostOfNothing
<1>4. QED
  BY <1>2, <1>3 DEF EInv, CostOk

LEMMA QuotedExact == IInv /\ EInv /\ Quoted => EInv'
<1>1. SUFFICES ASSUME IInv, EInv, Quoted, Agrees(core)
               PROVE  AnswerOk(core, zero_for_one, amount, price, result')
  BY DEF Quoted, state, EInv
<1>2. PICK c, z, p, limit : c = core /\ z = zero_for_one /\ p = price /\ limit = Limit(z)
  OBVIOUS
<1>3. /\ c \in Cores /\ z \in BOOLEAN /\ p \in Way(c, z) /\ amount \in Nat /\ remaining \in 0..amount
      /\ calculated \in Nat
  BY <1>1, <1>2, WayFacts, SwapStepsAssumption DEF IInv, TypeOK, RequestInv
<1>4. pc = "loop" /\ (remaining = 0 \/ p = limit)
  BY <1>1, <1>2, WayFacts DEF Quoted, LoopEnds
<1>5. CostOk(c, z, amount, remaining, calculated, p)
  BY <1>1, <1>2, <1>4 DEF EInv
<1>6. result'.status = "Ok" /\ result'.in = amount - remaining /\ result'.out = calculated
  BY <1>1 DEF Quoted, Answer
<1>7. NothingBetter(c, z, amount, calculated)
  <2>1. CASE remaining = 0
    BY <1>5, <2>1 DEF CostOk
  <2>2. CASE p = limit
    <3>1. SUFFICES ASSUME NEW q \in Way(c, z) PROVE Cost(c, z, q) <= Cost(c, z, p)
      BY <1>5 DEF NothingBetter, CostOk
    <3>2. Further(z, q, p)
      <4>1. c.price \in Int /\ limit \in Int
        BY <1>2, <1>3, LimitFacts
      <4>2. QED
        BY <1>2, <1>3, <2>2, <4>1 DEF Way, Further
    <3>3. QED
      BY <1>3, <3>2, WayCost
  <2>3. QED
    BY <1>4, <2>1, <2>2
<1>8. result'.in = IF p = limit THEN result'.out ELSE amount
  BY <1>2, <1>3, <1>4, <1>5, <1>6 DEF CostOk
<1>9. QED
  BY <1>2, <1>5, <1>6, <1>7, <1>8 DEF AnswerOk, CostOk

\* No initialized tick is left in the direction.
NoneAhead(c, z, t) == \A u \in InitializedTicks(c.positions) : IF z THEN u > t ELSE u <= t

LEMMA IlliquidExact ==
  ASSUME IInv, EInv, pc # "done", remaining > 0, pc' = "done", result'.status = "Illiquid",
         UNCHANGED <<core, zero_for_one, amount>>, UNCHANGED state,
         price \in PriceAt(tick)..PriceAt(tick + 1),
         Agrees(core) => NoneAhead(core, zero_for_one, tick)
  PROVE  EInv'
<1>1. SUFFICES ASSUME Agrees(core)
               PROVE  Cost(core, zero_for_one, Limit(zero_for_one)) < amount
  BY DEF EInv, AnswerOk
<1>2. PICK c, z, p, limit : c = core /\ z = zero_for_one /\ p = price /\ limit = Limit(z)
  OBVIOUS
<1>3. /\ c \in Cores /\ z \in BOOLEAN /\ p \in Way(c, z) /\ tick \in Int
      /\ amount \in Nat /\ remaining \in 0..amount
  BY <1>2, WayFacts, SwapStepsAssumption DEF IInv, TypeOK, RequestInv
<1>4. amount - remaining = Cost(c, z, p)
  BY <1>1, <1>2 DEF EInv, CostOk
<1>5. c.price \in Int /\ limit \in Int /\ limit \in Way(c, z)
  BY <1>2, <1>3, LimitFacts
<1>6. p \in Int /\ Further(z, p, limit)
  BY <1>2, <1>3, <1>5 DEF Way, Further
<1>7. PriceAt(tick) <= p /\ p <= PriceAt(tick + 1)
  BY <1>2
<1>8. Flat(c, z, p, limit, 0)
  <2>1. SUFFICES ASSUME NEW x \in Int, IF z THEN limit <= x /\ x < p ELSE p <= x /\ x < limit
                 PROVE  Liquidity(c.positions, TickAt(x)) = 0
    BY DEF Flat
  <2>2. PICK u : u = TickAt(x)
    OBVIOUS
  <2>3. /\ u \in Int
        /\ \A t \in Int : (PriceAt(t) <= x => t <= u) /\ (x < PriceAt(t) => u < t)
    BY <2>2, TickFacts
  <2>4. /\ tick + 1 \in Int /\ PriceAt(tick) \in Int
    BY <1>3, PriceFacts
  <2>5. PriceAt(tick + 1) \in Int
    BY <2>4, PriceFacts
  <2>6. IF z THEN u <= tick ELSE tick <= u
    <3>1. z => x < PriceAt(tick + 1)
      BY <1>6, <1>7, <2>1, <2>5
    <3>2. ~z => PriceAt(tick) <= x
      BY <1>6, <1>7, <2>1, <2>4
    <3>3. z => u < tick + 1
      BY <2>3, <2>4, <3>1
    <3>4. ~z => tick <= u
      BY <1>3, <2>3, <3>2
    <3>5. QED
      BY <1>3, <2>3, <3>3, <3>4
  <2>7. \A q \in c.positions : ~(q.lower <= u /\ u < q.upper)
    <3>1. SUFFICES ASSUME NEW q \in c.positions PROVE ~(q.lower <= u /\ u < q.upper)
      OBVIOUS
    <3>2. q.lower \in InitializedTicks(c.positions) /\ q.upper \in InitializedTicks(c.positions)
      BY DEF InitializedTicks
    <3>3. q.lower \in Int /\ q.upper \in Int
      BY <1>3, <3>2, VisibleFacts
    <3>4. IF z THEN q.lower > tick ELSE q.upper <= tick
      BY <1>1, <1>2, <3>2 DEF NoneAhead
    <3>5. QED
      BY <1>3, <2>3, <2>6, <3>3, <3>4
  <2>8. QED
    BY <1>3, <2>2, <2>3, <2>7, LiquidityNat
<1>9. Distance(z, p, limit) \in Nat /\ Cost(c, z, p) \in Nat
  BY <1>3, <1>5, <1>6, WayCost
<1>10. Cost(c, z, limit) = Cost(c, z, p) + 0 * Distance(z, p, limit)
  <2>1. Further(z, limit, limit)
    BY <1>5 DEF Further
  <2>2. QED
    BY <1>3, <1>5, <1>6, <1>8, <2>1, FlatCost
<1>11. QED
  BY <1>2, <1>3, <1>4, <1>9, <1>10

LEMMA NavExact == IInv /\ EInv /\ init_tick_nav_state => EInv'
<1>1. SUFFICES ASSUME IInv, EInv, init_tick_nav_state PROVE EInv'
  OBVIOUS
<1>2. PICK first : first = first_initialized_tick_array(core, zero_for_one)
  OBVIOUS
<1>3. pc = "init" /\ UNCHANGED <<core, zero_for_one, amount>> /\ UNCHANGED state
  BY <1>1 DEF init_tick_nav_state
<1>4. CASE first[2] \notin {None, Missing}
  <2>1. pc' = "loop"
    BY <1>1, <1>2, <1>4 DEF init_tick_nav_state
  <2>2. QED
    BY <1>1, <1>3, <2>1, PassExact
<1>5. CASE first[2] \in {None, Missing}
  <2>1. pc' = "done" /\ result' = Answer(IF first[2] = None THEN "Illiquid" ELSE "MathError", 0, 0)
    BY <1>1, <1>2, <1>5 DEF init_tick_nav_state, Stop
  <2>2. CASE first[2] # None
    <3>1. result'.status = "MathError"
      BY <2>1, <2>2 DEF Answer
    <3>2. QED
      BY <2>1, <3>1, ErrorExact
  <2>3. CASE first[2] = None
    <3>1. result'.status = "Illiquid"
      BY <2>1, <2>3 DEF Answer
    <3>2. PICK c, z, current, next :
            /\ c = core /\ z = zero_for_one /\ current = ArrayStart(c.tick)
            /\ next = next_initialized_tick_array_start_index(c, current, z)
      OBVIOUS
    <3>3. /\ c \in Cores /\ z \in BOOLEAN /\ price = c.price /\ tick = c.tick
          /\ remaining \in Nat /\ c.tick \in Int
      BY <1>1, <1>3, <3>2, CoreFacts, SwapStepsAssumption
         DEF IInv, RequestInv, StartInv, TypeOK
    <3>4. current \in Int
      BY <3>2, <3>3, ArrayFacts
    <3>5. first = IF NoBitmap(c) THEN <<FALSE, Missing>>
                  ELSE IF current \in Visible(c) THEN <<TRUE, current>> ELSE <<FALSE, next>>
      BY <1>2, <3>2 DEF first_initialized_tick_array, NoBitmap
    <3>6. None # Missing /\ None \notin Int
      BY SwapStepsAssumption
    <3>7. current \notin Visible(c) /\ next = None
      BY <2>3, <3>4, <3>5, <3>6
    <3>8. c.ext /\ \A s \in Visible(c) : ~Beyond(s, current, z)
      BY <3>2, <3>3, <3>4, <3>7, NextArrayFacts
    <3>9. NoneAhead(c, z, c.tick)
      <4>1. SUFFICES ASSUME NEW u \in InitializedTicks(c.positions)
                     PROVE  IF z THEN u > c.tick ELSE u <= c.tick
        BY DEF NoneAhead
      <4>2. PICK s : s = ArrayStart(u)
        OBVIOUS
      <4>3. u \in Int /\ s \in InitializedArrays(c.positions)
        BY <3>3, <4>2, VisibleFacts
      <4>4. s \in Visible(c)
        BY <3>8, <4>3 DEF Visible
      <4>5. s # current /\ ~Beyond(s, current, z)
        BY <3>7, <3>8, <4>4
      <4>6. /\ ArrayTicks \in Nat \ {0} /\ s \in Int /\ s <= u /\ u < s + ArrayTicks
            /\ s < current => s + ArrayTicks <= current
        BY <3>2, <3>3, <4>2, <4>3, ArrayFacts
      <4>7. /\ current <= c.tick /\ c.tick < current + ArrayTicks
            /\ current < s => current + ArrayTicks <= s
        BY <3>2, <3>3, <4>2, <4>3, ArrayFacts
      <4>8. QED
        BY <3>3, <3>4, <4>3, <4>5, <4>6, <4>7 DEF Beyond
    <3>10. price \in PriceAt(tick)..PriceAt(tick + 1)
      BY <3>3, CoreFacts
    <3>11. remaining > 0
      BY <1>1, <1>3 DEF IInv, StartInv
    <3>12. QED
      BY <1>1, <1>3, <2>1, <3>1, <3>2, <3>3, <3>9, <3>10, <3>11, IlliquidExact
  <2>4. QED
    BY <2>2, <2>3
<1>6. QED
  BY <1>4, <1>5

\* The walk ends at the end of the pool: with the extension loaded, no array
\* and no tick lies ahead.
LEMMA FindNone ==
  ASSUME IInv, pc = "find", Agrees(core), start_index \in DOMAIN core.arrays,
         next_initialized_tick(core, start_index, tick, zero_for_one) = None,
         ~is_match => first_initialized_tick(core, start_index, zero_for_one) = None,
         next_initialized_tick_array_start_index(core, start_index, zero_for_one) = None
  PROVE  NoneAhead(core, zero_for_one, tick)
<1>1. PICK s, z : s = start_index /\ z = zero_for_one
  OBVIOUS
<1>2. core \in Cores /\ z \in BOOLEAN /\ tick \in Int /\ s \in Int /\ ArrayTicks \in Nat \ {0}
  BY <1>1, FindFacts
<1>3. core.ext /\ \A v \in Visible(core) : ~Beyond(v, s, z)
  BY <1>1, <1>2, NextArrayFacts
<1>4. SUFFICES ASSUME NEW u \in InitializedTicks(core.positions),
                      IF z THEN u <= tick ELSE u > tick
               PROVE  FALSE
  <2>1. \A u \in InitializedTicks(core.positions) : u \in Int
    BY <1>2, VisibleFacts
  <2>2. QED
    BY <1>1, <1>2, <2>1 DEF NoneAhead
<1>5. u \in Int /\ IF z THEN u < s ELSE u >= s + ArrayTicks
  BY <1>1, <1>4, PastStart, WayFacts
<1>6. PICK a : a = ArrayStart(u)
  OBVIOUS
<1>7. a \in InitializedArrays(core.positions)
  BY <1>2, <1>6, VisibleFacts
<1>8. ~Beyond(a, s, z)
  BY <1>3, <1>7 DEF Visible
<1>9. a \in Int /\ a <= u /\ u < a + ArrayTicks
  BY <1>5, <1>6, ArrayFacts
<1>10. QED
  BY <1>2, <1>5, <1>8, <1>9 DEF Beyond

LEMMA FindExact == IInv /\ EInv /\ find_next_initialized_tick_with_nav => EInv'
<1>1. SUFFICES ASSUME IInv, EInv, find_next_initialized_tick_with_nav PROVE EInv'
  OBVIOUS
<1>2. pc = "find" /\ UNCHANGED <<core, zero_for_one, amount>> /\ UNCHANGED state
  BY <1>1 DEF find_next_initialized_tick_with_nav
<1>3. PICK here, first, next :
        /\ here  = next_initialized_tick(core, start_index, tick, zero_for_one)
        /\ first = first_initialized_tick(core, start_index, zero_for_one)
        /\ next  = next_initialized_tick_array_start_index(core, start_index, zero_for_one)
  OBVIOUS
<1>4. \/ pc' \in {"find", "step"}
      \/ pc' = "done" /\ result' = Answer("MathError", 0, 0)
      \/ /\ pc' = "done" /\ result' = Answer("Illiquid", 0, 0)
         /\ start_index \in DOMAIN core.arrays /\ here = None /\ next = None
         /\ ~is_match => first = None
  BY <1>1, <1>2, <1>3 DEF find_next_initialized_tick_with_nav, Stop, Found, Loaded
<1>5. CASE pc' \in {"find", "step"}
  BY <1>1, <1>2, <1>5, PassExact
<1>6. CASE pc' = "done" /\ result' = Answer("MathError", 0, 0)
  <2>1. result'.status = "MathError"
    BY <1>6 DEF Answer
  <2>2. QED
    BY <1>6, <2>1, ErrorExact
<1>7. CASE /\ pc' = "done" /\ result' = Answer("Illiquid", 0, 0)
           /\ start_index \in DOMAIN core.arrays /\ here = None /\ next = None
           /\ ~is_match => first = None
  <2>1. result'.status = "Illiquid"
    BY <1>7 DEF Answer
  <2>2. Agrees(core) => NoneAhead(core, zero_for_one, tick)
    BY <1>1, <1>2, <1>3, <1>7, FindNone
  <2>3. price \in PriceAt(tick)..PriceAt(tick + 1) /\ remaining > 0
    BY <1>1, <1>2 DEF IInv, PlaceInv, TargetInv, Running
  <2>4. QED
    BY <1>1, <1>2, <1>7, <2>1, <2>2, <2>3, IlliquidExact
<1>8. QED
  BY <1>4, <1>5, <1>6, <1>7

(* A step that trades.                                                      *)

\* A step comes to its target and takes what it gives, or it takes all that is
\* left and stops where the next point would cost more.
LEMMA StepAmounts ==
  ASSUME zero_for_one \in BOOLEAN, price \in Int, remaining \in Nat, liquidity \in Nat,
         NEW target \in Int, Further(zero_for_one, price, target),
         NEW step, step = compute_swap_step(target)
  PROVE  /\ step.price \in Int /\ step.out \in Nat /\ step.in \in 0..remaining
         /\ Further(zero_for_one, price, step.price) /\ Further(zero_for_one, step.price, target)
         /\ step.out = liquidity * Distance(zero_for_one, price, step.price)
         /\ \/ step.price = target /\ step.in = step.out
            \/ /\ step.price # target /\ step.in = remaining
               /\ step.out <= remaining /\ remaining < step.out + liquidity
<1>1. PICK distance : distance = IF zero_for_one THEN price - target ELSE target - price
  OBVIOUS
<1>2. distance \in Nat
  BY <1>1 DEF Further
<1>3. PICK moved : moved = IF remaining >= liquidity * distance THEN distance
                                                                ELSE remaining \div liquidity
  OBVIOUS
<1>4. step = [price |-> IF zero_for_one THEN price - moved ELSE price + moved,
              out |-> liquidity * moved,
              in |-> IF moved = distance THEN liquidity * moved ELSE remaining]
  BY <1>1, <1>3 DEF compute_swap_step
<1>5. /\ step.price = IF zero_for_one THEN price - moved ELSE price + moved
      /\ step.out = liquidity * moved
      /\ step.in = IF moved = distance THEN liquidity * moved ELSE remaining
  BY <1>4
<1>6. /\ step.price \in Int /\ step.out \in Nat /\ step.in \in 0..remaining
      /\ Further(zero_for_one, price, step.price) /\ Further(zero_for_one, step.price, target)
  <2>1. IF zero_for_one THEN target <= price ELSE price <= target
    BY DEF Further
  <2>2. QED
    BY <2>1, StepFacts DEF Further
<1>7. CASE remaining >= liquidity * distance
  <2>1. moved = distance
    BY <1>3, <1>7
  <2>2. step.price = target /\ step.in = step.out
    BY <1>1, <1>5, <2>1
  <2>3. Distance(zero_for_one, price, step.price) = moved
    BY <1>1, <2>1, <2>2 DEF Distance
  <2>4. QED
    BY <1>5, <1>6, <2>2, <2>3
<1>8. CASE ~(remaining >= liquidity * distance)
  <2>1. liquidity # 0
    BY <1>2, <1>8
  <2>2. moved \in Int /\ moved * liquidity <= remaining /\ remaining < moved * liquidity + liquidity
    BY <1>3, <1>8, <2>1, DivFacts
  <2>3. moved * liquidity = liquidity * moved /\ liquidity * moved \in Int
    BY <2>2
  <2>4. moved # distance
    BY <1>8, <2>2, <2>3
  <2>5. step.price # target /\ step.in = remaining
    BY <1>1, <1>5, <2>2, <2>4
  <2>6. Distance(zero_for_one, price, step.price) = moved
    BY <1>5, <2>2 DEF Distance
  <2>7. QED
    BY <1>5, <1>6, <2>2, <2>3, <2>5, <2>6
<1>9. QED
  BY <1>7, <1>8

\* Between the price and the target of a step no initialized tick lies, so the
\* liquidity is the same at every point.
LEMMA StepIsFlat ==
  ASSUME IInv, pc = "step", Agrees(core), NEW target, target = target_price
  PROVE  Flat(core, zero_for_one, price, target, liquidity)
<1>1. PICK c, z, t, P : c = core /\ z = zero_for_one /\ t = next_tick /\ P = PriceAt(next_tick)
  OBVIOUS
<1>2. /\ c \in Cores /\ z \in BOOLEAN /\ start_index \in DOMAIN c.arrays /\ t \in DOMAIN c.arrays[start_index]
      /\ IF z THEN t <= tick ELSE t > tick
      /\ remaining > 0
  BY <1>1 DEF IInv, RequestInv, TargetInv, Loaded
<1>3. t \in Int /\ tick \in Int
  BY <1>1, <1>2, LoadedFacts, SwapStepsAssumption DEF IInv, TypeOK
<1>4. P \in Int /\ target \in Int /\ IF z THEN P <= target ELSE target <= P
  BY <1>1, <1>2, TargetFacts
<1>5. price \in Int /\ PriceAt(tick) <= price /\ price <= PriceAt(tick + 1)
  <2>1. price \in PriceAt(tick)..PriceAt(tick + 1)
    BY DEF IInv, PlaceInv, Running
  <2>2. price \in Int
    BY ReachableTick DEF IInv, TypeOK
  <2>3. QED
    BY <2>1, <2>2
<1>6. Consistent
  BY WayFacts
<1>7. /\ liquidity = Liquidity(c.positions, tick)
      /\ \A u \in InitializedTicks(c.positions) :
           IF z THEN u <= tick => u <= t ELSE u > tick => u >= t
  BY <1>1, <1>2, <1>6 DEF IInv, GapInv, Running
<1>8. \A u \in InitializedTicks(c.positions) : u \in Int
  BY <1>2, VisibleFacts
<1>9. SUFFICES ASSUME NEW x \in Int, IF z THEN target <= x /\ x < price ELSE price <= x /\ x < target
               PROVE  Liquidity(c.positions, TickAt(x)) = liquidity
  BY <1>1 DEF Flat
<1>10. PICK v : v = TickAt(x)
  OBVIOUS
<1>11. v \in Int /\ \A y \in Int : (PriceAt(y) <= x => y <= v) /\ (x < PriceAt(y) => v < y)
  BY <1>10, TickFacts
<1>12. tick + 1 \in Int /\ PriceAt(tick) \in Int
  BY <1>3, PriceFacts
<1>13. PriceAt(tick + 1) \in Int
  BY <1>12, PriceFacts
<1>14. CASE z
  <2>1. PriceAt(t) <= x /\ x < PriceAt(tick + 1)
    BY <1>1, <1>4, <1>5, <1>9, <1>13, <1>14
  <2>2. t <= v /\ v < tick + 1
    BY <1>3, <1>11, <1>12, <2>1
  <2>3. v <= tick /\ \A u \in InitializedTicks(c.positions) : ~(v < u /\ u <= tick)
    BY <1>3, <1>7, <1>8, <1>11, <1>14, <2>2
  <2>4. QED
    BY <1>2, <1>3, <1>7, <1>10, <1>11, <2>3, LiquidityConstant
<1>15. CASE ~z
  <2>1. PriceAt(tick) <= x /\ x < PriceAt(t)
    BY <1>1, <1>4, <1>5, <1>9, <1>12, <1>15
  <2>2. tick <= v /\ v < t
    BY <1>3, <1>11, <2>1
  <2>3. \A u \in InitializedTicks(c.positions) : ~(tick < u /\ u <= v)
    BY <1>3, <1>7, <1>8, <1>11, <1>15, <2>2
  <2>4. QED
    BY <1>2, <1>3, <1>7, <1>10, <1>11, <2>2, <2>3, LiquidityConstant
<1>16. QED
  BY <1>2, <1>14, <1>15

\* A step that stops short of its target leaves nothing better behind: the next
\* point cannot be paid.
LEMMA NextPointTooDear ==
  ASSUME NEW c \in Cores, NEW z \in BOOLEAN, NEW target \in Way(c, z), NEW q \in Way(c, z),
         Further(z, q, target), q # target, NEW L \in Nat, Flat(c, z, q, target, L),
         NEW a \in Nat, a < Cost(c, z, q) + L
  PROVE  NothingBetter(c, z, a, Cost(c, z, q))
<1>1. c.price \in Int /\ Limit(z) \in Int
  BY LimitFacts
<1>2. q \in Int /\ target \in Int
  BY <1>1 DEF Way
<1>3. PICK n : n = Moved(z, q, 1)
  OBVIOUS
<1>4. n \in Int /\ Further(z, q, n) /\ Further(z, n, target) /\ Distance(z, q, n) = 1
  BY <1>2, <1>3 DEF Moved, Further, Distance
<1>5. n \in Way(c, z) /\ Cost(c, z, n) = Cost(c, z, q) + L * Distance(z, q, n)
  BY <1>4, FlatCost
<1>6. Cost(c, z, q) \in Nat /\ Cost(c, z, n) = Cost(c, z, q) + L
  <2>1. Cost(c, z, q) \in Nat
    BY <1>4, <1>5, WayCost
  <2>2. QED
    BY <1>4, <1>5, <2>1
<1>7. SUFFICES ASSUME NEW r \in Way(c, z), Cost(c, z, r) <= a PROVE Cost(c, z, r) <= Cost(c, z, q)
  BY DEF NothingBetter
<1>8. r \in Int
  BY <1>1 DEF Way
<1>9. CASE Further(z, r, q)
  BY <1>9, WayCost
<1>10. CASE ~Further(z, r, q)
  <2>1. Further(z, n, r)
    BY <1>2, <1>3, <1>8, <1>10 DEF Further, Moved
  <2>2. Cost(c, z, n) <= Cost(c, z, r) /\ Cost(c, z, r) \in Nat
    BY <1>5, <2>1, WayCost
  <2>3. QED
    BY <1>6, <1>7, <2>2
<1>11. QED
  BY <1>9, <1>10

\* What a step gives is what its way costs.
LEMMA StepCost ==
  ASSUME IInv, EInv, pc = "step", Agrees(core), NEW target, target = target_price,
         NEW step, step = compute_swap_step(target_price),
         NEW c, NEW z, NEW q, NEW L,
         c = core, z = zero_for_one, q = step.price, L = liquidity
  PROVE  /\ c \in Cores /\ z \in BOOLEAN /\ amount \in Nat /\ remaining \in Nat /\ L \in Nat
         /\ Limit(z) \in Int /\ target \in Int /\ q \in Int
         /\ step.out \in Nat /\ step.in \in 0..remaining
         /\ target \in Way(c, z) /\ Further(z, target, Limit(z))
         /\ q \in Way(c, z) /\ Further(z, q, target) /\ Flat(c, z, q, target, L)
         /\ Cost(c, z, q) = calculated + step.out /\ amount - remaining = calculated
         /\ calculated \in Nat
         /\ \/ q = target /\ step.in = step.out
            \/ /\ q # target /\ step.in = remaining
               /\ step.out <= remaining /\ remaining < step.out + L
<1>1. PICK p, limit : p = price /\ limit = Limit(z)
  OBVIOUS
<1>2. /\ c \in Cores /\ z \in BOOLEAN /\ amount \in Nat /\ remaining \in Nat /\ remaining > 0
      /\ L \in Nat /\ calculated \in Nat
  BY SwapStepsAssumption DEF IInv, TypeOK, RequestInv, TargetInv
<1>3. p \in Way(c, z) /\ c.price \in Int /\ limit \in Int
  BY <1>1, <1>2, WayFacts, LimitFacts DEF IInv, TypeOK
<1>4. p \in Int /\ target \in Int /\ Further(z, p, target) /\ Further(z, target, limit)
  <2>1. p \in Int
    BY <1>2, <1>3 DEF Way
  <2>2. target \in Int /\ IF z THEN limit <= target /\ target <= p ELSE target <= limit /\ p <= target
    BY <1>1, TargetFacts, WayFacts
  <2>3. QED
    BY <2>1, <2>2 DEF Further
<1>5. target \in Way(c, z)
  BY <1>1, <1>2, <1>3, <1>4 DEF Way, Further
<1>6. /\ q \in Int /\ step.out \in Nat /\ step.in \in 0..remaining
      /\ Further(z, p, q) /\ Further(z, q, target)
      /\ step.out = L * Distance(z, p, q)
      /\ \/ q = target /\ step.in = step.out
         \/ /\ q # target /\ step.in = remaining
            /\ step.out <= remaining /\ remaining < step.out + L
  BY <1>1, <1>2, <1>4, StepAmounts
<1>7. calculated = Cost(c, z, p) /\ amount - remaining = calculated
  BY <1>1, <1>2 DEF EInv, CostOk
<1>8. Flat(c, z, p, target, L)
  BY <1>1, StepIsFlat
<1>9. q \in Way(c, z) /\ Cost(c, z, q) = calculated + step.out
  <2>1. Cost(c, z, q) = Cost(c, z, p) + L * Distance(z, p, q) /\ q \in Way(c, z)
    BY <1>2, <1>3, <1>5, <1>6, <1>8, FlatCost
  <2>2. QED
    BY <1>6, <1>7, <2>1
<1>10. Flat(c, z, q, target, L)
  BY <1>2, <1>4, <1>6, <1>8 DEF Flat, Further
<1>11. QED
  BY <1>1, <1>2, <1>3, <1>4, <1>5, <1>6, <1>7, <1>9, <1>10

LEMMA SwapExact == IInv /\ EInv /\ SwapStep => EInv'
<1>1. SUFFICES ASSUME IInv, EInv, SwapStep PROVE EInv'
  OBVIOUS
<1>2. PICK target, step : target = target_price /\ step = compute_swap_step(target_price)
  OBVIOUS
<1>3. /\ pc = "step" /\ price' = step.price /\ remaining' = remaining - step.in
      /\ calculated' = calculated + step.out
      /\ UNCHANGED <<core, zero_for_one, amount>>
      /\ \/ pc' = "loop"
         \/ pc' = "done" /\ result' = Answer("MathError", 0, 0)
  BY <1>1, <1>2 DEF SwapStep, Stop
<1>4. CASE pc' = "done" /\ result' = Answer("MathError", 0, 0)
  <2>1. result'.status = "MathError"
    BY <1>4 DEF Answer
  <2>2. QED
    BY <1>4, <2>1, ErrorExact
<1>5. CASE pc' = "loop"
  <2>1. SUFFICES ASSUME Agrees(core)
                 PROVE  CostOk(core, zero_for_one, amount, remaining', calculated', price')
    BY <1>3, <1>5 DEF EInv
  <2>2. PICK c, z, q, L, limit :
          /\ c = core /\ z = zero_for_one /\ q = step.price /\ L = liquidity /\ limit = Limit(z)
    OBVIOUS
  <2>3. /\ c \in Cores /\ z \in BOOLEAN /\ amount \in Nat /\ remaining \in Nat /\ L \in Nat
        /\ limit \in Int /\ target \in Int /\ q \in Int
        /\ step.out \in Nat /\ step.in \in 0..remaining
        /\ target \in Way(c, z) /\ Further(z, target, limit)
        /\ q \in Way(c, z) /\ Further(z, q, target) /\ Flat(c, z, q, target, L)
        /\ Cost(c, z, q) = calculated + step.out /\ amount - remaining = calculated
        /\ calculated \in Nat
        /\ \/ q = target /\ step.in = step.out
           \/ /\ q # target /\ step.in = remaining
              /\ step.out <= remaining /\ remaining < step.out + L
    BY <1>1, <1>2, <1>3, <2>1, <2>2, StepCost
  <2>4. CASE q = target /\ step.in = step.out
    <3>1. amount - (remaining - step.in) = calculated + step.out
      BY <2>3, <2>4
    <3>2. remaining - step.in = 0 => NothingBetter(c, z, amount, calculated + step.out)
      BY <2>3, <3>1 DEF NothingBetter
    <3>3. QED
      BY <1>3, <2>2, <2>3, <3>1, <3>2 DEF CostOk
  <2>5. CASE /\ q # target /\ step.in = remaining
             /\ step.out <= remaining /\ remaining < step.out + L
    <3>1. amount < Cost(c, z, q) + L
      BY <2>3, <2>5
    <3>2. NothingBetter(c, z, amount, Cost(c, z, q))
      BY <2>3, <2>5, <3>1, NextPointTooDear
    <3>3. q # limit
      BY <2>3, <2>5 DEF Further
    <3>4. remaining - step.in = 0 /\ ~(remaining - step.in > 0)
      BY <2>3, <2>5
    <3>5. QED
      BY <1>3, <2>2, <2>3, <3>2, <3>3, <3>4 DEF CostOk
  <2>6. QED
    BY <2>3, <2>4, <2>5
<1>6. QED
  BY <1>3, <1>4, <1>5

\* Every action of a quote keeps the amounts exact.
THEOREM NextExact == IInv /\ EInv /\ [Next]_vars => EInv'
<1>1. SUFFICES ASSUME IInv, EInv, [Next]_vars PROVE EInv'
  OBVIOUS
<1>2. CASE init_tick_nav_state
  BY <1>1, <1>2, NavExact
<1>3. CASE EnterLoop
  <2>1. pc = "loop" /\ pc' = "find" /\ UNCHANGED <<core, zero_for_one, amount>> /\ UNCHANGED state
    BY <1>3 DEF EnterLoop
  <2>2. QED
    BY <1>1, <2>1, PassExact
<1>4. CASE Quoted
  BY <1>1, <1>4, QuotedExact
<1>5. CASE find_next_initialized_tick_with_nav
  BY <1>1, <1>5, FindExact
<1>6. CASE SwapStep
  BY <1>1, <1>6, SwapExact
<1>7. CASE Done \/ UNCHANGED vars
  <2>1. UNCHANGED <<core, zero_for_one, amount, pc, remaining, calculated, price, result>>
    BY <1>7 DEF Done, vars, state
  <2>2. QED
    BY <1>1, <2>1 DEF EInv
<1>8. QED
  BY <1>1, <1>2, <1>3, <1>4, <1>5, <1>6, <1>7 DEF Next

\* The amounts are exact throughout every quote.
THEOREM Exact == Spec => []EInv
<1>1. Init => EInv
  BY InitExact
<1>2. IInv /\ EInv /\ [Next]_vars => EInv'
  BY NextExact
<1>3. QED
  BY <1>1, <1>2, Inductive, PTL DEF Spec

-----------------------------------------------------------------------------
(* The accounts that the instruction lists.                                 *)

\* What directional_tick_arrays lists of the arrays ahead.
Listed(c, z) ==
  {s \in Ahead(c, z) :
     Cardinality({u \in Ahead(c, z) : Beyond(s, u, z)}) < max_one_side_tick_arrays}

LEMMA DirectionalFacts ==
  ASSUME NEW c, NEW z
  PROVE  Directional(c, z) = IF NoBitmap(c) THEN {} ELSE Listed(c, z)
  BY DEF Directional, Listed, Ahead, NoBitmap

\* An array with none of the direction nearer than itself is always listed.
LEMMA NearestIsListed ==
  ASSUME NEW c, NEW z, NEW s \in Ahead(c, z), \A u \in Ahead(c, z) : ~Beyond(s, u, z)
  PROVE  s \in Listed(c, z)
<1>1. {u \in Ahead(c, z) : Beyond(s, u, z)} = {}
  OBVIOUS
<1>2. Cardinality({u \in Ahead(c, z) : Beyond(s, u, z)}) = 0
  BY <1>1, FS_EmptySet
<1>3. 0 < max_one_side_tick_arrays
  BY SwapStepsAssumption
<1>4. QED
  BY <1>2, <1>3 DEF Listed

LEMMA AheadNearest ==
  ASSUME NEW c \in Cores, NEW z \in BOOLEAN, Ahead(c, z) # {}
  PROVE  /\ Nearest(Ahead(c, z), z) \in Listed(c, z)
         /\ Nearest(Listed(c, z), z) = Nearest(Ahead(c, z), z)
<1>1. PICK lo, hi : lo = ArrayStart(MIN_TICK) /\ hi = ArrayStart(MAX_TICK)
  OBVIOUS
<1>2. PICK S, L : S = Ahead(c, z) /\ L = Listed(c, z)
  OBVIOUS
<1>3. lo \in Int /\ hi \in Int /\ S \in SUBSET (lo..hi) /\ L \subseteq S
  BY <1>1, <1>2, VisibleFacts DEF Ahead, Listed
<1>4. PICK n : n = Nearest(S, z)
  OBVIOUS
<1>5. n \in S /\ \A s \in S : IF z THEN s <= n ELSE n <= s
  BY <1>2, <1>3, <1>4, NearestFacts
<1>6. \A s \in S : ~Beyond(n, s, z)
  BY <1>3, <1>5 DEF Beyond
<1>7. n \in L
  BY <1>2, <1>5, <1>6, NearestIsListed
<1>8. PICK m : m = Nearest(L, z)
  OBVIOUS
<1>9. L \in SUBSET (lo..hi) /\ L # {}
  BY <1>3, <1>7
<1>10. m \in L /\ \A s \in L : IF z THEN s <= m ELSE m <= s
  BY <1>3, <1>8, <1>9, NearestFacts
<1>11. m = n
  BY <1>3, <1>5, <1>7, <1>9, <1>10
<1>12. QED
  BY <1>2, <1>4, <1>7, <1>8, <1>11

\* What an update loads of a direction is what the instruction lists of it.
LEMMA LoadedIsListed ==
  ASSUME NEW c \in Cores, NEW z \in BOOLEAN, ~NoBitmap(c),
         NEW s \in Ahead(c, z), s \in DOMAIN c.arrays
  PROVE  s \in Listed(c, z)
<1>1. Listed(c, z) # {}
  BY AheadNearest
<1>2. /\ Directional(c, TRUE) = Listed(c, TRUE)
      /\ Directional(c, FALSE) = Listed(c, FALSE)
  BY DirectionalFacts
<1>3. get_all_tick_array_addresses(c) = Listed(c, TRUE) \cup Listed(c, FALSE)
  BY <1>1, <1>2 DEF get_all_tick_array_addresses
<1>4. PICK o \in BOOLEAN : o # z
  OBVIOUS
<1>5. s \in Listed(c, z) \cup Listed(c, o)
  BY <1>3, <1>4, CoresAssumption
<1>6. CASE s \in Listed(c, o)
  <2>1. PICK start : start = ArrayStart(c.tick)
    OBVIOUS
  <2>2. start \in Int /\ Visible(c) \subseteq Int
    BY <2>1, CoreFacts, ArrayFacts, VisibleFacts
  <2>3. /\ s = start \/ Beyond(s, start, z)
        /\ s = start \/ Beyond(s, start, o)
        /\ s \in Visible(c)
    BY <1>6, <2>1 DEF Listed, Ahead
  <2>4. s = start
    BY <1>4, <2>2, <2>3 DEF Beyond
  <2>5. \A u \in Ahead(c, z) : u \in Int /\ (u = start \/ Beyond(u, start, z))
    BY <2>1, <2>2 DEF Ahead
  <2>6. \A u \in Ahead(c, z) : ~Beyond(s, u, z)
    BY <2>2, <2>4, <2>5 DEF Beyond
  <2>7. QED
    BY <2>6, NearestIsListed
<1>7. QED
  BY <1>5, <1>6

-----------------------------------------------------------------------------
(* How far the loaded arrays lead.                                          *)

\* The arrays of a direction up to one that could not be had, and their ticks.
Prefix(c, z) ==
  {s \in Directional(c, z) : \A u \in Directional(c, z) : ~Beyond(u, s, z) => u \in c.fetched}
EdgeTicks(c, z) ==
  {t \in InitializedTicks(c.positions) :
     ArrayStart(t) \in Prefix(c, z) /\ IF z THEN t <= c.tick ELSE t > c.tick}
EdgeOf(c, z) == Nearest(EdgeTicks(c, z), ~z)

CanQuote(c, z, a) ==
  /\ EdgeTicks(c, z) # {}
  /\ PriceAt(EdgeOf(c, z)) \notin Way(c, z) \/ a <= Cost(c, z, PriceAt(EdgeOf(c, z)))

\* The arrays nearer than start_index are loaded; the tick does not go back;
\* and a quote is answered exactly when the arrays lead far enough.
RInv ==
  Agrees(core) =>
    /\ pc \in Running =>
         /\ \A u \in Ahead(core, zero_for_one) :
              Beyond(start_index, u, zero_for_one) => u \in DOMAIN core.arrays
         /\ remaining > 0 => IF zero_for_one THEN tick <= core.tick ELSE core.tick <= tick
    /\ pc = "loop" /\ (remaining = 0 \/ price = Limit(zero_for_one)) =>
         CanQuote(core, zero_for_one, amount)
    /\ pc = "done" => (result.status = "Ok" <=> CanQuote(core, zero_for_one, amount))

LEMMA EdgeFacts ==
  ASSUME NEW c \in Cores, NEW z \in BOOLEAN, EdgeTicks(c, z) # {}
  PROVE  /\ EdgeOf(c, z) \in EdgeTicks(c, z) /\ EdgeOf(c, z) \in Int
         /\ \A t \in EdgeTicks(c, z) : IF z THEN EdgeOf(c, z) <= t ELSE t <= EdgeOf(c, z)
<1>1. PICK S, o : S = EdgeTicks(c, z) /\ o = ~z /\ o \in BOOLEAN
  OBVIOUS
<1>2. MIN_TICK \in Int /\ MAX_TICK \in Int
  BY SwapStepsAssumption
<1>3. S \in SUBSET (MIN_TICK..MAX_TICK)
  BY <1>1, VisibleFacts DEF EdgeTicks, Ticks
<1>4. Nearest(S, o) \in S /\ \A t \in S : IF o THEN t <= Nearest(S, o) ELSE Nearest(S, o) <= t
  BY <1>1, <1>2, <1>3, NearestFacts
<1>5. PICK e : e = Nearest(S, o) /\ e = EdgeOf(c, z)
  BY <1>1 DEF EdgeOf
<1>6. e \in S /\ e \in Int
  <2>1. e \in S
    BY <1>4, <1>5, Zenon
  <2>2. QED
    BY <1>2, <1>3, <2>1
<1>7. \A t \in S : IF z THEN e <= t ELSE t <= e
  <2>1. CASE o = TRUE
    BY <1>1, <1>4, <1>5, <2>1
  <2>2. CASE o = FALSE
    BY <1>1, <1>4, <1>5, <2>2
  <2>3. QED
    BY <1>1, <2>1, <2>2
<1>8. QED
  BY <1>1, <1>5, <1>6, <1>7

LEMMA ReachProperty == RInv /\ core \in Cores /\ zero_for_one \in BOOLEAN => QuotesUpToReach
<1>1. SUFFICES ASSUME RInv, core \in Cores, zero_for_one \in BOOLEAN PROVE QuotesUpToReach
  OBVIOUS
<1>2. Edge = IF EdgeTicks(core, zero_for_one) = {} THEN None ELSE EdgeOf(core, zero_for_one)
  BY DEF Edge, EdgeTicks, EdgeOf, Prefix
<1>3. EdgeTicks(core, zero_for_one) # {} => EdgeOf(core, zero_for_one) # None
  BY <1>1, EdgeFacts, SwapStepsAssumption
<1>4. \A p : Capacity(p) = Cost(core, zero_for_one, p)
  BY CapacityIsCost
<1>5. CanQuote(core, zero_for_one, amount)
        <=> /\ Edge # None
            /\ PriceAt(Edge) \notin Reachable \/ amount <= Capacity(PriceAt(Edge))
  BY <1>2, <1>3, <1>4, WayFacts DEF CanQuote
<1>6. QED
  BY <1>1, <1>5, WayFacts DEF RInv, QuotesUpToReach

\* The prices of two ticks are in the order of the ticks.
LEMMA PriceOrder ==
  ASSUME NEW a \in Int, NEW b \in Int, a <= b
  PROVE  PriceAt(a) \in Int /\ PriceAt(b) \in Int /\ PriceAt(a) <= PriceAt(b)
<1>1. /\ PriceAt(a) \in Int /\ Scale \in Nat \ {0}
      /\ a < b => PriceAt(a) + Scale <= PriceAt(b)
  BY PriceFacts
<1>2. PriceAt(b) \in Int
  BY PriceFacts
<1>3. QED
  BY <1>1, <1>2

\* The ticks that count lie ahead of the pool's price.
LEMMA EdgeTickAhead ==
  ASSUME NEW c \in Cores, NEW z \in BOOLEAN, NEW t \in EdgeTicks(c, z)
  PROVE  t \in Int /\ PriceAt(t) \in Int /\ Further(z, c.price, PriceAt(t))
<1>1. t \in Int /\ IF z THEN t <= c.tick ELSE t > c.tick
  BY VisibleFacts DEF EdgeTicks
<1>2. c.tick \in Int /\ c.price \in Int /\ c.price \in PriceAt(c.tick)..PriceAt(c.tick + 1)
  BY CoreFacts
<1>3. c.tick + 1 \in Int
  BY <1>2
<1>4. z => PriceAt(t) <= PriceAt(c.tick)
  BY <1>1, <1>2, PriceOrder
<1>5. ~z => PriceAt(c.tick + 1) <= PriceAt(t)
  <2>1. ~z => c.tick + 1 <= t
    BY <1>1, <1>2
  <2>2. QED
    BY <1>1, <1>3, <2>1, PriceOrder
<1>6. PriceAt(t) \in Int /\ PriceAt(c.tick) \in Int
  BY <1>1, <1>2, PriceFacts
<1>7. PriceAt(c.tick + 1) \in Int
  BY <1>3, PriceFacts
<1>8. QED
  BY <1>1, <1>2, <1>4, <1>5, <1>6, <1>7 DEF Further

\* Far enough: some tick that counts is beyond the limit, or worth the amount.
LEMMA FarEnough ==
  ASSUME NEW c \in Cores, NEW z \in BOOLEAN, NEW a \in Nat, NEW t \in EdgeTicks(c, z),
         PriceAt(t) \in Way(c, z) => a <= Cost(c, z, PriceAt(t))
  PROVE  CanQuote(c, z, a)
<1>1. PICK e, p, q, limit : e = EdgeOf(c, z) /\ p = PriceAt(e) /\ q = PriceAt(t) /\ limit = Limit(z)
  OBVIOUS
<1>2. e \in EdgeTicks(c, z) /\ e \in Int /\ IF z THEN e <= t ELSE t <= e
  BY <1>1, EdgeFacts
<1>3. t \in Int /\ q \in Int /\ Further(z, c.price, q)
  BY <1>1, EdgeTickAhead
<1>4. p \in Int /\ Further(z, q, p)
  <2>1. z => PriceAt(e) <= PriceAt(t)
    BY <1>2, <1>3, PriceOrder
  <2>2. ~z => PriceAt(t) <= PriceAt(e)
    BY <1>2, <1>3, PriceOrder
  <2>3. p \in Int
    BY <1>1, <1>2, PriceFacts
  <2>4. QED
    BY <1>1, <2>1, <2>2, <2>3 DEF Further
<1>5. c.price \in Int /\ limit \in Int
  BY <1>1, LimitFacts
<1>6. ASSUME p \in Way(c, z) PROVE a <= Cost(c, z, p)
  <2>1. q \in Way(c, z)
    BY <1>1, <1>3, <1>4, <1>5, <1>6 DEF Way, Further
  <2>2. a <= Cost(c, z, q)
    BY <1>1, <2>1
  <2>3. Cost(c, z, q) <= Cost(c, z, p) /\ Cost(c, z, q) \in Nat /\ Cost(c, z, p) \in Nat
    BY <1>4, <1>6, <2>1, WayCost
  <2>4. QED
    BY <2>2, <2>3
<1>7. QED
  BY <1>1, <1>2, <1>6 DEF CanQuote

\* Not far enough: the price is past every tick that counts, with input left.
LEMMA NotFarEnough ==
  ASSUME IInv, EInv, Agrees(core), pc # "done", remaining > 0,
         price \in PriceAt(tick)..PriceAt(tick + 1),
         \A t \in EdgeTicks(core, zero_for_one) : IF zero_for_one THEN t > tick ELSE t <= tick
  PROVE  ~CanQuote(core, zero_for_one, amount)
<1>1. PICK c, z, e, p, q, limit : /\ c = core /\ z = zero_for_one /\ e = EdgeOf(c, z) /\ p = price
                                  /\ q = PriceAt(e) /\ limit = Limit(z)
  OBVIOUS
<1>2. /\ c \in Cores /\ z \in BOOLEAN /\ p \in Way(c, z) /\ tick \in Int
      /\ amount \in Nat /\ remaining \in 0..amount
  BY <1>1, WayFacts, SwapStepsAssumption DEF IInv, TypeOK, RequestInv
<1>3. amount - remaining = Cost(c, z, p)
  BY <1>1 DEF EInv, CostOk
<1>4. SUFFICES ASSUME EdgeTicks(c, z) # {} PROVE q \in Way(c, z) /\ ~(amount <= Cost(c, z, q))
  BY <1>1 DEF CanQuote
<1>5. e \in EdgeTicks(c, z) /\ e \in Int
  BY <1>1, <1>2, <1>4, EdgeFacts
<1>6. IF z THEN e > tick ELSE e <= tick
  BY <1>1, <1>5
<1>7. q \in Int /\ Further(z, c.price, q)
  BY <1>1, <1>2, <1>5, EdgeTickAhead
<1>8. c.price \in Int /\ limit \in Int
  BY <1>1, <1>2, LimitFacts
<1>9. p \in Int
  BY <1>2, <1>8 DEF Way
<1>10. Further(z, q, p)
  <2>1. tick + 1 \in Int /\ PriceAt(tick) <= p /\ p <= PriceAt(tick + 1)
    BY <1>1, <1>2
  <2>2. z => PriceAt(tick + 1) <= PriceAt(e)
    <3>1. z => tick + 1 <= e
      BY <1>2, <1>5, <1>6
    <3>2. QED
      BY <1>5, <2>1, <3>1, PriceOrder
  <2>3. ~z => PriceAt(e) <= PriceAt(tick)
    BY <1>2, <1>5, <1>6, PriceOrder
  <2>4. PriceAt(tick) \in Int
    BY <1>2, PriceFacts
  <2>5. PriceAt(tick + 1) \in Int
    BY <2>1, PriceFacts
  <2>6. QED
    BY <1>1, <1>7, <1>9, <2>1, <2>2, <2>3, <2>4, <2>5 DEF Further
<1>11. q \in Way(c, z)
  BY <1>1, <1>2, <1>7, <1>8, <1>9, <1>10 DEF Way, Further
<1>12. Cost(c, z, q) <= Cost(c, z, p) /\ Cost(c, z, q) \in Nat /\ Cost(c, z, p) \in Nat
  BY <1>2, <1>10, <1>11, WayCost
<1>13. QED
  BY <1>2, <1>3, <1>11, <1>12

\* An array of the direction that is not loaded ends the prefix before it.
LEMMA Blocked ==
  ASSUME NEW c \in Cores, NEW z \in BOOLEAN, ~NoBitmap(c), NEW n \in Ahead(c, z),
         n \notin DOMAIN c.arrays, NEW s \in Prefix(c, z)
  PROVE  Beyond(n, s, z)
<1>1. SUFFICES ASSUME ~Beyond(n, s, z) PROVE FALSE
  OBVIOUS
<1>2. Directional(c, z) = Listed(c, z)
  BY DirectionalFacts
<1>3. s \in Listed(c, z)
  BY <1>2 DEF Prefix
<1>4. n \in Listed(c, z)
  <2>1. PICK lo, hi : lo = ArrayStart(MIN_TICK) /\ hi = ArrayStart(MAX_TICK)
    OBVIOUS
  <2>2. lo \in Int /\ hi \in Int /\ Ahead(c, z) \subseteq lo..hi
    BY <2>1, VisibleFacts DEF Ahead
  <2>3. PICK S, N : /\ S = {u \in Ahead(c, z) : Beyond(s, u, z)}
                    /\ N = {u \in Ahead(c, z) : Beyond(n, u, z)}
    OBVIOUS
  <2>4. s \in lo..hi /\ n \in lo..hi
    BY <1>3, <2>2 DEF Listed
  <2>5. N \subseteq S
    BY <1>1, <2>2, <2>3, <2>4 DEF Beyond
  <2>6. IsFiniteSet(S)
    <3>1. IsFiniteSet(lo..hi)
      BY <2>2, FS_Interval
    <3>2. S \subseteq lo..hi
      BY <2>2, <2>3
    <3>3. QED
      BY <3>1, <3>2, FS_Subset
  <2>7. Cardinality(N) <= Cardinality(S) /\ Cardinality(S) \in Nat /\ Cardinality(N) \in Nat
    BY <2>5, <2>6, FS_Subset, FS_CardinalityType
  <2>8. Cardinality(S) < max_one_side_tick_arrays
    BY <1>3, <2>3 DEF Listed
  <2>9. Cardinality(N) < max_one_side_tick_arrays
    BY <2>7, <2>8, SwapStepsAssumption
  <2>10. QED
    BY <2>3, <2>9 DEF Listed
<1>5. n \in c.fetched
  BY <1>1, <1>2, <1>4 DEF Prefix
<1>6. n \in get_all_tick_array_addresses(c)
  <2>1. /\ Directional(c, TRUE) = Listed(c, TRUE)
        /\ Directional(c, FALSE) = Listed(c, FALSE)
    BY DirectionalFacts
  <2>2. n \in Listed(c, TRUE) \cup Listed(c, FALSE)
    BY <1>4
  <2>3. QED
    BY <2>1, <2>2 DEF get_all_tick_array_addresses
<1>7. QED
  BY <1>5, <1>6, CoresAssumption

\* The ticks that count belong to arrays that the bitmaps show.
LEMMA PrefixAhead ==
  ASSUME NEW c \in Cores, NEW z \in BOOLEAN, NEW s \in Prefix(c, z)
  PROVE  s \in Ahead(c, z) /\ s \in Visible(c) /\ s \in Int
<1>1. s \in Directional(c, z)
  BY DEF Prefix
<1>2. s \in Listed(c, z)
  BY <1>1, DirectionalFacts
<1>3. QED
  BY <1>2, VisibleFacts DEF Listed, Ahead

(* Steps of the navigation.                                                 *)

LEMMA PassReach ==
  ASSUME RInv, pc \in {"loop", "find"}, pc' \in {"find", "step"},
         UNCHANGED <<core, zero_for_one, amount>>, UNCHANGED state,
         Agrees(core) => \A u \in Ahead(core, zero_for_one) :
                           Beyond(start_index', u, zero_for_one) => u \in DOMAIN core.arrays
  PROVE  RInv'
  BY DEF RInv, state, Running

LEMMA StopReach ==
  ASSUME pc' = "done", result'.status # "Ok", UNCHANGED <<core, zero_for_one, amount>>,
         Agrees(core) => ~CanQuote(core, zero_for_one, amount)
  PROVE  RInv'
  BY DEF RInv, Running

LEMMA NavReach == IInv /\ RInv /\ init_tick_nav_state => RInv'
<1>1. SUFFICES ASSUME IInv, RInv, init_tick_nav_state PROVE RInv'
  OBVIOUS
<1>2. PICK first, c, z : /\ first = first_initialized_tick_array(core, zero_for_one)
                         /\ c = core /\ z = zero_for_one
  OBVIOUS
<1>3. /\ pc = "init" /\ UNCHANGED <<core, zero_for_one, amount>>
      /\ UNCHANGED <<remaining, price, tick>>
  BY <1>1 DEF init_tick_nav_state, state
<1>4. /\ c \in Cores /\ z \in BOOLEAN /\ price = c.price /\ tick = c.tick /\ remaining > 0
      /\ remaining \in Nat /\ c.tick \in Int
  BY <1>1, <1>2, <1>3, CoreFacts, SwapStepsAssumption DEF IInv, RequestInv, StartInv, TypeOK
<1>5. CASE first[2] \notin {None, Missing}
  <2>1. start_index' = first[2] /\ pc' = "loop"
    BY <1>1, <1>2, <1>5 DEF init_tick_nav_state
  <2>2. FirstVisible(c, z, first)
    BY <1>2, <1>4, <1>5, FirstArrayFacts
  <2>3. \A u \in Ahead(c, z) : ~Beyond(first[2], u, z)
    BY <2>2 DEF FirstVisible, Ahead
  <2>4. price # Limit(z)
    BY <1>1, <1>2, <1>4, ReachFacts, WayFacts DEF IInv, RequestInv
  <2>5. remaining # 0 /\ tick <= c.tick /\ c.tick <= tick
    BY <1>4
  <2>6. QED
    BY <1>2, <1>3, <1>4, <2>1, <2>3, <2>4, <2>5 DEF RInv
<1>6. CASE first[2] \in {None, Missing}
  <2>1. pc' = "done" /\ result'.status # "Ok"
    BY <1>1, <1>2, <1>6 DEF init_tick_nav_state, Stop, Answer
  <2>2. ~CanQuote(c, z, amount)
    <3>1. SUFFICES ASSUME NEW t \in EdgeTicks(c, z) PROVE FALSE
      BY DEF CanQuote
    <3>2. PICK s, current, next :
            /\ s = ArrayStart(t) /\ current = ArrayStart(c.tick)
            /\ next = next_initialized_tick_array_start_index(c, current, z)
      OBVIOUS
    <3>3. s \in Prefix(c, z)
      BY <3>2 DEF EdgeTicks
    <3>4. s \in Ahead(c, z) /\ s \in Visible(c)
      BY <1>4, <3>3, PrefixAhead
    <3>5. ~NoBitmap(c)
      BY <3>3, DirectionalFacts DEF Prefix
    <3>6. current \in Int
      BY <1>4, <3>2, ArrayFacts
    <3>7. first = IF NoBitmap(c) THEN <<FALSE, Missing>>
                  ELSE IF current \in Visible(c) THEN <<TRUE, current>> ELSE <<FALSE, next>>
      BY <1>2, <3>2 DEF first_initialized_tick_array, NoBitmap
    <3>8. current \notin Visible(c) /\ next \in {None, Missing}
      BY <1>6, <3>5, <3>6, <3>7, SwapStepsAssumption
    <3>9. \A u \in Visible(c) : ~Beyond(u, current, z)
      BY <1>4, <3>2, <3>6, <3>8, NextArrayFacts
    <3>10. QED
      BY <3>2, <3>4, <3>8, <3>9 DEF Ahead
  <2>3. QED
    BY <1>2, <1>3, <2>1, <2>2, StopReach
<1>7. QED
  BY <1>5, <1>6

\* The walk stops: no tick that counts lies ahead, because its array is not
\* loaded, or the next one is not, or there is none.
LEMMA WalkStops ==
  ASSUME IInv, pc = "find", Agrees(core), NEW next,
         next = next_initialized_tick_array_start_index(core, start_index, zero_for_one),
         \/ start_index \notin DOMAIN core.arrays
         \/ /\ start_index \in DOMAIN core.arrays
            /\ next_initialized_tick(core, start_index, tick, zero_for_one) = None
            /\ ~is_match => first_initialized_tick(core, start_index, zero_for_one) = None
            /\ next \in {None, Missing} \/ next \notin DOMAIN core.arrays
  PROVE  \A t \in EdgeTicks(core, zero_for_one) : IF zero_for_one THEN t > tick ELSE t <= tick
<1>1. PICK c, z, s : c = core /\ z = zero_for_one /\ s = start_index
  OBVIOUS
<1>2. /\ c \in Cores /\ z \in BOOLEAN /\ tick \in Int /\ s \in Int /\ ArrayTicks \in Nat \ {0}
      /\ ~NoBitmap(c) /\ s \in Ahead(c, z) /\ remaining > 0
  BY <1>1, FindFacts
<1>3. Consistent
  BY WayFacts
<1>4. \A t \in EdgeTicks(c, z) : t \in Int /\ t \in InitializedTicks(c.positions)
  BY <1>2, VisibleFacts DEF EdgeTicks
<1>5. SUFFICES ASSUME NEW t \in EdgeTicks(c, z), IF z THEN t <= tick ELSE t > tick
               PROVE  FALSE
  BY <1>1, <1>2, <1>4
<1>6. PICK a : a = ArrayStart(t)
  OBVIOUS
<1>7. t \in Int /\ t \in InitializedTicks(c.positions)
  BY <1>4
<1>8. a \in Prefix(c, z)
  BY <1>6 DEF EdgeTicks
<1>9. a \in Visible(c) /\ a \in Int
  BY <1>2, <1>8, PrefixAhead
<1>10. PICK w \in InitializedTicks(c.positions) : w \in Int /\ s = ArrayStart(w)
  BY <1>1, <1>2, AheadFacts
<1>11. /\ a <= t /\ t < a + ArrayTicks
       /\ a < s => a + ArrayTicks <= s
  BY <1>6, <1>7, <1>10, ArrayFacts
<1>12. s < a => s + ArrayTicks <= a
  BY <1>6, <1>7, <1>10, ArrayFacts
<1>13. CASE s \notin DOMAIN c.arrays
  <2>1. Beyond(s, a, z)
    BY <1>2, <1>8, <1>13, Blocked
  <2>2. IF z THEN t < s + ArrayTicks ELSE t >= s
    BY <1>1, <1>2, <1>3, <1>5, <1>7 DEF IInv, GapInv, Running
  <2>3. QED
    BY <1>2, <1>7, <1>9, <1>11, <1>12, <2>1, <2>2 DEF Beyond
<1>14. CASE s \in DOMAIN c.arrays
  <2>1. /\ next_initialized_tick(core, start_index, tick, zero_for_one) = None
        /\ ~is_match => first_initialized_tick(core, start_index, zero_for_one) = None
        /\ next \in {None, Missing} \/ next \notin DOMAIN c.arrays
    BY <1>1, <1>14
  <2>2. IF z THEN t < s ELSE t >= s + ArrayTicks
    BY <1>1, <1>3, <1>5, <1>7, <1>14, <2>1, PastStart
  <2>3. Beyond(a, s, z)
    BY <1>2, <1>7, <1>9, <1>11, <2>2 DEF Beyond
  <2>4. next \notin {None, Missing} /\ NextVisible(c, s, z, next)
    BY <1>1, <1>2, <1>9, <2>3, NextArrayFacts
  <2>5. next \in Ahead(c, z) /\ next \notin DOMAIN c.arrays
    BY <1>2, <1>7, <2>1, <2>4, NextGap
  <2>6. Beyond(next, a, z)
    BY <1>2, <1>8, <2>5, Blocked
  <2>7. QED
    BY <1>9, <2>3, <2>4, <2>6 DEF NextVisible
<1>15. QED
  BY <1>13, <1>14

LEMMA FindReach == IInv /\ EInv /\ RInv /\ find_next_initialized_tick_with_nav => RInv'
<1>1. SUFFICES ASSUME IInv, EInv, RInv, find_next_initialized_tick_with_nav PROVE RInv'
  OBVIOUS
<1>2. pc = "find" /\ UNCHANGED <<core, zero_for_one, amount>> /\ UNCHANGED state
  BY <1>1 DEF find_next_initialized_tick_with_nav
<1>3. PICK here, first, next :
        /\ here  = next_initialized_tick(core, start_index, tick, zero_for_one)
        /\ first = first_initialized_tick(core, start_index, zero_for_one)
        /\ next  = next_initialized_tick_array_start_index(core, start_index, zero_for_one)
  OBVIOUS
<1>4. /\ core \in Cores /\ zero_for_one \in BOOLEAN /\ start_index \in Int
      /\ start_index \in Ahead(core, zero_for_one)
  BY <1>1, <1>2, FindFacts
<1>5. \/ pc' \in {"find", "step"} /\ start_index' = start_index
      \/ /\ pc' \in {"find", "step"} /\ start_index' = next
         /\ start_index \in DOMAIN core.arrays /\ next \notin {None, Missing}
      \/ /\ pc' = "done" /\ result'.status # "Ok"
         /\ \/ start_index \notin DOMAIN core.arrays
            \/ /\ start_index \in DOMAIN core.arrays /\ here = None
               /\ ~is_match => first = None
               /\ next \in {None, Missing} \/ next \notin DOMAIN core.arrays
  BY <1>1, <1>2, <1>3 DEF find_next_initialized_tick_with_nav, Stop, Answer, Found, Loaded, nav
<1>6. Agrees(core) => \A u \in Ahead(core, zero_for_one) :
                        Beyond(start_index, u, zero_for_one) => u \in DOMAIN core.arrays
  BY <1>1, <1>2 DEF RInv, Running
<1>7. CASE pc' \in {"find", "step"} /\ start_index' = start_index
  BY <1>1, <1>2, <1>6, <1>7, PassReach
<1>8. CASE /\ pc' \in {"find", "step"} /\ start_index' = next
           /\ start_index \in DOMAIN core.arrays /\ next \notin {None, Missing}
  <2>1. NextVisible(core, start_index, zero_for_one, next)
    BY <1>3, <1>4, <1>8, NextArrayFacts
  <2>2. ASSUME Agrees(core), NEW u \in Ahead(core, zero_for_one), Beyond(next, u, zero_for_one)
        PROVE  u \in DOMAIN core.arrays
    <3>1. u \in Visible(core) /\ u \in Int
      BY <1>4, VisibleFacts DEF Ahead
    <3>2. ~Beyond(u, start_index, zero_for_one)
      BY <2>1, <2>2, <3>1 DEF NextVisible
    <3>3. u = start_index \/ Beyond(start_index, u, zero_for_one)
      BY <1>4, <3>1, <3>2 DEF Beyond
    <3>4. QED
      BY <1>6, <1>8, <2>2, <3>3
  <2>3. QED
    BY <1>1, <1>2, <1>8, <2>2, PassReach
<1>9. CASE /\ pc' = "done" /\ result'.status # "Ok"
           /\ \/ start_index \notin DOMAIN core.arrays
              \/ /\ start_index \in DOMAIN core.arrays /\ here = None
                 /\ ~is_match => first = None
                 /\ next \in {None, Missing} \/ next \notin DOMAIN core.arrays
  <2>1. ASSUME Agrees(core) PROVE ~CanQuote(core, zero_for_one, amount)
    <3>1. \A t \in EdgeTicks(core, zero_for_one) : IF zero_for_one THEN t > tick ELSE t <= tick
      BY <1>1, <1>2, <1>3, <1>9, <2>1, WalkStops
    <3>2. price \in PriceAt(tick)..PriceAt(tick + 1) /\ remaining > 0
      BY <1>1, <1>2 DEF IInv, PlaceInv, TargetInv, Running
    <3>3. QED
      BY <1>1, <1>2, <2>1, <3>1, <3>2, NotFarEnough
  <2>2. QED
    BY <1>2, <1>9, <2>1, StopReach
<1>10. QED
  BY <1>5, <1>7, <1>8, <1>9

(* A step that trades.                                                      *)

\* The tick that a step goes to is one that counts.
LEMMA TargetCounts ==
  ASSUME IInv, RInv, Agrees(core), pc = "step"
  PROVE  next_tick \in EdgeTicks(core, zero_for_one)
<1>1. PICK c, z, s, t : c = core /\ z = zero_for_one /\ s = start_index /\ t = next_tick
  OBVIOUS
<1>2. /\ c \in Cores /\ z \in BOOLEAN /\ s \in DOMAIN c.arrays /\ t \in DOMAIN c.arrays[s]
      /\ IF z THEN t <= tick ELSE t > tick
      /\ remaining > 0
  BY <1>1 DEF IInv, RequestInv, TargetInv, Loaded
<1>3. ~NoBitmap(c) /\ s \in Ahead(c, z)
  BY <1>1 DEF IInv, WalkInv, Running
<1>4. t \in InitializedTicks(c.positions) /\ ArrayStart(t) = s
  BY <1>1, <1>2, ConsistentFacts, WayFacts
<1>5. /\ IF z THEN tick <= c.tick ELSE c.tick <= tick
      /\ \A u \in Ahead(c, z) : Beyond(s, u, z) => u \in DOMAIN c.arrays
  BY <1>1, <1>2 DEF RInv, Running
<1>6. IF z THEN t <= c.tick ELSE t > c.tick
  <2>1. t \in Int /\ c.tick \in Int /\ tick \in Int
    BY <1>2, LoadedFacts, CoreFacts, SwapStepsAssumption DEF IInv, TypeOK
  <2>2. QED
    BY <1>2, <1>5, <2>1
<1>7. Directional(c, z) = Listed(c, z) /\ s \in Listed(c, z)
  BY <1>2, <1>3, DirectionalFacts, LoadedIsListed
<1>8. ASSUME NEW u \in Listed(c, z), ~Beyond(u, s, z) PROVE u \in c.fetched
  <2>1. u \in Ahead(c, z) /\ u \in Int /\ s \in Int
    BY <1>2, <1>3, VisibleFacts DEF Listed, Ahead
  <2>2. u = s \/ Beyond(s, u, z)
    BY <1>2, <1>8, <2>1 DEF Beyond
  <2>3. u \in DOMAIN c.arrays
    BY <1>2, <1>5, <2>1, <2>2
  <2>4. QED
    BY <1>2, <2>3, CoresAssumption
<1>9. s \in Prefix(c, z)
  BY <1>7, <1>8 DEF Prefix
<1>10. QED
  BY <1>1, <1>4, <1>6, <1>9 DEF EdgeTicks

LEMMA LimitIsNoTick ==
  ASSUME NEW t \in Int, NEW z \in BOOLEAN
  PROVE  PriceAt(t) # Limit(z) /\ PriceAt(t) \in Int
<1>1. Scale \in Nat \ {0, 1} /\ MIN_TICK \in Int /\ MAX_TICK \in Int
  BY SwapStepsAssumption
<1>2. /\ PriceAt(t) \in Int
      /\ t < MAX_TICK => PriceAt(t) + Scale <= PriceAt(MAX_TICK)
  BY <1>1, PriceFacts
<1>3. /\ PriceAt(MIN_TICK) \in Int
      /\ MIN_TICK < t => PriceAt(MIN_TICK) + Scale <= PriceAt(t)
  BY <1>1, PriceFacts
<1>4. PriceAt(MAX_TICK) \in Int
  BY <1>1, PriceFacts
<1>5. t <= MIN_TICK => PriceAt(t) <= PriceAt(MIN_TICK)
  BY <1>1, PriceOrder
<1>6. MAX_TICK <= t => PriceAt(MAX_TICK) <= PriceAt(t)
  BY <1>1, PriceOrder
<1>7. QED
  BY <1>1, <1>2, <1>3, <1>4, <1>5, <1>6 DEF Limit

\* Short of the target there is at least one more point to pay.
LEMMA OneMorePoint ==
  ASSUME NEW c \in Cores, NEW z \in BOOLEAN, NEW target \in Way(c, z), NEW q \in Way(c, z),
         Further(z, q, target), q # target, NEW L \in Nat, Flat(c, z, q, target, L)
  PROVE  Cost(c, z, q) + L <= Cost(c, z, target)
<1>1. /\ q \in Int /\ target \in Int /\ Distance(z, q, target) \in Nat /\ Cost(c, z, q) \in Nat
  BY WayCost
<1>2. PICK d : d = Distance(z, q, target)
  OBVIOUS
<1>3. d \in Nat /\ d # 0
  BY <1>1, <1>2 DEF Distance
<1>4. Further(z, target, target)
  BY <1>1 DEF Further
<1>5. Cost(c, z, target) = Cost(c, z, q) + L * d
  BY <1>1, <1>2, <1>4, FlatCost
<1>6. L <= L * d /\ L * d \in Nat
  BY <1>3
<1>7. QED
  BY <1>1, <1>5, <1>6

LEMMA SwapReach == IInv /\ EInv /\ RInv /\ SwapStep => RInv'
<1>1. SUFFICES ASSUME IInv, EInv, RInv, SwapStep, Agrees(core) PROVE RInv'
  BY DEF RInv, SwapStep
<1>2. PICK c, z, t, q, L, P, limit, target, step, net, crossed :
        /\ c = core /\ z = zero_for_one /\ t = next_tick /\ q = step.price /\ L = liquidity
        /\ P = PriceAt(next_tick) /\ limit = Limit(z) /\ target = target_price
        /\ step = compute_swap_step(target_price)
        /\ net = get_tick_liquidity_net(core, next_tick)
        /\ crossed = liquidity + (IF zero_for_one THEN -net ELSE net)
  OBVIOUS
<1>3. /\ pc = "step" /\ price' = q /\ remaining' = remaining - step.in
      /\ UNCHANGED <<core, zero_for_one, amount, start_index>>
      /\ IF q # P THEN tick' = TickAt(q) /\ pc' = "loop"
         ELSE IF crossed < 0 THEN pc' = "done"
         ELSE tick' = (IF z THEN t - 1 ELSE t) /\ pc' = "loop"
  BY <1>1, <1>2 DEF SwapStep, Stop, nav, TickAfterCrossing
<1>4. /\ c \in Cores /\ z \in BOOLEAN /\ amount \in Nat /\ remaining \in Nat /\ L \in Nat
      /\ limit \in Int /\ target \in Int /\ q \in Int
      /\ step.out \in Nat /\ step.in \in 0..remaining
      /\ target \in Way(c, z) /\ Further(z, target, limit)
      /\ q \in Way(c, z) /\ Further(z, q, target) /\ Flat(c, z, q, target, L)
      /\ Cost(c, z, q) = calculated + step.out /\ amount - remaining = calculated
      /\ calculated \in Nat
      /\ \/ q = target /\ step.in = step.out
         \/ /\ q # target /\ step.in = remaining
            /\ step.out <= remaining /\ remaining < step.out + L
  BY <1>1, <1>2, <1>3, StepCost
<1>5. t \in EdgeTicks(c, z)
  BY <1>1, <1>2, <1>3, TargetCounts
<1>6. t \in Int /\ c.tick \in Int /\ c.price \in Int /\ tick \in Int
  BY <1>1, <1>4, <1>5, EdgeTickAhead, CoreFacts, SwapStepsAssumption DEF IInv, TypeOK
<1>7. P # limit /\ P \in Int
  BY <1>2, <1>4, <1>6, LimitIsNoTick
<1>8. /\ target \in {P, limit}
      /\ IF z THEN P <= target ELSE target <= P
  BY <1>1, <1>2, <1>3, TargetFacts, WayFacts
<1>9. ~(crossed < 0)
  <2>1. crossed = Liquidity(c.positions, IF z THEN t - 1 ELSE t)
    BY <1>1, <1>2, <1>3, CrossedFacts, WayFacts
  <2>2. t - 1 \in Int
    BY <1>6
  <2>3. crossed \in Nat
    BY <1>4, <1>6, <2>1, <2>2, LiquidityNat
  <2>4. QED
    BY <2>3
<1>10. pc' = "loop"
  BY <1>3, <1>9
<1>11. ASSUME remaining' > 0 PROVE IF z THEN tick' <= c.tick ELSE c.tick <= tick'
  <2>1. /\ IF z THEN tick <= c.tick ELSE c.tick <= tick
        /\ IF z THEN t <= tick ELSE t > tick
    <3>1. remaining > 0
      BY <1>1, <1>3 DEF IInv, TargetInv
    <3>2. QED
      BY <1>1, <1>2, <1>3, <3>1 DEF IInv, TargetInv, RInv, Running
  <2>2. CASE q = P
    BY <1>3, <1>4, <1>6, <1>9, <2>1, <2>2
  <2>3. CASE q # P
    <3>1. tick' = TickAt(q)
      BY <1>3, <2>3
    <3>2. q = limit
      BY <1>3, <1>4, <1>8, <1>11, <2>3
    <3>3. IF z THEN limit < c.price ELSE c.price < limit
      BY <1>1, <1>2, ReachFacts, WayFacts DEF IInv
    <3>4. PriceAt(c.tick) <= c.price /\ c.price <= PriceAt(c.tick + 1)
      BY <1>4, CoreFacts
    <3>5. c.tick + 1 \in Int
      BY <1>6
    <3>6. PriceAt(c.tick) \in Int /\ PriceAt(c.tick + 1) \in Int
      BY <1>6, <3>5, PriceFacts
    <3>7. IF z THEN q < PriceAt(c.tick + 1) ELSE PriceAt(c.tick) <= q
      BY <1>4, <1>6, <3>2, <3>3, <3>4, <3>5, <3>6
    <3>8. /\ tick' \in Int
          /\ \A w \in Int : (PriceAt(w) <= q => w <= tick') /\ (q < PriceAt(w) => tick' < w)
      BY <1>4, <3>1, TickFacts
    <3>9. z => tick' < c.tick + 1
      BY <3>5, <3>7, <3>8
    <3>10. ~z => c.tick <= tick'
      BY <1>6, <3>7, <3>8
    <3>11. QED
      BY <1>6, <3>8, <3>9, <3>10
  <2>4. QED
    BY <2>2, <2>3
<1>12. ASSUME remaining' = 0 \/ price' = limit PROVE CanQuote(c, z, amount)
  <2>1. ASSUME P \in Way(c, z) PROVE amount <= Cost(c, z, P)
    <3>1. target = P
      BY <1>2, <1>4, <1>6, <1>7, <1>8, <2>1 DEF Way
    <3>2. q # limit
      BY <1>4, <1>7, <3>1 DEF Further
    <3>3. remaining - step.in = 0
      BY <1>3, <1>12, <3>2
    <3>4. CASE q = target /\ step.in = step.out
      BY <1>4, <3>1, <3>3, <3>4
    <3>5. CASE /\ q # target /\ step.in = remaining
               /\ step.out <= remaining /\ remaining < step.out + L
      <4>1. Cost(c, z, q) + L <= Cost(c, z, P)
        BY <1>4, <3>1, <3>5, OneMorePoint
      <4>2. Cost(c, z, P) \in Nat /\ Cost(c, z, q) \in Nat
        BY <1>4, <3>1, WayCost
      <4>3. QED
        BY <1>4, <3>5, <4>1, <4>2
    <3>6. QED
      BY <1>4, <3>4, <3>5
  <2>2. QED
    BY <1>2, <1>4, <1>5, <2>1, FarEnough
<1>13. QED
  BY <1>1, <1>2, <1>3, <1>10, <1>11, <1>12 DEF RInv, Running

\* Every action of a quote keeps what is known of its reach.
THEOREM NextReach == IInv /\ EInv /\ RInv /\ [Next]_vars => RInv'
<1>1. SUFFICES ASSUME IInv, EInv, RInv, [Next]_vars PROVE RInv'
  OBVIOUS
<1>2. CASE init_tick_nav_state
  BY <1>1, <1>2, NavReach
<1>3. CASE EnterLoop
  <2>1. pc = "loop" /\ pc' = "find" /\ UNCHANGED <<core, zero_for_one, amount>> /\ UNCHANGED state
          /\ start_index' = start_index
    BY <1>3 DEF EnterLoop, nav
  <2>2. Agrees(core) => \A u \in Ahead(core, zero_for_one) :
                          Beyond(start_index, u, zero_for_one) => u \in DOMAIN core.arrays
    BY <1>1, <2>1 DEF RInv, Running
  <2>3. QED
    BY <1>1, <2>1, <2>2, PassReach
<1>4. CASE Quoted
  <2>1. /\ pc = "loop" /\ pc' = "done" /\ UNCHANGED <<core, zero_for_one, amount>>
        /\ remaining = 0 \/ price = Limit(zero_for_one)
        /\ result'.status = "Ok"
    BY <1>4, WayFacts DEF Quoted, LoopEnds, Answer
  <2>2. QED
    BY <1>1, <2>1 DEF RInv, Running
<1>5. CASE find_next_initialized_tick_with_nav
  BY <1>1, <1>5, FindReach
<1>6. CASE SwapStep
  BY <1>1, <1>6, SwapReach
<1>7. CASE Done \/ UNCHANGED vars
  <2>1. UNCHANGED <<core, zero_for_one, amount, pc, start_index, remaining, price, tick, result>>
    BY <1>7 DEF Done, vars, state, nav
  <2>2. QED
    BY <1>1, <2>1 DEF RInv
<1>8. QED
  BY <1>1, <1>2, <1>3, <1>4, <1>5, <1>6, <1>7 DEF Next

-----------------------------------------------------------------------------
(* The theorems.                                                            *)

\* simulate_swap_steps keeps every value in its range: the liquidity and the
\* amounts do not go below zero, the price does not leave the way to the limit,
\* and only loaded arrays are read.
THEOREM TypeCorrect == Spec => []TypeOK
<1>1. IInv => TypeOK
  BY DEF IInv
<1>2. QED
  BY <1>1, Inductive, PTL

\* No sequence of steps and crossings leaves the curve: the liquidity that the
\* next step trades against is that of the positions around the tick, and the
\* price is within the tick.
THEOREM TracksTick == Spec => []LiquidityTracksTick
<1>1. IInv => LiquidityTracksTick
  BY DEF IInv, GapInv, PlaceInv, Running, LiquidityTracksTick
<1>2. QED
  BY <1>1, Inductive, PTL

\* An answered quote is the most the curve gives for the amount, whatever the
\* number of steps: the output is the liquidity between the two prices, no price
\* that could be paid for gives more, and input is left over only at the limit.
THEOREM QuotesExactly == Spec => []QuoteExact
<1>1. EInv => QuoteExact
  BY ExactProperties
<1>2. QED
  BY <1>1, Exact, PTL

\* On arrays as old as the pool, quote answers "Liquidity insufficient" only for
\* amounts that the whole pool cannot take: the end of the loaded arrays is never taken for the end of the
\* pool.
THEOREM IlliquidMeansIlliquid == Spec => []IlliquidIsTrue
<1>1. EInv => IlliquidIsTrue
  BY ExactProperties
<1>2. QED
  BY <1>1, Exact, PTL

\* On arrays as old as the pool and at one fee rate, the quotable amounts are
\* exactly those up to what the window's arrays hold, counted from the price to the first array that could not be had: an account
\* that is missing behind that point changes no answer, and no amount below a
\* quotable one is refused.
THEOREM QuotesReach == Spec => []QuotesUpToReach
<1>1. Init => RInv
  BY DEF Init, RInv, Running
<1>2. IInv /\ EInv /\ RInv /\ [Next]_vars => RInv'
  BY NextReach
<1>3. IInv /\ RInv => QuotesUpToReach
  BY ReachProperty DEF IInv, RequestInv
<1>4. QED
  BY <1>1, <1>2, <1>3, Inductive, Exact, PTL DEF Spec

\* An answered quote walked only arrays that build_swap_instruction lists for
\* the same core: both read the same bitmaps, and the walk starts with the
\* array whose absence would make the list an error.
THEOREM WalkedIsListed == Spec => []WalkedListed
<1>1. IInv => walked \subseteq live_directional_tick_arrays(core, zero_for_one)
  <2>1. SUFFICES ASSUME IInv, walked # {}
                 PROVE  walked \subseteq live_directional_tick_arrays(core, zero_for_one)
    OBVIOUS
  <2>2. PICK c, z, L : c = core /\ z = zero_for_one /\ L = Listed(c, z)
    OBVIOUS
  <2>3. c \in Cores /\ z \in BOOLEAN
    BY <2>1, <2>2 DEF IInv, RequestInv
  <2>4. /\ walked \subseteq Ahead(c, z) /\ walked \subseteq DOMAIN c.arrays
        /\ ~NoBitmap(c) /\ Nearest(Ahead(c, z), z) \in walked
    BY <2>1, <2>2 DEF IInv, WalkInv
  <2>5. Nearest(L, z) \in DOMAIN c.arrays /\ L # {}
    <3>1. Ahead(c, z) # {}
      BY <2>1, <2>4
    <3>2. QED
      BY <2>2, <2>3, <2>4, <3>1, AheadNearest
  <2>6. walked \subseteq L
    BY <2>2, <2>3, <2>4, LoadedIsListed
  <2>7. get_swap_tick_arrays(c, z) = L
    BY <2>2, <2>4, <2>5, DirectionalFacts DEF get_swap_tick_arrays
  <2>8. live_directional_tick_arrays(c, z) = L \cap DOMAIN c.arrays
    BY <2>5, <2>7 DEF live_directional_tick_arrays
  <2>9. QED
    BY <2>2, <2>4, <2>6, <2>8
<1>2. IInv => WalkedListed
  BY <1>1 DEF WalkedListed
<1>3. QED
  BY <1>2, Inductive, PTL
=============================================================================
