----------------------------- MODULE SwapSteps -----------------------------
(***************************************************************************)
(* One exact-in quote of the CLMM core (byreal_clmm/core.rs): the swap-step*)
(* loop of simulate_swap_steps, and the navigation from one initialized    *)
(* tick to the next over the tick arrays that the last update loaded.      *)
(*                                                                         *)
(* quote borrows the core immutably, so the core is chosen once, in Init.  *)
(* The price curve is abstracted to a ladder with Scale points per tick:   *)
(* moving the price by one point costs, and yields, as many tokens as the  *)
(* liquidity there.  The fee rate, found before the loop, is taken as 0.   *)
(***************************************************************************)
EXTENDS Integers, FiniteSets, FiniteSetsExt

CONSTANTS
  tick_spacing,
  TICK_ARRAY_SIZE,            \* ticks per array (60)
  MIN_TICK, MAX_TICK,
  DefaultStarts,              \* start indexes that the pool's own bitmap covers
  max_one_side_tick_arrays,   \* arrays requested in one direction
  Scale,                      \* price points per tick
  Cores,                      \* the states a venue may quote on
  Amounts,                    \* the amounts asked for
  None,                       \* nothing found
  Missing                     \* an error: only the missing extension could tell

(* A core: the positions behind the pool account, its tick and its price,   *)
(* whether the bitmap extension was loaded, the array accounts that could   *)
(* be fetched, and the tick arrays that were requested and loaded: start    *)
(* index -> initialized tick -> liquidity_net.                              *)

PriceAt(t)  == t * Scale                   \* get_sqrt_price_at_tick
TickAt(p)   == p \div Scale                \* get_tick_at_sqrt_price
ArrayTicks  == tick_spacing * TICK_ARRAY_SIZE
ArrayStart(t) == (t \div ArrayTicks) * ArrayTicks

Ticks == MIN_TICK..MAX_TICK

\* External: what the pool program keeps.  A tick is initialized while a
\* position begins or ends there, an array while it holds such a tick.
Liquidity(P, t) ==
  SumFunction([q \in P |-> IF t \in q.lower..(q.upper - 1) THEN q.liquidity ELSE 0])
Net(P, t) == Liquidity(P, t) - Liquidity(P, t - 1)
InitializedTicks(P)  == {q.lower : q \in P} \cup {q.upper : q \in P}
InitializedArrays(P) == {ArrayStart(t) : t \in InitializedTicks(P)}

\* The account of the tick array that starts at s.
TickArray(P, s) == [t \in {u \in InitializedTicks(P) : ArrayStart(u) = s} |-> Net(P, t)]

ASSUME SwapStepsAssumption ==
  /\ tick_spacing \in Nat \ {0} /\ TICK_ARRAY_SIZE \in Nat \ {0}
  /\ MIN_TICK \in Int /\ MAX_TICK \in Int
  \* a price limit, one unit inside, is not the price of a tick
  /\ Scale \in Nat \ {0, 1} /\ max_one_side_tick_arrays \in Nat \ {0}
  /\ Amounts \subseteq Nat \ {0}
  /\ None \notin Int /\ Missing \notin Int /\ None # Missing
  \* the pool's own bitmap covers a range
  /\ \A s, u \in DefaultStarts, t \in Ticks :
       s <= ArrayStart(t) /\ ArrayStart(t) <= u => ArrayStart(t) \in DefaultStarts

VARIABLES
  core, zero_for_one, amount,      \* the request and what it is answered from
  pc,                              \* "init", "loop", "find", "step" or "done"
  is_match, start_index,           \* nav
  next_tick,
  remaining, calculated, price, tick, liquidity,   \* SwapState
  walked,                          \* arrays the walk has read
  result                           \* the answer of quote

nav   == <<is_match, start_index>>
state == <<remaining, calculated, price, tick, liquidity>>
vars  == <<core, zero_for_one, amount, pc, nav, next_tick, state, walked, result>>

-----------------------------------------------------------------------------
(* Tick arrays.                                                             *)

Beyond(s, start, z) == IF z THEN s < start ELSE s > start

\* The initialized arrays that the loaded bitmaps show.
Visible(c) ==
  IF c.ext THEN InitializedArrays(c.positions)
           ELSE InitializedArrays(c.positions) \cap DefaultStarts

Nearest(S, z) == IF z THEN Max(S) ELSE Min(S)

is_overflow_default_tickarray_bitmap(c) == ArrayStart(c.tick) \notin DefaultStarts

\* Defective: a missing extension is taken for the end of the pool.
next_array_no_extension(c, start, z) ==
  LET ahead == {s \in Visible(c) : Beyond(s, start, z)}
  IN IF ahead # {} THEN Nearest(ahead, z) ELSE None

\* The start index; None at the end of the pool.
next_initialized_tick_array_start_index(c, start, z) ==
  LET ahead == {s \in Visible(c) : Beyond(s, start, z)}
  IN IF ahead # {} THEN Nearest(ahead, z) ELSE IF c.ext THEN None ELSE Missing

\* Whether it is the pool's current array, and the start index, as above.
first_initialized_tick_array(c, z) ==
  LET current == ArrayStart(c.tick)
      next    == next_initialized_tick_array_start_index(c, current, z)
  IN IF is_overflow_default_tickarray_bitmap(c) /\ ~c.ext THEN <<FALSE, Missing>>
     ELSE IF current \in Visible(c) THEN <<TRUE, current>>
     ELSE <<FALSE, next>>

\* The arrays met from the current price, at most max_one_side_tick_arrays.
Directional(c, z) ==
  LET ahead == {s \in Visible(c) : s = ArrayStart(c.tick) \/ Beyond(s, ArrayStart(c.tick), z)}
      rank(s) == Cardinality({u \in ahead : Beyond(s, u, z)})
  IN IF is_overflow_default_tickarray_bitmap(c) /\ ~c.ext THEN {}
     ELSE {s \in ahead : rank(s) < max_one_side_tick_arrays}

\* Arrays guessed by arithmetic when no bitmap helps.
Guessed(c, z) ==
  {ArrayStart(c.tick) + (IF z THEN -i ELSE i) * ArrayTicks :
     i \in 0..(max_one_side_tick_arrays - 1)}

\* Defective: the arrays above the price are not requested.
get_all_tick_arrays_below(c) ==
  IF Directional(c, TRUE) # {} THEN Directional(c, TRUE) ELSE Guessed(c, TRUE)

get_all_tick_array_addresses(c) ==
  LET found == Directional(c, TRUE) \cup Directional(c, FALSE)
  IN IF found # {} THEN found ELSE Guessed(c, TRUE)

ASSUME CoresAssumption ==
  \A c \in Cores :
    /\ c.tick \in Int /\ c.price \in Int /\ c.ext \in BOOLEAN
    /\ IsFiniteSet(c.positions) /\ \A q \in c.positions : q.liquidity \in Nat
    /\ \A t \in InitializedTicks(c.positions) : t \in Ticks /\ t % tick_spacing = 0
    \* a price on a tick counts as above it, unless the tick was crossed downwards
    /\ c.price \in PriceAt(c.tick)..PriceAt(c.tick + 1)
    /\ c.price = PriceAt(c.tick + 1) => c.tick + 1 \in InitializedTicks(c.positions)
    /\ PriceAt(MIN_TICK) + 1 < c.price /\ c.price < PriceAt(MAX_TICK) - 1
    \* the arrays that an update requests and can have, each with ticks of its own
    /\ DOMAIN c.arrays = c.fetched \cap get_all_tick_array_addresses(c)
    /\ \A s \in DOMAIN c.arrays : \A t \in DOMAIN c.arrays[s] :
         t \in Ticks /\ ArrayStart(t) = s /\ c.arrays[s][t] \in Int

\* Defective: the last array of the direction is left out.
get_swap_tick_arrays_short(c, z) ==
  IF Cardinality(Directional(c, z)) > 1
    THEN Directional(c, z) \ {Nearest(Directional(c, z), ~z)} ELSE Directional(c, z)

get_swap_tick_arrays(c, z) ==
  IF Directional(c, z) # {} THEN Directional(c, z) ELSE Guessed(c, z)

\* The loaded ones; none (an error) if the first is not.
live_directional_tick_arrays(c, z) ==
  LET listed == get_swap_tick_arrays(c, z)
  IN IF Nearest(listed, z) \in DOMAIN c.arrays THEN listed \cap DOMAIN c.arrays ELSE {}

\* Within the array that starts at s, from tick t (inclusive downwards only).
next_initialized_tick(c, s, t, z) ==
  LET found == {u \in DOMAIN c.arrays[s] : IF z THEN u <= t ELSE u > t}
  IN IF ArrayStart(t) = s /\ found # {} THEN Nearest(found, z) ELSE None

\* Defective: always the lowest.
first_initialized_tick_low(c, s, z) ==
  IF DOMAIN c.arrays[s] = {} THEN None ELSE Min(DOMAIN c.arrays[s])

first_initialized_tick(c, s, z) ==
  IF DOMAIN c.arrays[s] = {} THEN None ELSE Nearest(DOMAIN c.arrays[s], z)

get_tick_liquidity_net(c, t) == c.arrays[ArrayStart(t)][t]

-----------------------------------------------------------------------------
(* The quote.                                                               *)

Init ==
  /\ core \in Cores /\ zero_for_one \in BOOLEAN /\ amount \in Amounts
  /\ pc = "init"
  /\ is_match = FALSE /\ start_index = None /\ next_tick = None
  /\ remaining = amount /\ calculated = 0
  /\ price = core.price /\ tick = core.tick
  /\ liquidity = Liquidity(core.positions, core.tick)
  /\ walked = {}
  /\ result = None

Answer(status, in_amount, out_amount) ==
  [status |-> status, in |-> in_amount, out |-> out_amount,
   not_enough_liquidity |-> in_amount < amount]

\* compute_swap fails; quote turns "Liquidity insufficient" into an answer of
\* zero and anything else into an error.
Stop(status) == pc' = "done" /\ result' = Answer(status, 0, 0)

sqrt_price_limit == IF zero_for_one THEN PriceAt(MIN_TICK) + 1 ELSE PriceAt(MAX_TICK) - 1

init_tick_nav_state ==
  /\ pc = "init"
  /\ LET first == first_initialized_tick_array(core, zero_for_one)
     IN IF first[2] \in {None, Missing}
          THEN /\ Stop(IF first[2] = None THEN "Illiquid" ELSE "MathError")
               /\ UNCHANGED nav
          ELSE /\ is_match' = first[1] /\ start_index' = first[2]
               /\ pc' = "loop" /\ UNCHANGED result
  /\ UNCHANGED <<core, zero_for_one, amount, next_tick, state, walked>>

\* Defective: the price limit does not end the loop.
LoopEnds_no_limit == remaining = 0

LoopEnds == remaining = 0 \/ price = sqrt_price_limit

EnterLoop ==
  /\ pc = "loop" /\ ~LoopEnds
  /\ pc' = "find"
  /\ UNCHANGED <<core, zero_for_one, amount, nav, next_tick, state, walked, result>>

Quoted ==
  /\ pc = "loop" /\ LoopEnds
  /\ pc' = "done"
  /\ result' = Answer("Ok", amount - remaining, calculated)
  /\ UNCHANGED <<core, zero_for_one, amount, nav, next_tick, state, walked>>

Found(t) == next_tick' = t /\ pc' = "step" /\ UNCHANGED result

Loaded(s) == s \in DOMAIN core.arrays

\* One turn of the loop of find_next_initialized_tick_with_nav.
find_next_initialized_tick_with_nav ==
  /\ pc = "find"
  /\ UNCHANGED <<core, zero_for_one, amount, state>>
  /\ LET here  == next_initialized_tick(core, start_index, tick, zero_for_one)
         first == first_initialized_tick(core, start_index, zero_for_one)
         next  == next_initialized_tick_array_start_index(core, start_index, zero_for_one)
         ahead == first_initialized_tick(core, next, zero_for_one)
     IN IF ~Loaded(start_index)
          THEN Stop("MathError") /\ UNCHANGED <<nav, next_tick, walked>>
        ELSE IF here # None
          THEN /\ Found(here) /\ walked' = walked \cup {start_index}
               /\ UNCHANGED nav
        ELSE IF ~is_match /\ first # None
          THEN /\ Found(first) /\ walked' = walked \cup {start_index}
               /\ is_match' = TRUE /\ UNCHANGED start_index
        ELSE /\ is_match' = TRUE
             /\ IF next \in {None, Missing}
                  THEN /\ Stop(IF next = None THEN "Illiquid" ELSE "MathError")
                       /\ UNCHANGED <<start_index, next_tick, walked>>
                ELSE /\ start_index' = next
                     /\ IF ~Loaded(next)
                          THEN Stop("MathError") /\ UNCHANGED <<next_tick, walked>>
                        ELSE /\ walked' = walked \cup {start_index, next}
                             /\ IF ahead # None
                                  THEN Found(ahead)
                                  ELSE UNCHANGED <<pc, next_tick, result>>

\* External: swap_math::compute_swap_step.  The whole input is used up when it
\* does not reach the target; what does not move the price goes to the fee.
compute_swap_step(target) ==
  LET distance == IF zero_for_one THEN price - target ELSE target - price
      moved    == IF remaining >= liquidity * distance THEN distance
                                                       ELSE remaining \div liquidity
  IN [price |-> IF zero_for_one THEN price - moved ELSE price + moved,
      out   |-> liquidity * moved,
      in    |-> IF moved = distance THEN liquidity * moved ELSE remaining]

\* Defective: the price limit is forgotten.
target_price_unlimited == PriceAt(next_tick)

target_price ==
  IF zero_for_one THEN Max({PriceAt(next_tick), sqrt_price_limit})
                  ELSE Min({PriceAt(next_tick), sqrt_price_limit})

\* Defective: after a downward crossing the tick stays on the boundary.
TickAfterCrossing_same == next_tick

TickAfterCrossing == IF zero_for_one THEN next_tick - 1 ELSE next_tick

\* The rest of the loop's body.
SwapStep ==
  /\ pc = "step"
  /\ LET step == compute_swap_step(target_price)
         net  == get_tick_liquidity_net(core, next_tick)
         crossed == liquidity + (IF zero_for_one THEN -net ELSE net)
     IN /\ price' = step.price
        /\ remaining' = remaining - step.in
        /\ calculated' = calculated + step.out
        /\ IF step.price # PriceAt(next_tick)
             THEN /\ tick' = TickAt(step.price) /\ pc' = "loop"
                  /\ UNCHANGED <<liquidity, result>>
           ELSE IF crossed < 0       \* liquidity_math::add_delta
             THEN Stop("MathError") /\ UNCHANGED <<tick, liquidity>>
           ELSE /\ liquidity' = crossed /\ tick' = TickAfterCrossing
                /\ pc' = "loop" /\ UNCHANGED result
  /\ UNCHANGED <<core, zero_for_one, amount, nav, next_tick, walked>>

Done == pc = "done" /\ UNCHANGED vars

Next ==
  \/ init_tick_nav_state \/ EnterLoop \/ Quoted
  \/ find_next_initialized_tick_with_nav \/ SwapStep
  \/ Done

Spec == Init /\ [][Next]_vars /\ WF_vars(Next)
-----------------------------------------------------------------------------
\* The prices a swap may end at.
Reachable ==
  IF zero_for_one THEN sqrt_price_limit..core.price ELSE core.price..sqrt_price_limit

TypeOK ==
  /\ pc \in {"init", "loop", "find", "step", "done"}
  /\ is_match \in BOOLEAN /\ start_index \in Int \cup {None}
  /\ next_tick \in Ticks \cup {None} /\ tick \in (MIN_TICK - 1)..MAX_TICK
  /\ remaining \in 0..amount /\ calculated \in Nat /\ liquidity \in Nat
  /\ price \in Reachable
  /\ walked \subseteq DOMAIN core.arrays

\* The arrays were read at the same moment as the pool.
Consistent ==
  \A s \in DOMAIN core.arrays : core.arrays[s] = TickArray(core.positions, s)

\* What it takes to move the price from where the pool stands to p.
Capacity(p) ==
  LET points == IF zero_for_one THEN p..(core.price - 1) ELSE core.price..(p - 1)
  IN SumFunction([x \in points |-> Liquidity(core.positions, TickAt(x))])

\* How far a direction leads: the farthest initialized tick in its first
\* max_one_side_tick_arrays arrays, up to one whose account could not be had;
\* None if there is no tick.
Edge ==
  LET z == zero_for_one
      listed == Directional(core, z)
      prefix == {s \in listed :
                   \A u \in listed : ~Beyond(u, s, z) => u \in core.fetched}
      ticks  == {t \in InitializedTicks(core.positions) :
                   ArrayStart(t) \in prefix /\ IF z THEN t <= core.tick ELSE t > core.tick}
  IN IF ticks = {} THEN None ELSE Nearest(ticks, ~z)

\* simulate_swap_steps never leaves the curve: whenever another step follows,
\* the liquidity is that of the positions around the tick, and the price is
\* within the tick.  (A last step that does not move the price may put the tick
\* above a boundary crossed downwards; nothing reads it any more.)
LiquidityTracksTick ==
  Consistent /\ pc \in {"loop", "find", "step"} /\ remaining > 0 =>
    /\ liquidity = Liquidity(core.positions, tick)
    /\ price \in PriceAt(tick)..PriceAt(tick + 1)

\* With arrays as old as the pool, what quote answers is the most the curve
\* gives: the output is the liquidity between the two prices, and no price that
\* the amount could pay for gives more.  Input is left over only at the limit.
QuoteExact ==
  pc = "done" /\ Consistent /\ result.status = "Ok" =>
    /\ result.out = Capacity(price)
    /\ \A p \in Reachable : Capacity(p) <= amount => Capacity(p) <= result.out
    /\ result.in = IF price = sqrt_price_limit THEN result.out ELSE amount

\* With arrays as old as the pool (Consistent), "Liquidity insufficient" is said
\* only of amounts that the pool cannot take; a missing array or extension is an
\* error instead.  Of arrays read at another moment nothing is claimed.
IlliquidIsTrue ==
  pc = "done" /\ Consistent /\ result.status = "Illiquid" =>
    Capacity(sqrt_price_limit) < amount

\* With arrays as old as the pool and at one fee rate, the amounts that can be
\* quoted are those up to what the arrays of the window hold: the range has no
\* gaps, every array that is needed was requested, and a missing one costs nothing
\* before it is reached.
QuotesUpToReach ==
  pc = "done" /\ Consistent =>
    (result.status = "Ok" <=>
       /\ Edge # None
       /\ \/ PriceAt(Edge) \notin Reachable
          \/ amount <= Capacity(PriceAt(Edge)))

\* Every array that an answered quote walked is listed by the instruction that
\* build_swap_instruction makes for it.
WalkedListed ==
  pc = "done" /\ result.status = "Ok" =>
    walked \subseteq live_directional_tick_arrays(core, zero_for_one)

\* Both loops end: every quote is answered.
Terminates == <>(pc = "done")

-----------------------------------------------------------------------------
\* What the documentation of QuoteResult says of a pool that can take only a
\* part of the input: the flag is set and amount is that part.
DocumentedPartialFill ==
  pc = "done" /\ Consistent /\ result.status # "MathError" /\ result.not_enough_liquidity =>
    result.in = Capacity(sqrt_price_limit)
=============================================================================
