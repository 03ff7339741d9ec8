# A TLA+ model of the Byreal–Titan integration

The repository connects the Byreal CLMM pools to the Titan router. It has an
off-chain half, a Rust library that keeps a copy of a pool's accounts, quotes
on it and builds swap instructions, and an on-chain half, an Anchor program that
executes a route of such swaps with the tokens held by a program-derived
account, the TitanPDA. This directory models both halves in TLA+, checks the
models with TLC and proves nearly all of the safety properties, and both
refinements, with TLAPS.

Paths below are relative to the repository. `PRG` stands for
`program/programs/byreal-titan-venue-program/src`.

## 1. Inventory

| Component | Source | State | Operations | Model |
|---|---|---|---|---|
| Route program | `PRG/instructions/swap_route_v3.rs`, `initialize.rs`, `state.rs`, `error.rs`, `lib.rs`, `venues/byreal_clmm.rs` | TitanPDA, token accounts, lamports; the locals of `execute` | `initialize`, `swap_route_v3` | `SwapRoute` |
| Boundary search | `src/trading_venue/bounds.rs` | four ends of two intervals | `find_boundaries_coarse`, `refine_lower`, `refine_upper`, `find_boundaries` | `BoundarySearch` |
| Account cache | `src/account_caching/` | a `DashMap` shared by tasks | `get_account`, `get_accounts`, `get_multiple`, `reset_cache` | `AccountsCache` (contract), `RpcCache` (implementation) |
| Venue adapter | `src/byreal_clmm/mod.rs` | core, token info, `initialized`, epoch, bounds | `from_account`, `update_state`, `quote`, `bounds`, `generate_swap_instruction`, `parse_pool_creations` | `Venue`, `RouteClient`, `CurvePrice` |
| Venue core | `src/byreal_clmm/core.rs` | pool, config, vaults, oracles, bitmap extension, tick arrays, clock; the locals of a quote | `update_state`, `quote`, `build_swap_instruction`, account lists | `Venue` (state), `SwapSteps` (the swap loop), `CurvePrice` (the price), `RouteClient` (the instruction) |
| Leg builder | `src/swap_route/mod.rs` | none | `build_swap_leg`, `encode_swap_route_v3_data` | `RouteClient` |
| Token info | `src/trading_venue/token_info.rs` | none | `new`, `get_associated_token_address` | `RouteClient` |
| Traits and data | `src/trading_venue/{mod,error,protocol,venue_creation}.rs` | none | declarations | not modelled |

How they interact. A host owns a cache and calls `update_state(&cache)` on each
venue, possibly from several tasks at once. `update_state` calls
`cache.get_accounts` twice, loads the core after each answer, and runs the
boundary search over `core.quote`. The router then calls `quote`, `bounds` and
`generate_swap_instruction`, turns the instruction into a leg
(`build_swap_leg`) and sends `swap_route_v3`, which calls the venue program with
the TitanPDA's signature.

What is hard, and what makes each part correct:

* **Route program.** The venue is foreign code holding the PDA's signature. What
  protects the tokens that the PDA held before is one comparison after the last
  call, over the accounts a bitmap selects. Partial paths: missing accounts on
  either side, wrapped SOL that exists, is too little or is missing, a token
  ledger instead of an amount, legs that split, revisit or alias accounts. Any
  error rolls everything back. Correct: custody, exact input, complete payout,
  no account left behind, no refusal of honest routes.
* **Boundary search.** u64 saturation, truncated midpoints, errors treated as
  unusable amounts, ranges with gaps. Correct: it ends, both bounds are quotable,
  and on a range without gaps they are within the tolerance.
* **Account cache.** No lock is held across the await. Correct: every entry of an
  answer belongs to the address asked for and is no older than the last reset.
* **Venue.** Two fetches and two loads with the ledger moving in between, each
  load able to fail at every account while keeping what it assigned before.
  Correct: Ok leaves nothing of earlier updates but, at most, the pool, a failure between the loads
  leaves nothing to quote on, what is quoted can be built, a healthy ledger is
  reached after one extra call at most.
* **Quote.** A loop over initialized ticks that live in arrays of which some were
  not requested, are not on chain, or are older than the pool; bitmaps with an
  optional extension; boundaries that count differently in the two directions.
  Correct: it ends, its output is what the curve gives, it says "illiquid" only
  of a pool that is, a missing array costs nothing before it is reached, and what
  it read is what the instruction lists.
* **Price of a quote.** Extra swaps a little below and above the amount, limited
  by bounds that were cached earlier. Correct: they cost a quote only where the
  curve has a gap or the bound is that of another curve, and the price is kept
  between the two rates as far as the curve allows.
* **Leg builder.** Accounts are concatenated by the client and cut again by the
  program with a one-byte count; fees change between build and execution, and a
  venue knows the token program of its mints only after an update. Correct: the
  slices are the legs, they trade the accounts that the program watches, and no
  mint that withholds a fee is in a route.

`PROJECT.json` lists the hazards line by line with the properties aimed at them.

## 2. Modules

```
AccountsCache  <--INSTANCE (refinement)--  RpcCache       <- MCRpcCache
      ^                                       ^-- RpcCache_proofs
      +--EXTENDS--  Venue                                 <- MCVenue
                      ^-- Venue_proofs
BoundarySearch                                            <- MCBoundarySearch
      ^-- BoundarySearch_proofs
SwapSteps                                                 <- MCSwapSteps
      ^-- SwapSteps_proofs
CurvePrice                                                <- MCCurvePrice
      ^-- CurvePrice_proofs
SwapRoute                                                 <- MCSwapRoute
      ^-- SwapRoute_proofs <-- RouteLedger_proofs
      ^-- RouteClient (composition with the client)       <- MCRouteClient
            ^-- RouteClient_proofs (EXTENDS SwapRoute_proofs too)
```

The modules around a venue divide its work: `Venue` says which state a quote is
made on and abstracts the quote to priced, illiquid or error; `SwapSteps` is that
quote on any such state; `BoundarySearch` asks it for many amounts, and the ranges
without gaps that `BoundsTight` assumes are what `QuotesUpToReach` shows for one
fee rate (`QuotesReach`); `CurvePrice` takes its output as an arbitrary curve.

Definitions named "Defective" in a comment are plausible mistakes, one for each
property; no action uses them. Substituted for the definition they vary, they
make TLC report the property, which shows that the property depends on that code.

### SwapRoute

`chain` is the committed ledger, `world` the ledger as the transaction in flight
sees it; `Abort` drops `world`, `FinalCheck` commits it. `pc` goes through the
stages of `execute` in the order of the code: `Submit` (validation, lines 58-99),
`CreateAtas` (101-129), `TakeSnapshot` (131-148), `Fund` (150-205), `SwapLeg`
(207-251, once per swap), `Payout` (253-288), `CloseAtas` (290-320), `FinalCheck`
(322-334). The vector of reserved balances and the bitmap that selects positions
are one partial function `snapshot` from positions to balances. Route indexes
stay 0-based.

Abstractions: a token account is the associated account of an owner and a mint
(one per pair); rent and the payer's lamports are not tracked; no mint charges a
transfer fee (the leg builder refuses those). Transactions naming the TitanPDA are
serialised by the runtime, so one is in flight at a time. The runtime passes at
most 255 accounts, `BITMAP_BITS` is 256: `RequestsAssumption` states that the
former does not exceed the latter.

`VenueSwap` is external. With `HonestVenues` it takes exactly the input amount
from the account of `from` and pays some output to that of `to`; without, it
transfers any amount from any TitanPDA account of the leg to its vault and any
amount from a vault to any of them.

That a venue transfers, and does nothing else, is a restriction of the model. In
the program the called venue holds the TitanPDA's signature, and any other signature
that the leg's accounts carry (`swap_route_v3.rs:236`). It could change the authority
of a TitanPDA account, approve a delegate or close the account, or move tokens of
another signer. The check after the legs (322-332) compares amounts only, so it
would not notice a new authority or delegate. None of this is modelled, and
`CustodyKept`, `UserPaysExactly` and `NoStrayAccounts` say nothing of such venues.
Legs built by this repository's client carry no signer flag
(`BuiltRoutesAreWellFormed`), so for them no signature but the TitanPDA's is passed on.

### BoundarySearch

One variable per local variable of the four functions, one action per branch of
each loop. `quote` is the closure, chosen in `Init`: the venue is borrowed
immutably while the search runs, so the answers do not change.

### AccountsCache and RpcCache

`AccountsCache` is the abstract specification: a ledger with its history `log`,
the index `reset_at` of the last reset, and per caller the call in flight. An
answer is `Faithful` if entry *n* is a content that account *n* had since the
reset. `RpcCache` splits a call into the atomic operations of the code: one map
read per address (`Scan`), the request (`EndScan`, `RpcAnswer`, `RpcFail`), one
map insert per fetched account (`InsertFetched`), the answer (`EndInsert`).
`get_multiple` never sends a request and `get_account` turns a missing account
into an error that is not cached, as in the code. `reset_cache` takes `&mut self`,
so it needs every call to be over.

### Venue

`Venue` EXTENDS the contract, not the implementation: what it relies on is only
that answers are faithful, and `KeepsContract` shows that `RpcCache` provides it.
`update_core` is `core.update_state`, a chain of loads on `[core, err]` that stops
at the first error and keeps what was assigned. `StartUpdate`, `BaseLoaded` and
`FullLoaded` are the stretches of the adapter's `update_state` between its awaits;
`FetchFailed` is the `?` on a fetch. `quote`, `bounds` and
`generate_swap_instruction` read the state and are operators.

Abstractions: an account is missing, of another owner, undecodable or decoded;
both mints are one account; the pool is reduced to its dynamic fee, open time,
swap status, whether its liquidity can be traded, and the tick arrays it names
(`walk`: the initialized ones by direction; `near`: those guessed by arithmetic;
`far`: the extension is needed to find any). A quote is priced, illiquid or an
error. The bounds are represented by the core they were computed on, and are absent
until an update has found those of both directions, as `Option` is in the code.
`PoolAssumption` says what a decoded pool looks like; in particular the arithmetic
guess always names an array, as `max_one_side_tick_arrays` is positive.

### SwapSteps

One exact-in quote. `Init` picks the core, the direction and the amount; the core
does not change because `quote` borrows it. `init_tick_nav_state`, `EnterLoop` /
`Quoted` (the test of the `while`), `find_next_initialized_tick_with_nav` (one
turn of its loop) and `SwapStep` (the rest of the body) are the steps. A core
holds the positions that the pool's accounts come from, so that the pool's
bitmaps, its liquidity and the tick arrays are derived from one source;
`fetched` are the array accounts that exist, `arrays` those that were requested
(`get_all_tick_array_addresses`) and loaded. `StaleCores` fill them from other
positions: arrays read at another moment than the pool.

Abstractions: the price is a ladder with `Scale` points per tick and a point
costs and yields as many tokens as the liquidity there, instead of the two
square-root formulas of the pool's library; the fee rate, fixed before the loop,
is 0; the bitmap search is its result, the nearest initialized array that the
bitmaps at hand show, and an error when only the missing extension could tell.
Both layouts of tick arrays (fixed and dynamic) are one function from ticks to
net liquidity. `SwapStepsAssumption` says that the pool's own bitmap covers a range
of start indexes without holes, and that a tick has at least two price points, so that
a price limit, which lies one unit inside the price of the first or last tick, is not
the price of a tick. `CoresAssumption` says what any core is: prices lie
in their tick (on its upper end only after a downward crossing), initialized ticks
are on the spacing, its positions are finitely many, with natural liquidities, and the
arrays are the requested ones that could be fetched, each holding ticks of its own
range. It does
not say that their contents agree with the pool; that is `Consistent`, a hypothesis
of the properties that need it.

### CurvePrice

`actual_curve_price` and the part of `quote` around it. Each call of
`compute_swap` is a step: the amount itself, a little less (`ProbePrevious`), a
little more (`ProbeNext`). The curve is any function from amounts to outputs or
errors, the bound is any amount or absent, as the cache may hold that of another
curve. Prices are fractions; rounding in f64 is not modelled, and the tests
`is_finite` and `> 0.0`, which f64 division of positive integers always passes,
are left out.

### RouteClient

EXTENDS `SwapRoute` with the client: `UpdateState` gives a venue its token info
with the fee of that epoch, `build_swap_leg` appends a leg and its accounts
(`leg_keys`) or ends the route with an error, `SendRoute` submits what was built if
it has no more accounts than the runtime passes to an instruction. An account of a leg is a key and a
signer flag; the positions in the instruction are those of
`build_swap_instruction`. The router that chooses mints and pools, the fee
authority (a new fee applies two epochs later, as in Token-2022) and the epochs
are external; epochs and fees change between transactions. An update that fails
after the token info was replaced leaves a new venue uninitialized.

## 3. Runs

| Run | Instance | Shows |
|---|---|---|
| RouteHostile | 3 mints, reserved balances on every PDA account, 8 routes and 14 malformed instructions, venues that transfer arbitrary amounts, 2 transactions | `CustodyKept`, `OutputSwept` |
| RouteHonest | any subset of the four SOL and USDC accounts missing, 13 routes (single, split, partial weight, two hops, round trip, self leg, aliased, ledger, payout to the PDA), honest venues, 2 transactions | `HonestNeverRejected`, `NoResidue`, `UserPaysExactly`, `NoStrayAccounts` |
| Bounds | amounts 0..63, tolerance 3; every contiguous range with every way to fail around it, and venues with one gap whose ends lie around powers of two | `BoundsTight`, `WideRangeFound`, `BoundsQuotable`, `NeverCollapses`, `Termination` |
| CacheConcurrent | 2 tasks, 2 accounts (one may be closed), 5 calls with duplicates and the empty one, 2 writes, any number of resets | `FreshSinceReset`, the refinement `KeepsContract`, `CallsReturn` |
| VenueRefresh | 6 kinds of pool, the venue made from any of them and the ledger starting with a dynamic fee, 3 tick arrays, 2 writes of any content to any account at any moment, failing fetches, resets | `NoLeftovers`, `WindowRequested`, `FailsClosed`, `QuotedCanBeBuilt`, `TwoCallsSuffice` |
| SwapSteps | spacing 2, 4 arrays of 2 ticks, 2 requested per direction, 2 in the pool's own bitmap; 5 sets of positions, prices inside a tick, on it, and on it after a downward crossing; all arrays, all but one, or none on chain; with and without extension; stale arrays; 7 amounts | `LiquidityTracksTick`, `QuoteExact`, `IlliquidIsTrue`, `QuotesUpToReach`, `WalkedListed`, `Terminates` |
| CurvePrice | amounts 0..6, all curves with increments 0..2, every reach and kind of failure, a gap, every cached bound, prices below and above the chords | `ProbesFailForCause`, `PriceBracketsChords` |
| BuiltRoute | 3 pools in a chain with 1 or 2 tick arrays, one dynamic; an SPL mint, wrapped SOL, two Token-2022 mints, one of them with fees; 5 paths of one and two hops; epochs 0..2 | `SlicesAreLegs`, `LegsTradeRouteAccounts`, `NoFeeWithheld`, `BuiltRoutesAreWellFormed` |

The module's type invariant is checked in one run each.

Why the bounds are enough. `MaxTransactions = 2`: transactions share only the
ledger and the TitanPDA, and the properties compare two committed ledgers;
the second one starts from whatever the first left. `ROUTE_WEIGHT_ALL = 2`
keeps the rounding of shares (one atom at half weight) and the cap. The bounds
runs cover saturation, both loops and both bisections, because `MaxAmount` has
the form 2^k - 1 as u64::MAX has. Two tasks suffice for one request to overtake
another, two writes for a content to be older than both. In `Venue`, two writes
let the ledger change before the first and between both answers.
In `SwapSteps` the window (two arrays) is smaller than the pool (four) and the
pool's own bitmap smaller than both, so that every search can run out of any of
them; the largest amount exhausts every pool, the others end in, on and between
the ticks. In `CurvePrice` the step is half the amount or 2, so that both ends of
the maximum and the minimum in `dynamic_fee_price_step` occur. In `BuiltRoute` a
fee that is scheduled at epoch 0 applies at epoch 2, after a leg may have been
built and before it is executed; legs of different lengths follow each other.

Four runs compare the code with what its documentation says, and TLC reports the
difference. They are observations about wording, not about the properties above:

| Run | Documentation | Code |
|---|---|---|
| QuoteDocPartial | `trading_venue/mod.rs:86-87`: with liquidity for half of the input, "`amount = request.amount / 2`" | an amount that the arrays cannot fill is answered with `amount` 0 |
| RouteDocAmount | `program/README.md:33`: `amount` is "the exact input amount the router will spend" | with a token ledger it is ignored |
| CacheDocSnapshot | `rpc_cache.rs:5`: "ensures consistent account snapshots" | hits and misses of an answer belong to different moments |
| VenueDocInitialized | `trading_venue/mod.rs:155`: Titan can skip venues "missing required on-chain accounts" | a missing pool account keeps the old pool, Ok is returned and `initialized()` stays true |

`WideRangeFound` and `BoundsTight` state what holds of the search where the comments
of `bounds.rs:197-206` say a little more: only powers of two are probed, and up to
the tolerance of 100 atoms is left out at either end.

Deadlock is checked in the runs of `Venue`, `SwapSteps` and `CurvePrice`. The others
stop by design: the search terminates, transactions, epochs and writes are bounded.

Limits of the code that the properties' conditions show:

* `ProbesFailForCause` names the two causes for which a probe turns a quote that could
  be answered into an error. One is a bound of another curve: after an update that
  failed, the cached bound may exceed what the curve can fill. The other is a gap in
  the curve within one step of the amount. `QuotesUpToReach` excludes gaps at one fee
  rate, but only pools with a dynamic fee probe, and their rate depends on the amount.
* `PriceBracketsChords` covers every curve. The price is never below the rate of the
  next step; it is at most the rate of the last one unless the next step is better (the
  curve bends the wrong way), where the code reports the larger of that rate and the
  constant-fee price; and the constant-fee price stands where no chord rules it out, in
  particular where the curve is flat below the amount.
* `NoLeftovers` excepts the pool when its account is missing from both answers: the code
  keeps the one it knew, which the run `VenueDocInitialized` shows.
* `WindowRequested` supposes that pool and bitmap are the same in both answers. When the
  pool moves in between, its window moves too and arrays may be missing; what then
  holds is `QuotedCanBeBuilt`, which has no such condition, and the part of `NoLeftovers`
  that says that the arrays are those of the new window that were fetched.
* `QuoteExact`, `IlliquidIsTrue`, `QuotesUpToReach` and `LiquidityTracksTick` need arrays
  as old as the pool (`Consistent`). With older ones the loop still ends and stays in
  its types, but the liquidity may be wrong; the two answers of the cache make this
  possible.

### Fairness

`BoundarySearch!Spec`: weak fairness of `Next`; the search is a synchronous loop.
`RpcCache!FairSpec`: weak fairness of each task's own steps (an executor polls a
task that can go on) and of "the node answers or the request fails" (the RPC
client gives up after its timeout). Nothing is assumed of the node's answers, of
writes, calls or resets. `SwapSteps!Spec`: weak fairness of `Next`, as `quote` is
a synchronous call. The other modules state no liveness.

## 4. Proofs

`tlapm` checks all eight proof modules to the last leaf. The theorems hold for every
value of the constants that satisfies the named assumptions; TLC evaluates those
assumptions in the runs. Every inductive invariant was an invariant of a TLC run
before it was proved.

**BoundarySearch_proofs** (assumptions: `MaxAmount >= 3`, `Tolerance >= 2`, a quote
of 0 is not usable). `TypeCorrect`, `BoundsAreQuotable`, `BoundsAreTight`,
`WideRangesAreFound`, `SearchNeverCollapses`. The results alone are not
inductive: they speak of the last state, while what makes them true is what the
loops keep. `IInv` adds, for the first loop, that the last failing probe is half
the next one and that no quotable octave starts at or below it (`LowerInv`); for
the second, that its low end is quotable and above the first interval
(`UpperInv`); for the bisections, that the returned end is quotable and the other
one is not, or is 0 or u64::MAX, and is at most the tolerance away (`RefineInv`).

**SwapRoute_proofs** (assumptions: `ConstantsAssumption`, `RequestsAssumption`; any
mints, instructions and initial ledgers, and any amounts that venues transfer between
TitanPDA accounts and vaults). `TypeCorrect`
(balances never go negative), `CustodyIsKept`, `OutputIsSwept`. Custody is about
committed ledgers, but what has to be preserved is a statement about the
transaction in flight: for every TitanPDA account, `Guarded` says that its
committed balance is 0, or is recorded in the snapshot at a position naming it,
or that no remaining account names it and its balance has not gone down. With
`ValidInv` (what validation established), `IdleInv` and `LedgerInv` (outside a
transaction there is one ledger, before the snapshot no token has moved, a closed
account is empty) this is inductive; the final check turns the recorded case into
the property. `SweptInv` is the corresponding fact for the output account.

**RouteLedger_proofs** (same assumptions). `PaysExactly` and `NoStrays` for any
amounts that venues transfer; `HonestPasses` and `LeavesNoResidue` for honest ones, a hypothesis of the
two theorems. `JInv` follows the difference between the two ledgers through the
stages: which accounts the route has opened (`OpenInv`), what the user has paid so
far in each mint (`PayInv`), that an honest leg spends only what exceeds the
reserved balance, whatever its weight (`HonestInv`), and that an account that has
gained something is the output or is emptied by a leg still to come (`DrainInv`).
`PayInv` is what relates lamports that are wrapped on the way to the tokens that
arrive.

**RouteClient_proofs** (in addition `RouteClientAssumption`: pools trade two
different mints, a leg fits its one-byte account count, paths keep to the limits of
the program). `SlicesCutLegs`, `LegsTradeTheirHop`, `FaceValue`,
`BuiltIsWellFormed`. The program's running index into the remaining accounts and
the client's concatenation meet in the offsets of the legs: `BuildInv` says that
some vector of offsets places every leg built so far in `leg_keys`, `RunInv` that
the program, before leg *k*, has come to the *k*-th of them. `TokenInv` says that an
initialized venue knows which of its mints have the fee extension, which does not
change when the fee does. `ClientImplementsProgram` is the refinement: where
`Requests` holds every instruction that the runtime can pass, each step of the
composition is a step of `SwapRoute` or leaves it unchanged, so that its theorems
hold for built routes as well.

**RpcCache_proofs** (assumptions: `CacheAssumption`, `RpcCacheAssumption`; any
accounts, tasks and calls). `TypeCorrect`, `ResetIsBarrier`, and
`ImplementsContract`, the safety part of the refinement of `AccountsCache`. For a
task between two of its atomic operations, `TaskInv` says which addresses are in
its result map, which are still to be fetched, and that both what it holds and
what it is about to insert were on the ledger since the reset; a reset is
possible only when no task holds anything.

**Venue_proofs** (assumptions: `CacheAssumption`, `VenueAssumption`,
`PoolAssumption`; any contents, tick arrays and answers that the contract allows).
`TypeCorrect`, `NothingLeftOver`, `WindowCovered`, `ClosedOnFailure`,
`QuotedIsBuilt`, `AtMostOneStrike`. The lemmas state what a chain of loads leaves in
the core in terms of the account map it was given; the invariant relates the core
to the map of the call in flight (`BaseInv`, `CallInv`), to that of the last
successful call (`DoneInv`) and to the ledger (`StrikeInv`).

**SwapSteps_proofs** (assumptions: `SwapStepsAssumption`, `CoresAssumption`; any pool,
arrays, direction and amount). `TypeCorrect`, `TracksTick`, `WalkedIsListed`,
`QuotesExactly`, `IlliquidMeansIlliquid`, `QuotesReach`. The core of it is `GapInv`: no
initialized tick lies between the tick and the array that the walk stands on, and none between the tick and `next_tick`; so the liquidity
does not change on the way and a crossing adds exactly the net of the tick crossed.
`PlaceInv` keeps the off-by-one of downward crossings (the tick is then one below the
boundary, and possibly one below its array). `WalkInv` says that what was walked
begins with the nearest array of the direction; together with the fact that what an
update loads of a direction is what `Directional` lists of it, this gives
`WalkedIsListed`. `QuotesExactly` and `IlliquidMeansIlliquid` rest on a second invariant, `EInv`:
on arrays as old as the pool, what was calculated so far is the liquidity summed over
the points passed, it equals the input used as long as input is left, and once none is
left no price further on can be paid. A sum over an arbitrary set is defined by
recursion, and induction over it is not available; the lemmas on sums (the order of
the elements does not matter, one more element adds its value) are therefore shown on
a smallest set for which they fail, with the library's well-foundedness of the natural
numbers. From them: where no initialized tick lies, every point costs the same
(`FlatCost`, with `StepIsFlat` from `GapInv`); going further never costs less
(`CostGrows`); and when the bitmaps show no further array, no position has liquidity
ahead of the tick (`FindNone`, `IlliquidExact`). `QuotesReach` needs a third one,
`RInv`: every array nearer than the one the walk stands on is loaded, and the tick
does not go back. Then each tick a step goes to is one of those `Edge` is chosen
from, so an answered quote was within reach (`TargetCounts`, `FarEnough`); and where
the walk stops, at an array that is not loaded or at the last one, no such tick is
left ahead, so the input that remains was out of reach (`Blocked`, `WalkStops`,
`NotFarEnough`). The proof found the one condition that the run could not show: with a
single price point per tick a limit could be the price of a tick, and the two ways of
counting would differ there.

**CurvePrice_proofs** (assumption: `CurvePriceAssumption`; any curve, bound, price and
step width; neither fresh bounds nor a curve without gaps is assumed). `TypeCorrect`,
`ProbesSafe`, `PriceBracketed`. The invariant says what is
known of the lower chord when the upper one is looked for (`NextInv`).

Only model-checked: the liveness properties `Termination`, `CallsReturn` and
`Terminates`, because liveness is out of the prover's reach.

## 5. Not modelled, and why

* The formulas of the curve (square-root prices, fee split, dynamic fee rate): wide
  integer and floating-point computation, most of it in an external crate. The
  loop around them is `SwapSteps`. A dynamic fee rate depends on the amount, so for
  such pools the quotable amounts may have gaps; `BoundsQuotable` allows them.
* What a venue could do with a signature besides transferring tokens between TitanPDA
  accounts and its vaults: change an authority, approve a delegate, close an account,
  act for another signer. The program compares amounts and does not look at these.
* Decoding of tick arrays, Borsh and Anchor encodings, the parity test of the two
  `Venue` enums: layout.
* `parse_pool_creations`: a filter over parsed instructions without state.
* Traits, error and data types: declarations.
* A pool that fails *inside* the first load of an update: the venue may then quote
  on a new pool with the tick arrays of the old one. `FailsClosed` speaks of
  failures between the loads only; nothing is promised for this case.

## 6. Plan

Done: all components that keep or change state, the contract of the cache and its
refinement, the composition of client and program and its refinement, and proofs of
every type invariant and of every safety property.

Left: a bound on the number of steps of the loops (a variant that every step of
`SwapSteps` and of the bisections decreases), which is the safety part of the liveness
properties that are only model-checked.
