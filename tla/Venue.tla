------------------------------- MODULE Venue -------------------------------
(***************************************************************************)
(* ByrealClmmVenue (byreal_clmm/mod.rs, byreal_clmm/core.rs): the two-phase*)
(* refresh of a pool from an AccountsCache, and what quote, bounds and     *)
(* generate_swap_instruction make of the state that a refresh, or a        *)
(* refresh that failed half way, leaves behind.                            *)
(*                                                                         *)
(* update_state borrows the venue mutably, so nothing is quoted while it   *)
(* waits; the ledger goes on.  An account is abstracted to what the checks *)
(* distinguish: missing, of another owner, undecodable, or decoded.        *)
(***************************************************************************)
EXTENDS AccountsCache, FiniteSets, Functions

CONSTANTS
  Foreign,      \* an account with the wrong owner
  Garbage,      \* an account whose data cannot be decoded
  TickArrays,   \* addresses of tick array accounts
  MaxPythAge    \* DYNAMIC_MAX_PYTH_AGE_SECONDS

venue == "venue"

Sides     == {0, 1}                \* token 0 and token 1
VaultKey  == [i \in Sides |-> IF i = 0 THEN "vault0" ELSE "vault1"]
PythKey   == [i \in Sides |-> IF i = 0 THEN "pyth0" ELSE "pyth1"]
FixedKeys == {"pool", "amm", "mints", "bitmap", "clock",
              "vault0", "vault1", "pyth0", "pyth1"}

ASSUME VenueAssumption ==
  /\ Keys = FixedKeys \cup TickArrays
  /\ FixedKeys \cap TickArrays = {}
  /\ Callers = {venue}
  /\ MaxPythAge \in Nat

\* A decoded pool account: its window and the arrays guessed around its price.
ASSUME PoolAssumption ==
  \A p \in Contents["pool"] \ {None, Foreign, Garbage} :
    /\ p.dyn \in {"off", "on", "nofeed"} /\ {p.far, p.swap, p.liquid} \subseteq BOOLEAN
    /\ \A i \in Sides : /\ p.walk[i] \in Seq(TickArrays)
                        /\ p.near[i] \in Seq(TickArrays) \ {<<>>}

VARIABLES
  core,            \* the CLMM state: [timestamp, pool, amm, vault, pyth, ext, ticks]
  token_info, initialized, current_epoch,
  bounds_cache,    \* per input side, <<the curve that the bounds were found on>> or <<>>
  pc,              \* where update_state is: "idle", "base" or "full"
  base_accounts, update_accounts,   \* the two account maps of the last update
  outcome,         \* how the last update ended
  loads,           \* how many loads of the core it completed
  strikes          \* failed updates in a row that had nothing to complain of

venueVars == <<core, token_info, initialized, current_epoch, bounds_cache, pc,
               base_accounts, update_accounts, outcome, loads, strikes>>
vars == <<log, reset_at, call, core, token_info, initialized, current_epoch,
          bounds_cache, pc, base_accounts, update_accounts, outcome, loads, strikes>>

Undecoded == {None, Foreign, Garbage}

NoAccounts == [k \in Keys |-> None]

-----------------------------------------------------------------------------
(* The core: loading accounts.  A load works on [core, err] and stops at    *)
(* the first error, keeping what was assigned before it.                    *)

Fail(r, e) == [r EXCEPT !.err = e]

dynamic(c) == c.pool.dyn # "off"

load_clock(r, m) ==
  IF m["clock"] = None THEN Fail(r, "MissingState")
  ELSE IF m["clock"] \in Undecoded THEN Fail(r, "DeserializationFailed")
  ELSE [r EXCEPT !.core.timestamp = m["clock"].ts]

\* A pool account that is missing leaves the pool as it was.
load_pool(r, m) ==
  IF r.err # "Ok" \/ m["pool"] = None THEN r
  ELSE IF m["pool"] = Foreign THEN Fail(r, "UnsupportedVenue")
  ELSE IF m["pool"] = Garbage THEN Fail(r, "DeserializationFailed")
  ELSE [r EXCEPT !.core.pool = m["pool"]]

load_amm_config(r, m) ==
  IF r.err # "Ok" THEN r
  ELSE IF m["amm"] \in Undecoded \ {None} THEN Fail(r, "DeserializationFailed")
  ELSE [r EXCEPT !.core.amm = m["amm"]]

\* Defective: whatever the vault account holds is taken.
load_vault_unchecked(r, m, i) ==
  IF r.err # "Ok" THEN r ELSE [r EXCEPT !.core.vault[i] = m[VaultKey[i]]]

load_vault(r, m, i) ==
  IF r.err # "Ok" THEN r
  ELSE IF m[VaultKey[i]] \in Undecoded \ {None} THEN Fail(r, "DeserializationFailed")
  ELSE [r EXCEPT !.core.vault[i] = m[VaultKey[i]]]

load_pyth(r, m, i) ==
  IF r.err # "Ok" THEN r
  ELSE IF m[PythKey[i]] \in {None, Foreign} THEN Fail(r, "MissingState")
  ELSE IF m[PythKey[i]] = Garbage THEN Fail(r, "DeserializationFailed")
  ELSE [r EXCEPT !.core.pyth[i] = m[PythKey[i]]]

load_oracles(r, m) ==
  IF r.err # "Ok" THEN r
  ELSE IF ~dynamic(r.core) THEN [r EXCEPT !.core.pyth = [i \in Sides |-> None]]
  ELSE IF \/ \E i \in Sides : r.core.vault[i] = None
          \/ r.core.pool.dyn = "nofeed"
    THEN Fail(r, "MissingState")
  ELSE load_pyth(load_pyth(r, m, 0), m, 1)

\* Defective: the extension of an earlier load is kept when none was fetched.
load_bitmap_sticky(r, m) ==
  IF r.err # "Ok" \/ m["bitmap"] \in Undecoded THEN r
  ELSE [r EXCEPT !.core.ext = m["bitmap"]]

\* The bitmap extension is optional; one that cannot be decoded counts as
\* missing.
load_bitmap(r, m) ==
  IF r.err # "Ok" THEN r
  ELSE [r EXCEPT !.core.ext = IF m["bitmap"] \in Undecoded THEN None ELSE m["bitmap"]]

-----------------------------------------------------------------------------
(* Tick arrays.  pool.walk[i]: the initialized arrays met from the current  *)
(* price when side i is sold; pool.near[i]: those guessed by arithmetic;    *)
(* pool.far: the bitmap extension is needed to find any.                    *)

\* External: the bitmap helpers of the byreal_clmm crate.
Walk(c, i) == IF c.pool.far /\ c.ext = None THEN <<>> ELSE c.pool.walk[i]

get_all_tick_array_addresses(c) ==
  LET found == Range(Walk(c, 0)) \cup Range(Walk(c, 1))
  IN IF found # {} THEN found ELSE Range(c.pool.near[0])

get_swap_tick_arrays(c, i) ==
  IF Walk(c, i) # <<>> THEN Walk(c, i) ELSE c.pool.near[i]

\* Defective: arrays are replaced only when some were fetched.
load_tick_arrays_lazily(r, m) ==
  LET got == {t \in get_all_tick_array_addresses(r.core) : m[t] \notin Undecoded}
  IN IF r.err # "Ok" \/ got = {} THEN r
     ELSE [r EXCEPT !.core.ticks = [t \in got |-> m[t]]]

\* The arrays in the window that were fetched and can be decoded.
load_tick_arrays(r, m) ==
  LET got == {t \in get_all_tick_array_addresses(r.core) : m[t] \notin Undecoded}
  IN IF r.err # "Ok" THEN r ELSE [r EXCEPT !.core.ticks = [t \in got |-> m[t]]]

\* Defective: a load that fails changes nothing.
update_core_atomic(c, m) ==
  LET r1 == load_pool(load_clock([core |-> c, err |-> "Ok"], m), m)
      r2 == load_vault(load_vault(load_amm_config(r1, m), m, 0), m, 1)
      r3 == load_tick_arrays(load_bitmap(load_oracles(r2, m), m), m)
  IN IF r3.err = "Ok" THEN r3 ELSE [r3 EXCEPT !.core = c]

update_core(c, m) ==
  LET r1 == load_pool(load_clock([core |-> c, err |-> "Ok"], m), m)
      r2 == load_vault(load_vault(load_amm_config(r1, m), m, 0), m, 1)
  IN load_tick_arrays(load_bitmap(load_oracles(r2, m), m), m)

-----------------------------------------------------------------------------
(* The core: quoting.                                                       *)

MarketError(c) ==
  IF c.timestamp <= 0 \/ c.timestamp <= c.pool.open_time THEN "MissingState"
  ELSE IF ~c.pool.swap THEN "InactivePoolError"
  ELSE "Ok"

\* load_dynamic_pyth_prices.
PythUsable(c) ==
  \A i \in Sides : /\ c.pyth[i] # None
                   /\ c.pyth[i].price > 0
                   /\ c.pyth[i].time >= c.timestamp - MaxPythAge

QuoteError(c) ==
  IF MarketError(c) # "Ok" THEN MarketError(c)
  ELSE IF \/ c.amm = None
          \/ dynamic(c) /\ (~PythUsable(c) \/ \E i \in Sides : c.vault[i] = None)
          \/ DOMAIN c.ticks = {}
    THEN "MissingState"
  ELSE "Ok"

\* compute_swap for the smallest amount the curve can fill when side i is
\* sold: it starts in the first array, which must be loaded.  Where it finds
\* nothing to trade it walks on to the end of the bitmaps; an array that is not
\* loaded, or the search beyond the pool's own bitmap without the extension, is
\* an error, and only the end of the extension means that there is no liquidity.
SwapOutcome(c, i) ==
  LET walk == Walk(c, i)
  IN IF walk # <<>> /\ Head(walk) \in DOMAIN c.ticks /\ c.pool.liquid THEN "Priced"
     ELSE IF c.ext = None \/ ~(Range(walk) \subseteq DOMAIN c.ticks) THEN "MathError"
     ELSE "Illiquid"

quote(c, i) == IF QuoteError(c) # "Ok" THEN QuoteError(c) ELSE SwapOutcome(c, i)

\* Defective: an array that is missing further on is an error too.
live_tick_arrays_strict(c, i) ==
  IF Range(get_swap_tick_arrays(c, i)) \subseteq DOMAIN c.ticks
    THEN Range(get_swap_tick_arrays(c, i)) ELSE {}

\* live_directional_tick_arrays: those loaded, none if the first is not.
live_tick_arrays(c, i) ==
  IF Head(get_swap_tick_arrays(c, i)) \in DOMAIN c.ticks
    THEN Range(get_swap_tick_arrays(c, i)) \cap DOMAIN c.ticks ELSE {}

\* build_swap_instruction.
BuildError(c, i) ==
  IF MarketError(c) # "Ok" THEN MarketError(c)
  ELSE IF live_tick_arrays(c, i) = {} \/ c.pool.dyn = "nofeed" THEN "MissingState"
  ELSE "Ok"

-----------------------------------------------------------------------------
(* The adapter.                                                             *)

BlankCore(pool) ==
  [timestamp |-> 0, pool |-> pool, amm |-> None, vault |-> [i \in Sides |-> None],
   pyth |-> [i \in Sides |-> None], ext |-> None, ticks |-> <<>>]

\* from_account accepts an account that belongs to the program and decodes.
Init ==
  /\ CacheInit
  /\ \E account \in Contents["pool"] \ Undecoded : core = BlankCore(account)
  /\ token_info = None /\ initialized = FALSE /\ current_epoch = 0
  /\ bounds_cache = [i \in Sides |-> <<>>]
  /\ pc = "idle"
  /\ base_accounts = NoAccounts /\ update_accounts = NoAccounts
  /\ outcome = "none" /\ loads = 0 /\ strikes = 0

OracleKeys(c) ==
  IF c.pool.dyn = "off" THEN <<>>
  ELSE <<"vault0", "vault1">> \o IF c.pool.dyn = "on" THEN <<"pyth0", "pyth1">> ELSE <<>>

base_accounts_to_update(c) ==
  <<"pool", "amm", "mints", "bitmap", "clock">> \o OracleKeys(c)

\* Some order of a set of addresses (the code's is that of the indexes).
Listing(S) == CHOOSE s \in [1..Cardinality(S) -> S] : Range(s) = S

\* Defective: only the arrays of one direction.
accounts_to_update_one_way(c) ==
  <<"pool", "amm", "mints", "bitmap">> \o get_swap_tick_arrays(c, 0)
     \o OracleKeys(c) \o <<"clock">>

accounts_to_update(c) ==
  <<"pool", "amm", "mints", "bitmap">> \o Listing(get_all_tick_array_addresses(c))
     \o OracleKeys(c) \o <<"clock">>

\* fetch_account_map: the accounts found, by address.
AccountMap(pubkeys, answer) ==
  [k \in Keys |-> IF k \in Range(pubkeys)
                    THEN answer[CHOOSE i \in DOMAIN pubkeys : pubkeys[i] = k]
                    ELSE None]

Fetched == AccountMap(call[venue].pubkeys, call[venue].answer)

\* A ledger on which a venue that knows the pool refreshes without an error.
Healthy(l) ==
  /\ l["pool"] \notin Undecoded /\ l["mints"] \notin Undecoded
  /\ LET r == update_core(BlankCore(l["pool"]), l)
     IN r.err = "Ok" /\ \A i \in Sides : quote(r.core, i) = "Priced"

\* update_state returns.
Finish(result) ==
  /\ pc' = "idle"
  /\ outcome' = result
  /\ strikes' = IF /\ result \notin {"Ok", "FailedToFetchAccount"}
                   /\ reset_at = Len(log) /\ Healthy(Ledger)
                  THEN strikes + 1 ELSE 0

\* update_state: ask for the accounts that the known pool names.
StartUpdate ==
  /\ pc = "idle"
  /\ pc' = "base"
  /\ Begin(venue, base_accounts_to_update(core))
  /\ base_accounts' = NoAccounts /\ update_accounts' = NoAccounts /\ loads' = 0
  /\ UNCHANGED <<core, token_info, initialized, current_epoch, bounds_cache,
                 outcome, strikes>>

\* External: the cache answers.
CacheAnswer ==
  /\ \E a \in Answers(call[venue].pubkeys) \cup {Failed} : Return(venue, a)
  /\ UNCHANGED venueVars

FetchFailed ==
  /\ pc \in {"base", "full"}
  /\ ~call[venue].pending /\ call[venue].answer = Failed
  /\ Finish("FailedToFetchAccount")
  /\ UNCHANGED <<log, reset_at, call, core, token_info, initialized, current_epoch,
                 bounds_cache, base_accounts, update_accounts, loads>>

\* The first load; then ask for everything, tick arrays included.
BaseLoaded ==
  /\ pc = "base"
  /\ ~call[venue].pending /\ call[venue].answer # Failed
  /\ LET r == update_core(core, Fetched)
     IN /\ base_accounts' = Fetched
        /\ core' = r.core
        /\ IF r.err = "Ok"
             THEN /\ pc' = "full" /\ loads' = 1
                  /\ Begin(venue, accounts_to_update(r.core))
                  /\ UNCHANGED <<outcome, strikes>>
             ELSE Finish(r.err) /\ UNCHANGED <<log, reset_at, call, loads>>
  /\ UNCHANGED <<token_info, initialized, current_epoch, bounds_cache, update_accounts>>

\* core.update_state has decoded the same account, so this cannot fail any more.
clock_from_account_map(m) == m["clock"]

\* The error of refresh_token_info, which replaces the token info as a whole.
refresh_token_info(m) ==
  IF m["mints"] = None THEN "MissingState"
  ELSE IF m["mints"] \in Undecoded THEN "DeserializationFailed"
  ELSE "Ok"

refresh_bounds_cache(c) == [i \in Sides |-> <<c>>]

\* The second load, the epoch, the token info, the bounds.
FullLoaded ==
  /\ pc = "full"
  /\ ~call[venue].pending /\ call[venue].answer # Failed
  /\ LET m == Fetched
         r == update_core(core, m)
         loaded   == r.err = "Ok"
         mintsOk  == loaded /\ refresh_token_info(m) = "Ok"
         boundsOk == mintsOk /\ \A i \in Sides : quote(r.core, i) = "Priced"
     IN /\ update_accounts' = m
        /\ core' = r.core
        /\ loads' = IF loaded THEN 2 ELSE 1
        /\ current_epoch' = IF loaded THEN clock_from_account_map(m).epoch ELSE current_epoch
        /\ token_info' = IF mintsOk THEN m["mints"] ELSE token_info
        /\ bounds_cache' = IF boundsOk THEN refresh_bounds_cache(r.core) ELSE bounds_cache
        /\ initialized' = (initialized \/ boundsOk)
        /\ Finish(IF ~loaded THEN r.err
                  ELSE IF ~mintsOk THEN refresh_token_info(m)
                  ELSE IF ~boundsOk THEN "NoQuotableValue"
                  ELSE "Ok")
  /\ UNCHANGED <<log, reset_at, call, base_accounts>>

LedgerWrite ==
  /\ \E k \in Keys : \E d \in Contents[k] : Write(k, d)
  /\ strikes' = 0
  /\ UNCHANGED <<core, token_info, initialized, current_epoch, bounds_cache, pc,
                 base_accounts, update_accounts, outcome, loads>>

\* The owner of the cache resets it between two updates.
ResetCache == pc = "idle" /\ Reset /\ UNCHANGED venueVars

\* The calls that read the venue, side i sold.
VenueQuote(i) == IF ~initialized THEN "NotInitialized" ELSE quote(core, i)

generate_swap_instruction(i) ==
  IF ~initialized THEN "NotInitialized" ELSE BuildError(core, i)

bounds(i) == IF bounds_cache[i] = <<>> THEN "BoundarySearchFailed" ELSE "Ok"

Next ==
  \/ LedgerWrite \/ ResetCache \/ CacheAnswer
  \/ StartUpdate \/ FetchFailed \/ BaseLoaded \/ FullLoaded

Spec == Init /\ [][Next]_vars

-----------------------------------------------------------------------------
TypeOK ==
  /\ core.pool \in Contents["pool"] \ Undecoded
  /\ core.amm \in (Contents["amm"] \ Undecoded) \cup {None}
  /\ \A i \in Sides :
       /\ core.vault[i] \in (Contents[VaultKey[i]] \ Undecoded) \cup {None}
       /\ core.pyth[i] \in (Contents[PythKey[i]] \ Undecoded) \cup {None}
  /\ DOMAIN core.ticks \subseteq TickArrays
  /\ \A t \in DOMAIN core.ticks : core.ticks[t] \in Contents[t] \ Undecoded
  /\ initialized \in BOOLEAN /\ loads \in 0..2 /\ pc \in {"idle", "base", "full"}

Updated == pc = "idle" /\ outcome = "Ok"

\* An update that returns Ok leaves nothing of earlier updates behind, the pool
\* excepted: clock, configuration, vaults, prices, bitmap extension, tick arrays
\* and token info are what the last account map holds, missing where it holds
\* none, and the bounds belong to the curve in place.  The pool is that of the
\* second answer, or of the first when it is missing from the second; when it is
\* missing from both, the code keeps the one it knew (core.rs 1159-1177, see
\* DocumentedInitialized), and the property says nothing of it.
NoLeftovers ==
  Updated =>
    LET m == update_accounts
    IN /\ m["pool"] # None => core.pool = m["pool"]
       /\ m["pool"] = None /\ base_accounts["pool"] # None =>
            core.pool = base_accounts["pool"]
       /\ core.timestamp = m["clock"].ts /\ current_epoch = m["clock"].epoch
       /\ core.amm = m["amm"] /\ token_info = m["mints"]
       /\ \A i \in Sides : /\ core.vault[i] = m[VaultKey[i]]
                           /\ core.pyth[i] = IF dynamic(core) THEN m[PythKey[i]] ELSE None
       /\ core.ext = IF m["bitmap"] \in Undecoded THEN None ELSE m["bitmap"]
       /\ DOMAIN core.ticks = {t \in get_all_tick_array_addresses(core) :
                                 m[t] \notin Undecoded}
       /\ \A t \in DOMAIN core.ticks : core.ticks[t] = m[t]
       /\ \A i \in Sides : bounds_cache[i] = <<core>>

\* The second fetch covers the window, provided that pool and bitmap are the same
\* in both answers: then no array that the curve may need was left out of the
\* request (get_all_tick_array_addresses, used for the request and for the load).
\* When the pool moves between the answers its window moves with it and arrays may
\* be missing; QuotedCanBeBuilt is what still holds in that case.
WindowRequested ==
  Updated /\ (\A k \in {"pool", "bitmap"} : base_accounts[k] = update_accounts[k]) =>
    get_all_tick_array_addresses(core) \subseteq Range(call[venue].pubkeys)

\* An update that fails between its two loads leaves a venue that quotes
\* nothing, although it stays initialized: the first load emptied the arrays.
FailsClosed ==
  pc = "idle" /\ outcome # "Ok" /\ loads = 1 =>
    \A i \in Sides : quote(core, i) \notin {"Priced", "Illiquid"}

\* What is quoted can be executed: after an update that returned Ok, each
\* direction is priced, has its bounds and gets its swap instruction, even when
\* the pool has moved between the two answers (update_state 282, build_swap_instruction).
QuotedCanBeBuilt ==
  Updated => \A i \in Sides : /\ VenueQuote(i) = "Priced" /\ bounds(i) = "Ok"
                              /\ generate_swap_instruction(i) = "Ok"

\* The first failure may be due to what the venue knew (a pool that has turned
\* its dynamic fee on since); on the same healthy ledger, read afresh, the next
\* update succeeds.
TwoCallsSuffice == strikes <= 1

-----------------------------------------------------------------------------
\* What the trait's documentation says of initialized(): Titan skips venues
\* that "are missing required on-chain accounts".
DocumentedInitialized ==
  Updated /\ initialized => update_accounts["pool"] # None
=============================================================================
