---------------------------- MODULE Venue_proofs ----------------------------
(***************************************************************************)
(* The refresh of a venue, for any contents of its accounts, any tick      *)
(* arrays, any interleaving of writes with the two fetches, and any answer *)
(* that the contract of AccountsCache allows.                              *)
(***************************************************************************)
EXTENDS Venue, FiniteSetTheorems, TLAPS

Decoded(k)  == Contents[k] \ Undecoded
Optional(k) == Decoded(k) \cup {None}
Held == UNION {Contents[k] \cup {None} : k \in Keys}

\* An account map, as fetch_account_map makes it.
IsMap(m) == \A k \in Keys : m[k] \in Contents[k] \cup {None}

Stamps   == {0} \cup {a.ts : a \in Decoded("clock")}
TickMaps == UNION {[S -> Held] : S \in SUBSET TickArrays}

CoreType ==
  [timestamp : Stamps, pool : Decoded("pool"), amm : Optional("amm"),
   vault : [Sides -> Held], pyth : [Sides -> Held], ext : Optional("bitmap"),
   ticks : TickMaps]

\* What CoreType does not say of the fields.
CoreFields(c) ==
  /\ \A i \in Sides : /\ c.vault[i] \in Optional(VaultKey[i])
                      /\ c.pyth[i] \in Optional(PythKey[i])
  /\ \A t \in DOMAIN c.ticks : c.ticks[t] \in Decoded(t)

Errors  == {"Ok", "MissingState", "DeserializationFailed", "UnsupportedVenue"}
Results == [core : CoreType, err : Errors]

-----------------------------------------------------------------------------
USE CacheAssumption, VenueAssumption

\* The names of accounts.
LEMMA KeyFacts ==
  /\ FixedKeys \subseteq Keys /\ TickArrays \subseteq Keys
  /\ Sides = {0, 1}
  /\ \A i \in Sides : /\ VaultKey[i] \in {"vault0", "vault1"} /\ VaultKey[i] \in Keys
                      /\ PythKey[i] \in {"pyth0", "pyth1"} /\ PythKey[i] \in Keys
  /\ VaultKey[0] = "vault0" /\ VaultKey[1] = "vault1"
  /\ PythKey[0] = "pyth0" /\ PythKey[1] = "pyth1"
  /\ {"pool", "amm", "mints", "bitmap", "clock"} \subseteq Keys
  BY DEF FixedKeys, Sides, VaultKey, PythKey

\* What an account map holds.
LEMMA MapValues ==
  ASSUME NEW m, IsMap(m), NEW k \in Keys
  PROVE  /\ m[k] \in Held
         /\ m[k] \notin Undecoded => m[k] \in Decoded(k)
         /\ m[k] \notin Undecoded \ {None} => m[k] \in Optional(k)
  BY DEF Held, IsMap, Decoded, Optional, Undecoded

LEMMA ClockLoad ==
  ASSUME NEW r \in Results, NEW m, IsMap(m), r.err = "Ok",
         NEW s, s = load_clock(r, m)
  PROVE  /\ s \in Results
         /\ s.err = "Ok" <=> m["clock"] \notin Undecoded
         /\ s.err = "Ok" => s.core.timestamp = m["clock"].ts
         /\ s.core.pool = r.core.pool /\ s.core.amm = r.core.amm
         /\ s.core.vault = r.core.vault /\ s.core.pyth = r.core.pyth
         /\ s.core.ext = r.core.ext /\ s.core.ticks = r.core.ticks
<1>1. r.core \in CoreType /\ r.err \in Errors
  BY DEF Results
<1>2. CASE m["clock"] \in Undecoded
  BY <1>1, <1>2 DEF load_clock, Fail, Undecoded, Results, Errors
<1>3. CASE m["clock"] \notin Undecoded
  <2>1. m["clock"].ts \in Stamps
    BY <1>3, KeyFacts, MapValues DEF Stamps
  <2>2. s = [r EXCEPT !.core.timestamp = m["clock"].ts]
    BY <1>3 DEF load_clock, Undecoded
  <2>3. QED
    BY <1>1, <1>3, <2>1, <2>2 DEF Results, CoreType
<1>4. QED
  BY <1>2, <1>3

LEMMA PoolLoad ==
  ASSUME NEW r \in Results, NEW m, IsMap(m), NEW s, s = load_pool(r, m)
  PROVE  /\ s \in Results
         /\ s.err = "Ok" <=> /\ r.err = "Ok"
                             /\ m["pool"] = None \/ m["pool"] \notin Undecoded
         /\ r.err = "Ok" /\ m["pool"] \notin Undecoded => s.core.pool = m["pool"]
         /\ m["pool"] \in Undecoded => s.core.pool = r.core.pool
         /\ s.core.timestamp = r.core.timestamp /\ s.core.amm = r.core.amm
         /\ s.core.vault = r.core.vault /\ s.core.pyth = r.core.pyth
         /\ s.core.ext = r.core.ext /\ s.core.ticks = r.core.ticks
<1>1. r.core \in CoreType /\ r.err \in Errors
  BY DEF Results
<1>2. CASE r.err # "Ok" \/ m["pool"] \in Undecoded
  BY <1>1, <1>2 DEF load_pool, Fail, Undecoded, Results, Errors
<1>3. CASE r.err = "Ok" /\ m["pool"] \notin Undecoded
  <2>1. m["pool"] \in Decoded("pool")
    BY <1>3, KeyFacts, MapValues
  <2>2. s = [r EXCEPT !.core.pool = m["pool"]]
    BY <1>3 DEF load_pool, Undecoded
  <2>3. QED
    BY <1>1, <1>3, <2>1, <2>2 DEF Results, CoreType
<1>4. QED
  BY <1>2, <1>3

LEMMA AmmLoad ==
  ASSUME NEW r \in Results, NEW m, IsMap(m), NEW s, s = load_amm_config(r, m)
  PROVE  /\ s \in Results
         /\ s.err = "Ok" <=> /\ r.err = "Ok"
                             /\ m["amm"] \notin Undecoded \ {None}
         /\ s.err = "Ok" => s.core.amm = m["amm"]
         /\ s.core.timestamp = r.core.timestamp /\ s.core.pool = r.core.pool
         /\ s.core.vault = r.core.vault /\ s.core.pyth = r.core.pyth
         /\ s.core.ext = r.core.ext /\ s.core.ticks = r.core.ticks
<1>1. r.core \in CoreType /\ r.err \in Errors
  BY DEF Results
<1>2. CASE r.err # "Ok" \/ m["amm"] \in Undecoded \ {None}
  BY <1>1, <1>2 DEF load_amm_config, Fail, Results, Errors
<1>3. CASE r.err = "Ok" /\ m["amm"] \notin Undecoded \ {None}
  <2>1. m["amm"] \in Optional("amm")
    BY <1>3, KeyFacts, MapValues
  <2>2. s = [r EXCEPT !.core.amm = m["amm"]]
    BY <1>3 DEF load_amm_config
  <2>3. QED
    BY <1>1, <1>3, <2>1, <2>2 DEF Results, CoreType
<1>4. QED
  BY <1>2, <1>3

LEMMA VaultLoad ==
  ASSUME NEW r \in Results, NEW m, IsMap(m), NEW i \in Sides,
         NEW s, s = load_vault(r, m, i)
  PROVE  /\ s \in Results
         /\ s.err = "Ok" <=> /\ r.err = "Ok"
                             /\ m[VaultKey[i]] \notin Undecoded \ {None}
         /\ s.err = "Ok" => s.core.vault[i] = m[VaultKey[i]]
         /\ s.core.vault[i] \in {r.core.vault[i], m[VaultKey[i]]}
         /\ s.core.vault[i] # r.core.vault[i] => m[VaultKey[i]] \notin Undecoded \ {None}
         /\ \A j \in Sides \ {i} : s.core.vault[j] = r.core.vault[j]
         /\ s.core.timestamp = r.core.timestamp /\ s.core.pool = r.core.pool
         /\ s.core.amm = r.core.amm /\ s.core.pyth = r.core.pyth
         /\ s.core.ext = r.core.ext /\ s.core.ticks = r.core.ticks
<1>1. r.core \in CoreType /\ r.err \in Errors /\ r.core.vault \in [Sides -> Held]
  BY DEF Results, CoreType
<1>2. CASE r.err # "Ok" \/ m[VaultKey[i]] \in Undecoded \ {None}
  BY <1>1, <1>2 DEF load_vault, Fail, Results, Errors
<1>3. CASE r.err = "Ok" /\ m[VaultKey[i]] \notin Undecoded \ {None}
  <2>1. PICK v \in Held : v = m[VaultKey[i]]
    BY KeyFacts, MapValues
  <2>2. s = [r EXCEPT !.core.vault[i] = v]
    BY <1>3, <2>1 DEF load_vault
  <2>3. /\ s \in Results /\ s.err = "Ok" /\ s.core.vault = [r.core.vault EXCEPT ![i] = v]
        /\ s.core.timestamp = r.core.timestamp /\ s.core.pool = r.core.pool
        /\ s.core.amm = r.core.amm /\ s.core.pyth = r.core.pyth
        /\ s.core.ext = r.core.ext /\ s.core.ticks = r.core.ticks
    BY <1>1, <1>3, <2>1, <2>2 DEF Results, CoreType
  <2>4. QED
    BY <1>1, <1>3, <2>1, <2>3
<1>4. QED
  BY <1>2, <1>3

LEMMA PythLoad ==
  ASSUME NEW r \in Results, NEW m, IsMap(m), NEW i \in Sides,
         NEW s, s = load_pyth(r, m, i)
  PROVE  /\ s \in Results
         /\ s.err = "Ok" <=> /\ r.err = "Ok"
                             /\ m[PythKey[i]] \notin Undecoded
         /\ s.err = "Ok" => s.core.pyth[i] = m[PythKey[i]]
         /\ s.core.pyth[i] \in {r.core.pyth[i], m[PythKey[i]]}
         /\ s.core.pyth[i] # r.core.pyth[i] => m[PythKey[i]] \notin Undecoded
         /\ \A j \in Sides \ {i} : s.core.pyth[j] = r.core.pyth[j]
         /\ s.core.timestamp = r.core.timestamp /\ s.core.pool = r.core.pool
         /\ s.core.amm = r.core.amm /\ s.core.vault = r.core.vault
         /\ s.core.ext = r.core.ext /\ s.core.ticks = r.core.ticks
<1>1. r.core \in CoreType /\ r.err \in Errors /\ r.core.pyth \in [Sides -> Held]
  BY DEF Results, CoreType
<1>2. CASE r.err # "Ok" \/ m[PythKey[i]] \in Undecoded
  BY <1>1, <1>2 DEF load_pyth, Fail, Undecoded, Results, Errors
<1>3. CASE r.err = "Ok" /\ m[PythKey[i]] \notin Undecoded
  <2>1. PICK v \in Held : v = m[PythKey[i]]
    BY KeyFacts, MapValues
  <2>2. s = [r EXCEPT !.core.pyth[i] = v]
    BY <1>3, <2>1 DEF load_pyth, Undecoded
  <2>3. /\ s \in Results /\ s.err = "Ok" /\ s.core.pyth = [r.core.pyth EXCEPT ![i] = v]
        /\ s.core.timestamp = r.core.timestamp /\ s.core.pool = r.core.pool
        /\ s.core.amm = r.core.amm /\ s.core.vault = r.core.vault
        /\ s.core.ext = r.core.ext /\ s.core.ticks = r.core.ticks
    BY <1>1, <1>3, <2>1, <2>2 DEF Results, CoreType
  <2>4. QED
    BY <1>1, <1>3, <2>1, <2>3
<1>4. QED
  BY <1>2, <1>3

\* When the oracles of a pool can be loaded.
OraclesOk(c, m) ==
  dynamic(c) => /\ \A i \in Sides : c.vault[i] # None /\ m[PythKey[i]] \notin Undecoded
                /\ c.pool.dyn # "nofeed"

LEMMA OracleLoad ==
  ASSUME NEW r \in Results, NEW m, IsMap(m), NEW s, s = load_oracles(r, m)
  PROVE  /\ s \in Results
         /\ s.err = "Ok" <=> r.err = "Ok" /\ OraclesOk(r.core, m)
         /\ s.err = "Ok" =>
              \A i \in Sides : s.core.pyth[i] = IF dynamic(r.core) THEN m[PythKey[i]] ELSE None
         /\ \A i \in Sides : \/ s.core.pyth[i] = r.core.pyth[i]
                             \/ s.core.pyth[i] = None
                             \/ /\ s.core.pyth[i] = m[PythKey[i]]
                                /\ m[PythKey[i]] \notin Undecoded
         /\ s.core.timestamp = r.core.timestamp /\ s.core.pool = r.core.pool
         /\ s.core.amm = r.core.amm /\ s.core.vault = r.core.vault
         /\ s.core.ext = r.core.ext /\ s.core.ticks = r.core.ticks
<1>1. r.core \in CoreType /\ r.err \in Errors
  BY DEF Results
<1>2. CASE r.err # "Ok"
  BY <1>1, <1>2 DEF load_oracles
<1>3. CASE r.err = "Ok" /\ ~dynamic(r.core)
  <2>1. PICK none : none = [i \in Sides |-> None]
    OBVIOUS
  <2>2. none \in [Sides -> Held]
    BY <2>1, KeyFacts DEF Held
  <2>3. s = [r EXCEPT !.core.pyth = none]
    BY <1>3, <2>1 DEF load_oracles
  <2>4. /\ s \in Results /\ s.err = "Ok" /\ s.core.pyth = none
        /\ s.core.timestamp = r.core.timestamp /\ s.core.pool = r.core.pool
        /\ s.core.amm = r.core.amm /\ s.core.vault = r.core.vault
        /\ s.core.ext = r.core.ext /\ s.core.ticks = r.core.ticks
    BY <1>1, <1>3, <2>2, <2>3 DEF Results, CoreType
  <2>5. QED
    BY <1>3, <2>1, <2>4 DEF OraclesOk
<1>4. CASE /\ r.err = "Ok" /\ dynamic(r.core)
           /\ (\E i \in Sides : r.core.vault[i] = None) \/ r.core.pool.dyn = "nofeed"
  <2>1. s = Fail(r, "MissingState")
    BY <1>4 DEF load_oracles
  <2>2. QED
    BY <1>1, <1>4, <2>1 DEF Fail, Results, Errors, OraclesOk
<1>5. CASE /\ r.err = "Ok" /\ dynamic(r.core)
           /\ ~((\E i \in Sides : r.core.vault[i] = None) \/ r.core.pool.dyn = "nofeed")
  <2>1. PICK q, p : q = load_pyth(r, m, 0) /\ p = load_pyth(q, m, 1)
    OBVIOUS
  <2>2. s = p
    BY <1>5, <2>1 DEF load_oracles
  <2>3. 0 \in Sides /\ 1 \in Sides /\ \A i \in Sides : i = 0 \/ i = 1
    BY DEF Sides
  <2>4. /\ q \in Results
        /\ q.err = "Ok" <=> m[PythKey[0]] \notin Undecoded
        /\ q.err = "Ok" => q.core.pyth[0] = m[PythKey[0]]
        /\ q.core.pyth[0] \in {r.core.pyth[0], m[PythKey[0]]}
        /\ q.core.pyth[0] # r.core.pyth[0] => m[PythKey[0]] \notin Undecoded
        /\ q.core.pyth[1] = r.core.pyth[1]
        /\ q.core.timestamp = r.core.timestamp /\ q.core.pool = r.core.pool
        /\ q.core.amm = r.core.amm /\ q.core.vault = r.core.vault
        /\ q.core.ext = r.core.ext /\ q.core.ticks = r.core.ticks
    BY <1>5, <2>1, <2>3, PythLoad
  <2>5. /\ p \in Results
        /\ p.err = "Ok" <=> q.err = "Ok" /\ m[PythKey[1]] \notin Undecoded
        /\ p.err = "Ok" => p.core.pyth[1] = m[PythKey[1]]
        /\ p.core.pyth[1] \in {q.core.pyth[1], m[PythKey[1]]}
        /\ p.core.pyth[1] # q.core.pyth[1] => m[PythKey[1]] \notin Undecoded
        /\ p.core.pyth[0] = q.core.pyth[0]
        /\ p.core.timestamp = q.core.timestamp /\ p.core.pool = q.core.pool
        /\ p.core.amm = q.core.amm /\ p.core.vault = q.core.vault
        /\ p.core.ext = q.core.ext /\ p.core.ticks = q.core.ticks
    <3>1. q \in Results /\ p = load_pyth(q, m, 1) /\ 1 \in Sides
      BY <2>1, <2>3, <2>4
    <3>2. /\ p \in Results
          /\ p.err = "Ok" <=> q.err = "Ok" /\ m[PythKey[1]] \notin Undecoded
          /\ p.err = "Ok" => p.core.pyth[1] = m[PythKey[1]]
          /\ p.core.pyth[1] \in {q.core.pyth[1], m[PythKey[1]]}
          /\ p.core.pyth[1] # q.core.pyth[1] => m[PythKey[1]] \notin Undecoded
      BY <3>1, PythLoad
    <3>3. \A j \in Sides \ {1} : p.core.pyth[j] = q.core.pyth[j]
      BY <3>1, PythLoad
    <3>4. /\ p.core.timestamp = q.core.timestamp /\ p.core.pool = q.core.pool
          /\ p.core.amm = q.core.amm /\ p.core.vault = q.core.vault
          /\ p.core.ext = q.core.ext /\ p.core.ticks = q.core.ticks
      BY <3>1, PythLoad
    <3>5. QED
      BY <2>3, <3>2, <3>3, <3>4
  <2>6. p.err = "Ok" <=> OraclesOk(r.core, m)
    BY <1>5, <2>3, <2>4, <2>5 DEF OraclesOk
  <2>7. QED
    BY <1>5, <2>2, <2>3, <2>4, <2>5, <2>6
<1>6. QED
  BY <1>2, <1>3, <1>4, <1>5

LEMMA BitmapLoad ==
  ASSUME NEW r \in Results, NEW m, IsMap(m), NEW s, s = load_bitmap(r, m)
  PROVE  /\ s \in Results /\ s.err = r.err
         /\ s.err = "Ok" =>
              s.core.ext = IF m["bitmap"] \in Undecoded THEN None ELSE m["bitmap"]
         /\ s.core.timestamp = r.core.timestamp /\ s.core.pool = r.core.pool
         /\ s.core.amm = r.core.amm /\ s.core.vault = r.core.vault
         /\ s.core.pyth = r.core.pyth /\ s.core.ticks = r.core.ticks
<1>1. r.core \in CoreType /\ r.err \in Errors
  BY DEF Results
<1>2. PICK e : e = IF m["bitmap"] \in Undecoded THEN None ELSE m["bitmap"]
  OBVIOUS
<1>3. e \in Optional("bitmap")
  BY <1>2, KeyFacts, MapValues DEF Optional
<1>4. CASE r.err # "Ok"
  BY <1>1, <1>4 DEF load_bitmap
<1>5. CASE r.err = "Ok"
  <2>1. s = [r EXCEPT !.core.ext = e]
    BY <1>2, <1>5 DEF load_bitmap
  <2>2. QED
    BY <1>1, <1>2, <1>3, <1>5, <2>1 DEF Results, CoreType
<1>6. QED
  BY <1>4, <1>5

\* The window of a core consists of tick arrays and is finite.
LEMMA RangeFacts ==
  ASSUME NEW S, NEW q \in Seq(S)
  PROVE  /\ Range(q) \subseteq S /\ IsFiniteSet(Range(q))
         /\ q # <<>> => Head(q) \in Range(q)
<1>1. q \in Surjection(1..Len(q), Range(q))
  BY DEF Range, Surjection
<1>2. IsFiniteSet(1..Len(q))
  BY FS_Interval
<1>3. IsFiniteSet(Range(q))
  BY <1>1, <1>2, FS_Surjection
<1>4. QED
  BY <1>3 DEF Range

LEMMA WindowFacts ==
  ASSUME NEW c \in CoreType
  PROVE  /\ get_all_tick_array_addresses(c) \subseteq TickArrays
         /\ IsFiniteSet(get_all_tick_array_addresses(c))
         /\ \A i \in Sides : Walk(c, i) \in Seq(TickArrays)
<1>1. c.pool \in Contents["pool"] \ {None, Foreign, Garbage}
  BY DEF CoreType, Decoded, Undecoded
<1>2. \A i \in Sides : c.pool.walk[i] \in Seq(TickArrays) /\ c.pool.near[i] \in Seq(TickArrays)
  BY <1>1, PoolAssumption
<1>3. \A i \in Sides : Walk(c, i) \in Seq(TickArrays)
  BY <1>2 DEF Walk
<1>4. 0 \in Sides /\ 1 \in Sides
  BY DEF Sides
<1>5. ASSUME NEW q \in Seq(TickArrays)
      PROVE  Range(q) \subseteq TickArrays /\ IsFiniteSet(Range(q))
  BY RangeFacts
<1>6. /\ Range(Walk(c, 0)) \cup Range(Walk(c, 1)) \subseteq TickArrays
      /\ IsFiniteSet(Range(Walk(c, 0)) \cup Range(Walk(c, 1)))
  BY <1>3, <1>4, <1>5, FS_Union
<1>7. Range(c.pool.near[0]) \subseteq TickArrays /\ IsFiniteSet(Range(c.pool.near[0]))
  BY <1>2, <1>4, <1>5
<1>8. QED
  BY <1>3, <1>6, <1>7 DEF get_all_tick_array_addresses

LEMMA TicksLoad ==
  ASSUME NEW r \in Results, NEW m, IsMap(m), NEW s, s = load_tick_arrays(r, m)
  PROVE  /\ s \in Results /\ s.err = r.err
         /\ r.err # "Ok" => s = r
         /\ r.err = "Ok" =>
              /\ DOMAIN s.core.ticks = {t \in get_all_tick_array_addresses(r.core) :
                                          m[t] \notin Undecoded}
              /\ \A t \in DOMAIN s.core.ticks : s.core.ticks[t] = m[t]
         /\ s.core.timestamp = r.core.timestamp /\ s.core.pool = r.core.pool
         /\ s.core.amm = r.core.amm /\ s.core.vault = r.core.vault
         /\ s.core.pyth = r.core.pyth /\ s.core.ext = r.core.ext
<1>1. r.core \in CoreType /\ r.err \in Errors
  BY DEF Results
<1>2. PICK got : got = {t \in get_all_tick_array_addresses(r.core) : m[t] \notin Undecoded}
  OBVIOUS
<1>3. PICK ticks : ticks = [t \in got |-> m[t]]
  OBVIOUS
<1>4. ticks \in TickMaps
  <2>1. got \subseteq TickArrays
    BY <1>1, <1>2, WindowFacts
  <2>2. \A t \in got : m[t] \in Held
    BY <2>1, KeyFacts, MapValues
  <2>3. ticks \in [got -> Held]
    BY <1>3, <2>2
  <2>4. QED
    BY <2>1, <2>3 DEF TickMaps
<1>5. CASE r.err # "Ok"
  BY <1>1, <1>5 DEF load_tick_arrays
<1>6. CASE r.err = "Ok"
  <2>1. s = [r EXCEPT !.core.ticks = ticks]
    BY <1>2, <1>3, <1>6 DEF load_tick_arrays
  <2>2. /\ s \in Results /\ s.err = "Ok" /\ s.core.ticks = ticks
        /\ s.core.timestamp = r.core.timestamp /\ s.core.pool = r.core.pool
        /\ s.core.amm = r.core.amm /\ s.core.vault = r.core.vault
        /\ s.core.pyth = r.core.pyth /\ s.core.ext = r.core.ext
    BY <1>1, <1>4, <1>6, <2>1 DEF Results, CoreType
  <2>3. QED
    BY <1>2, <1>3, <1>6, <2>2
<1>7. QED
  BY <1>5, <1>6

-----------------------------------------------------------------------------
(* One load of the core, as a whole.                                       *)

NewPool(c, m) == IF m["pool"] \in Undecoded THEN c.pool ELSE m["pool"]

\* When a load succeeds, given the pool p that it ends up with.
LoadOk(p, m) ==
  /\ m["clock"] \notin Undecoded
  /\ m["pool"] = None \/ m["pool"] \notin Undecoded
  /\ m["amm"] \notin Undecoded \ {None}
  /\ \A i \in Sides : m[VaultKey[i]] \notin Undecoded \ {None}
  /\ p.dyn # "off" => /\ p.dyn # "nofeed"
                      /\ \A i \in Sides : /\ m[VaultKey[i]] # None
                                          /\ m[PythKey[i]] \notin Undecoded

NewExt(m) == IF m["bitmap"] \in Undecoded THEN None ELSE m["bitmap"]

\* What a load that succeeds makes of a core.
LoadedFrom(d, p, m) ==
  /\ d.timestamp = m["clock"].ts /\ d.pool = p /\ d.amm = m["amm"]
  /\ \A i \in Sides : /\ d.vault[i] = m[VaultKey[i]]
                      /\ d.pyth[i] = IF dynamic(d) THEN m[PythKey[i]] ELSE None
  /\ d.ext = NewExt(m)
  /\ DOMAIN d.ticks = {t \in get_all_tick_array_addresses(d) : m[t] \notin Undecoded}
  /\ \A t \in DOMAIN d.ticks : d.ticks[t] = m[t]

\* update_core: what it returns, and what a failure leaves.
LEMMA UpdateCore ==
  ASSUME NEW c \in CoreType, NEW m, IsMap(m), NEW r, r = update_core(c, m)
  PROVE  /\ r \in Results
         /\ r.err = "Ok" <=> LoadOk(NewPool(c, m), m)
         /\ r.err = "Ok" => LoadedFrom(r.core, NewPool(c, m), m)
         /\ r.err # "Ok" => r.core.ticks = c.ticks
         /\ m["clock"] \notin Undecoded /\ m["pool"] \notin Undecoded =>
              r.core.pool = m["pool"]
         /\ CoreFields(c) => CoreFields(r.core)
<1>1. PICK r0, r1, r2, r3, r4, r5, r6, r7 :
        /\ r0 = [core |-> c, err |-> "Ok"]
        /\ r1 = load_clock(r0, m) /\ r2 = load_pool(r1, m)
        /\ r3 = load_amm_config(r2, m) /\ r4 = load_vault(r3, m, 0)
        /\ r5 = load_vault(r4, m, 1) /\ r6 = load_oracles(r5, m)
        /\ r7 = load_bitmap(r6, m)
  OBVIOUS
<1>2. r = load_tick_arrays(r7, m)
  BY <1>1 DEF update_core
<1>3. r0 \in Results /\ r0.core = c /\ r0.err = "Ok"
  BY <1>1 DEF Results, Errors
<1>4. 0 \in Sides /\ 1 \in Sides /\ \A i \in Sides : i = 0 \/ i = 1
  BY DEF Sides
<1>5. /\ r1 \in Results
      /\ r1.err = "Ok" <=> m["clock"] \notin Undecoded
      /\ r1.err = "Ok" => r1.core.timestamp = m["clock"].ts
      /\ r1.core.pool = c.pool /\ r1.core.vault = c.vault /\ r1.core.pyth = c.pyth
      /\ r1.core.ticks = c.ticks
  BY <1>1, <1>3, ClockLoad
<1>6. /\ r2 \in Results
      /\ r2.err = "Ok" <=> /\ r1.err = "Ok"
                           /\ m["pool"] = None \/ m["pool"] \notin Undecoded
      /\ r1.err = "Ok" /\ m["pool"] \notin Undecoded => r2.core.pool = m["pool"]
      /\ m["pool"] \in Undecoded => r2.core.pool = c.pool
      /\ r2.core.timestamp = r1.core.timestamp /\ r2.core.vault = c.vault
      /\ r2.core.pyth = c.pyth /\ r2.core.ticks = c.ticks
  BY <1>1, <1>5, PoolLoad
<1>7. /\ r3 \in Results
      /\ r3.err = "Ok" <=> r2.err = "Ok" /\ m["amm"] \notin Undecoded \ {None}
      /\ r3.err = "Ok" => r3.core.amm = m["amm"]
      /\ r3.core.timestamp = r1.core.timestamp /\ r3.core.pool = r2.core.pool
      /\ r3.core.vault = c.vault /\ r3.core.pyth = c.pyth /\ r3.core.ticks = c.ticks
  BY <1>1, <1>6, AmmLoad
<1>8. /\ r4 \in Results
      /\ r4.err = "Ok" <=> r3.err = "Ok" /\ m[VaultKey[0]] \notin Undecoded \ {None}
      /\ r4.err = "Ok" => r4.core.vault[0] = m[VaultKey[0]]
      /\ r4.core.vault[0] # c.vault[0] => /\ r4.core.vault[0] = m[VaultKey[0]]
                                          /\ m[VaultKey[0]] \notin Undecoded \ {None}
      /\ r4.core.vault[1] = c.vault[1]
      /\ r4.core.timestamp = r1.core.timestamp /\ r4.core.pool = r2.core.pool
      /\ r4.core.amm = r3.core.amm /\ r4.core.pyth = c.pyth /\ r4.core.ticks = c.ticks
  <2>1. r4 = load_vault(r3, m, 0) /\ r3 \in Results /\ 0 \in Sides
    BY <1>1, <1>4, <1>7
  <2>2. /\ r4 \in Results
        /\ r4.err = "Ok" <=> r3.err = "Ok" /\ m[VaultKey[0]] \notin Undecoded \ {None}
        /\ r4.err = "Ok" => r4.core.vault[0] = m[VaultKey[0]]
        /\ r4.core.vault[0] \in {r3.core.vault[0], m[VaultKey[0]]}
        /\ r4.core.vault[0] # r3.core.vault[0] => m[VaultKey[0]] \notin Undecoded \ {None}
    BY <2>1, VaultLoad
  <2>3. /\ \A j \in Sides \ {0} : r4.core.vault[j] = r3.core.vault[j]
        /\ r4.core.timestamp = r3.core.timestamp /\ r4.core.pool = r3.core.pool
        /\ r4.core.amm = r3.core.amm /\ r4.core.pyth = r3.core.pyth
        /\ r4.core.ticks = r3.core.ticks
    BY <2>1, VaultLoad
  <2>4. QED
    BY <1>4, <1>7, <2>2, <2>3
<1>9. /\ r5 \in Results
      /\ r5.err = "Ok" <=> r4.err = "Ok" /\ m[VaultKey[1]] \notin Undecoded \ {None}
      /\ r5.err = "Ok" => r5.core.vault[1] = m[VaultKey[1]]
      /\ r5.core.vault[1] # c.vault[1] => /\ r5.core.vault[1] = m[VaultKey[1]]
                                          /\ m[VaultKey[1]] \notin Undecoded \ {None}
      /\ r5.core.vault[0] = r4.core.vault[0]
      /\ r5.core.timestamp = r1.core.timestamp /\ r5.core.pool = r2.core.pool
      /\ r5.core.amm = r3.core.amm /\ r5.core.pyth = c.pyth /\ r5.core.ticks = c.ticks
  <2>1. r5 = load_vault(r4, m, 1) /\ r4 \in Results /\ 1 \in Sides
    BY <1>1, <1>4, <1>8
  <2>2. /\ r5 \in Results
        /\ r5.err = "Ok" <=> r4.err = "Ok" /\ m[VaultKey[1]] \notin Undecoded \ {None}
        /\ r5.err = "Ok" => r5.core.vault[1] = m[VaultKey[1]]
        /\ r5.core.vault[1] \in {r4.core.vault[1], m[VaultKey[1]]}
        /\ r5.core.vault[1] # r4.core.vault[1] => m[VaultKey[1]] \notin Undecoded \ {None}
    BY <2>1, VaultLoad
  <2>3. /\ \A j \in Sides \ {1} : r5.core.vault[j] = r4.core.vault[j]
        /\ r5.core.timestamp = r4.core.timestamp /\ r5.core.pool = r4.core.pool
        /\ r5.core.amm = r4.core.amm /\ r5.core.pyth = r4.core.pyth
        /\ r5.core.ticks = r4.core.ticks
    BY <2>1, VaultLoad
  <2>4. QED
    BY <1>4, <1>8, <2>2, <2>3
<1>10. /\ r6 \in Results
       /\ r6.err = "Ok" <=> r5.err = "Ok" /\ OraclesOk(r5.core, m)
       /\ r6.err = "Ok" =>
            \A i \in Sides : r6.core.pyth[i] = IF dynamic(r5.core) THEN m[PythKey[i]] ELSE None
       /\ \A i \in Sides : \/ r6.core.pyth[i] = c.pyth[i]
                           \/ r6.core.pyth[i] = None
                           \/ /\ r6.core.pyth[i] = m[PythKey[i]]
                              /\ m[PythKey[i]] \notin Undecoded
       /\ r6.core.timestamp = r1.core.timestamp /\ r6.core.pool = r2.core.pool
       /\ r6.core.amm = r3.core.amm /\ r6.core.vault = r5.core.vault
       /\ r6.core.ticks = c.ticks
  <2>1. r6 = load_oracles(r5, m) /\ r5 \in Results
    BY <1>1, <1>9
  <2>2. /\ r6 \in Results
        /\ r6.err = "Ok" <=> r5.err = "Ok" /\ OraclesOk(r5.core, m)
        /\ r6.err = "Ok" =>
            \A i \in Sides : r6.core.pyth[i] = IF dynamic(r5.core) THEN m[PythKey[i]] ELSE None
    BY <2>1, OracleLoad
  <2>3. \A i \in Sides : \/ r6.core.pyth[i] = r5.core.pyth[i]
                         \/ r6.core.pyth[i] = None
                         \/ /\ r6.core.pyth[i] = m[PythKey[i]]
                            /\ m[PythKey[i]] \notin Undecoded
    BY <2>1, OracleLoad
  <2>4. /\ r6.core.timestamp = r5.core.timestamp /\ r6.core.pool = r5.core.pool
        /\ r6.core.amm = r5.core.amm /\ r6.core.vault = r5.core.vault
        /\ r6.core.ticks = r5.core.ticks
    BY <2>1, OracleLoad
  <2>5. QED
    BY <1>9, <2>2, <2>3, <2>4
<1>11. /\ r7 \in Results /\ r7.err = r6.err
       /\ r7.err = "Ok" => r7.core.ext = NewExt(m)
       /\ r7.core.timestamp = r1.core.timestamp /\ r7.core.pool = r2.core.pool
       /\ r7.core.amm = r3.core.amm /\ r7.core.vault = r5.core.vault
       /\ r7.core.pyth = r6.core.pyth /\ r7.core.ticks = c.ticks
  BY <1>1, <1>10, BitmapLoad DEF NewExt
<1>12. /\ r \in Results /\ r.err = r6.err
       /\ r.err # "Ok" => r.core.ticks = c.ticks
       /\ r.err = "Ok" =>
            /\ DOMAIN r.core.ticks = {t \in get_all_tick_array_addresses(r7.core) :
                                        m[t] \notin Undecoded}
            /\ \A t \in DOMAIN r.core.ticks : r.core.ticks[t] = m[t]
       /\ r.core.timestamp = r1.core.timestamp /\ r.core.pool = r2.core.pool
       /\ r.core.amm = r3.core.amm /\ r.core.vault = r5.core.vault
       /\ r.core.pyth = r6.core.pyth /\ r.core.ext = r7.core.ext
  BY <1>2, <1>11, TicksLoad
<1>13. get_all_tick_array_addresses(r7.core) = get_all_tick_array_addresses(r.core)
  BY <1>11, <1>12 DEF get_all_tick_array_addresses, Walk
<1>14. r5.err = "Ok" => r5.core.pool = NewPool(c, m)
  BY <1>6, <1>7, <1>8, <1>9 DEF NewPool
<1>15. r.err = "Ok" <=> LoadOk(NewPool(c, m), m)
  BY <1>4, <1>5, <1>6, <1>7, <1>8, <1>9, <1>10, <1>12, <1>14
     DEF LoadOk, OraclesOk, dynamic
<1>16. ASSUME r.err = "Ok" PROVE LoadedFrom(r.core, NewPool(c, m), m)
  <2>1. r1.err = "Ok" /\ r3.err = "Ok" /\ r4.err = "Ok" /\ r5.err = "Ok" /\ r6.err = "Ok"
    BY <1>7, <1>8, <1>9, <1>10, <1>12, <1>6, <1>16
  <2>2. r.core.pool = NewPool(c, m) /\ dynamic(r5.core) = dynamic(r.core)
    BY <2>1, <1>9, <1>12, <1>14 DEF dynamic
  <2>3. \A i \in Sides : r.core.vault[i] = m[VaultKey[i]]
    BY <2>1, <1>4, <1>8, <1>9, <1>12
  <2>4. \A i \in Sides : r.core.pyth[i] = IF dynamic(r.core) THEN m[PythKey[i]] ELSE None
    BY <2>1, <2>2, <1>10, <1>12
  <2>5. r.core.timestamp = m["clock"].ts /\ r.core.amm = m["amm"] /\ r.core.ext = NewExt(m)
    BY <2>1, <1>5, <1>7, <1>11, <1>12
  <2>6. QED
    BY <2>2, <2>3, <2>4, <2>5, <1>12, <1>13, <1>16 DEF LoadedFrom
<1>17. m["clock"] \notin Undecoded /\ m["pool"] \notin Undecoded => r.core.pool = m["pool"]
  BY <1>5, <1>6, <1>12
<1>18. ASSUME CoreFields(c) PROVE CoreFields(r.core)
  <2>1. \A i \in Sides : r.core.vault[i] = c.vault[i] \/ r.core.vault[i] \in Optional(VaultKey[i])
    BY <1>4, <1>8, <1>9, <1>12, KeyFacts, MapValues
  <2>2. \A i \in Sides : r.core.pyth[i] = c.pyth[i] \/ r.core.pyth[i] \in Optional(PythKey[i])
    <3>1. \A i \in Sides : m[PythKey[i]] \notin Undecoded => m[PythKey[i]] \in Decoded(PythKey[i])
      BY KeyFacts, MapValues
    <3>2. QED
      BY <3>1, <1>10, <1>12 DEF Optional
  <2>3. r.core \in CoreType
    BY <1>12 DEF Results
  <2>4. \A t \in DOMAIN r.core.ticks : r.core.ticks[t] \in Decoded(t)
    <3>1. CASE r.err # "Ok"
      BY <3>1, <1>12, <1>18 DEF CoreFields
    <3>2. CASE r.err = "Ok"
      <4>1. \A t \in TickArrays : m[t] \notin Undecoded => m[t] \in Decoded(t)
        BY KeyFacts, MapValues
      <4>2. get_all_tick_array_addresses(r.core) \subseteq TickArrays
        BY <2>3, WindowFacts
      <4>3. QED
        BY <3>2, <4>1, <4>2, <1>12, <1>13
    <3>3. QED
      BY <3>1, <3>2
  <2>5. QED
    BY <2>1, <2>2, <2>4, <1>18 DEF CoreFields
<1>19. QED
  BY <1>12, <1>15, <1>16, <1>17, <1>18

-----------------------------------------------------------------------------
(* The requests, and the account maps that answer them.                    *)

LEMMA RangeConcat ==
  ASSUME NEW S, NEW s \in Seq(S), NEW t \in Seq(S)
  PROVE  s \o t \in Seq(S) /\ Range(s \o t) = Range(s) \cup Range(t)
<1>1. s \o t \in Seq(S) /\ Len(s \o t) = Len(s) + Len(t)
  OBVIOUS
<1>2. ASSUME NEW i \in DOMAIN s PROVE s[i] \in Range(s \o t)
  <2>1. i \in DOMAIN (s \o t) /\ (s \o t)[i] = s[i]
    OBVIOUS
  <2>2. QED
    BY <2>1 DEF Range
<1>3. ASSUME NEW i \in DOMAIN t PROVE t[i] \in Range(s \o t)
  <2>1. i + Len(s) \in DOMAIN (s \o t) /\ (s \o t)[i + Len(s)] = t[i]
    OBVIOUS
  <2>2. QED
    BY <2>1 DEF Range
<1>4. ASSUME NEW i \in DOMAIN (s \o t)
      PROVE  (s \o t)[i] \in Range(s) \cup Range(t)
  <2>1. CASE i <= Len(s)
    <3>1. i \in DOMAIN s /\ (s \o t)[i] = s[i]
      BY <2>1
    <3>2. QED
      BY <3>1 DEF Range
  <2>2. CASE i > Len(s)
    <3>1. i - Len(s) \in DOMAIN t /\ (s \o t)[i] = t[i - Len(s)]
      BY <2>2
    <3>2. QED
      BY <3>1 DEF Range
  <2>3. QED
    BY <2>1, <2>2
<1>5. QED
  BY <1>1, <1>2, <1>3, <1>4 DEF Range

LEMMA ListingFacts ==
  ASSUME NEW S, IsFiniteSet(S)
  PROVE  Listing(S) \in Seq(S) /\ Range(Listing(S)) = S
<1>1. PICK n \in Nat : n = Cardinality(S)
  BY FS_CardinalityType
<1>2. PICK f : f \in Bijection(1..n, S)
  BY <1>1, FS_CardinalityType DEF ExistsBijection
<1>3. f \in [1..n -> S] /\ Range(f) = S
  BY <1>2 DEF Bijection, Injection, Surjection, Range
<1>4. Listing(S) \in [1..n -> S] /\ Range(Listing(S)) = S
  BY <1>1, <1>3 DEF Listing
<1>5. QED
  BY <1>4

LEMMA OracleKeysFacts ==
  ASSUME NEW c \in CoreType
  PROVE  /\ OracleKeys(c) \in Seq(FixedKeys)
         /\ c.pool.dyn # "off" => {"vault0", "vault1"} \subseteq Range(OracleKeys(c))
         /\ c.pool.dyn = "on" => {"pyth0", "pyth1"} \subseteq Range(OracleKeys(c))
<1>1. /\ <<"vault0", "vault1">> \in Seq(FixedKeys) /\ <<"pyth0", "pyth1">> \in Seq(FixedKeys)
      /\ <<>> \in Seq(FixedKeys)
  BY DEF FixedKeys
<1>2. /\ Range(<<"vault0", "vault1">>) = {"vault0", "vault1"}
      /\ Range(<<"pyth0", "pyth1">>) = {"pyth0", "pyth1"}
  BY DEF Range
<1>3. CASE c.pool.dyn = "off"
  BY <1>1, <1>3 DEF OracleKeys
<1>4. CASE c.pool.dyn = "on"
  <2>1. PICK v, p : v = <<"vault0", "vault1">> /\ p = <<"pyth0", "pyth1">>
    OBVIOUS
  <2>2. OracleKeys(c) = v \o p
    BY <1>4, <2>1 DEF OracleKeys
  <2>3. v \in Seq(FixedKeys) /\ p \in Seq(FixedKeys)
    BY <1>1, <2>1
  <2>4. v \o p \in Seq(FixedKeys) /\ Range(v \o p) = Range(v) \cup Range(p)
    BY <2>3, RangeConcat
  <2>5. QED
    BY <1>2, <2>1, <2>2, <2>4
<1>5. CASE c.pool.dyn # "off" /\ c.pool.dyn # "on"
  <2>1. OracleKeys(c) = <<"vault0", "vault1">> \o <<>>
    BY <1>5 DEF OracleKeys
  <2>2. QED
    BY <1>1, <1>2, <1>5, <2>1, RangeConcat
<1>6. QED
  BY <1>3, <1>4, <1>5

\* The accounts of a pool that a request names, tick arrays apart.
Named(c) ==
  {"pool", "amm", "mints", "bitmap", "clock"}
    \cup (IF c.pool.dyn # "off" THEN {"vault0", "vault1"} ELSE {})
    \cup (IF c.pool.dyn = "on" THEN {"pyth0", "pyth1"} ELSE {})

\* The first request names the pool's accounts and no tick array.
LEMMA BaseRequest ==
  ASSUME NEW c \in CoreType
  PROVE  /\ base_accounts_to_update(c) \in Seq(Keys)
         /\ Named(c) \subseteq Range(base_accounts_to_update(c))
         /\ Range(base_accounts_to_update(c)) \cap TickArrays = {}
<1>1. PICK five : five = <<"pool", "amm", "mints", "bitmap", "clock">>
  OBVIOUS
<1>2. /\ five \in Seq(FixedKeys)
      /\ Range(five) = {"pool", "amm", "mints", "bitmap", "clock"}
  BY <1>1 DEF FixedKeys, Range
<1>3. PICK o : o = OracleKeys(c)
  OBVIOUS
<1>4. /\ o \in Seq(FixedKeys)
      /\ c.pool.dyn # "off" => {"vault0", "vault1"} \subseteq Range(o)
      /\ c.pool.dyn = "on" => {"pyth0", "pyth1"} \subseteq Range(o)
  BY <1>3, OracleKeysFacts
<1>5. PICK b : b = five \o o
  OBVIOUS
<1>6. base_accounts_to_update(c) = b
  BY <1>1, <1>3, <1>5 DEF base_accounts_to_update
<1>7. b \in Seq(FixedKeys) /\ Range(b) = Range(five) \cup Range(o)
  BY <1>2, <1>4, <1>5, RangeConcat
<1>8. b \in Seq(Keys) /\ Range(b) \subseteq FixedKeys
  BY <1>7, KeyFacts DEF Range
<1>9. Named(c) \subseteq Range(b)
  BY <1>2, <1>4, <1>7 DEF Named
<1>10. QED
  BY <1>6, <1>8, <1>9

\* The second one names the whole window, too.
LEMMA FullRequest ==
  ASSUME NEW c \in CoreType
  PROVE  /\ accounts_to_update(c) \in Seq(Keys)
         /\ Named(c) \subseteq Range(accounts_to_update(c))
         /\ get_all_tick_array_addresses(c) \subseteq Range(accounts_to_update(c))
<1>1. PICK four, last : four = <<"pool", "amm", "mints", "bitmap">> /\ last = <<"clock">>
  OBVIOUS
<1>2. /\ four \in Seq(Keys) /\ Range(four) = {"pool", "amm", "mints", "bitmap"}
      /\ last \in Seq(Keys) /\ Range(last) = {"clock"}
  BY <1>1, KeyFacts DEF Range
<1>3. PICK o, w : o = OracleKeys(c) /\ w = Listing(get_all_tick_array_addresses(c))
  OBVIOUS
<1>4. /\ o \in Seq(Keys)
      /\ c.pool.dyn # "off" => {"vault0", "vault1"} \subseteq Range(o)
      /\ c.pool.dyn = "on" => {"pyth0", "pyth1"} \subseteq Range(o)
  BY <1>3, OracleKeysFacts, KeyFacts
<1>5. w \in Seq(Keys) /\ Range(w) = get_all_tick_array_addresses(c)
  BY <1>3, WindowFacts, ListingFacts, KeyFacts
<1>6. PICK f, g, h : f = four \o w /\ g = f \o o /\ h = g \o last
  OBVIOUS
<1>7. accounts_to_update(c) = h
  BY <1>1, <1>3, <1>6 DEF accounts_to_update
<1>8. f \in Seq(Keys) /\ Range(f) = Range(four) \cup Range(w)
  BY <1>2, <1>5, <1>6, RangeConcat
<1>9. g \in Seq(Keys) /\ Range(g) = Range(f) \cup Range(o)
  <2>1. f \in Seq(Keys) /\ o \in Seq(Keys) /\ g = f \o o
    BY <1>8, <1>4, <1>6
  <2>2. QED
    BY <2>1, RangeConcat
<1>10. h \in Seq(Keys) /\ Range(h) = Range(g) \cup Range(last)
  <2>1. g \in Seq(Keys) /\ last \in Seq(Keys) /\ h = g \o last
    BY <1>9, <1>2, <1>6
  <2>2. QED
    BY <2>1, RangeConcat
<1>11. Named(c) \subseteq Range(h)
  BY <1>2, <1>4, <1>8, <1>9, <1>10 DEF Named
<1>12. QED
  BY <1>5, <1>7, <1>8, <1>9, <1>10, <1>11

\* An answer in order becomes a map of the accounts requested.
LEMMA FetchedMap ==
  ASSUME NEW q \in Seq(Keys), NEW a, NEW m, m = AccountMap(q, a),
         \A i \in DOMAIN q : a[i] \in Contents[q[i]]
  PROVE  /\ IsMap(m)
         /\ \A k \in Keys \ Range(q) : m[k] = None
         /\ \A k \in Range(q) : m[k] \in Contents[k]
         /\ \A l : (\A i \in DOMAIN q : a[i] = l[q[i]]) => \A k \in Range(q) : m[k] = l[k]
<1>1. \A k \in Keys \ Range(q) : m[k] = None
  BY DEF AccountMap
<1>2. ASSUME NEW k \in Range(q)
      PROVE  \E i \in DOMAIN q : q[i] = k /\ m[k] = a[i]
  <2>1. k \in Keys
    BY <1>2 DEF Range
  <2>2. m[k] = a[CHOOSE i \in DOMAIN q : q[i] = k]
    BY <1>2, <2>1 DEF AccountMap
  <2>3. \E i \in DOMAIN q : q[i] = k
    BY <1>2 DEF Range
  <2>4. QED
    BY <2>2, <2>3
<1>3. \A k \in Range(q) : m[k] \in Contents[k]
  BY <1>2
<1>4. QED
  BY <1>1, <1>2, <1>3 DEF IsMap

-----------------------------------------------------------------------------
(* Quotes.                                                                 *)

LEMMA NoTicksNoQuote ==
  ASSUME NEW c, NEW i \in Sides, DOMAIN c.ticks = {}
  PROVE  quote(c, i) \notin {"Priced", "Illiquid"}
  BY DEF quote, QuoteError, MarketError

\* What is priced can be built.
LEMMA PricedIsBuilt ==
  ASSUME NEW c \in CoreType, NEW i \in Sides, quote(c, i) = "Priced", c.pool.dyn # "nofeed"
  PROVE  BuildError(c, i) = "Ok"
<1>1. QuoteError(c) = "Ok" /\ SwapOutcome(c, i) = "Priced"
  BY DEF quote, QuoteError, MarketError
<1>2. MarketError(c) = "Ok"
  BY <1>1 DEF QuoteError
<1>3. Walk(c, i) # <<>> /\ Head(Walk(c, i)) \in DOMAIN c.ticks
  BY <1>1 DEF SwapOutcome
<1>4. Head(Walk(c, i)) \in Range(Walk(c, i))
  BY <1>3, WindowFacts, RangeFacts
<1>5. live_tick_arrays(c, i) # {}
  BY <1>3, <1>4 DEF live_tick_arrays, get_swap_tick_arrays
<1>6. QED
  BY <1>2, <1>5 DEF BuildError

\* What a quote depends on: not the contents of the arrays, and the vaults and
\* the prices only if the fee is dynamic.
LEMMA QuoteDepends ==
  ASSUME NEW c, NEW d, NEW i \in Sides,
         c.timestamp = d.timestamp, c.pool = d.pool, c.amm = d.amm, c.ext = d.ext,
         DOMAIN c.ticks = DOMAIN d.ticks,
         dynamic(c) => \A j \in Sides : c.vault[j] = d.vault[j] /\ c.pyth[j] = d.pyth[j]
  PROVE  quote(c, i) = quote(d, i)
<1>1. MarketError(c) = MarketError(d) /\ dynamic(c) = dynamic(d) /\ Walk(c, i) = Walk(d, i)
  BY DEF MarketError, dynamic, Walk
<1>2. dynamic(c) => PythUsable(c) = PythUsable(d)
  BY DEF PythUsable
<1>3. dynamic(c) => ((\E j \in Sides : c.vault[j] = None) <=> (\E j \in Sides : d.vault[j] = None))
  OBVIOUS
<1>4. QuoteError(c) = QuoteError(d)
  BY <1>1, <1>2, <1>3 DEF QuoteError
<1>5. SwapOutcome(c, i) = SwapOutcome(d, i)
  BY <1>1 DEF SwapOutcome
<1>6. QED
  BY <1>4, <1>5 DEF quote

LEMMA BlankIsCore ==
  ASSUME NEW p \in Decoded("pool"), NEW b, b = BlankCore(p)
  PROVE  b \in CoreType /\ CoreFields(b) /\ b.pool = p
<1>1. PICK none : none = [i \in Sides |-> None]
  OBVIOUS
<1>2. none \in [Sides -> Held] /\ \A i \in Sides : none[i] = None
  BY <1>1, KeyFacts DEF Held
<1>3. PICK e : e = <<>>
  OBVIOUS
<1>4. DOMAIN e = {} /\ e \in TickMaps
  <2>1. DOMAIN e = {} /\ e \in [{} -> Held]
    BY <1>3
  <2>2. {} \in SUBSET TickArrays
    OBVIOUS
  <2>3. QED
    BY <2>1, <2>2 DEF TickMaps
<1>5. b = [timestamp |-> 0, pool |-> p, amm |-> None, vault |-> none, pyth |-> none,
           ext |-> None, ticks |-> e]
  BY <1>1, <1>3 DEF BlankCore
<1>6. 0 \in Stamps /\ None \in Optional("amm") /\ None \in Optional("bitmap")
  BY DEF Stamps, Optional
<1>7. b \in CoreType
  BY <1>2, <1>4, <1>5, <1>6 DEF CoreType
<1>8. b.vault = none /\ b.pyth = none /\ b.ticks = e /\ b.pool = p
  BY <1>5
<1>9. QED
  BY <1>2, <1>4, <1>7, <1>8 DEF CoreFields, Optional

\* On a healthy ledger: a load leaves the pool as the ledger has it; it succeeds
\* if the venue knew that pool when it asked; and if the window was asked for too,
\* both directions are priced.
LEMMA HealthyLoad ==
  ASSUME NEW c \in CoreType, NEW l, \A k \in Keys : l[k] \in Contents[k], Healthy(l),
         NEW m, IsMap(m), NEW q \in Seq(Keys), Named(c) \subseteq Range(q),
         \A k \in Range(q) : m[k] = l[k], \A k \in Keys \ Range(q) : m[k] = None,
         NEW r, r = update_core(c, m)
  PROVE  /\ r.core.pool = l["pool"] /\ l["pool"] \notin Undecoded
         /\ refresh_token_info(m) = "Ok"
         /\ c.pool = l["pool"] => r.err = "Ok"
         /\ /\ c.pool = l["pool"] /\ c.ext = NewExt(l)
            /\ get_all_tick_array_addresses(c) \subseteq Range(q)
            => \A i \in Sides : quote(r.core, i) = "Priced"
<1>1. PICK p, b, h : p = l["pool"] /\ b = BlankCore(p) /\ h = update_core(b, l)
  OBVIOUS
<1>2. /\ p \notin Undecoded /\ l["mints"] \notin Undecoded /\ h.err = "Ok"
      /\ \A i \in Sides : quote(h.core, i) = "Priced"
  BY <1>1 DEF Healthy
<1>3. p \in Decoded("pool") /\ IsMap(l)
  BY <1>1, <1>2, KeyFacts DEF Decoded, IsMap
<1>4. b \in CoreType
  BY <1>1, <1>3, BlankIsCore
<1>5. NewPool(b, l) = p
  BY <1>1, <1>2 DEF NewPool
<1>6. LoadOk(p, l) /\ LoadedFrom(h.core, p, l)
  <2>1. /\ h.err = "Ok" <=> LoadOk(NewPool(b, l), l)
        /\ h.err = "Ok" => LoadedFrom(h.core, NewPool(b, l), l)
    BY <1>1, <1>3, <1>4, UpdateCore
  <2>2. QED
    BY <1>2, <1>5, <2>1
<1>7. /\ \A k \in {"pool", "amm", "mints", "bitmap", "clock"} : m[k] = l[k]
      /\ c.pool.dyn # "off" => m["vault0"] = l["vault0"] /\ m["vault1"] = l["vault1"]
      /\ c.pool.dyn = "on" => m["pyth0"] = l["pyth0"] /\ m["pyth1"] = l["pyth1"]
  BY DEF Named
<1>8. \A k \in Keys : m[k] = l[k] \/ m[k] = None
  OBVIOUS
<1>9. m["clock"] \notin Undecoded /\ m["pool"] = p /\ NewPool(c, m) = p
  BY <1>1, <1>2, <1>6, <1>7 DEF LoadOk, NewPool
<1>10. /\ r.err = "Ok" <=> LoadOk(p, m)
       /\ r.err = "Ok" => LoadedFrom(r.core, p, m)
       /\ r.core.pool = p
  <2>1. /\ r.err = "Ok" <=> LoadOk(NewPool(c, m), m)
        /\ r.err = "Ok" => LoadedFrom(r.core, NewPool(c, m), m)
    BY UpdateCore
  <2>2. m["clock"] \notin Undecoded /\ m["pool"] \notin Undecoded => r.core.pool = m["pool"]
    BY UpdateCore
  <2>3. QED
    BY <1>2, <1>9, <2>1, <2>2
<1>11. refresh_token_info(m) = "Ok"
  BY <1>2, <1>7 DEF refresh_token_info, Undecoded
<1>12. p.dyn \in {"off", "on", "nofeed"} /\ (p.dyn = "off" \/ p.dyn = "on")
  <2>1. p.dyn \in {"off", "on", "nofeed"}
    BY <1>3, PoolAssumption DEF Decoded, Undecoded
  <2>2. QED
    BY <2>1, <1>6 DEF LoadOk
<1>13. ASSUME c.pool = p
       PROVE  /\ \A i \in Sides : p.dyn = "on" => /\ m[VaultKey[i]] = l[VaultKey[i]]
                                                 /\ m[PythKey[i]] = l[PythKey[i]]
              /\ LoadOk(p, m)
  <2>1. \A i \in Sides : p.dyn = "on" => /\ m[VaultKey[i]] = l[VaultKey[i]]
                                        /\ m[PythKey[i]] = l[PythKey[i]]
    BY <1>7, <1>13, KeyFacts
  <2>2. \A i \in Sides : m[VaultKey[i]] = l[VaultKey[i]] \/ m[VaultKey[i]] = None
    BY <1>8, KeyFacts
  <2>3. QED
    BY <1>1, <1>6, <1>7, <1>9, <1>12, <2>1, <2>2 DEF LoadOk
<1>14. ASSUME c.pool = p, c.ext = NewExt(l),
              get_all_tick_array_addresses(c) \subseteq Range(q), NEW i \in Sides
       PROVE  quote(r.core, i) = "Priced"
  <2>1. LoadedFrom(r.core, p, m)
    BY <1>10, <1>13, <1>14
  <2>2. /\ r.core.timestamp = h.core.timestamp /\ r.core.pool = p /\ h.core.pool = p
        /\ r.core.amm = h.core.amm /\ r.core.ext = NewExt(l) /\ h.core.ext = NewExt(l)
    BY <1>6, <1>7, <2>1 DEF LoadedFrom, NewExt
  <2>3. /\ get_all_tick_array_addresses(r.core) = get_all_tick_array_addresses(c)
        /\ get_all_tick_array_addresses(h.core) = get_all_tick_array_addresses(c)
    BY <2>2, <1>14 DEF get_all_tick_array_addresses, Walk
  <2>4. DOMAIN r.core.ticks = DOMAIN h.core.ticks
    <3>1. \A t \in get_all_tick_array_addresses(c) : m[t] = l[t]
      BY <1>14
    <3>2. DOMAIN r.core.ticks = {t \in get_all_tick_array_addresses(c) : m[t] \notin Undecoded}
      BY <2>1, <2>3 DEF LoadedFrom
    <3>3. DOMAIN h.core.ticks = {t \in get_all_tick_array_addresses(c) : l[t] \notin Undecoded}
      BY <1>6, <2>3 DEF LoadedFrom
    <3>4. QED
      BY <3>1, <3>2, <3>3
  <2>5. dynamic(r.core) = dynamic(h.core) /\ (dynamic(r.core) => p.dyn = "on")
    BY <2>2, <1>12 DEF dynamic
  <2>6. dynamic(r.core) => \A j \in Sides : /\ r.core.vault[j] = h.core.vault[j]
                                            /\ r.core.pyth[j] = h.core.pyth[j]
    BY <1>6, <1>13, <1>14, <2>1, <2>5 DEF LoadedFrom
  <2>7. quote(r.core, i) = quote(h.core, i)
    BY <2>2, <2>4, <2>6, QuoteDepends
  <2>8. QED
    BY <1>2, <2>7
<1>15. QED
  BY <1>1, <1>2, <1>10, <1>11, <1>13, <1>14

-----------------------------------------------------------------------------
(* The inductive invariant.                                                *)

Holdings == Ledgers \cup [Keys -> Held]
CallType == [pending : BOOLEAN, pubkeys : Seq(Keys), answer : Seq(Held) \cup {Failed}]

CallOk == call \in [{venue} -> CallType]
CoreOk == core \in CoreType /\ CoreFields(core)

LogInv ==
  /\ log \in Seq(Holdings) /\ reset_at \in 1..Len(log)
  /\ \A t \in 1..Len(log) : DOMAIN log[t] = Keys /\ \A k \in Keys : log[t][k] \in Contents[k]

Answered == ~call[venue].pending /\ call[venue].answer # Failed

\* Where the update is, what it asked for and what it got.
CallInv ==
  /\ pc \in {"idle", "base", "full"} /\ loads \in 0..2 /\ initialized \in BOOLEAN
  /\ pc = "idle" => ~call[venue].pending
  /\ pc = "base" => loads = 0 /\ call[venue].pubkeys = base_accounts_to_update(core)
  /\ pc = "full" => loads = 1 /\ call[venue].pubkeys = accounts_to_update(core)
  /\ pc # "idle" /\ Answered =>
       /\ DOMAIN call[venue].answer = DOMAIN call[venue].pubkeys
       /\ \A i \in DOMAIN call[venue].pubkeys :
            /\ call[venue].answer[i] \in Contents[call[venue].pubkeys[i]]
            /\ reset_at = Len(log) => call[venue].answer[i] = Ledger[call[venue].pubkeys[i]]

\* After its first load the core has the pool and the bitmap of the first answer,
\* and no tick array.
BaseInv ==
  /\ loads = 1 => DOMAIN core.ticks = {}
  /\ pc = "full" =>
       /\ base_accounts["pool"] # None => core.pool = base_accounts["pool"]
       /\ core.ext = NewExt(base_accounts)
       /\ reset_at = Len(log) => \A k \in {"pool", "bitmap"} : base_accounts[k] = Ledger[k]

\* What an update that returned Ok leaves.
DoneInv ==
  Updated =>
    /\ LoadOk(core.pool, update_accounts)
    /\ LoadedFrom(core, core.pool, update_accounts)
    /\ update_accounts["pool"] # None => core.pool = update_accounts["pool"]
    /\ update_accounts["pool"] = None /\ base_accounts["pool"] # None =>
         core.pool = base_accounts["pool"]
    /\ current_epoch = update_accounts["clock"].epoch
    /\ token_info = update_accounts["mints"]
    /\ bounds_cache = [i \in Sides |-> <<core>>]
    /\ initialized = TRUE
    /\ \A i \in Sides : quote(core, i) = "Priced"
    /\ WindowRequested

\* After one strike the venue knows the pool as it is.
StrikeInv ==
  /\ strikes \in {0, 1}
  /\ strikes = 1 => /\ reset_at = Len(log) /\ Healthy(Ledger)
                    /\ core.pool = Ledger["pool"]

IInv == LogInv /\ CallOk /\ CoreOk /\ CallInv /\ BaseInv /\ DoneInv /\ StrikeInv

LEMMA Initially == Init => IInv
<1>1. SUFFICES ASSUME Init PROVE IInv
  OBVIOUS
<1>2. PICK l \in Ledgers : log = <<l>>
  BY <1>1 DEF Init, CacheInit
<1>3. LogInv
  <2>1. l \in Holdings /\ DOMAIN l = Keys /\ \A k \in Keys : l[k] \in Contents[k]
    BY DEF Holdings
  <2>2. log \in Seq(Holdings) /\ Len(log) = 1 /\ log[1] = l
    BY <1>2, <2>1
  <2>3. QED
    BY <1>1, <2>1, <2>2 DEF Init, CacheInit, LogInv
<1>4. PICK p \in Decoded("pool") : core = BlankCore(p)
  BY <1>1 DEF Init, Decoded
<1>5. CoreOk
  BY <1>4, BlankIsCore DEF CoreOk
<1>6. call[venue] = Idle /\ ~call[venue].pending /\ CallOk
  <2>1. call = [c \in {venue} |-> Idle]
    BY <1>1 DEF Init, CacheInit
  <2>2. Idle \in CallType /\ Idle.pending = FALSE
    BY DEF Idle, CallType
  <2>3. QED
    BY <2>1, <2>2 DEF CallOk
<1>7. pc = "idle" /\ outcome = "none" /\ loads = 0 /\ strikes = 0 /\ initialized = FALSE
  BY <1>1 DEF Init
<1>8. CallInv /\ BaseInv /\ DoneInv /\ StrikeInv
  <2>1. CallInv
    <3>1. loads \in 0..2
      BY <1>7
    <3>2. initialized \in BOOLEAN
      BY <1>7
    <3>3. QED
      BY <1>6, <1>7, <3>1, <3>2, Zenon DEF CallInv
  <2>2. BaseInv /\ StrikeInv
    BY <1>7 DEF BaseInv, StrikeInv
  <2>3. DoneInv
    BY <1>7 DEF DoneInv, Updated
  <2>4. QED
    BY <2>1, <2>2, <2>3
<1>9. QED
  BY <1>3, <1>5, <1>6, <1>8 DEF IInv

\* What the venue has in hand when a call has been answered.
LEMMA Answer ==
  ASSUME IInv, pc # "idle", Answered,
         NEW m, m = Fetched, NEW q, q = call[venue].pubkeys
  PROVE  /\ q \in Seq(Keys) /\ IsMap(m) /\ core \in CoreType /\ CoreFields(core)
         /\ \A k \in Keys \ Range(q) : m[k] = None
         /\ reset_at = Len(log) => \A k \in Range(q) : m[k] = Ledger[k]
         /\ Named(core) \subseteq Range(q)
         /\ \A k \in Keys : Ledger[k] \in Contents[k]
<1>1. call[venue] \in CallType /\ core \in CoreType /\ CoreFields(core)
  BY DEF IInv, CallOk, CoreOk
<1>2. q \in Seq(Keys)
  BY <1>1 DEF CallType
<1>3. PICK a : a = call[venue].answer
  OBVIOUS
<1>4. /\ \A i \in DOMAIN q : a[i] \in Contents[q[i]]
      /\ reset_at = Len(log) => \A i \in DOMAIN q : a[i] = Ledger[q[i]]
  BY <1>3 DEF IInv, CallInv
<1>5. m = AccountMap(q, a)
  BY <1>3 DEF Fetched
<1>6. /\ IsMap(m)
      /\ \A k \in Keys \ Range(q) : m[k] = None
      /\ \A l : (\A i \in DOMAIN q : a[i] = l[q[i]]) => \A k \in Range(q) : m[k] = l[k]
  BY <1>2, <1>4, <1>5, FetchedMap
<1>7. q = base_accounts_to_update(core) \/ q = accounts_to_update(core)
  BY DEF IInv, CallInv
<1>8. Named(core) \subseteq Range(q)
  BY <1>1, <1>7, BaseRequest, FullRequest
<1>9. \A k \in Keys : Ledger[k] \in Contents[k]
  BY DEF IInv, LogInv, Ledger
<1>10. QED
  BY <1>1, <1>2, <1>4, <1>6, <1>8, <1>9

LEMMA LedgerWriteStep == IInv /\ LedgerWrite => IInv'
<1>1. SUFFICES ASSUME IInv, LedgerWrite PROVE IInv'
  OBVIOUS
<1>0. PICK k \in Keys : \E d \in Contents[k] : Write(k, d)
  BY <1>1 DEF LedgerWrite
<1>2. PICK d \in Contents[k] : Write(k, d)
  BY <1>0
<1>3. PICK l : l = [Ledger EXCEPT ![k] = d]
  OBVIOUS
<1>4. log' = Append(log, l) /\ reset_at' = reset_at /\ call' = call
  BY <1>2, <1>3 DEF Write
<1>5. log \in Seq(Holdings) /\ reset_at \in 1..Len(log) /\ Len(log) \in Nat
  BY <1>1 DEF IInv, LogInv
<1>6. DOMAIN Ledger = Keys /\ \A j \in Keys : Ledger[j] \in Contents[j]
  BY <1>1, <1>5 DEF IInv, LogInv, Ledger
<1>7. l \in [Keys -> Held] /\ \A j \in Keys : l[j] \in Contents[j]
  <2>1. l = [j \in DOMAIN Ledger |-> IF j = k THEN d ELSE Ledger[j]]
    BY <1>3, Zenon
  <2>2. \A j \in Keys : l[j] \in Contents[j] /\ l[j] \in Held
    BY <1>6, <2>1 DEF Held
  <2>3. QED
    BY <1>6, <2>1, <2>2
<1>8. /\ log' \in Seq(Holdings) /\ Len(log') = Len(log) + 1
      /\ log'[Len(log')] = l /\ \A t \in 1..Len(log) : log'[t] = log[t]
  BY <1>4, <1>5, <1>7 DEF Holdings
<1>9. LogInv'
  <2>1. ASSUME NEW t \in 1..Len(log')
        PROVE  DOMAIN log'[t] = Keys /\ \A j \in Keys : log'[t][j] \in Contents[j]
    <3>1. CASE t = Len(log')
      <4>1. DOMAIN l = Keys
        BY <1>7
      <4>2. QED
        BY <3>1, <4>1, <1>7, <1>8
    <3>2. CASE t # Len(log')
      BY <3>2, <1>1, <1>5, <1>8 DEF IInv, LogInv
    <3>3. QED
      BY <3>1, <3>2
  <2>2. QED
    BY <2>1, <1>4, <1>5, <1>8 DEF LogInv
<1>10. /\ core' = core /\ pc' = pc /\ loads' = loads /\ initialized' = initialized
       /\ token_info' = token_info /\ current_epoch' = current_epoch /\ outcome' = outcome
       /\ bounds_cache' = bounds_cache /\ base_accounts' = base_accounts
       /\ update_accounts' = update_accounts /\ strikes' = 0
  BY <1>1 DEF LedgerWrite
<1>11. reset_at' # Len(log')
  BY <1>4, <1>5, <1>8
<1>12. CallOk' /\ CoreOk'
  BY <1>1, <1>4, <1>10 DEF IInv, CallOk, CoreOk
<1>13. CallInv' /\ BaseInv'
  BY <1>1, <1>4, <1>10, <1>11 DEF IInv, CallInv, BaseInv, Answered
<1>14. DoneInv'
  BY <1>1, <1>4, <1>10 DEF IInv, DoneInv, Updated, WindowRequested
<1>15. StrikeInv'
  BY <1>10 DEF StrikeInv
<1>16. QED
  BY <1>9, <1>12, <1>13, <1>14, <1>15 DEF IInv

LEMMA ResetCacheStep == IInv /\ ResetCache => IInv'
<1>1. SUFFICES ASSUME IInv, ResetCache PROVE IInv'
  OBVIOUS
<1>2. /\ pc = "idle" /\ log' = log /\ call' = call /\ reset_at' = Len(log)
      /\ core' = core /\ pc' = pc /\ loads' = loads /\ initialized' = initialized
      /\ token_info' = token_info /\ current_epoch' = current_epoch /\ outcome' = outcome
      /\ bounds_cache' = bounds_cache /\ base_accounts' = base_accounts
      /\ update_accounts' = update_accounts /\ strikes' = strikes
  BY <1>1 DEF ResetCache, Reset, venueVars
<1>3. LogInv' /\ Ledger' = Ledger
  <2>1. Len(log) \in 1..Len(log)
    BY <1>1 DEF IInv, LogInv
  <2>2. QED
    BY <1>1, <1>2, <2>1 DEF IInv, LogInv, Ledger
<1>4. CallOk' /\ CoreOk' /\ CallInv' /\ BaseInv'
  BY <1>1, <1>2 DEF IInv, CallOk, CoreOk, CallInv, BaseInv
<1>5. DoneInv'
  BY <1>1, <1>2 DEF IInv, DoneInv, Updated, WindowRequested
<1>6. StrikeInv'
  BY <1>1, <1>2, <1>3 DEF IInv, StrikeInv
<1>7. QED
  BY <1>3, <1>4, <1>5, <1>6 DEF IInv

\* A call of the venue.
LEMMA Calling ==
  ASSUME CallOk, NEW q \in Seq(Keys), Begin(venue, q)
  PROVE  /\ CallOk' /\ call'[venue].pending = TRUE /\ call'[venue].pubkeys = q
         /\ log' = log /\ reset_at' = reset_at
<1>1. PICK v : v = [pending |-> TRUE, pubkeys |-> q, answer |-> <<>>]
  OBVIOUS
<1>2. v \in CallType /\ v.pending = TRUE /\ v.pubkeys = q
  BY <1>1 DEF CallType
<1>3. call' = [call EXCEPT ![venue] = v] /\ log' = log /\ reset_at' = reset_at
  BY <1>1 DEF Begin
<1>4. QED
  BY <1>2, <1>3 DEF CallOk

LEMMA StartUpdateStep == IInv /\ StartUpdate => IInv'
<1>1. SUFFICES ASSUME IInv, StartUpdate PROVE IInv'
  OBVIOUS
<1>2. /\ pc' = "base" /\ Begin(venue, base_accounts_to_update(core)) /\ loads' = 0
      /\ core' = core /\ initialized' = initialized /\ strikes' = strikes
  BY <1>1 DEF StartUpdate
<1>3. CallOk /\ core \in CoreType
  BY <1>1 DEF IInv, CoreOk
<1>4. /\ CallOk' /\ call'[venue].pending = TRUE
      /\ call'[venue].pubkeys = base_accounts_to_update(core)
      /\ log' = log /\ reset_at' = reset_at
  BY <1>2, <1>3, BaseRequest, Calling
<1>5. LogInv' /\ CoreOk' /\ Ledger' = Ledger
  BY <1>1, <1>2, <1>4 DEF IInv, LogInv, CoreOk, Ledger
<1>6. CallInv' /\ BaseInv' /\ DoneInv'
  BY <1>1, <1>2, <1>4 DEF IInv, CallInv, BaseInv, DoneInv, Updated, Answered
<1>7. StrikeInv'
  BY <1>1, <1>2, <1>4, <1>5 DEF IInv, StrikeInv
<1>8. QED
  BY <1>4, <1>5, <1>6, <1>7 DEF IInv

LEMMA CacheAnswerStep == IInv /\ CacheAnswer => IInv'
<1>1. SUFFICES ASSUME IInv, CacheAnswer PROVE IInv'
  OBVIOUS
<1>2. PICK a \in Answers(call[venue].pubkeys) \cup {Failed} : Return(venue, a)
  BY <1>1 DEF CacheAnswer
<1>3. /\ call[venue].pending /\ log' = log /\ reset_at' = reset_at
      /\ call' = [call EXCEPT ![venue].pending = FALSE, ![venue].answer = a]
      /\ a # Failed => Faithful(call[venue].pubkeys, a)
  BY <1>2 DEF Return
<1>4. /\ core' = core /\ pc' = pc /\ loads' = loads /\ initialized' = initialized
      /\ base_accounts' = base_accounts /\ strikes' = strikes
  BY <1>1 DEF CacheAnswer, venueVars
<1>5. PICK q : q = call[venue].pubkeys
  OBVIOUS
<1>6. call \in [{venue} -> CallType] /\ q \in Seq(Keys)
  BY <1>1, <1>5 DEF IInv, CallOk, CallType
<1>7. /\ log \in Seq(Holdings) /\ reset_at \in 1..Len(log)
      /\ \A t \in 1..Len(log) : \A k \in Keys : log[t][k] \in Contents[k]
  BY <1>1 DEF IInv, LogInv
<1>8. ASSUME a # Failed
      PROVE  /\ DOMAIN a = DOMAIN q
             /\ \A i \in DOMAIN q : /\ a[i] \in Contents[q[i]]
                                    /\ reset_at = Len(log) => a[i] = Ledger[q[i]]
  <2>1. DOMAIN a = DOMAIN q /\ \A i \in DOMAIN q : a[i] \in Since(q[i])
    BY <1>3, <1>5, <1>8 DEF Faithful
  <2>2. ASSUME NEW i \in DOMAIN q
        PROVE  /\ a[i] \in Contents[q[i]]
               /\ reset_at = Len(log) => a[i] = Ledger[q[i]]
    <3>1. q[i] \in Keys
      BY <1>6
    <3>2. PICK t \in reset_at..Len(log) : a[i] = log[t][q[i]]
      BY <2>1 DEF Since
    <3>3. t \in 1..Len(log) /\ (reset_at = Len(log) => t = Len(log))
      BY <1>7
    <3>4. QED
      BY <1>7, <3>1, <3>2, <3>3 DEF Ledger
  <2>3. QED
    BY <2>1, <2>2
<1>9. a \in Seq(Held) \cup {Failed}
  <2>1. SUFFICES ASSUME a # Failed PROVE a \in Seq(Held)
    OBVIOUS
  <2>2. a \in Answers(q)
    BY <1>5, <2>1
  <2>3. \E f : a = [i \in DOMAIN q |-> f[i]]
    <3>1. DEFINE ch == {i \in DOMAIN q : Since(q[i]) # {Ledger[q[i]]}}
    <3>2. PICK at \in [ch -> reset_at..Len(log)] :
            a = [i \in DOMAIN q |-> log[IF i \in ch THEN at[i] ELSE Len(log)][q[i]]]
      BY <2>2 DEF Answers
    <3>3. PICK g : g = [i \in DOMAIN q |-> log[IF i \in ch THEN at[i] ELSE Len(log)][q[i]]]
      OBVIOUS
    <3>4. g = [i \in DOMAIN q |-> g[i]]
      BY <3>3
    <3>5. a = g
      BY <3>2, <3>3
    <3>6. QED
      BY <3>4, <3>5
  <2>4. \A i \in DOMAIN q : a[i] \in Held
    <3>1. \A i \in DOMAIN q : q[i] \in Keys /\ a[i] \in Contents[q[i]]
      BY <1>6, <1>8, <2>1
    <3>2. QED
      BY <3>1 DEF Held
  <2>5. DOMAIN q = 1..Len(q) /\ Len(q) \in Nat
    BY <1>6
  <2>6. a \in [1..Len(q) -> Held]
    BY <2>3, <2>4, <2>5
  <2>7. QED
    BY <2>5, <2>6
<1>10. /\ CallOk' /\ call'[venue].pending = FALSE /\ call'[venue].answer = a
       /\ call'[venue].pubkeys = q
  BY <1>3, <1>5, <1>6, <1>9 DEF CallOk, CallType
<1>11. pc # "idle"
  BY <1>1, <1>3 DEF IInv, CallInv
<1>12. LogInv' /\ CoreOk' /\ Ledger' = Ledger
  BY <1>1, <1>3, <1>4 DEF IInv, LogInv, CoreOk, Ledger
<1>13. CallInv'
  <2>1. /\ pc' \in {"idle", "base", "full"} /\ loads' \in 0..2 /\ initialized' \in BOOLEAN
        /\ pc' = "idle" => ~call'[venue].pending
        /\ pc' = "base" => loads' = 0 /\ call'[venue].pubkeys = base_accounts_to_update(core')
        /\ pc' = "full" => loads' = 1 /\ call'[venue].pubkeys = accounts_to_update(core')
    BY <1>1, <1>4, <1>5, <1>10 DEF IInv, CallInv
  <2>2. QED
    BY <2>1, <1>3, <1>8, <1>10, <1>12 DEF CallInv, Answered
<1>14. BaseInv' /\ DoneInv' /\ StrikeInv'
  BY <1>1, <1>3, <1>4, <1>11, <1>12 DEF IInv, BaseInv, DoneInv, StrikeInv, Updated
<1>15. QED
  BY <1>10, <1>12, <1>13, <1>14 DEF IInv

LEMMA FetchFailedStep == IInv /\ FetchFailed => IInv'
<1>1. SUFFICES ASSUME IInv, FetchFailed PROVE IInv'
  OBVIOUS
<1>2. /\ pc' = "idle" /\ outcome' = "FailedToFetchAccount" /\ strikes' = 0
      /\ log' = log /\ reset_at' = reset_at /\ call' = call /\ core' = core
      /\ initialized' = initialized /\ loads' = loads /\ ~call[venue].pending
  BY <1>1 DEF FetchFailed, Finish
<1>3. LogInv' /\ CallOk' /\ CoreOk'
  BY <1>1, <1>2 DEF IInv, LogInv, CallOk, CoreOk
<1>4. CallInv' /\ BaseInv' /\ DoneInv' /\ StrikeInv'
  BY <1>1, <1>2 DEF IInv, CallInv, BaseInv, DoneInv, StrikeInv, Updated
<1>5. QED
  BY <1>3, <1>4 DEF IInv

LEMMA BaseLoadedStep == IInv /\ BaseLoaded => IInv'
<1>1. SUFFICES ASSUME IInv, BaseLoaded PROVE IInv'
  OBVIOUS
<1>2. PICK m, q, r : m = Fetched /\ q = call[venue].pubkeys /\ r = update_core(core, m)
  OBVIOUS
<1>3. /\ pc = "base" /\ Answered /\ base_accounts' = m /\ core' = r.core
      /\ initialized' = initialized
      /\ r.err = "Ok" => /\ pc' = "full" /\ loads' = 1 /\ strikes' = strikes
                         /\ Begin(venue, accounts_to_update(r.core))
      /\ r.err # "Ok" => /\ Finish(r.err) /\ log' = log /\ reset_at' = reset_at
                         /\ call' = call /\ loads' = loads
  BY <1>1, <1>2 DEF BaseLoaded, Answered
<1>4. /\ q \in Seq(Keys) /\ IsMap(m) /\ core \in CoreType /\ CoreFields(core)
      /\ \A k \in Keys \ Range(q) : m[k] = None
      /\ reset_at = Len(log) => \A k \in Range(q) : m[k] = Ledger[k]
      /\ Named(core) \subseteq Range(q)
      /\ \A k \in Keys : Ledger[k] \in Contents[k]
  BY <1>1, <1>2, <1>3, Answer
<1>5. /\ r \in Results
      /\ r.err = "Ok" <=> LoadOk(NewPool(core, m), m)
      /\ r.err = "Ok" => LoadedFrom(r.core, NewPool(core, m), m)
      /\ CoreFields(r.core)
  BY <1>2, <1>4, UpdateCore
<1>6. r.core \in CoreType /\ CoreOk'
  BY <1>3, <1>5 DEF Results, CoreOk
<1>7. q = base_accounts_to_update(core) /\ loads = 0 /\ initialized \in BOOLEAN
  BY <1>1, <1>2, <1>3 DEF IInv, CallInv
<1>8. ASSUME reset_at = Len(log), Healthy(Ledger)
      PROVE  /\ r.core.pool = Ledger["pool"]
             /\ core.pool = Ledger["pool"] => r.err = "Ok"
  <2>1. PICK l : l = Ledger
    OBVIOUS
  <2>2. \A k \in Keys : l[k] \in Contents[k]
    BY <1>4, <2>1
  <2>3. Healthy(l) /\ \A k \in Range(q) : m[k] = l[k]
    BY <1>4, <1>8, <2>1
  <2>4. r.core.pool = l["pool"] /\ (core.pool = l["pool"] => r.err = "Ok")
    <3>1. PICK c \in CoreType : c = core
      BY <1>4
    <3>2. r = update_core(c, m) /\ Named(c) \subseteq Range(q) /\ IsMap(m) /\ q \in Seq(Keys)
      BY <1>2, <1>4, <3>1
    <3>3. r.core.pool = l["pool"]
      BY <1>4, <2>2, <2>3, <3>2, HealthyLoad
    <3>4. c.pool = l["pool"] => r.err = "Ok"
      BY <1>4, <2>2, <2>3, <3>2, HealthyLoad
    <3>5. QED
      BY <3>1, <3>3, <3>4
  <2>5. QED
    BY <2>1, <2>4
<1>9. CASE r.err = "Ok"
  <2>1. accounts_to_update(r.core) \in Seq(Keys) /\ CallOk
    BY <1>1, <1>6, FullRequest DEF IInv
  <2>2. /\ CallOk' /\ call'[venue].pending = TRUE
        /\ call'[venue].pubkeys = accounts_to_update(r.core)
        /\ log' = log /\ reset_at' = reset_at
    BY <1>3, <1>9, <2>1, Calling
  <2>3. LogInv' /\ Ledger' = Ledger
    BY <1>1, <2>2 DEF IInv, LogInv, Ledger
  <2>4. CallInv' /\ DoneInv'
    BY <1>3, <1>7, <1>9, <2>2 DEF CallInv, DoneInv, Updated, Answered
  <2>5. DOMAIN r.core.ticks = {}
    <3>1. Range(q) \cap TickArrays = {}
      BY <1>4, <1>7, BaseRequest
    <3>2. \A t \in TickArrays : m[t] \in Undecoded
      BY <1>4, <3>1, KeyFacts DEF Undecoded
    <3>3. get_all_tick_array_addresses(r.core) \subseteq TickArrays
      BY <1>6, WindowFacts
    <3>4. QED
      BY <1>5, <1>9, <3>2, <3>3 DEF LoadedFrom
  <2>6. r.core.ext = NewExt(m) /\ (m["pool"] # None => r.core.pool = m["pool"])
    BY <1>5, <1>9 DEF LoadedFrom, LoadOk, NewPool
  <2>7. reset_at = Len(log) => \A k \in {"pool", "bitmap"} : m[k] = Ledger[k]
    BY <1>4 DEF Named
  <2>8. BaseInv'
    BY <1>3, <1>9, <2>2, <2>3, <2>5, <2>6, <2>7 DEF BaseInv
  <2>9. StrikeInv'
    BY <1>1, <1>3, <1>8, <1>9, <2>2, <2>3 DEF IInv, StrikeInv
  <2>10. QED
    BY <1>6, <2>2, <2>3, <2>4, <2>8, <2>9 DEF IInv
<1>10. CASE r.err # "Ok"
  <2>1. /\ pc' = "idle" /\ outcome' = r.err /\ loads' = 0
        /\ log' = log /\ reset_at' = reset_at /\ call' = call
    BY <1>3, <1>7, <1>10 DEF Finish
  <2>2. LogInv' /\ Ledger' = Ledger /\ CallOk'
    BY <1>1, <2>1 DEF IInv, LogInv, Ledger, CallOk
  <2>3. CallInv' /\ DoneInv' /\ BaseInv'
    BY <1>3, <1>7, <1>10, <2>1 DEF CallInv, DoneInv, BaseInv, Updated, Answered
  <2>4. strikes = 0 \/ ~(reset_at = Len(log) /\ Healthy(Ledger))
    BY <1>1, <1>8, <1>10 DEF IInv, StrikeInv
  <2>5. StrikeInv'
    <3>1. CASE reset_at = Len(log) /\ Healthy(Ledger)
      <4>1. strikes' \in {0, 1}
        BY <1>3, <1>10, <2>4, <3>1 DEF Finish
      <4>2. QED
        BY <1>3, <1>8, <2>1, <2>2, <3>1, <4>1 DEF StrikeInv
    <3>2. CASE ~(reset_at = Len(log) /\ Healthy(Ledger))
      <4>1. strikes' = 0
        BY <1>3, <1>10, <3>2 DEF Finish
      <4>2. QED
        BY <4>1 DEF StrikeInv
    <3>3. QED
      BY <3>1, <3>2
  <2>6. QED
    BY <1>6, <2>2, <2>3, <2>5 DEF IInv
<1>11. QED
  BY <1>9, <1>10

LEMMA FullLoadedStep == IInv /\ FullLoaded => IInv'
<1>1. SUFFICES ASSUME IInv, FullLoaded PROVE IInv'
  OBVIOUS
<1>2. PICK m, q, r : m = Fetched /\ q = call[venue].pubkeys /\ r = update_core(core, m)
  OBVIOUS
<1> DEFINE loaded   == r.err = "Ok"
           mintsOk  == loaded /\ refresh_token_info(m) = "Ok"
           boundsOk == mintsOk /\ \A i \in Sides : quote(r.core, i) = "Priced"
           result   == IF ~loaded THEN r.err
                       ELSE IF ~mintsOk THEN refresh_token_info(m)
                       ELSE IF ~boundsOk THEN "NoQuotableValue"
                       ELSE "Ok"
<1>3. /\ pc = "full" /\ Answered /\ update_accounts' = m /\ core' = r.core
      /\ loads' = IF loaded THEN 2 ELSE 1
      /\ current_epoch' = IF loaded THEN m["clock"].epoch ELSE current_epoch
      /\ token_info' = IF mintsOk THEN m["mints"] ELSE token_info
      /\ bounds_cache' = IF boundsOk THEN [i \in Sides |-> <<r.core>>] ELSE bounds_cache
      /\ initialized' = (initialized \/ boundsOk)
      /\ Finish(result)
      /\ log' = log /\ reset_at' = reset_at /\ call' = call /\ base_accounts' = base_accounts
  BY <1>1, <1>2 DEF FullLoaded, Answered, clock_from_account_map, refresh_bounds_cache
<1>4. /\ q \in Seq(Keys) /\ IsMap(m) /\ core \in CoreType /\ CoreFields(core)
      /\ \A k \in Keys \ Range(q) : m[k] = None
      /\ reset_at = Len(log) => \A k \in Range(q) : m[k] = Ledger[k]
      /\ Named(core) \subseteq Range(q)
      /\ \A k \in Keys : Ledger[k] \in Contents[k]
  BY <1>1, <1>2, <1>3, Answer
<1>5. /\ r \in Results
      /\ r.err = "Ok" <=> LoadOk(NewPool(core, m), m)
      /\ r.err = "Ok" => LoadedFrom(r.core, NewPool(core, m), m)
      /\ r.err # "Ok" => r.core.ticks = core.ticks
      /\ CoreFields(r.core)
  BY <1>2, <1>4, UpdateCore
<1>6. r.core \in CoreType /\ CoreOk'
  BY <1>3, <1>5 DEF Results, CoreOk
<1>7. q = accounts_to_update(core) /\ loads = 1 /\ initialized \in BOOLEAN
  BY <1>1, <1>2, <1>3 DEF IInv, CallInv
<1>8. get_all_tick_array_addresses(core) \subseteq Range(q)
  BY <1>4, <1>7, FullRequest
<1>9. result = "Ok" <=> boundsOk
  BY DEF refresh_token_info
<1>10. reset_at = Len(log) /\ Healthy(Ledger) => result = "Ok"
  <2>1. SUFFICES ASSUME reset_at = Len(log), Healthy(Ledger) PROVE boundsOk
    BY <1>9
  <2>2. PICK l : l = Ledger
    OBVIOUS
  <2>3. PICK c \in CoreType : c = core
    BY <1>4
  <2>4. /\ r = update_core(c, m) /\ Named(c) \subseteq Range(q) /\ IsMap(m) /\ q \in Seq(Keys)
        /\ \A k \in Range(q) : m[k] = l[k]
        /\ \A k \in Keys \ Range(q) : m[k] = None
        /\ \A k \in Keys : l[k] \in Contents[k]
        /\ Healthy(l)
    BY <1>2, <1>4, <2>1, <2>2, <2>3
  <2>5. l["pool"] \notin Undecoded /\ refresh_token_info(m) = "Ok"
    BY <2>4, HealthyLoad
  <2>6. c.pool = l["pool"] => r.err = "Ok"
    BY <2>4, HealthyLoad
  <2>7. /\ c.pool = l["pool"] /\ c.ext = NewExt(l)
        /\ get_all_tick_array_addresses(c) \subseteq Range(q)
        => \A i \in Sides : quote(r.core, i) = "Priced"
    BY <2>4, HealthyLoad
  <2>8. c.pool = l["pool"] /\ c.ext = NewExt(l)
    BY <1>1, <1>3, <2>1, <2>2, <2>3, <2>5 DEF IInv, BaseInv, NewExt, Undecoded
  <2>9. QED
    BY <1>8, <2>3, <2>5, <2>6, <2>7, <2>8
<1>11. pc' = "idle" /\ outcome' = result /\ (~loaded => loads' = 1) /\ (loaded => loads' = 2)
  BY <1>3 DEF Finish
<1>12. LogInv' /\ CallOk' /\ Ledger' = Ledger
  BY <1>1, <1>3 DEF IInv, LogInv, CallOk, Ledger
<1>13. CallInv'
  <2>1. initialized' \in BOOLEAN
    BY <1>3, <1>7
  <2>2. loads' \in 0..2
    BY <1>11
  <2>3. ~call'[venue].pending
    BY <1>3 DEF Answered
  <2>4. QED
    BY <1>11, <2>1, <2>2, <2>3, Zenon DEF CallInv
<1>14. BaseInv'
  <2>1. loads' = 1 => DOMAIN core'.ticks = {}
    BY <1>1, <1>3, <1>5, <1>7, <1>11 DEF IInv, BaseInv
  <2>2. QED
    BY <1>11, <2>1 DEF BaseInv
<1>15. strikes' = 0 /\ StrikeInv'
  <2>1. strikes' = 0
    BY <1>3, <1>10 DEF Finish
  <2>2. QED
    BY <2>1 DEF StrikeInv
<1>16. DoneInv'
  <2>1. SUFFICES ASSUME boundsOk
        PROVE  /\ LoadOk(r.core.pool, m) /\ LoadedFrom(r.core, r.core.pool, m)
               /\ m["pool"] # None => r.core.pool = m["pool"]
               /\ m["pool"] = None /\ base_accounts["pool"] # None =>
                    r.core.pool = base_accounts["pool"]
               /\ (\A k \in {"pool", "bitmap"} : base_accounts[k] = m[k]) =>
                    get_all_tick_array_addresses(r.core) \subseteq Range(q)
    <3>1. CASE ~boundsOk
      BY <1>9, <1>11, <3>1 DEF DoneInv, Updated
    <3>2. CASE boundsOk
      <4>1. /\ LoadOk(r.core.pool, m) /\ LoadedFrom(r.core, r.core.pool, m)
            /\ m["pool"] # None => r.core.pool = m["pool"]
            /\ m["pool"] = None /\ base_accounts["pool"] # None =>
                 r.core.pool = base_accounts["pool"]
        BY <2>1, <3>2
      <4>2. WindowRequested'
        BY <1>2, <1>3, <2>1, <3>2 DEF WindowRequested
      <4>3. /\ current_epoch' = m["clock"].epoch /\ token_info' = m["mints"]
            /\ bounds_cache' = [i \in Sides |-> <<r.core>>] /\ initialized' = TRUE
        BY <1>3, <3>2
      <4>4. \A i \in Sides : quote(r.core, i) = "Priced"
        BY <3>2
      <4>5. QED
        BY <1>3, <4>1, <4>2, <4>3, <4>4 DEF DoneInv
    <3>3. QED
      BY <3>1, <3>2
  <2>2. LoadOk(NewPool(core, m), m) /\ LoadedFrom(r.core, NewPool(core, m), m)
    BY <1>5, <2>1
  <2>3. r.core.pool = NewPool(core, m) /\ r.core.ext = NewExt(m)
    BY <2>2 DEF LoadedFrom
  <2>4. m["pool"] # None => r.core.pool = m["pool"]
    BY <2>2, <2>3 DEF LoadOk, NewPool
  <2>7. m["pool"] = None /\ base_accounts["pool"] # None =>
          r.core.pool = base_accounts["pool"]
    BY <1>1, <1>3, <2>3 DEF IInv, BaseInv, NewPool, Undecoded
  <2>5. ASSUME \A k \in {"pool", "bitmap"} : base_accounts[k] = m[k]
        PROVE  get_all_tick_array_addresses(r.core) \subseteq Range(q)
    <3>1. r.core.ext = core.ext
      BY <1>1, <1>3, <2>3, <2>5 DEF IInv, BaseInv, NewExt
    <3>2. r.core.pool = core.pool
      <4>1. CASE m["pool"] = None
        BY <2>3, <4>1 DEF NewPool, Undecoded
      <4>2. CASE m["pool"] # None
        BY <1>1, <1>3, <2>4, <2>5, <4>2 DEF IInv, BaseInv
      <4>3. QED
        BY <4>1, <4>2
    <3>3. get_all_tick_array_addresses(r.core) = get_all_tick_array_addresses(core)
      BY <3>1, <3>2 DEF get_all_tick_array_addresses, Walk
    <3>4. QED
      BY <1>8, <3>3
  <2>6. QED
    BY <2>2, <2>3, <2>4, <2>5, <2>7
<1>17. QED
  BY <1>6, <1>12, <1>13, <1>14, <1>15, <1>16 DEF IInv

LEMMA Stuttering == IInv /\ UNCHANGED vars => IInv'
<1>1. SUFFICES ASSUME IInv, UNCHANGED vars PROVE IInv'
  OBVIOUS
<1>2. LogInv' /\ CallOk' /\ CoreOk' /\ CallInv' /\ BaseInv'
  BY <1>1 DEF IInv, vars, LogInv, CallOk, CoreOk, CallInv, BaseInv, Answered, Ledger
<1>3. DoneInv' /\ StrikeInv'
  BY <1>1 DEF IInv, vars, DoneInv, StrikeInv, Updated, WindowRequested, Ledger
<1>4. QED
  BY <1>2, <1>3 DEF IInv

-----------------------------------------------------------------------------
(* The theorems.                                                           *)

\* The invariant holds throughout.
THEOREM Inductive == Spec => []IInv
<1>1. IInv /\ [Next]_vars => IInv'
  BY LedgerWriteStep, ResetCacheStep, CacheAnswerStep, StartUpdateStep, FetchFailedStep,
     BaseLoadedStep, FullLoadedStep, Stuttering DEF Next
<1>2. QED
  BY <1>1, Initially, PTL DEF Spec

\* The state of the core is always made of decoded accounts of the right kind.
THEOREM TypeCorrect == Spec => []TypeOK
<1>1. IInv => TypeOK
  <2>1. SUFFICES ASSUME IInv PROVE TypeOK
    OBVIOUS
  <2>2. core \in CoreType /\ CoreFields(core)
    BY <2>1 DEF IInv, CoreOk
  <2>3. core.pool \in Decoded("pool") /\ core.amm \in Optional("amm") /\ core.ticks \in TickMaps
    BY <2>2 DEF CoreType
  <2>4. DOMAIN core.ticks \subseteq TickArrays
    BY <2>3 DEF TickMaps
  <2>5. initialized \in BOOLEAN /\ loads \in 0..2 /\ pc \in {"idle", "base", "full"}
    BY <2>1 DEF IInv, CallInv
  <2>6. QED
    BY <2>2, <2>3, <2>4, <2>5 DEF CoreFields, Decoded, Optional, TypeOK
<1>2. QED
  BY <1>1, Inductive, PTL

\* An update that returned Ok has kept nothing of an earlier one but, at most, the
\* pool: clock, configuration, vaults, prices, bitmap extension, arrays, token
\* info and bounds are those of its last account map, and so is the pool if the
\* map holds one; a pool that neither answer holds is the one known before
\* (update_state of the venue and of its core).
THEOREM NothingLeftOver == Spec => []NoLeftovers
<1>1. IInv => NoLeftovers
  BY DEF IInv, DoneInv, LoadedFrom, NewExt, NoLeftovers
<1>2. QED
  BY <1>1, Inductive, PTL

\* If pool and bitmap are the same in both answers, the second request covers the
\* window of the curve that it loads (get_all_tick_array_addresses).  Of a pool
\* that moves between the answers nothing is claimed.
THEOREM WindowCovered == Spec => []WindowRequested
<1>1. IInv => WindowRequested
  BY DEF IInv, DoneInv, WindowRequested
<1>2. QED
  BY <1>1, Inductive, PTL

\* A refresh that failed between its loads leaves a venue that quotes nothing.
THEOREM ClosedOnFailure == Spec => []FailsClosed
<1>1. IInv => FailsClosed
  BY NoTicksNoQuote DEF IInv, BaseInv, FailsClosed
<1>2. QED
  BY <1>1, Inductive, PTL

\* After a refresh that returned Ok each direction is quoted, has bounds and gets
\* its swap instruction (quote, bounds, generate_swap_instruction).
THEOREM QuotedIsBuilt == Spec => []QuotedCanBeBuilt
<1>1. IInv => QuotedCanBeBuilt
  <2>1. SUFFICES ASSUME IInv, Updated, NEW i \in Sides
                 PROVE  /\ VenueQuote(i) = "Priced" /\ bounds(i) = "Ok"
                        /\ generate_swap_instruction(i) = "Ok"
    BY DEF QuotedCanBeBuilt
  <2>2. /\ core \in CoreType /\ quote(core, i) = "Priced" /\ initialized = TRUE
        /\ bounds_cache[i] = <<core>> /\ LoadOk(core.pool, update_accounts)
    BY <2>1 DEF IInv, CoreOk, DoneInv
  <2>3. core.pool.dyn # "nofeed"
    BY <2>2 DEF LoadOk
  <2>4. BuildError(core, i) = "Ok"
    BY <2>2, <2>3, PricedIsBuilt
  <2>5. bounds_cache[i] # <<>>
    BY <2>2
  <2>6. QED
    BY <2>2, <2>4, <2>5 DEF VenueQuote, bounds, generate_swap_instruction
<1>2. QED
  BY <1>1, Inductive, PTL

\* On a ledger that stays healthy and is read afresh, a refresh fails at most
\* once in a row.
THEOREM AtMostOneStrike == Spec => []TwoCallsSuffice
<1>1. IInv => TwoCallsSuffice
  BY DEF IInv, StrikeInv, TwoCallsSuffice
<1>2. QED
  BY <1>1, Inductive, PTL
=============================================================================
