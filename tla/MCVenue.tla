------------------------------ MODULE MCVenue ------------------------------
\* Instances of Venue for TLC: three tick arrays, pools that differ in their
\* dynamic fee, their window and their status.
EXTENDS Venue, TLC

t1 == "tick1"
t2 == "tick2"
t3 == "tick3"

MCTickArrays == {t1, t2, t3}

Pool(dyn, down, up) ==
  [dyn |-> dyn, walk |-> (0 :> down) @@ (1 :> up), far |-> FALSE,
   near |-> (0 :> <<t2, t1>>) @@ (1 :> <<t2, t3>>),
   open_time |-> 0, swap |-> TRUE, liquid |-> TRUE]

Plain   == Pool("off", <<t1>>, <<t1, t2>>)
Dynamic == Pool("on", <<t2, t1>>, <<t2, t3>>)
Far     == [Pool("off", <<t3>>, <<t3>>) EXCEPT !.far = TRUE]
Paused  == [Plain EXCEPT !.swap = FALSE]
OneSided == Pool("off", <<t1>>, <<>>)
NoFeed  == Pool("nofeed", <<t1>>, <<t1>>)

Clock(ts) == [ts |-> ts, epoch |-> ts]
Price(price, time) == [price |-> price, time |-> time]

MCContents ==
  ("pool" :> {Plain, Dynamic, Far, Paused, OneSided, NoFeed, None}) @@
  ("amm" :> {None, Garbage, 1}) @@ ("mints" :> {None, 1}) @@
  ("bitmap" :> {Garbage, 1}) @@ ("clock" :> {None, Clock(5), Clock(9)}) @@
  ("vault0" :> {1}) @@ ("vault1" :> {None, Foreign, 1}) @@
  ("pyth0" :> {Price(1, 5)}) @@ ("pyth1" :> {None, Price(1, 5)}) @@
  ("tick1" :> {1, 2}) @@ ("tick2" :> {None, 1}) @@ ("tick3" :> {1})

\* A ledger where everything is in order.
GoodLedger(pool) ==
  ("pool" :> pool) @@ ("clock" :> Clock(5)) @@ ("pyth0" :> Price(1, 5)) @@
  ("pyth1" :> Price(1, 5)) @@
  [k \in {"amm", "mints", "bitmap", "vault0", "vault1"} \cup MCTickArrays |-> 1]

\* The venue may have been made from an older pool account.
MCLedgers == {GoodLedger(Dynamic)}
============================================================================
