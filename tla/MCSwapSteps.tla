---------------------------- MODULE MCSwapSteps ----------------------------
\* Instances of SwapSteps for TLC: tick spacing 2, two ticks per array, ticks
\* -8..7, the two middle arrays in the pool's own bitmap.
EXTENDS SwapSteps

MCMinTick == -8
MCDefaultStarts == {-4, 0}

Position(lower, upper, units) == [lower |-> lower, upper |-> upper, liquidity |-> units]

MCPositions ==
  { {Position(-2, 2, 2)},
    {Position(-8, 6, 1), Position(-2, 4, 2)},
    {Position(-6, -4, 2), Position(2, 4, 1)},
    {Position(-4, 0, 1), Position(0, 4, 1)},
    {Position(-8, -6, 1), Position(0, 2, 3), Position(4, 6, 1)} }

Starts == {-8, -4, 0, 4}

\* A core as an update leaves it: of the arrays requested, those in fetched,
\* with the contents that the positions in source give them.
Core(positions, source, fetched, t, p, ext) ==
  LET c == [positions |-> positions, tick |-> t, price |-> p, ext |-> ext,
            fetched |-> fetched, arrays |-> <<>>]
  IN [c EXCEPT !.arrays = [s \in fetched \cap get_all_tick_array_addresses(c)
                             |-> TickArray(source, s)]]

\* The states of a pool: inside a tick, on it, and on it after crossing it
\* downwards.
Places(positions) ==
  {<<t, PriceAt(t) + k>> : t \in {-7, -5, -4, -1, 0, 3, 5}, k \in {0, 1}} \cup
  {<<t - 1, PriceAt(t)>> : t \in InitializedTicks(positions) \cap -6..5}

\* Every array account exists, or one is missing, or all are.
FreshCores ==
  UNION {{Core(P, P, Starts \ gone, place[1], place[2], ext) :
            gone \in {{}, Starts} \cup {{s} : s \in Starts}, place \in Places(P), ext \in BOOLEAN} :
         P \in MCPositions}

\* The arrays were read before or after positions were opened or closed.
StaleCores ==
  UNION {{Core(P, Q, Starts, place[1], place[2], TRUE) :
            Q \in MCPositions \cup {{}}, place \in Places(P)} :
         P \in MCPositions}

MCCores == FreshCores \cup StaleCores
=============================================================================
