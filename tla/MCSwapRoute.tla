---------------------------- MODULE MCSwapRoute ----------------------------
\* Instances of SwapRoute for TLC: three mints, the native one among them.
EXTENDS SwapRoute

CONSTANTS SOL, USDC, RAY

MCMints == {SOL, USDC, RAY}

\* A leg from mint a to mint b as the route builder assembles it: the two
\* TitanPDA accounts, the two vaults, the program id.
LegKeys(a, b) == <<Pda(a), Pda(b), Vault(a), Vault(b), ProgramId>>

Leg(from, to, weight) ==
  [from |-> from, to |-> to, weight |-> weight, n_accounts |-> 5]

\* A route over the mints of ms, with the given legs and no token ledger.
Route(ms, swaps, amount) ==
  LET legKeys[k \in 0..Len(swaps)] ==
        IF k = 0 THEN <<>>
        ELSE legKeys[k - 1] \o LegKeys(ms[swaps[k].from + 1], ms[swaps[k].to + 1])
  IN [amount |-> amount, mints |-> Len(ms), swaps |-> swaps,
      input |-> User(ms[1]),
      output |-> User(ms[swaps[Len(swaps)].to + 1]),
      token_ledger |-> NoLedger,
      remaining |-> [i \in 1..Len(ms) |-> Pda(ms[i])] \o ms \o
                      legKeys[Len(swaps)]]

ALL  == ROUTE_WEIGHT_ALL
HALF == ROUTE_WEIGHT_ALL \div 2

Single(amount)  == Route(<<SOL, USDC>>, <<Leg(0, 1, ALL)>>, amount)
Partial         == Route(<<SOL, USDC>>, <<Leg(0, 1, HALF)>>, 2)
Capped          == Route(<<USDC, SOL>>, <<Leg(0, 1, ALL + HALF)>>, 1)
Split           == Route(<<SOL, USDC>>, <<Leg(0, 1, HALF), Leg(0, 1, ALL)>>, 2)
TwoHops         == Route(<<SOL, USDC, RAY>>, <<Leg(0, 1, ALL), Leg(1, 2, ALL)>>, 2)
LeakyHops       == Route(<<SOL, USDC, RAY>>, <<Leg(0, 1, ALL), Leg(1, 2, HALF)>>, 2)
RoundTrip       == Route(<<SOL, USDC>>, <<Leg(0, 1, ALL), Leg(1, 0, ALL)>>, 1)
SelfLeg         == Route(<<SOL, USDC>>, <<Leg(0, 0, ALL), Leg(0, 1, ALL)>>, 1)

\* The same account stands for two route indexes.
Aliased == Route(<<USDC, USDC, SOL>>, <<Leg(0, 1, ALL), Leg(1, 2, ALL)>>, 1)

\* Spend what arrived since the ledger was written.
Ledger(stored) ==
  [Route(<<USDC, SOL>>, <<Leg(0, 1, ALL)>>, 0) EXCEPT
     !.token_ledger = [account |-> User(USDC), stored |-> stored]]
SolLedger ==
  [Single(2) EXCEPT !.token_ledger = [account |-> User(SOL), stored |-> 0]]

\* A leg that also names a TitanPDA account outside the route.
ExtraAccount ==
  [Single(1) EXCEPT
     !.swaps[1].n_accounts = 7,
     !.remaining = SubSeq(@, 1, 4) \o <<Pda(RAY), Vault(RAY)>> \o
                     SubSeq(@, 5, Len(@))]

\* The route pays the TitanPDA itself.
PaysPda == [Single(1) EXCEPT !.output = Pda(USDC)]

\* Malformed instructions, one per refusal.
Malformed ==
  { [Single(1) EXCEPT !.mints = 1],
    [Single(1) EXCEPT !.swaps = <<>>],
    [Single(1) EXCEPT !.mints = 5],
    [Single(1) EXCEPT !.swaps[1].from = 1],
    [Single(1) EXCEPT !.swaps[1].to = 2],
    [Single(1) EXCEPT !.swaps[1].n_accounts = 0],
    [Single(1) EXCEPT !.swaps[1].n_accounts = 6],
    [Single(1) EXCEPT !.swaps[1].n_accounts = 4],
    [Single(1) EXCEPT !.remaining[1] = User(SOL)],
    [Single(1) EXCEPT !.remaining[3] = ProgramId],
    [Single(1) EXCEPT !.remaining[4] = Vault(USDC)],
    [Single(1) EXCEPT !.remaining[4] = SOL],
    [Single(1) EXCEPT !.remaining[6] = Pda(RAY)],
    [Ledger(0) EXCEPT !.token_ledger.account = User(SOL)] }

WellFormed ==
  { Single(0), Single(2), Partial, Capped, Split, TwoHops, LeakyHops,
    RoundTrip, SelfLeg, Aliased, Ledger(1), SolLedger, PaysPda }

HonestRequests  == WellFormed
HostileRequests == {Single(2), Partial, Split, RoundTrip, Aliased, Ledger(0),
                    ExtraAccount, PaysPda} \cup Malformed
LedgerRequests  == {Ledger(0)}

\* A ledger with the given open accounts and balances; every vault holds 2.
World0(bals, sol) ==
  LET vaults == {Vault(m) : m \in Mints}
  IN [open |-> DOMAIN bals \cup vaults,
      bal  |-> [a \in Accounts |-> IF a \in vaults THEN 2
                                   ELSE IF a \in DOMAIN bals THEN bals[a]
                                   ELSE 0],
      sol  |-> sol]

\* The TitanPDA and the user with any of their SOL and USDC accounts missing.
Holdings(A) == UNION {[S -> {1}] : S \in SUBSET A}

MCLedgers ==
  {World0(bals, sol) :
     bals \in Holdings({Pda(SOL), Pda(USDC), User(SOL), User(USDC)}),
     sol \in {1, 2}}

\* Reserved balances of every TitanPDA account.
RichLedgers ==
  {World0([a \in S \cup {Pda(RAY), User(USDC)} |-> IF a = User(USDC) THEN 2 ELSE 1], 2) :
     S \in SUBSET {Pda(SOL), Pda(USDC), User(SOL)}}
=============================================================================
