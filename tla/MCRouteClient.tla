--------------------------- MODULE MCRouteClient ---------------------------
\* Instances of RouteClient for TLC: three pools in a chain, the last one with a
\* mint that may charge a transfer fee.
EXTENDS RouteClient, TLC

CONSTANTS SOL, USDC, RAY, TAX

MCMints == {SOL, USDC, RAY, TAX}

Pool(a, b, ticks, dynamic) == [mints |-> <<a, b>>, ticks |-> ticks, dynamic |-> dynamic]

MCPools == ("solusdc" :> Pool(SOL, USDC, 1, FALSE)) @@ ("rayusdc" :> Pool(RAY, USDC, 2, TRUE))
             @@ ("taxusdc" :> Pool(TAX, USDC, 1, FALSE))

MCPaths == {<<SOL, USDC>>, <<USDC, SOL>>, <<SOL, USDC, RAY>>, <<USDC, TAX>>, <<RAY, USDC, RAY>>}

\* Every account is open; the user has 1 of each token and 1 lamport.
MCLedgers ==
  {[open |-> Accounts, bal |-> [a \in Accounts |-> 1], sol |-> 1]}

\* The request in place before the first transaction.
MCRequests ==
  {[amount |-> 0, mints |-> 0, swaps |-> <<>>, input |-> User(SOL), output |-> User(SOL),
    token_ledger |-> NoLedger, remaining |-> <<>>]}
=============================================================================
