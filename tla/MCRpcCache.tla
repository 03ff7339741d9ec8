---------------------------- MODULE MCRpcCache ----------------------------
\* Instances of RpcCache for TLC: two accounts, one of which may be closed.
EXTENDS RpcCache, TLC

CONSTANTS amm, mint

MCContents == (amm :> {1, 2}) @@ (mint :> {None, 3})
MCLedgers  == {(amm :> 1) @@ (mint :> 3)}

Query(op, pubkeys) == [op |-> op, pubkeys |-> pubkeys]

MCQueries ==
  { Query("get_account", <<mint>>),
    Query("get_accounts", <<mint, amm>>),
    Query("get_accounts", <<amm, mint, amm>>),
    Query("get_accounts", <<>>),
    Query("get_multiple", <<amm, mint>>) }

DocQueries == { Query("get_accounts", <<amm>>), Query("get_accounts", <<mint, amm>>) }
===========================================================================
