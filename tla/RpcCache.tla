------------------------------ MODULE RpcCache ------------------------------
(***************************************************************************)
(* RpcClientCache (account_caching/rpc_cache.rs): a map from addresses to  *)
(* account contents shared by concurrent tasks.  Each read and each insert *)
(* of the map is atomic, the loops around them are not, and a task that    *)
(* awaits the RPC node holds no lock.  A content of None stands for an     *)
(* account known to be missing.                                            *)
(***************************************************************************)
EXTENDS Integers, Sequences, Functions

CONSTANTS Keys, Callers, Contents, None, Failed, Ledgers, MaxWrites,
  Queries       \* the calls that tasks make: [op, pubkeys]

ASSUME RpcCacheAssumption ==
  /\ Ledgers \subseteq [Keys -> UNION {Contents[k] : k \in Keys}]
  /\ Queries \subseteq [op : {"get_account", "get_accounts", "get_multiple"},
                        pubkeys : Seq(Keys)]
  /\ \A q \in Queries : q.op = "get_account" => Len(q.pubkeys) = 1

VARIABLES
  log, reset_at,  \* the ledgers so far, and the one at the last reset
  cache,          \* the DashMap: a function on the keys present
  task            \* the local variables of each task's call

vars == <<log, reset_at, cache, task>>

Ledger == log[Len(log)]
Since(k) == {log[t][k] : t \in reset_at..Len(log)}

IdleTask ==
  [op |-> "none", pubkeys |-> <<>>, stage |-> "idle", pos |-> 1, keys |-> <<>>,
   result_map |-> <<>>, response |-> <<>>, result |-> <<>>]

Init ==
  /\ \E l \in Ledgers : log = <<l>>
  /\ reset_at = 1
  /\ cache = <<>>
  /\ task = [c \in Callers |-> IdleTask]

Insert(f, k, v) == [x \in DOMAIN f \cup {k} |-> IF x = k THEN v ELSE f[x]]

\* External: a transaction of somebody else changes an account.
Write(k, d) ==
  /\ Len(log) <= MaxWrites
  /\ d # Ledger[k]
  /\ log' = Append(log, [Ledger EXCEPT ![k] = d])
  /\ UNCHANGED <<reset_at, cache, task>>

\* get_account, get_accounts or get_multiple is called.
Call(c, q) ==
  /\ task[c].stage = "idle"
  /\ task' = [task EXCEPT ![c] = [IdleTask EXCEPT !.op = q.op, !.stage = "scan",
                                                  !.pubkeys = q.pubkeys]]
  /\ UNCHANGED <<log, reset_at, cache>>

\* One address is looked up: a hit is kept, a miss is to be fetched, except
\* by get_multiple, which answers None for it.
Scan(c) ==
  LET t == task[c]
      k == t.pubkeys[t.pos]
  IN /\ t.stage = "scan"
     /\ t.pos <= Len(t.pubkeys)
     /\ task' = [task EXCEPT ![c] =
          IF k \in DOMAIN cache
            THEN [t EXCEPT !.pos = @ + 1, !.result_map = Insert(@, k, cache[k])]
          ELSE IF t.op = "get_multiple"
            THEN [t EXCEPT !.pos = @ + 1, !.result_map = Insert(@, k, None)]
          ELSE [t EXCEPT !.pos = @ + 1, !.keys = Append(@, k)]]
     /\ UNCHANGED <<log, reset_at, cache>>

\* Defective: the hits come first, then what was fetched.
ReassembleByOrigin(t) ==
  LET fetched == Range(t.keys)
      order   == SelectSeq(t.pubkeys, LAMBDA k : k \notin fetched) \o t.keys
  IN [i \in DOMAIN t.pubkeys |-> t.result_map[order[i]]]

\* The answer, in the order of the request.
Reassemble(t) == [i \in DOMAIN t.pubkeys |-> t.result_map[t.pubkeys[i]]]

Returned(t, answer) ==
  [IdleTask EXCEPT !.op = t.op, !.pubkeys = t.pubkeys, !.result = answer]

\* All found: return without a request; otherwise send one.
EndScan(c) ==
  LET t == task[c]
  IN /\ t.stage = "scan"
     /\ t.pos > Len(t.pubkeys)
     /\ task' = [task EXCEPT ![c] =
          IF t.keys = <<>> THEN Returned(t, Reassemble(t))
                           ELSE [t EXCEPT !.stage = "rpc"]]
     /\ UNCHANGED <<log, reset_at, cache>>

\* Defective: the whole request is sent, not only what was missing.
RpcAnswerAll(c) ==
  LET t == task[c]
  IN /\ t.stage = "rpc"
     /\ task' = [task EXCEPT ![c].stage = "insert", ![c].pos = 1,
                   ![c].response = [i \in DOMAIN t.pubkeys |-> Ledger[t.pubkeys[i]]]]
     /\ UNCHANGED <<log, reset_at, cache>>

\* External: the node reads every requested account from one ledger.  For
\* get_account a missing account is an error, which is not cached.
RpcAnswer(c) ==
  LET t == task[c]
      response == [i \in DOMAIN t.keys |-> Ledger[t.keys[i]]]
  IN /\ t.stage = "rpc"
     /\ task' = [task EXCEPT ![c] =
          IF t.op = "get_account" /\ response[1] = None
            THEN Returned(t, Failed)
            ELSE [t EXCEPT !.stage = "insert", !.pos = 1, !.response = response]]
     /\ UNCHANGED <<log, reset_at, cache>>

\* External: the request fails or times out.
RpcFail(c) ==
  /\ task[c].stage = "rpc"
  /\ task' = [task EXCEPT ![c] = Returned(@, Failed)]
  /\ UNCHANGED <<log, reset_at, cache>>

\* Defective: a missing account is skipped before the position advances.
InsertFound(c) ==
  LET t == task[c]
      k == t.keys[t.pos]
      v == t.response[t.pos]
  IN /\ t.stage = "insert"
     /\ t.pos <= Len(t.keys)
     /\ cache' = IF v = None THEN cache ELSE Insert(cache, k, v)
     /\ task' = [task EXCEPT ![c] = [t EXCEPT !.pos = IF v = None THEN @ ELSE @ + 1,
                                              !.result_map = Insert(@, k, v)]]
     /\ UNCHANGED <<log, reset_at>>

\* One fetched account is stored, whatever the map holds by now.
InsertFetched(c) ==
  LET t == task[c]
      k == t.keys[t.pos]
      v == t.response[t.pos]
  IN /\ t.stage = "insert"
     /\ t.pos <= Len(t.keys)
     /\ cache' = Insert(cache, k, v)
     /\ task' = [task EXCEPT ![c] = [t EXCEPT !.pos = @ + 1,
                                              !.result_map = Insert(@, k, v)]]
     /\ UNCHANGED <<log, reset_at>>

EndInsert(c) ==
  LET t == task[c]
  IN /\ t.stage = "insert"
     /\ t.pos > Len(t.keys)
     /\ task' = [task EXCEPT ![c] = Returned(t, Reassemble(t))]
     /\ UNCHANGED <<log, reset_at, cache>>

\* Defective: calls may be in flight.
reset_cache_shared ==
  /\ cache' = <<>>
  /\ reset_at' = Len(log)
  /\ UNCHANGED <<log, task>>

\* reset_cache takes &mut self: no call, which holds &self, is in flight.
reset_cache ==
  /\ \A c \in Callers : task[c].stage = "idle"
  /\ cache' = <<>>
  /\ reset_at' = Len(log)
  /\ UNCHANGED <<log, task>>

Step(c) == Scan(c) \/ EndScan(c) \/ InsertFetched(c) \/ EndInsert(c)

Next ==
  \/ \E k \in Keys : \E d \in Contents[k] : Write(k, d)
  \/ \E c \in Callers : \/ \E q \in Queries : Call(c, q)
                        \/ Step(c) \/ RpcAnswer(c) \/ RpcFail(c)
  \/ reset_cache

Spec == Init /\ [][Next]_vars

\* The executor polls every task that can go on, and the RPC client gives up
\* on a request after its timeout.
FairSpec ==
  Spec /\ \A c \in Callers : WF_vars(Step(c)) /\ WF_vars(RpcAnswer(c) \/ RpcFail(c))

-----------------------------------------------------------------------------
Values == (UNION {Contents[k] : k \in Keys}) \cup {None}

TypeOK ==
  /\ log # <<>> /\ \A t \in DOMAIN log : log[t] \in [Keys -> Values]
  /\ reset_at \in DOMAIN log
  /\ DOMAIN cache \subseteq Keys /\ \A k \in DOMAIN cache : cache[k] \in Values
  /\ \A c \in Callers :
       LET t == task[c]
       IN /\ t.stage \in {"idle", "scan", "rpc", "insert"}
          /\ t.pos \in 1..(Len(IF t.stage = "insert" THEN t.keys ELSE t.pubkeys) + 1)
          /\ Range(t.keys) \subseteq Range(t.pubkeys)
          /\ DOMAIN t.response \in {{}, DOMAIN t.keys}

\* reset_cache is a barrier: no content that was replaced on the ledger before
\* the reset is served after it, not even by a request sent before.
FreshSinceReset ==
  /\ \A k \in DOMAIN cache : cache[k] \in Since(k)
  /\ \A c \in Callers : task[c].stage = "insert" =>
       \A i \in DOMAIN task[c].keys : task[c].response[i] \in Since(task[c].keys[i])

\* The calls of the trait, as the contract sees them.
callView ==
  [c \in Callers |->
     IF task[c].op \in {"none", "get_multiple"}
       THEN [pending |-> FALSE, pubkeys |-> <<>>, answer |-> <<>>]
       ELSE [pending |-> task[c].stage # "idle", pubkeys |-> task[c].pubkeys,
             answer |-> task[c].result]]

Contract == INSTANCE AccountsCache
              WITH call <- callView, Requests <- {q.pubkeys : q \in Queries}

\* RpcClientCache keeps the promise of AccountsCache whatever the order in
\* which concurrent calls read, fetch and insert: entry n of an answer belongs
\* to address n and is no older than the last reset.
KeepsContract == Contract!CacheSpec

\* Every call returns, found or not: the loops of get_accounts end and no task
\* waits for another.
CallsReturn == \A c \in Callers : task[c].stage # "idle" ~> task[c].stage = "idle"

-----------------------------------------------------------------------------
\* What the module's documentation says: the cache "ensures consistent account
\* snapshots".  The entries of one answer were on the ledger together.
DocumentedSnapshot ==
  \A c \in Callers :
    LET t == task[c]
    IN t.op = "get_accounts" /\ t.stage = "idle" /\ t.result # Failed =>
         \E s \in DOMAIN log : \A i \in DOMAIN t.pubkeys :
            log[s][t.pubkeys[i]] = t.result[i]
=============================================================================
