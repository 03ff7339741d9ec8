-------------------------- MODULE RpcCache_proofs --------------------------
(***************************************************************************)
(* RpcClientCache serves nothing older than its last reset and implements  *)
(* the contract of AccountsCache, for any set of accounts, any number of   *)
(* concurrent tasks and any requests.                                      *)
(***************************************************************************)
EXTENDS RpcCache, TLAPS

Ops == {"get_account", "get_accounts", "get_multiple"}

\* Partial maps from addresses to contents.
Maps == UNION {[S -> Values] : S \in SUBSET Keys}

Task ==
  [op : Ops \cup {"none"}, pubkeys : Seq(Keys), pos : Nat \ {0},
   stage : {"idle", "scan", "rpc", "insert"}, keys : Seq(Keys),
   result_map : Maps, response : Seq(Values), result : Seq(Values) \cup {Failed}]

TypeInv ==
  /\ log \in Seq([Keys -> Values]) /\ log # <<>>
  /\ reset_at \in 1..Len(log)
  /\ cache \in Maps
  /\ task \in [Callers -> Task]

\* What a map holds was on the ledger since the last reset.
FreshMap(m) == \A k \in DOMAIN m : m[k] \in Since(k)

\* The n-th address from the first one up to the last one scanned is in the
\* result map or still to be fetched.
Covered(t, n) ==
  t.pubkeys[n] \in DOMAIN t.result_map \cup Range(t.keys)

IdleInv(t) ==
  t.stage = "idle" =>
     t.pos = 1 /\ t.keys = <<>> /\ t.response = <<>> /\ t.result_map = <<>>

\* get_multiple never fetches.
LookupInv(t) ==
  /\ t.stage # "idle" => t.op \in Ops
  /\ t.op = "get_multiple" => t.keys = <<>> /\ t.stage \notin {"rpc", "insert"}
  /\ t.op # "get_multiple" => FreshMap(t.result_map)
  /\ Range(t.keys) \subseteq Range(t.pubkeys)

ScanInv(t) ==
  t.stage \in {"scan", "rpc"} =>
     /\ t.pos <= Len(t.pubkeys) + 1
     /\ t.response = <<>>
     /\ \A n \in DOMAIN t.pubkeys : n < t.pos => Covered(t, n)

RpcInv(t) ==
  t.stage = "rpc" => t.pos = Len(t.pubkeys) + 1 /\ t.keys # <<>>

\* The keys before pos have been stored.
InsertInv(t) ==
  t.stage = "insert" =>
     /\ t.pos <= Len(t.keys) + 1
     /\ Len(t.response) = Len(t.keys)
     /\ \A i \in DOMAIN t.keys : t.response[i] \in Since(t.keys[i])
     /\ \A n \in DOMAIN t.pubkeys : Covered(t, n)
     /\ \A i \in DOMAIN t.keys : i < t.pos => t.keys[i] \in DOMAIN t.result_map

TaskInv(t) == IdleInv(t) /\ LookupInv(t) /\ ScanInv(t) /\ RpcInv(t) /\ InsertInv(t)

IInv ==
  /\ TypeInv
  /\ FreshMap(cache)
  /\ \A c \in Callers : TaskInv(task[c])

-----------------------------------------------------------------------------
USE RpcCacheAssumption DEF Ops

\* The empty map, and the values of any map.
LEMMA MapFacts ==
  /\ <<>> \in Maps /\ DOMAIN <<>> = {}
  /\ \A m \in Maps : DOMAIN m \subseteq Keys /\ \A k \in DOMAIN m : m[k] \in Values
<1>1. <<>> \in [{} -> Values] /\ DOMAIN <<>> = {}
  OBVIOUS
<1>2. {} \in SUBSET Keys
  OBVIOUS
<1>3. <<>> \in Maps
  BY <1>1, <1>2 DEF Maps
<1>4. QED
  BY <1>1, <1>3 DEF Maps

\* An insertion makes a map.
LEMMA InsertFacts ==
  ASSUME NEW m \in Maps, NEW k \in Keys, NEW v \in Values
  PROVE  Insert(m, k, v) \in Maps
<1>1. Insert(m, k, v) \in [DOMAIN m \cup {k} -> Values]
  BY MapFacts DEF Insert
<1>2. DOMAIN m \cup {k} \in SUBSET Keys
  BY MapFacts
<1>3. QED
  BY <1>1, <1>2 DEF Maps

\* An idle task, and one that has just returned.
LEMMA IdleFacts ==
  /\ IdleTask \in Task
  /\ TaskInv(IdleTask)
  /\ \A t \in Task, a \in Seq(Values) \cup {Failed} :
       /\ Returned(t, a) \in Task
       /\ Returned(t, a).stage = "idle" /\ Returned(t, a).op = t.op
       /\ Returned(t, a).pubkeys = t.pubkeys /\ Returned(t, a).result = a
       /\ TaskInv(Returned(t, a))
<1>1. IdleTask \in Task
  BY MapFacts DEF IdleTask, Task
<1>2. ASSUME NEW t \in Task, NEW a \in Seq(Values) \cup {Failed}
      PROVE  /\ Returned(t, a) \in Task
             /\ Returned(t, a).stage = "idle" /\ Returned(t, a).op = t.op
             /\ Returned(t, a).pubkeys = t.pubkeys /\ Returned(t, a).result = a
             /\ Returned(t, a).keys = <<>> /\ Returned(t, a).response = <<>>
             /\ Returned(t, a).result_map = <<>> /\ Returned(t, a).pos = 1
  <2>1. t.op \in Ops \cup {"none"} /\ t.pubkeys \in Seq(Keys)
    BY DEF Task
  <2>2. Returned(t, a) \in Task
    BY <1>1, <2>1 DEF Returned, Task
  <2>3. QED
    BY <2>2 DEF Returned, IdleTask
<1>3. Range(<<>>) = {}
  BY MapFacts DEF Range
<1>4. ASSUME NEW t \in Task, NEW a \in Seq(Values) \cup {Failed}
      PROVE  TaskInv(Returned(t, a))
  BY <1>2, <1>3, MapFacts
     DEF TaskInv, IdleInv, LookupInv, ScanInv, RpcInv, InsertInv, FreshMap
<1>5. TaskInv(IdleTask)
  BY <1>1, <1>3, MapFacts
     DEF IdleTask, TaskInv, IdleInv, LookupInv, ScanInv, RpcInv, InsertInv, FreshMap
<1>6. QED
  BY <1>1, <1>2, <1>4, <1>5

\* A content on the present ledger is fresh.
LEMMA LedgerFresh ==
  ASSUME TypeInv
  PROVE  /\ Ledger \in [Keys -> Values]
         /\ \A k \in Keys : Ledger[k] \in Since(k) /\ Ledger[k] \in Values
<1>1. Len(log) \in reset_at..Len(log) /\ Len(log) \in 1..Len(log)
  BY DEF TypeInv
<1>2. Ledger \in [Keys -> Values]
  BY <1>1 DEF TypeInv, Ledger
<1>3. QED
  BY <1>1, <1>2 DEF Ledger, Since

\* A write adds to what is fresh and takes nothing away.
LEMMA WriteKeepsFresh ==
  ASSUME TypeInv, NEW k \in Keys, NEW d \in Contents[k], Write(k, d)
  PROVE  TypeInv' /\ \A x : Since(x) \subseteq Since(x)'
<1>1. d \in Values /\ Ledger \in [Keys -> Values]
  BY LedgerFresh DEF Values
<1>2. [Ledger EXCEPT ![k] = d] \in [Keys -> Values]
  BY <1>1
<1>3. /\ log' \in Seq([Keys -> Values]) /\ Len(log') = Len(log) + 1
      /\ \A t \in 1..Len(log) : log'[t] = log[t]
  BY <1>2 DEF Write, TypeInv
<1>4. reset_at' = reset_at /\ cache' = cache /\ task' = task
  BY DEF Write
<1>5. TypeInv'
  BY <1>3, <1>4 DEF TypeInv
<1>6. \A t \in reset_at..Len(log) : t \in reset_at'..Len(log') /\ log'[t] = log[t]
  BY <1>3, <1>4 DEF TypeInv
<1>7. QED
  BY <1>5, <1>6 DEF Since

\* Writes only widen what a task may hold.
LEMMA TaskKeeps ==
  ASSUME NEW t \in Task, TaskInv(t), \A x : Since(x) \subseteq Since(x)'
  PROVE  TaskInv(t)'
<1>1. \A m : FreshMap(m) => FreshMap(m)'
  BY DEF FreshMap
<1>2. IdleInv(t)' /\ LookupInv(t)' /\ RpcInv(t)'
  BY <1>1 DEF TaskInv, IdleInv, LookupInv, RpcInv
<1>3. ScanInv(t)' /\ InsertInv(t)'
  BY DEF TaskInv, ScanInv, InsertInv, Covered
<1>4. QED
  BY <1>2, <1>3 DEF TaskInv

\* The shape of every step of a task: c goes on to u, the others stay.
LEMMA TaskMoves ==
  ASSUME IInv, UNCHANGED <<log, reset_at>>,
         cache' \in Maps, FreshMap(cache'),
         NEW c \in Callers, NEW u \in Task, TaskInv(u),
         task' = [task EXCEPT ![c] = u]
  PROVE  IInv'
<1>1. \A x : Since(x)' = Since(x)
  BY DEF Since
<1>2. task' \in [Callers -> Task]
      /\ \A d \in Callers : task'[d] = IF d = c THEN u ELSE task[d]
  BY DEF IInv, TypeInv
<1>3. TypeInv'
  BY <1>2 DEF IInv, TypeInv
<1>4. FreshMap(cache)'
  BY <1>1 DEF FreshMap
<1>5. ASSUME NEW d \in Callers
      PROVE  TaskInv(task[d])'
  <2>1. PICK v \in Task : v = task'[d] /\ TaskInv(v)
    BY <1>2 DEF IInv, TypeInv
  <2>2. TaskInv(v)'
    BY <1>1, <2>1, TaskKeeps
  <2>3. QED
    BY <2>1, <2>2
<1>6. QED
  BY <1>3, <1>4, <1>5 DEF IInv

LEMMA InitKeeps == Init => IInv
<1> SUFFICES ASSUME Init PROVE IInv
  OBVIOUS
<1>1. PICK l \in Ledgers : log = <<l>>
  BY DEF Init
<1>2. l \in [Keys -> Values]
  BY <1>1 DEF Values
<1>3. log \in Seq([Keys -> Values]) /\ Len(log) = 1 /\ log # <<>>
  BY <1>1, <1>2
<1>4. cache \in Maps /\ FreshMap(cache)
  BY MapFacts DEF Init, FreshMap
<1>5. task \in [Callers -> Task] /\ \A c \in Callers : TaskInv(task[c])
  BY IdleFacts DEF Init
<1>6. QED
  BY <1>3, <1>4, <1>5 DEF Init, IInv, TypeInv

LEMMA WriteKeeps ==
  ASSUME IInv, NEW k \in Keys, NEW d \in Contents[k], Write(k, d)
  PROVE  IInv'
<1>1. TypeInv' /\ \A x : Since(x) \subseteq Since(x)'
  BY WriteKeepsFresh DEF IInv
<1>2. cache' = cache /\ task' = task
  BY DEF Write
<1>3. FreshMap(cache)'
  BY <1>1, <1>2 DEF IInv, FreshMap
<1>4. ASSUME NEW c \in Callers
      PROVE  TaskInv(task[c])'
  <2>1. PICK v \in Task : v = task[c] /\ v = task'[c] /\ TaskInv(v)
    BY <1>2 DEF IInv, TypeInv
  <2>2. TaskInv(v)'
    BY <1>1, <2>1, TaskKeeps
  <2>3. QED
    BY <2>1, <2>2
<1>5. QED
  BY <1>1, <1>3, <1>4 DEF IInv

LEMMA CallKeeps ==
  ASSUME IInv, NEW c \in Callers, NEW q \in Queries, Call(c, q)
  PROVE  IInv'
<1> DEFINE u == [IdleTask EXCEPT !.op = q.op, !.stage = "scan", !.pubkeys = q.pubkeys]
<1>1. q.op \in Ops /\ q.pubkeys \in Seq(Keys)
  OBVIOUS
<1>2. u \in Task
  BY <1>1, IdleFacts DEF Task
<1>3. /\ u.op = q.op /\ u.stage = "scan" /\ u.pubkeys = q.pubkeys /\ u.pos = 1
      /\ u.keys = <<>> /\ u.result_map = <<>> /\ u.response = <<>>
  BY DEF IdleTask
<1>4. Range(<<>>) = {}
  BY MapFacts DEF Range
<1> HIDE DEF u
<1>5. TaskInv(u)
  BY <1>1, <1>2, <1>3, <1>4, MapFacts
     DEF TaskInv, IdleInv, LookupInv, ScanInv, RpcInv, InsertInv, FreshMap
<1>6. task' = [task EXCEPT ![c] = u] /\ UNCHANGED <<log, reset_at, cache>>
  BY DEF Call, u
<1>7. QED
  BY <1>2, <1>5, <1>6, TaskMoves DEF IInv, TypeInv

\* One address is answered from the map, or as None by get_multiple.
LEMMA FoundKeeps ==
  ASSUME NEW t \in Task, TaskInv(t), t.stage = "scan", t.pos \in DOMAIN t.pubkeys,
         NEW k, k = t.pubkeys[t.pos],
         NEW v \in Values, t.op # "get_multiple" => v \in Since(k),
         NEW u, u = [t EXCEPT !.pos = @ + 1, !.result_map = Insert(@, k, v)]
  PROVE  u \in Task /\ TaskInv(u)
<1> DEFINE m == Insert(t.result_map, k, v)
<1>1. /\ t.pos \in Nat \ {0} /\ t.pubkeys \in Seq(Keys) /\ t.result_map \in Maps
      /\ k \in Keys
  BY DEF Task
<1>2. /\ m \in Maps /\ DOMAIN m = DOMAIN t.result_map \cup {k}
      /\ \A x \in DOMAIN t.result_map \cup {k} :
           m[x] = IF x = k THEN v ELSE t.result_map[x]
  <2>1. m \in Maps
    BY <1>1, InsertFacts
  <2>2. QED
    BY <2>1 DEF Insert
<1>3. u = [t EXCEPT !.pos = t.pos + 1, !.result_map = m] /\ t.pos + 1 \in Nat \ {0}
  BY <1>1
<1> HIDE DEF m
<1>4. u \in Task /\ u.pos = t.pos + 1 /\ u.result_map = m
  BY <1>1, <1>2, <1>3 DEF Task
<1>5. /\ u.op = t.op /\ u.pubkeys = t.pubkeys /\ u.stage = "scan"
      /\ u.keys = t.keys /\ u.response = t.response
  BY <1>3 DEF Task
<1>6. LookupInv(u)
  BY <1>1, <1>2, <1>4, <1>5 DEF TaskInv, LookupInv, FreshMap
<1>7. ScanInv(u)
  BY <1>1, <1>2, <1>4, <1>5 DEF TaskInv, ScanInv, Covered
<1>8. QED
  BY <1>4, <1>5, <1>6, <1>7 DEF TaskInv, IdleInv, RpcInv, InsertInv

\* One address is left to be fetched.
LEMMA MissingKeeps ==
  ASSUME NEW t \in Task, TaskInv(t), t.stage = "scan", t.pos \in DOMAIN t.pubkeys,
         NEW k, k = t.pubkeys[t.pos], t.op # "get_multiple",
         NEW u, u = [t EXCEPT !.pos = @ + 1, !.keys = Append(@, k)]
  PROVE  u \in Task /\ TaskInv(u)
<1>1. /\ t.pos \in Nat \ {0} /\ t.pubkeys \in Seq(Keys) /\ t.keys \in Seq(Keys)
      /\ k \in Keys
  BY DEF Task
<1>2. Append(t.keys, k) \in Seq(Keys) /\ t.pos + 1 \in Nat \ {0}
  BY <1>1
<1>3. /\ u \in Task /\ u.pos = t.pos + 1 /\ u.keys = Append(t.keys, k)
      /\ u.op = t.op /\ u.pubkeys = t.pubkeys /\ u.stage = "scan"
      /\ u.result_map = t.result_map /\ u.response = t.response
  BY <1>1, <1>2 DEF Task
<1>4. Range(Append(t.keys, k)) = Range(t.keys) \cup {k}
  <2>1. /\ DOMAIN Append(t.keys, k) = 1..(Len(t.keys) + 1)
        /\ DOMAIN t.keys = 1..Len(t.keys) /\ Len(t.keys) \in Nat
        /\ \A i \in 1..Len(t.keys) : Append(t.keys, k)[i] = t.keys[i]
        /\ Append(t.keys, k)[Len(t.keys) + 1] = k
    BY <1>1
  <2>2. QED
    BY <2>1 DEF Range
<1>5. k \in Range(t.pubkeys)
  BY <1>1 DEF Range
<1>6. LookupInv(u)
  BY <1>3, <1>4, <1>5 DEF TaskInv, LookupInv
<1>7. ScanInv(u)
  BY <1>1, <1>3, <1>4 DEF TaskInv, ScanInv, Covered
<1>8. QED
  BY <1>3, <1>6, <1>7 DEF TaskInv, IdleInv, RpcInv, InsertInv

LEMMA ScanKeeps ==
  ASSUME IInv, NEW c \in Callers, Scan(c)
  PROVE  IInv'
<1> DEFINE t == task[c]
           k == t.pubkeys[t.pos]
           u == task'[c]
<1>1. t \in Task /\ TaskInv(t) /\ cache \in Maps /\ FreshMap(cache)
  BY DEF IInv, TypeInv
<1>2. t.stage = "scan" /\ t.pos \in DOMAIN t.pubkeys
  BY <1>1 DEF Scan, Task
<1>3. u = IF k \in DOMAIN cache
            THEN [t EXCEPT !.pos = @ + 1, !.result_map = Insert(@, k, cache[k])]
          ELSE IF t.op = "get_multiple"
            THEN [t EXCEPT !.pos = @ + 1, !.result_map = Insert(@, k, None)]
          ELSE [t EXCEPT !.pos = @ + 1, !.keys = Append(@, k)]
  BY DEF Scan, IInv, TypeInv
<1>4. task' = [task EXCEPT ![c] = u] /\ UNCHANGED <<log, reset_at, cache>>
  BY DEF Scan, IInv, TypeInv
<1> HIDE DEF t, u
<1>5. u \in Task /\ TaskInv(u)
  <2>1. CASE k \in DOMAIN cache
    <3>1. cache[k] \in Values /\ cache[k] \in Since(k)
      BY <1>1, <2>1, MapFacts DEF FreshMap
    <3>2. QED
      BY <1>1, <1>2, <1>3, <2>1, <3>1, FoundKeeps
  <2>2. CASE k \notin DOMAIN cache /\ t.op = "get_multiple"
    <3>1. None \in Values
      BY DEF Values
    <3>2. QED
      BY <1>1, <1>2, <1>3, <2>2, <3>1, FoundKeeps
  <2>3. CASE k \notin DOMAIN cache /\ t.op # "get_multiple"
    BY <1>1, <1>2, <1>3, <2>3, MissingKeeps
  <2>4. QED
    BY <2>1, <2>2, <2>3
<1>6. QED
  BY <1>1, <1>4, <1>5, TaskMoves

\* The answer made of a result map that has every requested address.
LEMMA ReassembleFacts ==
  ASSUME NEW t \in Task,
         \A n \in DOMAIN t.pubkeys : t.pubkeys[n] \in DOMAIN t.result_map
  PROVE  /\ Reassemble(t) \in Seq(Values)
         /\ DOMAIN Reassemble(t) = DOMAIN t.pubkeys
         /\ FreshMap(t.result_map) =>
              \A n \in DOMAIN t.pubkeys : Reassemble(t)[n] \in Since(t.pubkeys[n])
<1>1. t.pubkeys \in Seq(Keys) /\ t.result_map \in Maps
  BY DEF Task
<1>2. \A n \in DOMAIN t.pubkeys : t.result_map[t.pubkeys[n]] \in Values
  BY <1>1, MapFacts
<1>3. DOMAIN t.pubkeys = 1..Len(t.pubkeys) /\ Len(t.pubkeys) \in Nat
  BY <1>1
<1>4. Reassemble(t) \in Seq(Values)
  BY <1>2, <1>3 DEF Reassemble
<1>5. QED
  BY <1>4 DEF Reassemble, FreshMap

\* A scan that found everything, and an insertion that is over, leave a
\* complete result map.
LEMMA ScanComplete ==
  ASSUME NEW t \in Task, TaskInv(t), t.stage = "scan", t.pos > Len(t.pubkeys), t.keys = <<>>
  PROVE  \A n \in DOMAIN t.pubkeys : t.pubkeys[n] \in DOMAIN t.result_map
<1>1. t.pos \in Nat /\ t.pubkeys \in Seq(Keys)
  BY DEF Task
<1>2. Range(<<>>) = {}
  BY MapFacts DEF Range
<1>3. QED
  BY <1>1, <1>2 DEF TaskInv, ScanInv, Covered

LEMMA InsertComplete ==
  ASSUME NEW t \in Task, TaskInv(t), t.stage = "insert", t.pos > Len(t.keys)
  PROVE  \A n \in DOMAIN t.pubkeys : t.pubkeys[n] \in DOMAIN t.result_map
<1>1. t.pos \in Nat /\ t.keys \in Seq(Keys)
  BY DEF Task
<1>2. \A i \in DOMAIN t.keys : t.keys[i] \in DOMAIN t.result_map
  BY <1>1 DEF TaskInv, InsertInv
<1>3. Range(t.keys) \subseteq DOMAIN t.result_map
  BY <1>2 DEF Range
<1>4. QED
  BY <1>3 DEF TaskInv, InsertInv, Covered

LEMMA EndScanKeeps ==
  ASSUME IInv, NEW c \in Callers, EndScan(c)
  PROVE  IInv'
<1> DEFINE t == task[c]
           u == IF t.keys = <<>> THEN Returned(t, Reassemble(t))
                                 ELSE [t EXCEPT !.stage = "rpc"]
<1>1. t \in Task /\ TaskInv(t) /\ cache \in Maps /\ FreshMap(cache)
  BY DEF IInv, TypeInv
<1>2. /\ t.stage = "scan" /\ t.pos > Len(t.pubkeys)
      /\ task' = [task EXCEPT ![c] = u] /\ UNCHANGED <<log, reset_at, cache>>
  BY DEF EndScan
<1> HIDE DEF t
<1>3. u \in Task /\ TaskInv(u)
  <2>1. CASE t.keys = <<>>
    <3>1. Reassemble(t) \in Seq(Values)
      BY <1>1, <1>2, <2>1, ScanComplete, ReassembleFacts
    <3>2. QED
      BY <1>1, <2>1, <3>1, IdleFacts
  <2>2. CASE t.keys # <<>>
    <3>1. PICK w : w = [t EXCEPT !.stage = "rpc"]
      OBVIOUS
    <3>2. /\ w \in Task /\ w.pos = t.pos /\ w.keys = t.keys /\ w.op = t.op
          /\ w.pubkeys = t.pubkeys /\ w.stage = "rpc"
          /\ w.result_map = t.result_map /\ w.response = t.response
      BY <1>1, <3>1 DEF Task
    <3>3. t.pos \in Nat /\ t.pubkeys \in Seq(Keys)
      BY <1>1 DEF Task
    <3>4. TaskInv(w)
      BY <1>1, <1>2, <2>2, <3>2, <3>3
         DEF TaskInv, IdleInv, LookupInv, ScanInv, RpcInv, InsertInv, Covered
    <3>5. QED
      BY <2>2, <3>1, <3>2, <3>4
  <2>3. QED
    BY <2>1, <2>2
<1> HIDE DEF u
<1>4. QED
  BY <1>1, <1>2, <1>3, TaskMoves DEF t

LEMMA RpcFailKeeps ==
  ASSUME IInv, NEW c \in Callers, RpcFail(c)
  PROVE  IInv'
<1>1. task[c] \in Task /\ cache \in Maps /\ FreshMap(cache)
  BY DEF IInv, TypeInv
<1>2. Returned(task[c], Failed) \in Task /\ TaskInv(Returned(task[c], Failed))
  BY <1>1, IdleFacts
<1>3. /\ task' = [task EXCEPT ![c] = Returned(task[c], Failed)]
      /\ UNCHANGED <<log, reset_at, cache>>
  BY DEF RpcFail
<1>4. QED
  BY <1>1, <1>2, <1>3, TaskMoves

LEMMA RpcAnswerKeeps ==
  ASSUME IInv, NEW c \in Callers, RpcAnswer(c)
  PROVE  IInv'
<1> DEFINE t == task[c]
           response == [i \in DOMAIN t.keys |-> Ledger[t.keys[i]]]
           u == IF t.op = "get_account" /\ response[1] = None
                  THEN Returned(t, Failed)
                  ELSE [t EXCEPT !.stage = "insert", !.pos = 1, !.response = response]
<1>1. t \in Task /\ TaskInv(t) /\ cache \in Maps /\ FreshMap(cache)
  BY DEF IInv, TypeInv
<1>2. /\ t.stage = "rpc" /\ task' = [task EXCEPT ![c] = u]
      /\ UNCHANGED <<log, reset_at, cache>>
  BY DEF RpcAnswer
<1> HIDE DEF t
<1>3. /\ t.keys \in Seq(Keys) /\ DOMAIN t.keys = 1..Len(t.keys) /\ Len(t.keys) \in Nat
      /\ t.pubkeys \in Seq(Keys) /\ DOMAIN t.pubkeys = 1..Len(t.pubkeys)
  BY <1>1 DEF Task
<1>4. \A i \in DOMAIN t.keys :
        Ledger[t.keys[i]] \in Values /\ Ledger[t.keys[i]] \in Since(t.keys[i])
  BY <1>3, LedgerFresh DEF IInv
<1>5. /\ response \in Seq(Values) /\ Len(response) = Len(t.keys)
      /\ \A i \in DOMAIN t.keys : response[i] \in Since(t.keys[i])
  BY <1>3, <1>4
<1> HIDE DEF response
<1>6. u \in Task /\ TaskInv(u)
  <2>1. CASE t.op = "get_account" /\ response[1] = None
    BY <1>1, <2>1, IdleFacts
  <2>2. CASE ~(t.op = "get_account" /\ response[1] = None)
    <3>1. PICK w : w = [t EXCEPT !.stage = "insert", !.pos = 1, !.response = response]
      OBVIOUS
    <3>2. /\ w \in Task /\ w.pos = 1 /\ w.keys = t.keys /\ w.op = t.op
          /\ w.pubkeys = t.pubkeys /\ w.stage = "insert"
          /\ w.result_map = t.result_map /\ w.response = response
      <4>1. w \in Task
        <5>1. 1 \in Nat \ {0}
          OBVIOUS
        <5>2. QED
          BY <1>1, <1>5, <3>1, <5>1 DEF Task
      <4>2. QED
        BY <1>1, <3>1, <4>1 DEF Task
    <3>3. \A n \in DOMAIN t.pubkeys : Covered(w, n)
      BY <1>1, <1>2, <1>3, <3>2 DEF TaskInv, ScanInv, RpcInv, Covered
    <3>4. LookupInv(w)
      BY <1>1, <1>2, <3>2 DEF TaskInv, LookupInv
    <3>5. InsertInv(w)
      <4>1. w.pos <= Len(w.keys) + 1 /\ Len(w.response) = Len(w.keys)
        BY <1>3, <1>5, <3>2
      <4>2. \A i \in DOMAIN w.keys : w.response[i] \in Since(w.keys[i])
        BY <1>5, <3>2
      <4>3. \A i \in DOMAIN w.keys : ~(i < w.pos)
        BY <1>3, <3>2
      <4>4. QED
        BY <3>2, <3>3, <4>1, <4>2, <4>3 DEF InsertInv
    <3>6. TaskInv(w)
      BY <3>2, <3>4, <3>5 DEF TaskInv, IdleInv, ScanInv, RpcInv
    <3>7. QED
      BY <2>2, <3>1, <3>2, <3>6
  <2>3. QED
    BY <2>1, <2>2
<1> HIDE DEF u
<1>7. QED
  BY <1>1, <1>2, <1>6, TaskMoves DEF t

\* A fetched account is stored in the task's result map.
LEMMA StoredKeeps ==
  ASSUME NEW t \in Task, TaskInv(t), t.stage = "insert", t.pos <= Len(t.keys),
         NEW k, k = t.keys[t.pos], NEW v, v = t.response[t.pos],
         NEW u, u = [t EXCEPT !.pos = @ + 1, !.result_map = Insert(@, k, v)]
  PROVE  u \in Task /\ TaskInv(u)
<1> DEFINE m == Insert(t.result_map, k, v)
<1>1. /\ t.pos \in Nat \ {0} /\ t.pos + 1 \in Nat \ {0}
      /\ t.keys \in Seq(Keys) /\ DOMAIN t.keys = 1..Len(t.keys) /\ Len(t.keys) \in Nat
      /\ t.response \in Seq(Values) /\ t.result_map \in Maps /\ t.pos \in DOMAIN t.keys
  BY DEF Task
<1>2. k \in Keys /\ v \in Values /\ v \in Since(k)
  BY <1>1 DEF TaskInv, InsertInv
<1>3. /\ m \in Maps /\ DOMAIN m = DOMAIN t.result_map \cup {k}
      /\ \A x \in DOMAIN t.result_map \cup {k} :
           m[x] = IF x = k THEN v ELSE t.result_map[x]
  <2>1. m \in Maps
    BY <1>1, <1>2, InsertFacts
  <2>2. QED
    BY <2>1 DEF Insert
<1>4. u = [t EXCEPT !.pos = t.pos + 1, !.result_map = m]
  OBVIOUS
<1> HIDE DEF m
<1>5. /\ u \in Task /\ u.pos = t.pos + 1 /\ u.result_map = m
      /\ u.op = t.op /\ u.pubkeys = t.pubkeys /\ u.stage = "insert"
      /\ u.keys = t.keys /\ u.response = t.response
  BY <1>1, <1>3, <1>4 DEF Task
<1>6. LookupInv(u)
  BY <1>2, <1>3, <1>5 DEF TaskInv, LookupInv, FreshMap
<1>7. InsertInv(u)
  <2>1. \A n \in DOMAIN t.pubkeys : Covered(u, n)
    BY <1>3, <1>5 DEF TaskInv, InsertInv, Covered
  <2>2. \A i \in DOMAIN t.keys : i < t.pos + 1 => t.keys[i] \in DOMAIN m
    BY <1>1, <1>3 DEF TaskInv, InsertInv
  <2>3. QED
    <3>1. u.pos <= Len(u.keys) + 1 /\ Len(u.response) = Len(u.keys)
      BY <1>1, <1>5 DEF TaskInv, InsertInv
    <3>2. \A i \in DOMAIN u.keys : u.response[i] \in Since(u.keys[i])
      BY <1>5 DEF TaskInv, InsertInv
    <3>3. QED
      BY <1>5, <2>1, <2>2, <3>1, <3>2 DEF InsertInv
<1>8. QED
  BY <1>5, <1>6, <1>7 DEF TaskInv, IdleInv, ScanInv, RpcInv

LEMMA InsertFetchedKeeps ==
  ASSUME IInv, NEW c \in Callers, InsertFetched(c)
  PROVE  IInv'
<1> DEFINE t == task[c]
           k == t.keys[t.pos]
           v == t.response[t.pos]
           u == task'[c]
<1>1. t \in Task /\ TaskInv(t) /\ cache \in Maps /\ FreshMap(cache)
  BY DEF IInv, TypeInv
<1>2. /\ t.stage = "insert" /\ t.pos <= Len(t.keys)
      /\ u = [t EXCEPT !.pos = @ + 1, !.result_map = Insert(@, k, v)]
      /\ task' = [task EXCEPT ![c] = u]
      /\ cache' = Insert(cache, k, v) /\ UNCHANGED <<log, reset_at>>
  BY DEF InsertFetched, IInv, TypeInv
<1> HIDE DEF t, u
<1>3. u \in Task /\ TaskInv(u)
  BY <1>1, <1>2, StoredKeeps
<1>4. k \in Keys /\ v \in Values /\ v \in Since(k)
  <2>1. /\ t.pos \in Nat \ {0} /\ t.keys \in Seq(Keys) /\ t.response \in Seq(Values)
        /\ t.pos \in DOMAIN t.keys
    BY <1>1, <1>2 DEF Task
  <2>2. QED
    BY <1>1, <1>2, <2>1 DEF TaskInv, InsertInv
<1> HIDE DEF k, v
<1>5. cache' \in Maps /\ FreshMap(cache')
  <2>1. cache' \in Maps
    BY <1>1, <1>2, <1>4, InsertFacts
  <2>2. /\ DOMAIN cache' = DOMAIN cache \cup {k}
        /\ \A x \in DOMAIN cache' : cache'[x] = IF x = k THEN v ELSE cache[x]
    BY <1>2 DEF Insert
  <2>3. QED
    BY <1>1, <1>4, <2>1, <2>2 DEF FreshMap
<1>6. QED
  BY <1>2, <1>3, <1>5, TaskMoves DEF t

LEMMA EndInsertKeeps ==
  ASSUME IInv, NEW c \in Callers, EndInsert(c)
  PROVE  IInv'
<1> DEFINE t == task[c]
           u == Returned(t, Reassemble(t))
<1>1. t \in Task /\ TaskInv(t) /\ cache \in Maps /\ FreshMap(cache)
  BY DEF IInv, TypeInv
<1>2. /\ t.stage = "insert" /\ t.pos > Len(t.keys)
      /\ task' = [task EXCEPT ![c] = u] /\ UNCHANGED <<log, reset_at, cache>>
  BY DEF EndInsert
<1> HIDE DEF t
<1>3. Reassemble(t) \in Seq(Values)
  BY <1>1, <1>2, InsertComplete, ReassembleFacts
<1>4. u \in Task /\ TaskInv(u)
  BY <1>1, <1>3, IdleFacts
<1> HIDE DEF u
<1>5. QED
  BY <1>1, <1>2, <1>4, TaskMoves DEF t

\* A reset meets no call in flight, so that no task holds a content.
LEMMA ResetKeeps ==
  ASSUME IInv, reset_cache
  PROVE  IInv'
<1>1. TypeInv'
  BY MapFacts DEF reset_cache, IInv, TypeInv
<1>2. FreshMap(cache)'
  BY MapFacts DEF reset_cache, FreshMap
<1>3. ASSUME NEW c \in Callers
      PROVE  TaskInv(task[c])'
  <2>1. /\ task' = task /\ task[c] \in Task /\ TaskInv(task[c])
        /\ task[c].stage = "idle" /\ task[c].result_map = <<>>
    BY DEF reset_cache, IInv, TypeInv, TaskInv, IdleInv
  <2>2. FreshMap(task[c].result_map)'
    BY <2>1, MapFacts DEF FreshMap
  <2>3. QED
    BY <2>1, <2>2 DEF TaskInv, IdleInv, LookupInv, ScanInv, RpcInv, InsertInv
<1>4. QED
  BY <1>1, <1>2, <1>3 DEF IInv

\* A step that changes nothing.
LEMMA StutterKeeps ==
  ASSUME IInv, UNCHANGED vars
  PROVE  IInv'
<1>1. log' = log /\ reset_at' = reset_at /\ cache' = cache /\ task' = task
  BY DEF vars
<1>2. TypeInv' /\ \A x : Since(x)' = Since(x)
  BY <1>1 DEF IInv, TypeInv, Since
<1>3. FreshMap(cache)'
  BY <1>1, <1>2 DEF IInv, FreshMap
<1>4. ASSUME NEW c \in Callers
      PROVE  TaskInv(task[c])'
  <2>1. PICK v \in Task : v = task[c] /\ v = task'[c] /\ TaskInv(v)
    BY <1>1 DEF IInv, TypeInv
  <2>2. TaskInv(v)'
    BY <1>2, <2>1, TaskKeeps
  <2>3. QED
    BY <2>1, <2>2
<1>5. QED
  BY <1>2, <1>3, <1>4 DEF IInv

\* Every action keeps the inductive invariant.
LEMMA NextKeeps == IInv /\ [Next]_vars => IInv'
<1> SUFFICES ASSUME IInv, [Next]_vars PROVE IInv'
  OBVIOUS
<1>1. ASSUME NEW k \in Keys, NEW d \in Contents[k], Write(k, d) PROVE IInv'
  BY <1>1, WriteKeeps
<1>2. ASSUME NEW c \in Callers, NEW q \in Queries, Call(c, q) PROVE IInv'
  BY <1>2, CallKeeps
<1>3. ASSUME NEW c \in Callers, Step(c) PROVE IInv'
  BY <1>3, ScanKeeps, EndScanKeeps, InsertFetchedKeeps, EndInsertKeeps DEF Step
<1>4. ASSUME NEW c \in Callers, RpcAnswer(c) PROVE IInv'
  BY <1>4, RpcAnswerKeeps
<1>5. ASSUME NEW c \in Callers, RpcFail(c) PROVE IInv'
  BY <1>5, RpcFailKeeps
<1>6. CASE reset_cache
  BY <1>6, ResetKeeps
<1>7. CASE UNCHANGED vars
  BY <1>7, StutterKeeps
<1>8. QED
  BY <1>1, <1>2, <1>3, <1>4, <1>5, <1>6, <1>7 DEF Next

\* RpcClientCache: the inductive invariant holds in every reachable state.
THEOREM Inductive == Spec => []IInv
  BY InitKeeps, NextKeeps, PTL DEF Spec

\* RpcClientCache: every reachable state is well typed; in particular a
\* response has one entry for each address that was missing, and only
\* requested addresses are fetched.
THEOREM TypeCorrect == Spec => []TypeOK
<1>1. IInv => TypeOK
  <2> SUFFICES ASSUME IInv PROVE TypeOK
    OBVIOUS
  <2>1. /\ log # <<>> /\ \A t \in DOMAIN log : log[t] \in [Keys -> Values]
        /\ reset_at \in DOMAIN log
    BY DEF IInv, TypeInv
  <2>2. DOMAIN cache \subseteq Keys /\ \A k \in DOMAIN cache : cache[k] \in Values
    BY MapFacts DEF IInv, TypeInv
  <2>3. ASSUME NEW t \in Task, TaskInv(t)
        PROVE  /\ t.stage \in {"idle", "scan", "rpc", "insert"}
               /\ t.pos \in 1..(Len(IF t.stage = "insert" THEN t.keys ELSE t.pubkeys) + 1)
               /\ Range(t.keys) \subseteq Range(t.pubkeys)
               /\ DOMAIN t.response \in {{}, DOMAIN t.keys}
    <3>1. /\ t.stage \in {"idle", "scan", "rpc", "insert"} /\ t.pos \in Nat \ {0}
          /\ t.keys \in Seq(Keys) /\ t.pubkeys \in Seq(Keys) /\ t.response \in Seq(Values)
      BY DEF Task
    <3>2. t.pos \in 1..(Len(IF t.stage = "insert" THEN t.keys ELSE t.pubkeys) + 1)
      BY <2>3, <3>1 DEF TaskInv, IdleInv, ScanInv, InsertInv
    <3>3. DOMAIN t.response \in {{}, DOMAIN t.keys}
      <4>1. CASE t.stage = "insert"
        BY <2>3, <3>1, <4>1 DEF TaskInv, InsertInv
      <4>2. CASE t.stage # "insert"
        BY <2>3, <3>1, <4>2, MapFacts DEF TaskInv, IdleInv, ScanInv
      <4>3. QED
        BY <4>1, <4>2
    <3>4. QED
      BY <2>3, <3>1, <3>2, <3>3 DEF TaskInv, LookupInv
  <2>4. QED
    BY <2>1, <2>2, <2>3 DEF TypeOK, IInv, TypeInv
<1>2. QED
  BY <1>1, Inductive, PTL

\* RpcClientCache.reset_cache is a barrier: nothing that was replaced on the
\* ledger before it is in the map after it, or on its way into the map.
THEOREM ResetIsBarrier == Spec => []FreshSinceReset
<1>1. IInv => FreshSinceReset
  BY DEF IInv, TaskInv, InsertInv, FreshMap, FreshSinceReset
<1>2. QED
  BY <1>1, Inductive, PTL

-----------------------------------------------------------------------------
(* The refinement of AccountsCache.                                        *)

\* A task's call as the contract sees it.
View(t) ==
  IF t.op \in {"none", "get_multiple"}
    THEN [pending |-> FALSE, pubkeys |-> <<>>, answer |-> <<>>]
    ELSE [pending |-> t.stage # "idle", pubkeys |-> t.pubkeys, answer |-> t.result]

ViewType ==
  [pending : BOOLEAN, pubkeys : Seq(Keys), answer : Seq(Values) \cup {Failed}]

\* The step of one task is a step of one call.
LEMMA ViewMoves ==
  ASSUME task \in [Callers -> Task], NEW c \in Callers, NEW u \in Task,
         task' = [task EXCEPT ![c] = u]
  PROVE  /\ callView \in [Callers -> ViewType]
         /\ callView[c] = View(task[c])
         /\ callView' = [callView EXCEPT ![c] = View(u)]
<1>1. ASSUME NEW t \in Task
      PROVE  View(t) \in ViewType
  <2>1. t.pubkeys \in Seq(Keys) /\ t.result \in Seq(Values) \cup {Failed}
    BY DEF Task
  <2>2. QED
    BY <2>1 DEF View, ViewType
<1>2. callView = [d \in Callers |-> View(task[d])]
  BY DEF callView, View
<1>3. callView' = [d \in Callers |-> View(task'[d])]
  BY DEF callView, View
<1>4. \A d \in Callers : task'[d] = IF d = c THEN u ELSE task[d]
  OBVIOUS
<1>5. \A d \in Callers : View(task[d]) \in ViewType
  BY <1>1
<1>6. QED
  BY <1>2, <1>3, <1>4, <1>5

\* A step that a call does not show.
LEMMA HiddenStep ==
  ASSUME task \in [Callers -> Task], NEW c \in Callers, NEW u \in Task,
         task' = [task EXCEPT ![c] = u], View(u) = View(task[c])
  PROVE  callView' = callView
<1>1. callView \in [Callers -> ViewType] /\ callView' = [callView EXCEPT ![c] = callView[c]]
  BY ViewMoves
<1>2. QED
  BY <1>1

\* A request whose addresses are answered one by one with fresh contents has
\* an answer that the contract allows.
LEMMA AnswerAllowed ==
  ASSUME TypeInv, NEW p \in Seq(Keys), NEW a \in Seq(Values), DOMAIN a = DOMAIN p,
         \A n \in DOMAIN p : a[n] \in Since(p[n])
  PROVE  a \in Contract!Answers(p) /\ Contract!Faithful(p, a)
<1>1. \A k : Contract!Since(k) = Since(k) /\ Contract!Ledger = Ledger
  BY DEF Contract!Since, Since, Contract!Ledger, Ledger
<1> DEFINE changed == {n \in DOMAIN p : Contract!Since(p[n]) # {Contract!Ledger[p[n]]}}
           moment(n) == CHOOSE t \in reset_at..Len(log) : log[t][p[n]] = a[n]
           at == [n \in changed |-> moment(n)]
<1>2. \A n \in DOMAIN p : moment(n) \in reset_at..Len(log) /\ log[moment(n)][p[n]] = a[n]
  <2> SUFFICES ASSUME NEW n \in DOMAIN p
               PROVE  \E t \in reset_at..Len(log) : log[t][p[n]] = a[n]
    OBVIOUS
  <2>1. QED
    BY DEF Since
<1>3. at \in [changed -> reset_at..Len(log)]
  BY <1>2
<1>4. ASSUME NEW n \in DOMAIN p
      PROVE  a[n] = log[IF n \in changed THEN at[n] ELSE Len(log)][p[n]]
  <2>1. CASE n \in changed
    BY <1>2, <2>1
  <2>2. CASE n \notin changed
    BY <1>1, <2>2 DEF Ledger
  <2>3. QED
    BY <2>1, <2>2
<1> HIDE DEF at, changed
<1>5. a = [n \in DOMAIN p |-> log[IF n \in changed THEN at[n] ELSE Len(log)][p[n]]]
  <2>1. a = [n \in DOMAIN p |-> a[n]]
    OBVIOUS
  <2>2. QED
    BY <1>4, <2>1
<1>6. a \in {[n \in DOMAIN p |-> log[IF n \in changed THEN f[n] ELSE Len(log)][p[n]]] :
               f \in [changed -> reset_at..Len(log)]}
  BY <1>3, <1>5
<1>7. a \in Contract!Answers(p)
  BY <1>6 DEF Contract!Answers, changed
<1>8. QED
  BY <1>1, <1>7 DEF Contract!Faithful

\* A task that returns: Return for a call of the trait, nothing for
\* get_multiple, which the contract does not know.
LEMMA ReturnRefines ==
  ASSUME IInv, NEW c \in Callers, NEW a \in Seq(Values) \cup {Failed},
         task[c].stage # "idle", UNCHANGED <<log, reset_at>>,
         task' = [task EXCEPT ![c] = Returned(task[c], a)],
         a # Failed /\ task[c].op # "get_multiple" =>
            /\ a \in Seq(Values) /\ DOMAIN a = DOMAIN task[c].pubkeys
            /\ \A n \in DOMAIN task[c].pubkeys : a[n] \in Since(task[c].pubkeys[n])
  PROVE  [Contract!CacheNext]_(Contract!cacheVars)
<1> DEFINE t == task[c]
           u == Returned(t, a)
<1>1. TypeInv /\ task \in [Callers -> Task] /\ t \in Task /\ TaskInv(t) /\ t.op \in Ops
  BY DEF IInv, TypeInv, TaskInv, LookupInv
<1>2. u \in Task /\ u.stage = "idle" /\ u.op = t.op /\ u.pubkeys = t.pubkeys /\ u.result = a
  BY <1>1, IdleFacts
<1>3. task' = [task EXCEPT ![c] = u]
  OBVIOUS
<1> HIDE DEF u
<1>4. CASE t.op = "get_multiple"
  <2>1. View(u) = View(t)
    BY <1>2, <1>4 DEF View
  <2>2. callView' = callView
    BY <1>1, <1>2, <1>3, <2>1, HiddenStep
  <2>3. QED
    BY <2>2 DEF Contract!cacheVars
<1>5. CASE t.op # "get_multiple"
  <2>1. /\ View(t) = [pending |-> TRUE, pubkeys |-> t.pubkeys, answer |-> t.result]
        /\ View(u) = [pending |-> FALSE, pubkeys |-> t.pubkeys, answer |-> a]
    BY <1>1, <1>2, <1>5 DEF View
  <2>2. /\ callView \in [Callers -> ViewType]
        /\ callView[c] = View(t) /\ callView' = [callView EXCEPT ![c] = View(u)]
    BY <1>1, <1>2, <1>3, ViewMoves
  <2>3. callView[c].pending /\ callView[c].pubkeys = t.pubkeys
    BY <2>1, <2>2
  <2>4. callView' = [callView EXCEPT ![c] = [pending |-> FALSE, pubkeys |-> callView[c].pubkeys,
                                             answer |-> a]]
    BY <2>1, <2>2, <2>3
  <2>5. callView' = [callView EXCEPT ![c].pending = FALSE, ![c].answer = a]
    <3>1. PICK f \in [Callers -> ViewType] : f = callView
      BY <2>2
    <3>2. PICK g : g = callView'
      OBVIOUS
    <3>3. g = [f EXCEPT ![c] = [pending |-> FALSE, pubkeys |-> f[c].pubkeys, answer |-> a]]
      BY <2>4, <3>1, <3>2
    <3>4. g = [f EXCEPT ![c].pending = FALSE, ![c].answer = a]
      BY <3>3 DEF ViewType
    <3>5. QED
      BY <3>1, <3>2, <3>4
  <2>6. t.pubkeys \in Seq(Keys)
    BY <1>1 DEF Task
  <2>7. a # Failed => a \in Contract!Answers(t.pubkeys) /\ Contract!Faithful(t.pubkeys, a)
    BY <1>1, <1>5, <2>6, AnswerAllowed
  <2>8. Contract!Return(c, a)
    BY <2>3, <2>5, <2>7 DEF Contract!Return
  <2>9. a \in Contract!Answers(callView[c].pubkeys) \cup {Failed}
    BY <2>3, <2>7
  <2>10. QED
    BY <2>8, <2>9 DEF Contract!CacheNext
<1>6. QED
  BY <1>4, <1>5

\* A step inside a call.
LEMMA InnerRefines ==
  ASSUME IInv, NEW c \in Callers, NEW u \in Task, UNCHANGED <<log, reset_at>>,
         task' = [task EXCEPT ![c] = u],
         u.op = task[c].op, u.pubkeys = task[c].pubkeys, u.result = task[c].result,
         u.stage # "idle", task[c].stage # "idle"
  PROVE  [Contract!CacheNext]_(Contract!cacheVars)
<1>1. View(u) = View(task[c])
  BY DEF View
<1>2. callView' = callView
  BY <1>1, HiddenStep DEF IInv, TypeInv
<1>3. QED
  BY <1>2 DEF Contract!cacheVars

LEMMA InitRefines == Init => Contract!CacheInit
<1> SUFFICES ASSUME Init PROVE Contract!CacheInit
  OBVIOUS
<1>1. callView = [c \in Callers |-> Contract!Idle]
  BY DEF Init, callView, IdleTask, Contract!Idle
<1>2. QED
  BY <1>1 DEF Init, Contract!CacheInit

LEMMA WriteRefines ==
  ASSUME NEW k \in Keys, NEW d \in Contents[k], Write(k, d)
  PROVE  Contract!CacheNext
<1>1. callView' = callView
  BY DEF Write, callView
<1>2. Contract!Write(k, d)
  BY <1>1 DEF Write, Contract!Write, Ledger, Contract!Ledger
<1>3. QED
  BY <1>2 DEF Contract!CacheNext

\* A call of the trait begins; one of get_multiple drops the last answer.
LEMMA CallRefines ==
  ASSUME IInv, NEW c \in Callers, NEW q \in Queries, Call(c, q)
  PROVE  [Contract!CacheNext]_(Contract!cacheVars)
<1> DEFINE u == [IdleTask EXCEPT !.op = q.op, !.stage = "scan", !.pubkeys = q.pubkeys]
<1>1. q.op \in Ops /\ q.pubkeys \in Seq(Keys)
  OBVIOUS
<1>2. u \in Task
  BY <1>1, IdleFacts DEF Task
<1>3. u.op = q.op /\ u.stage = "scan" /\ u.pubkeys = q.pubkeys /\ u.result = <<>>
  BY DEF IdleTask
<1>4. /\ task[c].stage = "idle" /\ task' = [task EXCEPT ![c] = u]
      /\ log' = log /\ reset_at' = reset_at
  BY DEF Call
<1> HIDE DEF u
<1>5. /\ callView[c] = View(task[c]) /\ callView' = [callView EXCEPT ![c] = View(u)]
  BY <1>2, <1>4, ViewMoves DEF IInv, TypeInv
<1>6. ~callView[c].pending
  <2>1. \E p, a : View(task[c]) = [pending |-> FALSE, pubkeys |-> p, answer |-> a]
    BY <1>4 DEF View
  <2>2. QED
    BY <1>5, <2>1
<1>7. CASE q.op = "get_multiple"
  <2>1. View(u) = Contract!Idle
    BY <1>3, <1>7 DEF View, Contract!Idle
  <2>2. Contract!Drop(c)
    BY <1>4, <1>5, <1>6, <2>1 DEF Contract!Drop
  <2>3. QED
    BY <2>2 DEF Contract!CacheNext
<1>8. CASE q.op # "get_multiple"
  <2>1. View(u) = [pending |-> TRUE, pubkeys |-> q.pubkeys, answer |-> <<>>]
    BY <1>1, <1>3, <1>8 DEF View
  <2>2. Contract!Begin(c, q.pubkeys)
    BY <1>4, <1>5, <1>6, <2>1 DEF Contract!Begin
  <2>3. QED
    BY <2>2 DEF Contract!CacheNext
<1>9. QED
  BY <1>7, <1>8

LEMMA ScanRefines ==
  ASSUME IInv, NEW c \in Callers, Scan(c)
  PROVE  [Contract!CacheNext]_(Contract!cacheVars)
<1> DEFINE t == task[c]
           u == task'[c]
<1>1. t \in Task /\ t.stage = "scan" /\ UNCHANGED <<log, reset_at>>
  BY DEF Scan, IInv, TypeInv
<1>2. u \in Task /\ task' = [task EXCEPT ![c] = u]
  BY ScanKeeps DEF Scan, IInv, TypeInv
<1>3. \/ \E m : u = [t EXCEPT !.pos = @ + 1, !.result_map = m]
      \/ \E k : u = [t EXCEPT !.pos = @ + 1, !.keys = k]
  BY DEF Scan, IInv, TypeInv
<1> HIDE DEF t, u
<1>4. u.op = t.op /\ u.pubkeys = t.pubkeys /\ u.result = t.result /\ u.stage = "scan"
  BY <1>1, <1>3 DEF Task
<1>5. QED
  BY <1>1, <1>2, <1>4, InnerRefines DEF t

LEMMA EndScanRefines ==
  ASSUME IInv, NEW c \in Callers, EndScan(c)
  PROVE  [Contract!CacheNext]_(Contract!cacheVars)
<1> DEFINE t == task[c]
<1>1. /\ t \in Task /\ TaskInv(t) /\ t.stage = "scan" /\ t.pos > Len(t.pubkeys)
      /\ UNCHANGED <<log, reset_at>>
  BY DEF EndScan, IInv, TypeInv
<1>2. CASE t.keys = <<>>
  <2>1. task' = [task EXCEPT ![c] = Returned(task[c], Reassemble(t))]
    BY <1>2 DEF EndScan
  <2> HIDE DEF t
  <2>2. t.op # "get_multiple" => FreshMap(t.result_map)
    BY <1>1 DEF TaskInv, LookupInv
  <2>3. /\ Reassemble(t) \in Seq(Values) /\ DOMAIN Reassemble(t) = DOMAIN t.pubkeys
        /\ t.op # "get_multiple" =>
             \A n \in DOMAIN t.pubkeys : Reassemble(t)[n] \in Since(t.pubkeys[n])
    BY <1>1, <1>2, <2>2, ScanComplete, ReassembleFacts
  <2>4. QED
    BY <1>1, <2>1, <2>3, ReturnRefines DEF t
<1>3. CASE t.keys # <<>>
  <2>1. PICK u : u = [t EXCEPT !.stage = "rpc"]
    OBVIOUS
  <2>2. task' = [task EXCEPT ![c] = u]
    BY <1>3, <2>1 DEF EndScan
  <2> HIDE DEF t
  <2>3. /\ u \in Task /\ u.op = t.op /\ u.pubkeys = t.pubkeys /\ u.result = t.result
        /\ u.stage = "rpc"
    BY <1>1, <2>1 DEF Task
  <2>4. QED
    BY <1>1, <2>2, <2>3, InnerRefines DEF t
<1>4. QED
  BY <1>2, <1>3

LEMMA RpcAnswerRefines ==
  ASSUME IInv, NEW c \in Callers, RpcAnswer(c)
  PROVE  [Contract!CacheNext]_(Contract!cacheVars)
<1> DEFINE t == task[c]
           u == task'[c]
<1>1. t \in Task /\ t.stage = "rpc" /\ UNCHANGED <<log, reset_at>>
  BY DEF RpcAnswer, IInv, TypeInv
<1>2. u \in Task /\ task' = [task EXCEPT ![c] = u]
  BY RpcAnswerKeeps DEF RpcAnswer, IInv, TypeInv
<1>3. \/ task' = [task EXCEPT ![c] = Returned(t, Failed)]
      \/ \E r : u = [t EXCEPT !.stage = "insert", !.pos = 1, !.response = r]
  BY DEF RpcAnswer, IInv, TypeInv
<1>4. CASE task' = [task EXCEPT ![c] = Returned(t, Failed)]
  BY <1>1, <1>4, ReturnRefines
<1>5. CASE \E r : u = [t EXCEPT !.stage = "insert", !.pos = 1, !.response = r]
  <2> HIDE DEF t, u
  <2>1. u.op = t.op /\ u.pubkeys = t.pubkeys /\ u.result = t.result /\ u.stage = "insert"
    BY <1>1, <1>5 DEF Task
  <2>2. QED
    BY <1>1, <1>2, <2>1, InnerRefines DEF t
<1>6. QED
  BY <1>3, <1>4, <1>5

LEMMA RpcFailRefines ==
  ASSUME IInv, NEW c \in Callers, RpcFail(c)
  PROVE  [Contract!CacheNext]_(Contract!cacheVars)
<1>1. /\ task[c].stage = "rpc" /\ UNCHANGED <<log, reset_at>>
      /\ task' = [task EXCEPT ![c] = Returned(task[c], Failed)]
  BY DEF RpcFail
<1>2. QED
  BY <1>1, ReturnRefines

LEMMA InsertFetchedRefines ==
  ASSUME IInv, NEW c \in Callers, InsertFetched(c)
  PROVE  [Contract!CacheNext]_(Contract!cacheVars)
<1> DEFINE t == task[c]
           u == task'[c]
<1>1. t \in Task /\ t.stage = "insert" /\ UNCHANGED <<log, reset_at>>
  BY DEF InsertFetched, IInv, TypeInv
<1>2. u \in Task /\ task' = [task EXCEPT ![c] = u]
  BY InsertFetchedKeeps DEF InsertFetched, IInv, TypeInv
<1>3. \E m : u = [t EXCEPT !.pos = @ + 1, !.result_map = m]
  BY DEF InsertFetched, IInv, TypeInv
<1> HIDE DEF t, u
<1>4. u.op = t.op /\ u.pubkeys = t.pubkeys /\ u.result = t.result /\ u.stage = "insert"
  BY <1>1, <1>3 DEF Task
<1>5. QED
  BY <1>1, <1>2, <1>4, InnerRefines DEF t

LEMMA EndInsertRefines ==
  ASSUME IInv, NEW c \in Callers, EndInsert(c)
  PROVE  [Contract!CacheNext]_(Contract!cacheVars)
<1> DEFINE t == task[c]
<1>1. /\ t \in Task /\ TaskInv(t) /\ t.stage = "insert" /\ t.pos > Len(t.keys)
      /\ UNCHANGED <<log, reset_at>>
      /\ task' = [task EXCEPT ![c] = Returned(task[c], Reassemble(t))]
  BY DEF EndInsert, IInv, TypeInv
<1> HIDE DEF t
<1>2. t.op # "get_multiple" => FreshMap(t.result_map)
  BY <1>1 DEF TaskInv, LookupInv
<1>3. /\ Reassemble(t) \in Seq(Values) /\ DOMAIN Reassemble(t) = DOMAIN t.pubkeys
      /\ t.op # "get_multiple" =>
           \A n \in DOMAIN t.pubkeys : Reassemble(t)[n] \in Since(t.pubkeys[n])
  BY <1>1, <1>2, InsertComplete, ReassembleFacts
<1>4. QED
  BY <1>1, <1>3, ReturnRefines DEF t

LEMMA ResetRefines ==
  ASSUME IInv, reset_cache
  PROVE  Contract!CacheNext
<1>1. log' = log /\ reset_at' = Len(log) /\ task' = task
  BY DEF reset_cache
<1>2. callView' = callView
  BY <1>1 DEF callView
<1>3. \A c \in Callers : ~callView[c].pending
  <2> SUFFICES ASSUME NEW c \in Callers PROVE ~callView[c].pending
    OBVIOUS
  <2>1. task[c].stage = "idle"
    BY DEF reset_cache
  <2>2. \E p, a : callView[c] = [pending |-> FALSE, pubkeys |-> p, answer |-> a]
    BY <2>1 DEF callView
  <2>3. QED
    BY <2>2
<1>4. Contract!Reset
  BY <1>1, <1>2, <1>3 DEF Contract!Reset
<1>5. QED
  BY <1>4 DEF Contract!CacheNext

\* Every step of the cache is a step of the contract, or changes nothing that
\* the contract speaks of.
LEMMA NextRefines ==
  IInv /\ [Next]_vars => [Contract!CacheNext]_(Contract!cacheVars)
<1> SUFFICES ASSUME IInv, [Next]_vars
             PROVE  [Contract!CacheNext]_(Contract!cacheVars)
  OBVIOUS
<1>1. ASSUME NEW k \in Keys, NEW d \in Contents[k], Write(k, d)
      PROVE  Contract!CacheNext
  BY <1>1, WriteRefines
<1>2. ASSUME NEW c \in Callers, NEW q \in Queries, Call(c, q)
      PROVE  [Contract!CacheNext]_(Contract!cacheVars)
  BY <1>2, CallRefines
<1>3. ASSUME NEW c \in Callers, Step(c)
      PROVE  [Contract!CacheNext]_(Contract!cacheVars)
  BY <1>3, ScanRefines, EndScanRefines, InsertFetchedRefines, EndInsertRefines DEF Step
<1>4. ASSUME NEW c \in Callers, RpcAnswer(c)
      PROVE  [Contract!CacheNext]_(Contract!cacheVars)
  BY <1>4, RpcAnswerRefines
<1>5. ASSUME NEW c \in Callers, RpcFail(c)
      PROVE  [Contract!CacheNext]_(Contract!cacheVars)
  BY <1>5, RpcFailRefines
<1>6. CASE reset_cache
  BY <1>6, ResetRefines
<1>7. CASE UNCHANGED vars
  BY <1>7 DEF vars, callView, Contract!cacheVars
<1>8. QED
  BY <1>1, <1>2, <1>3, <1>4, <1>5, <1>6, <1>7 DEF Next

\* RpcClientCache implements the contract that venues rely on: entry n of an
\* answer belongs to address n and was on the ledger since the last reset,
\* whatever the interleaving of the calls.
THEOREM ImplementsContract == Spec => KeepsContract
<1>1. Spec => []IInv
  BY Inductive
<1>2. QED
  BY <1>1, InitRefines, NextRefines, PTL DEF Spec, KeepsContract, Contract!CacheSpec
=============================================================================
