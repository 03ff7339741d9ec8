---------------------------- MODULE AccountsCache ----------------------------
(***************************************************************************)
(* What a venue may rely on when it is handed an `&dyn AccountsCache`      *)
(* (account_caching/mod.rs): the n-th entry of an answer is the content    *)
(* that the n-th account requested had on the ledger at some moment since  *)
(* the cache was last reset, or the whole call fails.  Nothing is said of  *)
(* two entries belonging to the same moment.                               *)
(***************************************************************************)
EXTENDS Integers, Sequences

CONSTANTS
  Keys,         \* account addresses
  Callers,      \* tasks that share the cache
  Requests,     \* the sequences of addresses that tasks ask for
  Contents,     \* Contents[k]: what the account k may hold
  None,         \* the account does not exist
  Failed,       \* the answer of a call that returned Err
  Ledgers,      \* the ledgers to start from
  MaxWrites     \* bound on the writes to the ledger

ASSUME CacheAssumption ==
  /\ DOMAIN Contents = Keys
  /\ \A l \in Ledgers : DOMAIN l = Keys /\ \A k \in Keys : l[k] \in Contents[k]
  /\ Requests \subseteq Seq(Keys)
  /\ MaxWrites \in Nat

VARIABLES
  log,        \* the ledgers so far, the present one last
  reset_at,   \* the index of the ledger at the last reset
  call        \* call[c]: the call of c in flight, or the last one

cacheVars == <<log, reset_at, call>>

Ledger == log[Len(log)]

\* The contents of k since the last reset.
Since(k) == {log[t][k] : t \in reset_at..Len(log)}

Idle == [pending |-> FALSE, pubkeys |-> <<>>, answer |-> <<>>]

CacheInit ==
  /\ \E l \in Ledgers : log = <<l>>
  /\ reset_at = 1
  /\ call = [c \in Callers |-> Idle]

\* External: a transaction of somebody else changes an account.
Write(k, d) ==
  /\ Len(log) <= MaxWrites
  /\ d # Ledger[k]
  /\ log' = Append(log, [Ledger EXCEPT ![k] = d])
  /\ UNCHANGED <<reset_at, call>>

Begin(c, pubkeys) ==
  /\ ~call[c].pending
  /\ call' = [call EXCEPT ![c] = [pending |-> TRUE, pubkeys |-> pubkeys,
                                  answer |-> <<>>]]
  /\ UNCHANGED <<log, reset_at>>

\* An answer that the contract allows.
Faithful(pubkeys, answer) ==
  /\ DOMAIN answer = DOMAIN pubkeys
  /\ \A i \in DOMAIN pubkeys : answer[i] \in Since(pubkeys[i])

Return(c, answer) ==
  /\ call[c].pending
  /\ answer # Failed => Faithful(call[c].pubkeys, answer)
  /\ call' = [call EXCEPT ![c].pending = FALSE, ![c].answer = answer]
  /\ UNCHANGED <<log, reset_at>>

\* All of them.  Only the accounts that changed leave a choice.
Answers(pubkeys) ==
  LET changed == {i \in DOMAIN pubkeys : Since(pubkeys[i]) # {Ledger[pubkeys[i]]}}
  IN {[i \in DOMAIN pubkeys |->
         log[IF i \in changed THEN at[i] ELSE Len(log)][pubkeys[i]]] :
        at \in [changed -> reset_at..Len(log)]}

\* The caller drops an answer.
Drop(c) ==
  /\ ~call[c].pending
  /\ call' = [call EXCEPT ![c] = Idle]
  /\ UNCHANGED <<log, reset_at>>

\* Nobody is using the cache while it is reset.
Reset ==
  /\ \A c \in Callers : ~call[c].pending
  /\ reset_at' = Len(log)
  /\ UNCHANGED <<log, call>>

CacheNext ==
  \/ \E k \in Keys : \E d \in Contents[k] : Write(k, d)
  \/ \E c \in Callers : \/ \E pubkeys \in Requests : Begin(c, pubkeys)
                        \/ \E a \in Answers(call[c].pubkeys) \cup {Failed} :
                             Return(c, a)
                        \/ Drop(c)
  \/ Reset

CacheSpec == CacheInit /\ [][CacheNext]_cacheVars
=============================================================================
