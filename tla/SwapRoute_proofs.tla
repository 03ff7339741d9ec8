-------------------------- MODULE SwapRoute_proofs --------------------------
(***************************************************************************)
(* Custody of the TitanPDA's tokens, for any set of mints, any set of       *)
(* instructions of at most BITMAP_BITS remaining accounts and any amounts   *)
(* that the venues transfer between TitanPDA accounts and vaults.           *)
(***************************************************************************)
EXTENDS SwapRoute, TLAPS

InTransaction == Stages \ {"idle"}
AfterSnapshot == {"fund", "legs", "payout", "close", "check"}

\* What validation has established for the instruction in flight.
ValidInv ==
  pc \in InTransaction =>
     /\ req.mints > 1
     /\ req.swaps # <<>>
     /\ 2 * req.mints <= Len(req.remaining)
     /\ Len(req.remaining) <= BITMAP_BITS
     /\ \A k \in 1..Len(req.swaps) : /\ req.swaps[k].from < req.mints
                                     /\ req.swaps[k].to < req.mints
     /\ created_atas \subseteq RouteIndexes(req)

\* The local variables of execute outside an execution.
IdleInv ==
  pc \in {"idle", "atas"} => snapshot = <<>> /\ created_atas = {}

\* A closed TitanPDA account holds nothing.
ClosedEmpty(w) == \A a \in PdaAccounts \ w.open : w.bal[a] = 0

\* Outside a transaction there is one ledger; until the snapshot a
\* transaction moves no token.
LedgerInv ==
  /\ ClosedEmpty(chain) /\ ClosedEmpty(world)
  /\ pc = "idle" => world = chain
  /\ pc \in {"atas", "snapshot"} => world.bal = chain.bal

Listed(a) == \E p \in Positions(req) : req.remaining[p] = a

\* The balance that a was committed with is recorded in the snapshot, or is
\* nothing, or cannot have gone down because no leg names the account.
Guarded(a) ==
  \/ chain.bal[a] = 0
  \/ ~Listed(a) /\ world.bal[a] >= chain.bal[a]
  \/ \E p \in DOMAIN snapshot : /\ req.remaining[p] = a
                                /\ snapshot[p] = chain.bal[a]

GuardInv ==
  pc \in AfterSnapshot =>
     /\ \A a \in PdaAccounts : Guarded(a)
     /\ \A i \in RouteIndexes(req) :
          /\ Ata(req, i) \in PdaAccounts
          /\ i + 1 \in DOMAIN snapshot
          /\ snapshot[i + 1] = chain.bal[Ata(req, i)]
          /\ pc \in {"fund", "legs", "payout"} => Ata(req, i) \in world.open

\* The legs are executed one by one.
LegInv == pc \notin {"idle"} => leg > 0

\* After the payout nothing of the traded output is left.
SweptInv ==
  pc \in {"close", "check"} =>
     LET a == Ata(req, OutIndex(req))
     IN req.output # a => world.bal[a] <= chain.bal[a]

IInv == TypeOK /\ ValidInv /\ IdleInv /\ LedgerInv /\ GuardInv /\ SweptInv
        /\ LegInv

-----------------------------------------------------------------------------
USE ConstantsAssumption

\* The fields of an instruction.
LEMMA RequestTypes ==
  ASSUME NEW r \in Request
  PROVE  /\ r.amount \in Nat /\ r.mints \in Nat
         /\ r.swaps \in Seq(Swap) /\ r.remaining \in Seq(Key)
         /\ Len(r.swaps) \in Nat /\ Len(r.remaining) \in Nat
         /\ r.input \in Accounts /\ r.output \in Accounts
  BY DEF Request

LEMMA SwapTypes ==
  ASSUME NEW r \in Request, NEW k \in 1..Len(r.swaps)
  PROVE  /\ r.swaps[k].from \in Nat /\ r.swaps[k].to \in Nat
         /\ r.swaps[k].weight \in Nat /\ r.swaps[k].n_accounts \in Nat
  <1>1. r.swaps[k] \in Swap
    BY RequestTypes
  <1>2. QED
    BY <1>1 DEF Swap

\* A transfer within the balance keeps balances natural numbers, and lowers
\* that of the source only.
LEMMA MoveFacts ==
  ASSUME NEW bal \in [Accounts -> Nat], NEW from \in Accounts,
         NEW to \in Accounts, NEW amount \in Nat, amount <= bal[from]
  PROVE  /\ Move(bal, from, to, amount) \in [Accounts -> Nat]
         /\ \A a \in Accounts \ {from} : Move(bal, from, to, amount)[a] >= bal[a]
         /\ \A a \in Accounts \ {from, to} :
              Move(bal, from, to, amount)[a] = bal[a]
         /\ from # to => Move(bal, from, to, amount)[from] = bal[from] - amount
  BY DEF Move

\* The two transfers of a swap.
LEMMA SwapMoves ==
  ASSUME NEW bal \in [Accounts -> Nat], NEW a \in Accounts, NEW va \in Accounts,
         NEW b \in Accounts, NEW vb \in Accounts, vb # a,
         NEW x \in Nat, NEW y \in Nat, x <= bal[a], y <= bal[vb]
  PROVE  /\ Move(Move(bal, a, va, x), vb, b, y) \in [Accounts -> Nat]
         /\ \A c \in Accounts \ {a, vb} :
              Move(Move(bal, a, va, x), vb, b, y)[c] >= bal[c]
  <1> DEFINE n1 == Move(bal, a, va, x)
             n2 == Move(n1, vb, b, y)
  <1>1. /\ n1 \in [Accounts -> Nat]
        /\ \A c \in Accounts \ {a} : n1[c] >= bal[c]
        /\ \A c \in Accounts \ {a, va} : n1[c] = bal[c]
    BY MoveFacts
  <1> HIDE DEF n1
  <1>2. y <= n1[vb]
    BY <1>1
  <1>3. /\ n2 \in [Accounts -> Nat]
        /\ \A c \in Accounts \ {vb} : n2[c] >= n1[c]
        /\ \A c \in Accounts \ {vb, b} : n2[c] = n1[c]
    BY <1>1, <1>2, MoveFacts
  <1> HIDE DEF n2
  <1>4. \A c \in Accounts \ {a, vb} : n2[c] >= bal[c]
    BY <1>1, <1>3
  <1>5. QED
    BY <1>3, <1>4 DEF n1, n2

LEMMA SwapMovesNoOther ==
  ASSUME NEW bal \in [Accounts -> Nat], NEW a, NEW va, NEW b, NEW vb, NEW x, NEW y,
         NEW c \in Accounts, c # a, c # va, c # b, c # vb
  PROVE  Move(Move(bal, a, va, x), vb, b, y)[c] = bal[c]
  BY DEF Move

\* Closing accounts only touches these.
LEMMA CloseFacts ==
  ASSUME NEW w \in World, NEW A \in SUBSET Accounts
  PROVE  /\ CloseAccounts(w, A) \in World
         /\ CloseAccounts(w, A).open = w.open \ A
         /\ CloseAccounts(w, A).sol = w.sol
         /\ \A a \in Accounts \ A : CloseAccounts(w, A).bal[a] = w.bal[a]
         /\ \A a \in A : CloseAccounts(w, A).bal[a] = 0
  BY DEF CloseAccounts, World

\* A share of at most 100%, rounded down, is at most the whole.
LEMMA ShareBound ==
  ASSUME NEW x \in Nat, NEW w \in Nat, w <= ROUTE_WEIGHT_ALL
  PROVE  /\ (x * w) \div ROUTE_WEIGHT_ALL \in Nat
         /\ (x * w) \div ROUTE_WEIGHT_ALL <= x
  <1> DEFINE N == ROUTE_WEIGHT_ALL
             q == (x * w) \div N
  <1>1. N \in Nat /\ N > 0
    OBVIOUS
  <1>2. x * w \in Nat /\ x * w <= x * N
    BY <1>1
  <1>3. q \in Nat /\ q * N <= x * w
    BY <1>1, <1>2
  <1>4. q * N <= x * N
    BY <1>1, <1>2, <1>3
  <1>5. q <= x
    BY <1>1, <1>3, <1>4
  <1>6. QED
    BY <1>3, <1>5

\* Before the first instruction there is one ledger, and nothing in flight.
THEOREM InitInv == Init => IInv
  <1> SUFFICES ASSUME Init PROVE IInv
    OBVIOUS
  <1>0. \E r \in Requests : TRUE
    BY RequestsAssumption
  <1>1. req \in Request
    <2>1. req \in Requests
      BY <1>0, Zenon DEF Init
    <2>2. QED
      BY <2>1, RequestsAssumption
  <1>2. TypeOK
    <2>1. chain \in World
      BY RequestsAssumption DEF Init
    <2>2. DOMAIN snapshot = {}
      BY DEF Init
    <2>3. QED
      <3>1. /\ DOMAIN snapshot \subseteq Positions(req)
            /\ \A p \in DOMAIN snapshot : snapshot[p] \in Nat
        BY <2>2
      <3>2. /\ titan_pda \in BOOLEAN /\ pc \in Stages
            /\ created_atas \subseteq Nat /\ world \in World
            /\ result \in Errors \cup {"none", "running", "ok"}
        BY <2>1 DEF Init, Stages
      <3>3. leg \in Nat /\ remaining_account_index \in Nat
              /\ transactions \in 0..MaxTransactions
        BY DEF Init
      <3>4. QED
        BY <1>1, <2>1, <3>1, <3>2, <3>3 DEF TypeOK
  <1>3. LedgerInv
    BY RequestsAssumption DEF Init, LedgerInv, ClosedEmpty, PdaAccounts
  <1>4. QED
    BY <1>2, <1>3 DEF Init, IInv, ValidInv, IdleInv, GuardInv, SweptInv, LegInv,
                      InTransaction, AfterSnapshot

\* Rolling back restores the committed ledger.
LEMMA AbortInv ==
  ASSUME IInv, NEW e \in Errors, Abort(e)
  PROVE  IInv'
  <1> USE DEF Abort, Return
  <1>1. TypeOK'
    BY DEF IInv, TypeOK, Stages, Positions
  <1>2. LedgerInv'
    BY DEF IInv, LedgerInv, ClosedEmpty
  <1>3. QED
    BY <1>1, <1>2 DEF IInv, ValidInv, IdleInv, GuardInv, SweptInv, LegInv,
                      InTransaction, AfterSnapshot

LEMMA InitializeInv == IInv /\ Initialize => IInv'
  <1> SUFFICES ASSUME IInv, Initialize PROVE IInv'
    OBVIOUS
  <1>1. TypeOK'
    BY DEF IInv, TypeOK, Initialize, Positions
  <1>2. QED
    BY <1>1 DEF IInv, Initialize, ValidInv, IdleInv, LedgerInv, ClosedEmpty, GuardInv,
                SweptInv, LegInv, InTransaction, AfterSnapshot

\* What it takes to get past the checks at the start of execute.
LEMMA ValidationFacts ==
  ASSUME NEW r \in Request, Validation(r) = "ok"
  PROVE  /\ r.mints > 1
         /\ r.swaps # <<>>
         /\ 2 * r.mints <= Len(r.remaining)
         /\ \A k \in 1..Len(r.swaps) : /\ r.swaps[k].from < r.mints
                                        /\ r.swaps[k].to < r.mints
  <1> DEFINE c1 == \/ r.mints <= 1 \/ r.swaps = <<>>
                   \/ Len(r.swaps) > MAX_SWAPS \/ r.mints > MAX_MINTS
             c2 == Len(r.remaining) < 2 * r.mints
             c3 == \E k \in 1..Len(r.swaps) : \/ r.swaps[k].from >= r.mints
                                              \/ r.swaps[k].to >= r.mints
             c4 == \/ r.token_ledger # NoLedger /\ r.token_ledger.account # r.input
                   \/ ~HasDecimals(world, MintAt(r, 0))
                   \/ ~HasDecimals(world, MintAt(r, OutIndex(r)))
  <1>0. Validation(r) =
          IF ~titan_pda THEN "AccountNotInitialized"
          ELSE IF c1 THEN "InvalidSwapInput"
          ELSE IF c2 THEN "MissingRemainingAccount"
          ELSE IF r.swaps[1].from # 0 \/ c3 THEN "InvalidSwapInput"
          ELSE IF c4 THEN "InvalidAccountData" ELSE "ok"
    BY DEF Validation
  <1>1. ~c1 /\ ~c2 /\ ~c3
    <2> HIDE DEF c1, c2, c3, c4
    <2> QED
      BY <1>0
  <1>2. r.mints \in Nat /\ Len(r.remaining) \in Nat
    BY DEF Request
  <1>3. \A k \in 1..Len(r.swaps) : r.swaps[k].from \in Nat /\ r.swaps[k].to \in Nat
    BY SwapTypes
  <1>4. QED
    BY <1>1, <1>2, <1>3

LEMMA SubmitInv ==
  ASSUME IInv, NEW r \in Request, Len(r.remaining) <= BITMAP_BITS, Submit(r)
  PROVE  IInv'
  <1>1. r \in Request /\ Len(r.remaining) <= BITMAP_BITS
    OBVIOUS
  <1>2. r.mints \in Nat
    BY <1>1 DEF Request
  <1>3. snapshot = <<>> /\ created_atas = {}
    BY DEF IInv, IdleInv, Submit
  <1>4. TypeOK'
    <2>1. CASE Validation(r) = "ok"
      BY <1>1, <1>2, <1>3, <2>1 DEF Submit, IInv, TypeOK, Stages, Positions
    <2>2. CASE Validation(r) # "ok"
      <3>1. Validation(r) \in Errors
        BY <2>2 DEF Validation, Errors
      <3>2. QED
        BY <1>1, <1>3, <2>2, <3>1 DEF Submit, IInv, TypeOK, Stages, Positions
    <2>3. QED
      BY <2>1, <2>2
  <1>5. LedgerInv'
    BY DEF Submit, IInv, LedgerInv, ClosedEmpty
  <1>6. ValidInv'
    BY <1>1, <1>3, ValidationFacts DEF Submit, ValidInv, InTransaction, RouteIndexes
  <1>7. QED
    BY <1>3, <1>4, <1>5, <1>6 DEF Submit, IInv, IdleInv, GuardInv, SweptInv, LegInv, AfterSnapshot

\* The ledger's fields.
LEMMA WorldTypes ==
  ASSUME NEW w \in World
  PROVE  w.bal \in [Accounts -> Nat] /\ w.open \in SUBSET Accounts /\ w.sol \in Nat
  BY DEF World

\* Route indexes are positions of the remaining accounts, and the output
\* index is one of them.
LEMMA IndexFacts ==
  ASSUME IInv, pc \in InTransaction
  PROVE  /\ OutIndex(req) \in RouteIndexes(req)
         /\ 0 \in RouteIndexes(req)
         /\ \A i \in RouteIndexes(req) : i + 1 \in Positions(req)
         /\ \A k \in 1..Len(req.swaps) : /\ req.swaps[k].from \in RouteIndexes(req)
                                          /\ req.swaps[k].to \in RouteIndexes(req)
  <1>1. req \in Request
    BY DEF IInv, TypeOK
  <1>2. \A k \in 1..Len(req.swaps) : /\ req.swaps[k].from \in RouteIndexes(req)
                                     /\ req.swaps[k].to \in RouteIndexes(req)
    BY <1>1, SwapTypes, RequestTypes DEF IInv, ValidInv, RouteIndexes
  <1>3. Len(req.swaps) \in 1..Len(req.swaps)
    BY <1>1, RequestTypes DEF IInv, ValidInv
  <1>4. QED
    BY <1>1, <1>2, <1>3, RequestTypes
       DEF IInv, ValidInv, RouteIndexes, Positions, OutIndex

LEMMA CreateAtasInv == IInv /\ CreateAtas => IInv'
  <1> SUFFICES ASSUME IInv, CreateAtas PROVE IInv'
    OBVIOUS
  <1> DEFINE missing == MissingAtas(req, world)
             fits == \A i \in missing : CanCreate(Ata(req, i), "pda", MintAt(req, i))
  <1>1. CASE ~fits
    BY <1>1, AbortInv DEF CreateAtas, Errors
  <1>2. CASE fits
    <2>0. /\ pc = "atas" /\ pc' = "snapshot"
          /\ world' = [world EXCEPT !.open = @ \cup {Ata(req, i) : i \in missing}]
          /\ created_atas' \subseteq missing
          /\ UNCHANGED <<titan_pda, chain, req, snapshot, leg,
                         remaining_account_index, result, transactions>>
      BY <1>2 DEF CreateAtas
    <2>1. missing \subseteq RouteIndexes(req) /\ \A i \in missing : Ata(req, i) \in Accounts
      BY DEF MissingAtas
    <2>2. req.mints \in Nat /\ world \in World
      BY RequestTypes DEF IInv, TypeOK
    <2>3. /\ world' \in World /\ world'.bal = world.bal
          /\ world.open \subseteq world'.open
      BY <2>0, <2>1, <2>2 DEF World
    <2>4. TypeOK'
      <3>1. RouteIndexes(req) \subseteq Nat
        BY <2>2 DEF RouteIndexes
      <3>2. QED
        BY <2>0, <2>1, <2>3, <3>1 DEF IInv, TypeOK, Stages, Positions
    <2>5. LedgerInv'
      BY <2>0, <2>3 DEF IInv, LedgerInv, ClosedEmpty
    <2>6. ValidInv'
      BY <2>0, <2>1 DEF IInv, ValidInv, InTransaction, Stages, RouteIndexes
    <2>7. QED
      BY <2>0, <2>4, <2>5, <2>6 DEF IInv, IdleInv, GuardInv, SweptInv, LegInv, AfterSnapshot
  <1>3. QED
    BY <1>1, <1>2

LEMMA TakeSnapshotInv == IInv /\ TakeSnapshot => IInv'
  <1> SUFFICES ASSUME IInv, TakeSnapshot PROVE IInv'
    OBVIOUS
  <1> DEFINE fits == \A i \in RouteIndexes(req) :
                        is_titan_pda_token_account(world, Ata(req, i))
             held == {q \in Positions(req) :
                        /\ q <= BITMAP_BITS
                        /\ is_titan_pda_token_account(world, req.remaining[q])}
  <1>1. CASE ~fits
    BY <1>1, AbortInv DEF TakeSnapshot, Errors
  <1>2. CASE fits
    <2>0. /\ pc = "snapshot" /\ pc' = "fund"
          /\ snapshot' = [p \in held |-> world.bal[req.remaining[p]]]
          /\ UNCHANGED <<titan_pda, chain, world, req, created_atas, leg,
                         remaining_account_index, result, transactions>>
      BY <1>2 DEF TakeSnapshot
    <2>1. /\ world \in World /\ world.bal \in [Accounts -> Nat]
          /\ world.open \subseteq Accounts
          /\ world.bal = chain.bal
      BY <2>0, WorldTypes DEF IInv, TypeOK, LedgerInv
    <2>2. \A q \in held : req.remaining[q] \in PdaAccounts
      BY <2>1 DEF is_titan_pda_token_account, PdaAccounts
    <2>3. \A i \in RouteIndexes(req) : i + 1 \in Positions(req) /\ i + 1 <= BITMAP_BITS
      <3>1. pc \in InTransaction
        BY <2>0 DEF InTransaction, Stages
      <3>2. Len(req.remaining) <= BITMAP_BITS /\ Len(req.remaining) \in Nat
        BY <3>1, RequestTypes DEF IInv, ValidInv, TypeOK
      <3>3. QED
        BY <3>1, <3>2, IndexFacts DEF Positions
    <2>4. \A i \in RouteIndexes(req) : /\ i + 1 \in held
                                       /\ Ata(req, i) \in PdaAccounts \cap world.open
      BY <1>2, <2>1, <2>3 DEF Ata, is_titan_pda_token_account, PdaAccounts
    <2>5. TypeOK'
      <3>1. DOMAIN snapshot' \subseteq Positions(req)
        BY <2>0
      <3>2. \A p \in DOMAIN snapshot' : snapshot'[p] \in Nat
        BY <2>0, <2>1, <2>2 DEF PdaAccounts
      <3>3. QED
        BY <2>0, <3>1, <3>2 DEF IInv, TypeOK, Stages, Positions
    <2>6. \A a \in PdaAccounts : Guarded(a)'
      <3> TAKE a \in PdaAccounts
      <3>1. a \in Accounts /\ world.bal[a] >= chain.bal[a]
        BY <2>1 DEF PdaAccounts
      <3>2. Listed(a)' <=> Listed(a)
        BY <2>0 DEF Listed, Positions
      <3>3. CASE chain.bal[a] = 0 \/ ~Listed(a)
        BY <2>0, <3>1, <3>2, <3>3 DEF Guarded
      <3>4. CASE chain.bal[a] # 0 /\ Listed(a)
        <4>1. a \in world.open
          BY <2>1, <3>4 DEF IInv, LedgerInv, ClosedEmpty
        <4>2. PICK p \in Positions(req) : req.remaining[p] = a
          BY <3>4 DEF Listed
        <4>3. p <= BITMAP_BITS
          BY <2>0, RequestTypes
             DEF IInv, ValidInv, TypeOK, Positions, InTransaction, Stages
        <4>4. p \in held
          BY <4>1, <4>2, <4>3 DEF is_titan_pda_token_account, PdaAccounts
        <4>5. QED
          BY <2>0, <2>1, <4>2, <4>4 DEF Guarded
      <3>5. QED
        BY <3>3, <3>4
    <2>7. GuardInv'
      BY <2>0, <2>1, <2>4, <2>6 DEF GuardInv, Ata, RouteIndexes
    <2>8. ValidInv' /\ LedgerInv'
      BY <2>0 DEF IInv, ValidInv, LedgerInv, ClosedEmpty, InTransaction, Stages, RouteIndexes
    <2>9. QED
      BY <2>0, <2>5, <2>7, <2>8 DEF IInv, IdleInv, SweptInv, LegInv
  <1>3. QED
    BY <1>1, <1>2

\* A successful transfer: only the source can lose, closed accounts are not
\* touched.
LEMMA TransferFacts ==
  ASSUME NEW w \in World, NEW from \in Accounts, NEW to \in Accounts,
         NEW authority, NEW mint, NEW amount \in Nat,
         CanTransfer(w, from, to, authority, mint, amount)
  PROVE  LET v == transfer_tokens(w, from, to, amount)
         IN /\ v \in World /\ v.open = w.open
            /\ \A a \in Accounts \ {from} : v.bal[a] >= w.bal[a]
            /\ \A a \in Accounts \ w.open : v.bal[a] = w.bal[a]
            /\ amount > 0 => from[1] = authority
            /\ from # to => v.bal[from] = w.bal[from] - amount
            /\ amount = 0 => v = w
  <1> DEFINE v == transfer_tokens(w, from, to, amount)
  <1>1. w.bal \in [Accounts -> Nat]
    BY WorldTypes
  <1>2. CASE amount = 0
    BY <1>1, <1>2 DEF transfer_tokens
  <1>3. CASE amount > 0
    <2>1. /\ from \in w.open /\ to \in w.open /\ from[1] = authority
          /\ amount <= w.bal[from]
      BY <1>1, <1>3 DEF CanTransfer
    <2>2. v = [w EXCEPT !.bal = Move(w.bal, from, to, amount)]
      BY <1>3 DEF transfer_tokens
    <2>3. v \in World /\ v.open = w.open /\ v.bal = Move(w.bal, from, to, amount)
      <3>1. Move(w.bal, from, to, amount) \in [Accounts -> Nat]
        BY <1>1, <2>1, MoveFacts
      <3>2. QED
        BY <2>2, <3>1 DEF World
    <2>4. /\ \A a \in Accounts \ {from} : v.bal[a] >= w.bal[a]
          /\ \A a \in Accounts \ {from, to} : v.bal[a] = w.bal[a]
          /\ from # to => v.bal[from] = w.bal[from] - amount
      <3> HIDE DEF v
      <3> QED
        BY <1>1, <2>1, <2>3, MoveFacts
    <2>5. \A a \in Accounts \ w.open : v.bal[a] = w.bal[a]
      BY <2>1, <2>4
    <2>6. QED
      BY <1>3, <2>1, <2>3, <2>4, <2>5
  <1>4. QED
    BY <1>2, <1>3

\* A stage after the snapshot keeps the guard if it lowers no TitanPDA account
\* outside the remaining accounts.
LEMMA StageInv ==
  ASSUME IInv, pc \in AfterSnapshot, pc' \in AfterSnapshot,
         UNCHANGED <<titan_pda, chain, req, created_atas, snapshot, result,
                     transactions>>,
         leg' \in Nat, remaining_account_index' \in Nat, world' \in World,
         pc' \in {"fund", "legs", "payout"} =>
            /\ pc \in {"fund", "legs", "payout"}
            /\ world.open \cap PdaAccounts \subseteq world'.open,
         ClosedEmpty(world'),
         \A a \in PdaAccounts : Listed(a) \/ world'.bal[a] >= world.bal[a]
  PROVE  TypeOK' /\ ValidInv' /\ IdleInv' /\ LedgerInv' /\ GuardInv'
  <1>1. TypeOK'
    BY DEF IInv, TypeOK, AfterSnapshot, Stages, Positions
  <1>2. ValidInv'
    BY DEF IInv, ValidInv, AfterSnapshot, InTransaction, Stages, RouteIndexes
  <1>3. IdleInv' /\ LedgerInv'
    BY DEF IInv, IdleInv, LedgerInv, ClosedEmpty, AfterSnapshot
  <1>4. \A a \in PdaAccounts : Guarded(a)'
    <2> TAKE a \in PdaAccounts
    <2>1. Guarded(a) /\ (Listed(a)' <=> Listed(a))
      BY DEF IInv, GuardInv, Listed, Positions
    <2>2. /\ chain.bal[a] \in Nat /\ world.bal[a] \in Nat
          /\ world'.bal[a] \in Nat
      BY WorldTypes DEF IInv, TypeOK, PdaAccounts
    <2>3. QED
      BY <2>1, <2>2 DEF Guarded
  <1>5. GuardInv'
    BY <1>4 DEF IInv, GuardInv, Ata, RouteIndexes
  <1>6. QED
    BY <1>1, <1>2, <1>3, <1>5

LEMMA FundInv == IInv /\ Fund => IInv'
  <1> SUFFICES ASSUME IInv, Fund PROVE IInv'
    OBVIOUS
  <1> DEFINE amount == effective_amount(req, world)
             wraps  == WrapsSol(req)
             w1     == IF wraps THEN SetupWsol(req, world) ELSE world
             w2     == transfer_tokens(w1, req.input, Ata(req, 0), amount)
             w3     == IF CreatesWsol(req, world)
                         THEN CloseAccounts(w2, {req.input}) ELSE w2
             failed == \/ wraps /\ ~CanWrap(req, world)
                       \/ ~CanTransfer(w1, req.input, Ata(req, 0), "user",
                                       MintAt(req, 0), amount)
  <1>1. CASE ~EffectiveAmountOk(req, world)
    BY <1>1, AbortInv DEF Fund, Errors
  <1>2. CASE EffectiveAmountOk(req, world) /\ failed
    BY <1>2, AbortInv DEF Fund, Errors
  <1>3. CASE EffectiveAmountOk(req, world) /\ ~failed
    <2>0. /\ pc = "fund" /\ pc' = "legs" /\ world' = w3
          /\ UNCHANGED <<titan_pda, chain, req, created_atas, snapshot, leg,
                         remaining_account_index, result, transactions>>
      BY <1>3 DEF Fund
    <2>1. /\ req \in Request /\ world \in World /\ ClosedEmpty(world)
          /\ leg \in Nat /\ remaining_account_index \in Nat
      BY DEF IInv, TypeOK, LedgerInv
    <2>2. /\ req.input \in Accounts /\ req.amount \in Nat
          /\ world.bal \in [Accounts -> Nat] /\ world.open \subseteq Accounts
          /\ world.sol \in Nat
      BY <2>1, RequestTypes, WorldTypes
    <2>3. Ata(req, 0) \in Accounts
      BY <2>0, IndexFacts
         DEF IInv, GuardInv, AfterSnapshot, InTransaction, Stages, PdaAccounts
    <2>4. amount \in Nat
      <3>1. CASE req.token_ledger = NoLedger
        BY <2>2, <3>1 DEF effective_amount
      <3>2. CASE req.token_ledger # NoLedger
        <4>1. req.token_ledger.stored \in Nat
          BY <2>1, <3>2 DEF Request
        <4>2. QED
          BY <1>3, <2>2, <3>2, <4>1 DEF effective_amount, EffectiveAmountOk
      <3>3. QED
        BY <3>1, <3>2
    <2>5. /\ w1 \in World /\ world.open \subseteq w1.open
          /\ \A a \in Accounts : w1.bal[a] >= world.bal[a]
          /\ \A a \in Accounts \ w1.open : w1.bal[a] = world.bal[a]
      <3>1. CASE ~wraps
        BY <2>1, <2>2, <3>1
      <3>2. CASE wraps
        <4>1. deficit(req, world) \in Nat /\ deficit(req, world) <= world.sol
          BY <1>3, <2>2, <3>2 DEF deficit, saturating_sub, CanWrap
        <4>2. /\ w1.open = world.open \cup {req.input}
              /\ w1.bal = [world.bal EXCEPT ![req.input] = @ + deficit(req, world)]
              /\ w1.sol = world.sol - deficit(req, world)
              /\ w1 = [open |-> w1.open, bal |-> w1.bal, sol |-> w1.sol]
          BY <3>2 DEF SetupWsol
        <4>3. w1.bal \in [Accounts -> Nat] /\ w1.sol \in Nat
                /\ w1.open \in SUBSET Accounts
          BY <2>2, <4>1, <4>2
        <4>4. w1 \in World
          BY <4>2, <4>3 DEF World
        <4>5. QED
          BY <2>2, <4>1, <4>2, <4>4
      <3>3. QED
        BY <3>1, <3>2
    <2>6. /\ w2 \in World /\ w2.open = w1.open
          /\ \A a \in Accounts \ {req.input} : w2.bal[a] >= w1.bal[a]
          /\ \A a \in Accounts \ w1.open : w2.bal[a] = w1.bal[a]
          /\ amount > 0 => req.input[1] = "user"
          /\ amount = 0 => w2 = w1
      <3> HIDE DEF w1, amount
      <3>1. CanTransfer(w1, req.input, Ata(req, 0), "user", MintAt(req, 0), amount)
        BY <1>3
      <3>2. QED
        BY <2>2, <2>3, <2>4, <2>5, <3>1, TransferFacts
    <2>7. \A a \in PdaAccounts : a \in Accounts /\ w2.bal[a] >= world.bal[a]
      <3> HIDE DEF w1, w2, amount
      <3> TAKE a \in PdaAccounts
      <3>1. a \in Accounts /\ a[1] = "pda"
        BY DEF PdaAccounts
      <3>2. w1.bal[a] \in Nat /\ w2.bal[a] \in Nat /\ world.bal[a] \in Nat
              /\ w1.bal[a] >= world.bal[a]
        BY <2>1, <2>5, <2>6, <3>1, WorldTypes
      <3>3. CASE amount = 0
        BY <2>6, <3>1, <3>2, <3>3
      <3>4. CASE amount > 0
        BY <2>6, <3>1, <3>2, <3>4
      <3>5. QED
        BY <2>4, <3>3, <3>4
    <2>8. /\ w3 \in World /\ world.open \cap PdaAccounts \subseteq w3.open
          /\ \A a \in PdaAccounts : w3.bal[a] >= world.bal[a]
          /\ ClosedEmpty(w3)
      <3> HIDE DEF w1, w2, amount
      <3>1. ClosedEmpty(w2)
        BY <2>1, <2>5, <2>6, <2>7 DEF ClosedEmpty
      <3>2. CASE ~CreatesWsol(req, world)
        BY <2>5, <2>6, <2>7, <3>1, <3>2
      <3>3. CASE CreatesWsol(req, world)
        <4>1. req.input \notin PdaAccounts
          BY <1>3, <3>3 DEF CreatesWsol, CanWrap, User, PdaAccounts
        <4>2. w3 = CloseAccounts(w2, {req.input})
          BY <3>3
        <4> HIDE DEF w3
        <4>3. QED
          BY <2>2, <2>5, <2>6, <2>7, <3>1, <4>1, <4>2, CloseFacts
             DEF ClosedEmpty
      <3>4. QED
        BY <3>2, <3>3
    <2>9. TypeOK' /\ ValidInv' /\ IdleInv' /\ LedgerInv' /\ GuardInv'
      <3> HIDE DEF w3
      <3>1. QED
        BY <2>0, <2>1, <2>8, StageInv DEF AfterSnapshot
    <2>10. QED
      BY <2>0, <2>9 DEF IInv, SweptInv, LegInv
  <1>4. QED
    BY <1>1, <1>2, <1>3

\* What a leg spends is a natural number within the balance it comes from.
LEMMA InputAmountBound ==
  ASSUME IInv, pc = "legs", NEW k \in 1..Len(req.swaps)
  PROVE  /\ input_amount(world, req, req.swaps[k]) \in Nat
         /\ input_amount(world, req, req.swaps[k])
              <= world.bal[Ata(req, req.swaps[k].from)]
  <1> DEFINE s == req.swaps[k]
             a == Ata(req, s.from)
             free == saturating_sub(world.bal[a], snapshot[s.from + 1])
             share == IF s.weight < ROUTE_WEIGHT_ALL THEN s.weight
                                                     ELSE ROUTE_WEIGHT_ALL
  <1>1. s.from \in RouteIndexes(req)
    BY IndexFacts DEF InTransaction, Stages
  <1>2. a \in Accounts /\ s.from + 1 \in DOMAIN snapshot
    BY <1>1 DEF IInv, GuardInv, AfterSnapshot, PdaAccounts
  <1>3. world.bal[a] \in Nat /\ snapshot[s.from + 1] \in Nat
    BY <1>2, WorldTypes DEF IInv, TypeOK
  <1>4. free \in Nat /\ free <= world.bal[a]
    BY <1>3 DEF saturating_sub
  <1>5. share \in Nat /\ share <= ROUTE_WEIGHT_ALL
    BY SwapTypes DEF IInv, TypeOK
  <1>6. input_amount(world, req, s) = (free * share) \div ROUTE_WEIGHT_ALL
    BY DEF input_amount
  <1> HIDE DEF free, share, a
  <1>7. /\ (free * share) \div ROUTE_WEIGHT_ALL \in Nat
        /\ (free * share) \div ROUTE_WEIGHT_ALL <= free
    BY <1>4, <1>5, ShareBound
  <1>8. input_amount(world, req, s) \in Nat /\ input_amount(world, req, s) <= world.bal[a]
    BY <1>3, <1>4, <1>6, <1>7
  <1>9. QED
    BY <1>8 DEF a

\* A venue only reaches the open accounts of its leg.
LEMMA VenueFacts ==
  ASSUME IInv, pc = "legs", NEW k \in 1..Len(req.swaps),
         remaining_account_index + req.swaps[k].n_accounts <= Len(req.remaining),
         VenueSwap(req.swaps[k], input_amount(world, req, req.swaps[k]))
  PROVE  /\ world' \in World /\ world'.open = world.open
         /\ ClosedEmpty(world')
         /\ \A c \in PdaAccounts : Listed(c) \/ world'.bal[c] >= world.bal[c]
  <1> DEFINE s == req.swaps[k]
             amount == input_amount(world, req, s)
  <1>0. PICK a \in Tradable(req, s), b \in Tradable(req, s) :
          /\ HonestVenues => a = Ata(req, s.from) /\ b = Ata(req, s.to)
          /\ \E x \in IF HonestVenues THEN {amount} ELSE 0..world.bal[a],
                y \in 0..world.bal[Vault(b[2])] :
               world' = [world EXCEPT !.bal =
                           Move(Move(@, a, Vault(a[2]), x), Vault(b[2]), b, y)]
    BY DEF VenueSwap
  <1>1. PICK x \in IF HonestVenues THEN {amount} ELSE 0..world.bal[a],
             y \in 0..world.bal[Vault(b[2])] :
          world' = [world EXCEPT !.bal =
                      Move(Move(@, a, Vault(a[2]), x), Vault(b[2]), b, y)]
    BY <1>0
  <1> DEFINE va == Vault(a[2])
             vb == Vault(b[2])
             n2 == Move(Move(world.bal, a, va, x), vb, b, y)
  <1>2. /\ world \in World /\ world.bal \in [Accounts -> Nat]
        /\ world.open \subseteq Accounts
    BY WorldTypes DEF IInv, TypeOK
  <1>3. /\ {a, b, va, vb} \subseteq world.open \cap LegAccounts(req, s)
        /\ a \in Accounts /\ b \in Accounts /\ va \in Accounts /\ vb \in Accounts
        /\ a[1] = "pda" /\ b[1] = "pda" /\ va[1] = "venue" /\ vb[1] = "venue"
    BY <1>2 DEF Tradable, Vault
  <1>4. x \in Nat /\ x <= world.bal[a] /\ y \in Nat /\ y <= world.bal[vb]
    <2>1. world.bal[a] \in Nat /\ world.bal[vb] \in Nat
      BY <1>2, <1>3
    <2>2. CASE HonestVenues
      BY <1>0, <1>1, <2>1, <2>2, InputAmountBound
    <2>3. CASE ~HonestVenues
      BY <1>1, <2>1, <2>3
    <2>4. QED
      BY <2>2, <2>3
  <1>5. world' = [world EXCEPT !.bal = n2]
    BY <1>1
  <1>6. vb # a
    BY <1>3
  <1> HIDE DEF va, vb
  <1>8. /\ n2 \in [Accounts -> Nat]
        /\ \A c \in Accounts \ {a, vb} : n2[c] >= world.bal[c]
        /\ \A c \in Accounts : c # a /\ c # va /\ c # b /\ c # vb =>
             n2[c] = world.bal[c]
    <2> DEFINE B == world.bal
    <2>1. /\ B \in [Accounts -> Nat] /\ x <= B[a] /\ y <= B[vb]
          /\ x \in Nat /\ y \in Nat
      BY <1>2, <1>4
    <2> HIDE DEF B
    <2>2. /\ Move(Move(B, a, va, x), vb, b, y) \in [Accounts -> Nat]
          /\ \A c \in Accounts \ {a, vb} :
               Move(Move(B, a, va, x), vb, b, y)[c] >= B[c]
          /\ \A c \in Accounts : c # a /\ c # va /\ c # b /\ c # vb =>
               Move(Move(B, a, va, x), vb, b, y)[c] = B[c]
      <3>1. a \in Accounts /\ b \in Accounts /\ va \in Accounts /\ vb \in Accounts
        BY <1>3
      <3>2. Move(Move(B, a, va, x), vb, b, y) \in [Accounts -> Nat]
        BY <1>6, <2>1, <3>1, SwapMoves
      <3>3. ASSUME NEW c \in Accounts, c # a, c # vb
            PROVE  Move(Move(B, a, va, x), vb, b, y)[c] >= B[c]
        BY <1>6, <2>1, <3>1, <3>3, SwapMoves
      <3>4. ASSUME NEW c \in Accounts, c # a, c # va, c # b, c # vb
            PROVE  Move(Move(B, a, va, x), vb, b, y)[c] = B[c]
        BY <2>1, <3>4, SwapMovesNoOther
      <3>5. QED
        BY <3>2, <3>3, <3>4
    <2>3. QED
      BY <2>2 DEF B
  <1> HIDE DEF n2
  <1>9. world' \in World /\ world'.open = world.open /\ world'.bal = n2
    BY <1>2, <1>5, <1>8 DEF World
  <1>10. ClosedEmpty(world')
    <2> SUFFICES ASSUME NEW c \in PdaAccounts, c \notin world.open
                 PROVE  n2[c] = 0
      BY <1>9 DEF ClosedEmpty
    <2>1. c \in Accounts /\ c \notin {a, b, va, vb}
      BY <1>3 DEF PdaAccounts
    <2>2. world.bal[c] = 0
      BY DEF IInv, LedgerInv, ClosedEmpty
    <2>3. QED
      BY <1>8, <2>1, <2>2
  <1>11. ASSUME NEW c \in PdaAccounts, ~Listed(c)
         PROVE  world'.bal[c] >= world.bal[c]
    <2>1. c \notin LegAccounts(req, s)
      <3>1. /\ remaining_account_index \in Nat /\ s.n_accounts \in Nat
            /\ Len(req.remaining) \in Nat
        BY SwapTypes, RequestTypes DEF IInv, TypeOK
      <3>2. \A p \in (remaining_account_index + 1)..
                       (remaining_account_index + s.n_accounts - 1) :
               p \in Positions(req)
        <4> DEFINE ix == remaining_account_index
                   n == s.n_accounts
                   len == Len(req.remaining)
        <4>1. ix \in Nat /\ n \in Nat /\ len \in Nat /\ ix + n <= len
          BY <3>1
        <4> HIDE DEF ix, n, len
        <4>2. \A p \in (ix + 1)..(ix + n - 1) : p \in 1..len
          BY <4>1
        <4>3. QED
          BY <4>2 DEF Positions, ix, n, len
      <3>3. QED
        BY <1>11, <3>2 DEF Listed, LegAccounts
    <2>2. c \in Accounts /\ c # a /\ c # vb
      BY <1>3, <2>1 DEF PdaAccounts
    <2>3. QED
      BY <1>8, <1>9, <2>2
  <1>12. QED
    BY <1>9, <1>10, <1>11

LEMMA SwapLegInv == IInv /\ SwapLeg => IInv'
  <1> SUFFICES ASSUME IInv, SwapLeg PROVE IInv'
    OBVIOUS
  <1> DEFINE s == req.swaps[leg]
             amount == input_amount(world, req, s)
             advance == /\ leg' = leg + 1
                        /\ remaining_account_index' =
                             remaining_account_index + s.n_accounts
                        /\ UNCHANGED <<titan_pda, chain, pc, req, created_atas,
                                       snapshot, result, transactions>>
  <1>1. /\ pc = "legs" /\ leg <= Len(req.swaps)
        /\ req \in Request /\ world \in World /\ ClosedEmpty(world)
        /\ remaining_account_index \in Nat /\ leg \in Nat
        /\ Len(req.remaining) \in Nat /\ Len(req.swaps) \in Nat
    BY RequestTypes DEF IInv, TypeOK, LedgerInv, SwapLeg
  <1>2. CASE LegError(req, s) # "ok"
    <2>1. LegError(req, s) \in Errors
      BY <1>2 DEF LegError, Errors
    <2>2. Abort(LegError(req, s))
      BY <1>2 DEF SwapLeg
    <2>3. QED
      BY <2>1, <2>2, AbortInv
  <1>3. CASE Abort("CpiFailed")
    BY <1>3, AbortInv DEF Errors
  <1>4. CASE /\ LegError(req, s) = "ok"
             /\ advance
             /\ world' = world \/ VenueSwap(s, amount)
    <2>1. pc = "legs" /\ pc' = "legs" /\ leg \in 1..Len(req.swaps)
      BY <1>1, <1>4 DEF SwapLeg, IInv, LegInv
    <2>2. s.n_accounts \in Nat
      BY <1>1, <2>1, SwapTypes
    <2>3. remaining_account_index + s.n_accounts <= Len(req.remaining)
      BY <1>1, <1>4, <2>2 DEF LegError
    <2>4. /\ world' \in World /\ world'.open = world.open
          /\ ClosedEmpty(world')
          /\ \A c \in PdaAccounts : Listed(c) \/ world'.bal[c] >= world.bal[c]
      <3>1. CASE world' = world
        <4>1. \A c \in PdaAccounts : world.bal[c] \in Nat
          BY <1>1, WorldTypes DEF PdaAccounts
        <4>2. QED
          BY <1>1, <3>1, <4>1
      <3>2. CASE VenueSwap(s, amount)
        BY <2>1, <2>3, <3>2, VenueFacts
      <3>3. QED
        BY <1>4, <3>1, <3>2
    <2>5. TypeOK' /\ ValidInv' /\ IdleInv' /\ LedgerInv' /\ GuardInv'
      <3>1. leg' \in Nat /\ remaining_account_index' \in Nat
        BY <1>1, <1>4, <2>2
      <3>2. QED
        BY <1>4, <2>1, <2>4, <3>1, StageInv DEF AfterSnapshot
    <2>6. LegInv'
      BY <1>1, <1>4, <2>1 DEF LegInv
    <2>7. QED
      BY <2>1, <2>5, <2>6 DEF IInv, SweptInv
  <1>5. QED
    BY <1>2, <1>3, <1>4 DEF SwapLeg

LEMMA LegsDoneInv == IInv /\ LegsDone => IInv'
  <1> SUFFICES ASSUME IInv, LegsDone PROVE IInv'
    OBVIOUS
  <1>1. /\ pc = "legs" /\ pc' = "payout"
        /\ UNCHANGED <<titan_pda, chain, world, req, created_atas, snapshot, leg,
                       remaining_account_index, result, transactions>>
    BY DEF LegsDone
  <1>2. /\ world' \in World /\ ClosedEmpty(world')
        /\ leg' \in Nat /\ remaining_account_index' \in Nat
        /\ \A c \in PdaAccounts : world.bal[c] \in Nat
    BY <1>1, WorldTypes DEF IInv, TypeOK, LedgerInv, PdaAccounts, ClosedEmpty
  <1>3. TypeOK' /\ ValidInv' /\ IdleInv' /\ LedgerInv' /\ GuardInv'
    BY <1>1, <1>2, StageInv DEF AfterSnapshot
  <1>4. QED
    BY <1>1, <1>3 DEF IInv, SweptInv, LegInv

LEMMA PayoutInv == IInv /\ Payout => IInv'
  <1> SUFFICES ASSUME IInv, Payout PROVE IInv'
    OBVIOUS
  <1> DEFINE a  == Ata(req, OutIndex(req))
             m  == MintAt(req, OutIndex(req))
             out == user_output(world, req)
             w1 == [world EXCEPT !.open = @ \cup {req.output}]
             w2 == transfer_tokens(w1, a, req.output, out)
             fits == /\ req.output \notin world.open => CanCreate(req.output, "user", m)
                     /\ CanTransfer(w1, a, req.output, "pda", m, out)
  <1>1. CASE ~fits
    BY <1>1, AbortInv DEF Payout, Errors
  <1>2. CASE fits
    <2>0. /\ pc = "payout" /\ pc' = "close" /\ world' = w2
          /\ UNCHANGED <<titan_pda, chain, req, created_atas, snapshot, leg,
                         remaining_account_index, result, transactions>>
      BY <1>2 DEF Payout
    <2>1. /\ req \in Request /\ world \in World /\ ClosedEmpty(world)
          /\ leg \in Nat /\ remaining_account_index \in Nat
          /\ req.output \in Accounts /\ world.open \subseteq Accounts
          /\ world.bal \in [Accounts -> Nat] /\ chain.bal \in [Accounts -> Nat]
      BY RequestTypes, WorldTypes DEF IInv, TypeOK, LedgerInv
    <2>2. /\ a \in Accounts /\ Listed(a) /\ OutIndex(req) + 1 \in DOMAIN snapshot
          /\ snapshot[OutIndex(req) + 1] = chain.bal[a]
      <3>1. /\ OutIndex(req) \in RouteIndexes(req)
            /\ OutIndex(req) + 1 \in Positions(req)
        BY <2>0, IndexFacts DEF InTransaction, Stages
      <3>2. QED
        BY <2>0, <3>1 DEF IInv, GuardInv, AfterSnapshot, PdaAccounts, Listed, Ata
    <2>3. out = saturating_sub(world.bal[a], chain.bal[a]) /\ out \in Nat
      BY <2>1, <2>2 DEF user_output, saturating_sub
    <2>4. /\ w1 \in World /\ w1.bal = world.bal /\ world.open \subseteq w1.open
      BY <2>1 DEF World
    <2> HIDE DEF w1, out
    <2>5. /\ w2 \in World /\ w2.open = w1.open
          /\ \A c \in Accounts \ {a} : w2.bal[c] >= w1.bal[c]
          /\ \A c \in Accounts \ w1.open : w2.bal[c] = w1.bal[c]
          /\ a # req.output => w2.bal[a] = w1.bal[a] - out
      <3>1. CanTransfer(w1, a, req.output, "pda", m, out)
        BY <1>2 DEF w1, out
      <3> HIDE DEF a, m
      <3>2. QED
        BY <2>1, <2>2, <2>3, <2>4, <3>1, TransferFacts
    <2> HIDE DEF w2
    <2>6. ClosedEmpty(w2)
      BY <2>1, <2>4, <2>5 DEF ClosedEmpty, PdaAccounts
    <2>7. \A c \in PdaAccounts : Listed(c) \/ w2.bal[c] >= world.bal[c]
      BY <2>2, <2>4, <2>5 DEF PdaAccounts
    <2>8. TypeOK' /\ ValidInv' /\ IdleInv' /\ LedgerInv' /\ GuardInv'
      BY <2>0, <2>1, <2>5, <2>6, <2>7, StageInv DEF AfterSnapshot
    <2>9. SweptInv'
      <3>1. a # req.output => w2.bal[a] <= chain.bal[a]
        BY <2>1, <2>2, <2>3, <2>4, <2>5 DEF saturating_sub
      <3>2. QED
        BY <2>0, <3>1 DEF SweptInv, Ata, OutIndex
    <2>10. QED
      BY <2>0, <2>8, <2>9 DEF IInv, LegInv
  <1>3. QED
    BY <1>1, <1>2

LEMMA CloseAtasInv == IInv /\ CloseAtas => IInv'
  <1> SUFFICES ASSUME IInv, CloseAtas PROVE IInv'
    OBVIOUS
  <1> DEFINE empty == {Ata(req, i) : i \in {j \in created_atas :
                                              world.bal[Ata(req, j)] = 0}}
             w2 == CloseAccounts(world, empty)
  <1>0. /\ pc = "close" /\ pc' = "check" /\ world' = w2
        /\ UNCHANGED <<titan_pda, chain, req, created_atas, snapshot, leg,
                       remaining_account_index, result, transactions>>
    BY DEF CloseAtas
  <1>1. /\ world \in World /\ ClosedEmpty(world)
        /\ leg \in Nat /\ remaining_account_index \in Nat
        /\ world.bal \in [Accounts -> Nat] /\ chain.bal \in [Accounts -> Nat]
    BY WorldTypes DEF IInv, TypeOK, LedgerInv
  <1>2. /\ OutIndex(req) \in RouteIndexes(req)
        /\ created_atas \subseteq RouteIndexes(req)
        /\ \A i \in RouteIndexes(req) : Ata(req, i) \in Accounts /\ Listed(Ata(req, i))
    <2>1. pc \in InTransaction /\ pc \in AfterSnapshot
      BY <1>0 DEF InTransaction, Stages, AfterSnapshot
    <2>2. QED
      BY <2>1, IndexFacts DEF IInv, ValidInv, GuardInv, PdaAccounts, Listed, Ata
  <1>3. empty \in SUBSET Accounts /\ \A c \in empty : Listed(c)
    BY <1>2
  <1> HIDE DEF empty
  <1>4. /\ w2 \in World /\ w2.open = world.open \ empty
        /\ \A c \in Accounts \ empty : w2.bal[c] = world.bal[c]
        /\ \A c \in empty : w2.bal[c] = 0
    BY <1>1, <1>3, CloseFacts
  <1> HIDE DEF w2
  <1>5. ClosedEmpty(w2)
    BY <1>1, <1>3, <1>4 DEF ClosedEmpty, PdaAccounts
  <1>6. \A c \in PdaAccounts : Listed(c) \/ w2.bal[c] >= world.bal[c]
    BY <1>1, <1>3, <1>4 DEF PdaAccounts
  <1>7. TypeOK' /\ ValidInv' /\ IdleInv' /\ LedgerInv' /\ GuardInv'
    BY <1>0, <1>1, <1>4, <1>5, <1>6, StageInv DEF AfterSnapshot
  <1>8. SweptInv'
    <2> DEFINE a == Ata(req, OutIndex(req))
    <2>1. a \in Accounts
      BY <1>2
    <2>2. req.output # a => world.bal[a] <= chain.bal[a]
      BY <1>0 DEF IInv, SweptInv
    <2> HIDE DEF a
    <2>3. w2.bal[a] <= world.bal[a] /\ w2.bal[a] \in Nat
      BY <1>1, <1>3, <1>4, <2>1
    <2>4. req.output # a => w2.bal[a] <= chain.bal[a]
      BY <1>1, <2>1, <2>2, <2>3
    <2>5. QED
      BY <1>0, <2>4 DEF SweptInv, Ata, OutIndex, a
  <1>9. QED
    BY <1>0, <1>7, <1>8 DEF IInv, LegInv

\* The transaction is committed: its ledger becomes the ledger.
LEMMA FinalCheckInv == IInv /\ FinalCheck => IInv'
  <1> SUFFICES ASSUME IInv, FinalCheck PROVE IInv'
    OBVIOUS
  <1>1. CASE Abort("ReservedBalanceViolation")
    BY <1>1, AbortInv DEF Errors
  <1>2. CASE Return("ok") /\ chain' = world /\ UNCHANGED world
    <2> USE <1>2 DEF Return
    <2>1. TypeOK'
      BY DEF IInv, TypeOK, Stages, Positions
    <2>2. LedgerInv'
      BY DEF IInv, LedgerInv, ClosedEmpty
    <2>3. QED
      BY <2>1, <2>2 DEF IInv, ValidInv, IdleInv, GuardInv, SweptInv, LegInv,
                        InTransaction, AfterSnapshot
  <1>3. QED
    BY <1>1, <1>2 DEF FinalCheck

LEMMA StutterInv == IInv /\ UNCHANGED vars => IInv'
  <1> SUFFICES ASSUME IInv, UNCHANGED vars PROVE IInv'
    OBVIOUS
  <1> USE DEF vars
  <1>1. TypeOK'
    BY DEF IInv, TypeOK, Positions
  <1>2. ValidInv' /\ IdleInv' /\ LegInv'
    BY DEF IInv, ValidInv, IdleInv, LegInv, RouteIndexes
  <1>3. LedgerInv'
    BY DEF IInv, LedgerInv, ClosedEmpty
  <1>4. GuardInv'
    BY DEF IInv, GuardInv, Guarded, Listed, Positions, RouteIndexes, Ata
  <1>5. SweptInv'
    BY DEF IInv, SweptInv, Ata, OutIndex
  <1>6. QED
    BY <1>1, <1>2, <1>3, <1>4, <1>5 DEF IInv

\* Every step of swap_route_v3 and of initialize preserves the invariant.
THEOREM NextInv == IInv /\ [Next]_vars => IInv'
  <1> SUFFICES ASSUME IInv, [Next]_vars PROVE IInv'
    OBVIOUS
  <1>1. CASE \E r \in Requests : Submit(r)
    BY <1>1, SubmitInv, RequestsAssumption
  <1>2. CASE Initialize \/ CreateAtas \/ TakeSnapshot \/ Fund
    BY <1>2, InitializeInv, CreateAtasInv, TakeSnapshotInv, FundInv
  <1>3. CASE SwapLeg \/ LegsDone
    BY <1>3, SwapLegInv, LegsDoneInv
  <1>4. CASE Payout \/ CloseAtas \/ FinalCheck
    BY <1>4, PayoutInv, CloseAtasInv, FinalCheckInv
  <1>5. CASE UNCHANGED vars
    BY <1>5, StutterInv
  <1>6. QED
    BY <1>1, <1>2, <1>3, <1>4, <1>5 DEF Next

\* The inductive invariant of the route program holds in every reachable
\* state.
THEOREM Invariance == Spec => []IInv
  <1>1. QED
    BY InitInv, NextInv, PTL DEF Spec

\* Balances never go below zero and every variable of execute stays in its
\* type, whatever instructions are sent and whatever amounts venues transfer.
THEOREM TypeCorrect == Spec => []TypeOK
  <1>1. IInv => TypeOK
    BY DEF IInv
  <1>2. QED
    BY <1>1, Invariance, PTL

-----------------------------------------------------------------------------
\* Only the final check commits.
LEMMA OnlyFinalCheckCommits ==
  ASSUME [Next]_vars
  PROVE  \/ chain' = chain
         \/ FinalCheck /\ chain' = world
  BY DEF Next, vars, Initialize, Submit, CreateAtas, TakeSnapshot, Fund, SwapLeg,
         LegsDone, Payout, CloseAtas, FinalCheck, Abort

\* A commit means that the final check has passed.
LEMMA CommitFacts ==
  ASSUME IInv, FinalCheck, chain' # chain \/ result' = "ok"
  PROVE  /\ pc = "check" /\ chain' = world
         /\ \A p \in DOMAIN snapshot : world.bal[req.remaining[p]] >= snapshot[p]
  BY DEF FinalCheck, Abort, Return

\* No step lowers a committed balance of the TitanPDA.
LEMMA CustodyStep ==
  ASSUME IInv, [Next]_vars, NEW a \in PdaAccounts
  PROVE  chain'.bal[a] >= chain.bal[a]
  <1>1. /\ chain.bal[a] \in Nat /\ world.bal[a] \in Nat
    BY WorldTypes DEF IInv, TypeOK, PdaAccounts
  <1>2. CASE chain' = chain
    BY <1>1, <1>2
  <1>3. CASE FinalCheck /\ chain' # chain
    <2>1. /\ pc = "check" /\ chain' = world
          /\ \A p \in DOMAIN snapshot : world.bal[req.remaining[p]] >= snapshot[p]
      BY <1>3, CommitFacts
    <2>2. Guarded(a)
      BY <2>1 DEF IInv, GuardInv, AfterSnapshot
    <2>3. QED
      BY <1>1, <2>1, <2>2 DEF Guarded
  <1>4. QED
    BY <1>2, <1>3, OnlyFinalCheckCommits

\* The TitanPDA's committed balances never go down: the snapshot covers every
\* TitanPDA account that a leg can name, for any route and whatever amounts its
\* venues transfer between TitanPDA accounts and vaults.  Venues that use the
\* TitanPDA's signature to change an authority or a delegate are outside Spec.
THEOREM CustodyIsKept == Spec => CustodyKept
  <1>1. IInv /\ [Next]_vars =>
          [\A a \in PdaAccounts : chain'.bal[a] >= chain.bal[a]]_vars
    BY CustodyStep
  <1>2. QED
    BY <1>1, Invariance, PTL DEF Spec, CustodyKept

\* A commit leaves the output account of the route as it was.
LEMMA SweptStep ==
  ASSUME IInv, [Next]_vars, Commit, req.output # Ata(req, OutIndex(req))
  PROVE  chain'.bal[Ata(req, OutIndex(req))] = chain.bal[Ata(req, OutIndex(req))]
  <1> DEFINE a == Ata(req, OutIndex(req))
  <1>1. FinalCheck
    BY DEF Commit, Next, vars, Initialize, Submit, CreateAtas, TakeSnapshot, Fund,
           SwapLeg, LegsDone, Payout, CloseAtas
  <1>2. /\ pc = "check" /\ chain' = world
        /\ \A p \in DOMAIN snapshot : world.bal[req.remaining[p]] >= snapshot[p]
    BY <1>1, CommitFacts DEF Commit
  <1>3. a \in PdaAccounts
    <2>1. OutIndex(req) \in RouteIndexes(req)
      BY <1>2, IndexFacts DEF InTransaction, Stages
    <2>2. QED
      BY <1>2, <2>1 DEF IInv, GuardInv, AfterSnapshot
  <1>4. chain'.bal[a] >= chain.bal[a]
    BY <1>3, CustodyStep
  <1>5. world.bal[a] <= chain.bal[a]
    BY <1>2 DEF IInv, SweptInv
  <1>6. chain.bal[a] \in Nat /\ world.bal[a] \in Nat
    BY <1>3, WorldTypes DEF IInv, TypeOK, PdaAccounts
  <1>7. QED
    BY <1>2, <1>4, <1>5, <1>6

\* Everything a route gains in its output account is paid to the user: the
\* balance a commit leaves there is exactly the balance before it.
THEOREM OutputIsSwept == Spec => OutputSwept
  <1>1. IInv /\ [Next]_vars =>
          [LET a == Ata(req, OutIndex(req))
           IN Commit /\ req.output # a => chain'.bal[a] = chain.bal[a]]_vars
    BY SweptStep
  <1>2. QED
    BY <1>1, Invariance, PTL DEF Spec, OutputSwept
=============================================================================
