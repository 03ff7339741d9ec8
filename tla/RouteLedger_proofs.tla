------------------------- MODULE RouteLedger_proofs -------------------------
(***************************************************************************)
(* What a committed route does to the ledger: what the user pays, which    *)
(* accounts stay, and what honest venues leave behind, for any set of      *)
(* mints and instructions.  Venues transfer between TitanPDA accounts and  *)
(* vaults (VenueSwap) and do nothing else.                                 *)
(***************************************************************************)
EXTENDS SwapRoute_proofs, WellFoundedInduction

\* A closed account of anybody holds nothing.
ClosedInv ==
  /\ \A a \in Accounts \ chain.open : chain.bal[a] = 0
  /\ \A a \in Accounts \ world.open : world.bal[a] = 0

\* The snapshot consists of committed balances of the TitanPDA.
SnapshotInv ==
  pc \in AfterSnapshot =>
    \A p \in DOMAIN snapshot : /\ req.remaining[p] \in PdaAccounts
                               /\ snapshot[p] = chain.bal[req.remaining[p]]

\* The accounts that the route opened are those in created_atas and, after the
\* payout, the output account.
OpenInv ==
  /\ pc \in InTransaction => chain.open \subseteq world.open
  /\ pc = "atas" => world.open = chain.open
  /\ \A i \in created_atas : Ata(req, i) \in PdaAccounts \ chain.open
  /\ pc \in InTransaction =>
       \A a \in world.open \ chain.open :
         a = req.output \/ \E i \in created_atas : a = Ata(req, i)
  /\ pc = "check" =>
       \A a \in world.open \ chain.open :
         a = req.output \/ (a \in PdaAccounts /\ world.bal[a] > 0)

\* The user has paid the effective amount since the funding, and has been paid
\* in the mint of the output account only.
Paid(m) == Wealth(chain, m) - Wealth(world, m) =
             IF m = Ata(req, 0)[2] THEN effective_amount(req, chain) ELSE 0

PayInv ==
  /\ pc \in {"atas", "snapshot", "fund"} =>
       world.bal = chain.bal /\ world.sol = chain.sol /\ leg = 1
  /\ pc \in {"legs", "payout", "close", "check"} =>
       \A m \in Mints :
         pc \in {"legs", "payout"} \/ m # Ata(req, OutIndex(req))[2] => Paid(m)

\* Honest venues leave every TitanPDA account at least what it had.
HonestInv ==
  HonestVenues =>
    /\ result # "ReservedBalanceViolation"
    /\ pc \in InTransaction => \A a \in PdaAccounts : world.bal[a] >= chain.bal[a]

\* Leg j of the route empties the account a.
Drains(j, a) == /\ Ata(req, req.swaps[j].from) = a
                /\ req.swaps[j].weight >= ROUTE_WEIGHT_ALL

\* With a draining route, an account that has gained something is the output
\* or will be emptied.
DrainInv ==
  HonestVenues /\ Draining(req) /\ req.output[1] # "pda" =>
    /\ pc = "legs" =>
         \A a \in PdaAccounts :
           \/ world.bal[a] = chain.bal[a]
           \/ a = Ata(req, OutIndex(req))
           \/ \E j \in leg..Len(req.swaps) : Drains(j, a)
    /\ pc = "payout" =>
         \A a \in PdaAccounts \ {Ata(req, OutIndex(req))} : world.bal[a] = chain.bal[a]
    /\ pc \in {"close", "check"} => \A a \in PdaAccounts : world.bal[a] = chain.bal[a]

JInv == ClosedInv /\ SnapshotInv /\ OpenInv /\ PayInv /\ HonestInv /\ DrainInv

-----------------------------------------------------------------------------
USE ConstantsAssumption

\* The first of several route indexes.
LEMMA Smallest ==
  ASSUME NEW S \in SUBSET Nat, S # {}
  PROVE  \E n \in S : \A k \in S : n <= k
<1>1. PICK less : less = OpToRel(<, Nat)
  OBVIOUS
<1>2. IsWellFoundedOn(less, Nat)
  BY <1>1, NatLessThanWellFounded
<1>3. PICK n \in S : \A k \in S : ~(<<k, n>> \in less)
  BY <1>2, WFMin
<1>4. \A k \in S : k < n => <<k, n>> \in less
  BY <1>1 DEF OpToRel
<1>5. ASSUME NEW k \in S PROVE n <= k
  <2>1. k \in Nat /\ n \in Nat /\ ~(k < n)
    BY <1>3, <1>4
  <2>2. QED
    BY <2>1
<1>6. QED
  BY <1>5

LEMMA AccountFacts ==
  /\ \A a \in Accounts : a[1] \in Owners /\ a[2] \in Mints /\ a = <<a[1], a[2]>>
  /\ \A m \in Mints : /\ User(m) \in Accounts /\ User(m)[1] = "user" /\ User(m)[2] = m
                      /\ Pda(m) \in Accounts /\ Pda(m)[1] = "pda" /\ Pda(m)[2] = m
  /\ \A a \in Accounts : a[1] = "user" => a = User(a[2])
  /\ \A a \in PdaAccounts : a \in Accounts /\ a[1] = "pda"
  BY DEF Accounts, Owners, User, Pda, PdaAccounts

\* Transfers, exactly.
LEMMA MoveExact ==
  ASSUME NEW bal \in [Accounts -> Nat], NEW from \in Accounts, NEW to \in Accounts,
         NEW amount \in Nat, amount <= bal[from], NEW new, new = Move(bal, from, to, amount)
  PROVE  /\ new \in [Accounts -> Nat]
         /\ \A c \in Accounts \ {from, to} : new[c] = bal[c]
         /\ from # to => /\ new[from] = bal[from] - amount
                         /\ new[to] = bal[to] + amount
         /\ from = to => new[from] = bal[from]
  BY DEF Move

LEMMA TransferExact ==
  ASSUME NEW w \in World, NEW from \in Accounts, NEW to \in Accounts,
         NEW authority, NEW mint, NEW amount \in Nat,
         CanTransfer(w, from, to, authority, mint, amount),
         NEW v, v = transfer_tokens(w, from, to, amount)
  PROVE  /\ v \in World /\ v.open = w.open /\ v.sol = w.sol
         /\ amount > 0 => /\ from \in w.open /\ to \in w.open
                          /\ from[1] = authority /\ from[2] = to[2]
         /\ \A c \in Accounts \ {from, to} : v.bal[c] = w.bal[c]
         /\ from # to => /\ v.bal[from] = w.bal[from] - amount
                         /\ v.bal[to] = w.bal[to] + amount
         /\ from = to => v.bal[from] = w.bal[from]
<1>1. w.bal \in [Accounts -> Nat] /\ w.bal[from] \in Nat /\ w.bal[to] \in Nat
  BY WorldTypes
<1>2. CASE amount = 0
  BY <1>1, <1>2 DEF transfer_tokens
<1>3. CASE amount > 0
  <2>1. /\ from \in w.open /\ to \in w.open /\ from[1] = authority /\ from[2] = to[2]
        /\ amount <= w.bal[from]
    BY <1>1, <1>3 DEF CanTransfer
  <2>2. PICK new : new = Move(w.bal, from, to, amount)
    OBVIOUS
  <2>3. /\ new \in [Accounts -> Nat]
        /\ \A c \in Accounts \ {from, to} : new[c] = w.bal[c]
        /\ from # to => /\ new[from] = w.bal[from] - amount
                        /\ new[to] = w.bal[to] + amount
        /\ from = to => new[from] = w.bal[from]
    BY <1>1, <2>1, <2>2, MoveExact
  <2>4. v = [w EXCEPT !.bal = new]
    BY <1>3, <2>2 DEF transfer_tokens
  <2>5. v \in World /\ v.open = w.open /\ v.sol = w.sol /\ v.bal = new
    BY <2>3, <2>4 DEF World
  <2>6. QED
    BY <2>1, <2>3, <2>5
<1>4. QED
  BY <1>2, <1>3

\* Steps that neither commit nor change the ledger, and those that roll back.
LEMMA AbortKeeps ==
  ASSUME IInv, JInv, NEW e \in Errors, Abort(e),
         HonestVenues => e # "ReservedBalanceViolation"
  PROVE  JInv'
<1>1. /\ pc' = "idle" /\ world' = chain /\ chain' = chain /\ created_atas' = {}
      /\ result' = e /\ req' = req
  BY DEF Abort, Return
<1>2. ClosedInv' /\ SnapshotInv' /\ OpenInv' /\ PayInv' /\ DrainInv'
  BY <1>1 DEF JInv, ClosedInv, SnapshotInv, OpenInv, PayInv, DrainInv, AfterSnapshot,
              InTransaction
<1>3. HonestInv'
  BY <1>1 DEF HonestInv, InTransaction
<1>4. QED
  BY <1>2, <1>3 DEF JInv

LEMMA InitKeeps == Init => JInv
<1>1. SUFFICES ASSUME Init PROVE JInv
  OBVIOUS
<1>2. ClosedInv
  BY <1>1, RequestsAssumption DEF Init, ClosedInv
<1>3. SnapshotInv /\ OpenInv /\ PayInv
  BY <1>1 DEF Init, SnapshotInv, OpenInv, PayInv, AfterSnapshot, InTransaction
<1>4. HonestInv /\ DrainInv
  BY <1>1 DEF Init, HonestInv, DrainInv, InTransaction
<1>5. QED
  BY <1>2, <1>3, <1>4 DEF JInv

LEMMA InitializeKeeps == JInv /\ (Initialize \/ UNCHANGED vars) => JInv'
<1>1. SUFFICES ASSUME JInv, Initialize \/ UNCHANGED vars PROVE JInv'
  OBVIOUS
<1>2. /\ pc' = pc /\ world' = world /\ chain' = chain /\ created_atas' = created_atas
      /\ result' = result /\ req' = req /\ snapshot' = snapshot /\ leg' = leg
  BY <1>1 DEF Initialize, vars
<1>3. ClosedInv' /\ SnapshotInv' /\ OpenInv' /\ HonestInv'
  BY <1>1, <1>2 DEF JInv, ClosedInv, SnapshotInv, OpenInv, HonestInv, Ata
<1>4. PayInv'
  BY <1>1, <1>2 DEF JInv, PayInv, Paid, Ata, OutIndex, Wealth, effective_amount
<1>5. DrainInv'
  BY <1>1, <1>2 DEF JInv, DrainInv, Drains, Draining, Ata, OutIndex
<1>6. QED
  BY <1>3, <1>4, <1>5 DEF JInv

LEMMA SubmitKeeps == ASSUME IInv, JInv, NEW r \in Requests, Submit(r) PROVE JInv'
<1>1. /\ pc = "idle" /\ world' = world /\ chain' = chain /\ created_atas' = created_atas
      /\ req' = r /\ snapshot' = snapshot /\ world = chain /\ created_atas = {}
  BY DEF Submit, IInv, IdleInv, LedgerInv
<1>2. /\ pc' \in {"idle", "atas"} /\ (pc' = "atas" => leg' = 1)
      /\ result' # "ReservedBalanceViolation"
  BY <1>1 DEF Submit, Validation
<1>3. \A a \in PdaAccounts : chain.bal[a] \in Nat
  BY WorldTypes, AccountFacts DEF IInv, TypeOK
<1>4. ClosedInv' /\ SnapshotInv' /\ OpenInv' /\ PayInv' /\ DrainInv'
  BY <1>1, <1>2 DEF JInv, ClosedInv, SnapshotInv, OpenInv, PayInv, DrainInv, AfterSnapshot,
                    InTransaction
<1>5. HonestInv'
  BY <1>1, <1>2, <1>3 DEF HonestInv
<1>6. QED
  BY <1>4, <1>5 DEF JInv

LEMMA CreateAtasKeeps == IInv /\ JInv /\ CreateAtas => JInv'
<1>1. SUFFICES ASSUME IInv, JInv, CreateAtas PROVE JInv'
  OBVIOUS
<1>2. PICK missing : missing = MissingAtas(req, world)
  OBVIOUS
<1>3. CASE ~\A i \in missing : CanCreate(Ata(req, i), "pda", MintAt(req, i))
  <2>1. Abort("CpiFailed") /\ "CpiFailed" \in Errors
    BY <1>1, <1>2, <1>3 DEF CreateAtas, Errors
  <2>2. QED
    BY <1>1, <2>1, AbortKeeps
<1>4. CASE \A i \in missing : CanCreate(Ata(req, i), "pda", MintAt(req, i))
  <2>1. /\ pc = "atas" /\ pc' = "snapshot"
        /\ world' = [world EXCEPT !.open = world.open \cup {Ata(req, i) : i \in missing}]
        /\ created_atas' = {i \in missing :
                              \A j \in missing : Ata(req, j) = Ata(req, i) => i <= j}
        /\ UNCHANGED <<chain, req, snapshot, leg, result>>
    BY <1>1, <1>2, <1>4 DEF CreateAtas
  <2>2. /\ missing \subseteq Nat
        /\ \A i \in missing : Ata(req, i) \in Accounts /\ Ata(req, i) \notin world.open
    <3>1. req.mints \in Nat
      BY <1>1, RequestTypes DEF IInv, TypeOK
    <3>2. QED
      BY <1>2, <3>1 DEF MissingAtas, RouteIndexes
  <2>3. \A i \in missing : Ata(req, i) \in PdaAccounts
    BY <1>4, <2>2 DEF CanCreate, PdaAccounts
  <2>4. ASSUME NEW i \in missing
        PROVE  \E j \in created_atas' : Ata(req, j) = Ata(req, i)
    <3>1. PICK S : S = {j \in missing : Ata(req, j) = Ata(req, i)}
      OBVIOUS
    <3>2. S \in SUBSET Nat /\ i \in S
      BY <2>2, <3>1
    <3>3. PICK n \in S : \A k \in S : n <= k
      BY <3>2, Smallest
    <3>4. QED
      BY <2>1, <3>1, <3>3
  <2>5. world \in World /\ world.open = chain.open /\ world.bal = chain.bal
           /\ world.sol = chain.sol /\ leg = 1
    BY <1>1, <2>1 DEF IInv, TypeOK, JInv, OpenInv, PayInv
  <2>6. /\ world'.open = world.open \cup {Ata(req, i) : i \in missing}
        /\ world'.bal = world.bal /\ world'.sol = world.sol
    BY <2>1, <2>5 DEF World
  <2>7. ClosedInv'
    BY <1>1, <2>1, <2>6 DEF JInv, ClosedInv
  <2>8. OpenInv'
    <3>1. \A i \in created_atas' : Ata(req, i) \in PdaAccounts \ chain.open
      BY <2>1, <2>2, <2>3, <2>5
    <3>2. \A a \in world'.open \ chain.open : \E i \in created_atas' : a = Ata(req, i)
      BY <2>4, <2>5, <2>6
    <3>3. QED
      BY <2>1, <2>5, <2>6, <3>1, <3>2 DEF OpenInv, Ata
  <2>9. PayInv'
    BY <2>1, <2>5, <2>6 DEF PayInv
  <2>10. HonestInv'
    <3>1. \A a \in PdaAccounts : chain.bal[a] \in Nat
      BY <1>1, WorldTypes, AccountFacts DEF IInv, TypeOK
    <3>2. QED
      BY <1>1, <2>1, <2>5, <2>6, <3>1 DEF JInv, HonestInv
  <2>11. QED
    BY <2>1, <2>7, <2>8, <2>9, <2>10 DEF JInv, SnapshotInv, DrainInv, AfterSnapshot
<1>5. QED
  BY <1>3, <1>4

LEMMA TakeSnapshotKeeps == IInv /\ JInv /\ TakeSnapshot => JInv'
<1>1. SUFFICES ASSUME IInv, JInv, TakeSnapshot PROVE JInv'
  OBVIOUS
<1>2. CASE ~\A i \in RouteIndexes(req) : is_titan_pda_token_account(world, Ata(req, i))
  <2>1. Abort("InvalidAccountData") /\ "InvalidAccountData" \in Errors
    BY <1>1, <1>2 DEF TakeSnapshot, Errors
  <2>2. QED
    BY <1>1, <2>1, AbortKeeps
<1>3. CASE \A i \in RouteIndexes(req) : is_titan_pda_token_account(world, Ata(req, i))
  <2>1. /\ pc = "snapshot" /\ pc' = "fund"
        /\ snapshot' = [p \in {q \in Positions(req) :
                                 /\ q <= BITMAP_BITS
                                 /\ is_titan_pda_token_account(world, req.remaining[q])}
                          |-> world.bal[req.remaining[p]]]
        /\ UNCHANGED <<chain, world, req, created_atas, leg, result>>
    BY <1>1, <1>3 DEF TakeSnapshot
  <2>2. world.bal = chain.bal /\ world.open \subseteq Accounts
    BY <1>1, <2>1, WorldTypes DEF JInv, PayInv, IInv, TypeOK
  <2>3. SnapshotInv'
    BY <2>1, <2>2 DEF SnapshotInv, is_titan_pda_token_account, PdaAccounts
  <2>4. ClosedInv' /\ OpenInv' /\ PayInv' /\ DrainInv'
    BY <1>1, <2>1 DEF JInv, ClosedInv, OpenInv, PayInv, DrainInv, InTransaction, Stages, Ata
  <2>5. HonestInv'
    BY <1>1, <2>1 DEF JInv, HonestInv, InTransaction, Stages
  <2>6. QED
    BY <2>3, <2>4, <2>5 DEF JInv
<1>4. QED
  BY <1>2, <1>3

\* What the funding does to the ledger: x from the user, d of it wrapped now.
LEMMA FundEffect ==
  ASSUME IInv, JInv, Fund, pc' = "legs", NEW x, x = effective_amount(req, chain)
  PROVE  /\ pc = "fund" /\ UNCHANGED <<chain, req, created_atas, snapshot, leg, result>>
         /\ x \in Nat /\ Ata(req, 0) \in PdaAccounts /\ world'.open = world.open
         /\ \A c \in Accounts \ world.open : world'.bal[c] = 0
         /\ \A c \in Accounts \ {req.input, Ata(req, 0)} : world'.bal[c] = world.bal[c]
         /\ x = 0 => world'.sol = world.sol /\ \A c \in Accounts : world'.bal[c] = world.bal[c]
         /\ x > 0 => /\ req.input = User(Ata(req, 0)[2])
                     /\ world'.bal[Ata(req, 0)] = world.bal[Ata(req, 0)] + x
                     /\ \E d \in Nat : /\ world'.bal[req.input] = world.bal[req.input] + d - x
                                       /\ world'.sol = world.sol - d
                                       /\ d > 0 => req.input[2] = NativeMint
<1>1. PICK a, in : a = Ata(req, 0) /\ in = req.input
  OBVIOUS
<1>2. PICK w1, w2 : /\ w1 = IF WrapsSol(req) THEN SetupWsol(req, world) ELSE world
                    /\ w2 = transfer_tokens(w1, in, a, effective_amount(req, world))
  OBVIOUS
<1>3. /\ pc = "fund" /\ UNCHANGED <<chain, req, created_atas, snapshot, leg, result>>
      /\ EffectiveAmountOk(req, world)
      /\ WrapsSol(req) => CanWrap(req, world)
      /\ CanTransfer(w1, in, a, "user", MintAt(req, 0), effective_amount(req, world))
      /\ world' = IF CreatesWsol(req, world) THEN CloseAccounts(w2, {in}) ELSE w2
  BY <1>1, <1>2 DEF Fund, Abort, Return
<1>4. /\ req \in Request /\ world \in World /\ world.bal = chain.bal
      /\ \A c \in Accounts \ world.open : world.bal[c] = 0
  BY <1>3 DEF IInv, TypeOK, JInv, PayInv, ClosedInv
<1>5. /\ in \in Accounts /\ req.amount \in Nat /\ world.bal \in [Accounts -> Nat]
      /\ world.open \subseteq Accounts /\ world.sol \in Nat
  BY <1>1, <1>4, RequestTypes, WorldTypes
<1>6. a \in PdaAccounts /\ a \in Accounts /\ a[1] = "pda"
  BY <1>1, <1>3, IndexFacts, AccountFacts DEF IInv, GuardInv, AfterSnapshot, InTransaction, Stages
<1>7. x = effective_amount(req, world) /\ x \in Nat
  <2>1. x = effective_amount(req, world)
    BY <1>4 DEF effective_amount
  <2>2. CASE req.token_ledger = NoLedger
    BY <1>5, <2>1, <2>2 DEF effective_amount
  <2>3. CASE req.token_ledger # NoLedger
    <3>1. req.token_ledger.stored \in Nat
      BY <1>4, <2>3 DEF Request
    <3>2. QED
      BY <1>1, <1>3, <1>5, <2>1, <2>3, <3>1 DEF effective_amount, EffectiveAmountOk
  <2>4. QED
    BY <2>1, <2>2, <2>3
<1>8. PICK d \in Nat :
        /\ w1 \in World /\ w1.sol = world.sol - d /\ w1.bal[in] = world.bal[in] + d
        /\ \A c \in Accounts \ {in} : w1.bal[c] = world.bal[c]
        /\ d > 0 => in[2] = NativeMint
        /\ x = 0 => d = 0
        /\ ~WrapsSol(req) => w1.open = world.open
        /\ WrapsSol(req) => w1.open = world.open \cup {in} /\ d = saturating_sub(x, world.bal[in])
  <2>1. CASE ~WrapsSol(req)
    <3>1. w1 = world
      BY <1>2, <2>1
    <3>2. 0 \in Nat /\ world.sol = world.sol - 0 /\ world.bal[in] = world.bal[in] + 0
      BY <1>5
    <3>3. QED
      BY <1>4, <2>1, <3>1, <3>2
  <2>2. CASE WrapsSol(req)
    <3>1. x = req.amount
      BY <1>7, <2>2 DEF WrapsSol, effective_amount
    <3>2. PICK d : d = deficit(req, world)
      OBVIOUS
    <3>3. d = saturating_sub(x, world.bal[in]) /\ d \in Nat /\ (x = 0 => d = 0)
      BY <1>1, <1>5, <3>1, <3>2 DEF deficit, saturating_sub
    <3>4. d <= world.sol /\ (d > 0 => in[2] = NativeMint)
      BY <1>1, <1>3, <1>5, <2>2, <3>2, <3>3 DEF CanWrap
    <3>5. PICK bal : bal = [world.bal EXCEPT ![in] = @ + d]
      OBVIOUS
    <3>6. bal \in [Accounts -> Nat] /\ bal[in] = world.bal[in] + d
            /\ \A c \in Accounts \ {in} : bal[c] = world.bal[c]
      BY <1>5, <3>3, <3>5
    <3>7. w1 = [open |-> world.open \cup {in}, bal |-> bal, sol |-> world.sol - d]
      BY <1>1, <1>2, <2>2, <3>2, <3>5 DEF SetupWsol
    <3>8. world.sol - d \in Nat /\ world.open \cup {in} \in SUBSET Accounts
      BY <1>5, <3>3, <3>4
    <3>9. /\ w1 \in World /\ w1.bal = bal /\ w1.sol = world.sol - d
          /\ w1.open = world.open \cup {in}
      BY <3>6, <3>7, <3>8 DEF World
    <3>10. QED
      BY <2>2, <3>3, <3>4, <3>6, <3>9
  <2>3. QED
    BY <2>1, <2>2
<1>9. /\ w2 \in World /\ w2.open = w1.open /\ w2.sol = w1.sol
      /\ x > 0 => in \in w1.open /\ a \in w1.open /\ in[1] = "user" /\ in[2] = a[2]
      /\ \A c \in Accounts \ {in, a} : w2.bal[c] = w1.bal[c]
      /\ in # a => w2.bal[in] = w1.bal[in] - x /\ w2.bal[a] = w1.bal[a] + x
      /\ x = 0 => w2 = w1
  <2>1. CanTransfer(w1, in, a, "user", MintAt(req, 0), x) /\ w2 = transfer_tokens(w1, in, a, x)
    BY <1>2, <1>3, <1>7
  <2>2. /\ w2 \in World /\ w2.open = w1.open /\ w2.sol = w1.sol
        /\ x > 0 => in \in w1.open /\ a \in w1.open /\ in[1] = "user" /\ in[2] = a[2]
    BY <1>5, <1>6, <1>7, <1>8, <2>1, TransferExact
  <2>3. /\ \A c \in Accounts \ {in, a} : w2.bal[c] = w1.bal[c]
        /\ in # a => w2.bal[in] = w1.bal[in] - x /\ w2.bal[a] = w1.bal[a] + x
    BY <1>5, <1>6, <1>7, <1>8, <2>1, TransferExact
  <2>4. x = 0 => w2 = w1
    BY <2>1 DEF transfer_tokens
  <2>5. QED
    BY <2>2, <2>3, <2>4
<1>10. /\ world'.open = world.open /\ world'.sol = w2.sol
       /\ \A c \in Accounts : world'.bal[c] = w2.bal[c]
       /\ CreatesWsol(req, world) => world'.bal[in] = 0
  <2>1. CASE ~CreatesWsol(req, world)
    <3>1. WrapsSol(req) => in \in world.open
      BY <1>1, <2>1 DEF CreatesWsol
    <3>2. QED
      BY <1>3, <1>8, <1>9, <2>1, <3>1
  <2>2. CASE CreatesWsol(req, world)
    <3>1. WrapsSol(req) /\ in \notin world.open /\ in = User(NativeMint)
      BY <1>1, <1>3, <2>2 DEF CreatesWsol, CanWrap
    <3>2. world.bal[in] = 0 /\ in # a
      BY <1>4, <1>5, <1>6, <3>1, AccountFacts
    <3>3. d = x
      BY <1>7, <1>8, <3>1, <3>2 DEF saturating_sub
    <3>4. w2.bal[in] = 0
      BY <1>7, <1>8, <1>9, <3>2, <3>3
    <3>5. world' = CloseAccounts(w2, {in}) /\ {in} \in SUBSET Accounts
      BY <1>3, <1>5, <2>2
    <3>6. /\ world'.open = w2.open \ {in} /\ world'.sol = w2.sol
          /\ \A c \in Accounts \ {in} : world'.bal[c] = w2.bal[c]
          /\ world'.bal[in] = 0
      BY <1>9, <3>5, CloseFacts
    <3>7. QED
      BY <1>8, <1>9, <3>1, <3>4, <3>6
  <2>3. QED
    BY <2>1, <2>2
<1>11. \A c \in Accounts \ {in, a} : world'.bal[c] = world.bal[c]
  BY <1>8, <1>9, <1>10
<1>12. x = 0 => world'.sol = world.sol /\ \A c \in Accounts : world'.bal[c] = world.bal[c]
  <2>1. SUFFICES ASSUME x = 0
                 PROVE  world'.sol = world.sol /\ \A c \in Accounts : world'.bal[c] = world.bal[c]
    OBVIOUS
  <2>2. d = 0 /\ w2 = w1 /\ world.bal[in] \in Nat
    BY <1>5, <1>8, <1>9, <2>1
  <2>3. w1.sol = world.sol /\ w1.bal[in] = world.bal[in]
    BY <1>5, <1>8, <2>2
  <2>4. QED
    BY <1>8, <1>10, <2>2, <2>3
<1>13. x > 0 => /\ in = User(a[2]) /\ world'.bal[a] = world.bal[a] + x
                /\ world'.bal[in] = world.bal[in] + d - x /\ world'.sol = world.sol - d
                /\ d > 0 => in[2] = NativeMint
  <2>1. SUFFICES ASSUME x > 0
                 PROVE  /\ in = User(a[2]) /\ world'.bal[a] = world.bal[a] + x
                        /\ world'.bal[in] = world.bal[in] + d - x /\ world'.sol = world.sol - d
                        /\ d > 0 => in[2] = NativeMint
    OBVIOUS
  <2>2. in[1] = "user" /\ in[2] = a[2] /\ in = User(a[2]) /\ in # a
    BY <1>5, <1>6, <1>9, <2>1, AccountFacts
  <2>3. world'.bal[a] = world.bal[a] + x
    <3>1. w1.bal[a] = world.bal[a] /\ w2.bal[a] = w1.bal[a] + x /\ world'.bal[a] = w2.bal[a]
      BY <1>6, <1>8, <1>9, <1>10, <2>2
    <3>2. QED
      BY <3>1
  <2>4. world'.bal[in] = world.bal[in] + d - x
    <3>1. /\ w1.bal[in] = world.bal[in] + d /\ w2.bal[in] = w1.bal[in] - x
          /\ world'.bal[in] = w2.bal[in]
      BY <1>5, <1>8, <1>9, <1>10, <2>2
    <3>2. world.bal[in] \in Nat /\ d \in Nat /\ x \in Nat
      BY <1>5, <1>7
    <3>3. QED
      BY <3>1, <3>2
  <2>5. world'.sol = world.sol - d /\ (d > 0 => in[2] = NativeMint)
    BY <1>8, <1>9, <1>10
  <2>6. QED
    BY <2>2, <2>3, <2>4, <2>5
<1>14. ASSUME NEW c \in Accounts, c \notin world.open PROVE world'.bal[c] = 0
  <2>1. world.bal[c] = 0
    BY <1>4, <1>14
  <2>2. CASE x = 0
    BY <1>12, <2>1, <2>2
  <2>3. CASE x > 0 /\ c = in
    <3>1. in \in w1.open /\ in \notin world.open
      BY <1>9, <1>14, <2>3
    <3>2. CreatesWsol(req, world)
      BY <1>1, <1>8, <3>1 DEF CreatesWsol
    <3>3. QED
      BY <1>10, <2>3, <3>2
  <2>4. CASE x > 0 /\ c # in
    <3>1. a \in w1.open /\ in # a
      BY <1>6, <1>9, <2>4
    <3>2. a \in world.open
      BY <1>8, <3>1
    <3>3. QED
      BY <1>11, <1>14, <2>1, <2>4, <3>2
  <2>5. QED
    BY <1>7, <2>2, <2>3, <2>4
<1>15. /\ \A c \in Accounts \ world.open : world'.bal[c] = 0
       /\ \A c \in Accounts \ {req.input, Ata(req, 0)} : world'.bal[c] = world.bal[c]
  BY <1>1, <1>11, <1>14
<1>16. x > 0 => /\ req.input = User(Ata(req, 0)[2])
                /\ world'.bal[Ata(req, 0)] = world.bal[Ata(req, 0)] + x
                /\ \E e \in Nat : /\ world'.bal[req.input] = world.bal[req.input] + e - x
                                  /\ world'.sol = world.sol - e
                                  /\ e > 0 => req.input[2] = NativeMint
  BY <1>1, <1>8, <1>13
<1>17. QED
  BY <1>1, <1>3, <1>6, <1>7, <1>10, <1>12, <1>15, <1>16

LEMMA FundKeeps == IInv /\ JInv /\ Fund => JInv'
<1>1. SUFFICES ASSUME IInv, JInv, Fund PROVE JInv'
  OBVIOUS
<1>2. pc' = "legs" \/ Abort("InvalidAccountData") \/ Abort("CpiFailed")
  BY <1>1 DEF Fund
<1>3. CASE Abort("InvalidAccountData") \/ Abort("CpiFailed")
  BY <1>1, <1>3, AbortKeeps DEF Errors
<1>4. CASE pc' = "legs"
  <2>1. PICK x, a : x = effective_amount(req, chain) /\ a = Ata(req, 0)
    OBVIOUS
  <2>2. /\ pc = "fund" /\ UNCHANGED <<chain, req, created_atas, snapshot, leg, result>>
        /\ x \in Nat /\ a \in PdaAccounts /\ world'.open = world.open
        /\ \A c \in Accounts \ {req.input, a} : world'.bal[c] = world.bal[c]
        /\ x = 0 => world'.sol = world.sol /\ \A c \in Accounts : world'.bal[c] = world.bal[c]
    BY <1>1, <1>4, <2>1, FundEffect
  <2>3. x > 0 => /\ req.input = User(a[2]) /\ world'.bal[a] = world.bal[a] + x
                 /\ \E d \in Nat : /\ world'.bal[req.input] = world.bal[req.input] + d - x
                                   /\ world'.sol = world.sol - d
                                   /\ d > 0 => req.input[2] = NativeMint
    BY <1>1, <1>4, <2>1, FundEffect
  <2>4. /\ world.bal = chain.bal /\ world.sol = chain.sol /\ leg = 1
        /\ world.bal \in [Accounts -> Nat] /\ world.sol \in Nat
    BY <1>1, <2>2, WorldTypes DEF JInv, PayInv, IInv, TypeOK
  <2>5. \A c \in PdaAccounts \ {a} : world'.bal[c] = chain.bal[c]
    <3>1. CASE x = 0
      BY <2>2, <2>4, <3>1, AccountFacts
    <3>2. CASE x > 0
      <4>1. a[2] \in Mints /\ req.input[1] = "user"
        BY <2>2, <2>3, <3>2, AccountFacts
      <4>2. QED
        BY <2>2, <2>4, <4>1, AccountFacts
    <3>3. QED
      BY <2>2, <3>1, <3>2
  <2>6. world'.bal[a] >= chain.bal[a]
    <3>1. a \in Accounts /\ chain.bal[a] \in Nat
      BY <2>2, <2>4, AccountFacts
    <3>2. QED
      BY <2>2, <2>3, <2>4, <3>1
  <2>7. HonestInv'
    <3>1. \A c \in PdaAccounts : chain.bal[c] \in Nat
      BY <2>4, AccountFacts
    <3>2. \A c \in PdaAccounts : world'.bal[c] >= chain.bal[c]
      BY <2>5, <2>6, <3>1
    <3>3. QED
      BY <1>1, <2>2, <3>2 DEF JInv, HonestInv, InTransaction, Stages
  <2>8. ClosedInv'
    <3>1. \A c \in Accounts \ world.open : world'.bal[c] = 0
      BY <1>1, <1>4, <2>1, FundEffect
    <3>2. QED
      BY <1>1, <2>2, <3>1 DEF JInv, ClosedInv
  <2>9. SnapshotInv' /\ OpenInv'
    BY <1>1, <1>4, <2>2 DEF JInv, SnapshotInv, OpenInv, AfterSnapshot, InTransaction, Stages, Ata
  <2>10. PayInv'
    <3>1. ASSUME NEW m \in Mints
          PROVE  Wealth(chain, m) - Wealth(world', m) = IF m = a[2] THEN x ELSE 0
      <4>1. User(m) \in Accounts /\ User(m)[1] = "user" /\ User(m)[2] = m
        BY AccountFacts
      <4>2. CASE x = 0
        <5>1. world'.bal[User(m)] = chain.bal[User(m)] /\ world'.sol = chain.sol
                /\ chain.bal[User(m)] \in Nat /\ chain.sol \in Nat
          BY <2>2, <2>4, <4>1, <4>2
        <5>2. QED
          BY <4>2, <5>1 DEF Wealth
      <4>3. CASE x > 0
        <5>1. PICK d \in Nat : /\ world'.bal[req.input] = world.bal[req.input] + d - x
                               /\ world'.sol = world.sol - d
                               /\ d > 0 => req.input[2] = NativeMint
          BY <2>3, <4>3
        <5>2. req.input = User(a[2]) /\ a[2] \in Mints /\ req.input[2] = a[2] /\ a # User(m)
                /\ req.input \in Accounts
          BY <2>2, <2>3, <4>1, <4>3, AccountFacts
        <5>3. CASE m = a[2]
          <6>1. User(m) = req.input
            BY <5>2, <5>3
          <6>2. world.bal[User(m)] \in Nat /\ chain.bal[User(m)] = world.bal[User(m)]
            BY <2>4, <4>1
          <6>3. m # NativeMint => d = 0
            BY <5>1, <5>2, <5>3
          <6>4. QED
            BY <2>2, <2>4, <5>1, <5>3, <6>1, <6>2, <6>3 DEF Wealth
        <5>4. CASE m # a[2]
          <6>1. User(m) # req.input
            BY <4>1, <5>2, <5>4
          <6>2. world'.bal[User(m)] = chain.bal[User(m)] /\ chain.bal[User(m)] \in Nat
            BY <2>2, <2>4, <4>1, <5>2, <6>1
          <6>3. m = NativeMint => d = 0
            BY <5>1, <5>2, <5>4
          <6>4. QED
            BY <2>4, <5>1, <5>4, <6>2, <6>3 DEF Wealth
        <5>5. QED
          BY <5>3, <5>4
      <4>4. QED
        BY <2>2, <4>2, <4>3
    <3>2. ASSUME NEW m \in Mints PROVE Paid(m)'
      <4>1. /\ Wealth(chain, m)' = Wealth(chain, m) /\ Wealth(world, m)' = Wealth(world', m)
            /\ effective_amount(req, chain)' = x /\ Ata(req, 0)' = a
        BY <2>1, <2>2 DEF Wealth, effective_amount, Ata
      <4>2. QED
        BY <3>1, <4>1 DEF Paid
    <3>3. QED
      BY <1>4, <3>2 DEF PayInv
  <2>11. DrainInv'
    <3>1. SUFFICES ASSUME HonestVenues, Draining(req)
                   PROVE  \A c \in PdaAccounts :
                            \/ world'.bal[c] = chain.bal[c]
                            \/ c = Ata(req, OutIndex(req))
                            \/ \E j \in 1..Len(req.swaps) : Drains(j, c)
      <4>1. Draining(req)' = Draining(req)
        BY <2>2 DEF Draining, Ata, OutIndex
      <4>2. QED
        BY <1>4, <2>2, <2>4, <3>1, <4>1 DEF DrainInv, Drains, Ata, OutIndex
    <3>2. Len(req.swaps) \in Nat
      BY <1>1, RequestTypes DEF IInv, TypeOK
    <3>3. \/ a = Ata(req, OutIndex(req))
          \/ \E j \in (0 + 1)..Len(req.swaps) : Drains(j, a)
      BY <2>1, <3>1, <3>2 DEF Draining, Drains
    <3>4. QED
      BY <2>5, <3>3
  <2>12. QED
    BY <2>7, <2>8, <2>9, <2>10, <2>11 DEF JInv
<1>5. QED
  BY <1>2, <1>3, <1>4

-----------------------------------------------------------------------------
\* A leg spends at most what its input account has gained, and all of it at
\* full weight.
LEMMA SpendFacts ==
  ASSUME IInv, pc = "legs", NEW k \in 1..Len(req.swaps),
         NEW a, a = Ata(req, req.swaps[k].from),
         NEW amount, amount = input_amount(world, req, req.swaps[k])
  PROVE  /\ a \in PdaAccounts /\ Ata(req, req.swaps[k].to) \in PdaAccounts
         /\ amount \in Nat
         /\ amount <= saturating_sub(world.bal[a], chain.bal[a])
         /\ req.swaps[k].weight >= ROUTE_WEIGHT_ALL =>
              amount = saturating_sub(world.bal[a], chain.bal[a])
<1>1. /\ req \in Request /\ pc \in InTransaction /\ pc \in AfterSnapshot
  BY DEF IInv, TypeOK, InTransaction, AfterSnapshot, Stages
<1>2. req.swaps[k].from \in RouteIndexes(req) /\ req.swaps[k].to \in RouteIndexes(req)
  BY <1>1, IndexFacts
<1>3. /\ a \in PdaAccounts /\ Ata(req, req.swaps[k].to) \in PdaAccounts
      /\ snapshot[req.swaps[k].from + 1] = chain.bal[a]
  BY <1>1, <1>2 DEF IInv, GuardInv
<1>4. PICK free : free = saturating_sub(world.bal[a], chain.bal[a])
  OBVIOUS
<1>5. free \in Nat
  <2>1. a \in Accounts /\ world \in World /\ chain \in World
    BY <1>3, AccountFacts DEF IInv, TypeOK
  <2>2. world.bal[a] \in Nat /\ chain.bal[a] \in Nat
    BY <2>1, WorldTypes
  <2>3. QED
    BY <1>4, <2>2 DEF saturating_sub
<1>6. PICK weight \in Nat : weight = req.swaps[k].weight
  BY <1>1, SwapTypes
<1>7. PICK share : share = IF weight < ROUTE_WEIGHT_ALL THEN weight ELSE ROUTE_WEIGHT_ALL
  OBVIOUS
<1>8. amount = (free * share) \div ROUTE_WEIGHT_ALL
  BY <1>3, <1>4, <1>6, <1>7 DEF input_amount
<1>9. /\ share \in Nat /\ share <= ROUTE_WEIGHT_ALL
      /\ weight >= ROUTE_WEIGHT_ALL => share = ROUTE_WEIGHT_ALL
  BY <1>6, <1>7
<1>10. amount \in Nat /\ amount <= free
  BY <1>5, <1>8, <1>9, ShareBound
<1>11. (free * ROUTE_WEIGHT_ALL) \div ROUTE_WEIGHT_ALL = free
  BY <1>5
<1>12. weight >= ROUTE_WEIGHT_ALL => amount = free
  BY <1>8, <1>9, <1>11
<1>13. QED
  BY <1>3, <1>4, <1>6, <1>10, <1>12

\* The two transfers of a swap between accounts of the TitanPDA and vaults.
LEMMA SwapExact ==
  ASSUME NEW bal \in [Accounts -> Nat], NEW a \in Accounts, NEW va \in Accounts,
         NEW b \in Accounts, NEW vb \in Accounts,
         a # va, a # vb, b # va, b # vb,
         NEW x \in Nat, NEW y \in Nat, x <= bal[a], y <= bal[vb]
  PROVE  LET new == Move(Move(bal, a, va, x), vb, b, y)
         IN  /\ new \in [Accounts -> Nat]
             /\ \A c \in Accounts \ {a, b, va, vb} : new[c] = bal[c]
             /\ a # b => new[a] = bal[a] - x /\ new[b] >= bal[b]
             /\ a = b => new[a] >= bal[a] - x
<1>1. PICK n1, new : n1 = Move(bal, a, va, x) /\ new = Move(n1, vb, b, y)
  OBVIOUS
<1>2. a # va /\ a # vb /\ b # va /\ b # vb
  OBVIOUS
<1>3. /\ n1 \in [Accounts -> Nat] /\ n1[a] = bal[a] - x /\ n1[va] = bal[va] + x
      /\ \A c \in Accounts \ {a, va} : n1[c] = bal[c]
  BY <1>1, <1>2, MoveExact
<1>4. y <= n1[vb]
  <2>1. CASE va = vb
    BY <1>3, <2>1
  <2>2. CASE va # vb
    BY <1>2, <1>3, <2>2
  <2>3. QED
    BY <2>1, <2>2
<1>6. /\ new \in [Accounts -> Nat] /\ new[b] = n1[b] + y
      /\ \A c \in Accounts \ {vb, b} : new[c] = n1[c]
  BY <1>1, <1>2, <1>3, <1>4, MoveExact
<1>7. n1[a] \in Nat /\ n1[b] \in Nat /\ bal[a] \in Nat /\ bal[b] \in Nat
  BY <1>3
<1>8. \A c \in Accounts \ {a, b, va, vb} : new[c] = bal[c]
  BY <1>3, <1>6
<1>9. a # b => new[a] = bal[a] - x /\ new[b] >= bal[b]
  <2>1. SUFFICES ASSUME a # b PROVE new[a] = bal[a] - x /\ new[b] >= bal[b]
    OBVIOUS
  <2>2. new[a] = n1[a] /\ n1[b] = bal[b]
    BY <1>2, <1>3, <1>6, <2>1
  <2>3. QED
    BY <1>3, <1>6, <1>7, <2>2
<1>10. a = b => new[a] >= bal[a] - x
  BY <1>3, <1>6, <1>7
<1>11. QED
  BY <1>1, <1>6, <1>8, <1>9, <1>10

\* What a leg does to the ledger: nothing to the user; with honest venues,
\* it moves the amount out of its input account and something into its target.
LegEffect(a, b, amount) ==
  /\ world'.open = world.open /\ world'.sol = world.sol
  /\ \A c \in Accounts : c[1] = "user" => world'.bal[c] = world.bal[c]
  /\ \A c \in Accounts \ world.open : world'.bal[c] = 0
  /\ HonestVenues =>
       /\ \A c \in PdaAccounts \ {a, b} : world'.bal[c] = world.bal[c]
       /\ a # b => world'.bal[a] = world.bal[a] - amount /\ world'.bal[b] >= world.bal[b]
       /\ a = b => world'.bal[a] >= world.bal[a] - amount

LEMMA VenueEffect ==
  ASSUME IInv, JInv, pc = "legs", NEW k \in 1..Len(req.swaps),
         NEW s, s = req.swaps[k],
         NEW amount, amount = input_amount(world, req, s), VenueSwap(s, amount)
  PROVE  LegEffect(Ata(req, s.from), Ata(req, s.to), amount)
<1>1. PICK a \in Tradable(req, s), b \in Tradable(req, s) :
        /\ HonestVenues => a = Ata(req, s.from) /\ b = Ata(req, s.to)
        /\ \E x \in IF HonestVenues THEN {amount} ELSE 0..world.bal[a],
              y \in 0..world.bal[Vault(b[2])] :
             world' = [world EXCEPT !.bal =
                         Move(Move(@, a, Vault(a[2]), x), Vault(b[2]), b, y)]
  BY DEF VenueSwap
<1>2. PICK va, vb : va = Vault(a[2]) /\ vb = Vault(b[2])
  OBVIOUS
<1>3. PICK x \in IF HonestVenues THEN {amount} ELSE 0..world.bal[a],
           y \in 0..world.bal[vb] :
        world' = [world EXCEPT !.bal = Move(Move(@, a, va, x), vb, b, y)]
  BY <1>1, <1>2
<1>4. /\ world \in World /\ world.bal \in [Accounts -> Nat] /\ world.open \subseteq Accounts
      /\ \A c \in Accounts \ world.open : world.bal[c] = 0
  BY WorldTypes DEF IInv, TypeOK, JInv, ClosedInv
<1>5. /\ a \in world.open /\ b \in world.open /\ va \in world.open /\ vb \in world.open
      /\ a \in Accounts /\ b \in Accounts /\ va \in Accounts /\ vb \in Accounts
      /\ a[1] = "pda" /\ b[1] = "pda" /\ va[1] = "venue" /\ vb[1] = "venue"
  BY <1>2, <1>4 DEF Tradable, Vault
<1>6. x \in Nat /\ x <= world.bal[a] /\ y \in Nat /\ y <= world.bal[vb]
  <2>1. world.bal[a] \in Nat /\ world.bal[vb] \in Nat
    BY <1>4, <1>5
  <2>2. CASE HonestVenues
    <3>1. x = amount /\ a = Ata(req, s.from)
      BY <1>1, <1>3, <2>2
    <3>2. amount \in Nat /\ amount <= world.bal[a]
      BY <3>1, InputAmountBound
    <3>3. QED
      BY <2>1, <3>1, <3>2
  <2>3. CASE ~HonestVenues
    BY <1>3, <2>1, <2>3
  <2>4. QED
    BY <2>2, <2>3
<1>7. PICK old, new : old = world.bal /\ new = Move(Move(old, a, va, x), vb, b, y)
  OBVIOUS
<1>8. /\ new \in [Accounts -> Nat]
      /\ \A c \in Accounts \ {a, b, va, vb} : new[c] = world.bal[c]
      /\ a # b => new[a] = world.bal[a] - x /\ new[b] >= world.bal[b]
      /\ a = b => new[a] >= world.bal[a] - x
  <2>1. /\ old \in [Accounts -> Nat] /\ x \in Nat /\ y \in Nat
        /\ x <= old[a] /\ y <= old[vb]
        /\ a \in Accounts /\ b \in Accounts /\ va \in Accounts /\ vb \in Accounts
        /\ a # va /\ a # vb /\ b # va /\ b # vb
        /\ new = Move(Move(old, a, va, x), vb, b, y)
    BY <1>4, <1>5, <1>6, <1>7
  <2>2. Move(Move(old, a, va, x), vb, b, y) \in [Accounts -> Nat]
    BY <2>1, SwapExact
  <2>3. ASSUME NEW c \in Accounts, c # a, c # b, c # va, c # vb
        PROVE  Move(Move(old, a, va, x), vb, b, y)[c] = old[c]
    BY <2>1, <2>3, SwapMovesNoOther
  <2>4. a # b => /\ Move(Move(old, a, va, x), vb, b, y)[a] = old[a] - x
                 /\ Move(Move(old, a, va, x), vb, b, y)[b] >= old[b]
    BY <2>1, SwapExact
  <2>5. a = b => Move(Move(old, a, va, x), vb, b, y)[a] >= old[a] - x
    BY <2>1, SwapExact
  <2>6. QED
    BY <1>7, <2>2, <2>3, <2>4, <2>5
<1>9. world' = [world EXCEPT !.bal = new]
  BY <1>3, <1>7
<1>10. world'.open = world.open /\ world'.sol = world.sol /\ world'.bal = new
  BY <1>4, <1>9 DEF World
<1>11. \A c \in Accounts : c[1] = "user" => new[c] = world.bal[c]
  BY <1>5, <1>8
<1>12. \A c \in Accounts \ world.open : new[c] = 0
  BY <1>4, <1>5, <1>8
<1>13. ASSUME HonestVenues
       PROVE  /\ a = Ata(req, s.from) /\ b = Ata(req, s.to) /\ x = amount
              /\ \A c \in PdaAccounts \ {a, b} : new[c] = world.bal[c]
  <2>1. a = Ata(req, s.from) /\ b = Ata(req, s.to) /\ x = amount
    BY <1>1, <1>3, <1>13
  <2>2. \A c \in PdaAccounts : c \in Accounts /\ c # va /\ c # vb
    BY <1>5, AccountFacts
  <2>3. QED
    BY <1>8, <2>1, <2>2
<1>14. QED
  BY <1>8, <1>10, <1>11, <1>12, <1>13 DEF LegEffect

\* A leg that is executed, whether or not it calls its venue.
LEMMA LegKeeps ==
  ASSUME IInv, JInv, pc = "legs", pc' = "legs", leg \in 1..Len(req.swaps), leg' = leg + 1,
         UNCHANGED <<chain, req, created_atas, snapshot, result>>, world' \in World,
         NEW s, s = req.swaps[leg], NEW amount, amount = input_amount(world, req, s),
         LegEffect(Ata(req, s.from), Ata(req, s.to), amount)
  PROVE  JInv'
<1>1. PICK a, b, out : /\ a = Ata(req, s.from) /\ b = Ata(req, s.to)
                       /\ out = Ata(req, OutIndex(req))
  OBVIOUS
<1>2. /\ a \in PdaAccounts /\ b \in PdaAccounts /\ amount \in Nat
      /\ amount <= saturating_sub(world.bal[a], chain.bal[a])
      /\ s.weight >= ROUTE_WEIGHT_ALL => amount = saturating_sub(world.bal[a], chain.bal[a])
  BY <1>1, SpendFacts
<1>3. \A c \in Accounts : world.bal[c] \in Nat /\ chain.bal[c] \in Nat /\ world'.bal[c] \in Nat
  BY WorldTypes DEF IInv, TypeOK
<1>4. \A c \in PdaAccounts : world.bal[c] \in Nat /\ chain.bal[c] \in Nat /\ world'.bal[c] \in Nat
  BY <1>3, AccountFacts
<1>5. ClosedInv'
  BY DEF JInv, ClosedInv, LegEffect
<1>6. SnapshotInv' /\ OpenInv'
  BY DEF JInv, SnapshotInv, OpenInv, AfterSnapshot, InTransaction, Stages, LegEffect, Ata
<1>7. PayInv'
  <2>1. ASSUME NEW m \in Mints PROVE Paid(m)'
    <3>1. Paid(m)
      BY DEF JInv, PayInv
    <3>2. User(m) \in Accounts /\ User(m)[1] = "user"
      BY AccountFacts
    <3>3. /\ Wealth(chain, m)' = Wealth(chain, m) /\ Wealth(world, m)' = Wealth(world, m)
          /\ effective_amount(req, chain)' = effective_amount(req, chain)
          /\ Ata(req, 0)' = Ata(req, 0)
      BY <3>2 DEF LegEffect, Wealth, effective_amount, Ata
    <3>4. QED
      BY <3>1, <3>3 DEF Paid
  <2>2. QED
    BY <2>1 DEF PayInv
<1>8. HonestInv'
  <2>1. SUFFICES ASSUME HonestVenues, NEW c \in PdaAccounts PROVE world'.bal[c] >= chain.bal[c]
    BY DEF JInv, HonestInv
  <2>2. world.bal[c] >= chain.bal[c]
    BY <2>1 DEF JInv, HonestInv, InTransaction, Stages
  <2>3. CASE c # a /\ c # b
    BY <1>1, <2>1, <2>2, <2>3 DEF LegEffect
  <2>4. CASE c = a
    <3>1. amount <= world.bal[a] - chain.bal[a]
      BY <1>2, <1>4, <2>2, <2>4 DEF saturating_sub
    <3>2. world'.bal[a] >= world.bal[a] - amount
      <4>1. CASE a = b
        BY <1>1, <2>1, <4>1 DEF LegEffect
      <4>2. CASE a # b
        <5>1. world'.bal[a] = world.bal[a] - amount
          BY <1>1, <2>1, <4>2 DEF LegEffect
        <5>2. QED
          BY <1>2, <1>4, <5>1
      <4>3. QED
        BY <4>1, <4>2
    <3>3. QED
      BY <1>2, <1>4, <2>4, <3>1, <3>2
  <2>5. CASE c = b /\ a # b
    <3>1. world'.bal[b] >= world.bal[b]
      BY <1>1, <2>1, <2>5 DEF LegEffect
    <3>2. QED
      BY <1>4, <2>2, <2>5, <3>1
  <2>6. QED
    BY <2>3, <2>4, <2>5
<1>9. DrainInv'
  <2>1. SUFFICES ASSUME HonestVenues, Draining(req), req.output[1] # "pda",
                        NEW c \in PdaAccounts
                 PROVE  \/ world'.bal[c] = chain.bal[c]
                        \/ c = out
                        \/ \E j \in (leg + 1)..Len(req.swaps) : Drains(j, c)
    <3>1. Draining(req)' = Draining(req)
      BY DEF Draining, Ata, OutIndex
    <3>2. QED
      BY <1>1, <2>1, <3>1 DEF DrainInv, Drains, Ata, OutIndex
  <2>2. /\ world.bal[c] >= chain.bal[c]
        /\ \/ world.bal[c] = chain.bal[c]
           \/ c = out
           \/ \E j \in leg..Len(req.swaps) : Drains(j, c)
    BY <1>1, <2>1 DEF JInv, HonestInv, DrainInv, InTransaction, Stages
  <2>3. leg \in Nat /\ leg > 0 /\ Len(req.swaps) \in Nat
    BY RequestTypes DEF IInv, TypeOK
  <2>4. ASSUME NEW j \in leg..Len(req.swaps), Drains(j, c)
        PROVE  \/ \E i \in (leg + 1)..Len(req.swaps) : Drains(i, c)
               \/ c = a /\ amount = world.bal[a] - chain.bal[a]
    <3>1. CASE j = leg
      <4>1. c = a /\ s.weight >= ROUTE_WEIGHT_ALL
        BY <1>1, <2>4, <3>1 DEF Drains
      <4>2. QED
        BY <1>2, <1>4, <2>2, <4>1 DEF saturating_sub
    <3>2. CASE j # leg
      <4>1. j \in (leg + 1)..Len(req.swaps)
        BY <2>3, <3>2
      <4>2. QED
        BY <2>4, <4>1
    <3>3. QED
      BY <3>1, <3>2
  <2>5. CASE c = b
    <3>1. leg \in 0..Len(req.swaps) /\ leg # 0
      BY <2>3
    <3>2. \/ b = out
          \/ \E j \in (leg + 1)..Len(req.swaps) : Drains(j, b)
      BY <1>1, <2>1, <3>1 DEF Draining, Drains
    <3>3. QED
      BY <2>5, <3>2
  <2>6. CASE c # a /\ c # b
    <3>1. world'.bal[c] = world.bal[c]
      BY <1>1, <2>1, <2>6 DEF LegEffect
    <3>2. QED
      BY <2>2, <2>4, <2>6, <3>1
  <2>7. CASE c = a /\ c # b
    <3>1. world'.bal[a] = world.bal[a] - amount
      BY <1>1, <2>1, <2>7 DEF LegEffect
    <3>2. CASE world.bal[c] = chain.bal[c]
      <4>1. amount = 0
        BY <1>2, <1>4, <2>7, <3>2 DEF saturating_sub
      <4>2. QED
        BY <1>4, <2>7, <3>1, <3>2, <4>1
    <3>3. CASE \E j \in leg..Len(req.swaps) : Drains(j, c)
      <4>1. \/ \E i \in (leg + 1)..Len(req.swaps) : Drains(i, c)
            \/ amount = world.bal[a] - chain.bal[a]
        BY <2>4, <3>3
      <4>2. CASE amount = world.bal[a] - chain.bal[a]
        <5>1. world'.bal[a] = chain.bal[a]
          BY <1>2, <1>4, <3>1, <4>2
        <5>2. QED
          BY <2>7, <5>1
      <4>3. QED
        BY <4>1, <4>2
    <3>4. QED
      BY <2>2, <3>2, <3>3
  <2>8. QED
    BY <2>5, <2>6, <2>7
<1>10. QED
  BY <1>5, <1>6, <1>7, <1>8, <1>9 DEF JInv

LEMMA SwapLegKeeps == IInv /\ JInv /\ SwapLeg => JInv'
<1>1. SUFFICES ASSUME IInv, JInv, SwapLeg PROVE JInv'
  OBVIOUS
<1>2. PICK s : s = req.swaps[leg]
  OBVIOUS
<1>3. PICK amount : amount = input_amount(world, req, s)
  OBVIOUS
<1>4. \/ Abort(LegError(req, s)) /\ LegError(req, s) # "ok"
      \/ Abort("CpiFailed")
      \/ /\ pc = "legs" /\ leg <= Len(req.swaps) /\ leg' = leg + 1
         /\ UNCHANGED <<chain, pc, req, created_atas, snapshot, result>>
         /\ (amount = 0 /\ world' = world) \/ VenueSwap(s, amount)
  BY <1>1, <1>2, <1>3 DEF SwapLeg
<1>5. CASE Abort(LegError(req, s)) /\ LegError(req, s) # "ok"
  <2>1. LegError(req, s) \in {"InvalidSwapInput", "MissingRemainingAccount"}
    BY <1>5 DEF LegError
  <2>2. QED
    BY <1>1, <1>5, <2>1, AbortKeeps DEF Errors
<1>6. CASE Abort("CpiFailed")
  BY <1>1, <1>6, AbortKeeps DEF Errors
<1>7. CASE /\ pc = "legs" /\ leg <= Len(req.swaps) /\ leg' = leg + 1
           /\ UNCHANGED <<chain, pc, req, created_atas, snapshot, result>>
           /\ (amount = 0 /\ world' = world) \/ VenueSwap(s, amount)
  <2>1. leg \in 1..Len(req.swaps)
    BY <1>1, <1>7, RequestTypes DEF IInv, TypeOK, LegInv
  <2>2. LegEffect(Ata(req, s.from), Ata(req, s.to), amount)
    <3>1. CASE VenueSwap(s, amount)
      BY <1>1, <1>2, <1>3, <1>7, <2>1, <3>1, VenueEffect
    <3>2. CASE amount = 0 /\ world' = world
      <4>1. PICK a, b : a = Ata(req, s.from) /\ b = Ata(req, s.to)
        OBVIOUS
      <4>2. a \in PdaAccounts /\ b \in PdaAccounts
        BY <1>1, <1>2, <1>3, <1>7, <2>1, <4>1, SpendFacts
      <4>3. world.bal[a] \in Nat /\ world.bal[b] \in Nat
        BY <1>1, <4>2, WorldTypes, AccountFacts DEF IInv, TypeOK
      <4>4. \A c \in Accounts \ world.open : world.bal[c] = 0
        BY <1>1 DEF JInv, ClosedInv
      <4>5. QED
        BY <3>2, <4>1, <4>3, <4>4 DEF LegEffect
    <3>3. QED
      BY <1>7, <3>1, <3>2
  <2>3. world' \in World
    BY <1>1, SwapLegInv DEF IInv, TypeOK
  <2>4. pc' = "legs" /\ UNCHANGED <<chain, req, created_atas, snapshot, result>>
    BY <1>7
  <2>5. QED
    BY <1>1, <1>2, <1>3, <1>7, <2>1, <2>2, <2>3, <2>4, LegKeeps
<1>8. QED
  BY <1>4, <1>5, <1>6, <1>7

LEMMA LegsDoneKeeps == IInv /\ JInv /\ LegsDone => JInv'
<1>1. SUFFICES ASSUME IInv, JInv, LegsDone PROVE JInv'
  OBVIOUS
<1>2. /\ pc = "legs" /\ pc' = "payout" /\ leg > Len(req.swaps)
      /\ UNCHANGED <<chain, world, req, created_atas, snapshot, result>>
  BY <1>1 DEF LegsDone
<1>3. ClosedInv' /\ SnapshotInv' /\ OpenInv' /\ HonestInv'
  BY <1>1, <1>2 DEF JInv, ClosedInv, SnapshotInv, OpenInv, HonestInv, AfterSnapshot,
                    InTransaction, Stages, Ata
<1>4. PayInv'
  BY <1>1, <1>2 DEF JInv, PayInv, Paid, Ata, OutIndex, Wealth, effective_amount
<1>5. DrainInv'
  <2>1. leg \in Nat /\ Len(req.swaps) \in Nat
    BY <1>1, RequestTypes DEF IInv, TypeOK
  <2>2. \A j \in leg..Len(req.swaps) : FALSE
    BY <1>2, <2>1
  <2>3. Draining(req)' = Draining(req)
    BY <1>2 DEF Draining, Ata, OutIndex
  <2>4. QED
    BY <1>1, <1>2, <2>2, <2>3 DEF JInv, DrainInv, Ata, OutIndex
<1>6. QED
  BY <1>3, <1>4, <1>5 DEF JInv

\* What the payout does: what a gained goes to the output account.
LEMMA PayoutEffect ==
  ASSUME IInv, JInv, Payout, pc' = "close", NEW a, a = Ata(req, OutIndex(req)),
         NEW out, out = saturating_sub(world.bal[a], chain.bal[a])
  PROVE  /\ pc = "payout" /\ UNCHANGED <<chain, req, created_atas, snapshot, result>>
         /\ a \in PdaAccounts /\ a \in world.open /\ out \in Nat
         /\ world' \in World /\ world'.sol = world.sol
         /\ world'.open = world.open \cup {req.output}
         /\ out > 0 => req.output[2] = a[2]
         /\ \A c \in Accounts \ {a, req.output} : world'.bal[c] = world.bal[c]
         /\ a = req.output => world'.bal[a] = world.bal[a]
         /\ a # req.output => /\ world'.bal[a] = world.bal[a] - out
                              /\ world'.bal[req.output] = world.bal[req.output] + out
<1>1. PICK w1 : w1 = [world EXCEPT !.open = @ \cup {req.output}]
  OBVIOUS
<1>2. /\ pc = "payout" /\ UNCHANGED <<chain, req, created_atas, snapshot, result>>
      /\ CanTransfer(w1, a, req.output, "pda", MintAt(req, OutIndex(req)), user_output(world, req))
      /\ world' = transfer_tokens(w1, a, req.output, user_output(world, req))
  BY <1>1 DEF Payout, Abort, Return
<1>3. /\ world \in World /\ req.output \in Accounts /\ world.open \subseteq Accounts
      /\ world.bal \in [Accounts -> Nat] /\ chain.bal \in [Accounts -> Nat]
  BY RequestTypes, WorldTypes DEF IInv, TypeOK
<1>4. /\ a \in PdaAccounts /\ a \in Accounts /\ a \in world.open
      /\ snapshot[OutIndex(req) + 1] = chain.bal[a]
  <2>1. OutIndex(req) \in RouteIndexes(req)
    BY <1>2, IndexFacts DEF InTransaction, Stages
  <2>2. QED
    BY <1>2, <2>1, AccountFacts DEF IInv, GuardInv, AfterSnapshot
<1>5. out = user_output(world, req)
  BY <1>4 DEF user_output
<1>6. out \in Nat
  BY <1>3, <1>4 DEF saturating_sub
<1>7. w1 \in World /\ w1.bal = world.bal /\ w1.sol = world.sol
        /\ w1.open = world.open \cup {req.output}
  BY <1>1, <1>3 DEF World
<1>8. PICK o, mint, v : o = req.output /\ mint = MintAt(req, OutIndex(req)) /\ v = world'
  OBVIOUS
<1>9. /\ w1 \in World /\ a \in Accounts /\ o \in Accounts /\ out \in Nat
      /\ CanTransfer(w1, a, o, "pda", mint, out) /\ v = transfer_tokens(w1, a, o, out)
  BY <1>2, <1>3, <1>4, <1>5, <1>6, <1>7, <1>8
<1>10. v \in World /\ v.open = w1.open /\ v.sol = w1.sol /\ (out > 0 => a[2] = o[2])
  BY <1>9, TransferExact
<1>11. \A c \in Accounts \ {a, o} : v.bal[c] = w1.bal[c]
  BY <1>9, TransferExact
<1>12. /\ a # o => v.bal[a] = w1.bal[a] - out /\ v.bal[o] = w1.bal[o] + out
       /\ a = o => v.bal[a] = w1.bal[a]
  BY <1>9, TransferExact
<1>13. QED
  BY <1>2, <1>4, <1>6, <1>7, <1>8, <1>10, <1>11, <1>12

LEMMA PayoutKeeps == IInv /\ JInv /\ Payout => JInv'
<1>1. SUFFICES ASSUME IInv, JInv, Payout PROVE JInv'
  OBVIOUS
<1>2. pc' = "close" \/ Abort("CpiFailed")
  BY <1>1 DEF Payout
<1>3. CASE Abort("CpiFailed")
  BY <1>1, <1>3, AbortKeeps DEF Errors
<1>4. CASE pc' = "close"
  <2>1. PICK a, o : a = Ata(req, OutIndex(req)) /\ o = req.output
    OBVIOUS
  <2>2. PICK out : out = saturating_sub(world.bal[a], chain.bal[a])
    OBVIOUS
  <2>3. /\ pc = "payout" /\ UNCHANGED <<chain, req, created_atas, snapshot, result>>
        /\ a \in PdaAccounts /\ a \in world.open /\ out \in Nat
        /\ world'.sol = world.sol /\ world'.open = world.open \cup {o}
        /\ out > 0 => o[2] = a[2]
    BY <1>1, <1>4, <2>1, <2>2, PayoutEffect
  <2>4. /\ \A c \in Accounts \ {a, o} : world'.bal[c] = world.bal[c]
        /\ a = o => world'.bal[a] = world.bal[a]
        /\ a # o => world'.bal[a] = world.bal[a] - out /\ world'.bal[o] = world.bal[o] + out
    BY <1>1, <1>4, <2>1, <2>2, PayoutEffect
  <2>5. \A c \in Accounts : world.bal[c] \in Nat /\ chain.bal[c] \in Nat
    BY <1>1, WorldTypes DEF IInv, TypeOK
  <2>6. a \in Accounts /\ a[2] \in Mints /\ a[1] = "pda" /\ o \in Accounts
    BY <1>1, <2>1, <2>3, AccountFacts, RequestTypes DEF IInv, TypeOK
  <2>7. ClosedInv'
    <3>1. \A c \in Accounts \ world'.open : c # a /\ c # o /\ c \notin world.open
      BY <2>3
    <3>2. QED
      BY <1>1, <2>3, <2>4, <3>1 DEF JInv, ClosedInv
  <2>8. SnapshotInv' /\ OpenInv'
    BY <1>1, <1>4, <2>1, <2>3 DEF JInv, SnapshotInv, OpenInv, AfterSnapshot, InTransaction,
                                  Stages, Ata
  <2>9. PayInv'
    <3>1. ASSUME NEW m \in Mints, m # a[2] PROVE Paid(m)'
      <4>1. Paid(m)
        BY <1>1, <2>3 DEF JInv, PayInv
      <4>2. User(m) \in Accounts /\ User(m)[1] = "user" /\ User(m)[2] = m
        BY AccountFacts
      <4>3. world'.bal[User(m)] = world.bal[User(m)]
        <5>1. CASE User(m) = o
          <6>1. ~(out > 0) /\ a # o
            BY <2>3, <2>6, <3>1, <4>2, <5>1
          <6>2. QED
            BY <2>3, <2>4, <2>5, <2>6, <5>1, <6>1
        <5>2. CASE User(m) # o
          BY <2>4, <2>6, <4>2, <5>2
        <5>3. QED
          BY <5>1, <5>2
      <4>4. /\ Wealth(chain, m)' = Wealth(chain, m) /\ Wealth(world, m)' = Wealth(world, m)
            /\ effective_amount(req, chain)' = effective_amount(req, chain)
            /\ Ata(req, 0)' = Ata(req, 0)
        BY <2>3, <4>3 DEF Wealth, effective_amount, Ata
      <4>5. QED
        BY <4>1, <4>4 DEF Paid
    <3>2. Ata(req, OutIndex(req))' = a
      BY <2>1, <2>3 DEF Ata, OutIndex
    <3>3. QED
      BY <1>4, <3>1, <3>2 DEF PayInv
  <2>10. HonestInv'
    <3>1. SUFFICES ASSUME HonestVenues, NEW c \in PdaAccounts
                   PROVE  world'.bal[c] >= chain.bal[c]
      BY <1>1, <2>3 DEF JInv, HonestInv
    <3>2. world.bal[c] >= chain.bal[c] /\ c \in Accounts
      BY <1>1, <2>3, <3>1, AccountFacts DEF JInv, HonestInv, InTransaction, Stages
    <3>3. CASE c = a /\ a # o
      <4>1. out = world.bal[a] - chain.bal[a]
        BY <2>2, <2>5, <2>6, <3>2, <3>3 DEF saturating_sub
      <4>2. QED
        BY <2>4, <2>5, <2>6, <3>3, <4>1
    <3>4. CASE c = o /\ a # o
      BY <2>3, <2>4, <2>5, <2>6, <3>2, <3>4
    <3>5. CASE ~(a # o /\ c \in {a, o})
      BY <2>4, <3>2, <3>5
    <3>6. QED
      BY <3>3, <3>4, <3>5
  <2>11. DrainInv'
    <3>1. SUFFICES ASSUME HonestVenues, Draining(req), o[1] # "pda", NEW c \in PdaAccounts
                   PROVE  world'.bal[c] = chain.bal[c]
      <4>1. Draining(req)' = Draining(req)
        BY <2>3 DEF Draining, Ata, OutIndex
      <4>2. QED
        BY <1>4, <2>1, <2>3, <3>1, <4>1 DEF DrainInv
    <3>2. c \in Accounts /\ c # o /\ a # o
      BY <2>6, <3>1, AccountFacts
    <3>3. world.bal[c] >= chain.bal[c] /\ (c # a => world.bal[c] = chain.bal[c])
      BY <1>1, <2>1, <2>3, <3>1 DEF JInv, HonestInv, DrainInv, InTransaction, Stages
    <3>4. CASE c = a
      <4>1. out = world.bal[a] - chain.bal[a]
        BY <2>2, <2>5, <2>6, <3>3, <3>4 DEF saturating_sub
      <4>2. QED
        BY <2>4, <2>5, <2>6, <3>2, <3>4, <4>1
    <3>5. CASE c # a
      BY <2>4, <3>2, <3>3, <3>5
    <3>6. QED
      BY <3>4, <3>5
  <2>12. QED
    BY <2>7, <2>8, <2>9, <2>10, <2>11 DEF JInv
<1>5. QED
  BY <1>2, <1>3, <1>4

LEMMA CloseAtasKeeps == IInv /\ JInv /\ CloseAtas => JInv'
<1>1. SUFFICES ASSUME IInv, JInv, CloseAtas PROVE JInv'
  OBVIOUS
<1>2. PICK empty : empty = {Ata(req, i) : i \in {j \in created_atas :
                                                   world.bal[Ata(req, j)] = 0}}
  OBVIOUS
<1>3. /\ pc = "close" /\ pc' = "check" /\ world' = CloseAccounts(world, empty)
      /\ UNCHANGED <<chain, req, created_atas, snapshot, result>>
  BY <1>1, <1>2 DEF CloseAtas
<1>4. \A i \in created_atas : Ata(req, i) \in PdaAccounts \ chain.open
  BY <1>1 DEF JInv, OpenInv
<1>5. /\ empty \in SUBSET Accounts /\ \A c \in empty : world.bal[c] = 0 /\ c \notin chain.open
      /\ \A i \in created_atas : Ata(req, i) \in empty \/ world.bal[Ata(req, i)] # 0
  BY <1>2, <1>4, AccountFacts
<1>6. world \in World /\ \A c \in PdaAccounts : world.bal[c] \in Nat
  BY <1>1, WorldTypes, AccountFacts DEF IInv, TypeOK
<1>7. /\ world'.open = world.open \ empty /\ world'.sol = world.sol
      /\ \A c \in Accounts : world'.bal[c] = world.bal[c]
  BY <1>3, <1>5, <1>6, CloseFacts
<1>8. ClosedInv'
  BY <1>1, <1>3, <1>5, <1>7 DEF JInv, ClosedInv
<1>9. SnapshotInv'
  BY <1>1, <1>3 DEF JInv, SnapshotInv, AfterSnapshot
<1>10. OpenInv'
  <2>1. /\ chain.open \subseteq world.open
        /\ \A c \in world.open \ chain.open :
             c = req.output \/ \E i \in created_atas : c = Ata(req, i)
    BY <1>1, <1>3 DEF JInv, OpenInv, InTransaction, Stages
  <2>2. chain.open \subseteq world'.open
    BY <1>5, <1>7, <2>1
  <2>3. ASSUME NEW c \in world'.open \ chain.open, c # req.output
        PROVE  /\ \E i \in created_atas : c = Ata(req, i)
               /\ c \in PdaAccounts /\ world'.bal[c] > 0
    <3>1. PICK i \in created_atas : c = Ata(req, i)
      BY <1>7, <2>1, <2>3
    <3>2. c \in PdaAccounts /\ c \in Accounts /\ world.bal[c] # 0
      BY <1>4, <1>5, <1>7, <2>3, <3>1, AccountFacts
    <3>3. QED
      BY <1>6, <1>7, <3>1, <3>2
  <2>4. QED
    BY <1>3, <1>4, <2>2, <2>3 DEF OpenInv, Ata
<1>11. PayInv'
  <2>1. ASSUME NEW m \in Mints
        PROVE  Paid(m)' = Paid(m)
    <3>1. User(m) \in Accounts
      BY AccountFacts
    <3>2. /\ Wealth(chain, m)' = Wealth(chain, m) /\ Wealth(world, m)' = Wealth(world, m)
          /\ effective_amount(req, chain)' = effective_amount(req, chain)
          /\ Ata(req, 0)' = Ata(req, 0)
      BY <1>3, <1>7, <3>1 DEF Wealth, effective_amount, Ata
    <3>3. QED
      BY <3>2 DEF Paid
  <2>2. Ata(req, OutIndex(req))' = Ata(req, OutIndex(req))
    BY <1>3 DEF Ata, OutIndex
  <2>3. QED
    BY <1>1, <1>3, <2>1, <2>2 DEF JInv, PayInv
<1>12. HonestInv'
  BY <1>1, <1>3, <1>7, AccountFacts DEF JInv, HonestInv, InTransaction, Stages
<1>13. DrainInv'
  <2>1. Draining(req)' = Draining(req)
    BY <1>3 DEF Draining, Ata, OutIndex
  <2>2. QED
    BY <1>1, <1>3, <1>7, <2>1, AccountFacts DEF JInv, DrainInv
<1>14. QED
  BY <1>8, <1>9, <1>10, <1>11, <1>12, <1>13 DEF JInv

LEMMA FinalCheckKeeps == IInv /\ JInv /\ FinalCheck => JInv'
<1>1. SUFFICES ASSUME IInv, JInv, FinalCheck PROVE JInv'
  OBVIOUS
<1>2. CASE \A p \in DOMAIN snapshot : world.bal[req.remaining[p]] >= snapshot[p]
  <2>1. /\ pc' = "idle" /\ world' = world /\ chain' = world /\ created_atas' = {}
        /\ result' = "ok" /\ req' = req
    BY <1>1, <1>2 DEF FinalCheck, Return
  <2>2. ClosedInv' /\ SnapshotInv' /\ OpenInv' /\ PayInv' /\ HonestInv' /\ DrainInv'
    BY <1>1, <2>1 DEF JInv, ClosedInv, SnapshotInv, OpenInv, PayInv, HonestInv, DrainInv,
                      AfterSnapshot, InTransaction
  <2>3. QED
    BY <2>2 DEF JInv
<1>3. CASE ~\A p \in DOMAIN snapshot : world.bal[req.remaining[p]] >= snapshot[p]
  <2>1. pc = "check" /\ Abort("ReservedBalanceViolation")
    BY <1>1, <1>3 DEF FinalCheck
  <2>2. ~HonestVenues
    BY <1>1, <1>3, <2>1 DEF JInv, HonestInv, SnapshotInv, AfterSnapshot, InTransaction, Stages
  <2>3. QED
    BY <1>1, <2>1, <2>2, AbortKeeps DEF Errors
<1>4. QED
  BY <1>2, <1>3

\* Every step of the program preserves what the ledger of the transaction in
\* flight owes to the committed one.
THEOREM NextKeeps == IInv /\ JInv /\ [Next]_vars => JInv'
<1>1. SUFFICES ASSUME IInv, JInv, [Next]_vars PROVE JInv'
  OBVIOUS
<1>2. CASE \E r \in Requests : Submit(r)
  BY <1>1, <1>2, SubmitKeeps
<1>3. CASE Initialize \/ UNCHANGED vars
  BY <1>1, <1>3, InitializeKeeps
<1>4. CASE CreateAtas \/ TakeSnapshot \/ Fund
  BY <1>1, <1>4, CreateAtasKeeps, TakeSnapshotKeeps, FundKeeps
<1>5. CASE SwapLeg \/ LegsDone
  BY <1>1, <1>5, SwapLegKeeps, LegsDoneKeeps
<1>6. CASE Payout \/ CloseAtas \/ FinalCheck
  BY <1>1, <1>6, PayoutKeeps, CloseAtasKeeps, FinalCheckKeeps
<1>7. QED
  BY <1>1, <1>2, <1>3, <1>4, <1>5, <1>6 DEF Next

\* The invariant of the ledger holds in every reachable state.
THEOREM LedgerInvariance == Spec => []JInv
<1>1. QED
  BY InitKeeps, NextKeeps, Invariance, PTL DEF Spec

\* No route through venues that take what they are told is rejected by the
\* final check: legs spend only what exceeds the reserved balances, for every
\* weight, and the payout and the closing of accounts keep to it.
THEOREM HonestPasses ==
  ASSUME HonestVenues
  PROVE  Spec => []HonestNeverRejected
<1>1. JInv => HonestNeverRejected
  BY DEF JInv, HonestInv, HonestNeverRejected
<1>2. QED
  BY <1>1, LedgerInvariance, PTL

-----------------------------------------------------------------------------
\* A commit publishes the ledger of the transaction.
LEMMA CommitPublishes ==
  ASSUME IInv, [Next]_vars, Commit
  PROVE  pc = "check" /\ chain' = world
<1>1. FinalCheck
  BY DEF Commit, Next, vars, Initialize, Submit, CreateAtas, TakeSnapshot, Fund,
         SwapLeg, LegsDone, Payout, CloseAtas
<1>2. QED
  BY <1>1, CommitFacts DEF Commit

\* A committed route takes exactly the effective amount from the user, in the
\* input mint and through any wrapping of lamports, and changes nothing the
\* user holds of a third mint, whatever amounts the venues transfer between
\* TitanPDA accounts and vaults: their trades cannot be charged to the user.
\* (A venue that pays a user account, or is handed the user's signature by the
\* leg's accounts, is outside Spec.)
THEOREM PaysExactly == Spec => UserPaysExactly
<1>1. ASSUME IInv, JInv, [Next]_vars, Commit,
             NEW m \in Mints \ {Ata(req, OutIndex(req))[2]}
      PROVE  Wealth(chain, m) - Wealth(chain', m) =
               IF m = Ata(req, 0)[2] THEN effective_amount(req, chain) ELSE 0
  <2>1. pc = "check" /\ chain' = world
    BY <1>1, CommitPublishes
  <2>2. Paid(m)
    BY <1>1, <2>1 DEF JInv, PayInv
  <2>3. QED
    BY <2>1, <2>2 DEF Paid
<1>2. IInv /\ JInv /\ [Next]_vars =>
        [Commit => \A m \in Mints \ {Ata(req, OutIndex(req))[2]} :
                     Wealth(chain, m) - Wealth(chain', m) =
                       IF m = Ata(req, 0)[2] THEN effective_amount(req, chain) ELSE 0]_vars
  BY <1>1
<1>3. QED
  BY <1>2, Invariance, LedgerInvariance, PTL DEF Spec, UserPaysExactly

\* A committed route closes no account that existed before it and leaves none
\* behind that it created, except the output account and TitanPDA accounts
\* that hold tokens; venues close no accounts.
THEOREM NoStrays == Spec => NoStrayAccounts
<1>1. ASSUME IInv, JInv, [Next]_vars, Commit
      PROVE  /\ chain.open \subseteq chain'.open
             /\ \A a \in chain'.open \ chain.open :
                  a = req.output \/ (a \in PdaAccounts /\ chain'.bal[a] > 0)
  <2>1. pc = "check" /\ chain' = world
    BY <1>1, CommitPublishes
  <2>2. QED
    BY <1>1, <2>1 DEF JInv, OpenInv, InTransaction, Stages
<1>2. IInv /\ JInv /\ [Next]_vars =>
        [Commit => /\ chain.open \subseteq chain'.open
                   /\ \A a \in chain'.open \ chain.open :
                        a = req.output \/ (a \in PdaAccounts /\ chain'.bal[a] > 0)]_vars
  BY <1>1
<1>3. QED
  BY <1>2, Invariance, LedgerInvariance, PTL DEF Spec, NoStrayAccounts

\* Through honest venues, a route whose every filled account is emptied by a
\* later leg at full weight leaves nothing of the user's tokens with the
\* TitanPDA.
THEOREM LeavesNoResidue ==
  ASSUME HonestVenues
  PROVE  Spec => NoResidue
<1>1. ASSUME IInv, JInv, [Next]_vars, Commit, Draining(req), req.output[1] # "pda",
             NEW a \in PdaAccounts
      PROVE  chain'.bal[a] = chain.bal[a]
  <2>1. pc = "check" /\ chain' = world
    BY <1>1, CommitPublishes
  <2>2. QED
    BY <1>1, <2>1 DEF JInv, DrainInv
<1>2. IInv /\ JInv /\ [Next]_vars =>
        [Commit /\ Draining(req) /\ req.output[1] # "pda" =>
           \A a \in PdaAccounts : chain'.bal[a] = chain.bal[a]]_vars
  BY <1>1
<1>3. QED
  BY <1>2, Invariance, LedgerInvariance, PTL DEF Spec, NoResidue
=============================================================================
