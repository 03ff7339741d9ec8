------------------------------ MODULE SwapRoute ------------------------------
(***************************************************************************)
(* The on-chain route program: initialize and swap_route_v3                *)
(* (program/.../instructions/swap_route_v3.rs).                            *)
(*                                                                         *)
(* A transaction works on a copy of the ledger: it is committed when the   *)
(* instruction returns Ok and dropped when any check or any inner call     *)
(* fails.  Transactions that touch the TitanPDA are serialised by the      *)
(* runtime, so at most one is in flight.                                   *)
(*                                                                         *)
(* A venue called by a leg is external code.  It is modelled as one that   *)
(* transfers tokens, any amounts, between the TitanPDA accounts and the    *)
(* vaults of its leg.  The program it stands for holds the TitanPDA's      *)
(* signature and any other that the leg's accounts carry; what else could  *)
(* be done with them (a new authority, a delegate, closing an account,     *)
(* moving tokens of another signer) is left out.  The final check compares *)
(* amounts and would not see the first two, so every property below is     *)
(* about venues that only transfer.                                        *)
(***************************************************************************)
EXTENDS Integers, Sequences, FiniteSets

CONSTANTS
  Mints,             \* mint accounts
  NativeMint,        \* the wrapped SOL mint
  Token2022,         \* the mints of the Token-2022 program
  Others,            \* keys of accounts that hold no tokens
  ProgramId,         \* among them, the key of the venue program
  Requests,          \* the swap_route_v3 instructions clients may send
  Ledgers,           \* the ledgers the system may start from
  ROUTE_WEIGHT_ALL,  \* 10^9: 100% of the available balance
  MAX_SWAPS, MAX_MINTS,
  BITMAP_BITS,       \* capacity of TitanPdaBitmap (256)
  HonestVenues,      \* TRUE: venues take exactly the input they are told
  MaxTransactions,   \* bound on the transactions of a behaviour
  NoLedger           \* stands for an absent token_ledger account

ASSUME ConstantsAssumption ==
  /\ NativeMint \in Mints
  /\ ProgramId \in Others
  /\ Token2022 \subseteq Mints
  /\ ROUTE_WEIGHT_ALL \in Nat \ {0}
  /\ MAX_SWAPS \in Nat /\ MAX_MINTS \in Nat /\ BITMAP_BITS \in Nat
  /\ HonestVenues \in BOOLEAN
  /\ MaxTransactions \in Nat

\* A token account is the associated account of an owner and a mint.
Owners   == {"pda", "user", "venue"}
Accounts == Owners \X Mints
Key      == Accounts \cup Mints \cup Others

Pda(m)  == <<"pda", m>>
User(m) == <<"user", m>>

Swap == [from : Nat, to : Nat, weight : Nat, n_accounts : Nat]

\* An instruction: its arguments, the two user token accounts, the optional
\* token ledger and the remaining accounts.
Request ==
  [amount : Nat, mints : Nat, swaps : Seq(Swap), input : Accounts,
   output : Accounts,
   token_ledger : {NoLedger} \cup [account : Accounts, stored : Nat],
   remaining : Seq(Key)]

\* Open token accounts, their balances (0 when closed), the user's lamports.
World == [open : SUBSET Accounts, bal : [Accounts -> Nat], sol : Nat]

ASSUME RequestsAssumption ==
  /\ Requests # {}
  /\ \A r \in Requests :
       /\ r \in Request
       \* The runtime passes at most 255 accounts to an instruction.
       /\ Len(r.remaining) <= BITMAP_BITS
  /\ \A w \in Ledgers :
       w \in World /\ \A a \in Accounts \ w.open : w.bal[a] = 0

VARIABLES
  titan_pda,   \* the TitanPDA account has been created
  chain,       \* the committed ledger
  world,       \* the ledger as the transaction in flight sees it
  pc,          \* the stage of execute that comes next
  req,         \* the instruction in flight, or the last one
  created_atas,   \* route indexes whose TitanPDA account was created here
  snapshot,       \* position -> balance, for the positions in the bitmap
  leg,            \* the next swap, from 1
  remaining_account_index,
  result,         \* how the last transaction ended
  transactions    \* how many were started

vars == <<titan_pda, chain, world, pc, req, created_atas, snapshot, leg,
          remaining_account_index, result, transactions>>

Stages == {"idle", "atas", "snapshot", "fund", "legs", "payout", "close",
           "check"}
Errors == {"AccountNotInitialized", "InvalidSwapInput",
           "MissingRemainingAccount", "InvalidAccountData", "CpiFailed",
           "ReservedBalanceViolation"}

-----------------------------------------------------------------------------
(* The remaining accounts.  Route indexes are 0-based as in the code;      *)
(* positions of the sequence start at 1.                                   *)

Ata(r, i)    == r.remaining[i + 1]
MintAt(r, i) == r.remaining[r.mints + i + 1]
OutIndex(r)  == r.swaps[Len(r.swaps)].to
RouteIndexes(r) == 0..(r.mints - 1)
Positions(r) == 1..Len(r.remaining)

\* owner and authority tests of is_titan_pda_token_account; a closed account
\* belongs to the system program and has no data.
is_titan_pda_token_account(w, k) == k \in w.open /\ k[1] = "pda"

(* The token program.  A transfer of 0 is skipped by transfer_tokens.  The *)
(* plain transfer does not look at the mint account; transfer_checked and  *)
(* the choice of the program do.                                           *)

\* get_token_program_for_mint looks at the owner of whatever account is in
\* the mint's place.
OnToken2022(k) == (IF k \in Mints THEN k ELSE k[2]) \in Token2022

SameProgram(m, a) == /\ OnToken2022(m) <=> a[2] \in Token2022
                     /\ OnToken2022(m) => m = a[2]

CanTransfer(w, from, to, authority, mint, amount) ==
  amount > 0 => /\ from \in w.open /\ to \in w.open
                /\ from[1] = authority
                /\ from[2] = to[2]
                /\ SameProgram(mint, from)
                /\ w.bal[from] >= amount

Move(bal, from, to, amount) ==
  [bal EXCEPT ![from] = @ - amount, ![to] = @ + amount]

transfer_tokens(w, from, to, amount) ==
  IF amount = 0 THEN w ELSE [w EXCEPT !.bal = Move(@, from, to, amount)]

\* create_associated_token_account_idempotent succeeds for the derived
\* address only.
CanCreate(a, owner, mint) == mint \in Mints /\ a = <<owner, mint>>

CloseAccounts(w, A) ==
  [w EXCEPT !.open = @ \ A,
            !.bal = [a \in Accounts |-> IF a \in A THEN 0 ELSE @[a]]]

\* Defective: a plain subtraction where the code saturates.
WrappingSub(x, y) == x - y

saturating_sub(x, y) == IF x >= y THEN x - y ELSE 0

-----------------------------------------------------------------------------
Init ==
  /\ titan_pda = FALSE
  /\ chain \in Ledgers
  /\ world = chain
  /\ pc = "idle"
  /\ req = CHOOSE r \in Requests : TRUE
  /\ created_atas = {}
  /\ snapshot = <<>>
  /\ leg = 0
  /\ remaining_account_index = 0
  /\ result = "none"
  /\ transactions = 0

\* The instruction returns; its local variables are gone.
Return(outcome) ==
  /\ pc' = "idle"
  /\ result' = outcome
  /\ created_atas' = {}
  /\ snapshot' = <<>>
  /\ leg' = 0
  /\ remaining_account_index' = 0
  /\ UNCHANGED <<titan_pda, req, transactions>>

\* Any error: the transaction is rolled back.
Abort(error) == Return(error) /\ world' = chain /\ UNCHANGED chain

\* initialize: Anchor's init constraint refuses an existing account.
Initialize ==
  /\ pc = "idle"
  /\ ~titan_pda
  /\ titan_pda' = TRUE
  /\ UNCHANGED <<chain, world, pc, req, created_atas, snapshot, leg,
                 remaining_account_index, result, transactions>>

\* extract_mint_decimals reads one byte of any account long enough.
HasDecimals(w, k) == k \in Mints \/ k \in w.open

\* Lines 58-99 of execute, in order: the error, or "ok".
Validation(r) ==
  IF ~titan_pda THEN "AccountNotInitialized"
  ELSE IF \/ r.mints <= 1 \/ r.swaps = <<>>
          \/ Len(r.swaps) > MAX_SWAPS \/ r.mints > MAX_MINTS
    THEN "InvalidSwapInput"
  ELSE IF Len(r.remaining) < 2 * r.mints THEN "MissingRemainingAccount"
  ELSE IF \/ r.swaps[1].from # 0
          \/ \E k \in 1..Len(r.swaps) : \/ r.swaps[k].from >= r.mints
                                        \/ r.swaps[k].to >= r.mints
    THEN "InvalidSwapInput"
  ELSE IF \/ r.token_ledger # NoLedger /\ r.token_ledger.account # r.input
          \/ ~HasDecimals(world, MintAt(r, 0))
          \/ ~HasDecimals(world, MintAt(r, OutIndex(r)))
    THEN "InvalidAccountData"
  ELSE "ok"

\* A client sends swap_route_v3.
Submit(r) ==
  /\ pc = "idle"
  /\ transactions < MaxTransactions
  /\ transactions' = transactions + 1
  /\ req' = r
  /\ IF Validation(r) = "ok"
       THEN /\ pc' = "atas" /\ result' = "running" /\ leg' = 1
            /\ remaining_account_index' = 2 * r.mints
       ELSE /\ result' = Validation(r)
            /\ UNCHANGED <<pc, leg, remaining_account_index>>
  /\ UNCHANGED <<titan_pda, chain, world, created_atas, snapshot>>

\* Lines 101-129: create the TitanPDA accounts that do not exist.  A key that
\* is not a token account exists already; the snapshot will refuse it.
MissingAtas(r, w) ==
  {i \in RouteIndexes(r) : Ata(r, i) \in Accounts \ w.open}

CreateAtas ==
  /\ pc = "atas"
  /\ LET missing == MissingAtas(req, world)
     IN IF \A i \in missing : CanCreate(Ata(req, i), "pda", MintAt(req, i))
          THEN /\ world' = [world EXCEPT !.open = @ \cup
                              {Ata(req, i) : i \in missing}]
               \* a second index of the same account finds it existing
               /\ created_atas' = {i \in missing :
                    \A j \in missing : Ata(req, j) = Ata(req, i) => i <= j}
               /\ pc' = "snapshot"
               /\ UNCHANGED <<titan_pda, chain, req, snapshot, leg,
                     remaining_account_index, result, transactions>>
          ELSE Abort("CpiFailed")

\* Lines 131-148: every route account must be the TitanPDA's; the balances of
\* these and of any other TitanPDA account passed are recorded.  The balance
\* of route index i is snapshot[i + 1] (reserved_balances[i]).
TakeSnapshot ==
  /\ pc = "snapshot"
  /\ IF \A i \in RouteIndexes(req) :
           is_titan_pda_token_account(world, Ata(req, i))
       THEN /\ snapshot' =
                 [p \in {q \in Positions(req) :
                           /\ q <= BITMAP_BITS
                           /\ is_titan_pda_token_account(world,
                                                         req.remaining[q])}
                    |-> world.bal[req.remaining[p]]]
            /\ pc' = "fund"
            /\ UNCHANGED <<titan_pda, chain, world, req, created_atas, leg,
                           remaining_account_index, result, transactions>>
       ELSE Abort("InvalidAccountData")

\* Lines 150-160: the declared amount, or what arrived since the ledger.
effective_amount(r, w) ==
  IF r.token_ledger = NoLedger THEN r.amount
                               ELSE w.bal[r.input] - r.token_ledger.stored

EffectiveAmountOk(r, w) ==
  r.token_ledger # NoLedger => r.input \in w.open /\ effective_amount(r, w) > 0

\* setup_wsol_input_account and transfer_sol_and_sync: top up an existing
\* account with the deficit, or create one and wrap the whole amount.
WrapsSol(r) == r.token_ledger = NoLedger /\ MintAt(r, 0) = NativeMint

deficit(r, w) == saturating_sub(r.amount, w.bal[r.input])

CanWrap(r, w) ==
  /\ r.input \notin w.open => r.input = User(NativeMint)
  /\ deficit(r, w) > 0 => r.input[2] = NativeMint /\ w.sol >= deficit(r, w)

SetupWsol(r, w) ==
  [open |-> w.open \cup {r.input},
   bal  |-> [w.bal EXCEPT ![r.input] = @ + deficit(r, w)],
   sol  |-> w.sol - deficit(r, w)]

\* Defective: an account that existed before is reported as created.
AlwaysCreatesWsol(r, w) == WrapsSol(r)

CreatesWsol(r, w) == WrapsSol(r) /\ r.input \notin w.open

\* Lines 150-205: fund the route from the user.
Fund ==
  /\ pc = "fund"
  /\ LET amount == effective_amount(req, world)
         wraps  == WrapsSol(req)
         w1     == IF wraps THEN SetupWsol(req, world) ELSE world
         w2     == transfer_tokens(w1, req.input, Ata(req, 0), amount)
     IN IF ~EffectiveAmountOk(req, world)
          THEN Abort("InvalidAccountData")
        ELSE IF \/ wraps /\ ~CanWrap(req, world)
                \/ ~CanTransfer(w1, req.input, Ata(req, 0), "user",
                                MintAt(req, 0), amount)
          THEN Abort("CpiFailed")
        ELSE /\ world' = IF CreatesWsol(req, world)
                           THEN CloseAccounts(w2, {req.input}) ELSE w2
             /\ pc' = "legs"
             /\ UNCHANGED <<titan_pda, chain, req, created_atas, snapshot, leg,
                            remaining_account_index, result, transactions>>

-----------------------------------------------------------------------------
\* Defective: the division comes before the multiplication.
input_amount_div_first(w, r, s) ==
  (saturating_sub(w.bal[Ata(r, s.from)], snapshot[s.from + 1])
     \div ROUTE_WEIGHT_ALL)
        * (IF s.weight < ROUTE_WEIGHT_ALL THEN s.weight ELSE ROUTE_WEIGHT_ALL)

\* Defective: the whole balance of the route account is spent.
input_amount_all(w, r, s) ==
  (w.bal[Ata(r, s.from)]
     * (IF s.weight < ROUTE_WEIGHT_ALL THEN s.weight ELSE ROUTE_WEIGHT_ALL))
        \div ROUTE_WEIGHT_ALL

\* Lines 221-227: a share of what exceeds the reserved balance.
input_amount(w, r, s) ==
  (saturating_sub(w.bal[Ata(r, s.from)], snapshot[s.from + 1])
     * (IF s.weight < ROUTE_WEIGHT_ALL THEN s.weight ELSE ROUTE_WEIGHT_ALL))
        \div ROUTE_WEIGHT_ALL

\* The accounts of the leg, the program id excepted.  Their signer flags, which
\* line 236 passes on beside the TitanPDA's own, are not modelled: no venue here
\* acts for the user or the payer.  Built legs carry none (BuiltRoutesAreWellFormed
\* of RouteClient).
LegAccounts(r, s) ==
  {r.remaining[p] : p \in (remaining_account_index + 1)..
                          (remaining_account_index + s.n_accounts - 1)}

Vault(m) == <<"venue", m>>

\* The TitanPDA accounts that a venue can trade with, given the leg.
Tradable(r, s) ==
  {a \in LegAccounts(r, s) \cap world.open :
     a[1] = "pda" /\ Vault(a[2]) \in LegAccounts(r, s) \cap world.open}

\* External: the venue's swap, as transfers.  An honest venue takes the amount it
\* is told from the account of route index from and pays some output to that of
\* index to; another one may transfer any amount from any TitanPDA account of the
\* leg to its vault and any amount from a vault to any of them.  Neither changes
\* an authority or a delegate, closes an account or pays one of the user's.
VenueSwap(s, amount) ==
  \E a, b \in Tradable(req, s) :
    /\ HonestVenues => a = Ata(req, s.from) /\ b = Ata(req, s.to)
    /\ \E x \in IF HonestVenues THEN {amount} ELSE 0..world.bal[a],
          y \in 0..world.bal[Vault(b[2])] :
         world' = [world EXCEPT !.bal =
                     Move(Move(@, a, Vault(a[2]), x), Vault(b[2]), b, y)]

\* Lines 209-214.
LegError(r, s) ==
  IF s.n_accounts = 0 THEN "InvalidSwapInput"
  ELSE IF remaining_account_index + s.n_accounts > Len(r.remaining)
    THEN "MissingRemainingAccount"
  ELSE "ok"

\* Lines 208-251: one swap.  A leg with nothing to spend makes no call.
SwapLeg ==
  /\ pc = "legs"
  /\ leg <= Len(req.swaps)
  /\ LET s == req.swaps[leg]
         amount == input_amount(world, req, s)
         Advance == /\ leg' = leg + 1
                    /\ remaining_account_index' =
                         remaining_account_index + s.n_accounts
                    /\ UNCHANGED <<titan_pda, chain, pc, req, created_atas,
                                   snapshot, result, transactions>>
     IN IF LegError(req, s) # "ok"
          THEN Abort(LegError(req, s))
        ELSE IF amount = 0
          THEN world' = world /\ Advance
        ELSE \/ /\ req.remaining[remaining_account_index + s.n_accounts]
                     = ProgramId
                /\ VenueSwap(s, amount)
                /\ Advance
             \/ Abort("CpiFailed")

LegsDone ==
  /\ pc = "legs"
  /\ leg > Len(req.swaps)
  /\ pc' = "payout"
  /\ UNCHANGED <<titan_pda, chain, world, req, created_atas, snapshot, leg,
                 remaining_account_index, result, transactions>>

-----------------------------------------------------------------------------
\* Defective: the reserved balance of the input account is subtracted.
user_output_input_reserve(w, r) ==
  saturating_sub(w.bal[Ata(r, OutIndex(r))], snapshot[1])

\* Lines 257-266: what exceeds the reserved balance of the output account.
user_output(w, r) ==
  saturating_sub(w.bal[Ata(r, OutIndex(r))], snapshot[OutIndex(r) + 1])

\* Lines 253-288: pay the user, creating the output account if needed.
Payout ==
  /\ pc = "payout"
  /\ LET a  == Ata(req, OutIndex(req))
         m  == MintAt(req, OutIndex(req))
         w1 == [world EXCEPT !.open = @ \cup {req.output}]
     IN IF /\ req.output \notin world.open => CanCreate(req.output, "user", m)
           /\ CanTransfer(w1, a, req.output, "pda", m, user_output(world, req))
          THEN /\ world' = transfer_tokens(w1, a, req.output,
                                           user_output(world, req))
               /\ pc' = "close"
               /\ UNCHANGED <<titan_pda, chain, req, created_atas, snapshot,
                     leg, remaining_account_index, result, transactions>>
          ELSE Abort("CpiFailed")

\* Defective: only the output account is given back.
CloseOutputAta ==
  /\ pc = "close"
  /\ LET empty == {Ata(req, i) : i \in {j \in created_atas \cap {OutIndex(req)} :
                                          world.bal[Ata(req, j)] = 0}}
     IN world' = CloseAccounts(world, empty)
  /\ pc' = "check"
  /\ UNCHANGED <<titan_pda, chain, req, created_atas, snapshot, leg,
                 remaining_account_index, result, transactions>>

\* Lines 290-320: give the rent of created accounts back unless they hold
\* tokens.
CloseAtas ==
  /\ pc = "close"
  /\ LET empty == {Ata(req, i) : i \in {j \in created_atas :
                                          world.bal[Ata(req, j)] = 0}}
     IN world' = CloseAccounts(world, empty)
  /\ pc' = "check"
  /\ UNCHANGED <<titan_pda, chain, req, created_atas, snapshot, leg,
                 remaining_account_index, result, transactions>>

\* Defective: only the route accounts are compared.
FinalCheckRouteOnly ==
  /\ pc = "check"
  /\ IF \A p \in DOMAIN snapshot :
           p <= req.mints => world.bal[req.remaining[p]] >= snapshot[p]
       THEN Return("ok") /\ chain' = world /\ UNCHANGED world
       ELSE Abort("ReservedBalanceViolation")

\* Lines 322-334: the reserved balances, and the end of the instruction.  A
\* closed account counts as 0.
FinalCheck ==
  /\ pc = "check"
  /\ IF \A p \in DOMAIN snapshot :
           world.bal[req.remaining[p]] >= snapshot[p]
       THEN Return("ok") /\ chain' = world /\ UNCHANGED world
       ELSE Abort("ReservedBalanceViolation")

Next ==
  \/ Initialize
  \/ \E r \in Requests : Submit(r)
  \/ CreateAtas \/ TakeSnapshot \/ Fund
  \/ SwapLeg \/ LegsDone
  \/ Payout \/ CloseAtas \/ FinalCheck

Spec == Init /\ [][Next]_vars

-----------------------------------------------------------------------------
TypeOK ==
  /\ titan_pda \in BOOLEAN
  /\ chain \in World /\ world \in World
  /\ pc \in Stages
  /\ req \in Request
  /\ created_atas \subseteq Nat
  /\ DOMAIN snapshot \subseteq Positions(req)
  /\ \A p \in DOMAIN snapshot : snapshot[p] \in Nat
  /\ leg \in Nat /\ remaining_account_index \in Nat
  /\ result \in Errors \cup {"none", "running", "ok"}
  /\ transactions \in 0..MaxTransactions

Commit == pc = "check" /\ pc' = "idle" /\ result' = "ok"

PdaAccounts == {a \in Accounts : a[1] = "pda"}

\* The custody promise of swap_route_v3: whatever amounts the venues of a route
\* transfer with the TitanPDA's signature, and whether or not the route lists the
\* account, no transaction lowers the committed balance of a TitanPDA account.
\* (Authorities and delegates, which a venue could change and the final check does
\* not compare, are not modelled.)
CustodyKept ==
  [][\A a \in PdaAccounts : chain'.bal[a] >= chain.bal[a]]_vars

\* Everything traded reaches the user: a committed route leaves its output
\* account with exactly the balance it had before (unless the route pays that
\* account itself).
OutputSwept ==
  [][LET a == Ata(req, OutIndex(req))
     IN Commit /\ req.output # a => chain'.bal[a] = chain.bal[a]]_vars

\* What the user owns of a mint, in lamports too for wrapped SOL.
Wealth(w, m) == w.bal[User(m)] + (IF m = NativeMint THEN w.sol ELSE 0)

\* Exact-in: across wrapping, topping up and closing, a committed route takes
\* exactly the effective amount from the user, and nothing of a third mint.  That
\* no venue pays or charges a user account itself is part of the model.
UserPaysExactly ==
  [][Commit =>
       \A m \in Mints \ {Ata(req, OutIndex(req))[2]} :
          Wealth(chain, m) - Wealth(chain', m) =
             IF m = Ata(req, 0)[2] THEN effective_amount(req, chain) ELSE 0]_vars

\* Accounts created for a route do not outlive it empty, a wrapped SOL account
\* created for the input does not outlive it at all, and no account that
\* existed before is closed.
NoStrayAccounts ==
  [][Commit =>
       /\ chain.open \subseteq chain'.open
       /\ \A a \in chain'.open \ chain.open :
            a = req.output \/ (a \in PdaAccounts /\ chain'.bal[a] > 0)]_vars

\* The reserved balances are excluded from what a leg may spend, so with
\* venues that take no more than they are told the final check never fires.
HonestNeverRejected == result # "ReservedBalanceViolation"

\* Every account that the route fills (with the input, or as the target of a
\* leg) is the output or is emptied by a later leg at full weight.
Draining(r) ==
  LET target(k)  == IF k = 0 THEN Ata(r, 0) ELSE Ata(r, r.swaps[k].to)
      drains(k, a) == /\ Ata(r, r.swaps[k].from) = a
                      /\ r.swaps[k].weight >= ROUTE_WEIGHT_ALL
  IN \A k \in 0..Len(r.swaps) :
       \/ target(k) = Ata(r, OutIndex(r))
       \/ \E j \in (k + 1)..Len(r.swaps) : drains(j, target(k))

\* A draining route through honest venues keeps nothing of the user's tokens:
\* every TitanPDA balance is what it was.
NoResidue ==
  [][Commit /\ Draining(req) /\ req.output[1] # "pda" =>
       \A a \in PdaAccounts : chain'.bal[a] = chain.bal[a]]_vars

-----------------------------------------------------------------------------
\* What program/README.md says of the amount argument: the exact input amount
\* the router will spend.
DocumentedAmount ==
  [][LET m == Ata(req, 0)[2]
     IN Commit /\ m # Ata(req, OutIndex(req))[2] =>
          Wealth(chain, m) - Wealth(chain', m) = req.amount]_vars
=============================================================================
