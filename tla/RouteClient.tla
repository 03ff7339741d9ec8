---------------------------- MODULE RouteClient ----------------------------
(***************************************************************************)
(* From venues to an executed route: swap_route/mod.rs (build_swap_leg)    *)
(* with the parts it calls (generate_swap_instruction, TokenInfo,          *)
(* build_swap_instruction), composed with the on-chain program SwapRoute   *)
(* that cuts the legs out of the remaining accounts again.                 *)
(*                                                                         *)
(* The router that calls build_swap_leg is external: it picks a path of    *)
(* mints, builds one leg per hop and sends the route.  In between, epochs  *)
(* pass, fees change and venues refresh.                                   *)
(***************************************************************************)
EXTENDS SwapRoute

CONSTANTS
  Pools,        \* pool -> [mints, ticks, dynamic]: its two mints, how many tick
                \* arrays a swap lists, whether its fee is dynamic
  Paths,        \* sequences of mints the router may route along
  FeeMints,     \* Token-2022 mints with the transfer fee extension
  Fees,         \* basis points the fee authority may set
  MaxEpoch,     \* bound on the epochs of a behaviour
  Amount,       \* the amount of every route
  U8,           \* 256
  TitanPda,     \* the key of the TitanPDA
  WrongAta,     \* an associated account derived with the wrong token program
  OtherKey,     \* any other account of a swap instruction
  NoFee         \* transfer_fee: None

ASSUME RouteClientAssumption ==
  /\ FeeMints \subseteq Token2022
  /\ {TitanPda, WrongAta, OtherKey} \subseteq Others
  /\ U8 \in Nat \ {0} /\ Amount \in Nat /\ MaxEpoch \in Nat /\ Fees \subseteq Nat
  /\ NoFee \notin Nat
  /\ \A p \in DOMAIN Pools :
       /\ Pools[p] \in [mints : Mints \X Mints, ticks : Nat, dynamic : BOOLEAN]
       /\ Pools[p].mints[1] # Pools[p].mints[2]
       \* a swap lists at most max_one_side_tick_arrays (6) tick arrays
       /\ Pools[p].ticks + 17 < U8
  \* the router keeps to the limits of the program
  /\ \A ms \in Paths : /\ ms \in Seq(Mints) /\ Len(ms) \in 2..MAX_MINTS
                        /\ Len(ms) <= MAX_SWAPS + 1

VARIABLES
  epoch,
  fee_config,    \* fee mint -> [older, newer, since]: since when newer applies
  token_info,    \* pool -> the token info of its venue
  initialized,   \* pool -> its venue has been updated
  path,          \* the mints of the route being built
  legs,          \* its legs so far: [swap, zero_for_one, accounts]
  leg_keys,      \* the keys of their accounts, one leg after the other
  sent           \* the legs of the route last sent

marketVars == <<epoch, fee_config>>
clientVars == <<path, legs, leg_keys, sent>>
venueVars  == <<token_info, initialized>>
allVars    == <<vars, marketVars, clientVars, venueVars>>

-----------------------------------------------------------------------------
(* Token info.                                                              *)

\* External: the fee the token program withholds now.
get_epoch_fee(m) ==
  IF epoch >= fee_config[m].since THEN fee_config[m].newer ELSE fee_config[m].older

\* TokenInfo::new: the fee of the epoch of the update, None without extension.
TokenInfo(m) ==
  [pubkey |-> m, is_token_2022 |-> m \in Token2022,
   transfer_fee |-> IF m \in FeeMints THEN get_epoch_fee(m) ELSE NoFee]

\* What from_account assumes before the mints have been read.
base_token_info(p) ==
  [i \in 1..2 |-> [pubkey |-> Pools[p].mints[i], is_token_2022 |-> FALSE,
                   transfer_fee |-> NoFee]]

refresh_token_info(p) == [i \in 1..2 |-> TokenInfo(Pools[p].mints[i])]

\* Defective: always derived with the SPL token program.
get_associated_token_address_spl(info) ==
  IF info.pubkey \in Token2022 THEN WrongAta ELSE Pda(info.pubkey)

\* The TitanPDA's associated account of a token.
get_associated_token_address(info) ==
  IF info.is_token_2022 <=> info.pubkey \in Token2022 THEN Pda(info.pubkey) ELSE WrongAta

-----------------------------------------------------------------------------
(* Building a leg.  An account is [key, signer].                            *)

Meta(k, signer) == [key |-> k, signer |-> signer]

Plain(keys) == [i \in DOMAIN keys |-> Meta(keys[i], FALSE)]

Times(n) == [i \in 1..n |-> OtherKey]

\* build_swap_instruction: authority, config, pool, the two token accounts, the
\* vaults, observation, three programs, mints, bitmap extension, tick arrays,
\* oracles.
build_swap_instruction(p, zero_for_one, source, destination) ==
  LET in  == Pools[p].mints[IF zero_for_one THEN 1 ELSE 2]
      out == Pools[p].mints[IF zero_for_one THEN 2 ELSE 1]
  IN <<Meta(TitanPda, TRUE)>> \o
     Plain(Times(2) \o <<source, destination, Vault(in), Vault(out)>> \o Times(4) \o
           <<in, out>> \o Times(1 + Pools[p].ticks + IF Pools[p].dynamic THEN 2 ELSE 0))

InfoOf(p, m) == CHOOSE i \in 1..2 : token_info[p][i].pubkey = m

Trades(p, m) == \E i \in 1..2 : token_info[p][i].pubkey = m

\* The adapter's generate_swap_instruction and validate_mints; <<>> is an error.
generate_swap_instruction(p, in, out) ==
  IF ~initialized[p] \/ ~Trades(p, in) \/ ~Trades(p, out) \/ in = out THEN <<>>
  ELSE build_swap_instruction(p, in = Pools[p].mints[1],
         get_associated_token_address(token_info[p][InfoOf(p, in)]),
         get_associated_token_address(token_info[p][InfoOf(p, out)]))

\* Defective: the instruction is passed on with its signer.
assemble_leg_accounts_signed(ix) == ix \o Plain(<<ProgramId>>)

\* The TitanPDA signs through its seeds, so its flag is cleared.
assemble_leg_accounts(ix) ==
  [i \in DOMAIN ix |-> IF ix[i].key = TitanPda THEN Meta(TitanPda, FALSE) ELSE ix[i]]
    \o Plain(<<ProgramId>>)

\* Defective: the program id is not counted.
n_accounts_without_program(accounts) == Len(accounts) - 1

n_accounts(accounts) == Len(accounts) % U8

\* Defective: a fee that is zero for now is let through.
RefusesFee_nonzero(p, in, out) ==
  \E i \in 1..2 : /\ token_info[p][i].pubkey \in {in, out}
                  /\ token_info[p][i].transfer_fee \notin {NoFee, 0}

\* fail_closed_for_transfer_fee_route_mints.
RefusesFee(p, in, out) ==
  \E i \in 1..2 : /\ token_info[p][i].pubkey \in {in, out}
                  /\ token_info[p][i].transfer_fee # NoFee

\* protocol_to_venue: zero_for_one.
protocol_to_venue(p, in, out) == InfoOf(p, in) = 1 /\ InfoOf(p, out) = 2

-----------------------------------------------------------------------------
ClientInit ==
  /\ Init
  /\ epoch = 0
  /\ fee_config = [m \in FeeMints |-> [older |-> 0, newer |-> 0, since |-> 0]]
  /\ token_info = [p \in DOMAIN Pools |-> base_token_info(p)]
  /\ initialized = [p \in DOMAIN Pools |-> FALSE]
  /\ path = <<>> /\ legs = <<>> /\ leg_keys = <<>> /\ sent = <<>>

\* External: an epoch ends, between transactions.
NextEpoch ==
  /\ pc = "idle" /\ epoch < MaxEpoch
  /\ epoch' = epoch + 1
  /\ UNCHANGED <<vars, fee_config, clientVars, venueVars>>

\* External: the fee authority schedules a fee, two epochs ahead.
SetTransferFee ==
  /\ pc = "idle"
  /\ \E m \in FeeMints, fee \in Fees :
       fee_config' = [fee_config EXCEPT
         ![m] = [older |-> get_epoch_fee(m), newer |-> fee, since |-> epoch + 2]]
  /\ UNCHANGED <<vars, epoch, clientVars, venueVars>>

\* update_state gets as far as the token info; the search for bounds behind it
\* may still fail and leave a new venue uninitialized.
UpdateState ==
  /\ \E p \in DOMAIN Pools :
       /\ token_info' = [token_info EXCEPT ![p] = refresh_token_info(p)]
       /\ initialized' \in {initialized, [initialized EXCEPT ![p] = TRUE]}
  /\ UNCHANGED <<vars, marketVars, clientVars>>

\* The router starts a route.
ChoosePath ==
  /\ path = <<>>
  /\ \E ms \in Paths : path' = ms
  /\ UNCHANGED <<vars, marketVars, legs, leg_keys, sent, venueVars>>

\* The route is given up, or has been sent.
EndRoute == path' = <<>> /\ legs' = <<>> /\ leg_keys' = <<>>

Keys(accounts) == [i \in DOMAIN accounts |-> accounts[i].key]

\* build_swap_leg for the next hop, with any pool; the router appends the
\* accounts.  An error, of the checks here or of the core behind
\* generate_swap_instruction, ends the route.
build_swap_leg ==
  /\ path # <<>> /\ Len(legs) + 1 < Len(path)
  /\ \E p \in DOMAIN Pools :
       LET k   == Len(legs)
           in  == path[k + 1]
           out == path[k + 2]
           ix  == generate_swap_instruction(p, in, out)
           accounts == assemble_leg_accounts(ix)
       IN IF RefusesFee(p, in, out) \/ ix = <<>>
            THEN EndRoute
          ELSE \/ EndRoute
               \/ /\ legs' = Append(legs,
                       [swap |-> [from |-> k, to |-> k + 1, weight |-> ROUTE_WEIGHT_ALL,
                                  n_accounts |-> n_accounts(accounts)],
                        zero_for_one |-> protocol_to_venue(p, in, out),
                        accounts |-> accounts])
                  /\ leg_keys' = leg_keys \o Keys(accounts)
                  /\ UNCHANGED path
  /\ UNCHANGED <<vars, marketVars, sent, venueVars>>

\* External: the router's request around the legs of a path.
Assembled(ms, ls, keys) ==
  [amount |-> Amount, mints |-> Len(ms),
   swaps |-> [k \in DOMAIN ls |-> ls[k].swap],
   input |-> User(ms[1]), output |-> User(ms[Len(ms)]),
   token_ledger |-> NoLedger,
   remaining |-> ([i \in DOMAIN ms |-> Pda(ms[i])] \o ms) \o keys]

\* The runtime refuses a transaction that lacks a signature it asks for, or
\* passes too many accounts.
SendRoute ==
  /\ path # <<>> /\ Len(legs) + 1 = Len(path)
  /\ \A k \in DOMAIN legs : \A i \in DOMAIN legs[k].accounts : ~legs[k].accounts[i].signer
  /\ 2 * Len(path) + Len(leg_keys) <= BITMAP_BITS
  /\ Submit(Assembled(path, legs, leg_keys))
  /\ sent' = legs
  /\ EndRoute
  /\ UNCHANGED <<marketVars, venueVars>>

ProgramStep ==
  /\ \/ Initialize \/ CreateAtas \/ TakeSnapshot \/ Fund
     \/ SwapLeg \/ LegsDone \/ Payout \/ CloseAtas \/ FinalCheck
  /\ UNCHANGED <<marketVars, clientVars, venueVars>>

ClientNext ==
  \/ NextEpoch \/ SetTransferFee \/ UpdateState
  \/ ChoosePath \/ build_swap_leg \/ SendRoute
  \/ ProgramStep

ClientSpec == ClientInit /\ [][ClientNext]_allVars

-----------------------------------------------------------------------------
\* The leg that the program is about to execute, and the accounts that it cuts
\* out of the remaining ones for it.
Executing == pc = "legs" /\ leg <= Len(req.swaps)
Slice == SubSeq(req.remaining, remaining_account_index + 1,
                remaining_account_index + req.swaps[leg].n_accounts)

\* The program cuts exactly the legs that were built, whatever their lengths:
\* each slice is one leg's accounts, and ends with the venue program.
SlicesAreLegs ==
  Executing => Slice = Keys(sent[leg].accounts) /\ Slice[Len(Slice)] = ProgramId

\* A leg trades the accounts that the program accounts for: the token accounts
\* of its instruction are those of the route indexes from and to, the vaults
\* are those of the same mints, and zero_for_one says in which order.
LegsTradeRouteAccounts ==
  Executing =>
    LET s == req.swaps[leg]
        zero_for_one == sent[leg].zero_for_one
    IN /\ Slice[4] = Ata(req, s.from) /\ Slice[5] = Ata(req, s.to)
       /\ Slice[6] = Vault(MintAt(req, s.from)) /\ Slice[7] = Vault(MintAt(req, s.to))
       /\ \E p \in DOMAIN Pools :
            Pools[p].mints = IF zero_for_one THEN <<MintAt(req, s.from), MintAt(req, s.to)>>
                                             ELSE <<MintAt(req, s.to), MintAt(req, s.from)>>

\* The program's accounting takes every transfer at its face value; no leg moves
\* a mint that withholds a fee when it executes, however long ago it was built.
NoFeeWithheld ==
  Executing =>
    \A i \in {req.swaps[leg].from, req.swaps[leg].to} :
      MintAt(req, i) \in FeeMints => get_epoch_fee(MintAt(req, i)) = 0

\* A route made of built legs is never refused for its form, and needs no
\* signature that the router cannot give.
BuiltRoutesAreWellFormed ==
  /\ result \notin {"InvalidSwapInput", "MissingRemainingAccount", "InvalidAccountData"}
  /\ \A k \in DOMAIN legs : \A i \in DOMAIN legs[k].accounts : ~legs[k].accounts[i].signer
=============================================================================
