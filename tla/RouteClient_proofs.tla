------------------------- MODULE RouteClient_proofs -------------------------
(***************************************************************************)
(* Routes made of built legs, from the venues to the program: for any      *)
(* pools, paths, fees and any interleaving of updates, fee changes and the *)
(* building, sending and execution of routes.                              *)
(***************************************************************************)
EXTENDS RouteClient, SwapRoute_proofs, SequenceTheorems

AccountMeta == [key : Key, signer : BOOLEAN]
Leg == [swap : Swap, zero_for_one : BOOLEAN, accounts : Seq(AccountMeta)]

\* A venue knows its mints from the start, their programs and fees from its
\* first update.
TokenInv ==
  /\ epoch \in Nat
  /\ fee_config \in [FeeMints -> [older : Nat, newer : Nat, since : Nat]]
  /\ DOMAIN token_info = DOMAIN Pools
  /\ initialized \in [DOMAIN Pools -> BOOLEAN]
  /\ \A p \in DOMAIN Pools : \A i \in 1..2 :
       LET m == Pools[p].mints[i]
       IN  /\ token_info[p][i].pubkey = m
           /\ initialized[p] =>
                /\ token_info[p][i].is_token_2022 <=> m \in Token2022
                /\ m \in FeeMints => token_info[p][i].transfer_fee # NoFee

\* The accounts of a leg from in to out.
GoodAccounts(accounts, in, out) ==
  /\ accounts \in Seq(AccountMeta)
  /\ Len(accounts) > 7 /\ Len(accounts) < U8
  /\ \A i \in DOMAIN accounts : ~accounts[i].signer
  /\ accounts[4].key = Pda(in) /\ accounts[5].key = Pda(out)
  /\ accounts[6].key = Vault(in) /\ accounts[7].key = Vault(out)
  /\ accounts[Len(accounts)].key = ProgramId

\* The k-th leg of a route along the mints ms.
GoodLeg(l, k, ms) ==
  /\ l.swap = [from |-> k - 1, to |-> k, weight |-> ROUTE_WEIGHT_ALL,
               n_accounts |-> Len(l.accounts)]
  /\ GoodAccounts(l.accounts, ms[k], ms[k + 1])
  /\ ms[k] \notin FeeMints /\ ms[k + 1] \notin FeeMints
  /\ \E p \in DOMAIN Pools :
       Pools[p].mints = IF l.zero_for_one THEN <<ms[k], ms[k + 1]>>
                                          ELSE <<ms[k + 1], ms[k]>>

\* Where each leg begins in the accounts appended so far.
Offsets(ls, keys, off) ==
  /\ off \in [1..(Len(ls) + 1) -> Nat]
  /\ off[1] = 0 /\ off[Len(ls) + 1] = Len(keys)
  /\ \A k \in 1..Len(ls) :
       /\ off[k + 1] = off[k] + Len(ls[k].accounts)
       /\ off[k + 1] <= Len(keys)
       /\ \A i \in 1..Len(ls[k].accounts) : keys[off[k] + i] = ls[k].accounts[i].key

Built(ms, ls, keys, off) ==
  /\ ms \in Paths /\ ls \in Seq(Leg) /\ keys \in Seq(Key)
  /\ Len(ls) < Len(ms)
  /\ \A k \in 1..Len(ls) : GoodLeg(ls[k], k, ms)
  /\ Offsets(ls, keys, off)

BuildInv ==
  IF path = <<>> THEN legs = <<>> /\ leg_keys = <<>>
                 ELSE \E off : Built(path, legs, leg_keys, off)

BeforePayout == {"atas", "snapshot", "fund", "legs"}

\* The program executes a route that was built, and has come to the accounts of
\* its next leg.
Runs(ms, keys, off) ==
  /\ Built(ms, sent, keys, off) /\ Len(sent) + 1 = Len(ms)
  /\ req = Assembled(ms, sent, keys)
  /\ pc \in BeforePayout => /\ leg \in 1..(Len(sent) + 1)
                            /\ remaining_account_index = 2 * Len(ms) + off[leg]

RunInv ==
  /\ pc \in InTransaction => \E ms, keys, off : Runs(ms, keys, off)
  /\ pc = "snapshot" => \A i \in RouteIndexes(req) : Ata(req, i) \in world.open

ResultInv == result \notin {"InvalidSwapInput", "MissingRemainingAccount", "InvalidAccountData"}

CInv == IInv /\ TokenInv /\ BuildInv /\ RunInv /\ ResultInv

-----------------------------------------------------------------------------

USE ConstantsAssumption

LEMMA PoolFacts ==
  ASSUME NEW p \in DOMAIN Pools
  PROVE  /\ Pools[p].mints[1] \in Mints /\ Pools[p].mints[2] \in Mints
         /\ Pools[p].mints[1] # Pools[p].mints[2]
         /\ Pools[p].mints = <<Pools[p].mints[1], Pools[p].mints[2]>>
         /\ Pools[p].ticks \in Nat /\ Pools[p].ticks + 17 < U8 /\ U8 \in Nat
<1>1. /\ Pools[p] \in [mints : Mints \X Mints, ticks : Nat, dynamic : BOOLEAN]
      /\ Pools[p].mints[1] # Pools[p].mints[2]
      /\ Pools[p].ticks + 17 < U8 /\ U8 \in Nat
  BY RouteClientAssumption
<1>2. Pools[p].mints \in Mints \X Mints /\ Pools[p].ticks \in Nat
  BY <1>1
<1>3. QED
  BY <1>1, <1>2

LEMMA KeyFacts ==
  /\ TitanPda \in Key /\ OtherKey \in Key /\ WrongAta \in Key /\ ProgramId \in Key
  /\ \A m \in Mints : /\ m \in Key /\ Pda(m) \in Key /\ Vault(m) \in Key
                      /\ Pda(m) \in Accounts /\ User(m) \in Accounts
  BY RouteClientAssumption DEF Key, Accounts, Owners, Pda, User, Vault

\* Lists of accounts.
LEMMA PlainFacts ==
  ASSUME NEW keys \in Seq(Key)
  PROVE  /\ Plain(keys) \in Seq(AccountMeta) /\ Len(Plain(keys)) = Len(keys)
         /\ \A i \in 1..Len(keys) : Plain(keys)[i].key = keys[i] /\ ~Plain(keys)[i].signer
<1>1. DOMAIN keys = 1..Len(keys) /\ Len(keys) \in Nat
  OBVIOUS
<1>2. \A i \in 1..Len(keys) : keys[i] \in Key
  OBVIOUS
<1>3. Plain(keys) = [i \in 1..Len(keys) |-> [key |-> keys[i], signer |-> FALSE]]
  BY <1>1 DEF Plain, Meta
<1>4. \A i \in 1..Len(keys) : [key |-> keys[i], signer |-> FALSE] \in AccountMeta
  BY <1>2 DEF AccountMeta
<1>5. Plain(keys) \in Seq(AccountMeta) /\ Len(Plain(keys)) = Len(keys)
  <2>1. Plain(keys) \in [1..Len(keys) -> AccountMeta]
    BY <1>3, <1>4
  <2>2. QED
    BY <1>1, <2>1, IsASeq, LenProperties
<1>6. QED
  BY <1>3, <1>5

LEMMA TimesFacts ==
  ASSUME NEW n \in Nat
  PROVE  Times(n) \in Seq(Key) /\ Len(Times(n)) = n
<1>1. Times(n) \in [1..n -> Key]
  BY KeyFacts DEF Times
<1>2. QED
  BY <1>1, IsASeq, LenProperties

\* What build_swap_instruction returns.
SwapInstruction(ix, src, dst, in, out) ==
  /\ ix \in Seq(AccountMeta) /\ Len(ix) > 7 /\ Len(ix) + 1 < U8
  /\ ix[1] = Meta(TitanPda, TRUE)
  /\ \A i \in 2..Len(ix) : ~ix[i].signer
  /\ ix[4].key = src /\ ix[5].key = dst
  /\ ix[6].key = Vault(in) /\ ix[7].key = Vault(out)

LEMMA InstructionFacts ==
  ASSUME NEW p \in DOMAIN Pools, NEW z \in BOOLEAN, NEW src \in Key, NEW dst \in Key,
         NEW in, NEW out,
         z => in = Pools[p].mints[1] /\ out = Pools[p].mints[2],
         ~z => in = Pools[p].mints[2] /\ out = Pools[p].mints[1]
  PROVE  SwapInstruction(build_swap_instruction(p, z, src, dst), src, dst, in, out)
<1>1. in \in Mints /\ out \in Mints
  BY PoolFacts
<1>2. PICK n : n = 1 + Pools[p].ticks + IF Pools[p].dynamic THEN 2 ELSE 0
  OBVIOUS
<1>3. n \in Nat /\ n + 14 < U8 /\ U8 \in Nat
  BY <1>2, PoolFacts
<1>4. PICK a, b, c, d, e : /\ a = Times(2) /\ b = <<src, dst, Vault(in), Vault(out)>>
                           /\ c = Times(4) /\ d = <<in, out>> /\ e = Times(n)
  OBVIOUS
<1>5. /\ a \in Seq(Key) /\ b \in Seq(Key) /\ c \in Seq(Key) /\ d \in Seq(Key) /\ e \in Seq(Key)
      /\ Len(a) = 2 /\ Len(b) = 4 /\ Len(c) = 4 /\ Len(d) = 2 /\ Len(e) = n
      /\ b[1] = src /\ b[2] = dst /\ b[3] = Vault(in) /\ b[4] = Vault(out)
  <2>1. Vault(in) \in Key /\ Vault(out) \in Key /\ in \in Key /\ out \in Key
    BY <1>1, KeyFacts
  <2>2. b \in Seq(Key) /\ d \in Seq(Key) /\ Len(b) = 4 /\ Len(d) = 2
          /\ b[1] = src /\ b[2] = dst /\ b[3] = Vault(in) /\ b[4] = Vault(out)
    BY <1>4, <2>1
  <2>3. /\ a \in Seq(Key) /\ c \in Seq(Key) /\ e \in Seq(Key)
        /\ Len(a) = 2 /\ Len(c) = 4 /\ Len(e) = n
    BY <1>3, <1>4, TimesFacts
  <2>4. QED
    BY <2>2, <2>3
<1>6. PICK ab, abc, abcd, keys : ab = a \o b /\ abc = ab \o c /\ abcd = abc \o d /\ keys = abcd \o e
  OBVIOUS
<1>7. a \in Seq(Key) /\ b \in Seq(Key) /\ c \in Seq(Key) /\ d \in Seq(Key) /\ e \in Seq(Key)
  BY <1>5
<1>8. ab \in Seq(Key) /\ abc \in Seq(Key) /\ abcd \in Seq(Key) /\ keys \in Seq(Key)
  <2>1. ab \in Seq(Key)
    BY <1>6, <1>7
  <2>2. abc \in Seq(Key)
    BY <1>6, <1>7, <2>1
  <2>3. abcd \in Seq(Key)
    BY <1>6, <1>7, <2>2
  <2>4. QED
    BY <1>6, <1>7, <2>1, <2>2, <2>3
<1>9. /\ Len(ab) = Len(a) + Len(b)
      /\ \A i \in 1..Len(b) : ab[Len(a) + i] = b[i]
  BY <1>6, <1>7
<1>10. Len(abc) = Len(ab) + Len(c) /\ \A i \in 1..Len(ab) : abc[i] = ab[i]
  BY <1>6, <1>7, <1>8
<1>11. Len(abcd) = Len(abc) + Len(d) /\ \A i \in 1..Len(abc) : abcd[i] = abc[i]
  BY <1>6, <1>7, <1>8
<1>12. Len(keys) = Len(abcd) + Len(e) /\ \A i \in 1..Len(abcd) : keys[i] = abcd[i]
  BY <1>6, <1>7, <1>8
<1>13. /\ Len(keys) = 12 + n
       /\ keys[3] = src /\ keys[4] = dst /\ keys[5] = Vault(in) /\ keys[6] = Vault(out)
  <2>1. Len(ab) = 6 /\ Len(abc) = 10 /\ Len(abcd) = 12 /\ Len(keys) = 12 + n
    BY <1>3, <1>5, <1>9, <1>10, <1>11, <1>12
  <2>2. \A i \in 1..4 : ab[2 + i] = b[i]
    BY <1>5, <1>9
  <2>3. \A i \in 1..6 : keys[i] = ab[i]
    <3>1. \A i \in 1..6 : abc[i] = ab[i]
      BY <1>10, <2>1
    <3>2. \A i \in 1..10 : abcd[i] = abc[i]
      BY <1>11, <2>1
    <3>3. \A i \in 1..12 : keys[i] = abcd[i]
      BY <1>12, <2>1
    <3>4. \A i \in 1..6 : i \in 1..10 /\ i \in 1..12
      OBVIOUS
    <3>5. QED
      BY <3>1, <3>2, <3>3, <3>4
  <2>4. /\ keys[2 + 1] = b[1] /\ keys[2 + 2] = b[2]
        /\ keys[2 + 3] = b[3] /\ keys[2 + 4] = b[4]
    BY <2>2, <2>3
  <2>5. QED
    BY <1>5, <2>1, <2>4
<1>14. PICK rest : rest = Plain(keys)
  OBVIOUS
<1>15. /\ rest \in Seq(AccountMeta) /\ Len(rest) = 12 + n
       /\ \A i \in 1..(12 + n) : rest[i].key = keys[i] /\ ~rest[i].signer
  BY <1>8, <1>13, <1>14, PlainFacts
<1>16. PICK meta, one, ix : meta = Meta(TitanPda, TRUE) /\ one = <<meta>> /\ ix = one \o rest
  OBVIOUS
<1>17. build_swap_instruction(p, z, src, dst) = ix
  <2>1. in = Pools[p].mints[IF z THEN 1 ELSE 2] /\ out = Pools[p].mints[IF z THEN 2 ELSE 1]
    OBVIOUS
  <2>2. QED
    BY <1>2, <1>4, <1>6, <1>14, <1>16, <2>1 DEF build_swap_instruction
<1>18. one \in Seq(AccountMeta) /\ rest \in Seq(AccountMeta) /\ Len(one) = 1 /\ one[1] = meta
  <2>1. meta \in AccountMeta
    BY <1>16, KeyFacts DEF Meta, AccountMeta
  <2>2. one = <<meta>>
    BY <1>16
  <2>3. QED
    BY <1>15, <2>1, <2>2
<1>19. /\ ix \in Seq(AccountMeta) /\ Len(ix) = 13 + n /\ ix[1] = Meta(TitanPda, TRUE)
       /\ \A i \in 2..(13 + n) : ix[i] = rest[i - 1]
  <2>1. one \in Seq(AccountMeta) /\ rest \in Seq(AccountMeta) /\ ix = one \o rest
    BY <1>16, <1>18
  <2>2. ix \in Seq(AccountMeta) /\ Len(ix) = Len(one) + Len(rest)
    BY <2>1
  <2>3. \A i \in 1..Len(one) : ix[i] = one[i]
    BY <2>1
  <2>4. \A i \in 1..Len(rest) : ix[Len(one) + i] = rest[i]
    BY <2>1
  <2>5. \A i \in 2..(13 + n) : i - 1 \in 1..(12 + n) /\ 1 + (i - 1) = i
    BY <1>3
  <2>6. \A i \in 2..(13 + n) : ix[i] = rest[i - 1]
    BY <1>15, <1>18, <2>4, <2>5
  <2>7. Len(ix) = 13 + n
    BY <1>3, <1>15, <1>18, <2>2
  <2>8. 1 \in 1..Len(one)
    BY <1>18
  <2>9. ix[1] = Meta(TitanPda, TRUE)
    BY <1>16, <1>18, <2>3, <2>8
  <2>10. QED
    BY <2>2, <2>6, <2>7, <2>9
<1>20. \A i \in 2..(13 + n) : ix[i].key = keys[i - 1] /\ ~ix[i].signer
  <2>1. \A i \in 2..(13 + n) : i - 1 \in 1..(12 + n)
    BY <1>3
  <2>2. QED
    BY <1>15, <1>19, <2>1
<1>21. /\ ix[4].key = src /\ ix[5].key = dst
       /\ ix[6].key = Vault(in) /\ ix[7].key = Vault(out)
  <2>1. 4 \in 2..(13 + n) /\ 5 \in 2..(13 + n) /\ 6 \in 2..(13 + n) /\ 7 \in 2..(13 + n)
    BY <1>3
  <2>2. QED
    BY <1>13, <1>20, <2>1
<1>22. QED
  BY <1>3, <1>17, <1>19, <1>20, <1>21 DEF SwapInstruction

\* assemble_leg_accounts keeps the order, clears the signer and appends the
\* program.
LEMMA AssembleFacts ==
  ASSUME NEW ix \in Seq(AccountMeta), ix[1] = Meta(TitanPda, TRUE), Len(ix) > 7,
         \A i \in 2..Len(ix) : ~ix[i].signer,
         NEW accounts, accounts = assemble_leg_accounts(ix)
  PROVE  /\ accounts \in Seq(AccountMeta) /\ Len(accounts) = Len(ix) + 1
         /\ \A i \in DOMAIN accounts : ~accounts[i].signer
         /\ \A i \in 1..Len(ix) : accounts[i].key = ix[i].key
         /\ accounts[Len(ix) + 1].key = ProgramId
<1>1. PICK n : n = Len(ix)
  OBVIOUS
<1>2. n \in Nat /\ n > 7 /\ DOMAIN ix = 1..n /\ \A i \in 1..n : ix[i] \in AccountMeta
  BY <1>1
<1>3. PICK cleared, prog, tail :
        /\ cleared = [i \in 1..n |-> IF ix[i].key = TitanPda THEN Meta(TitanPda, FALSE) ELSE ix[i]]
        /\ prog = <<ProgramId>> /\ tail = Plain(prog)
  OBVIOUS
<1>4. accounts = cleared \o tail
  BY <1>2, <1>3 DEF assemble_leg_accounts
<1>5. ASSUME NEW i \in 1..n
      PROVE  cleared[i] \in AccountMeta /\ cleared[i].key = ix[i].key /\ ~cleared[i].signer
  <2>1. cleared[i] = IF ix[i].key = TitanPda THEN Meta(TitanPda, FALSE) ELSE ix[i]
    BY <1>3
  <2>2. CASE ix[i].key = TitanPda
    BY <2>1, <2>2, KeyFacts DEF Meta, AccountMeta
  <2>3. CASE ix[i].key # TitanPda
    <3>1. i # 1
      BY <2>3 DEF Meta
    <3>2. i \in 2..Len(ix)
      BY <1>1, <1>2, <3>1
    <3>3. QED
      BY <1>2, <2>1, <2>3, <3>2
  <2>4. QED
    BY <2>2, <2>3
<1>6. cleared \in Seq(AccountMeta) /\ Len(cleared) = n
  <2>1. cleared \in [1..n -> AccountMeta]
    BY <1>3, <1>5
  <2>2. QED
    BY <1>2, <2>1, IsASeq, LenProperties
<1>7. /\ tail \in Seq(AccountMeta) /\ Len(tail) = 1
      /\ tail[1].key = ProgramId /\ ~tail[1].signer
  <2>1. prog \in Seq(Key) /\ Len(prog) = 1 /\ prog[1] = ProgramId
    BY <1>3, KeyFacts
  <2>2. /\ tail \in Seq(AccountMeta) /\ Len(tail) = Len(prog)
        /\ \A i \in 1..Len(prog) : tail[i].key = prog[i] /\ ~tail[i].signer
    BY <1>3, <2>1, PlainFacts
  <2>3. 1 \in 1..Len(prog)
    BY <2>1
  <2>4. QED
    BY <2>1, <2>2, <2>3
<1>8. cleared \in Seq(AccountMeta) /\ tail \in Seq(AccountMeta) /\ accounts = cleared \o tail
  BY <1>4, <1>6, <1>7
<1>9. accounts \in Seq(AccountMeta) /\ Len(accounts) = Len(cleared) + Len(tail)
  BY <1>8
<1>10. \A i \in 1..Len(cleared) : accounts[i] = cleared[i]
  BY <1>8
<1>11. \A i \in 1..Len(tail) : accounts[Len(cleared) + i] = tail[i]
  BY <1>8
<1>12. accounts[n + 1] = tail[1]
  <2>1. 1 \in 1..Len(tail)
    BY <1>7
  <2>2. QED
    BY <1>6, <1>11, <2>1
<1>13. Len(accounts) = n + 1
  BY <1>2, <1>6, <1>7, <1>9
<1>14. \A i \in 1..n : accounts[i] = cleared[i]
  BY <1>6, <1>10
<1>15. \A i \in DOMAIN accounts : ~accounts[i].signer
  <2>1. DOMAIN accounts = 1..(n + 1)
    BY <1>9, <1>13, LenProperties
  <2>2. \A i \in 1..(n + 1) : i \in 1..n \/ i = n + 1
    BY <1>2
  <2>3. QED
    BY <1>5, <1>7, <1>12, <1>14, <2>1, <2>2
<1>16. QED
  BY <1>1, <1>5, <1>7, <1>9, <1>12, <1>13, <1>14, <1>15

\* What an initialized venue builds for a swap of its two mints.
LEMMA LegFacts ==
  ASSUME TokenInv, NEW p \in DOMAIN Pools, NEW in, NEW out,
         NEW ix, ix = generate_swap_instruction(p, in, out), ix # <<>>,
         NEW accounts, accounts = assemble_leg_accounts(ix)
  PROVE  /\ GoodAccounts(accounts, in, out)
         /\ Pools[p].mints = IF protocol_to_venue(p, in, out) THEN <<in, out>> ELSE <<out, in>>
         /\ ~RefusesFee(p, in, out) => in \notin FeeMints /\ out \notin FeeMints
<1>1. /\ initialized[p] = TRUE /\ Trades(p, in) /\ Trades(p, out) /\ in # out
      /\ ix = build_swap_instruction(p, in = Pools[p].mints[1],
                get_associated_token_address(token_info[p][InfoOf(p, in)]),
                get_associated_token_address(token_info[p][InfoOf(p, out)]))
  BY DEF generate_swap_instruction, TokenInv
<1>2. PICK one, two : one = Pools[p].mints[1] /\ two = Pools[p].mints[2]
  OBVIOUS
<1>3. /\ one \in Mints /\ two \in Mints /\ one # two /\ Pools[p].mints = <<one, two>>
      /\ Pools[p].ticks \in Nat /\ U8 \in Nat
  BY <1>2, PoolFacts
<1>4. PICK i1, i2 : i1 = token_info[p][1] /\ i2 = token_info[p][2]
  OBVIOUS
<1>5. 1 \in 1..2 /\ 2 \in 1..2 /\ \A i \in 1..2 : i = 1 \/ i = 2
  OBVIOUS
<1>6. /\ i1.pubkey = one /\ i2.pubkey = two
      /\ i1.is_token_2022 <=> one \in Token2022
      /\ i2.is_token_2022 <=> two \in Token2022
      /\ one \in FeeMints => i1.transfer_fee # NoFee
      /\ two \in FeeMints => i2.transfer_fee # NoFee
  BY <1>1, <1>2, <1>4, <1>5 DEF TokenInv
<1>7. (in = one /\ out = two) \/ (in = two /\ out = one)
  BY <1>1, <1>4, <1>5, <1>6 DEF Trades
<1>8. /\ InfoOf(p, one) = 1 /\ InfoOf(p, two) = 2
  <2>1. InfoOf(p, one) \in 1..2 /\ token_info[p][InfoOf(p, one)].pubkey = one
    BY <1>4, <1>5, <1>6, Zenon DEF InfoOf
  <2>2. InfoOf(p, two) \in 1..2 /\ token_info[p][InfoOf(p, two)].pubkey = two
    BY <1>4, <1>5, <1>6, Zenon DEF InfoOf
  <2>3. QED
    BY <1>3, <1>4, <1>5, <1>6, <2>1, <2>2, Zenon
<1>9. /\ get_associated_token_address(i1) = Pda(one)
      /\ get_associated_token_address(i2) = Pda(two)
  BY <1>6 DEF get_associated_token_address
<1>10. ix = build_swap_instruction(p, in = one, Pda(in), Pda(out))
  BY <1>1, <1>2, <1>4, <1>7, <1>8, <1>9
<1>11. PICK z \in BOOLEAN : z = (in = one)
  OBVIOUS
<1>12. /\ z => in = Pools[p].mints[1] /\ out = Pools[p].mints[2]
       /\ ~z => in = Pools[p].mints[2] /\ out = Pools[p].mints[1]
       /\ Pda(in) \in Key /\ Pda(out) \in Key
  BY <1>2, <1>3, <1>7, <1>11, KeyFacts
<1>13. /\ ix \in Seq(AccountMeta) /\ Len(ix) > 7 /\ Len(ix) + 1 < U8
       /\ ix[1] = Meta(TitanPda, TRUE)
       /\ \A i \in 2..Len(ix) : ~ix[i].signer
       /\ ix[4].key = Pda(in) /\ ix[5].key = Pda(out)
       /\ ix[6].key = Vault(in) /\ ix[7].key = Vault(out)
  <2>1. PICK src, dst : src = Pda(in) /\ dst = Pda(out)
    OBVIOUS
  <2>2. build_swap_instruction(p, z, src, dst) = ix /\ src \in Key /\ dst \in Key
    <3>1. CASE in = one
      <4>1. z = TRUE /\ (in = one) = TRUE
        BY <1>11, <3>1
      <4>2. QED
        BY <1>10, <1>12, <2>1, <4>1
    <3>2. CASE in # one
      <4>1. z = FALSE /\ (in = one) = FALSE
        BY <1>11, <3>2
      <4>2. QED
        BY <1>10, <1>12, <2>1, <4>1
    <3>3. QED
      BY <3>1, <3>2
  <2>3. SwapInstruction(ix, src, dst, in, out)
    BY <1>12, <2>2, InstructionFacts
  <2>4. QED
    BY <2>1, <2>3 DEF SwapInstruction
<1>14. /\ accounts \in Seq(AccountMeta) /\ Len(accounts) = Len(ix) + 1
       /\ \A i \in DOMAIN accounts : ~accounts[i].signer
       /\ \A i \in 1..Len(ix) : accounts[i].key = ix[i].key
       /\ accounts[Len(ix) + 1].key = ProgramId
  BY <1>13, AssembleFacts
<1>15. GoodAccounts(accounts, in, out)
  <2>1. Len(ix) \in Nat
    BY <1>13
  <2>2. 4 \in 1..Len(ix) /\ 5 \in 1..Len(ix) /\ 6 \in 1..Len(ix) /\ 7 \in 1..Len(ix)
    BY <1>13, <2>1
  <2>3. /\ accounts[4].key = Pda(in) /\ accounts[5].key = Pda(out)
        /\ accounts[6].key = Vault(in) /\ accounts[7].key = Vault(out)
        /\ accounts[Len(accounts)].key = ProgramId
    BY <1>13, <1>14, <2>2
  <2>4. Len(accounts) > 7 /\ Len(accounts) < U8
    BY <1>13, <1>14, <2>1
  <2>5. QED
    BY <1>14, <2>3, <2>4 DEF GoodAccounts
<1>16. Pools[p].mints = IF protocol_to_venue(p, in, out) THEN <<in, out>> ELSE <<out, in>>
  <2>1. CASE in = one /\ out = two
    BY <1>3, <1>8, <2>1 DEF protocol_to_venue
  <2>2. CASE in = two /\ out = one
    BY <1>3, <1>8, <2>2 DEF protocol_to_venue
  <2>3. QED
    BY <1>7, <2>1, <2>2
<1>17. ~RefusesFee(p, in, out) => in \notin FeeMints /\ out \notin FeeMints
  BY <1>4, <1>5, <1>6, <1>7 DEF RefusesFee
<1>18. QED
  BY <1>15, <1>16, <1>17

-----------------------------------------------------------------------------
\* The keys of a list of accounts.
LEMMA KeysFacts ==
  ASSUME NEW accounts \in Seq(AccountMeta), NEW keys, keys = Keys(accounts)
  PROVE  /\ keys \in Seq(Key) /\ Len(keys) = Len(accounts)
         /\ \A i \in 1..Len(accounts) : keys[i] = accounts[i].key
<1>1. DOMAIN accounts = 1..Len(accounts) /\ Len(accounts) \in Nat
  BY LenProperties
<1>2. \A i \in 1..Len(accounts) : accounts[i].key \in Key
  <2>1. \A i \in 1..Len(accounts) : accounts[i] \in AccountMeta
    BY ElementOfSeq
  <2>2. QED
    BY <2>1 DEF AccountMeta
<1>3. keys = [i \in 1..Len(accounts) |-> accounts[i].key]
  BY <1>1 DEF Keys
<1>4. keys \in [1..Len(accounts) -> Key]
  BY <1>2, <1>3
<1>5. keys \in Seq(Key) /\ Len(keys) = Len(accounts)
  BY <1>1, <1>4, IsASeq, LenProperties
<1>6. QED
  BY <1>3, <1>5

\* Appending a leg and its accounts.
LEMMA Extended ==
  ASSUME NEW ms, NEW ls, NEW keys, NEW off, Built(ms, ls, keys, off), Len(ls) + 1 < Len(ms),
         NEW l \in Leg, GoodLeg(l, Len(ls) + 1, ms),
         NEW ls2, ls2 = Append(ls, l), NEW keys2, keys2 = keys \o Keys(l.accounts)
  PROVE  \E off2 : Built(ms, ls2, keys2, off2)
<1>1. PICK n, m, new : n = Len(ls) /\ m = Len(l.accounts) /\ new = Keys(l.accounts)
  OBVIOUS
<1>2. ls \in Seq(Leg) /\ keys \in Seq(Key) /\ ms \in Paths
  BY DEF Built
<1>3. l.accounts \in Seq(AccountMeta)
  BY DEF Leg
<1>4. /\ new \in Seq(Key) /\ Len(new) = m
      /\ \A i \in 1..m : new[i] = l.accounts[i].key
  BY <1>1, <1>3, KeysFacts
<1>5. n \in Nat /\ m \in Nat /\ Len(keys) \in Nat /\ Len(ms) \in Nat
  BY <1>1, <1>2, <1>3, LenProperties, RouteClientAssumption
<1>6. /\ ls2 \in Seq(Leg) /\ Len(ls2) = n + 1
      /\ \A k \in 1..n : ls2[k] = ls[k]
      /\ ls2[n + 1] = l
  BY <1>1, <1>2, AppendProperties
<1>7. keys \in Seq(Key) /\ new \in Seq(Key) /\ keys2 = keys \o new
  BY <1>1, <1>2, <1>4
<1>8. keys2 \in Seq(Key) /\ Len(keys2) = Len(keys) + Len(new)
  BY <1>7
<1>9. \A i \in 1..Len(keys) : keys2[i] = keys[i]
  BY <1>7
<1>10. \A i \in 1..Len(new) : keys2[Len(keys) + i] = new[i]
  BY <1>7
<1>11. /\ off \in [1..(n + 1) -> Nat] /\ off[1] = 0 /\ off[n + 1] = Len(keys)
       /\ \A k \in 1..n :
            /\ off[k + 1] = off[k] + Len(ls[k].accounts)
            /\ off[k + 1] <= Len(keys)
            /\ \A i \in 1..Len(ls[k].accounts) : keys[off[k] + i] = ls[k].accounts[i].key
  BY <1>1 DEF Built, Offsets
<1>12. PICK off2 : off2 = [k \in 1..(n + 2) |-> IF k = n + 2 THEN Len(keys) + m ELSE off[k]]
  OBVIOUS
<1>13. /\ off2 \in [1..(n + 2) -> Nat] /\ off2[n + 2] = Len(keys) + m
       /\ \A k \in 1..(n + 1) : off2[k] = off[k]
  <2>1. \A k \in 1..(n + 2) : k \in 1..(n + 1) \/ k = n + 2
    BY <1>5
  <2>2. \A k \in 1..(n + 1) : k \in 1..(n + 2) /\ k # n + 2 /\ off[k] \in Nat
    BY <1>5, <1>11
  <2>3. n + 2 \in 1..(n + 2) /\ Len(keys) + m \in Nat
    BY <1>5
  <2>4. QED
    BY <1>12, <2>1, <2>2, <2>3
<1>14. ASSUME NEW k \in 1..n
       PROVE  /\ off2[k + 1] = off2[k] + Len(ls2[k].accounts)
              /\ off2[k + 1] <= Len(keys2)
              /\ \A i \in 1..Len(ls2[k].accounts) : keys2[off2[k] + i] = ls2[k].accounts[i].key
  <2>1. k \in 1..(n + 1) /\ k + 1 \in 1..(n + 1) /\ k \in Nat
    BY <1>5
  <2>2. off2[k] = off[k] /\ off2[k + 1] = off[k + 1] /\ ls2[k] = ls[k] /\ off[k] \in Nat
    BY <1>6, <1>11, <1>13, <2>1
  <2>3. Len(ls[k].accounts) \in Nat
    <3>1. ls[k] \in Leg
      BY <1>1, <1>2, ElementOfSeq
    <3>2. QED
      BY <3>1, LenProperties DEF Leg
  <2>4. off[k + 1] = off[k] + Len(ls[k].accounts) /\ off[k + 1] <= Len(keys)
    BY <1>11
  <2>5. off2[k + 1] <= Len(keys2)
    BY <1>4, <1>5, <1>8, <2>2, <2>3, <2>4
  <2>6. ASSUME NEW i \in 1..Len(ls[k].accounts) PROVE keys2[off[k] + i] = ls[k].accounts[i].key
    <3>1. off[k] + i \in 1..Len(keys)
      BY <1>5, <2>2, <2>3, <2>4
    <3>2. QED
      BY <1>9, <1>11, <3>1
  <2>7. QED
    BY <2>2, <2>4, <2>5, <2>6
<1>15. /\ off2[n + 2] = off2[n + 1] + m
       /\ \A i \in 1..m : keys2[off2[n + 1] + i] = l.accounts[i].key
  <2>1. n + 1 \in 1..(n + 1)
    BY <1>5
  <2>2. off2[n + 1] = Len(keys)
    BY <1>11, <1>13, <2>1
  <2>3. QED
    BY <1>4, <1>10, <1>13, <2>2
<1>16. \A k \in 1..(n + 1) : k \in 1..n \/ k = n + 1
  BY <1>5
<1>17. Offsets(ls2, keys2, off2)
  <2>1. Len(ls2) + 1 = n + 2 /\ Len(keys2) = Len(keys) + m /\ n + 1 + 1 = n + 2
    BY <1>4, <1>5, <1>6, <1>8
  <2>2. 1 \in 1..(n + 1)
    BY <1>5
  <2>3. off2[1] = 0 /\ off2[n + 2] = Len(keys2)
    BY <1>11, <1>13, <2>1, <2>2
  <2>4. ASSUME NEW k \in 1..(n + 1)
        PROVE  /\ off2[k + 1] = off2[k] + Len(ls2[k].accounts)
               /\ off2[k + 1] <= Len(keys2)
               /\ \A i \in 1..Len(ls2[k].accounts) : keys2[off2[k] + i] = ls2[k].accounts[i].key
    <3>1. CASE k \in 1..n
      BY <1>14, <3>1
    <3>2. CASE k = n + 1
      <4>1. ls2[k] = l /\ k + 1 = n + 2 /\ Len(ls2[k].accounts) = m
        BY <1>1, <1>5, <1>6, <3>2
      <4>2. off2[k + 1] <= Len(keys2)
        BY <1>4, <1>5, <1>8, <1>13, <4>1
      <4>3. QED
        BY <1>15, <3>2, <4>1, <4>2
    <3>3. QED
      BY <1>16, <3>1, <3>2
  <2>5. QED
    BY <1>6, <1>13, <2>1, <2>3, <2>4 DEF Offsets
<1>18. \A k \in 1..Len(ls2) : GoodLeg(ls2[k], k, ms)
  <2>1. \A k \in 1..n : GoodLeg(ls[k], k, ms)
    BY <1>1 DEF Built
  <2>2. GoodLeg(ls2[n + 1], n + 1, ms)
    BY <1>1, <1>6
  <2>3. QED
    BY <1>6, <1>16, <2>1, <2>2
<1>19. Len(ls2) < Len(ms)
  BY <1>1, <1>6
<1>20. Built(ms, ls2, keys2, off2)
  BY <1>2, <1>6, <1>8, <1>17, <1>18, <1>19 DEF Built
<1>21. QED
  BY <1>20

LEMMA BuildLegKeeps == TokenInv /\ BuildInv /\ build_swap_leg => BuildInv'
<1>1. SUFFICES ASSUME TokenInv, BuildInv, build_swap_leg PROVE BuildInv'
  OBVIOUS
<1>2. PICK p \in DOMAIN Pools :
        LET k   == Len(legs)
            in  == path[k + 1]
            out == path[k + 2]
            ix  == generate_swap_instruction(p, in, out)
            accounts == assemble_leg_accounts(ix)
        IN IF RefusesFee(p, in, out) \/ ix = <<>>
             THEN EndRoute
           ELSE \/ EndRoute
                \/ /\ legs' = Append(legs,
                        [swap |-> [from |-> k, to |-> k + 1, weight |-> ROUTE_WEIGHT_ALL,
                                   n_accounts |-> n_accounts(accounts)],
                         zero_for_one |-> protocol_to_venue(p, in, out),
                         accounts |-> accounts])
                   /\ leg_keys' = leg_keys \o Keys(accounts)
                   /\ UNCHANGED path
  BY <1>1 DEF build_swap_leg
<1>3. PICK k, in, out : k = Len(legs) /\ in = path[k + 1] /\ out = path[k + 2]
  OBVIOUS
<1>4. PICK ix, accounts, z : /\ ix = generate_swap_instruction(p, in, out)
                             /\ accounts = assemble_leg_accounts(ix)
                             /\ z = protocol_to_venue(p, in, out)
  OBVIOUS
<1>5. PICK l : l = [swap |-> [from |-> k, to |-> k + 1, weight |-> ROUTE_WEIGHT_ALL,
                              n_accounts |-> n_accounts(accounts)],
                    zero_for_one |-> z, accounts |-> accounts]
  OBVIOUS
<1>6. \/ EndRoute
      \/ /\ ~RefusesFee(p, in, out) /\ ix # <<>>
         /\ legs' = Append(legs, l) /\ leg_keys' = leg_keys \o Keys(accounts) /\ path' = path
  BY <1>2, <1>3, <1>4, <1>5
<1>7. CASE EndRoute
  BY <1>7 DEF EndRoute, BuildInv
<1>8. CASE /\ ~RefusesFee(p, in, out) /\ ix # <<>>
           /\ legs' = Append(legs, l) /\ leg_keys' = leg_keys \o Keys(accounts) /\ path' = path
  <2>1. path # <<>> /\ Len(legs) + 1 < Len(path)
    BY <1>1 DEF build_swap_leg
  <2>2. PICK off : Built(path, legs, leg_keys, off)
    BY <1>1, <2>1 DEF BuildInv
  <2>3. k \in Nat
    BY <1>3, <2>2, LenProperties DEF Built
  <2>4. /\ GoodAccounts(accounts, in, out)
        /\ Pools[p].mints = IF z THEN <<in, out>> ELSE <<out, in>>
        /\ in \notin FeeMints /\ out \notin FeeMints
    BY <1>1, <1>4, <1>8, LegFacts
  <2>5. accounts \in Seq(AccountMeta) /\ n_accounts(accounts) = Len(accounts)
    <3>1. accounts \in Seq(AccountMeta) /\ Len(accounts) < U8
      BY <2>4 DEF GoodAccounts
    <3>2. Len(accounts) \in Nat /\ U8 \in Nat
      BY <3>1, LenProperties, RouteClientAssumption
    <3>3. Len(accounts) % U8 = Len(accounts)
      BY <3>1, <3>2
    <3>4. QED
      BY <3>1, <3>3 DEF n_accounts
  <2>6. z \in BOOLEAN
    BY <1>4 DEF protocol_to_venue
  <2>7. l \in Leg /\ l.accounts = accounts /\ l.zero_for_one = z
          /\ l.swap = [from |-> k, to |-> k + 1, weight |-> ROUTE_WEIGHT_ALL,
                       n_accounts |-> Len(accounts)]
    <3>1. Len(accounts) \in Nat /\ ROUTE_WEIGHT_ALL \in Nat
      BY <2>5, LenProperties
    <3>2. QED
      BY <1>5, <2>3, <2>5, <2>6, <3>1 DEF Leg, Swap
  <2>8. GoodLeg(l, k + 1, path)
    <3>1. k + 1 - 1 = k /\ k + 1 + 1 = k + 2
      BY <2>3
    <3>2. QED
      BY <1>3, <2>4, <2>7, <3>1 DEF GoodLeg
  <2>9. \E off2 : Built(path, legs', leg_keys', off2)
    BY <1>3, <1>8, <2>1, <2>2, <2>7, <2>8, Extended
  <2>10. QED
    BY <1>8, <2>1, <2>9 DEF BuildInv
<1>9. QED
  BY <1>6, <1>7, <1>8

\* The instruction made of built legs.
LEMMA AssembledFacts ==
  ASSUME NEW ms, NEW ls, NEW keys, NEW off, Built(ms, ls, keys, off), Len(ls) + 1 = Len(ms),
         NEW r, r = Assembled(ms, ls, keys)
  PROVE  /\ r \in Request /\ r.mints = Len(ms) /\ r.token_ledger = NoLedger
         /\ r.swaps \in Seq(Swap) /\ Len(r.swaps) = Len(ls)
         /\ \A k \in 1..Len(ls) : r.swaps[k] = ls[k].swap
         /\ Len(r.remaining) = 2 * Len(ms) + Len(keys)
         /\ \A i \in 0..(Len(ms) - 1) : /\ ms[i + 1] \in Mints /\ Ata(r, i) = Pda(ms[i + 1])
                                        /\ MintAt(r, i) = ms[i + 1]
         /\ \A j \in 1..Len(keys) : r.remaining[2 * Len(ms) + j] = keys[j]
<1>1. /\ ms \in Seq(Mints) /\ Len(ms) \in Nat /\ Len(ms) >= 2
      /\ ls \in Seq(Leg) /\ Len(ls) \in Nat /\ keys \in Seq(Key) /\ Len(keys) \in Nat
      /\ Amount \in Nat
  BY LenProperties, RouteClientAssumption DEF Built
<1>2. PICK n : n = Len(ms)
  OBVIOUS
<1>3. DOMAIN ms = 1..n /\ DOMAIN ls = 1..Len(ls) /\ \A i \in 1..n : ms[i] \in Mints
  BY <1>1, <1>2, LenProperties, ElementOfSeq
<1>4. PICK atas, swaps : /\ atas = [i \in 1..n |-> Pda(ms[i])]
                         /\ swaps = [k \in 1..Len(ls) |-> ls[k].swap]
  OBVIOUS
<1>5. atas \in Seq(Key) /\ Len(atas) = n /\ ms \in Seq(Key)
  <2>1. atas \in [1..n -> Key]
    BY <1>3, <1>4, KeyFacts
  <2>2. ms \in [1..n -> Key]
    <3>1. ms \in [1..n -> Mints]
      BY <1>1, <1>2, LenProperties
    <3>2. QED
      BY <3>1, KeyFacts
  <2>3. n \in Nat
    BY <1>1, <1>2
  <2>4. atas \in Seq(Key) /\ Len(atas) = n
    BY <2>1, <2>3, IsASeq, LenProperties
  <2>5. ms \in Seq(Key)
    BY <2>2, <2>3, IsASeq
  <2>6. QED
    BY <2>4, <2>5
<1>6. swaps \in Seq(Swap) /\ Len(swaps) = Len(ls)
  <2>1. \A k \in 1..Len(ls) : ls[k] \in Leg
    BY <1>1, ElementOfSeq
  <2>2. swaps \in [1..Len(ls) -> Swap]
    BY <1>4, <2>1 DEF Leg
  <2>3. QED
    BY <1>1, <2>2, IsASeq, LenProperties
<1>7. PICK front, remaining : front = atas \o ms /\ remaining = front \o keys
  OBVIOUS
<1>8. r = [amount |-> Amount, mints |-> n, swaps |-> swaps,
           input |-> User(ms[1]), output |-> User(ms[n]),
           token_ledger |-> NoLedger, remaining |-> remaining]
  BY <1>2, <1>3, <1>4, <1>7 DEF Assembled
<1>9. atas \in Seq(Key) /\ ms \in Seq(Key) /\ keys \in Seq(Key)
  BY <1>1, <1>5
<1>10. front \in Seq(Key) /\ Len(front) = Len(atas) + Len(ms)
  BY <1>7, <1>9
<1>11. \A i \in 1..Len(atas) : front[i] = atas[i]
  BY <1>7, <1>9
<1>12. \A i \in 1..Len(ms) : front[Len(atas) + i] = ms[i]
  BY <1>7, <1>9
<1>13. front \in Seq(Key) /\ keys \in Seq(Key) /\ remaining = front \o keys
  BY <1>7, <1>9, <1>10
<1>14. remaining \in Seq(Key) /\ Len(remaining) = Len(front) + Len(keys)
  BY <1>13
<1>15. \A i \in 1..Len(front) : remaining[i] = front[i]
  BY <1>13
<1>16. \A j \in 1..Len(keys) : remaining[Len(front) + j] = keys[j]
  BY <1>13
<1>17. Len(front) = n + n /\ n + n = 2 * n
  BY <1>1, <1>2, <1>5, <1>10
<1>18. r \in Request
  <2>1. User(ms[1]) \in Accounts /\ User(ms[n]) \in Accounts
    <3>1. 1 \in 1..n /\ n \in 1..n
      BY <1>1, <1>2
    <3>2. QED
      BY <1>3, <3>1, KeyFacts
  <2>2. n \in Nat
    BY <1>1, <1>2
  <2>3. QED
    BY <1>1, <1>6, <1>8, <1>14, <2>1, <2>2 DEF Request
<1>19. ASSUME NEW i \in 0..(n - 1)
       PROVE  /\ ms[i + 1] \in Mints /\ remaining[i + 1] = Pda(ms[i + 1])
              /\ remaining[n + i + 1] = ms[i + 1]
  <2>1. /\ i + 1 \in 1..n /\ i + 1 \in 1..(n + n) /\ n + (i + 1) \in 1..(n + n)
        /\ n + (i + 1) = n + i + 1
    BY <1>1, <1>2
  <2>2. front[i + 1] = atas[i + 1] /\ atas[i + 1] = Pda(ms[i + 1])
    BY <1>4, <1>5, <1>11, <2>1
  <2>3. front[n + (i + 1)] = ms[i + 1]
    BY <1>2, <1>5, <1>12, <2>1
  <2>4. remaining[i + 1] = front[i + 1] /\ remaining[n + (i + 1)] = front[n + (i + 1)]
    BY <1>15, <1>17, <2>1
  <2>5. QED
    BY <1>3, <2>1, <2>2, <2>3, <2>4
<1>20. /\ r.mints = n /\ r.token_ledger = NoLedger /\ r.swaps = swaps /\ r.remaining = remaining
  BY <1>8
<1>21. \A i \in 0..(n - 1) : Ata(r, i) = Pda(ms[i + 1]) /\ MintAt(r, i) = ms[i + 1]
  BY <1>19, <1>20 DEF Ata, MintAt
<1>22. \A j \in 1..Len(keys) : r.remaining[2 * n + j] = keys[j]
  BY <1>16, <1>17, <1>20
<1>23. Len(r.remaining) = 2 * n + Len(keys)
  BY <1>14, <1>17, <1>20
<1>24. \A k \in 1..Len(ls) : r.swaps[k] = ls[k].swap
  BY <1>4, <1>20
<1>25. QED
  BY <1>2, <1>6, <1>18, <1>19, <1>20, <1>21, <1>22, <1>23, <1>24

-----------------------------------------------------------------------------
LEMMA TokenKeeps == TokenInv /\ [ClientNext]_allVars => TokenInv'
<1>1. SUFFICES ASSUME TokenInv, [ClientNext]_allVars PROVE TokenInv'
  OBVIOUS
<1>2. CASE UNCHANGED <<marketVars, venueVars>>
  BY <1>1, <1>2 DEF TokenInv, marketVars, venueVars
<1>3. CASE NextEpoch
  <2>1. epoch' \in Nat /\ UNCHANGED <<fee_config, token_info, initialized>>
    BY <1>1, <1>3 DEF NextEpoch, TokenInv, venueVars
  <2>2. QED
    BY <1>1, <2>1 DEF TokenInv
<1>4. CASE SetTransferFee
  <2>1. PICK m \in FeeMints, fee \in Fees :
          fee_config' = [fee_config EXCEPT
            ![m] = [older |-> get_epoch_fee(m), newer |-> fee, since |-> epoch + 2]]
    BY <1>4 DEF SetTransferFee
  <2>2. get_epoch_fee(m) \in Nat /\ fee \in Nat /\ epoch + 2 \in Nat
    BY <1>1, RouteClientAssumption DEF TokenInv, get_epoch_fee
  <2>3. fee_config' \in [FeeMints -> [older : Nat, newer : Nat, since : Nat]]
    BY <1>1, <2>1, <2>2 DEF TokenInv
  <2>4. UNCHANGED <<epoch, token_info, initialized>>
    BY <1>4 DEF SetTransferFee, venueVars
  <2>5. QED
    BY <1>1, <2>3, <2>4 DEF TokenInv
<1>5. CASE UpdateState
  <2>1. PICK p \in DOMAIN Pools :
          /\ token_info' = [token_info EXCEPT ![p] = refresh_token_info(p)]
          /\ initialized' \in {initialized, [initialized EXCEPT ![p] = TRUE]}
    BY <1>5 DEF UpdateState
  <2>2. UNCHANGED <<epoch, fee_config>>
    BY <1>5 DEF UpdateState, marketVars
  <2>3. DOMAIN token_info' = DOMAIN Pools /\ initialized' \in [DOMAIN Pools -> BOOLEAN]
    <3>1. DOMAIN token_info' = DOMAIN Pools
      BY <1>1, <2>1 DEF TokenInv
    <3>2. CASE initialized' = initialized
      BY <1>1, <3>1, <3>2 DEF TokenInv
    <3>3. CASE initialized' = [initialized EXCEPT ![p] = TRUE]
      BY <1>1, <3>1, <3>3 DEF TokenInv
    <3>4. QED
      BY <2>1, <3>2, <3>3
  <2>4. ASSUME NEW q \in DOMAIN Pools, NEW i \in 1..2, NEW m, m = Pools[q].mints[i]
        PROVE  /\ token_info'[q][i].pubkey = m
               /\ initialized'[q] =>
                    /\ token_info'[q][i].is_token_2022 <=> m \in Token2022
                    /\ m \in FeeMints => token_info'[q][i].transfer_fee # NoFee
    <3>1. CASE q = p
      <4>1. token_info'[q] = refresh_token_info(q)
        BY <1>1, <2>1, <3>1 DEF TokenInv
      <4>2. token_info'[q][i] = [pubkey |-> m, is_token_2022 |-> m \in Token2022,
                                 transfer_fee |-> IF m \in FeeMints THEN get_epoch_fee(m)
                                                                    ELSE NoFee]
        BY <2>4, <4>1 DEF refresh_token_info, TokenInfo
      <4>3. m \in FeeMints => get_epoch_fee(m) \in Nat
        BY <1>1 DEF TokenInv, get_epoch_fee
      <4>4. token_info'[q][i].pubkey = m
        BY <4>2
      <4>5. token_info'[q][i].is_token_2022 <=> m \in Token2022
        <5>1. PICK b \in BOOLEAN : b = (m \in Token2022)
          <6>1. (m \in Token2022) \in BOOLEAN
            OBVIOUS
          <6>2. QED
            BY <6>1, Zenon
        <5>2. PICK fee : fee = IF m \in FeeMints THEN get_epoch_fee(m) ELSE NoFee
          BY Zenon
        <5>3. PICK info : info = token_info'[q][i]
          BY Zenon
        <5>4. info = [pubkey |-> m, is_token_2022 |-> b, transfer_fee |-> fee]
          BY <4>2, <5>1, <5>2, <5>3, Zenon
        <5>5. info.is_token_2022 = b
          BY <5>4
        <5>6. QED
          BY <5>1, <5>3, <5>5, Zenon
      <4>6. m \in FeeMints => token_info'[q][i].transfer_fee # NoFee
        BY <4>2, <4>3, RouteClientAssumption
      <4>7. QED
        BY <4>4, <4>5, <4>6, Zenon
    <3>2. CASE q # p
      <4>1. token_info'[q] = token_info[q] /\ initialized'[q] = initialized[q]
        <5>1. token_info'[q] = token_info[q]
          BY <1>1, <2>1, <3>2 DEF TokenInv
        <5>2. initialized'[q] = initialized[q]
          BY <1>1, <2>1, <3>2 DEF TokenInv
        <5>3. QED
          BY <5>1, <5>2
      <4>2. QED
        BY <1>1, <2>4, <4>1 DEF TokenInv
    <3>3. QED
      BY <3>1, <3>2
  <2>5. QED
    BY <1>1, <2>2, <2>3, <2>4 DEF TokenInv
<1>6. QED
  BY <1>1, <1>2, <1>3, <1>4, <1>5
     DEF ClientNext, allVars, ChoosePath, build_swap_leg, SendRoute, ProgramStep

\* A route that was just started has no legs.
LEMMA NewRoute ==
  ASSUME NEW ms \in Paths
  PROVE  ms # <<>> /\ \E off : Built(ms, <<>>, <<>>, off)
<1>1. ms \in Seq(Mints) /\ Len(ms) >= 2
  BY RouteClientAssumption
<1>2. PICK ls, keys, off : ls = <<>> /\ keys = <<>> /\ off = [k \in 1..1 |-> 0]
  OBVIOUS
<1>3. ls \in Seq(Leg) /\ keys \in Seq(Key) /\ Len(ls) = 0 /\ Len(keys) = 0
  BY <1>2
<1>4. off \in [1..(Len(ls) + 1) -> Nat] /\ off[1] = 0 /\ off[Len(ls) + 1] = Len(keys)
  BY <1>2, <1>3
<1>5. Offsets(ls, keys, off)
  BY <1>3, <1>4 DEF Offsets
<1>6. Built(ms, ls, keys, off)
  BY <1>1, <1>3, <1>5 DEF Built
<1>7. QED
  BY <1>1, <1>2, <1>6

LEMMA EndKeeps == EndRoute => BuildInv'
  BY DEF EndRoute, BuildInv

LEMMA BuildKeeps == TokenInv /\ BuildInv /\ [ClientNext]_allVars => BuildInv'
<1>1. SUFFICES ASSUME TokenInv, BuildInv, [ClientNext]_allVars PROVE BuildInv'
  OBVIOUS
<1>2. CASE UNCHANGED <<path, legs, leg_keys>>
  BY <1>1, <1>2 DEF BuildInv
<1>3. CASE ChoosePath
  <2>1. PICK ms \in Paths : path' = ms
    BY <1>3 DEF ChoosePath
  <2>2. legs' = <<>> /\ leg_keys' = <<>>
    BY <1>1, <1>3 DEF ChoosePath, BuildInv
  <2>3. QED
    BY <2>1, <2>2, NewRoute DEF BuildInv
<1>4. CASE build_swap_leg
  BY <1>1, <1>4, BuildLegKeeps
<1>5. CASE SendRoute
  BY <1>5, EndKeeps DEF SendRoute
<1>6. QED
  BY <1>1, <1>2, <1>3, <1>4, <1>5
     DEF ClientNext, allVars, clientVars, NextEpoch, SetTransferFee, UpdateState, ProgramStep

-----------------------------------------------------------------------------
\* One swap per leg, each for its hop.
PathSwaps(r, ls) ==
  \A k \in 1..Len(ls) : /\ r.swaps[k].from = k - 1 /\ r.swaps[k].to = k
                        /\ r.swaps[k].n_accounts = Len(ls[k].accounts)
                        /\ Len(ls[k].accounts) \in Nat /\ Len(ls[k].accounts) > 7

\* The swaps of an assembled route follow its path.
LEMMA SwapFacts ==
  ASSUME NEW ms, NEW ls, NEW keys, NEW off, Built(ms, ls, keys, off), Len(ls) + 1 = Len(ms),
         NEW r, r = Assembled(ms, ls, keys)
  PROVE  /\ Len(ms) \in Nat /\ Len(ls) \in Nat /\ Len(ls) >= 1 /\ Len(keys) \in Nat
         /\ Len(ms) <= MAX_MINTS /\ Len(ls) <= MAX_SWAPS
         /\ PathSwaps(r, ls)
         /\ OutIndex(r) = Len(ls)
<1>1. /\ ms \in Seq(Mints) /\ ls \in Seq(Leg) /\ keys \in Seq(Key)
      /\ Len(ms) \in 2..MAX_MINTS /\ Len(ms) <= MAX_SWAPS + 1
  BY RouteClientAssumption DEF Built
<1>2. /\ Len(ms) \in Nat /\ Len(ls) \in Nat /\ Len(ls) >= 1 /\ Len(keys) \in Nat
      /\ Len(ms) <= MAX_MINTS /\ Len(ls) <= MAX_SWAPS
  BY <1>1
<1>3. ASSUME NEW k \in 1..Len(ls)
      PROVE  /\ r.swaps[k].from = k - 1 /\ r.swaps[k].to = k
             /\ r.swaps[k].n_accounts = Len(ls[k].accounts)
             /\ Len(ls[k].accounts) \in Nat /\ Len(ls[k].accounts) > 7
  <2>1. r.swaps[k] = ls[k].swap
    BY AssembledFacts
  <2>2. /\ ls[k].swap = [from |-> k - 1, to |-> k, weight |-> ROUTE_WEIGHT_ALL,
                         n_accounts |-> Len(ls[k].accounts)]
        /\ ls[k].accounts \in Seq(AccountMeta) /\ Len(ls[k].accounts) > 7
    BY DEF Built, GoodLeg, GoodAccounts
  <2>3. QED
    BY <2>1, <2>2, LenProperties
<1>4. Len(r.swaps) = Len(ls)
  BY AssembledFacts
<1>5. Len(ls) \in 1..Len(ls)
  BY <1>2
<1>6. OutIndex(r) = Len(ls)
  BY <1>3, <1>4, <1>5 DEF OutIndex
<1>7. QED
  BY <1>2, <1>3, <1>6 DEF PathSwaps

\* A route made of built legs passes every check on its form.
LEMMA WellFormed ==
  ASSUME NEW ms, NEW ls, NEW keys, NEW off, Built(ms, ls, keys, off), Len(ls) + 1 = Len(ms),
         NEW r, r = Assembled(ms, ls, keys)
  PROVE  Validation(r) \in {"ok", "AccountNotInitialized"}
<1>1. /\ Len(ms) \in Nat /\ Len(ls) \in Nat /\ Len(ls) >= 1 /\ Len(keys) \in Nat
      /\ Len(ms) <= MAX_MINTS /\ Len(ls) <= MAX_SWAPS /\ OutIndex(r) = Len(ls)
  BY SwapFacts
<1>2. \A k \in 1..Len(ls) : r.swaps[k].from = k - 1 /\ r.swaps[k].to = k
  <2>1. PathSwaps(r, ls)
    BY SwapFacts
  <2>2. QED
    BY <2>1 DEF PathSwaps
<1>3. /\ r.mints = Len(ms) /\ r.token_ledger = NoLedger
      /\ r.swaps \in Seq(Swap) /\ Len(r.swaps) = Len(ls)
      /\ Len(r.remaining) = 2 * Len(ms) + Len(keys)
  BY AssembledFacts
<1>4. \A i \in 0..(Len(ms) - 1) : MintAt(r, i) \in Mints
  BY AssembledFacts
<1>5. r.mints > 1 /\ r.swaps # <<>> /\ Len(r.swaps) <= MAX_SWAPS /\ r.mints <= MAX_MINTS
  BY <1>1, <1>3
<1>6. ~(Len(r.remaining) < 2 * r.mints)
  BY <1>1, <1>3
<1>7. r.swaps[1].from = 0 /\ \A k \in 1..Len(r.swaps) : /\ ~(r.swaps[k].from >= r.mints)
                                                        /\ ~(r.swaps[k].to >= r.mints)
  BY <1>1, <1>2, <1>3
<1>8. HasDecimals(world, MintAt(r, 0)) /\ HasDecimals(world, MintAt(r, OutIndex(r)))
  <2>1. 0 \in 0..(Len(ms) - 1) /\ Len(ls) \in 0..(Len(ms) - 1)
    BY <1>1
  <2>2. QED
    BY <1>1, <1>4, <2>1 DEF HasDecimals
<1>9. ~(r.mints <= 1) /\ ~(Len(r.swaps) > MAX_SWAPS) /\ ~(r.mints > MAX_MINTS)
  BY <1>1, <1>3
<1>10. QED
  BY <1>3, <1>5, <1>6, <1>7, <1>8, <1>9 DEF Validation

\* What a route in flight looks like to the program.
LEMMA RunFacts ==
  ASSUME NEW ms, NEW keys, NEW off, Runs(ms, keys, off)
  PROVE  /\ req.mints = Len(ms) /\ req.token_ledger = NoLedger
         /\ Len(req.swaps) = Len(sent) /\ Len(req.remaining) = 2 * Len(ms) + Len(keys)
         /\ \A i \in RouteIndexes(req) :
              /\ ms[i + 1] \in Mints /\ Ata(req, i) = Pda(ms[i + 1]) /\ MintAt(req, i) = ms[i + 1]
  <1>1. Built(ms, sent, keys, off) /\ Len(sent) + 1 = Len(ms) /\ req = Assembled(ms, sent, keys)
    BY DEF Runs
  <1>2. /\ req.mints = Len(ms) /\ req.token_ledger = NoLedger
        /\ Len(req.swaps) = Len(sent) /\ Len(req.remaining) = 2 * Len(ms) + Len(keys)
    BY <1>1, AssembledFacts
  <1>3. \A i \in 0..(Len(ms) - 1) :
              /\ ms[i + 1] \in Mints /\ Ata(req, i) = Pda(ms[i + 1]) /\ MintAt(req, i) = ms[i + 1]
    BY <1>1, AssembledFacts
  <1>4. QED
    BY <1>2, <1>3 DEF RouteIndexes

\* Its next leg, and where the accounts of this one and of the next begin.
LEMMA LegInFlight ==
  ASSUME NEW ms, NEW keys, NEW off, Runs(ms, keys, off), pc = "legs",
         leg <= Len(req.swaps), NEW s, s = req.swaps[leg]
  PROVE  /\ leg \in 1..Len(sent) /\ Len(sent) \in Nat /\ Len(ms) \in Nat
         /\ s.from = leg - 1 /\ s.to = leg /\ s.n_accounts = Len(sent[leg].accounts)
         /\ s.n_accounts \in Nat /\ s.n_accounts > 7
         /\ remaining_account_index = 2 * Len(ms) + off[leg]
         /\ off[leg] \in Nat /\ off[leg + 1] = off[leg] + s.n_accounts
         /\ off[leg + 1] <= Len(keys)
         /\ LegError(req, s) = "ok"
<1>1. /\ Built(ms, sent, keys, off) /\ Len(sent) + 1 = Len(ms) /\ req = Assembled(ms, sent, keys)
      /\ leg \in 1..(Len(sent) + 1) /\ remaining_account_index = 2 * Len(ms) + off[leg]
  BY DEF Runs, BeforePayout
<1>2. /\ Len(ms) \in Nat /\ Len(sent) \in Nat /\ Len(sent) >= 1 /\ Len(keys) \in Nat
      /\ PathSwaps(req, sent)
  BY <1>1, SwapFacts
<1>3. Len(req.swaps) = Len(sent) /\ Len(req.remaining) = 2 * Len(ms) + Len(keys)
  BY RunFacts
<1>4. leg \in 1..Len(sent)
  BY <1>1, <1>2, <1>3
<1>5. /\ s.from = leg - 1 /\ s.to = leg /\ s.n_accounts = Len(sent[leg].accounts)
      /\ s.n_accounts \in Nat /\ s.n_accounts > 7
  BY <1>2, <1>4 DEF PathSwaps
<1>6. /\ off \in [1..(Len(sent) + 1) -> Nat]
      /\ \A k \in 1..Len(sent) : off[k + 1] = off[k] + Len(sent[k].accounts) /\ off[k + 1] <= Len(keys)
  BY <1>1 DEF Built, Offsets
<1>7. off[leg] \in Nat /\ off[leg + 1] = off[leg] + s.n_accounts /\ off[leg + 1] <= Len(keys)
  BY <1>1, <1>4, <1>5, <1>6
<1>8. LegError(req, s) = "ok"
  <2>1. s.n_accounts # 0
    BY <1>5
  <2>2. ~(remaining_account_index + s.n_accounts > Len(req.remaining))
    <3>1. PICK n, m, o, a, rem : /\ n = Len(ms) /\ m = Len(keys) /\ o = off[leg]
                                 /\ a = s.n_accounts /\ rem = Len(req.remaining)
      OBVIOUS
    <3>2. /\ n \in Nat /\ m \in Nat /\ o \in Nat /\ a \in Nat /\ o + a <= m
          /\ rem = 2 * n + m /\ remaining_account_index = 2 * n + o
      BY <1>1, <1>2, <1>3, <1>5, <1>7, <3>1
    <3>3. ~(remaining_account_index + a > rem)
      BY <3>2
    <3>4. QED
      BY <3>1, <3>3
  <2>3. QED
    BY <2>1, <2>2 DEF LegError
<1>9. QED
  BY <1>1, <1>2, <1>4, <1>5, <1>7, <1>8

\* A step of the program that stays at its leg.
LEMMA StayKeeps ==
  ASSUME RunInv, UNCHANGED <<req, sent, leg, remaining_account_index>>, pc \in InTransaction,
         pc' \in BeforePayout => pc \in BeforePayout, pc' # "snapshot"
  PROVE  RunInv'
<1>1. PICK ms, keys, off : Runs(ms, keys, off)
  BY DEF RunInv
<1>2. Runs(ms, keys, off)'
  BY <1>1 DEF Runs
<1>3. QED
  BY <1>2 DEF RunInv

\* An error that is not about the form of the route.
LEMMA AbortKeeps ==
  ASSUME NEW e, Abort(e), e \notin {"InvalidSwapInput", "MissingRemainingAccount",
                                    "InvalidAccountData"}
  PROVE  RunInv' /\ ResultInv'
  BY DEF Abort, Return, RunInv, ResultInv, InTransaction

LEMMA InitializeKeeps == RunInv /\ ResultInv /\ UNCHANGED sent /\ Initialize => RunInv' /\ ResultInv'
<1>1. SUFFICES ASSUME RunInv, ResultInv, UNCHANGED sent, Initialize PROVE RunInv' /\ ResultInv'
  OBVIOUS
<1>2. pc = "idle" /\ pc' = "idle" /\ result' = result
  BY <1>1 DEF Initialize
<1>3. QED
  BY <1>1, <1>2 DEF RunInv, ResultInv, InTransaction

\* Every route account exists, or is created.
LEMMA CreateAtasKeeps ==
  ASSUME IInv, RunInv, ResultInv, UNCHANGED sent, CreateAtas
  PROVE  RunInv' /\ ResultInv'
<1>1. CASE Abort("CpiFailed")
  BY <1>1, AbortKeeps
<1>2. CASE ~Abort("CpiFailed")
  <2>1. /\ pc = "atas" /\ pc' = "snapshot"
        /\ UNCHANGED <<req, leg, remaining_account_index, result>>
        /\ world' = [world EXCEPT !.open = @ \cup {Ata(req, i) : i \in MissingAtas(req, world)}]
    BY <1>2 DEF CreateAtas
  <2>2. PICK ms, keys, off : Runs(ms, keys, off)
    BY <2>1 DEF RunInv, InTransaction, Stages
  <2>3. Runs(ms, keys, off)'
    BY <2>1, <2>2 DEF Runs, BeforePayout
  <2>4. \A i \in RouteIndexes(req) : Ata(req, i) \in Accounts
    BY <2>2, RunFacts, KeyFacts
  <2>5. world \in World
    BY DEF IInv, TypeOK
  <2>6. world'.open = world.open \cup {Ata(req, i) : i \in MissingAtas(req, world)}
    BY <2>1, <2>5 DEF World
  <2>7. \A i \in RouteIndexes(req) : Ata(req, i) \in world'.open
    BY <2>4, <2>6 DEF MissingAtas
  <2>8. \A i \in RouteIndexes(req') : Ata(req', i) \in world'.open
    BY <2>1, <2>7
  <2>9. QED
    BY <2>1, <2>3, <2>8 DEF RunInv, ResultInv
<1>3. QED
  BY <1>1, <1>2

\* Every route account is the TitanPDA's.
LEMMA TakeSnapshotKeeps ==
  ASSUME IInv, RunInv, ResultInv, UNCHANGED sent, TakeSnapshot
  PROVE  RunInv' /\ ResultInv'
<1>1. pc = "snapshot"
  BY DEF TakeSnapshot
<1>2. PICK ms, keys, off : Runs(ms, keys, off)
  BY <1>1 DEF RunInv, InTransaction, Stages
<1>3. \A i \in RouteIndexes(req) : Ata(req, i) = Pda(ms[i + 1])
  BY <1>2, RunFacts
<1>4. \A i \in RouteIndexes(req) : Ata(req, i) \in world.open
  BY <1>1 DEF RunInv
<1>5. \A i \in RouteIndexes(req) : is_titan_pda_token_account(world, Ata(req, i))
  BY <1>3, <1>4 DEF is_titan_pda_token_account, Pda
<1>6. /\ pc' = "fund" /\ UNCHANGED <<req, leg, remaining_account_index, result>>
  BY <1>5 DEF TakeSnapshot
<1>7. RunInv'
  BY <1>1, <1>6, StayKeeps DEF InTransaction, Stages, BeforePayout
<1>8. QED
  BY <1>6, <1>7 DEF ResultInv

\* A built route declares its amount.
LEMMA FundKeeps ==
  ASSUME IInv, RunInv, ResultInv, UNCHANGED sent, Fund
  PROVE  RunInv' /\ ResultInv'
<1>1. pc = "fund"
  BY DEF Fund
<1>2. PICK ms, keys, off : Runs(ms, keys, off)
  BY <1>1 DEF RunInv, InTransaction, Stages
<1>3. EffectiveAmountOk(req, world)
  BY <1>2, RunFacts DEF EffectiveAmountOk
<1>4. CASE Abort("CpiFailed")
  BY <1>4, AbortKeeps
<1>5. CASE ~Abort("CpiFailed")
  <2>1. pc' = "legs" /\ UNCHANGED <<req, leg, remaining_account_index, result>>
    BY <1>3, <1>5 DEF Fund
  <2>2. RunInv'
    BY <1>1, <2>1, StayKeeps DEF InTransaction, Stages, BeforePayout
  <2>3. QED
    BY <2>1, <2>2 DEF ResultInv
<1>6. QED
  BY <1>4, <1>5

\* A leg uses up exactly the accounts that were built for it.
LEMMA SwapLegKeeps ==
  ASSUME IInv, RunInv, ResultInv, UNCHANGED sent, SwapLeg
  PROVE  RunInv' /\ ResultInv'
<1>1. pc = "legs" /\ leg <= Len(req.swaps)
  BY DEF SwapLeg
<1>2. PICK ms, keys, off : Runs(ms, keys, off)
  BY <1>1 DEF RunInv, InTransaction, Stages
<1>3. PICK s : s = req.swaps[leg]
  OBVIOUS
<1>4. /\ leg \in 1..Len(sent) /\ Len(sent) \in Nat /\ Len(ms) \in Nat
      /\ s.n_accounts \in Nat
      /\ remaining_account_index = 2 * Len(ms) + off[leg]
      /\ off[leg] \in Nat /\ off[leg + 1] = off[leg] + s.n_accounts
  BY <1>1, <1>2, <1>3, LegInFlight
<1>5. LegError(req, s) = "ok"
  BY <1>1, <1>2, <1>3, LegInFlight
<1>6. CASE Abort("CpiFailed")
  BY <1>6, AbortKeeps
<1>7. CASE ~Abort("CpiFailed")
  <2>1. /\ leg' = leg + 1 /\ remaining_account_index' = remaining_account_index + s.n_accounts
        /\ UNCHANGED <<pc, req, result>>
    BY <1>3, <1>5, <1>7 DEF SwapLeg
  <2>2. leg' \in 1..(Len(sent) + 1) /\ remaining_account_index' = 2 * Len(ms) + off[leg']
    BY <1>4, <2>1
  <2>3. Runs(ms, keys, off)'
    BY <1>2, <2>1, <2>2 DEF Runs
  <2>4. QED
    BY <1>1, <2>1, <2>3 DEF RunInv, ResultInv
<1>8. QED
  BY <1>6, <1>7

\* The end of the route has nothing to do with its form.
LEMMA LastStepsKeep ==
  ASSUME RunInv, ResultInv, UNCHANGED sent, LegsDone \/ Payout \/ CloseAtas \/ FinalCheck
  PROVE  RunInv' /\ ResultInv'
<1>1. CASE Abort("CpiFailed") \/ Abort("ReservedBalanceViolation")
  BY <1>1, AbortKeeps
<1>2. CASE Return("ok")
  BY <1>2 DEF Return, RunInv, ResultInv, InTransaction
<1>3. CASE /\ pc \in {"legs", "payout", "close"} /\ pc' \in {"payout", "close", "check"}
           /\ UNCHANGED <<req, leg, remaining_account_index, result>>
  <2>1. pc \in InTransaction /\ pc' \notin BeforePayout /\ pc' # "snapshot"
    BY <1>3 DEF InTransaction, Stages, BeforePayout
  <2>2. RunInv'
    BY <1>3, <2>1, StayKeeps
  <2>3. QED
    BY <1>3, <2>2 DEF ResultInv
<1>4. CASE LegsDone
  BY <1>3, <1>4 DEF LegsDone
<1>5. CASE Payout
  BY <1>1, <1>3, <1>5 DEF Payout
<1>6. CASE CloseAtas
  BY <1>3, <1>6 DEF CloseAtas
<1>7. CASE FinalCheck
  BY <1>1, <1>2, <1>7 DEF FinalCheck
<1>8. QED
  BY <1>4, <1>5, <1>6, <1>7

\* The program meets a built route at its first leg.
LEMMA SendKeeps ==
  ASSUME IInv, BuildInv, RunInv, ResultInv, SendRoute
  PROVE  IInv' /\ RunInv' /\ ResultInv'
<1>1. PICK r : r = Assembled(path, legs, leg_keys)
  OBVIOUS
<1>2. /\ path # <<>> /\ Len(legs) + 1 = Len(path) /\ Submit(r) /\ sent' = legs
      /\ 2 * Len(path) + Len(leg_keys) <= BITMAP_BITS
  BY <1>1 DEF SendRoute
<1>3. PICK ms, ls, keys : ms = path /\ ls = legs /\ keys = leg_keys
  OBVIOUS
<1>4. PICK off : Built(ms, ls, keys, off)
  BY <1>2, <1>3 DEF BuildInv
<1>5. Len(ls) + 1 = Len(ms) /\ r = Assembled(ms, ls, keys) /\ sent' = ls
  BY <1>1, <1>2, <1>3
<1>6. r \in Request /\ r.mints = Len(ms) /\ Len(r.remaining) = 2 * Len(ms) + Len(keys)
  BY <1>4, <1>5, AssembledFacts
<1>7. Len(r.remaining) <= BITMAP_BITS
  BY <1>2, <1>3, <1>6
<1>8. IInv'
  BY <1>2, <1>6, <1>7, SubmitInv
<1>9. Validation(r) \in {"ok", "AccountNotInitialized"}
  BY <1>4, <1>5, WellFormed
<1>10. ResultInv'
  BY <1>2, <1>9 DEF Submit, ResultInv
<1>11. CASE Validation(r) = "ok"
  <2>1. pc' = "atas" /\ req' = r /\ leg' = 1 /\ remaining_account_index' = 2 * r.mints
    BY <1>2, <1>11 DEF Submit
  <2>2. Len(ms) \in Nat /\ Len(ls) \in Nat
    BY <1>4, <1>5, SwapFacts
  <2>3. off[1] = 0
    BY <1>4 DEF Built, Offsets
  <2>4. leg' \in 1..(Len(ls) + 1) /\ remaining_account_index' = 2 * Len(ms) + off[leg']
    BY <1>6, <2>1, <2>2, <2>3
  <2>5. Runs(ms, keys, off)'
    BY <1>4, <1>5, <2>1, <2>4 DEF Runs
  <2>6. QED
    BY <1>8, <1>10, <2>1, <2>5 DEF RunInv
<1>12. CASE Validation(r) # "ok"
  <2>1. pc' = "idle"
    BY <1>2, <1>12 DEF Submit
  <2>2. QED
    BY <1>8, <1>10, <2>1 DEF RunInv, InTransaction
<1>13. QED
  BY <1>11, <1>12

-----------------------------------------------------------------------------
\* Venues, epochs and the router start from nothing.
THEOREM ClientInitInv == ClientInit => CInv
<1>1. SUFFICES ASSUME ClientInit PROVE CInv
  OBVIOUS
<1>2. IInv
  BY <1>1, InitInv DEF ClientInit
<1>3. TokenInv
  <2>1. epoch \in Nat /\ fee_config \in [FeeMints -> [older : Nat, newer : Nat, since : Nat]]
    BY <1>1 DEF ClientInit
  <2>2. DOMAIN token_info = DOMAIN Pools /\ initialized \in [DOMAIN Pools -> BOOLEAN]
    BY <1>1 DEF ClientInit
  <2>3. ASSUME NEW p \in DOMAIN Pools, NEW i \in 1..2
        PROVE  token_info[p][i].pubkey = Pools[p].mints[i] /\ ~initialized[p]
    BY <1>1 DEF ClientInit, base_token_info
  <2>4. QED
    BY <2>1, <2>2, <2>3 DEF TokenInv
<1>4. BuildInv
  BY <1>1 DEF ClientInit, BuildInv
<1>5. RunInv /\ ResultInv
  BY <1>1 DEF ClientInit, Init, RunInv, ResultInv, InTransaction
<1>6. QED
  BY <1>2, <1>3, <1>4, <1>5 DEF CInv

\* Every step of the market, the venues, the router and the program keeps the
\* invariant.
THEOREM ClientNextInv == CInv /\ [ClientNext]_allVars => CInv'
<1>1. SUFFICES ASSUME CInv, [ClientNext]_allVars PROVE CInv'
  OBVIOUS
<1>2. IInv /\ TokenInv /\ BuildInv /\ RunInv /\ ResultInv
  BY <1>1 DEF CInv
<1>3. TokenInv' /\ BuildInv'
  BY <1>1, <1>2, TokenKeeps, BuildKeeps
<1>4. CASE UNCHANGED <<vars, sent>>
  <2>1. IInv'
    BY <1>2, <1>4, StutterInv
  <2>2. UNCHANGED <<pc, req, sent, leg, remaining_account_index, world, result>>
    BY <1>4 DEF vars
  <2>3. CASE pc \in InTransaction
    <3>1. PICK ms, keys, off : Runs(ms, keys, off)
      BY <1>2, <2>3 DEF RunInv
    <3>2. Runs(ms, keys, off)'
      BY <2>2, <3>1 DEF Runs
    <3>3. QED
      BY <1>2, <1>3, <2>1, <2>2, <3>2 DEF CInv, RunInv, ResultInv
  <2>4. CASE pc \notin InTransaction
    BY <1>2, <1>3, <2>1, <2>2, <2>4 DEF CInv, RunInv, ResultInv, InTransaction, Stages
  <2>5. QED
    BY <2>3, <2>4
<1>5. CASE SendRoute
  BY <1>2, <1>3, <1>5, SendKeeps DEF CInv
<1>6. CASE ProgramStep
  <2>1. UNCHANGED sent
    BY <1>6 DEF ProgramStep, clientVars
  <2>2. IInv'
    BY <1>2, <1>6, InitializeInv, CreateAtasInv, TakeSnapshotInv, FundInv, SwapLegInv,
       LegsDoneInv, PayoutInv, CloseAtasInv, FinalCheckInv DEF ProgramStep
  <2>3. RunInv' /\ ResultInv'
    BY <1>2, <1>6, <2>1, InitializeKeeps, CreateAtasKeeps, TakeSnapshotKeeps, FundKeeps,
       SwapLegKeeps, LastStepsKeep DEF ProgramStep
  <2>4. QED
    BY <1>3, <2>2, <2>3 DEF CInv
<1>7. QED
  BY <1>1, <1>4, <1>5, <1>6
     DEF ClientNext, allVars, clientVars, NextEpoch, SetTransferFee, UpdateState, ChoosePath,
         build_swap_leg

\* The invariant of the market, the venues, the router and the program holds in
\* every reachable state.
THEOREM ClientInvariance == ClientSpec => []CInv
  BY ClientInitInv, ClientNextInv, PTL DEF ClientSpec

-----------------------------------------------------------------------------
\* What lies between two positions of a sequence.
LEMMA CutOut ==
  ASSUME NEW rem \in Seq(Key), NEW ks \in Seq(Key), NEW o \in Nat,
         o + Len(ks) <= Len(rem), \A i \in 1..Len(ks) : rem[o + i] = ks[i]
  PROVE  SubSeq(rem, o + 1, o + Len(ks)) = ks
<1>1. PICK n : n = Len(ks)
  OBVIOUS
<1>2. n \in Nat /\ o + 1 \in Int /\ o + n \in Int
  BY <1>1, LenProperties
<1>3. \A i \in (o + 1)..(o + n) : rem[i] \in Key
  BY <1>1, <1>2, ElementOfSeq
<1>4. PICK cut : cut = SubSeq(rem, o + 1, o + n)
  OBVIOUS
<1>5. /\ cut \in Seq(Key) /\ Len(cut) = IF o + 1 <= o + n THEN o + n - (o + 1) + 1 ELSE 0
      /\ \A i \in 1..(o + n - (o + 1) + 1) : cut[i] = rem[o + 1 + i - 1]
  BY <1>2, <1>3, <1>4, SubSeqProperties
<1>6. Len(cut) = n
  BY <1>2, <1>5
<1>7. \A i \in 1..n : cut[i] = ks[i]
  <2>1. SUFFICES ASSUME NEW i \in 1..n PROVE cut[i] = ks[i]
    OBVIOUS
  <2>2. i \in 1..(o + n - (o + 1) + 1) /\ o + 1 + i - 1 = o + i
    BY <1>2
  <2>3. QED
    BY <1>1, <1>5, <2>2
<1>8. cut = ks
  BY <1>1, <1>5, <1>6, <1>7, SeqEqual
<1>9. QED
  BY <1>1, <1>4, <1>8

\* The leg about to be executed: its accounts are the ones that were built for
\* its hop of the path.
OnPath(ms) ==
  /\ Slice = Keys(sent[leg].accounts) /\ GoodLeg(sent[leg], leg, ms)
  /\ req.swaps[leg].from = leg - 1 /\ req.swaps[leg].to = leg
  /\ Ata(req, leg - 1) = Pda(ms[leg]) /\ MintAt(req, leg - 1) = ms[leg]
  /\ Ata(req, leg) = Pda(ms[leg + 1]) /\ MintAt(req, leg) = ms[leg + 1]

LEMMA ExecutingOnPath ==
  ASSUME IInv, RunInv, Executing
  PROVE  \E ms : OnPath(ms)
<1>1. pc = "legs" /\ leg <= Len(req.swaps)
  BY DEF Executing
<1>2. PICK ms, keys, off : Runs(ms, keys, off)
  BY <1>1 DEF RunInv, InTransaction, Stages
<1>3. PICK s, o, accounts : s = req.swaps[leg] /\ o = remaining_account_index
                              /\ accounts = sent[leg].accounts
  OBVIOUS
<1>4. /\ leg \in 1..Len(sent) /\ Len(sent) \in Nat /\ Len(ms) \in Nat
      /\ s.from = leg - 1 /\ s.to = leg /\ s.n_accounts = Len(sent[leg].accounts)
      /\ s.n_accounts \in Nat
      /\ o = 2 * Len(ms) + off[leg]
      /\ off[leg] \in Nat /\ off[leg + 1] = off[leg] + s.n_accounts
      /\ off[leg + 1] <= Len(keys)
  BY <1>1, <1>2, <1>3, LegInFlight
<1>5. /\ Built(ms, sent, keys, off) /\ Len(sent) + 1 = Len(ms) /\ req = Assembled(ms, sent, keys)
  BY <1>2 DEF Runs
<1>6. GoodLeg(sent[leg], leg, ms)
  BY <1>4, <1>5 DEF Built
<1>7. accounts \in Seq(AccountMeta)
  BY <1>3, <1>6 DEF GoodLeg, GoodAccounts
<1>8. PICK ks : ks = Keys(accounts)
  OBVIOUS
<1>9. /\ ks \in Seq(Key) /\ Len(ks) = Len(accounts)
      /\ \A i \in 1..Len(accounts) : ks[i] = accounts[i].key
  BY <1>7, <1>8, KeysFacts
<1>10. \A i \in 1..Len(accounts) : keys[off[leg] + i] = accounts[i].key
  BY <1>3, <1>4, <1>5 DEF Built, Offsets
<1>11. \A j \in 1..Len(keys) : req.remaining[2 * Len(ms) + j] = keys[j]
  BY <1>5, AssembledFacts
<1>12. Len(req.remaining) = 2 * Len(ms) + Len(keys) /\ Len(keys) \in Nat
  BY <1>2, <1>5, RunFacts, SwapFacts
<1>13. PICK n, d, m, rem : n = Len(accounts) /\ d = off[leg] /\ m = 2 * Len(ms) /\ rem = req.remaining
  OBVIOUS
<1>14. n \in Nat /\ d \in Nat /\ m \in Nat /\ o = m + d /\ d + n <= Len(keys)
  BY <1>3, <1>4, <1>13
<1>15. rem \in Seq(Key)
  BY <1>13, RequestTypes DEF IInv, TypeOK
<1>16. \A i \in 1..Len(ks) : rem[o + i] = ks[i]
  <2>1. SUFFICES ASSUME NEW i \in 1..n PROVE rem[o + i] = ks[i]
    BY <1>9, <1>13
  <2>2. d + i \in 1..Len(keys) /\ m + (d + i) = o + i
    BY <1>12, <1>14
  <2>3. rem[m + (d + i)] = keys[d + i]
    BY <1>11, <1>13, <2>2
  <2>4. keys[d + i] = ks[i]
    BY <1>9, <1>10, <1>13
  <2>5. QED
    BY <2>2, <2>3, <2>4
<1>17. o \in Nat /\ o + Len(ks) <= Len(rem)
  <2>1. Len(ks) = n /\ Len(rem) = m + Len(keys) /\ Len(keys) \in Nat
    BY <1>9, <1>12, <1>13
  <2>2. PICK l : l = Len(keys)
    OBVIOUS
  <2>3. o \in Nat /\ o + n <= m + l
    BY <1>14, <2>1, <2>2
  <2>4. QED
    BY <2>1, <2>2, <2>3
<1>18. SubSeq(rem, o + 1, o + Len(ks)) = ks
  BY <1>9, <1>15, <1>16, <1>17, CutOut
<1>19. Slice = Keys(sent[leg].accounts)
  BY <1>3, <1>4, <1>8, <1>9, <1>13, <1>18 DEF Slice
<1>20. leg - 1 \in RouteIndexes(req) /\ leg \in RouteIndexes(req)
  <2>1. req.mints = Len(ms)
    BY <1>2, RunFacts
  <2>2. QED
    BY <1>4, <1>5, <2>1 DEF RouteIndexes
<1>21. /\ Ata(req, leg - 1) = Pda(ms[leg]) /\ MintAt(req, leg - 1) = ms[leg]
       /\ Ata(req, leg) = Pda(ms[leg + 1]) /\ MintAt(req, leg) = ms[leg + 1]
  <2>1. \A i \in RouteIndexes(req) :
          /\ ms[i + 1] \in Mints /\ Ata(req, i) = Pda(ms[i + 1]) /\ MintAt(req, i) = ms[i + 1]
    BY <1>2, RunFacts
  <2>2. leg - 1 + 1 = leg
    BY <1>4
  <2>3. QED
    BY <1>20, <2>1, <2>2
<1>22. OnPath(ms)
  BY <1>3, <1>4, <1>6, <1>19, <1>21 DEF OnPath
<1>23. QED
  BY <1>22

\* The program cuts exactly the accounts of the built legs out of the
\* remaining accounts, for legs of any lengths.
THEOREM SlicesCutLegs == ClientSpec => []SlicesAreLegs
<1>1. CInv => SlicesAreLegs
  <2>1. SUFFICES ASSUME CInv, Executing
                 PROVE  Slice = Keys(sent[leg].accounts) /\ Slice[Len(Slice)] = ProgramId
    BY DEF SlicesAreLegs
  <2>2. PICK ms : OnPath(ms)
    BY <2>1, ExecutingOnPath DEF CInv
  <2>3. PICK accounts, ks : accounts = sent[leg].accounts /\ ks = Keys(accounts)
    OBVIOUS
  <2>4. /\ Slice = ks /\ accounts \in Seq(AccountMeta) /\ Len(accounts) > 7
        /\ accounts[Len(accounts)].key = ProgramId
    BY <2>2, <2>3 DEF OnPath, GoodLeg, GoodAccounts
  <2>5. Len(ks) = Len(accounts) /\ \A i \in 1..Len(accounts) : ks[i] = accounts[i].key
    BY <2>3, <2>4, KeysFacts
  <2>6. Len(accounts) \in 1..Len(accounts)
    BY <2>4, LenProperties
  <2>7. QED
    BY <2>3, <2>4, <2>5, <2>6
<1>2. QED
  BY <1>1, ClientInvariance, PTL

\* Each leg trades the token accounts of its own route indexes against the
\* vaults of the same mints, in the direction zero_for_one says.
THEOREM LegsTradeTheirHop == ClientSpec => []LegsTradeRouteAccounts
<1>1. CInv => LegsTradeRouteAccounts
  <2>1. SUFFICES ASSUME CInv, Executing PROVE LegsTradeRouteAccounts
    BY DEF LegsTradeRouteAccounts
  <2>2. PICK ms : OnPath(ms)
    BY <2>1, ExecutingOnPath DEF CInv
  <2>3. PICK accounts, ks : accounts = sent[leg].accounts /\ ks = Keys(accounts)
    OBVIOUS
  <2>4. /\ Slice = ks /\ accounts \in Seq(AccountMeta) /\ Len(accounts) > 7
        /\ accounts[4].key = Pda(ms[leg]) /\ accounts[5].key = Pda(ms[leg + 1])
        /\ accounts[6].key = Vault(ms[leg]) /\ accounts[7].key = Vault(ms[leg + 1])
    BY <2>2, <2>3 DEF OnPath, GoodLeg, GoodAccounts
  <2>5. \A i \in 1..Len(accounts) : ks[i] = accounts[i].key
    BY <2>3, <2>4, KeysFacts
  <2>6. 4 \in 1..Len(accounts) /\ 5 \in 1..Len(accounts) /\ 6 \in 1..Len(accounts)
          /\ 7 \in 1..Len(accounts)
    BY <2>4, LenProperties
  <2>7. /\ Slice[4] = Pda(ms[leg]) /\ Slice[5] = Pda(ms[leg + 1])
        /\ Slice[6] = Vault(ms[leg]) /\ Slice[7] = Vault(ms[leg + 1])
    BY <2>4, <2>5, <2>6
  <2>8. PICK from, to : from = req.swaps[leg].from /\ to = req.swaps[leg].to
    OBVIOUS
  <2>9. /\ Ata(req, from) = Pda(ms[leg]) /\ MintAt(req, from) = ms[leg]
        /\ Ata(req, to) = Pda(ms[leg + 1]) /\ MintAt(req, to) = ms[leg + 1]
    BY <2>2, <2>8 DEF OnPath
  <2>10. \E p \in DOMAIN Pools :
           Pools[p].mints = IF sent[leg].zero_for_one THEN <<ms[leg], ms[leg + 1]>>
                                                      ELSE <<ms[leg + 1], ms[leg]>>
    BY <2>2 DEF OnPath, GoodLeg
  <2>11. QED
    BY <2>7, <2>8, <2>9, <2>10 DEF LegsTradeRouteAccounts
<1>2. QED
  BY <1>1, ClientInvariance, PTL

\* No leg moves a mint that withholds a fee when it executes: a venue that
\* knows its tokens refuses every mint with the extension, whatever its fee.
THEOREM FaceValue == ClientSpec => []NoFeeWithheld
<1>1. CInv => NoFeeWithheld
  <2>1. SUFFICES ASSUME CInv, Executing PROVE NoFeeWithheld
    BY DEF NoFeeWithheld
  <2>2. PICK ms : OnPath(ms)
    BY <2>1, ExecutingOnPath DEF CInv
  <2>3. PICK from, to : from = req.swaps[leg].from /\ to = req.swaps[leg].to
    OBVIOUS
  <2>4. MintAt(req, from) \notin FeeMints /\ MintAt(req, to) \notin FeeMints
    BY <2>2, <2>3 DEF OnPath, GoodLeg
  <2>5. QED
    BY <2>3, <2>4 DEF NoFeeWithheld
<1>2. QED
  BY <1>1, ClientInvariance, PTL

\* A route made of built legs is never refused for its form, and no account of
\* it asks for a signature.
THEOREM BuiltIsWellFormed == ClientSpec => []BuiltRoutesAreWellFormed
<1>1. CInv => BuiltRoutesAreWellFormed
  <2>1. SUFFICES ASSUME CInv
                 PROVE  \A k \in DOMAIN legs : \A i \in DOMAIN legs[k].accounts :
                          ~legs[k].accounts[i].signer
    BY DEF BuiltRoutesAreWellFormed, CInv, ResultInv
  <2>2. CASE path = <<>>
    <3>1. legs = <<>>
      BY <2>1, <2>2 DEF CInv, BuildInv
    <3>2. QED
      BY <3>1
  <2>3. CASE path # <<>>
    <3>1. PICK off : Built(path, legs, leg_keys, off)
      BY <2>1, <2>3 DEF CInv, BuildInv
    <3>2. DOMAIN legs = 1..Len(legs)
      BY <3>1, LenProperties DEF Built
    <3>3. QED
      BY <3>1, <3>2 DEF Built, GoodLeg, GoodAccounts
  <2>4. QED
    BY <2>2, <2>3
<1>2. QED
  BY <1>1, ClientInvariance, PTL

\* What the router and the program do together is what the program does with
\* some requests: where Requests admits every instruction that fits, all that
\* is proved of the program holds for built routes too.
THEOREM ClientImplementsProgram ==
  ASSUME \A r \in Request : Len(r.remaining) <= BITMAP_BITS => r \in Requests
  PROVE  ClientSpec => Spec
<1>1. ClientInit => Init
  BY DEF ClientInit
<1>2. CInv /\ [ClientNext]_allVars => [Next]_vars
  <2>1. SUFFICES ASSUME CInv, [ClientNext]_allVars PROVE [Next]_vars
    OBVIOUS
  <2>2. CASE SendRoute
    <3>1. PICK r : r = Assembled(path, legs, leg_keys)
      OBVIOUS
    <3>2. /\ path # <<>> /\ Len(legs) + 1 = Len(path) /\ Submit(r)
          /\ 2 * Len(path) + Len(leg_keys) <= BITMAP_BITS
      BY <2>2, <3>1 DEF SendRoute
    <3>3. PICK off : Built(path, legs, leg_keys, off)
      BY <2>1, <3>2 DEF CInv, BuildInv
    <3>4. r \in Request /\ Len(r.remaining) = 2 * Len(path) + Len(leg_keys)
      BY <3>1, <3>2, <3>3, AssembledFacts
    <3>5. r \in Requests
      BY <3>2, <3>4
    <3>6. QED
      BY <3>2, <3>5 DEF Next
  <2>3. CASE ProgramStep
    BY <2>3 DEF ProgramStep, Next
  <2>4. CASE UNCHANGED vars
    BY <2>4
  <2>5. QED
    BY <2>1, <2>2, <2>3, <2>4
       DEF ClientNext, allVars, NextEpoch, SetTransferFee, UpdateState, ChoosePath, build_swap_leg
<1>3. QED
  BY <1>1, <1>2, ClientInvariance, PTL DEF ClientSpec, Spec
=============================================================================
