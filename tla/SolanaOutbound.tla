--------------------------- MODULE SolanaOutbound ---------------------------
(***************************************************************************)
(* The outbound half of the Solana program swap_layer: a sender stages a   *)
(* transfer (stage_outbound), anyone initiates it as a plain USDC transfer *)
(* (initiate_transfer) or as a swap into USDC (initiate_swap_exact_in), or *)
(* the sender cancels it (close_staged_outbound).  Every instruction is    *)
(* atomic: it runs to its end or the transaction is undone, so each is one *)
(* action whose guard collects the account constraints and require!s.      *)
(*                                                                         *)
(* External and modelled from its use: SPL Token (balances, delegates,     *)
(* close), Jupiter (an exchange of any rate the limits admit) and the      *)
(* Token Router (prepare_market_order, place_market_order).                *)
(***************************************************************************)
EXTENDS Integers, Sequences, FiniteSets

CONSTANTS
  Users,         \* wallets: senders, payers, relayers
  Jupiter,       \* the liquidity of the Jupiter pools
  Keys,          \* addresses of StagedOutbound accounts
  Chains,        \* Wormhole chain ids of registered peers
  Addresses,     \* 32-byte universal addresses
  ZeroAddress,   \* [0; 32]
  Quotes,        \* values calculate_relayer_fee returns
  NoQuote,       \* calculate_relayer_fee returns an error (relaying disabled)
  NoMin,         \* StagedOutboundInfo.min_amount_out = None
  Requests,      \* the StageOutboundArgs that callers pass
  Approvals,     \* the SPL approvals that token owners sign
  Nobody,        \* no delegate
  None,          \* a closed account
  Funds,         \* initial balance of every holder in every asset
  MaxStagings    \* bound: how many stagings a behaviour makes

Mints == {"usdc", "wsol", "spl", "t22"}
Assets == Mints \cup {"lamports"}
Holders == Users \cup {Jupiter}
Modes == {"Direct", "Relay", "Payload"}

ASSUME NaturalsAssumption ==
  Quotes \subseteq Nat \ {0} /\ Funds \in Nat /\ MaxStagings \in Nat

ASSUME NullsAssumption ==
  /\ NoQuote \notin Nat /\ NoMin \notin Nat
  /\ ZeroAddress \in Addresses
  /\ Nobody \notin Users \cup Requests /\ Users \cap Requests = {}
  /\ Jupiter \notin Users

(* StageOutboundArgs; maxFee is the max_relayer_fee of RedeemOption::Relay. *)
Request == [amountIn : Nat, minOut : Nat \cup {NoMin}, exactIn : BOOLEAN,
            chain : Chains, recipient : Addresses, redeem : Modes, maxFee : Nat]

(* The delegate of a token account: a wallet, or the program transfer       *)
(* authority, a PDA of the hash of one StageOutboundArgs.                   *)
Approval == [mint : Mints, delegate : Users \cup Request, amount : Nat]

ASSUME InputsAssumption ==
  Requests \subseteq Request /\ Approvals \subseteq Approval

VARIABLES
  wallet,      \* wallet[h][a]: balance of h in asset a
  delegation,  \* delegation[u][m]: delegate and delegated_amount of u's account
  peers,       \* peers[c]: the Peer account of chain c
  staged,      \* staged[k]: the StagedOutbound account
  custody,     \* custody[k]: the staged custody token account
  orders,      \* orders[k]: the prepared order derived from k
  placed,      \* the market orders placed on the liquidity layer
  deposits,    \* deposits[u]: account rents u has paid and not got back
  log          \* history: what was asked at each staging

vars == <<wallet, delegation, peers, staged, custody, orders, placed, deposits, log>>

------------------------------------------------------------------------------
(* The state of each account.                                               *)

Peer == [address : Addresses \ {ZeroAddress}, quote : Quotes \cup {NoQuote}]

Custody == [mint : Mints, chain : Chains, amount : Nat]

(* StagedRedeem: Direct, Relay with the fee quoted at staging, Payload.     *)
StagedRedeem == [mode : Modes, fee : Nat]
Direct == [mode |-> "Direct", fee |-> 0]

(* StagedOutbound; id is history, the index of its staging in log.          *)
Staged == [id : Nat, preparedBy : Users, sender : Users, refund : Users,
           chain : Chains, exactIn : BOOLEAN, recipient : Addresses,
           minOut : Nat \cup {NoMin}, redeem : StagedRedeem]

(* The market order and the SwapMessageV1 it carries.                       *)
Message == [recipient : Addresses, redeem : StagedRedeem, sender : Users]
Order == [id : Nat, amount : Nat, chain : Chains, refund : Users,
          redeemer : Addresses, msg : Message]

(* What a staging was asked for, and the amount put into custody.           *)
Entry == [args : Request, mint : Mints, sender : Users, refund : Users, put : Nat]

(* A closed account is none of the records.                                 *)
ASSUME NoneAssumption == None \notin Staged \cup Custody \cup Order

NoDelegation == [delegate |-> Nobody, amount |-> 0]

Init ==
  /\ wallet = [h \in Holders |-> [a \in Assets |-> Funds]]
  /\ delegation = [u \in Users |-> [m \in Mints |-> NoDelegation]]
  /\ peers \in [Chains -> Peer]
  /\ staged = [k \in Keys |-> None]
  /\ custody = [k \in Keys |-> None]
  /\ orders = [k \in Keys |-> None]
  /\ placed = <<>>
  /\ deposits = [u \in Users |-> 0]
  /\ log = <<>>

------------------------------------------------------------------------------
(* Ledger moves.                                                            *)

Credit(w, h, a, n) == [w EXCEPT ![h][a] = @ + n]
Debit(w, h, a, n) == [w EXCEPT ![h][a] = @ - n]

(* SPL Token 2022 is a program of its own.                                  *)
OwnedByTokenProgram(mint) == mint # "t22"

------------------------------------------------------------------------------
(* stage_outbound                                                           *)

Fee(r) == IF r.redeem = "Relay" THEN peers[r.chain].quote ELSE 0

(* Seeded fault: an amount equal to the fee is accepted.                    *)
RelayAcceptedAtFee(r, mint) ==
  r.redeem = "Relay" =>
    /\ Fee(r) # NoQuote
    /\ Fee(r) <= r.maxFee
    /\ (mint = "usdc" /\ r.exactIn) => r.amountIn >= Fee(r)
    /\ mint # "usdc" => r.minOut >= Fee(r)

(* Relay arguments: the quote within the sender's maximum and covered by    *)
(* what will arrive on the other side.                                      *)
RelayAccepted(r, mint) ==
  r.redeem = "Relay" =>
    /\ Fee(r) # NoQuote
    /\ Fee(r) <= r.maxFee
    /\ (mint = "usdc" /\ r.exactIn) => r.amountIn > Fee(r)
    /\ mint # "usdc" => r.minOut > Fee(r)

(* Seeded faults: an exact-out fee is not added, or is subtracted.          *)
TransferAmountWithoutFee(r, mint) == r.amountIn
TransferAmountLessFee(r, mint) ==
  IF r.redeem = "Relay" /\ mint = "usdc" /\ ~r.exactIn
  THEN r.amountIn - Fee(r) ELSE r.amountIn

TransferAmount(r, mint) ==
  IF r.redeem = "Relay" /\ mint = "usdc" /\ ~r.exactIn
  THEN r.amountIn + Fee(r) ELSE r.amountIn

ArgsAccepted(r, mint) ==
  /\ r.amountIn # 0
  /\ r.recipient # ZeroAddress
  /\ r.minOut # NoMin \/ mint = "usdc"
  /\ mint = "usdc" \/ r.exactIn
  /\ RelayAccepted(r, mint)

(* The accounts that stage_outbound opens for payer, and what it records.   *)
Open(k, payer, sender, refund, r, mint) ==
  /\ Len(log) < MaxStagings
  /\ staged[k] = None /\ custody[k] = None
  /\ ArgsAccepted(r, mint)
  /\ custody' = [custody EXCEPT ![k] =
       [mint |-> mint, chain |-> r.chain, amount |-> TransferAmount(r, mint)]]
  /\ staged' = [staged EXCEPT ![k] =
       [id |-> Len(log) + 1, preparedBy |-> payer, sender |-> sender,
        refund |-> refund, chain |-> r.chain, exactIn |-> r.exactIn,
        recipient |-> r.recipient, minOut |-> r.minOut,
        redeem |-> [mode |-> r.redeem, fee |-> Fee(r)]]]
  /\ deposits' = [deposits EXCEPT ![payer] = @ + 2]
  /\ log' = Append(log, [args |-> r, mint |-> mint, sender |-> sender,
                         refund |-> refund, put |-> TransferAmount(r, mint)])
  /\ UNCHANGED <<peers, orders, placed>>

(* The delegate spends n of owner's account; SPL forgets a delegate whose   *)
(* amount reaches zero.                                                     *)
SpendDelegation(owner, mint, n) ==
  LET left == delegation[owner][mint].amount - n IN
    delegation' = [delegation EXCEPT ![owner][mint] =
      IF left = 0 THEN NoDelegation ELSE [@ EXCEPT !.amount = left]]

(* sender_token with sender: the signer is the token account's owner, or    *)
(* its delegate within the delegated amount; either way it is the sender.   *)
StageBySender(k, payer, sender, owner, refund, mint, r) ==
  LET n == TransferAmount(r, mint) IN
  /\ Open(k, payer, sender, refund, r, mint)
  /\ wallet[owner][mint] >= n
  /\ IF delegation[owner][mint].delegate = sender
     THEN /\ delegation[owner][mint].amount >= n
          /\ SpendDelegation(owner, mint, n)
     ELSE /\ owner = sender
          /\ UNCHANGED delegation
  /\ wallet' = Debit(wallet, owner, mint, n)

(* Seeded fault: a larger delegation is accepted.                           *)
DelegatedToArgsAtLeast(owner, mint, r) ==
  /\ delegation[owner][mint].delegate = r
  /\ delegation[owner][mint].amount >= TransferAmount(r, mint)

(* The delegate is the authority of these arguments, for the exact amount.  *)
DelegatedToArgs(owner, mint, r) ==
  /\ delegation[owner][mint].delegate = r
  /\ delegation[owner][mint].amount = TransferAmount(r, mint)

(* sender_token with program_transfer_authority: no signature of the owner, *)
(* who approved the hash of these very arguments.                           *)
StageByAuthority(k, payer, owner, refund, mint, r) ==
  LET n == TransferAmount(r, mint) IN
  /\ Open(k, payer, owner, refund, r, mint)
  /\ wallet[owner][mint] >= n
  /\ DelegatedToArgs(owner, mint, r)
  /\ SpendDelegation(owner, mint, n)
  /\ wallet' = Debit(wallet, owner, mint, n)

(* No sender_token: lamports go to the custody account and are synced.      *)
StageLamports(k, payer, sender, refund, r) ==
  LET n == TransferAmount(r, "wsol") IN
  /\ Open(k, payer, sender, refund, r, "wsol")
  /\ wallet[sender]["lamports"] >= n
  /\ wallet' = Debit(wallet, sender, "lamports", n)
  /\ UNCHANGED delegation

------------------------------------------------------------------------------
(* close_staged_outbound                                                    *)

(* Seeded fault: the rents go to the sender.                                *)
CloseAccountsToSender(k) ==
  /\ staged' = [staged EXCEPT ![k] = None]
  /\ custody' = [custody EXCEPT ![k] = None]
  /\ deposits' = [deposits EXCEPT ![staged[k].sender] = @ - 2]

(* Both accounts go; staged_outbound's rent returns to prepared_by, and so  *)
(* does the custody account's.                                              *)
CloseAccounts(k) ==
  /\ staged' = [staged EXCEPT ![k] = None]
  /\ custody' = [custody EXCEPT ![k] = None]
  /\ deposits' = [deposits EXCEPT ![staged[k].preparedBy] = @ - 2]

(* Seeded fault: the custody account is drained and left open, and so is    *)
(* the staging.                                                             *)
CloseToTokenOnlyDrains(k, dst) ==
  /\ staged[k] # None
  /\ OwnedByTokenProgram(custody[k].mint)
  /\ wallet' = Credit(wallet, dst, custody[k].mint, custody[k].amount)
  /\ custody' = [custody EXCEPT ![k].amount = 0]
  /\ UNCHANGED <<delegation, peers, staged, orders, placed, deposits, log>>

(* With sender_token: the custody balance goes to the token account the     *)
(* sender names.                                                            *)
CloseToToken(k, dst) ==
  /\ staged[k] # None
  /\ OwnedByTokenProgram(custody[k].mint)
  /\ wallet' = Credit(wallet, dst, custody[k].mint, custody[k].amount)
  /\ CloseAccounts(k)
  /\ UNCHANGED <<delegation, peers, orders, placed, log>>

(* Without: the custody account itself is closed to the sender, as lamports *)
(* if it is native; SPL refuses another account that holds tokens.          *)
CloseToLamports(k) ==
  /\ staged[k] # None
  /\ OwnedByTokenProgram(custody[k].mint)
  /\ custody[k].mint = "wsol" \/ custody[k].amount = 0
  /\ wallet' = Credit(wallet, staged[k].sender, "lamports", custody[k].amount)
  /\ CloseAccounts(k)
  /\ UNCHANGED <<delegation, peers, orders, placed, log>>

------------------------------------------------------------------------------
(* Initiation                                                               *)

(* Seeded fault: the relaying fee is quoted again at initiation.            *)
SwapMessageRequoted(k) ==
  LET q == peers[staged[k].chain].quote
      redeem == staged[k].redeem IN
  [recipient |-> staged[k].recipient, sender |-> staged[k].sender,
   redeem |-> IF redeem.mode = "Relay" /\ q # NoQuote
              THEN [redeem EXCEPT !.fee = q] ELSE redeem]

(* StagedOutbound::to_swap_message_v1                                       *)
SwapMessage(k) ==
  [recipient |-> staged[k].recipient, redeem |-> staged[k].redeem,
   sender |-> staged[k].sender]

(* prepare_market_order for k through the registered peer c.                *)
PrepareOrder(k, c, amount) ==
  /\ orders[k] = None
  /\ orders' = [orders EXCEPT ![k] =
       [id |-> staged[k].id, amount |-> amount, chain |-> staged[k].chain,
        refund |-> staged[k].refund, redeemer |-> peers[c].address,
        msg |-> SwapMessage(k)]]

(* initiate_transfer, by anyone, with target_peer the Peer of chain c.      *)
InitiateTransfer(k, c) ==
  /\ staged[k] # None
  /\ custody[k].mint = "usdc"
  /\ staged[k].chain = c
  /\ custody[k].chain = c
  /\ PrepareOrder(k, c, custody[k].amount)
  /\ CloseAccounts(k)
  /\ UNCHANGED <<wallet, delegation, peers, placed, log>>

(* Seeded fault: the recipient stays.                                       *)
KeepDustReplayable(k, dust) ==
  /\ custody' = [custody EXCEPT ![k].amount = dust]
  /\ UNCHANGED <<staged, deposits>>

(* Dust goes back to the custody account and both accounts stay open, with  *)
(* the recipient zeroed; the redeem mode has been taken by the message.     *)
KeepDust(k, dust) ==
  /\ custody' = [custody EXCEPT ![k].amount = dust]
  /\ staged' = [staged EXCEPT ![k].recipient = ZeroAddress, ![k].redeem = Direct]
  /\ UNCHANGED deposits

(* The accounts of initiate_swap_exact_in, target_peer being that of c: it  *)
(* is the custody account's authority.                                      *)
SwapAccounts(k, c) ==
  /\ staged[k] # None
  /\ staged[k].exactIn
  /\ staged[k].recipient # ZeroAddress
  /\ custody[k].chain = c
  /\ custody[k].mint # "usdc"

(* initiate_swap_exact_in, by anyone: Jupiter takes the custody balance     *)
(* but for dust and gives out USDC.                                         *)
InitiateSwapExactIn(k, c, out, dust) ==
  LET m == custody[k].mint IN
  /\ SwapAccounts(k, c)
  /\ dust <= custody[k].amount
  /\ out <= wallet[Jupiter]["usdc"]
  /\ out >= staged[k].minOut
  /\ PrepareOrder(k, c, out)
  /\ wallet' = Debit(Credit(wallet, Jupiter, m, custody[k].amount - dust),
                     Jupiter, "usdc", out)
  /\ IF dust = 0 THEN CloseAccounts(k) ELSE KeepDust(k, dust)
  /\ UNCHANGED <<delegation, peers, placed, log>>

------------------------------------------------------------------------------
(* The environment                                                          *)

(* Token Router: the prepared order is placed and its account closed.       *)
PlaceOrder(k) ==
  /\ orders[k] # None
  /\ placed' = Append(placed, orders[k])
  /\ orders' = [orders EXCEPT ![k] = None]
  /\ UNCHANGED <<wallet, delegation, peers, staged, custody, deposits, log>>

(* SPL approve: an account has one delegate, the last one approved.         *)
Approve(u, a) ==
  /\ delegation' = [delegation EXCEPT ![u][a.mint] =
       [delegate |-> a.delegate, amount |-> a.amount]]
  /\ UNCHANGED <<wallet, peers, staged, custody, orders, placed, deposits, log>>

(* Anyone may send tokens to a custody account.                             *)
Donate(u, k, n) ==
  /\ custody[k] # None
  /\ wallet[u][custody[k].mint] >= n
  /\ wallet' = Debit(wallet, u, custody[k].mint, n)
  /\ custody' = [custody EXCEPT ![k].amount = @ + n]
  /\ UNCHANGED <<delegation, peers, staged, orders, placed, deposits, log>>

(* update_peer by the owner, update_relay_parameters by the fee updater.    *)
UpdatePeer(c, p) ==
  /\ peers' = [peers EXCEPT ![c] = p]
  /\ UNCHANGED <<wallet, delegation, staged, custody, orders, placed, deposits, log>>

UpdateRelayParameters(c, q) ==
  /\ peers' = [peers EXCEPT ![c].quote = q]
  /\ UNCHANGED <<wallet, delegation, staged, custody, orders, placed, deposits, log>>

------------------------------------------------------------------------------
Stage(k) ==
  \E payer, refund \in Users, r \in Requests :
    \/ \E sender, owner \in Users, m \in Mints :
         StageBySender(k, payer, sender, owner, refund, m, r)
    \/ \E owner \in Users, m \in Mints :
         StageByAuthority(k, payer, owner, refund, m, r)
    \/ \E sender \in Users : StageLamports(k, payer, sender, refund, r)

Close(k) == (\E dst \in Users : CloseToToken(k, dst)) \/ CloseToLamports(k)

Initiate(k) ==
  \E c \in Chains :
    \/ InitiateTransfer(k, c)
    \/ \E out, dust \in 0 .. Funds : InitiateSwapExactIn(k, c, out, dust)

Next ==
  \/ \E k \in Keys : Stage(k) \/ Close(k) \/ Initiate(k) \/ PlaceOrder(k)
  \/ \E u \in Users, a \in Approvals : Approve(u, a)
  \/ \E u \in Users, k \in Keys : Donate(u, k, 1)
  \/ \E c \in Chains, p \in Peer : UpdatePeer(c, p)
  \/ \E c \in Chains, q \in Quotes \cup {NoQuote} : UpdateRelayParameters(c, q)

Spec == Init /\ [][Next]_vars

------------------------------------------------------------------------------
(* Properties                                                               *)

TypeOK ==
  /\ wallet \in [Holders -> [Assets -> Nat]]
  /\ delegation \in
       [Users -> [Mints -> [delegate : Users \cup Request \cup {Nobody}, amount : Nat]]]
  /\ peers \in [Chains -> Peer]
  /\ staged \in [Keys -> Staged \cup {None}]
  /\ custody \in [Keys -> Custody \cup {None}]
  /\ orders \in [Keys -> Order \cup {None}]
  /\ placed \in Seq(Order)
  /\ deposits \in [Users -> Int]
  /\ log \in Seq(Entry)

(* Every order ever prepared.                                               *)
Orders == {orders[k] : k \in {j \in Keys : orders[j] # None}}
            \cup {placed[i] : i \in 1 .. Len(placed)}

(* An order says what was signed at staging: recipient, chain, refund       *)
(* account and redeem mode, and a fee within the signed maximum, whatever   *)
(* happened to the peer and its relay parameters in between.                *)
HonoursRequest(o, e) ==
  /\ o.chain = e.args.chain
  /\ o.refund = e.refund
  /\ o.msg.recipient = e.args.recipient
  /\ o.msg.sender = e.sender
  /\ o.msg.redeem.mode = e.args.redeem
  /\ o.msg.redeem.fee <= e.args.maxFee

OrderHonoursRequest == \A o \in Orders : HonoursRequest(o, log[o.id])

(* A relayed order arrives with more than the relayer's fee, so the redeem  *)
(* on the target chain can always pay it.                                   *)
CoversFee(o) == o.msg.redeem.mode = "Relay" => o.amount > o.msg.redeem.fee

FeeCovered == \A o \in Orders : CoversFee(o)

(* The recipient is owed what the sender asked for: exact-in USDC carries   *)
(* the amount in, exact-out USDC leaves it after the fee, a swap yields at  *)
(* least min_amount_out.                                                    *)
HonoursAmount(o, e) ==
  IF e.mint # "usdc" THEN o.amount >= e.args.minOut
  ELSE IF e.args.exactIn THEN o.amount >= e.args.amountIn
  ELSE o.amount - o.msg.redeem.fee >= e.args.amountIn

AmountHonoured == \A o \in Orders : HonoursAmount(o, log[o.id])

(* A staging ends in an order or in a refund of all that was put into its   *)
(* custody, in the mint that was put in or, for wrapped SOL, in lamports:   *)
(* closing the accounts gives back less (the dust of a swap, or nothing)    *)
(* only once the order is made, whoever initiated, closed, sent tokens to   *)
(* the custody account or changed the peer in between.                      *)
Refunds(m) == {m} \cup (IF m = "wsol" THEN {"lamports"} ELSE {})

GivenBack(e) ==
  \E u \in Users, a \in Refunds(e.mint) : wallet'[u][a] >= wallet[u][a] + e.put

EndsPaid ==
  [][\A k \in Keys :
       staged[k] # None /\ staged'[k] = None
       => (\E o \in Orders' : o.id = staged[k].id) \/ GivenBack(log[staged[k].id])]_vars

(* Each payer is out of pocket for exactly the accounts of his that are     *)
(* open, whoever closes them and by which branch.                           *)
RentReturned ==
  \A u \in Users :
    deposits[u] = 2 * Cardinality({k \in Keys : staged[k] # None /\ staged[k].preparedBy = u})

(* A delegation to the program transfer authority is spent whole by the one *)
(* staging whose arguments it names, and is gone afterwards.                *)
DelegationSpentWhole ==
  [][\A u \in Users, m \in Mints :
       (delegation[u][m].delegate \in Requests /\ wallet'[u][m] < wallet[u][m]
          /\ delegation'[u] # delegation[u])
       => /\ delegation'[u][m] = NoDelegation
          /\ wallet[u][m] - wallet'[u][m] = delegation[u][m].amount
          /\ log' = Append(log, [args |-> delegation[u][m].delegate, mint |-> m,
                      sender |-> u, refund |-> log'[Len(log')].refund,
                      put |-> delegation[u][m].amount])]_vars

(* What the documentation of close_staged_outbound says: it is executed     *)
(* when the user decides to cancel, for instance after a failed swap.       *)
Cancellable == \A k \in Keys : staged[k] # None => ENABLED Close(k)
=============================================================================
