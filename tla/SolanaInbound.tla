---------------------------- MODULE SolanaInbound ----------------------------
(***************************************************************************)
(* The inbound half of the Solana program swap_layer.  The Token Router    *)
(* prepares a fill that carries USDC and a swap message; one of six        *)
(* instructions consumes it: complete_transfer_{direct, relay, payload}    *)
(* deliver USDC, complete_swap_{direct, relay, payload} swap it through    *)
(* Jupiter first.  A payload fill is staged until its recipient releases   *)
(* it (release_inbound).  Anyone may submit any of them: the account       *)
(* constraints decide who gains what, and when.                            *)
(*                                                                         *)
(* External and modelled from its use: the Token Router (a prepared fill   *)
(* is consumed once), Jupiter (an exchange of any rate the limit admits),  *)
(* SPL Token and the clock.                                                *)
(***************************************************************************)
EXTENDS Integers, FiniteSets, Totals

CONSTANTS
  Users,        \* wallets: recipients, relayers, others
  FeeRecipient, \* the owner of custodian.fee_recipient_token
  Jupiter,      \* the liquidity of the Jupiter pools
  Fills,        \* addresses of prepared fills
  Incoming,     \* the fills that the Token Router may prepare
  Chains,       \* source chains
  Addresses,    \* peer addresses
  PeerAccounts, \* the contents a Peer account may be given
  None,         \* an account that does not exist
  Consumed,     \* a prepared fill that has been consumed and closed
  Funds,        \* initial balance of every wallet in every asset
  MaxOut,       \* bound: the output of a swap
  MaxClock      \* bound: the clock

Assets == {"usdc", "gas", "other"}
Holders == Users \cup {FeeRecipient, Jupiter}
Modes == {"Direct", "Relay", "Payload"}
FillTypes == {"FastFill", "WormholeCctpDeposit", "Unset"}

(* OutputToken: deadline 0 is none; jupiter is false for the swap types of  *)
(* other chains.                                                            *)
Output == [token : Assets, limit : Nat, deadline : Nat, jupiter : BOOLEAN]

(* PreparedFill and its SwapMessageV1, which may not parse.                 *)
Fill == [chain : Chains, orderSender : Addresses, type : FillTypes,
         timestamp : Nat, amount : Nat, parses : BOOLEAN, recipient : Users,
         mode : Modes, fee : Nat, dropoff : Nat, output : Output]

(* Peer, with the SwapTimeLimit of its relay parameters.                    *)
Peer == [address : Addresses, fastLimit : Nat, finalizedLimit : Nat]

ASSUME InputsAssumption ==
  Incoming \subseteq Fill /\ PeerAccounts \subseteq Peer

ASSUME BoundsAssumption ==
  Funds \in Nat /\ MaxOut \in Nat /\ MaxClock \in Nat

ASSUME UsersAssumption == IsFiniteSet(Users)

ASSUME DistinctAssumption ==
  /\ FeeRecipient \notin Users /\ Jupiter \notin Users /\ FeeRecipient # Jupiter
  /\ None \notin Incoming /\ Consumed \notin Incoming /\ None # Consumed

VARIABLES
  clock,    \* Clock::get().unix_timestamp
  peers,    \* peers[c]: the Peer account of chain c
  fills,    \* fills[f]: None, a prepared fill, or Consumed
  wallet,   \* wallet[h][a]: balance of h in asset a
  swapUsdc, \* swapUsdc[f]: USDC sent to f's swap token account beforehand
  staged,   \* staged[f]: StagedInbound and its custody token account
  receipt   \* history: how a fill was consumed

vars == <<clock, peers, fills, wallet, swapUsdc, staged, receipt>>

Staged == [recipient : Users, asset : Assets, amount : Nat, isNative : BOOLEAN]

ASSUME NoneIsNotStaged == None \notin Staged

(* What was consumed, by which signers, when, with what time limit in force, *)
(* and what it paid: USDC and swap output to the recipient or his custody    *)
(* account, lamports to the recipient.                                       *)
Receipt == [fill : Fill, signers : SUBSET Users, at : Nat, limit : Nat,
            usdc : Nat, out : Nat, gas : Nat, swapped : BOOLEAN]

Init ==
  /\ clock = 0
  /\ peers \in [Chains -> PeerAccounts]
  /\ fills = [f \in Fills |-> None]
  /\ wallet = [h \in Holders |-> [a \in Assets |-> Funds]]
  /\ swapUsdc = [f \in Fills |-> 0]
  /\ staged = [f \in Fills |-> None]
  /\ receipt = [f \in Fills |-> None]

------------------------------------------------------------------------------
Pending(f) == fills[f] \notin {None, Consumed}

Move(w, from, to, a, n) ==
  IF from = to THEN w ELSE [w EXCEPT ![from][a] = @ - n, ![to][a] = @ + n]

(* ConsumeSwapLayerFill: the message parses and the order was sent by the   *)
(* peer now registered for its source chain.                                *)
Consumable(f) ==
  /\ Pending(f)
  /\ fills[f].parses
  /\ fills[f].orderSender = peers[fills[f].chain].address

(* swap_time_limit of the fill's type.                                      *)
TimeLimit(f) ==
  IF fills[f].type = "FastFill" THEN peers[fills[f].chain].fastLimit
  ELSE peers[fills[f].chain].finalizedLimit

(* consume_prepared_fill, and the receipt of the instruction around it.     *)
Consume(f, signers, usdc, out, gas, swapped) ==
  /\ Consumable(f)
  /\ fills' = [fills EXCEPT ![f] = Consumed]
  /\ receipt' = [receipt EXCEPT ![f] =
       [fill |-> fills[f], signers |-> signers, at |-> clock, limit |-> TimeLimit(f),
        usdc |-> usdc, out |-> out, gas |-> gas, swapped |-> swapped]]
  /\ UNCHANGED <<clock, peers>>

------------------------------------------------------------------------------
(* complete_transfer_*                                                      *)

(* Seeded fault: not even the recipient may take USDC for a swap.           *)
UsdcOnly(f, redeemer) == fills[f].output.token = "usdc"

(* USDC in place of an encoded swap is for the recipient himself.           *)
UsdcOrRedeemedByRecipient(f, redeemer) ==
  fills[f].output.token = "usdc" \/ redeemer = fills[f].recipient

CompleteTransferDirect(f, redeemer) ==
  LET m == fills[f] IN
  /\ Consume(f, {redeemer}, m.amount, 0, 0, FALSE)
  /\ UsdcOrRedeemedByRecipient(f, redeemer)
  /\ m.mode = "Direct"
  /\ wallet' = [wallet EXCEPT ![m.recipient]["usdc"] = @ + m.amount]
  /\ UNCHANGED <<swapUsdc, staged>>

(* Seeded faults: the limit is not waited for, or the delivery is refused.  *)
TimeLimitPassedSinceFill(f) == clock >= fills[f].timestamp
TimeLimitNever(f) == FALSE

(* A relayer may deliver USDC in place of a swap once the swap time limit   *)
(* has passed.                                                              *)
TimeLimitPassed(f) ==
  fills[f].type # "Unset" /\ clock - fills[f].timestamp >= TimeLimit(f)

(* Seeded fault: the subtraction of the fee is not checked.                 *)
FeeUnchecked(amount, fee) == TRUE

(* checked_sub(relaying_fee), InvalidRelayerFee otherwise.                  *)
FeePayable(amount, fee) == amount >= fee

CompleteTransferRelay(f, payer, redeemer) ==
  LET m == fills[f]
      fee == IF redeemer = m.recipient THEN 0 ELSE m.fee
      gas == IF redeemer = m.recipient THEN 0 ELSE m.dropoff IN
  /\ Consume(f, {payer, redeemer}, m.amount - fee, 0, gas, FALSE)
  /\ UsdcOrRedeemedByRecipient(f, redeemer) \/ TimeLimitPassed(f)
  /\ m.mode = "Relay"
  /\ wallet[payer]["gas"] >= gas
  /\ FeePayable(m.amount, fee)
  /\ wallet' = [Move(wallet, payer, m.recipient, "gas", gas) EXCEPT
                 ![m.recipient]["usdc"] = @ + m.amount - fee,
                 ![FeeRecipient]["usdc"] = @ + fee]
  /\ UNCHANGED <<swapUsdc, staged>>

CompleteTransferPayload(f, payer, redeemer) ==
  LET m == fills[f] IN
  /\ Consume(f, {payer, redeemer}, m.amount, 0, 0, FALSE)
  /\ UsdcOrRedeemedByRecipient(f, redeemer)
  /\ m.mode = "Payload"
  /\ staged' = [staged EXCEPT ![f] =
       [recipient |-> m.recipient, asset |-> "usdc", amount |-> m.amount,
        isNative |-> FALSE]]
  /\ UNCHANGED <<wallet, swapUsdc>>

------------------------------------------------------------------------------
(* complete_swap_*                                                          *)

(* is_valid_output_swap: no swap is encoded only in a direct transfer; an   *)
(* encoded swap is Jupiter's and not past its deadline.                     *)
ValidOutputSwap(f) ==
  LET o == fills[f].output IN
  IF o.token = "usdc" THEN fills[f].mode = "Direct"
  ELSE o.jupiter /\ (o.deadline = 0 \/ clock <= o.deadline)

(* handle_complete_swap_jup_v6: in of the USDC in the swap token account is *)
(* offered, Jupiter takes spent of it for out of asset a, and all that is   *)
(* left, fee and dust, goes to the fee recipient.                           *)
Swap(f, in, spent, out) ==
  /\ ValidOutputSwap(f)
  /\ spent <= in
  /\ fills[f].output.token # "usdc" => out >= fills[f].output.limit
  /\ swapUsdc' = [swapUsdc EXCEPT ![f] = 0]

(* Seeded fault: what the swap leaves of the USDC is not sent anywhere.      *)
SwappedDustLost(f, a, spent, out) ==
  [wallet EXCEPT ![Jupiter]["usdc"] = @ + spent, ![Jupiter][a] = @ - out]

(* The ledger of a swap, before the output is delivered.                    *)
Swapped(f, a, spent, out) ==
  [wallet EXCEPT ![Jupiter]["usdc"] = @ + spent, ![Jupiter][a] = @ - out,
                 ![FeeRecipient]["usdc"] = @ + fills[f].amount + swapUsdc[f] - spent]

(* Without an encoded swap the recipient swaps for a token of his choice,   *)
(* to a limit of his own, and is always paid in tokens.                     *)
OutputAsset(f, a) ==
  a = IF fills[f].output.token = "usdc" THEN "other" ELSE fills[f].output.token

(* Seeded fault: a native output goes out without the gas dropoff.          *)
DeliverNoDropoff(f, a, payer, spent, out, gas) ==
  LET r == fills[f].recipient IN
  /\ wallet[Jupiter][a] >= out
  /\ wallet' = [Swapped(f, a, spent, out) EXCEPT ![r][a] = @ + out]

(* The recipient is paid out and the payer's dropoff, in lamports.          *)
Deliver(f, a, payer, spent, out, gas) ==
  LET r == fills[f].recipient IN
  /\ wallet[Jupiter][a] >= out
  /\ wallet[payer]["gas"] >= gas
  /\ wallet' = Move([Swapped(f, a, spent, out) EXCEPT ![r][a] = @ + out],
                    payer, r, "gas", gas)

CompleteSwapDirect(f, a, payer, spent, out) ==
  LET m == fills[f] IN
  /\ Consume(f, {payer}, 0, out, 0, TRUE)
  /\ m.mode = "Direct"
  /\ m.output.token = "usdc" => payer = m.recipient
  /\ OutputAsset(f, a)
  /\ Swap(f, m.amount + swapUsdc[f], spent, out)
  /\ Deliver(f, a, payer, spent, out, 0)
  /\ UNCHANGED staged

CompleteSwapRelay(f, a, payer, spent, out) ==
  LET m == fills[f]
      fee == IF payer = m.recipient THEN 0 ELSE m.fee
      gas == IF payer = m.recipient THEN 0 ELSE m.dropoff IN
  /\ Consume(f, {payer}, 0, out, gas, TRUE)
  /\ m.mode = "Relay"
  /\ FeePayable(m.amount + swapUsdc[f], fee)
  /\ OutputAsset(f, a)
  /\ Swap(f, m.amount + swapUsdc[f] - fee, spent, out)
  /\ Deliver(f, a, payer, spent, out, gas)
  /\ UNCHANGED staged

CompleteSwapPayload(f, a, payer, spent, out) ==
  LET m == fills[f] IN
  /\ Consume(f, {payer}, 0, out, 0, TRUE)
  /\ m.mode = "Payload"
  /\ OutputAsset(f, a)
  /\ Swap(f, m.amount + swapUsdc[f], spent, out)
  /\ wallet[Jupiter][a] >= out
  /\ wallet' = Swapped(f, a, spent, out)
  /\ staged' = [staged EXCEPT ![f] =
       [recipient |-> m.recipient, asset |-> a, amount |-> out,
        isNative |-> a = "gas"]]

------------------------------------------------------------------------------
(* release_inbound, signed by the recipient: the whole custody balance goes *)
(* to any account of his choice.                                            *)
ReleaseInbound(f, signer, dst) ==
  /\ staged[f] # None
  /\ signer = staged[f].recipient
  /\ wallet' = [wallet EXCEPT ![dst][staged[f].asset] = @ + staged[f].amount]
  /\ staged' = [staged EXCEPT ![f] = None]
  /\ UNCHANGED <<clock, peers, fills, swapUsdc, receipt>>

------------------------------------------------------------------------------
(* The environment                                                          *)

(* The Token Router prepares a fill, timestamped no later than now.         *)
PrepareFill(f, m) ==
  /\ fills[f] = None
  /\ m.timestamp <= clock
  /\ fills' = [fills EXCEPT ![f] = m]
  /\ UNCHANGED <<clock, peers, wallet, swapUsdc, staged, receipt>>

Tick ==
  /\ clock < MaxClock
  /\ clock' = clock + 1
  /\ UNCHANGED <<peers, fills, wallet, swapUsdc, staged, receipt>>

(* USDC sent to the swap token account of a fill that is not yet consumed:  *)
(* the account is an ATA that must already exist.                           *)
Donate(u, f) ==
  /\ fills[f] # Consumed
  /\ wallet[u]["usdc"] >= 1
  /\ wallet' = [wallet EXCEPT ![u]["usdc"] = @ - 1]
  /\ swapUsdc' = [swapUsdc EXCEPT ![f] = @ + 1]
  /\ UNCHANGED <<clock, peers, fills, staged, receipt>>

(* update_peer and update_relay_parameters.                                 *)
UpdatePeer(c, p) ==
  /\ peers' = [peers EXCEPT ![c] = p]
  /\ UNCHANGED <<clock, fills, wallet, swapUsdc, staged, receipt>>

------------------------------------------------------------------------------
CompleteTransfer(f) ==
  \E payer, redeemer \in Users :
    \/ payer = redeemer /\ CompleteTransferDirect(f, redeemer)
    \/ CompleteTransferRelay(f, payer, redeemer)
    \/ CompleteTransferPayload(f, payer, redeemer)

CompleteSwap(f) ==
  \E a \in Assets, payer \in Users, spent \in 0 .. 2 * Funds, out \in 0 .. MaxOut :
    \/ CompleteSwapDirect(f, a, payer, spent, out)
    \/ CompleteSwapRelay(f, a, payer, spent, out)
    \/ CompleteSwapPayload(f, a, payer, spent, out)

Release(f) == \E signer, dst \in Users : ReleaseInbound(f, signer, dst)

Next ==
  \/ \E f \in Fills : CompleteTransfer(f) \/ CompleteSwap(f) \/ Release(f)
  \/ \E f \in Fills, m \in Incoming : PrepareFill(f, m)
  \/ \E f \in Fills, u \in Users : Donate(u, f)
  \/ \E c \in Chains, p \in PeerAccounts : UpdatePeer(c, p)
  \/ Tick

Spec == Init /\ [][Next]_vars

(* Time passes, and a relayer keeps submitting the USDC delivery of every   *)
(* fill: complete_transfer_relay is open to any signer.                     *)
Relayed(f) ==
  /\ Pending(f)
  /\ \E u \in Users \ {fills[f].recipient} : CompleteTransferRelay(f, u, u)

FairSpec ==
  Spec /\ WF_vars(Tick) /\ \A f \in Fills : WF_vars(Relayed(f))

------------------------------------------------------------------------------
(* Properties                                                               *)

TypeOK ==
  /\ clock \in Nat
  /\ peers \in [Chains -> Peer]
  /\ fills \in [Fills -> Fill \cup {None, Consumed}]
  /\ wallet \in [Holders -> [Assets -> Nat]]
  /\ swapUsdc \in [Fills -> Nat]
  /\ staged \in [Fills -> Staged \cup {None}]
  /\ receipt \in [Fills -> Receipt \cup {None}]

(* Completing a fill neither creates nor loses value: the wallets, the swap *)
(* token accounts and the staged custody accounts hold what they started    *)
(* with and the USDC of the fills consumed, dust and donations included.    *)
InWallets(a) == [h \in Holders |-> wallet[h][a]]
InCustody(a) ==
  [f \in Fills |-> IF staged[f] # None /\ staged[f].asset = a THEN staged[f].amount ELSE 0]
Received == [f \in Fills |-> IF fills[f] = Consumed THEN receipt[f].fill.amount ELSE 0]

Held(a) == Total(InWallets(a)) + Total(InCustody(a))

Conservation ==
  LET supply == Funds * Cardinality(Holders) IN
  /\ Held("usdc") + Total(swapUsdc) = supply + Total(Received)
  /\ Held("gas") = supply /\ Held("other") = supply

(* A recipient who asked for a swap gets it, at the limit and in time,      *)
(* unless he signs for something else or the relayer's time limit, as the   *)
(* peer account has it at that moment, has passed.                          *)
SwapHonoured ==
  \A f \in Fills :
    LET r == receipt[f] o == r.fill.output IN
    (fills[f] = Consumed /\ o.token # "usdc") =>
      \/ r.fill.recipient \in r.signers
      \/ /\ r.swapped /\ r.out >= o.limit
         /\ o.deadline = 0 \/ r.at <= o.deadline
      \/ r.fill.mode = "Relay" /\ r.at - r.fill.timestamp >= r.limit

(* What consuming a fill moves: the recipient, or the custody account that  *)
(* only he can release, is paid the whole fill in USDC; or a relayer takes  *)
(* the fee of the message and no more, for the full gas dropoff; or the     *)
(* fill is swapped and the whole output is his.                             *)
Got(f, a) ==
  wallet'[fills[f].recipient][a] - wallet[fills[f].recipient][a]
  + IF staged'[f] # None /\ staged'[f].asset = a THEN staged'[f].amount ELSE 0

PaysOut(f) ==
  LET m == fills[f]
      kept == wallet'[FeeRecipient]["usdc"] - wallet[FeeRecipient]["usdc"]
      relayed == m.mode = "Relay" /\ m.recipient \notin receipt'[f].signers
      dropoff == IF relayed THEN m.dropoff ELSE 0
      a == IF m.output.token = "usdc" THEN "other" ELSE m.output.token
  IN \/ Got(f, "usdc") = m.amount /\ kept = 0
     \/ /\ m.mode = "Relay" /\ Got(f, "usdc") = m.amount - m.fee
        /\ kept = m.fee /\ Got(f, "gas") = dropoff
     \/ /\ receipt'[f].swapped /\ kept >= IF relayed THEN m.fee ELSE 0
        /\ Got(f, a) = receipt'[f].out + IF a = "gas" THEN dropoff ELSE 0
        /\ a # "gas" => Got(f, "gas") = dropoff

ConsumedFillPaysOut ==
  [][\A f \in Fills : Pending(f) /\ fills'[f] = Consumed => PaysOut(f)]_vars

(* The recipient can redeem his fill himself, as USDC, at every moment: no  *)
(* deadline, swap type, fee or time limit stands in his way.                *)
RecipientCanRedeem ==
  \A f \in Fills :
    Consumable(f) =>
      LET r == fills[f].recipient IN
      ENABLED (\/ CompleteTransferDirect(f, r)
               \/ CompleteTransferRelay(f, r, r)
               \/ CompleteTransferPayload(f, r, r))

(* A relayed fill that carries its fee is completed without the recipient's *)
(* help, past deadlines and however the time limits change, once the        *)
(* registration of its sender no longer moves.                              *)
RelayCompletes ==
  \A f \in Fills :
    <>[](Pending(f) => Consumable(f))
      => ((Consumable(f) /\ fills[f].mode = "Relay" /\ fills[f].type # "Unset"
             /\ fills[f].amount >= fills[f].fee)
            ~> fills[f] = Consumed)
=============================================================================
