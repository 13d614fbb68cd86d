---------------------------- MODULE SolanaOrders ----------------------------
(***************************************************************************)
(* An order from Solana to an EVM chain, from the quote of the SDK to the  *)
(* message that the EVM contract reads.                                    *)
(*                                                                         *)
(* An integrator fetches the target's peer, has the SDK quote the relaying *)
(* fee, stages with the quote as maximum and initiates, with a route of    *)
(* Jupiter's API that the SDK adapts if the tokens are not USDC.  The fee  *)
(* updater may act between any two steps.  An account is a tuple: a name,  *)
(* or what it is derived from.                                             *)
(***************************************************************************)
EXTENDS EvmParams, FiniteSets

CONSTANTS
  InitialParams,  \* the peer's relay parameters when it was added
  ParamSets,      \* relay parameters the fee updater asks for
  Sales,          \* what integrators order
  Routes,         \* instructions of Jupiter's API: accounts and data
  RouteOpts,      \* options of modifySharedAccountsRouteInstruction
  TokenProgramOf, \* the program of each mint
  Sender,
  MaxUpdates      \* bound: updates of the relay parameters

(* The types of Peer.ts, what the program's account holds.                  *)
ExecutionParams ==
  [type : {"none", "evm"}, gasPrice : Nat, gasPriceMargin : Nat]
SwapTimeLimit == [fastLimit : Nat, finalizedLimit : Nat]
RelayParams ==
  [baseFee : Nat, nativeTokenPrice : Nat, maxGasDropoff : Nat, gasDropoffMargin : Nat,
   executionParams : ExecutionParams, swapTimeLimit : SwapTimeLimit]
ASSUME RelayParamsAssumption == ParamSets \union {InitialParams} \subseteq RelayParams

VARIABLES
  relay,   \* the peer's relay parameters
  sale,    \* the order under way
  updates  \* how often the parameters were updated

solanaVars == <<relay, sale, updates>>

Sdk  == INSTANCE SolanaLayouts
Fees == INSTANCE SolanaFees

SwapAuthority == <<"swap authority">>
JUPITER == <<"JUPITER_V6_PROGRAM_ID">>
TOKEN == <<"token">>
TOKEN_2022 == <<"token_2022">>
USDC_MINT == <<"usdc">>
Ata(mint, owner, program) == <<"ata", mint, owner, program>>
MintOf(account) == account[2]
programAuthorityAddress(id) == <<"authority", id>>
AUTHORITY_COUNT == 8
MAX_SLIPPAGE_BPS == 10000

\* seen, at (history): the relay parameters when quoted and when staged.
NoRoute == [from |-> <<>>, opts |-> <<>>, to |-> <<>>, accepted |-> FALSE]
NoSale == [pc |-> "idle", asked |-> <<>>, seen |-> <<>>, at |-> <<>>, quote |-> 0, encoded |-> <<>>,
           fee |-> 0, message |-> <<>>, route |-> NoRoute]
SolanaInit ==
  /\ Fees!verify_relay_params(InitialParams) /\ relay = InitialParams
  /\ sale = NoSale /\ updates = 0

UpdateRelayParameters(params) ==
  /\ updates < MaxUpdates /\ updates' = updates + 1
  /\ Fees!verify_relay_params(params)
  /\ relay' = params
  /\ UNCHANGED sale

-----------------------------------------------------------------------------
Relayed(asked) == asked.redeem.tag = "Relay"
QuoteOf(asked, params) ==
  IF ~Relayed(asked) THEN 0
  ELSE Fees!calculateRelayerFee(params, Fees!denormalizeGasDropOff(asked.redeem.gasDropoff),
                                asked.outputToken)

\* The quote throws, which ends the order, or is the maximum to stage with.
Quoting(asked) ==
  /\ sale.pc = "idle"
  /\ LET quote == QuoteOf(asked, relay)
     IN sale' = [NoSale EXCEPT !.pc = IF quote = Fees!Bad THEN "unquoted" ELSE "quoted",
                               !.asked = asked, !.seen = relay, !.quote = quote]
  /\ UNCHANGED <<relay, updates>>

Covers(asked, fee) ==
  CASE asked.srcMint # USDC_MINT -> asked.minAmountOut > fee
    [] asked.isExactIn           -> asked.amountIn > fee
    [] OTHER                     -> TRUE
Charged(asked, read) ==
  IF Relayed(asked)
  THEN Fees!calculate_relayer_fee(relay, asked.redeem.gasDropoff, read.v.output_token)
  ELSE 0
Staged(asked, bytes, read, fee) ==
  [sale EXCEPT !.at = relay, !.fee = fee, !.encoded = bytes,
               !.pc = IF /\ asked.recipient # Zero32
                         /\ ~Throws(bytes) /\ read.ok
                         /\ asked.srcMint = USDC_MINT \/ asked.isExactIn
                         /\ Relayed(asked) => /\ fee # Fees!Bad /\ fee <= sale.quote
                                              /\ Covers(asked, fee)
                      THEN "staged" ELSE "refused"]
Encoded(asked) == Sdk!encodeOutputToken(asked.outputToken)
StagedAs(asked, bytes, read) == Staged(asked, bytes, read, Charged(asked, read))
StageOutbound ==
  /\ sale.pc = "quoted"
  /\ sale' = StagedAs(sale.asked, Encoded(sale.asked), Sdk!ReadOutputToken(Encoded(sale.asked)))
  /\ UNCHANGED <<relay, updates>>

\* Seeded fault: the maximum travels in place of the fee.
RelayAtQuote(gas_dropoff) ==
  [tag |-> "Relay", gas_dropoff |-> gas_dropoff, relaying_fee |-> sale.quote]
StagedRelay(gas_dropoff) ==
  [tag |-> "Relay", gas_dropoff |-> gas_dropoff, relaying_fee |-> sale.fee]
to_swap_message_v1 ==
  LET redeem == sale.asked.redeem
  IN [recipient |-> sale.asked.recipient,
      redeem_mode |->
        CASE redeem.tag = "Relay"   -> StagedRelay(redeem.gasDropoff)
          [] redeem.tag = "Payload" -> [tag |-> "Payload", sender |-> Sender, buf |-> redeem.buf]
          [] OTHER                  -> [tag |-> "Direct"],
      output_token |-> Sdk!ReadOutputToken(sale.encoded).v.output_token]
MessageToSend == Sdk!WriteSwapMessage(to_swap_message_v1)

InitiateOrder ==
  /\ sale.pc = "staged" /\ sale.asked.srcMint = USDC_MINT
  /\ sale' = [sale EXCEPT !.pc = "sent", !.message = MessageToSend]
  /\ UNCHANGED <<relay, updates>>

-----------------------------------------------------------------------------
(* modifySharedAccountsRouteInstruction                                     *)
\* Every account is copied: the answer of the API is not changed.
toTransactionInstruction(instruction) ==
  [programId |-> instruction.programId,
   keys |-> [i \in DOMAIN instruction.accounts |->
              LET key == instruction.accounts[i]
              IN [pubkey |-> key.pubkey, isSigner |-> key.isSigner, isWritable |-> key.isWritable]],
   data |-> instruction.data]
Replaced(keys, old, new) ==
  [i \in DOMAIN keys |-> IF keys[i].pubkey = old THEN [keys[i] EXCEPT !.pubkey = new] ELSE keys[i]]
\* Seeded fault: only the transfer authority's own place is signed for.
ReauthorizedAtItsPlace(keys, tokenOwner, cpi) ==
  [Replaced(keys, keys[3].pubkey, tokenOwner) EXCEPT ![3].isSigner = ~cpi]
Reauthorized(keys, tokenOwner, cpi) ==
  [i \in DOMAIN keys |->
     IF keys[i].pubkey = keys[3].pubkey
     THEN [keys[i] EXCEPT !.pubkey = tokenOwner, !.isSigner = ~cpi] ELSE keys[i]]
Or(option, default) == IF option = <<>> THEN default ELSE option[1]
Adjusted(args, opts) ==
  [args EXCEPT !.inAmount = Or(opts.inAmount, @),
               !.quotedOutAmount = Or(opts.quotedOutAmount, @),
               !.slippageBps = Or(opts.slippageBps, @)]
\* BigInt division drops the fraction of a negative quotient too.
MinAmountOut(args) ==
  LET n == args.quotedOutAmount * (10000 - args.slippageBps)
  IN IF n >= 0 THEN n \div 10000 ELSE -((-n) \div 10000)
RouteTokens(keys, tokenOwner, opts) ==
  LET source == Ata(keys[8].pubkey, tokenOwner, Or(opts.srcTokenProgram, TokenProgramOf[keys[8].pubkey]))
      destination == Ata(keys[9].pubkey, tokenOwner, Or(opts.dstTokenProgram, TokenProgramOf[keys[9].pubkey]))
      sourced == Replaced(keys, keys[4].pubkey, source)
  IN Replaced(sourced, sourced[7].pubkey, destination)
Modified(keys, args) ==
  [ok |-> args.ok, keys |-> keys,
   data |-> IF args.ok THEN Sdk!encodeSharedAccountsRouteArgs(args.v) ELSE <<>>,
   minAmountOut |-> IF args.ok THEN MinAmountOut(args.v) ELSE 0]
AdjustedIfRead(args, opts) == IF args.ok THEN [args EXCEPT !.v = Adjusted(@, opts)] ELSE args
modifySharedAccountsRouteInstruction(instruction, tokenOwner, opts) ==
  LET ix == toTransactionInstruction(instruction)
  IN Modified(RouteTokens(Reauthorized(ix.keys, tokenOwner, opts.cpi), tokenOwner, opts),
              AdjustedIfRead(Sdk!decodeSharedAccountsRouteArgs(ix.data), opts))

-----------------------------------------------------------------------------
(* initiate_swap_exact_in                                                   *)
compute_min_amount_out(args) ==
  LET slippage == IF args.slippageBps > MAX_SLIPPAGE_BPS THEN MAX_SLIPPAGE_BPS ELSE args.slippageBps
  IN (args.quotedOutAmount * (MAX_SLIPPAGE_BPS - slippage)) \div MAX_SLIPPAGE_BPS

\* The 13 accounts of the route, and one more that is read behind them.
RouteAccounts(keys, id) ==
  /\ Len(keys) >= 13 + 1
  /\ keys[1].pubkey = TOKEN /\ \A i \in 4..7 : keys[i].isWritable
  /\ keys[2].pubkey = programAuthorityAddress(id) /\ id <= AUTHORITY_COUNT
  /\ MintOf(keys[5].pubkey) = keys[8].pubkey /\ MintOf(keys[6].pubkey) = keys[9].pubkey
  /\ keys[10].pubkey = JUPITER /\ keys[11].pubkey \in {JUPITER, TOKEN_2022}
  /\ keys[13].pubkey = JUPITER
RouteOfOrder(keys, srcMint) ==
  /\ keys[3].pubkey = SwapAuthority
  /\ keys[4].pubkey = Ata(srcMint, SwapAuthority, TokenProgramOf[srcMint])
  /\ keys[7].pubkey = Ata(USDC_MINT, SwapAuthority, TokenProgramOf[USDC_MINT])
  /\ keys[8].pubkey = srcMint /\ keys[9].pubkey = USDC_MINT
\* The swap authority cannot sign the transaction.
RouteAccepted(to, args) ==
  /\ to.ok /\ args.ok
  /\ \A i \in DOMAIN to.keys : to.keys[i].isSigner => to.keys[i].pubkey # SwapAuthority
  /\ RouteAccounts(to.keys, args.v.id) /\ RouteOfOrder(to.keys, sale.asked.srcMint)

\* Jupiter pays out, not always enough; refused, the order stays staged.
Attempt(route, opts, to, args, out) ==
  LET accepted == RouteAccepted(to, args)
      enough == /\ accepted
                /\ out >= compute_min_amount_out(args.v) /\ out >= sale.asked.minAmountOut
  IN sale' = [sale EXCEPT !.route = [from |-> route, opts |-> opts, to |-> to, accepted |-> accepted],
                          !.pc = IF enough THEN "sent" ELSE @,
                          !.message = IF enough THEN MessageToSend ELSE @]
AttemptWith(route, opts, to, out) ==
  Attempt(route, opts, to, Sdk!deserialize_checked(to.data), out)
InitiateSwap(route, opts, out) ==
  /\ sale.pc = "staged" /\ sale.asked.srcMint # USDC_MINT /\ sale.route = NoRoute
  /\ AttemptWith(route, opts, modifySharedAccountsRouteInstruction(route, SwapAuthority, opts), out)
  /\ UNCHANGED <<relay, updates>>

Outs == {500, 2000}
SolanaNext ==
  \/ \E params \in ParamSets : UpdateRelayParameters(params)
  \/ \E asked \in Sales : Quoting(asked)
  \/ StageOutbound \/ InitiateOrder
  \/ \E route \in Routes, opts \in RouteOpts, out \in Outs : InitiateSwap(route, opts, out)

-----------------------------------------------------------------------------
(* An order is carried out as quoted and asked, or refused: what a staged    *)
(* order is charged is what the SDK would quote at that moment and never     *)
(* more than it did quote (stage_outbound.rs:203, relayerFees.ts:80); it is  *)
(* refused only if the parameters changed since, if the quote is beyond a    *)
(* uint48, if its amount does not cover the fee, or if it has no recipient.  *)
(* The message that travels says the same, what its sender asked for, to the *)
(* SDKs of both platforms and to the contract at the target.  The contract   *)
(* reads it exactly if the recipient is an EVM address: stage_outbound.rs:75 *)
(* refuses the zero address only, so the recipient of an order that no       *)
(* target can read (Message.sol:67) is left to whoever orders.               *)
ReadBySdks(redeem, sdk, evm) ==
  /\ sdk.ok /\ evm.ok
  /\ sdk.v.recipient = sale.asked.recipient /\ evm.v.recipient = sale.asked.recipient
  /\ sdk.v.outputToken = sale.asked.outputToken /\ sdk.v.redeemMode.tag = redeem.tag
  /\ redeem.tag = evm.v.redeemMode.tag
  /\ redeem.tag = "Relay" =>
       /\ sdk.v.redeemMode.gasDropoff = redeem.gasDropoff /\ sdk.v.redeemMode.relayingFee = sale.fee
       /\ evm.v.redeemMode.gasDropoff = redeem.gasDropoff * gasDropoffUnit
       /\ evm.v.redeemMode.maxRelayingFee = sale.fee
ReadAtTarget(m, redeem, at) ==
  /\ at.ok <=> IsEvmAddress(sale.asked.recipient)
  /\ at.ok =>
       /\ at.recipient = sale.asked.recipient /\ Rest(m, at.swapAt) = Encoded(sale.asked)
       /\ redeem.tag = "Relay" => at.redeem = Relay
       /\ redeem.tag = "Payload" => at.payload = redeem.buf /\ at.sender = Sender
ReadByAll(m, redeem) ==
  /\ ~Throws(m)
  /\ ReadBySdks(redeem, Sdk!decodeSwapLayerMessage(m), deserializeSwapMessage(m))
  /\ ReadAtTarget(m, redeem, parseSwapMessageStructure(m))
ChargedAsQuoted ==
  /\ sale.fee = QuoteOf(sale.asked, sale.at)
  /\ sale.fee <= sale.quote
SolanaOrderAsAsked ==
  /\ sale.pc = "refused" =>
       \/ sale.at # sale.seen \/ sale.quote > Fees!UINT48_MAX
       \/ ~Covers(sale.asked, sale.quote) \/ sale.asked.recipient = Zero32
  /\ sale.pc \in {"staged", "sent"} => ChargedAsQuoted
  /\ sale.pc = "sent" => ReadByAll(sale.message, sale.asked.redeem)

(* A route of Jupiter's API for one of its users, adapted for the program's  *)
(* swap authority, is the same route: only the user's accounts and the       *)
(* amounts asked for change, and the minimum the SDK reports is the limit    *)
(* the program enforces, up to a slippage of 100 %.  If it fits the order,   *)
(* the program takes it.  The SDK gives up only at dexes it does not know,   *)
(* although the program does (jupiterV6/layouts.ts:38).                      *)
UsersOf(keys) == {keys[3].pubkey, keys[4].pubkey, keys[7].pubkey}
SameAccounts(from, to) ==
  \A i \in DOMAIN from :
    /\ from[i].pubkey \notin UsersOf(from) => to[i] = from[i]
    /\ to[i].isWritable = from[i].isWritable
SameSwap(opts, was, is, minAmountOut) ==
  /\ is.ok /\ is.v = Adjusted(was.v, opts)
  /\ is.v.slippageBps <= MAX_SLIPPAGE_BPS => minAmountOut = compute_min_amount_out(is.v)
FitsOrder(route, opts) ==
  LET keys == route.accounts
  IN /\ opts.cpi /\ opts.srcTokenProgram = <<>> /\ opts.dstTokenProgram = <<>>
     /\ keys[8].pubkey = sale.asked.srcMint /\ keys[9].pubkey = USDC_MINT
     /\ keys[10].pubkey = JUPITER /\ Len(keys) > 13
KnownDexes(args) == \A i \in DOMAIN args.v.routePlan : args.v.routePlan[i].swap.tag <= 38
RouteKept ==
  LET tried == sale.route
  IN tried # NoRoute =>
       /\ tried.to.ok <=> KnownDexes(Sdk!deserialize_checked(tried.from.data))
       /\ tried.to.ok =>
            /\ SameAccounts(tried.from.accounts, tried.to.keys)
            /\ SameSwap(tried.opts, Sdk!deserialize_checked(tried.from.data),
                        Sdk!deserialize_checked(tried.to.data), tried.to.minAmountOut)
            /\ FitsOrder(tried.from, tried.opts) => tried.accepted
=============================================================================
