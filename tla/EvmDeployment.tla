---------------------------- MODULE EvmDeployment ----------------------------
(***************************************************************************)
(* What the scripts of EvmScripts send, encoded by the SDK and read by the *)
(* contract, and orders that integrators encode with the SDK.  The values  *)
(* that the declared operators of EvmScripts have in a run are defined     *)
(* here: AddressOf, InitialOwner, Encodes, Govern, EncodesFees, Initiates. *)
(***************************************************************************)
EXTENDS EvmScripts, EvmParams

CONSTANTS
  ChainIds,        \* chains.json, a sequence of chain ids
  Signer,          \* the address of the wallet
  SendAmount,      \* testRegularSend.json, testFastSend.json
  Orders,          \* arguments integrators call initiate with
  OrderRuns        \* bound: an integrator's order comes after at most so many

\* What an entry of configureFees.json says, but for the timestamp and the
\* threshold of the gas price, which are written into fee updates only.
FeeConfig ==
  [baseFee : Nat, gasPrice : Nat, gasPriceMargin : Nat, maxGasDropoff : Nat,
   gasDropoffMargin : Nat, gasTokenPrice : Nat]
ASSUME FeesAssumption == \A config \in Configs : Range(config.fees) \subseteq FeeConfig

VARIABLE order  \* the last order of an integrator

vars == <<scriptVars, order>>
Solana == INSTANCE SolanaLayouts

-----------------------------------------------------------------------------
loadChains == Range(ChainIds)
\* Ids that chains.json does not know are dropped.
getOperatingChains(list) == SelectSeq(list, LAMBDA c : c \in loadChains)

Address(c, n) == [i \in 1..20 |-> CASE i = 1 -> c \div 256 [] i = 2 -> c % 256 [] OTHER -> n]
UniversalAddress(c, n) == Universal(Address(c, n))

ProxyArgs(signer) == encodeProxyConstructorArgs(
  [owner |-> signer, assistant |-> signer, feeUpdater |-> signer, feeRecipient |-> signer])
ConstructedOwner == First(ProxyArgs(Signer), 20)

(* configureSwapLayer.ts: the batch, and what the contract makes of it.     *)
UpdatePeer(d, registration) ==
  [tag |-> "UpdatePeer", peer |-> [chain |-> d, address |-> registration.peer]] @@ registration.fees
EncodedBatch(regs) ==
  LET peers == SelectSeq(ChainIds, LAMBDA d : d \in DOMAIN regs)
  IN encodeGovernanceCommandsBatch([i \in DOMAIN peers |-> UpdatePeer(peers[i], regs[peers[i]])])
BatchEncodes(regs) == ~Throws(EncodedBatch(regs))
\* A refused batch is reverted.
batchGovernanceCommands(c, of, regs) ==
  LET updated == UpdatePeers(c, of, EncodedBatch(regs), 0)
  IN IF of.owner = Signer /\ updated.ok THEN [ok |-> TRUE, state |-> updated.of]
     ELSE [ok |-> FALSE, state |-> of]

(* updateSwapLayerFees.ts: the fees of every other chain, field by field.   *)
(* GasPriceUpdateThreshold is not a parameter of the layout.                *)
Update(d, param, value) == [chain |-> d, update |-> [tag |-> param, value |-> value]]
FeeUpdates(d, fees) ==
  << Update(d, "GasPrice", [gasPriceTimestamp |-> 0, gasPrice |-> fees.gasPrice]),
     Update(d, "GasTokenPrice", fees.gasTokenPrice),
     Update(d, "BaseFee", fees.baseFee),
     Update(d, "GasPriceUpdateThreshold", OnePercent),
     Update(d, "GasPriceMargin", fees.gasPriceMargin),
     Update(d, "GasDropoffMargin", fees.gasDropoffMargin),
     Update(d, "MaxGasDropoff", fees.maxGasDropoff) >>
FeesEncode(updates) ==
  LET peers == SelectSeq(ChainIds, LAMBDA d : d \in DOMAIN updates)
  IN ~Throws(encodeFeeParamUpdatesBatch(
               FlattenSeq([i \in DOMAIN peers |-> FeeUpdates(peers[i], updates[peers[i]])])))

(* testRegularSend.ts, testFastSend.ts                                      *)
FastTransferMode(fast) ==
  IF fast THEN [tag |-> "Enabled", maxFee |-> 1000001, deadline |-> 1716290122] ELSE [tag |-> "Disabled"]
createInitiateArgs(config, fast) ==
  [fastTransferMode |-> FastTransferMode(fast),
   redeemMode |-> [tag |-> "Relay", gasDropoff |-> 0, maxRelayingFee |-> 100000000],
   outputToken |-> [tag |-> "Usdc"], isExactIn |-> TRUE,
   inputToken |-> [tag |-> "Usdc", amount |-> config.sendAmount, acquireMode |-> [tag |-> "Preapproved"]]]
Initiated(of, target, recipient, bytes) ==
  initiate(Signer, target, recipient, bytes, of.fees[target], of.peers[target])
TestInitiates(of, fast) ==
  Initiated(of, loadTestSendConfig.toChain, Universal(Signer),
            encodeInitiateArgs(createInitiateArgs([sendAmount |-> SendAmount], fast))).ok

-----------------------------------------------------------------------------
NoOrder == [ok |-> FALSE, args |-> <<>>, chain |-> 0, n |-> 0, target |-> 0, message |-> <<>>, fee |-> 0]
Ordered(c, n, target, args, done) ==
  [ok |-> done.ok, args |-> args, chain |-> c, n |-> n, target |-> target,
   message |-> done.message, fee |-> done.fee]
\* An integrator orders at a contract that has its peers.
SendOrder(c, n, target, args) ==
  /\ order = NoOrder /\ Cardinality(started) <= OrderRuns
  /\ target # c /\ contracts[c][n].state.peers[target] # Zero32
  /\ \A s \in Shells : sh[s].pc = "idle"
  /\ \A d \in Chains : pools[d] = <<>>
  /\ order' = Ordered(c, n, target, args,
                Initiated(contracts[c][n].state, target, Universal(Signer), encodeInitiateArgs(args)))
  /\ UNCHANGED scriptVars

Init == ScriptsInit /\ order = NoOrder
Next ==
  \/ order = NoOrder /\ ScriptsNext /\ UNCHANGED order
  \/ \E c, target \in Chains, args \in Orders :
       \E n \in DOMAIN contracts[c] : SendOrder(c, n, target, args)

Spec == Init /\ [][Next]_vars

-----------------------------------------------------------------------------
(* Once mined, what a contract charges by is what configureFees.json says:   *)
(* exactly for the prices, in whole units, and within a twentieth for the    *)
(* margins, which keep two digits (layout.ts:112); and the SDK reads it back *)
(* as the contract has it, so that configuring a network with the fees it    *)
(* reports changes nothing.                                                  *)
Near(got, asked) == 20 * (IF got > asked THEN got - asked ELSE asked - got) <= asked
Margin(encoded) == (encoded \div 4) * 10^(4 - (encoded % 4))
ChargesAs(w, config) ==
  /\ gasPrice(w) = config.gasPrice \div GAS_PRICE_UNIT
  /\ maxGasDropoff(w) = config.maxGasDropoff \div GAS_DROPOFF_UNIT
  /\ gasTokenPrice(w) = config.gasTokenPrice /\ baseFee(w) = config.baseFee
  /\ Near(Margin(gasPriceMargin(w)), config.gasPriceMargin)
  /\ Near(Margin(gasDropoffMargin(w)), config.gasDropoffMargin)
Reported(w) == batchQueries([fees |-> [d \in Chains |-> w]],
                 encodeQueriesBatch(<<[tag |-> "FeeParams", chain |-> FromChain]>>), 0)
ReadAs(read, w) == read.ok /\ ChargesAs(w, read.v) /\ Serialize(feeParamsLayout, read.v) = w
Registered(d) ==
  LET mined == {c \in Chains : pools[c] = <<>>}
        deployed == {p.state : p \in UNION {Range(contracts[c]) : c \in mined}}
  IN {of.fees[d] : of \in {x \in deployed : x.peers[d] # Zero32}}
FeesAsConfigured ==
  \A d \in Chains : \A w \in Registered(d) :
    /\ ChargesAs(w, loadFeeConfig(d))
    /\ ReadAs(deserializeFeeParams(Reported(w)), w)

(* An order that the SDK encodes is carried out as asked or refused: the     *)
(* message that travels says, to the SDK and to the contract at the target,  *)
(* what its sender wrote, and it is the same to the SDK and the program on   *)
(* Solana; a relayed order is charged what the SDK's query quotes and never  *)
(* more than its maximum.  Refused are only orders beyond that maximum or    *)
(* the largest dropoff, relayed swaps of another platform, and every order   *)
(* with a payload: the SDK writes its sender, which InitiateParams.sol:160   *)
(* does not read.                                                            *)
Swapped(output) == output.tag # "Usdc"
Quote(o) ==
  LET output == o.args.outputToken
      swaps == IF ~Swapped(output) THEN [tag |-> "Usdc"]
               ELSE LET type == output.swap.type
                    IN [tag |-> output.tag, swapType |-> [tag |-> type.tag],
                        swapCount |-> IF type.tag = "GenericSolana" THEN 1 ELSE Len(type.path) + 1]
  IN batchQueries(contracts[o.chain][o.n].state,
       encodeQueriesBatch(<<[tag |-> "RelayingFee", chain |-> o.target,
                             gasDropoff |-> o.args.redeemMode.gasDropoff, outputToken |-> swaps]>>), 0)
MayBeRefused(redeem, quote) ==
  \/ redeem.tag = "Payload"
  \/ redeem.tag = "Relay" /\ (Throws(quote) \/ FromBytes(quote) > redeem.maxRelayingFee)
InputAsAsked(args, b, s, input) ==
  LET fast == args.fastTransferMode
  IN /\ s.isExactIn = args.isExactIn
     /\ Slice(b, s.inputAt - MODE_SIZE, Len(input)) = input
     /\ s.fast = 1 <=> fast.tag = "Enabled"
     /\ s.fast = 1 => /\ Slice(b, 1, 6) = BigEndian(fast.maxFee, 6)
                      /\ Slice(b, 7, 4) = BigEndian(fast.deadline, 4)
MessageAsAsked(o, sdk, at, quote) ==
  LET redeem == o.args.redeemMode
  IN /\ sdk.ok /\ at.ok
     /\ sdk.v.recipient = Universal(Signer) /\ at.recipient = Universal(Signer)
     /\ sdk.v.outputToken = o.args.outputToken /\ sdk.v.redeemMode.tag = redeem.tag
     /\ Rest(o.message, at.swapAt) = Serialize(<<outputTokenItem>>, o.args)
     /\ redeem.tag = "Relay" =>
          /\ at.redeem = Relay
          /\ sdk.v.redeemMode.gasDropoff = (redeem.gasDropoff \div gasDropoffUnit) * gasDropoffUnit
          /\ sdk.v.redeemMode.maxRelayingFee = o.fee
          /\ BigEndian(o.fee, 6) = quote /\ o.fee <= redeem.maxRelayingFee
ReadOnSolana(o, program, sdk) ==
  /\ program.ok /\ program.left = <<>> /\ Solana!WriteSwapMessage(program.v) = o.message
  /\ sdk.ok
  /\ o.args.redeemMode.tag = "Relay" =>
       /\ sdk.v.redeemMode.relayingFee = o.fee
       /\ sdk.v.redeemMode.gasDropoff * gasDropoffUnit <= o.args.redeemMode.gasDropoff
InputOfOrder(o, b) ==
  InputAsAsked(o.args, b, parseParamBaseStructure(o.target, b), Serialize(<<inputTokenItem>>, o.args))
OrderReadAsAsked ==
  order # NoOrder =>
    IF order.ok
    THEN /\ InputOfOrder(order, encodeInitiateArgs(order.args))
         /\ MessageAsAsked(order, deserializeSwapMessage(order.message),
                           parseSwapMessageStructure(order.message), Quote(order))
         /\ ReadOnSolana(order, Solana!ReadSwapMessage(order.message),
                         Solana!decodeSwapLayerMessage(order.message))
    ELSE MayBeRefused(order.args.redeemMode, Quote(order))
=============================================================================
