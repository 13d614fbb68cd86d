----------------------------- MODULE EvmLayouts -----------------------------
(***************************************************************************)
(* The layouts of the TypeScript SDK of the EVM swap layer, layout.ts.     *)
(***************************************************************************)
EXTENDS Layouts

\* Tags without a layout of their own, [id, tag] each.
enumItem(name, entries) ==
  Switch(name, [i \in DOMAIN entries |-> <<entries[i][1], entries[i][2], <<>> >>])
boolItem(name)    == Num(name, 1, "bool")
evmAddressItem(name) == Raw(name, 20)
forceBigInt(name, size) == Num(name, size, "number")
addressChainItem(name) == Sub(name, <<chainItem("chain"), universalAddressItem("address")>>)
timestampItem(name) == Uint(name, 4)
amountItem(name)  == Uint(name, 16)
baseFeeItem(name) == forceBigInt(name, 4)
gasPriceItem(name)   == Num(name, 4, "gasPrice")
gasDropoffItem(name) == Num(name, 4, "gasDropoff")
percentageItem(name) == Num(name, 2, "percentage")
gasTokenPriceItem(name) == Uint(name, 8)

(* The layouts                                                              *)
feeParamsLayout == <<
  Fixed(0, 8),
  gasTokenPriceItem("gasTokenPrice"),
  percentageItem("gasDropoffMargin"),
  gasDropoffItem("maxGasDropoff"),
  percentageItem("gasPriceMargin"),
  gasPriceItem("gasPrice"),
  baseFeeItem("baseFee") >>

fastTransferModeItem == Switch("fastTransferMode", <<
  <<0, "Disabled", <<>> >>,
  <<1, "Enabled", <<forceBigInt("maxFee", 6), timestampItem("deadline")>> >> >>)

redeemModeItem == Switch("redeemMode", <<
  <<0, "Direct", <<>> >>,
  <<1, "Payload", <<universalAddressItem("sender"), Sized("payload", 2)>> >>,
  <<2, "Relay", <<gasDropoffItem("gasDropoff"), forceBigInt("maxRelayingFee", 6)>> >> >>)

signatureItem == Raw("signature", 65)
acquireModeItem == Switch("acquireMode", <<
  <<0, "Preapproved", <<>> >>,
  <<1, "Permit", <<Uint("value", 32), Uint("deadline", 32), signatureItem>> >>,
  <<2, "Permit2Transfer",
     <<Uint("amount", 32), Uint("nonce", 32), Uint("sigDeadline", 32), signatureItem>> >>,
  <<3, "Permit2Permit",
     <<Uint("amount", 20), Uint("expiration", 6), Uint("nonce", 6), Uint("sigDeadline", 32),
       signatureItem>> >> >>)

sharedUniswapTraderJoeLayout == <<
  Uint("firstPoolId", 3),
  Array("path", 1, <<evmAddressItem("address"), Uint("poolId", 3)>>) >>
jupiterV6SwapParametersLayout == <<
  Switch("dexProgramId", << <<0, "none", <<>> >>,
                            <<1, "some", <<universalAddressItem("address")>> >> >>) >>

swapTypesEvm    == << <<1, "UniswapV3">>, <<2, "TraderJoe">> >>
swapTypesSolana == << <<16, "GenericSolana">> >>
swapTypes       == swapTypesEvm \o swapTypesSolana
swapItemLayouts == <<sharedUniswapTraderJoeLayout, sharedUniswapTraderJoeLayout,
                     jupiterV6SwapParametersLayout>>
swapItem == Sub("swap", <<
  timestampItem("deadline"), amountItem("limitAmount"),
  Switch("type", zip(swapTypes, swapItemLayouts)) >>)

ioTokenTypes == << <<0, "Usdc">>, <<1, "Gas">>, <<2, "Other">> >>
inputTokenLayouts == <<
  <<amountItem("amount"), acquireModeItem>>,
  <<swapItem>>,
  <<boolItem("approveCheck"), evmAddressItem("address"), amountItem("amount"),
    acquireModeItem, swapItem>> >>
outputTokenLayouts == <<
  <<>>,
  <<swapItem>>,
  <<universalAddressItem("address"), swapItem>> >>
inputTokenItem == Switch("inputToken", zip(ioTokenTypes, inputTokenLayouts))
outputTokenItem == Switch("outputToken", zip(ioTokenTypes, outputTokenLayouts))

initiateArgsLayout == <<fastTransferModeItem, redeemModeItem, boolItem("isExactIn"),
                        inputTokenItem, outputTokenItem>>
swapMessageLayout == <<Fixed(1, 1), universalAddressItem("recipient"), redeemModeItem,
                       outputTokenItem>>

timestampedGasPriceItem(name) ==
  Sub(name, <<timestampItem("gasPriceTimestamp"), gasPriceItem("gasPrice")>>)
feeParamUpdateItem == Switch("update", <<
  <<0, "GasPrice",         <<timestampedGasPriceItem("value")>> >>,
  <<1, "GasTokenPrice",    <<gasTokenPriceItem("value")>> >>,
  <<2, "BaseFee",          <<baseFeeItem("value")>> >>,
  <<3, "GasPriceMargin",   <<percentageItem("value")>> >>,
  <<4, "GasDropoffMargin", <<percentageItem("value")>> >>,
  <<5, "MaxGasDropoff",    <<gasDropoffItem("value")>> >> >>)
feeParamUpdateLayout == <<chainItem("chain"), feeParamUpdateItem>>

proxyConstructorArgsLayout == <<
  evmAddressItem("owner"), evmAddressItem("assistant"),
  evmAddressItem("feeUpdater"), evmAddressItem("feeRecipient") >>

governanceCommandLayout == << Switch("command", <<
  <<0, "UpdatePeer", <<addressChainItem("peer")>> \o feeParamsLayout>>,
  <<1, "SweepTokens",              <<evmAddressItem("token")>> >>,
  <<2, "UpdateFeeUpdater",         <<evmAddressItem("newFeeUpdater")>> >>,
  <<3, "UpdateAssistant",          <<evmAddressItem("newAssistant")>> >>,
  <<4, "UpdateFeeRecipient",       <<evmAddressItem("newFeeRecipient")>> >>,
  <<5, "UpgradeContract",          <<evmAddressItem("implementation")>> >>,
  <<6, "ProposeOwnershipTransfer", <<evmAddressItem("pendingOwner")>> >>,
  <<7, "RelinquishOwnership",      <<>> >> >>) >>

immutableTypes == <<"Wormhole", "Usdc", "Weth", "Permit2", "UniswapRouter", "LiquidityLayer">>
immutableTypeItem(name) ==
  enumItem(name, [i \in DOMAIN immutableTypes |-> <<i - 1, immutableTypes[i]>>])
querySwapParamLayout == <<Uint("swapCount", 1), enumItem("swapType", swapTypes)>>
relayingFeeQueryLayout == <<
  chainItem("chain"), gasDropoffItem("gasDropoff"),
  Switch("outputToken",
         zip(ioTokenTypes, << <<>>, querySwapParamLayout, querySwapParamLayout>>)) >>
queryLayout == << Switch("query", <<
  <<0, "FeeParams", <<chainItem("chain")>> >>,
  <<1, "RelayingFee", relayingFeeQueryLayout>>,
  <<2, "Peer", <<chainItem("chain")>> >>,
  <<3, "Immutable", <<immutableTypeItem("immutable")>> >>,
  <<4, "Owner", <<>> >>,
  <<5, "PendingOwner", <<>> >>,
  <<6, "Assistant", <<>> >>,
  <<7, "FeeUpdater", <<>> >>,
  <<8, "FeeRecipient", <<>> >>,
  <<9, "Implementation", <<>> >> >>) >>

(* What the SDK exports.                                                     *)
Batch(layout, values) == FlattenSeq([i \in DOMAIN values |-> Serialize(layout, values[i])])
Under(name, values) == [i \in DOMAIN values |-> name :> values[i]]
encodeInitiateArgs(args) == Serialize(initiateArgsLayout, args)
encodeQueriesBatch(queries) == Batch(queryLayout, Under("query", queries))
encodeProxyConstructorArgs(args) == Serialize(proxyConstructorArgsLayout, args)
encodeGovernanceCommandsBatch(commands) ==
  Batch(governanceCommandLayout, Under("command", commands))
encodeFeeParamUpdatesBatch(updates) == Batch(feeParamUpdateLayout, updates)
deserializeSwapMessage(bytes) == Deserialize(swapMessageLayout, bytes)
deserializeFeeParams(bytes) == Deserialize(feeParamsLayout, bytes)
=============================================================================
