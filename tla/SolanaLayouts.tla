---------------------------- MODULE SolanaLayouts ----------------------------
(***************************************************************************)
(* What the TypeScript SDK of the Solana swap layer and the program write  *)
(* and read: swap messages, and the arguments of a Jupiter route.          *)
(*                                                                         *)
(* The Rust codec is given as layouts too; its readers leave the bytes     *)
(* behind what they read.  Dexes are named by their ids.                   *)
(***************************************************************************)
EXTENDS Layouts

forceBigInt(name, size) == Uint(name, size)
boolItem(name)       == Num(name, 1, "bool")
evmAddressItem(name) == Raw(name, 20)
timestampItem(name)  == Uint(name, 4)
amountItem(name)     == Uint(name, 16)
gasDropoffItem(name) == Uint(name, 4)

redeemModeItem == Switch("redeemMode", <<
  <<0, "Direct", <<>> >>,
  <<1, "Payload", <<universalAddressItem("sender"), Sized("buf", 2)>> >>,
  <<2, "Relay", <<gasDropoffItem("gasDropoff"), forceBigInt("relayingFee", 6)>> >> >>)

sharedUniswapTraderJoeLayout == <<
  Uint("firstPoolId", 3),
  Array("path", 1, <<evmAddressItem("address"), Uint("poolId", 3)>>) >>
jupiterV6SwapParametersLayout == <<
  Switch("dexProgramId", << <<0, "none", <<>> >>,
                            <<1, "some", <<universalAddressItem("address")>> >> >>) >>
swapTypes == << <<1, "UniswapV3">>, <<2, "TraderJoe">>, <<16, "JupiterV6">> >>
swapItemLayouts == <<sharedUniswapTraderJoeLayout, sharedUniswapTraderJoeLayout,
                     jupiterV6SwapParametersLayout>>
swapItem == Sub("swap", <<
  timestampItem("deadline"), amountItem("limitAmount"),
  Switch("type", zip(swapTypes, swapItemLayouts)) >>)

ioTokenTypes == << <<0, "Usdc">>, <<1, "Gas">>, <<2, "Other">> >>
outputTokenLayouts == << <<>>, <<swapItem>>, <<universalAddressItem("address"), swapItem>> >>
outputTokenItem == Switch("outputToken", zip(ioTokenTypes, outputTokenLayouts))
swapLayerMessageLayout ==
  <<Fixed(1, 1), universalAddressItem("recipient"), redeemModeItem, outputTokenItem>>

decodeSwapLayerMessage(encoded) == Deserialize(swapLayerMessageLayout, encoded)
encodeSwapLayerMessage(message) == Serialize(swapLayerMessageLayout, message)
encodeOutputToken(outputToken) == Serialize(<<outputTokenItem>>, "outputToken" :> outputToken)

-----------------------------------------------------------------------------
(* The program: swap_layer_messages                                         *)
PoolPath(first, second) == <<
  first, Array("path", 1, <<Raw("evm_address", 20), second>>) >>
UniswapSwapParameters == PoolPath(Uint("first_leg_fee", 3), Uint("fee", 3))
TraderJoePoolId(name) == Sub(name, <<Uint("version", 1), Uint("bin_size", 2)>>)
TraderJoeSwapParameters == PoolPath(TraderJoePoolId("first_pool_id"), TraderJoePoolId("pool_id"))
JupiterV6SwapParameters == <<
  Switch("dex_program_id", << <<0, "None", <<>> >>, <<1, "Some", <<Raw("key", 32)>> >> >>) >>
SwapType == Switch("swap_type", <<
  <<1, "UniswapV3", UniswapSwapParameters>>,
  <<2, "TraderJoe", TraderJoeSwapParameters>>,
  <<16, "JupiterV6", JupiterV6SwapParameters>> >>)
OutputSwap == Sub("swap", <<Uint("deadline", 4), Uint("limit_amount", 16), SwapType>>)
OutputToken == Switch("output_token", <<
  <<0, "Usdc", <<>> >>,
  <<1, "Gas", <<OutputSwap>> >>,
  <<2, "Other", <<Raw("address", 32), OutputSwap>> >> >>)
RedeemMode == Switch("redeem_mode", <<
  <<0, "Direct", <<>> >>,
  <<1, "Payload", <<Raw("sender", 32), Sized("buf", 2)>> >>,
  <<2, "Relay", <<Uint("gas_dropoff", 4), Uint("relaying_fee", 6)>> >> >>)
SwapMessageV1 == <<Fixed(1, 1), Raw("recipient", 32), RedeemMode, OutputToken>>

ReadOutputToken(bytes)  == ReadFrom(<<OutputToken>>, bytes)
ReadSwapMessage(bytes)  == ReadFrom(SwapMessageV1, bytes)
WriteSwapMessage(value) == Serialize(SwapMessageV1, value)

-----------------------------------------------------------------------------
(* Arguments of Jupiter's shared accounts route                             *)
Selector == <<193, 32, 155, 51, 65, 214, 156, 129>>
selectorItem(selector) == [i \in DOMAIN selector |-> Fixed(selector[i], 1)]

sideItem == Switch("side", << <<0, "Bid", <<>> >>, <<1, "Ask", <<>> >> >>)
\* The program (strict) refuses a bool that is not 0 or 1.
Bool(name) == Switch(name, << <<0, FALSE, <<>> >>, <<1, TRUE, <<>> >> >>)
Flag(name, strict) == IF strict THEN Bool(name) ELSE boolItem(name)
DexFields(id, strict) ==
  CASE id \in {8, 17}                 -> <<Flag("aToB", strict)>>
    [] id \in {18, 23}                -> <<Flag("xToY", strict)>>
    [] id = 21                        -> <<Flag("stable", strict)>>
    [] id \in {12, 15, 16, 24, 27, 28, 39} -> <<sideItem>>
    [] id = 29 -> <<LittleEndian(Uint("fromTokenId", 8)), LittleEndian(Uint("toTokenId", 8))>>
    [] id \in {33, 41}                -> <<LittleEndian(Uint("bridgeStakeSeed", 4))>>
    [] OTHER                          -> <<>>
Dexes(last, strict) ==
  Switch("swap", [i \in 1..(last + 1) |-> <<i - 1, i - 1, DexFields(i - 1, strict)>>])

jupiterSwapItem == Dexes(38, FALSE)
routePlanStep == <<jupiterSwapItem, Uint("percent", 1), Uint("inputIndex", 1), Uint("outputIndex", 1)>>
RouteArgs(step) ==
  selectorItem(Selector)
    \o << Uint("id", 1), LittleEndian(Array("routePlan", 4, step)),
          LittleEndian(Uint("inAmount", 8)), LittleEndian(Uint("quotedOutAmount", 8)),
          LittleEndian(Uint("slippageBps", 2)), Uint("platformFeeBps", 1) >>
sharedAccountsRouteArgsLayout == RouteArgs(routePlanStep)
decodeSharedAccountsRouteArgs(data) == Deserialize(sharedAccountsRouteArgsLayout, data)
encodeSharedAccountsRouteArgs(decoded) == Serialize(sharedAccountsRouteArgsLayout, decoded)

\* The program knows three more dexes.
Swap == Dexes(41, TRUE)
RoutePlanStep == <<Swap, Uint("percent", 1), Uint("inputIndex", 1), Uint("outputIndex", 1)>>
deserialize_checked(data) == ReadFrom(RouteArgs(RoutePlanStep), data)
=============================================================================
