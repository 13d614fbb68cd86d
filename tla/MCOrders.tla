------------------------------ MODULE MCOrders ------------------------------
(* Two EVM chains of the testnet configuration and a third id that           *)
(* chains.json does not know; on Solana a mint of each token program and     *)
(* routes of Jupiter's API for one of its users.                             *)
EXTENDS Orders

CONSTANTS s1, s2

MCChainIds == <<6, 10003>>
MCLists == {getOperatingChains(list) : list \in {<<6, 10003>>, <<6, 30>>}}
MCSigner == [i \in 1..20 |-> 170]
\* The shell scripts, most without checkNetworks, which changes nothing.
MCCommands == {
  <<"deploySwapLayer", "configureSwapLayer", "testRegularSend">>,
  <<"deploySwapLayer">>,
  <<"checkNetworks --set-last-run">>,
  <<"configureSwapLayer", "testFastSend">>,
  <<"updateSwapLayerFees">>,
  <<"checkNetworks", "upgradeSwapLayer">> }

ConfiguredFees(gasMargin, dropoffMargin) ==
  [baseFee |-> 7, gasPrice |-> 1005, gasPriceMargin |-> gasMargin,
   maxGasDropoff |-> 505, gasDropoffMargin |-> dropoffMargin, gasTokenPrice |-> 100]
\* 25 % and 2 %, as configured for testnet, and 1.25 % and 0.2 %; a file
\* without chain 10003 and with 1000.1 % for chain 6.
TestnetFees == (6 :> ConfiguredFees(2500000, 20000)) @@ (10003 :> ConfiguredFees(125000, 200000))
Config(useLastRun, update, fees) ==
  [useLastRun |-> useLastRun, shouldUpdatePeers |-> update, fees |-> fees]
MCConfigs == {Config(u, TRUE, TestnetFees) : u \in BOOLEAN}
  \union {Config(FALSE, TRUE, 6 :> ConfiguredFees(100010000, 0)), Config(FALSE, FALSE, TestnetFees)}
MCSymmetry == Permutations({s1, s2})

Swap(type) == [deadline |-> 300, limitAmount |-> 65537, type |-> type]
Hop == [address |-> [i \in 1..20 |-> 7], poolId |-> 500]
Uniswap == Swap([tag |-> "UniswapV3", firstPoolId |-> 3000, path |-> <<Hop>>])
TraderJoe == Swap([tag |-> "TraderJoe", firstPoolId |-> 10, path |-> <<>>])
Jupiter == Swap([tag |-> "GenericSolana", dexProgramId |-> [tag |-> "some", address |-> Universal(MCSigner)]])
AnyDex == Swap([tag |-> "GenericSolana", dexProgramId |-> [tag |-> "none"]])
Signature == [i \in 1..65 |-> 9]
Acquires == {
  [tag |-> "Preapproved"],
  [tag |-> "Permit", value |-> 9, deadline |-> 8, signature |-> Signature],
  [tag |-> "Permit2Transfer", amount |-> 9, nonce |-> 8, sigDeadline |-> 7, signature |-> Signature],
  [tag |-> "Permit2Permit", amount |-> 9, expiration |-> 8, nonce |-> 7, sigDeadline |-> 6,
   signature |-> Signature] }
Usdcs == {[tag |-> "Usdc", amount |-> 1000, acquireMode |-> a] : a \in Acquires}
Others == {[tag |-> "Other", approveCheck |-> TRUE, address |-> MCSigner, amount |-> 1000,
            acquireMode |-> a, swap |-> Uniswap] : a \in Acquires}
Gases == {[tag |-> "Gas", swap |-> w] : w \in {Uniswap, TraderJoe}}
Outputs == {[tag |-> "Usdc"]}
  \union {[tag |-> "Gas", swap |-> w] : w \in {Uniswap, TraderJoe, AnyDex}}
  \union {[tag |-> "Other", address |-> Universal(MCSigner), swap |-> w] : w \in {TraderJoe, Jupiter}}
Redeems == {
  [tag |-> "Direct"],
  [tag |-> "Payload", sender |-> Universal(MCSigner), payload |-> <<1, 2>>],
  [tag |-> "Relay", gasDropoff |-> 15, maxRelayingFee |-> 65793],
  [tag |-> "Relay", gasDropoff |-> 600, maxRelayingFee |-> 65793],
  [tag |-> "Relay", gasDropoff |-> 0, maxRelayingFee |-> 50] }
Args(fast, redeem, exact, input, output) ==
  [fastTransferMode |-> fast, redeemMode |-> redeem, isExactIn |-> exact, inputToken |-> input,
   outputToken |-> output]
Slow == [tag |-> "Disabled"]
Enabled == [tag |-> "Enabled", maxFee |-> 258, deadline |-> 77]
Cheap == CHOOSE u \in Usdcs : u.acquireMode.tag = "Preapproved"
\* Every input with two ways to redeem, every output with every way.
MCOrders == {Args(Enabled, r, TRUE, i, [tag |-> "Usdc"]) :
               r \in {x \in Redeems : x.tag = "Payload" \/ (x.tag = "Relay" /\ x.gasDropoff = 15)},
               i \in Usdcs \union Others \union Gases}
  \union {Args(Slow, r, FALSE, Cheap, o) : r \in Redeems, o \in Outputs}

-----------------------------------------------------------------------------
(* Solana *)
Params(base, native, drop, margin, price) ==
  [baseFee |-> base, nativeTokenPrice |-> native, maxGasDropoff |-> 500, gasDropoffMargin |-> drop,
   executionParams |-> [type |-> "evm", gasPrice |-> price, gasPriceMargin |-> margin],
   swapTimeLimit |-> [fastLimit |-> 2, finalizedLimit |-> 2]]
Usual == Params(10, 100, 500, 250, 20)
\* Dearer gas, a cheaper token, relaying disabled, no EVM, beyond a uint48; two
\* that are not accepted.
MCParamSets == {
  Params(12, 110, 400, 1000, 40), Params(7, 70, 500, 0, 20), Params(Fees!U32_MAX, 100, 0, 0, 20),
  [Usual EXCEPT !.executionParams.type = "none"], Params(4999, 1000, 500, 1000, 500),
  Params(0, 100, 0, 0, 20), Params(10, 100, 0, 1001, 20) }

USDT_MINT == <<"usdt">>
MCTokenProgramOf == (USDC_MINT :> TOKEN) @@ (USDT_MINT :> TOKEN_2022)
MCRecipient == Universal(MCSigner)
\* All of its bytes are set.
NoEvmRecipient == [i \in 1..32 |-> 33 - i]
MCSender == [i \in 1..32 |-> 100 + i]
Sale(mint, exact, in, out, redeem, output) ==
  [srcMint |-> mint, isExactIn |-> exact, amountIn |-> in, minAmountOut |-> out, redeem |-> redeem,
   outputToken |-> output, recipient |-> MCRecipient]
SolanaRedeems == {[tag |-> "Direct"], [tag |-> "Payload", buf |-> <<1, 2, 3>>]}
  \union {[tag |-> "Relay", gasDropoff |-> d] : d \in {0, 15, 600}}
OnJupiter == Swap([tag |-> "JupiterV6", dexProgramId |-> [tag |-> "some", address |-> MCRecipient]])
SolanaOutputs == {[tag |-> "Usdc"]}
  \union {[tag |-> "Gas", swap |-> w] : w \in {Uniswap, TraderJoe}}
  \union {[tag |-> "Other", address |-> MCRecipient, swap |-> w] : w \in {TraderJoe, OnJupiter}}
MCSales ==
  {Sale(USDC_MINT, TRUE, 5000, 0, r, o) : r \in SolanaRedeems, o \in SolanaOutputs}
  \union {Sale(USDC_MINT, e, 30, 0, [tag |-> "Relay", gasDropoff |-> 15], [tag |-> "Usdc"]) : e \in BOOLEAN}
  \union {Sale(USDT_MINT, TRUE, 1000, m, r, [tag |-> "Usdc"]) :
            m \in {30, 900}, r \in {[tag |-> "Direct"], [tag |-> "Relay", gasDropoff |-> 0]}}
  \union {[Sale(USDC_MINT, TRUE, 5000, 0, r, [tag |-> "Usdc"]) EXCEPT !.recipient = to] :
            r \in SolanaRedeems, to \in {NoEvmRecipient, Zero32}}

Key(pubkey, signs, writable) == [pubkey |-> pubkey, isSigner |-> signs, isWritable |-> writable]
User == <<"user">>
UsersToken(mint) == Ata(mint, User, MCTokenProgramOf[mint])
\* Jupiter trades through its own accounts or straight through the user's; a
\* dex may name the user again.
RouteKeys(id, from, to, own, fee) ==
  << Key(TOKEN, FALSE, FALSE), Key(programAuthorityAddress(id), FALSE, FALSE), Key(User, TRUE, FALSE),
     Key(UsersToken(from), FALSE, TRUE),
     Key(IF own THEN UsersToken(from) ELSE <<"jupiter", from>>, FALSE, TRUE),
     Key(IF own THEN UsersToken(to) ELSE <<"jupiter", to>>, FALSE, TRUE),
     Key(UsersToken(to), FALSE, TRUE), Key(from, FALSE, FALSE), Key(to, FALSE, FALSE),
     Key(IF fee THEN <<"fee">> ELSE JUPITER, FALSE, fee), Key(TOKEN_2022, FALSE, FALSE),
     Key(<<"event">>, FALSE, FALSE), Key(JUPITER, FALSE, FALSE),
     Key(<<"pool">>, FALSE, TRUE), Key(User, TRUE, FALSE) >>
Hops(swaps) == [i \in DOMAIN swaps |->
  [swap |-> swaps[i], percent |-> 100, inputIndex |-> i - 1, outputIndex |-> i]]
Whirlpool == [tag |-> 17, aToB |-> [tag |-> TRUE]]
Phoenix == [tag |-> 28, side |-> [tag |-> "Ask"]]
Symmetry == [tag |-> 29, fromTokenId |-> 258, toTokenId |-> 3]
OpenbookV2 == [tag |-> 39, side |-> [tag |-> "Bid"]]
\* A route whose plan has no accounts of its own.
Bare(keys) == SubSeq(keys, 1, 13)
RouteOf(keys, id, swaps, slippage) ==
  [programId |-> JUPITER, accounts |-> keys,
   data |-> Serialize(Sdk!RouteArgs(Sdk!RoutePlanStep),
              [id |-> id, routePlan |-> Hops(swaps), inAmount |-> 999, quotedOutAmount |-> 1001,
               slippageBps |-> slippage, platformFeeBps |-> 0])]
MCRoutes == {
  RouteOf(RouteKeys(3, USDT_MINT, USDC_MINT, own, FALSE), 3, swaps, 50) :
    own \in BOOLEAN, swaps \in {<<Whirlpool>>, <<Phoenix, Symmetry>>, <<OpenbookV2>>} }
  \union {
  RouteOf(Bare(RouteKeys(3, USDT_MINT, USDC_MINT, FALSE, FALSE)), 3, <<Whirlpool>>, 50),
  RouteOf(RouteKeys(8, USDT_MINT, USDC_MINT, FALSE, TRUE), 8, <<Whirlpool>>, 50),
  RouteOf(RouteKeys(2, USDC_MINT, USDT_MINT, FALSE, FALSE), 2, <<Whirlpool>>, 10001) }
Asked(in, out, slippage, cpi, src) ==
  [inAmount |-> in, quotedOutAmount |-> out, slippageBps |-> slippage, cpi |-> cpi,
   srcTokenProgram |-> src, dstTokenProgram |-> <<>>]
MCRouteOpts == {
  Asked(<<>>, <<>>, <<>>, TRUE, <<>>), Asked(<<1000>>, <<700>>, <<9999>>, TRUE, <<>>),
  Asked(<<>>, <<>>, <<12000>>, TRUE, <<>>), Asked(<<>>, <<>>, <<>>, FALSE, <<>>),
  Asked(<<>>, <<>>, <<>>, TRUE, <<TOKEN>>) }
=============================================================================
