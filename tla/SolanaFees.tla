----------------------------- MODULE SolanaFees -----------------------------
(***************************************************************************)
(* The relaying fee as the SDK quotes it and as the program charges it.    *)
(*                                                                         *)
(* Gas is in units of 2000, ETHER and ONE_SOL are 100000, MAX_BPS is 1000, *)
(* the scalars are 10; the largest u32 and uint48 are the two bounds below.*)
(* Bad stands for an error, a None or a thrown Error.                      *)
(***************************************************************************)
EXTENDS Integers, Sequences

EVM_GAS_OVERHEAD       == 140
DROPOFF_GAS_OVERHEAD   == 16
UNISWAP_GAS_OVERHEAD   == 5
UNISWAP_GAS_PER_SWAP   == 60
TRADERJOE_GAS_OVERHEAD == 15
TRADERJOE_GAS_PER_SWAP == 40
ONE_ETHER == 100000
ONE_SOL   == 100000
GAS_PRICE_SCALAR   == 10
GAS_DROPOFF_SCALAR == 10
MAX_BPS == 1000
U32_MAX == 5000
UINT48_MAX == 6000
Bad == -1

-----------------------------------------------------------------------------
(* relayerFees.ts                                                           *)
denormalizeGasDropOff(gasDropOff) == gasDropOff * GAS_DROPOFF_SCALAR
denormalizeGasPrice(gasPrice) == gasPrice * GAS_PRICE_SCALAR
compound(percentage, base) ==
  IF percentage = 0 THEN base ELSE base + (base * percentage) \div MAX_BPS

calculateEvmSwapOverhead(outputToken) ==
  IF outputToken.tag = "Usdc" THEN 0
  ELSE LET type == outputToken.swap.type
       IN CASE type.tag = "UniswapV3" ->
                 UNISWAP_GAS_OVERHEAD + (Len(type.path) + 1) * UNISWAP_GAS_PER_SWAP
            [] type.tag = "TraderJoe" ->
                 TRADERJOE_GAS_OVERHEAD + (Len(type.path) + 1) * TRADERJOE_GAS_PER_SWAP
            [] OTHER -> Bad

calculateEvmGasCost(gasPrice, gasPriceMargin, totalGas, nativeTokenPrice) ==
  compound(gasPriceMargin, (totalGas * denormalizeGasPrice(gasPrice) * nativeTokenPrice) \div ONE_ETHER)
calculateGasDropoffCost(denormGasDropoff, gasDropoffMargin, nativeTokenPrice) ==
  compound(gasDropoffMargin, (denormGasDropoff * nativeTokenPrice) \div ONE_SOL)

calculateRelayerFee(relayParams, denormGasDropOff, outputToken) ==
  LET evm      == relayParams.executionParams
      overhead == calculateEvmSwapOverhead(outputToken)
      totalGas == EVM_GAS_OVERHEAD + overhead
                    + (IF denormGasDropOff > 0 THEN DROPOFF_GAS_OVERHEAD ELSE 0)
      dropoff  == IF denormGasDropOff = 0 THEN 0
                  ELSE calculateGasDropoffCost(denormGasDropOff, relayParams.gasDropoffMargin,
                                               relayParams.nativeTokenPrice)
  IN IF \/ relayParams.baseFee = U32_MAX
        \/ denormGasDropOff > denormalizeGasDropOff(relayParams.maxGasDropoff)
        \/ evm.type = "none" \/ overhead = Bad
     THEN Bad
     ELSE relayParams.baseFee + dropoff
            + calculateEvmGasCost(evm.gasPrice, evm.gasPriceMargin, totalGas,
                                  relayParams.nativeTokenPrice)

-----------------------------------------------------------------------------
(* relayer_fees.rs, gas_dropoff.rs                                          *)
denormalize_gas_dropoff(gas_dropoff) == gas_dropoff * GAS_DROPOFF_SCALAR
denormalize_gas_price(gas_price) == gas_price * GAS_PRICE_SCALAR
compound_checked(percentage, base) ==
  CASE percentage = 0       -> base
    [] percentage > MAX_BPS -> Bad
    [] OTHER                -> (base * percentage) \div MAX_BPS + base

\* type is the swap_type of the OutputSwap that the program read.
calculate_evm_swap_overhead(type) ==
  CASE type.tag = "TraderJoe" ->
         TRADERJOE_GAS_OVERHEAD + TRADERJOE_GAS_PER_SWAP * (Len(type.path) + 1)
    [] type.tag = "UniswapV3" ->
         UNISWAP_GAS_OVERHEAD + UNISWAP_GAS_PER_SWAP * (Len(type.path) + 1)
    [] OTHER -> Bad

calculate_evm_gas_cost(gas_price, gas_price_margin, total_gas, native_token_price) ==
  compound_checked(gas_price_margin,
    (total_gas * denormalize_gas_price(gas_price) * native_token_price) \div ONE_ETHER)
calculate_gas_dropoff_cost(specified_gas_dropoff, gas_dropoff_margin, native_token_price) ==
  compound_checked(gas_dropoff_margin,
    (denormalize_gas_dropoff(specified_gas_dropoff) * native_token_price) \div ONE_SOL)

\* The parts of the fee, base, dropoff and gas; one that is Bad refuses it.
FeeParts(relay_params, specified_gas_dropoff, output_token) ==
  LET evm      == relay_params.executionParams
      overhead == IF output_token.tag = "Usdc" THEN 0
                  ELSE calculate_evm_swap_overhead(output_token.swap.swap_type)
  IN << IF relay_params.baseFee = U32_MAX THEN Bad ELSE relay_params.baseFee,
        CASE specified_gas_dropoff = 0 -> 0
          [] specified_gas_dropoff > relay_params.maxGasDropoff -> Bad
          [] OTHER -> calculate_gas_dropoff_cost(specified_gas_dropoff,
                        relay_params.gasDropoffMargin, relay_params.nativeTokenPrice),
        IF evm.type = "none" \/ overhead = Bad THEN Bad
        ELSE calculate_evm_gas_cost(evm.gasPrice, evm.gasPriceMargin,
               EVM_GAS_OVERHEAD + overhead
                 + (IF specified_gas_dropoff > 0 THEN DROPOFF_GAS_OVERHEAD ELSE 0),
               relay_params.nativeTokenPrice) >>
SumOfParts(parts) ==
  IF \E i \in 1..3 : parts[i] = Bad THEN Bad
  ELSE IF parts[1] + parts[2] + parts[3] > UINT48_MAX THEN Bad
       ELSE parts[1] + parts[2] + parts[3]
calculate_relayer_fee(relay_params, specified_gas_dropoff, output_token) ==
  SumOfParts(FeeParts(relay_params, specified_gas_dropoff, output_token))

verify_relay_params(params) ==
  /\ params.baseFee > 0 /\ params.nativeTokenPrice > 0
  /\ params.gasDropoffMargin <= MAX_BPS
  /\ params.executionParams.type = "evm" =>
       params.executionParams.gasPrice > 0 /\ params.executionParams.gasPriceMargin <= MAX_BPS
=============================================================================
