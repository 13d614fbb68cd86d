------------------------------ MODULE EvmParams ------------------------------
(***************************************************************************)
(* What the contracts read in bytes: the parameters of initiate, swap      *)
(* messages, governance batches of UpdatePeer, queries, the packed         *)
(* FeeParams word and the relaying fee computed from it.                   *)
(*                                                                         *)
(* Offsets count from 0.  An unchecked read behind the end finds junk,     *)
(* here 0; every parser compares its last offset with the length and       *)
(* reverts if it is not the same, so ok = FALSE covers those reads.  Gas,  *)
(* ether and the two units are scaled as in EvmLayouts.                    *)
(***************************************************************************)
EXTENDS EvmLayouts

At(b, o)       == IF o < Len(b) THEN b[o + 1] ELSE 0
Slice(b, o, n) == SubSeq(b, o + 1, o + n)
Uint16(b, o)   == At(b, o) * 256 + At(b, o + 1)
Universal(address) == [i \in 1..12 |-> 0] \o address
Zero32 == [i \in 1..32 |-> 0]

SOLANA_CHAIN_ID == 1
Usdc == 0  \* IoToken
Gas == 1
Other == 2
Direct == 0  \* RedeemMode
Payload == 1
Relay == 2
UNISWAPV3 == 1
TRADERJOE == 2
JUPITERV6 == 16
MODE_SIZE == 1
FAST_TRANSFER_PARAM_SIZE == 6 + 4
RELAY_PARAM_SIZE == 4 + 6
SWAP_HEAD_SIZE == 4 + 16
\* Seeded fault: both Permit2 modes have the size of a transfer.
AcquireSizesAlike == <<0, 32 + 32 + 65, 32 + 32 + 32 + 65, 32 + 32 + 32 + 65>>
AcquireSizes == <<0, 32 + 32 + 65, 32 + 32 + 32 + 65, 20 + 6 + 6 + 32 + 65>>

IsEvmAddress(addr) == First(addr, 12) = First(Zero32, 12)
checkAddr(chain, addr) == addr # Zero32 /\ (chain = SOLANA_CHAIN_ID \/ IsEvmAddress(addr))

-----------------------------------------------------------------------------
\* [type, count, end] of the swap at o; an unknown type ends the parsing.
parseSwapTypeAndCountAndSkipParams(b, o) ==
  LET t == At(b, o + SWAP_HEAD_SIZE)
      p == o + SWAP_HEAD_SIZE + MODE_SIZE
  IN CASE t \in {UNISWAPV3, TRADERJOE} ->
            [type |-> t, count |-> At(b, p + 3) + 1, end |-> p + 4 + At(b, p + 3) * (20 + 3)]
       [] t = JUPITERV6 ->
            [type |-> t, count |-> 1, end |-> p + 1 + (IF At(b, p) = 1 THEN 32 ELSE 0)]
       [] OTHER -> [type |-> 0, count |-> 0, end |-> Len(b)]
SkipSwap(b, o) == parseSwapTypeAndCountAndSkipParams(b, o).end

skipAcquire(b, o) ==
  o + MODE_SIZE + (IF At(b, o) \in 0..3 THEN AcquireSizes[At(b, o) + 1] ELSE 0)

\* Where the blocks of the parameters begin; ok: no revert, no panic.
parseParamBaseStructure(target, b) ==
  LET fast   == At(b, 0)
      r      == 1 + (IF fast = 1 THEN FAST_TRANSFER_PARAM_SIZE ELSE 0)
      redeem == At(b, r)
      x      == r + MODE_SIZE + CASE redeem = Payload -> 2 + Uint16(b, r + 1)
                                  [] redeem = Relay   -> RELAY_PARAM_SIZE
                                  [] OTHER            -> 0
      input  == At(b, x + 1)
      i      == x + 2
      o      == CASE input = Usdc  -> skipAcquire(b, i + 16)
                  [] input = Other -> SkipSwap(b, skipAcquire(b, i + 1 + 20 + 16))
                  [] OTHER         -> SkipSwap(b, i)
      output == At(b, o)
      q      == o + MODE_SIZE
      end    == CASE output = Usdc  -> q
                  [] output = Other -> SkipSwap(b, q + 32)
                  [] OTHER          -> SkipSwap(b, q)
      acquire == CASE input = Usdc -> At(b, i + 16) [] input = Other -> At(b, i + 37) [] OTHER -> 0
  IN [ok |-> /\ fast \in 0..1 /\ redeem \in 0..2 /\ At(b, x) \in 0..1
             /\ input \in 0..2 /\ output \in 0..2 /\ acquire \in 0..3
             /\ end = Len(b)
             /\ output = Other => checkAddr(target, Slice(b, q, 32)),
      fast |-> fast, redeem |-> redeem, redeemAt |-> r + 1, redeemSize |-> x - r - 1,
      isExactIn |-> At(b, x) = 1, input |-> input, inputAt |-> i,
      output |-> output, outputAt |-> q, end |-> end]

-----------------------------------------------------------------------------
(* FeeParams: the fields of the packed word, most significant byte first.  *)
MAX_MANTISSA == 10000
GAS_PRICE_UNIT == 10
GAS_DROPOFF_UNIT == 10
ETHER == 100000
gasTokenPrice(w)    == FromBytes(Slice(w, 8, 8))
gasDropoffMargin(w) == Uint16(w, 16)
maxGasDropoff(w)    == FromBytes(Slice(w, 18, 4))
gasPriceMargin(w)   == Uint16(w, 22)
gasPrice(w)         == FromBytes(Slice(w, 24, 4))
baseFee(w)          == FromBytes(Slice(w, 28, 4))
checkedWrap(w) == gasPriceMargin(w) \div 4 <= MAX_MANTISSA /\ gasDropoffMargin(w) \div 4 <= MAX_MANTISSA
compound(percentage, value) == value + (value * (percentage \div 4)) \div 10^(3 + (percentage % 4))

\* In 10000 gas.
GAS_OVERHEAD == 39
DROPOFF_GAS_OVERHEAD == 3
UNISWAP_GAS_OVERHEAD == 1
UNISWAP_GAS_PER_SWAP == 15
TRADERJOE_GAS_OVERHEAD == 3
TRADERJOE_GAS_PER_SWAP == 10

SwapGasOf(count, type) ==
  CASE count = 0 -> 0
    [] type = UNISWAPV3 -> UNISWAP_GAS_OVERHEAD + UNISWAP_GAS_PER_SWAP * count
    [] OTHER -> TRADERJOE_GAS_OVERHEAD + TRADERJOE_GAS_PER_SWAP * count

\* For an EVM target; dropoff is the number read.
Disabled(w) == Slice(w, 28, 4) = <<255, 255, 255, 255>>
calcRelayingFee(w, dropoff, count, type) ==
  LET gas == GAS_OVERHEAD + (IF dropoff > 0 THEN DROPOFF_GAS_OVERHEAD ELSE 0)
               + SwapGasOf(count, type)
  IN IF \/ Disabled(w) \/ dropoff > maxGasDropoff(w)
        \/ count # 0 /\ type \notin {UNISWAPV3, TRADERJOE}
     THEN [ok |-> FALSE, fee |-> 0]
     ELSE [ok |-> TRUE, fee |-> baseFee(w)
       + compound(gasDropoffMargin(w), dropoff * GAS_DROPOFF_UNIT * gasTokenPrice(w)) \div ETHER
       + compound(gasPriceMargin(w), gas * gasPrice(w) * GAS_PRICE_UNIT * gasTokenPrice(w)) \div ETHER]

-----------------------------------------------------------------------------
\* What the order in b, parsed to s, is charged.
RelayingFeeOf(fees, b, s) ==
  LET swap == parseSwapTypeAndCountAndSkipParams(
                b, s.outputAt + (IF s.output = Other THEN 32 ELSE 0))
  IN calcRelayingFee(fees, FromBytes(Slice(b, s.redeemAt, 4)),
                     IF s.output = Usdc THEN 0 ELSE swap.count, swap.type)

encodeSwapMessage(sender, recipient, b, s, fee) ==
  <<1>> \o recipient \o <<s.redeem>>
    \o (CASE s.redeem = Relay   -> Slice(b, s.redeemAt, 4) \o BigEndian(fee, 6)
          [] s.redeem = Payload -> Universal(sender) \o Slice(b, s.redeemAt, s.redeemSize)
          [] OTHER              -> <<>>)
    \o Slice(b, s.outputAt - MODE_SIZE, s.end - s.outputAt + MODE_SIZE)

RefusedOrder == [ok |-> FALSE, fee |-> 0, message |-> <<>>]
initiateParsed(sender, recipient, b, s, charged) ==
  CASE ~s.ok -> RefusedOrder
    [] s.ok /\ s.redeem = Relay ->
         IF charged.ok /\ charged.fee <= FromBytes(Slice(b, s.redeemAt + 4, 6))
         THEN [ok |-> TRUE, fee |-> charged.fee,
               message |-> encodeSwapMessage(sender, recipient, b, s, charged.fee)]
         ELSE RefusedOrder
    [] OTHER -> [ok |-> TRUE, fee |-> 0, message |-> encodeSwapMessage(sender, recipient, b, s, 0)]

\* initiate up to the order: [ok, fee, message]; fees is the target's word,
\* peer its registered swap layer.
initiate(sender, target, recipient, b, fees, peer) ==
  LET s == parseParamBaseStructure(target, b)
  IN IF ~checkAddr(target, recipient) \/ peer = Zero32 THEN RefusedOrder
     ELSE initiateParsed(sender, recipient, b, s, RelayingFeeOf(fees, b, s))

\* What the target reads of the message before it swaps; it reverts at a
\* recipient that is no EVM address (NotAnEvmAddress).
parseSwapMessageStructure(m) ==
  LET redeem == At(m, 33)
      length == Uint16(m, 34 + 32)
      size == CASE redeem = Payload -> 32 + 2 + length
                [] redeem = Relay   -> RELAY_PARAM_SIZE
                [] OTHER            -> 0
  IN [ok |-> At(m, 0) = 1 /\ IsEvmAddress(Slice(m, 1, 32)) /\ redeem \in 0..2,
      recipient |-> Slice(m, 1, 32), redeem |-> redeem,
      sender |-> IF redeem = Payload THEN Slice(m, 34, 32) ELSE <<>>,
      payload |-> IF redeem = Payload THEN Slice(m, 34 + 34, length) ELSE <<>>,
      swapAt |-> 34 + size]

-----------------------------------------------------------------------------
\* One command of 67 bytes, id, chain, peer and fees, is read at o; the other
\* commands are not written by the scripts.
COMMAND_SIZE == 1 + 2 + 32 + 32
RECURSIVE UpdatePeers(_, _, _, _)
UpdatePeers(chain, of, b, o) ==
  LET peerChain == Uint16(b, o + 1)
      newPeer   == Slice(b, o + 3, 32)
      feeParams == Slice(b, o + 35, 32)
      refused == \/ At(b, o) # 0 \/ o + COMMAND_SIZE > Len(b)
                 \/ newPeer # of.peers[peerChain] /\ peerChain \in {0, chain}
                 \/ newPeer # Zero32 /\ ~checkedWrap(feeParams)
  IN IF o = Len(b) THEN [ok |-> TRUE, of |-> of]
     ELSE IF refused THEN [ok |-> FALSE, of |-> of]
     ELSE UpdatePeers(chain,
            [of EXCEPT !.peers[peerChain] = newPeer,
                       !.fees[peerChain] = IF newPeer = Zero32 THEN Zero32 ELSE feeParams],
            b, o + COMMAND_SIZE)

\* The answer to a batch of FeeParams, RelayingFee and Peer queries.
Quoted(charged) == IF charged.ok THEN BigEndian(charged.fee, 6) ELSE <<Thrown>>
QuoteAt(fees, b, o) ==
  IF At(b, o + 7) = Usdc
  THEN Quoted(calcRelayingFee(fees, FromBytes(Slice(b, o + 3, 4)), 0, 0))
  ELSE Quoted(calcRelayingFee(fees, FromBytes(Slice(b, o + 3, 4)), At(b, o + 8), At(b, o + 9)))
RECURSIVE batchQueries(_, _, _)
batchQueries(of, b, o) ==
  LET chain == Uint16(b, o + 1)
  IN CASE o >= Len(b) -> <<>>
       [] o < Len(b) /\ At(b, o) = 0 -> of.fees[chain] \o batchQueries(of, b, o + 3)
       [] o < Len(b) /\ At(b, o) = 2 -> of.peers[chain] \o batchQueries(of, b, o + 3)
       [] OTHER -> QuoteAt(of.fees[chain], b, o)
                     \o batchQueries(of, b, o + (IF At(b, o + 7) = Usdc THEN 8 ELSE 10))
=============================================================================
