--------------------------- MODULE MCEvmSwapLayer ---------------------------
(***************************************************************************)
(* Small instances of EvmSwapLayer for TLC.                                *)
(***************************************************************************)
EXTENDS EvmSwapLayer

CONSTANTS u1, u2, p1

(* No definition tells one fill of the liquidity layer from another.          *)
Symmetry == Permutations(Fills)

To(token, limit, deadline, type) ==
  [token |-> token, limit |-> limit, deadline |-> deadline, type |-> type]

ToUsdc == To("usdc", 0, 0, "jupiter")

Carry(mode, fee, dropoff, output) ==
  [sender |-> p1, amount |-> 2, recipient |-> u1, mode |-> mode, fee |-> fee,
   dropoff |-> dropoff, output |-> output]

(* A relayed fill into ether with a dropoff, and a payload into a token for  *)
(* any output, none included.                                               *)
NestedFills ==
  {Carry("Relay", 1, 1, To("weth", 1, 0, "uniswap")),
   Carry("Payload", 0, 0, To("other", 0, 0, "traderjoe"))}

(* Every mode, fees above the amount, limits of zero, deadlines.            *)
PlainFills == NestedFills \cup
  {Carry("Relay", 3, 0, ToUsdc), Carry("Relay", 2, 1, To("other", 0, 0, "uniswap")),
   Carry("Direct", 0, 0, To("weth", 1, 1, "uniswap")),
   Carry("Direct", 0, 0, To("other", 1, 0, "jupiter"))}

PlainOverrides == {ToUsdc, To("other", 0, 1, "uniswap"), To("weth", 1, 0, "traderjoe")}

Ask(value, fast, fastFee, mode, maxFee, exactIn, token, amount, swap) ==
  [value |-> value, fast |-> fast, fastFee |-> fastFee, mode |-> mode, maxFee |-> maxFee,
   exactIn |-> exactIn, token |-> token, amount |-> amount, swap |-> swap]

Via(limit, deadline, type) == [limit |-> limit, deadline |-> deadline, type |-> type]

(* An exact-out swap of ether that refunds, and an exact-in swap.           *)
NestedRequests ==
  {Ask(3, FALSE, 0, "Relay", 1, FALSE, "weth", 0, Via(1, 0, "uniswap")),
   Ask(1, FALSE, 0, "Direct", 0, TRUE, "other", 2, Via(1, 0, "uniswap"))}

PlainRequests == NestedRequests \cup
  {Ask(2, TRUE, 1, "Relay", 2, TRUE, "usdc", 2, Via(0, 0, "jupiter")),
   Ask(2, TRUE, 1, "Relay", 1, FALSE, "usdc", 1, Via(0, 0, "jupiter")),
   Ask(1, FALSE, 0, "Relay", 2, FALSE, "other", 3, Via(1, 1, "traderjoe")),
   Ask(0, FALSE, 0, "Payload", 0, TRUE, "usdc", 1, Via(0, 0, "jupiter"))}

(* The bounds admit three regimes, explored together.  Nesting: two fills    *)
(* and an order, calls inside calls, of the nested kinds, at one time.       *)
Nesting ==
  /\ clock = 0 /\ donated = 0 /\ quote = 1
  /\ \A f \in Fills : world.fills[f] \in NestedFills \cup {None, Redeemed}
  /\ \A i \in 1..Len(stack) :
       /\ stack[i].override = None
       /\ stack[i].op = "initiate" => stack[i].id \in NestedRequests

(* Redeeming: one fill of any kind, overrides, passing time, donations.      *)
Redeeming ==
  /\ Len(stack) <= 1 /\ world.orders = <<>> /\ quote = 1
  /\ \A i \in 1..Len(stack) : stack[i].op = "redeem"
  /\ Cardinality({f \in Fills : world.fills[f] # None}) <= 1

(* Initiating: one order of any kind, passing time, donations.               *)
Initiating ==
  /\ Len(stack) <= 1
  /\ \A f \in Fills : world.fills[f] = None

Regimes == Nesting \/ Redeeming \/ Initiating
=============================================================================
