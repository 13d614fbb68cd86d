--------------------------- MODULE MCSolanaInbound ---------------------------
(***************************************************************************)
(* Small instances of SolanaInbound for TLC.                               *)
(***************************************************************************)
EXTENDS SolanaInbound, TLC

CONSTANTS r1, u1, c1, p1, p2

Out(token, deadline) ==
  [token |-> token, limit |-> 1, deadline |-> deadline, jupiter |-> TRUE]

NoSwap == [token |-> "usdc", limit |-> 0, deadline |-> 0, jupiter |-> FALSE]

Carry(mode, fee, type, output) ==
  [chain |-> c1, orderSender |-> p1, type |-> type, timestamp |-> 0, amount |-> 2,
   parses |-> TRUE, recipient |-> r1, mode |-> mode, fee |-> fee,
   dropoff |-> fee, output |-> output]

(* Every redeem mode with every output token, deadlines that pass, a fee    *)
(* that takes all, a message that does not parse, a swap of another chain   *)
(* and a fill whose type was never set.                                     *)
AllModes ==
  {Carry(mode, IF mode = "Relay" THEN 1 ELSE 0, "FastFill", o) :
     mode \in Modes, o \in {NoSwap, Out("gas", 1), Out("other", 0)}}

OddFills ==
  {Carry("Relay", 2, "WormholeCctpDeposit", Out("other", 1)),
   [Carry("Relay", 3, "FastFill", NoSwap) EXCEPT !.dropoff = 1],
   Carry("Relay", 1, "Unset", Out("gas", 1)),
   [Carry("Direct", 0, "FastFill", NoSwap) EXCEPT !.parses = FALSE],
   Carry("Payload", 0, "FastFill", [Out("other", 0) EXCEPT !.jupiter = FALSE])}

AnyFill == AllModes \cup OddFills

Account(p, fast, finalized) ==
  [address |-> p, fastLimit |-> fast, finalizedLimit |-> finalized]

(* A peer whose address or time limits change.                              *)
MovingPeer == {Account(p1, 1, 2), Account(p1, 0, 1), Account(p2, 1, 2)}
=============================================================================
