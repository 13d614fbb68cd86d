----------------------- MODULE SolanaOutboundPromise -----------------------
(***************************************************************************)
(* SolanaOutbound keeps the promise of StagedTransfer.                     *)
(***************************************************************************)
EXTENDS SolanaOutbound, SequencesExt

CONSTANT Cancelled

ASSUME CancelledAssumption == Cancelled \notin Seq(Order)

(* Where the orders made of the staging with index i are: prepared under a  *)
(* key, or placed.                                                          *)
Places(i) ==
  {<<"prepared", k>> : k \in {j \in Keys : orders[j] # None /\ orders[j].id = i}}
    \cup {<<"placed", n>> : n \in {j \in 1 .. Len(placed) : placed[j].id = i}}

OrderAt(p) == IF p[1] = "prepared" THEN orders[p[2]] ELSE placed[p[2]]

OrdersOf(i) ==
  [n \in 1 .. Cardinality(Places(i)) |-> OrderAt(SetToSeq(Places(i))[n])]

(* A staging whose accounts are gone without an order was cancelled.        *)
Outcome(i) ==
  IF Places(i) = {} /\ \A k \in Keys : staged[k] # None => staged[k].id # i
  THEN Cancelled ELSE OrdersOf(i)

(* What an order owes to the request it was made of.                        *)
HonoursWhole(o, e) == HonoursRequest(o, e) /\ CoversFee(o) /\ HonoursAmount(o, e)

Promise == INSTANCE StagedTransfer WITH
  asked <- log,
  outcome <- [i \in 1 .. Len(log) |-> Outcome(i)],
  Honours <- HonoursWhole

(* A staging becomes exactly one order that honours it, or is cancelled;   *)
(* an order never follows a cancellation or another order, although a swap *)
(* with dust leaves its accounts open, anybody may initiate, tokens may be *)
(* sent to the custody account and the key can be staged again.            *)
KeepsPromise == Promise!Spec
=============================================================================
