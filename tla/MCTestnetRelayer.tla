--------------------------- MODULE MCTestnetRelayer ---------------------------
(***************************************************************************)
(* Instances of TestnetRelayer: two chains; orders of each kind.           *)
(***************************************************************************)
EXTENDS TestnetRelayer
CONSTANTS eth, avax, o1, o2, o3, o4, o5

Full == [c \in Chains |-> Required \union Known]
FullConfigs == {Full}
SomeConfigs == {Full, [Full EXCEPT ![avax] = @ \ {"core"}],
                [Full EXCEPT ![avax] = @ \ {"network"}],
                [Full EXCEPT ![avax] = @ \ {"swapLayerAddress"}]}

MCFrom == [o \in Orders |-> eth]
MCTo == [o \in Orders |-> avax]
\* o1 and o2 are plain relays to the same chain, o3 wants a dropoff, o4 has no Circle
\* message in its receipt, o5 is not a relay of the swap layer.
MCKind == [o \in Orders |-> IF o = o4 THEN "nocctp" ELSE IF o = o5 THEN "other" ELSE "relay"]
MCDropoff == [o \in Orders |-> IF o = o3 THEN 1 ELSE 0]
EveryWord == Chains \union {NoChain}
\* readUInt32BE of the buffer made of a string that starts with "0x": it is empty, and throws.
NoWord == {NoChain}
===============================================================================
