------------------------------- MODULE Orders -------------------------------
(***************************************************************************)
(* The two SDKs and what they talk to, side by side: EVM networks that the *)
(* scripts deploy and orders from them, and orders from Solana.  They      *)
(* share the messages and no state: in a behaviour one side moves, Solana  *)
(* from one of the initial states of the other.                            *)
(***************************************************************************)
EXTENDS EvmDeployment, SolanaOrders

OrdersInit == Init /\ SolanaInit

EvmSide == sale = NoSale /\ updates = 0 /\ Next /\ UNCHANGED solanaVars
SolanaSide ==
  /\ started = {} /\ order = NoOrder /\ files.useLastRun
  /\ SolanaNext /\ UNCHANGED vars
OrdersNext == EvmSide \/ SolanaSide

OrdersSpec == OrdersInit /\ [][OrdersNext]_<<vars, solanaVars>>
=============================================================================
