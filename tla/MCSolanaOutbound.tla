-------------------------- MODULE MCSolanaOutbound --------------------------
(***************************************************************************)
(* Small instances of SolanaOutbound for TLC.                              *)
(***************************************************************************)
EXTENDS SolanaOutboundPromise, TLC

CONSTANTS u1, u2, c1, c2, a1

Args(in, min, exact, chain, redeem, max) ==
  [amountIn |-> in, minOut |-> min, exactIn |-> exact, chain |-> chain,
   recipient |-> a1, redeem |-> redeem, maxFee |-> max]

DirectIn    == Args(1, NoMin, TRUE, c1, "Direct", 0)
RelayIn     == Args(2, NoMin, TRUE, c1, "Relay", 2)
RelayOut    == Args(1, NoMin, FALSE, c1, "Relay", 2)
SwapRelay   == Args(2, 2, TRUE, c1, "Relay", 1)
SwapPayload == Args(2, 1, TRUE, c2, "Payload", 0)

PartyRequests == {RelayOut, Args(2, 1, TRUE, c1, "Direct", 0)}
TermRequests == {RelayIn, RelayOut, SwapRelay, SwapPayload}
AllRequests == PartyRequests \cup TermRequests

(* A delegate wallet, and the transfer authority of an exact-out relay with *)
(* the amount of the higher quote.                                           *)
PartyApprovals ==
  {[mint |-> "usdc", delegate |-> RelayOut, amount |-> 3],
   [mint |-> "spl", delegate |-> u2, amount |-> 2]}

Asked == {log[i] : i \in 1 .. Len(log)}

(* Parties: who pays, who sends, who delegates.  One staging of one key by  *)
(* either wallet, up to the step that closes its accounts; donations bring  *)
(* the custody account to MaxCustody at most.                               *)
MaxCustody == 3
Parties ==
  /\ log = <<>> \/ (Len(log) = 1 /\ \E k \in Keys : staged[k] # None)
  /\ \A k \in Keys : custody[k] # None => custody[k].amount <= MaxCustody
  /\ \A e \in Asked : e.args \in PartyRequests

(* Terms: the first wallet stages the key twice, with every kind of         *)
(* transfer; the second wallet plays no part.                               *)
Terms ==
  /\ \A e \in Asked : e.args \in TermRequests /\ e.refund = u1
  /\ \A u \in Users, m \in Mints : delegation[u][m] = NoDelegation
  /\ deposits[u2] = 0
  /\ \A a \in Assets : wallet[u2][a] = Funds

(* Nothing is relayed to the second chain, so its quote stays as it is.     *)
Regimes == peers[c2].quote = NoQuote /\ (Parties \/ Terms)
=============================================================================
