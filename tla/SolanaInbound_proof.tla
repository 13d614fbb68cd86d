------------------------- MODULE SolanaInbound_proof -------------------------
(***************************************************************************)
(* Proofs about the inbound half of the Solana program, for any wallets,   *)
(* fills, peers, funds and limits.                                         *)
(***************************************************************************)
EXTENDS SolanaInbound, FiniteSetTheorems, TLAPS

(***************************************************************************)
(* How a total changes with one account, for any set of accounts of which  *)
(* only finitely many hold something.                                      *)
(***************************************************************************)

LEMMA UnitsAre ==
  ASSUME NEW S, NEW f \in [S -> Nat]
  PROVE  \A u : u \in Units(f) <=> u[1] \in S /\ u[2] \in 1 .. f[u[1]] /\ u = <<u[1], u[2]>>
<1>1. Units(f) = UNION {{x} \X (1 .. f[x]) : x \in S}
  BY DEF Units
<1>2. ASSUME NEW u, u \in Units(f)
      PROVE  u[1] \in S /\ u[2] \in 1 .. f[u[1]] /\ u = <<u[1], u[2]>>
  <2>1. PICK x \in S : u \in {x} \X (1 .. f[x])
    BY <1>1, <1>2
  <2>. QED BY <2>1
<1>3. ASSUME NEW u, u[1] \in S, u[2] \in 1 .. f[u[1]], u = <<u[1], u[2]>>
      PROVE  u \in Units(f)
  <2>1. u \in {u[1]} \X (1 .. f[u[1]])
    BY <1>3
  <2>. QED BY <1>1, <1>3, <2>1
<1>. QED BY <1>2, <1>3

(* The units of one account.                                               *)
LEMMA UnitsOfOne ==
  ASSUME NEW a, NEW n \in Nat
  PROVE  IsFiniteSet({a} \X (1 .. n)) /\ Cardinality({a} \X (1 .. n)) = n
<1>1. IsFiniteSet({a}) /\ Cardinality({a}) = 1
  BY FS_Singleton
<1>2. IsFiniteSet(1 .. n) /\ Cardinality(1 .. n) = n
  <2>1. Cardinality(1 .. n) = IF 1 > n THEN 0 ELSE n - 1 + 1
    BY FS_Interval
  <2>2. IsFiniteSet(1 .. n)
    BY FS_Interval
  <2>. QED BY <2>1, <2>2
<1>3. Cardinality({a} \X (1 .. n)) = Cardinality({a}) * Cardinality(1 .. n)
  BY <1>1, <1>2, FS_Product
<1>4. IsFiniteSet({a} \X (1 .. n))
  BY <1>1, <1>2, FS_Product
<1>. QED BY <1>1, <1>2, <1>3, <1>4

(* The units of the others, and those of the account that changes.         *)
LEMMA UnitsSplit ==
  ASSUME NEW S, NEW f \in [S -> Nat], NEW a \in S, IsFiniteSet(Units(f))
  PROVE  LET others == {u \in Units(f) : u[1] # a} IN
         /\ IsFiniteSet(others) /\ Cardinality(others) \in Nat
         /\ Units(f) = others \cup ({a} \X (1 .. f[a]))
         /\ Total(f) = Cardinality(others) + f[a]
<1>1. PICK others : others = {u \in Units(f) : u[1] # a}
  OBVIOUS
<1>2. PICK own : own = {a} \X (1 .. f[a])
  OBVIOUS
<1>3. IsFiniteSet(own) /\ Cardinality(own) = f[a] /\ f[a] \in Nat
  BY <1>2, UnitsOfOne
<1>4. IsFiniteSet(others) /\ Cardinality(others) \in Nat
  <2>1. others \in SUBSET Units(f)
    BY <1>1
  <2>2. IsFiniteSet(others)
    BY <2>1, FS_Subset
  <2>. QED BY <2>2, FS_CardinalityType
<1>5. Units(f) = others \cup own
  <2>1. \A u : u \in own <=> u[1] = a /\ u[2] \in 1 .. f[a] /\ u = <<u[1], u[2]>>
    BY <1>2
  <2>. QED BY <1>1, <2>1, UnitsAre
<1>6. others \cap own = {}
  BY <1>1, <1>2
<1>7. Cardinality(others \cup own) = Cardinality(others) + Cardinality(own) - Cardinality(others \cap own)
  BY <1>3, <1>4, FS_Union
<1>8. Cardinality(others \cap own) = 0
  BY <1>6, FS_EmptySet
<1>9. Total(f) = Cardinality(others) + f[a]
  BY <1>3, <1>4, <1>5, <1>7, <1>8 DEF Total
<1>. QED BY <1>1, <1>2, <1>4, <1>5, <1>9

(* A total changes by as much as the one balance that does.                *)
LEMMA TotalChanges ==
  ASSUME NEW S, NEW f \in [S -> Nat], NEW g \in [S -> Nat], NEW a \in S,
         IsFiniteSet(Units(f)), \A x \in S : x # a => g[x] = f[x]
  PROVE  /\ IsFiniteSet(Units(g)) /\ Total(f) \in Nat /\ Total(g) \in Nat
         /\ Total(g) = Total(f) + g[a] - f[a]
<1>1. PICK others : others = {u \in Units(f) : u[1] # a}
  OBVIOUS
<1>2. /\ IsFiniteSet(others) /\ Cardinality(others) \in Nat
      /\ Total(f) = Cardinality(others) + f[a]
  BY <1>1, UnitsSplit
<1>3. PICK own : own = {a} \X (1 .. g[a])
  OBVIOUS
<1>4. IsFiniteSet(own)
  BY <1>3, UnitsOfOne
<1>5. Units(g) = others \cup own
  <2>1. \A u : u \in own <=> u[1] = a /\ u[2] \in 1 .. g[a] /\ u = <<u[1], u[2]>>
    BY <1>3
  <2>2. \A u : u \in others <=> u[1] # a /\ u[1] \in S /\ u[2] \in 1 .. f[u[1]] /\ u = <<u[1], u[2]>>
    BY <1>1, UnitsAre
  <2>3. \A u : u \in Units(g) <=> u[1] \in S /\ u[2] \in 1 .. g[u[1]] /\ u = <<u[1], u[2]>>
    BY UnitsAre
  <2>. QED BY <2>1, <2>2, <2>3
<1>6. IsFiniteSet(Units(g))
  BY <1>2, <1>4, <1>5, FS_Union
<1>7. {u \in Units(g) : u[1] # a} = others
  <2>1. \A u \in own : u[1] = a
    BY <1>3
  <2>. QED BY <1>1, <1>5, <2>1
<1>8. Total(g) = Cardinality(others) + g[a]
  BY <1>6, <1>7, UnitsSplit
<1>. QED BY <1>2, <1>6, <1>8

(* Empty accounts do not count.                                            *)
LEMMA TotalOfNone ==
  ASSUME NEW S, NEW f \in [S -> Nat], \A x \in S : f[x] = 0
  PROVE  IsFiniteSet(Units(f)) /\ Total(f) = 0
<1>1. Units(f) = {}
  BY UnitsAre
<1>. QED BY <1>1, FS_EmptySet DEF Total

(* Accounts that hold the same each.                                       *)
LEMMA TotalOfEqual ==
  ASSUME NEW S, IsFiniteSet(S), NEW n \in Nat
  PROVE  /\ IsFiniteSet(Units([x \in S |-> n])) /\ Cardinality(S) \in Nat
         /\ Total([x \in S |-> n]) = n * Cardinality(S)
<1>1. PICK f : f = [x \in S |-> n]
  OBVIOUS
<1>2. Units(f) = S \X (1 .. n)
  <2>1. f \in [S -> Nat] /\ \A x \in S : f[x] = n
    BY <1>1
  <2>2. \A u : u \in S \X (1 .. n) <=> u[1] \in S /\ u[2] \in 1 .. n /\ u = <<u[1], u[2]>>
    OBVIOUS
  <2>. QED BY <2>1, <2>2, UnitsAre
<1>3. IsFiniteSet(1 .. n) /\ Cardinality(1 .. n) = n
  <2>1. Cardinality(1 .. n) = IF 1 > n THEN 0 ELSE n - 1 + 1
    BY FS_Interval
  <2>2. IsFiniteSet(1 .. n)
    BY FS_Interval
  <2>. QED BY <2>1, <2>2
<1>4. IsFiniteSet(Units(f)) /\ Cardinality(Units(f)) = Cardinality(S) * n /\ Cardinality(S) \in Nat
  BY <1>2, <1>3, FS_Product, FS_CardinalityType
<1>. QED BY <1>1, <1>4 DEF Total

------------------------------------------------------------------------------
Ledger == [Holders -> [Assets -> Nat]]

------------------------------------------------------------------------------
(* What the helpers do.                                                     *)

\* A prepared fill is one, with the contents its fields promise.
LEMMA PendingIsFill ==
  ASSUME TypeOK, NEW f \in Fills, Pending(f)
  PROVE  /\ fills[f] \in Fill
         /\ fills[f].amount \in Nat /\ fills[f].fee \in Nat /\ fills[f].dropoff \in Nat
         /\ fills[f].recipient \in Users /\ fills[f].mode \in Modes
         /\ fills[f].timestamp \in Nat /\ fills[f].chain \in Chains
         /\ fills[f].output \in Output /\ fills[f].output.limit \in Nat
         /\ fills[f].output.token \in Assets /\ swapUsdc[f] \in Nat
         /\ TimeLimit(f) \in Nat
<1>1. fills[f] \in Fill
  BY DEF TypeOK, Pending
<1>2. /\ fills[f].output \in Output /\ fills[f].chain \in Chains
      /\ fills[f].amount \in Nat /\ fills[f].fee \in Nat /\ fills[f].dropoff \in Nat
      /\ fills[f].recipient \in Users /\ fills[f].mode \in Modes /\ fills[f].timestamp \in Nat
  BY <1>1 DEF Fill
<1>3. fills[f].output.limit \in Nat /\ fills[f].output.token \in Assets
  BY <1>2 DEF Output
<1>4. peers[fills[f].chain] \in Peer
  BY <1>2 DEF TypeOK
<1>5. TimeLimit(f) \in Nat
  BY <1>4 DEF TimeLimit, Peer
<1>. QED BY <1>1, <1>2, <1>3, <1>5 DEF TypeOK

\* A transfer of lamports between wallets is covered by its guard.
LEMMA MoveGas ==
  ASSUME NEW w \in Ledger, NEW from \in Users, NEW to \in Users, NEW n \in Nat,
         w[from]["gas"] >= n
  PROVE  /\ Move(w, from, to, "gas", n) \in Ledger
         /\ \A h \in Holders, a \in Assets : a # "gas" => Move(w, from, to, "gas", n)[h][a] = w[h][a]
         /\ Move(w, from, to, "gas", n)[to]["gas"] = w[to]["gas"] + (IF from = to THEN 0 ELSE n)
<1> from \in Holders /\ to \in Holders /\ "gas" \in Assets
  BY DEF Holders, Assets
<1>1. CASE from = to
  BY <1>1 DEF Move, Ledger
<1>2. CASE from # to
  <2> DEFINE m == Move(w, from, to, "gas", n)
  <2>1. m = [w EXCEPT ![from]["gas"] = w[from]["gas"] - n, ![to]["gas"] = w[to]["gas"] + n]
    BY <1>2 DEF Move, Ledger
  <2>2. /\ m[from] = [w[from] EXCEPT !["gas"] = w[from]["gas"] - n]
        /\ m[to] = [w[to] EXCEPT !["gas"] = w[to]["gas"] + n]
        /\ \A h \in Holders : h \notin {from, to} => m[h] = w[h]
        /\ m = [h \in Holders |-> m[h]]
    BY <2>1, <1>2 DEF Ledger
  <2>3. w[from] \in [Assets -> Nat] /\ w[to] \in [Assets -> Nat]
    BY DEF Ledger
  <2>4. m[from] \in [Assets -> Nat] /\ m[to] \in [Assets -> Nat]
    BY <2>2, <2>3
  <2>5. m \in Ledger
    BY <2>2, <2>4 DEF Ledger
  <2>6. \A h \in Holders, a \in Assets : a # "gas" => m[h][a] = w[h][a]
    BY <2>2, <2>3
  <2>. QED BY <2>2, <2>3, <2>5, <2>6, <1>2
<1>. QED BY <1>1, <1>2

\* The ledger of a swap: Jupiter gives what it has, and nothing reaches or
\* leaves a wallet before the output is delivered.
LEMMA SwappedLedger ==
  ASSUME TypeOK, NEW f \in Fills, Pending(f), NEW a \in Assets, a # "usdc",
         NEW spent \in Nat, NEW out \in Nat,
         spent <= fills[f].amount + swapUsdc[f], wallet[Jupiter][a] >= out
  PROVE  /\ Swapped(f, a, spent, out) \in Ledger
         /\ \A u \in Users : Swapped(f, a, spent, out)[u] = wallet[u]
         /\ Swapped(f, a, spent, out)[FeeRecipient]["usdc"]
              = wallet[FeeRecipient]["usdc"] + fills[f].amount + swapUsdc[f] - spent
<1> USE DistinctAssumption
<1> DEFINE s == Swapped(f, a, spent, out)
           j == [wallet[Jupiter] EXCEPT !["usdc"] = wallet[Jupiter]["usdc"] + spent,
                                        ![a] = wallet[Jupiter][a] - out]
           n == wallet[FeeRecipient]["usdc"] + fills[f].amount + swapUsdc[f] - spent
<1>1. /\ FeeRecipient \in Holders /\ Jupiter \in Holders /\ "usdc" \in Assets
      /\ wallet \in Ledger /\ fills[f].amount \in Nat /\ swapUsdc[f] \in Nat
  BY PendingIsFill DEF Holders, Assets, TypeOK, Ledger
<1>2. wallet[Jupiter] \in [Assets -> Nat] /\ wallet[FeeRecipient] \in [Assets -> Nat]
  BY <1>1 DEF Ledger
<1>3. j \in [Assets -> Nat]
  BY <1>1, <1>2
<1>4. n \in Nat
  BY <1>1, <1>2
<1>5. s = [wallet EXCEPT ![Jupiter]["usdc"] = wallet[Jupiter]["usdc"] + spent,
                         ![Jupiter][a] = wallet[Jupiter][a] - out,
                         ![FeeRecipient]["usdc"] = n]
  BY DEF Swapped
<1>6. /\ s[Jupiter] = j /\ s[FeeRecipient] = [wallet[FeeRecipient] EXCEPT !["usdc"] = n]
      /\ \A h \in Users : s[h] = wallet[h]
      /\ s = [h \in Holders |-> s[h]]
  BY <1>1, <1>5 DEF Ledger, Holders
<1>7. s[FeeRecipient] \in [Assets -> Nat]
  BY <1>2, <1>4, <1>6
<1>8. s \in Ledger
  BY <1>1, <1>3, <1>6, <1>7 DEF Ledger, Holders
<1>. QED BY <1>1, <1>2, <1>6, <1>8

------------------------------------------------------------------------------
(* The invariant.  A custody account exists only for a consumed fill, so    *)
(* that what it holds after an instruction is what that instruction paid.   *)
StagedConsumed == \A f \in Fills : staged[f] # None => fills[f] = Consumed

IInv == TypeOK /\ StagedConsumed /\ SwapHonoured

\* What every completion has in common, once its ledger is known to be sound.
LEMMA ConsumeStep ==
  ASSUME IInv, NEW f \in Fills, NEW signers \in SUBSET Users, NEW usdc \in Nat, NEW out \in Nat,
         NEW gas \in Nat, NEW swapped \in BOOLEAN,
         Consume(f, signers, usdc, out, gas, swapped),
         wallet' \in Ledger, swapUsdc' \in [Fills -> Nat],
         \/ UNCHANGED staged
         \/ \E s \in Staged : staged' = [staged EXCEPT ![f] = s],
         LET o == fills[f].output IN o.token # "usdc" =>
           \/ fills[f].recipient \in signers
           \/ swapped /\ out >= o.limit /\ (o.deadline = 0 \/ clock <= o.deadline)
           \/ fills[f].mode = "Relay" /\ clock - fills[f].timestamp >= TimeLimit(f)
  PROVE  IInv'
<1> DEFINE r == [fill |-> fills[f], signers |-> signers, at |-> clock, limit |-> TimeLimit(f),
                 usdc |-> usdc, out |-> out, gas |-> gas, swapped |-> swapped]
<1>1. /\ Pending(f) /\ fills' = [fills EXCEPT ![f] = Consumed]
      /\ receipt' = [receipt EXCEPT ![f] = r] /\ UNCHANGED <<clock, peers>>
  BY DEF Consume, Consumable
<1>2. r \in Receipt
  <2>1. fills[f] \in Fill /\ TimeLimit(f) \in Nat /\ clock \in Nat
    BY <1>1, PendingIsFill DEF IInv, TypeOK
  <2>. QED BY <2>1 DEF Receipt
<1>3. TypeOK'
  <2>1. receipt' \in [Fills -> Receipt \cup {None}]
    BY <1>1, <1>2 DEF IInv, TypeOK
  <2>2. staged' \in [Fills -> Staged \cup {None}]
    BY DEF IInv, TypeOK
  <2>3. fills' \in [Fills -> Fill \cup {None, Consumed}]
    BY <1>1 DEF IInv, TypeOK
  <2>. QED BY <1>1, <2>1, <2>2, <2>3 DEF IInv, TypeOK, Ledger
<1>4. StagedConsumed'
  BY <1>1 DEF IInv, TypeOK, StagedConsumed
<1>5. SwapHonoured'
  <2>1. receipt'[f] = r /\ \A g \in Fills : g # f => receipt'[g] = receipt[g] /\ fills'[g] = fills[g]
    BY <1>1 DEF IInv, TypeOK
  <2>2. /\ r.fill = fills[f] /\ r.signers = signers /\ r.at = clock /\ r.limit = TimeLimit(f)
        /\ r.out = out /\ r.swapped = swapped
    OBVIOUS
  <2>. HIDE DEF r
  <2>. QED BY <2>1, <2>2 DEF IInv, SwapHonoured
<1>. QED BY <1>3, <1>4, <1>5 DEF IInv

------------------------------------------------------------------------------
(* complete_transfer_*: one lemma per instruction.                          *)

LEMMA TransferDirect ==
  ASSUME IInv, NEW f \in Fills, NEW redeemer \in Users, CompleteTransferDirect(f, redeemer)
  PROVE  IInv' /\ PaysOut(f)
<1> USE DistinctAssumption
<1> DEFINE m == fills[f]
<1>1. /\ Consume(f, {redeemer}, m.amount, 0, 0, FALSE) /\ UsdcOrRedeemedByRecipient(f, redeemer)
      /\ wallet' = [wallet EXCEPT ![m.recipient]["usdc"] = @ + m.amount]
      /\ UNCHANGED <<swapUsdc, staged>>
  BY DEF CompleteTransferDirect
<1>2. Pending(f) /\ m.amount \in Nat /\ m.recipient \in Holders /\ m.recipient # FeeRecipient
  BY <1>1, PendingIsFill DEF Consume, Consumable, IInv, Holders
<1>3. wallet' \in Ledger
  BY <1>1, <1>2 DEF IInv, TypeOK, Ledger, Assets
<1>4. m.output.token # "usdc" => m.recipient \in {redeemer}
  BY <1>1 DEF UsdcOrRedeemedByRecipient
<1>5. IInv'
  BY <1>1, <1>2, <1>3, <1>4, ConsumeStep DEF IInv, TypeOK
<1>6. staged'[f] = None
  BY <1>1, <1>2 DEF IInv, StagedConsumed, Pending
<1>7. Got(f, "usdc") = m.amount /\ wallet'[FeeRecipient]["usdc"] = wallet[FeeRecipient]["usdc"]
  BY <1>1, <1>2, <1>6 DEF Got, IInv, TypeOK, Holders, Assets
<1>8. PaysOut(f)
  <2>1. wallet[FeeRecipient]["usdc"] \in Nat
    BY DEF IInv, TypeOK, Holders, Assets
  <2>. QED BY <1>7, <2>1 DEF PaysOut
<1>. QED BY <1>5, <1>8

\* A dropoff that the recipient pays himself is none, and one of the relayer
\* is the message's.
LEMMA TransferRelay ==
  ASSUME IInv, NEW f \in Fills, NEW payer \in Users, NEW redeemer \in Users,
         CompleteTransferRelay(f, payer, redeemer)
  PROVE  IInv' /\ PaysOut(f)
<1> USE DistinctAssumption
<1> DEFINE m == fills[f]
           fee == IF redeemer = m.recipient THEN 0 ELSE m.fee
           gas == IF redeemer = m.recipient THEN 0 ELSE m.dropoff
           w == Move(wallet, payer, m.recipient, "gas", gas)
<1>1. /\ Consume(f, {payer, redeemer}, m.amount - fee, 0, gas, FALSE)
      /\ UsdcOrRedeemedByRecipient(f, redeemer) \/ TimeLimitPassed(f)
      /\ m.mode = "Relay" /\ wallet[payer]["gas"] >= gas /\ FeePayable(m.amount, fee)
      /\ wallet' = [w EXCEPT ![m.recipient]["usdc"] = @ + m.amount - fee,
                             ![FeeRecipient]["usdc"] = @ + fee]
      /\ UNCHANGED <<swapUsdc, staged>>
  BY DEF CompleteTransferRelay
<1>2. /\ Pending(f) /\ m.amount \in Nat /\ m.recipient \in Users /\ m.recipient \in Holders
      /\ m.recipient # FeeRecipient /\ FeeRecipient \in Holders
      /\ m.fee \in Nat /\ m.dropoff \in Nat
      /\ m.timestamp \in Nat /\ TimeLimit(f) \in Nat
  BY <1>1, PendingIsFill DEF Consume, Consumable, IInv, Holders
<1>3. fee \in Nat /\ gas \in Nat /\ m.amount - fee \in Nat
  BY <1>1, <1>2 DEF FeePayable
<1>4. /\ w \in Ledger
      /\ \A h \in Holders, a \in Assets : a # "gas" => w[h][a] = wallet[h][a]
      /\ w[m.recipient]["gas"] = wallet[m.recipient]["gas"] + (IF payer = m.recipient THEN 0 ELSE gas)
  <2>. HIDE DEF gas
  <2>1. wallet \in Ledger
    BY DEF IInv, TypeOK, Ledger
  <2>. QED BY <1>1, <1>2, <1>3, <2>1, MoveGas
<1> HIDE DEF w, fee, gas
<1>5. wallet' \in Ledger
  BY <1>1, <1>2, <1>3, <1>4 DEF Ledger, Assets
<1>6. m.output.token # "usdc" =>
        \/ m.recipient \in {payer, redeemer}
        \/ m.mode = "Relay" /\ clock - m.timestamp >= TimeLimit(f)
  BY <1>1 DEF UsdcOrRedeemedByRecipient, TimeLimitPassed
<1>7. IInv'
  <2>1. {payer, redeemer} \in SUBSET Users
    OBVIOUS
  <2>. QED BY <1>1, <1>3, <1>5, <1>6, <2>1, ConsumeStep DEF IInv, TypeOK
<1>8. staged'[f] = None
  BY <1>1, <1>2 DEF IInv, StagedConsumed, Pending
<1>9. /\ wallet'[m.recipient]["usdc"] = wallet[m.recipient]["usdc"] + m.amount - fee
      /\ wallet'[m.recipient]["gas"]
           = wallet[m.recipient]["gas"] + (IF payer = m.recipient THEN 0 ELSE gas)
      /\ wallet'[FeeRecipient]["usdc"] = wallet[FeeRecipient]["usdc"] + fee
  BY <1>1, <1>2, <1>4 DEF Ledger, Assets
<1>10. /\ wallet[m.recipient]["usdc"] \in Nat /\ wallet[m.recipient]["gas"] \in Nat
       /\ wallet[FeeRecipient]["usdc"] \in Nat
  BY <1>2 DEF IInv, TypeOK, Assets
<1>11. /\ Got(f, "usdc") = m.amount - fee
       /\ Got(f, "gas") = IF payer = m.recipient THEN 0 ELSE gas
       /\ wallet'[FeeRecipient]["usdc"] - wallet[FeeRecipient]["usdc"] = fee
  BY <1>2, <1>3, <1>8, <1>9, <1>10 DEF Got
<1>12. receipt'[f].signers = {payer, redeemer}
  BY <1>1 DEF Consume, IInv, TypeOK
<1>13. PaysOut(f)
  <2>1. CASE redeemer = m.recipient
    BY <1>2, <1>11, <2>1 DEF PaysOut, fee
  <2>2. CASE redeemer # m.recipient
    BY <1>1, <1>2, <1>11, <1>12, <2>2 DEF PaysOut, fee, gas
  <2>. QED BY <2>1, <2>2
<1>. QED BY <1>7, <1>13

LEMMA TransferPayload ==
  ASSUME IInv, NEW f \in Fills, NEW payer \in Users, NEW redeemer \in Users,
         CompleteTransferPayload(f, payer, redeemer)
  PROVE  IInv' /\ PaysOut(f)
<1> USE DistinctAssumption
<1> DEFINE m == fills[f]
           s == [recipient |-> m.recipient, asset |-> "usdc", amount |-> m.amount, isNative |-> FALSE]
<1>1. /\ Consume(f, {payer, redeemer}, m.amount, 0, 0, FALSE)
      /\ UsdcOrRedeemedByRecipient(f, redeemer)
      /\ staged' = [staged EXCEPT ![f] = s]
      /\ UNCHANGED <<wallet, swapUsdc>>
  BY DEF CompleteTransferPayload
<1>2. Pending(f) /\ m.amount \in Nat /\ m.recipient \in Users
  BY <1>1, PendingIsFill DEF Consume, Consumable, IInv
<1>3. s \in Staged
  BY <1>2 DEF Staged, Assets
<1>4. staged'[f] = s /\ s # None /\ s.asset = "usdc" /\ s.amount = m.amount
  BY <1>1, <1>3, NoneIsNotStaged DEF IInv, TypeOK
<1>5. IInv'
  <2>1. m.output.token # "usdc" => m.recipient \in {payer, redeemer}
    BY <1>1 DEF UsdcOrRedeemedByRecipient
  <2>2. {payer, redeemer} \in SUBSET Users
    OBVIOUS
  <2>. HIDE DEF s
  <2>. QED BY <1>1, <1>2, <1>3, <2>1, <2>2, ConsumeStep DEF IInv, TypeOK, Ledger
<1>6. PaysOut(f)
  <2>1. wallet[m.recipient]["usdc"] \in Nat /\ wallet[FeeRecipient]["usdc"] \in Nat
    BY <1>2 DEF IInv, TypeOK, Holders, Assets
  <2>2. Got(f, "usdc") = m.amount
    BY <1>1, <1>2, <1>4, <2>1 DEF Got
  <2>. QED BY <1>1, <2>1, <2>2 DEF PaysOut
<1>. QED BY <1>5, <1>6

------------------------------------------------------------------------------
(* complete_swap_*                                                          *)

\* What is swapped for is never USDC.
LEMMA OutputIsNoUsdc ==
  ASSUME NEW f \in Fills, NEW a \in Assets, OutputAsset(f, a)
  PROVE  /\ a # "usdc"
         /\ a = IF fills[f].output.token = "usdc" THEN "other" ELSE fills[f].output.token
BY DEF OutputAsset

\* The delivery of a swap: the recipient has the output and the dropoff, the
\* fee recipient what Jupiter did not take.
LEMMA Delivered ==
  ASSUME IInv, NEW f \in Fills, Pending(f), NEW a \in Assets, a # "usdc", NEW payer \in Users,
         NEW spent \in Nat, NEW out \in Nat, NEW gas \in Nat,
         spent <= fills[f].amount + swapUsdc[f], Deliver(f, a, payer, spent, out, gas)
  PROVE  LET r == fills[f].recipient
             moved == IF payer = r THEN 0 ELSE gas
         IN /\ wallet' \in Ledger
            /\ wallet'[FeeRecipient]["usdc"]
                 = wallet[FeeRecipient]["usdc"] + fills[f].amount + swapUsdc[f] - spent
            /\ wallet'[r][a] = wallet[r][a] + out + (IF a = "gas" THEN moved ELSE 0)
            /\ a # "gas" => wallet'[r]["gas"] = wallet[r]["gas"] + moved
<1> USE DistinctAssumption
<1> DEFINE r == fills[f].recipient
           s == Swapped(f, a, spent, out)
           w == [s EXCEPT ![r][a] = @ + out]
<1>1. /\ wallet[Jupiter][a] >= out /\ wallet[payer]["gas"] >= gas
      /\ wallet' = Move(w, payer, r, "gas", gas)
  BY DEF Deliver
<1>2. /\ r \in Users /\ r \in Holders /\ payer \in Holders /\ r # FeeRecipient
      /\ FeeRecipient \in Holders /\ "usdc" \in Assets /\ "gas" \in Assets
      /\ wallet \in Ledger
  BY PendingIsFill DEF IInv, Holders, Assets, TypeOK, Ledger
<1>3. /\ s \in Ledger /\ \A u \in Users : s[u] = wallet[u]
      /\ s[FeeRecipient]["usdc"]
           = wallet[FeeRecipient]["usdc"] + fills[f].amount + swapUsdc[f] - spent
  BY <1>1, SwappedLedger DEF IInv
<1> HIDE DEF s
<1>4. s[r] \in [Assets -> Nat] /\ s[r] = wallet[r]
  BY <1>2, <1>3 DEF Ledger
<1>5. /\ w \in Ledger /\ w[r] = [s[r] EXCEPT ![a] = s[r][a] + out]
      /\ \A h \in Holders : h # r => w[h] = s[h]
  BY <1>2, <1>3, <1>4 DEF Ledger
<1>6. /\ w[r][a] = wallet[r][a] + out
      /\ \A b \in Assets : b # a => w[r][b] = wallet[r][b]
      /\ w[FeeRecipient]["usdc"] = s[FeeRecipient]["usdc"]
  BY <1>2, <1>4, <1>5
<1>7. w[payer]["gas"] >= gas
  <2>1. CASE payer = r
    BY <1>1, <1>2, <1>4, <1>6, <2>1
  <2>2. CASE payer # r
    BY <1>1, <1>2, <1>3, <1>5, <2>2
  <2>. QED BY <2>1, <2>2
<1> HIDE DEF w
<1>8. /\ wallet' \in Ledger
      /\ \A h \in Holders, b \in Assets : b # "gas" => wallet'[h][b] = w[h][b]
      /\ wallet'[r]["gas"] = w[r]["gas"] + (IF payer = r THEN 0 ELSE gas)
  <2>1. w \in Ledger /\ r \in Users /\ w[payer]["gas"] >= gas
    BY <1>2, <1>5, <1>7
  <2>2. wallet' = Move(w, payer, r, "gas", gas)
    BY <1>1
  <2>. HIDE DEF r
  <2>3. /\ Move(w, payer, r, "gas", gas) \in Ledger
        /\ \A h \in Holders, b \in Assets : b # "gas" => Move(w, payer, r, "gas", gas)[h][b] = w[h][b]
        /\ Move(w, payer, r, "gas", gas)[r]["gas"] = w[r]["gas"] + (IF payer = r THEN 0 ELSE gas)
    BY <2>1, MoveGas
  <2>. QED BY <2>2, <2>3
<1>9. wallet'[FeeRecipient]["usdc"] = s[FeeRecipient]["usdc"]
  BY <1>2, <1>6, <1>8
<1>10. wallet'[r][a] = wallet[r][a] + out
                       + (IF a = "gas" THEN IF payer = r THEN 0 ELSE gas ELSE 0)
  <2>1. wallet[r][a] \in Nat
    BY <1>2 DEF Ledger
  <2>. QED BY <1>2, <1>6, <1>8, <2>1
<1>11. a # "gas" => wallet'[r]["gas"] = wallet[r]["gas"] + (IF payer = r THEN 0 ELSE gas)
  BY <1>2, <1>6, <1>8
<1>. QED BY <1>3, <1>8, <1>9, <1>10, <1>11

\* A swap that ran was in time and gave the limit.
LEMMA SwapInTime ==
  ASSUME NEW f \in Fills, NEW in, NEW spent, NEW out, Swap(f, in, spent, out),
         fills[f].output.token # "usdc"
  PROVE  /\ out >= fills[f].output.limit
         /\ fills[f].output.deadline = 0 \/ clock <= fills[f].output.deadline
BY DEF Swap, ValidOutputSwap

\* The two instructions that deliver to the recipient.
LEMMA SwapDelivers ==
  ASSUME IInv, NEW f \in Fills, NEW a \in Assets, NEW payer \in Users,
         NEW spent \in Nat, NEW out \in Nat, NEW fee \in Nat, NEW gas \in Nat,
         Consume(f, {payer}, 0, out, gas, TRUE), OutputAsset(f, a),
         fee <= fills[f].amount + swapUsdc[f],
         Swap(f, fills[f].amount + swapUsdc[f] - fee, spent, out),
         Deliver(f, a, payer, spent, out, gas), UNCHANGED staged,
         fills[f].mode = "Relay" /\ payer # fills[f].recipient
           => fee = fills[f].fee /\ gas = fills[f].dropoff,
         fills[f].mode # "Relay" \/ payer = fills[f].recipient => gas = 0
  PROVE  IInv' /\ PaysOut(f)
<1> USE DistinctAssumption
<1> DEFINE m == fills[f]
           r == m.recipient
           moved == IF payer = r THEN 0 ELSE gas
<1>1. /\ Pending(f) /\ m.amount \in Nat /\ swapUsdc[f] \in Nat /\ r \in Users
      /\ r \in Holders /\ FeeRecipient \in Holders /\ m.output.token \in Assets
  BY PendingIsFill DEF Consume, Consumable, IInv, Holders
<1>2. spent <= m.amount + swapUsdc[f] - fee /\ swapUsdc' = [swapUsdc EXCEPT ![f] = 0]
  BY DEF Swap
<1>3. spent <= m.amount + swapUsdc[f]
  BY <1>1, <1>2
<1>4. /\ wallet' \in Ledger
      /\ wallet'[FeeRecipient]["usdc"]
           = wallet[FeeRecipient]["usdc"] + m.amount + swapUsdc[f] - spent
      /\ wallet'[r][a] = wallet[r][a] + out + (IF a = "gas" THEN moved ELSE 0)
      /\ a # "gas" => wallet'[r]["gas"] = wallet[r]["gas"] + moved
  BY <1>1, <1>3, Delivered, OutputIsNoUsdc
<1>5. IInv'
  <2>1. swapUsdc' \in [Fills -> Nat]
    BY <1>2 DEF IInv, TypeOK
  <2>. QED BY <1>4, <2>1, SwapInTime, ConsumeStep
<1>6. staged'[f] = None
  BY <1>1 DEF IInv, StagedConsumed, Pending
<1>7. /\ wallet[r][a] \in Nat /\ wallet[r]["gas"] \in Nat
      /\ wallet[FeeRecipient]["usdc"] \in Nat
  BY <1>1 DEF IInv, TypeOK, Assets
<1>8. /\ Got(f, a) = out + (IF a = "gas" THEN moved ELSE 0)
      /\ a # "gas" => Got(f, "gas") = moved
      /\ wallet'[FeeRecipient]["usdc"] - wallet[FeeRecipient]["usdc"] >= fee
  BY <1>1, <1>2, <1>4, <1>6, <1>7 DEF Got
<1>9. receipt'[f].signers = {payer} /\ receipt'[f].swapped /\ receipt'[f].out = out
  BY DEF Consume, IInv, TypeOK
<1>10. PaysOut(f)
  <2>. DEFINE relayed == m.mode = "Relay" /\ r \notin receipt'[f].signers
  <2>1. relayed <=> m.mode = "Relay" /\ payer # r
    BY <1>9
  <2>2. moved = IF relayed THEN m.dropoff ELSE 0
    BY <2>1
  <2>3. wallet'[FeeRecipient]["usdc"] - wallet[FeeRecipient]["usdc"]
          >= IF relayed THEN m.fee ELSE 0
    BY <1>8, <2>1, <1>1, <1>4, <1>7
  <2>. HIDE DEF relayed, moved
  <2>4. a = IF m.output.token = "usdc" THEN "other" ELSE m.output.token
    BY OutputIsNoUsdc
  <2>. QED BY <1>8, <1>9, <2>2, <2>3, <2>4 DEF PaysOut, relayed
<1>. QED BY <1>5, <1>10

LEMMA SwapDirect ==
  ASSUME IInv, NEW f \in Fills, NEW a \in Assets, NEW payer \in Users,
         NEW spent \in Nat, NEW out \in Nat, CompleteSwapDirect(f, a, payer, spent, out)
  PROVE  IInv' /\ PaysOut(f)
<1>1. Pending(f) /\ fills[f].amount \in Nat /\ swapUsdc[f] \in Nat
  BY PendingIsFill DEF CompleteSwapDirect, Consume, Consumable, IInv
<1>2. fills[f].amount + swapUsdc[f] - 0 = fills[f].amount + swapUsdc[f]
  BY <1>1
<1>3. /\ Consume(f, {payer}, 0, out, 0, TRUE) /\ fills[f].mode = "Direct" /\ OutputAsset(f, a)
      /\ Swap(f, fills[f].amount + swapUsdc[f], spent, out)
      /\ Deliver(f, a, payer, spent, out, 0) /\ UNCHANGED staged
  BY DEF CompleteSwapDirect
<1>4. 0 <= fills[f].amount + swapUsdc[f] /\ 0 \in Nat /\ fills[f].mode # "Relay"
  BY <1>1, <1>3
<1>. QED BY <1>2, <1>3, <1>4, SwapDelivers

LEMMA SwapRelay ==
  ASSUME IInv, NEW f \in Fills, NEW a \in Assets, NEW payer \in Users,
         NEW spent \in Nat, NEW out \in Nat, CompleteSwapRelay(f, a, payer, spent, out)
  PROVE  IInv' /\ PaysOut(f)
<1> DEFINE fee == IF payer = fills[f].recipient THEN 0 ELSE fills[f].fee
           gas == IF payer = fills[f].recipient THEN 0 ELSE fills[f].dropoff
<1>1. /\ Consume(f, {payer}, 0, out, gas, TRUE) /\ OutputAsset(f, a)
      /\ FeePayable(fills[f].amount + swapUsdc[f], fee)
      /\ Swap(f, fills[f].amount + swapUsdc[f] - fee, spent, out)
      /\ Deliver(f, a, payer, spent, out, gas) /\ UNCHANGED staged
  BY DEF CompleteSwapRelay
<1>2. /\ fills[f].fee \in Nat /\ fills[f].dropoff \in Nat
      /\ fills[f].amount \in Nat /\ swapUsdc[f] \in Nat
  BY <1>1, PendingIsFill DEF Consume, Consumable, IInv
<1>3. fee \in Nat /\ gas \in Nat /\ fee <= fills[f].amount + swapUsdc[f]
  BY <1>1, <1>2 DEF FeePayable
<1>4. /\ payer # fills[f].recipient => fee = fills[f].fee /\ gas = fills[f].dropoff
      /\ payer = fills[f].recipient => gas = 0
  OBVIOUS
<1>5. fills[f].mode = "Relay"
  BY DEF CompleteSwapRelay
<1> HIDE DEF fee, gas
<1>. QED BY <1>1, <1>3, <1>4, <1>5, SwapDelivers

LEMMA SwapPayload ==
  ASSUME IInv, NEW f \in Fills, NEW a \in Assets, NEW payer \in Users,
         NEW spent \in Nat, NEW out \in Nat, CompleteSwapPayload(f, a, payer, spent, out)
  PROVE  IInv' /\ PaysOut(f)
<1> USE DistinctAssumption
<1> DEFINE m == fills[f]
           s == [recipient |-> m.recipient, asset |-> a, amount |-> out, isNative |-> a = "gas"]
<1>1. /\ Consume(f, {payer}, 0, out, 0, TRUE) /\ m.mode = "Payload" /\ OutputAsset(f, a)
      /\ Swap(f, m.amount + swapUsdc[f], spent, out) /\ wallet[Jupiter][a] >= out
      /\ wallet' = Swapped(f, a, spent, out) /\ staged' = [staged EXCEPT ![f] = s]
  BY DEF CompleteSwapPayload
<1>2. /\ Pending(f) /\ m.amount \in Nat /\ swapUsdc[f] \in Nat /\ m.recipient \in Users
      /\ spent <= m.amount + swapUsdc[f] /\ swapUsdc' = [swapUsdc EXCEPT ![f] = 0]
  BY <1>1, PendingIsFill DEF Consume, Consumable, IInv, Swap
<1>3. /\ wallet' \in Ledger /\ wallet'[m.recipient] = wallet[m.recipient]
      /\ wallet'[FeeRecipient]["usdc"]
           = wallet[FeeRecipient]["usdc"] + m.amount + swapUsdc[f] - spent
  BY <1>1, <1>2, SwappedLedger, OutputIsNoUsdc DEF IInv
<1>4. s \in Staged
  BY <1>2 DEF Staged
<1>5. staged'[f] = s /\ s # None /\ s.asset = a /\ s.amount = out
  BY <1>1, <1>4, NoneIsNotStaged DEF IInv, TypeOK
<1>6. IInv'
  <2>1. swapUsdc' \in [Fills -> Nat] /\ {payer} \in SUBSET Users
    BY <1>2 DEF IInv, TypeOK
  <2>. HIDE DEF s
  <2>. QED BY <1>1, <1>3, <1>4, <2>1, SwapInTime, ConsumeStep
<1>7. receipt'[f].swapped /\ receipt'[f].out = out
  BY <1>1 DEF Consume, IInv, TypeOK
<1>8. /\ wallet[m.recipient][a] \in Nat /\ wallet[m.recipient]["gas"] \in Nat
      /\ wallet[FeeRecipient]["usdc"] \in Nat
  BY <1>2 DEF IInv, TypeOK, Holders, Assets
<1>9. /\ Got(f, a) = out
      /\ a # "gas" => Got(f, "gas") = 0
      /\ wallet'[FeeRecipient]["usdc"] - wallet[FeeRecipient]["usdc"] >= 0
  <2>. HIDE DEF s
  <2>. QED BY <1>2, <1>3, <1>5, <1>8 DEF Got
<1>10. PaysOut(f)
  <2>1. a = IF m.output.token = "usdc" THEN "other" ELSE m.output.token
    BY <1>1, OutputIsNoUsdc
  <2>. QED BY <1>1, <1>7, <1>9, <2>1 DEF PaysOut
<1>. QED BY <1>6, <1>10

------------------------------------------------------------------------------
(* Everything else.                                                         *)

LEMMA OtherSteps ==
  ASSUME IInv,
         \/ \E f \in Fills : Release(f) \/ \E u \in Users : Donate(u, f)
         \/ \E f \in Fills, m \in Incoming : PrepareFill(f, m)
         \/ \E c \in Chains, p \in PeerAccounts : UpdatePeer(c, p)
         \/ Tick \/ UNCHANGED vars
  PROVE  /\ IInv'
         /\ \A f \in Fills : Pending(f) => fills'[f] # Consumed
<1> USE DistinctAssumption, InputsAssumption
<1>1. ASSUME NEW f \in Fills, Release(f) PROVE UNCHANGED fills /\ IInv'
  <2>1. PICK signer, dst \in Users : ReleaseInbound(f, signer, dst)
    BY <1>1 DEF Release
  <2>2. staged[f] \in Staged /\ dst \in Holders
    BY <2>1 DEF ReleaseInbound, IInv, TypeOK, Holders
  <2>3. staged[f].asset \in Assets /\ staged[f].amount \in Nat
    BY <2>2 DEF Staged
  <2>4. wallet' \in [Holders -> [Assets -> Nat]]
    BY <2>1, <2>2, <2>3 DEF ReleaseInbound, IInv, TypeOK
  <2>5. staged' \in [Fills -> Staged \cup {None}] /\ StagedConsumed'
    BY <2>1 DEF ReleaseInbound, IInv, TypeOK, StagedConsumed
  <2>. QED BY <2>1, <2>4, <2>5 DEF ReleaseInbound, IInv, TypeOK, SwapHonoured
<1>2. ASSUME NEW f \in Fills, NEW u \in Users, Donate(u, f) PROVE UNCHANGED fills /\ IInv'
  <2>1. wallet' \in [Holders -> [Assets -> Nat]] /\ swapUsdc' \in [Fills -> Nat]
    BY <1>2 DEF Donate, IInv, TypeOK, Holders, Assets
  <2>. QED BY <1>2, <2>1 DEF Donate, IInv, TypeOK, StagedConsumed, SwapHonoured
<1>3. ASSUME NEW f \in Fills, NEW m \in Incoming, PrepareFill(f, m)
      PROVE  IInv' /\ \A g \in Fills : Pending(g) => fills'[g] # Consumed
  <2>1. /\ fills' = [fills EXCEPT ![f] = m] /\ fills[f] = None /\ m \in Fill /\ m # Consumed
        /\ UNCHANGED <<clock, peers, wallet, swapUsdc, staged, receipt>>
    BY <1>3 DEF PrepareFill
  <2>2. TypeOK'
    BY <2>1 DEF IInv, TypeOK
  <2>3. \A g \in Fills : fills'[g] = Consumed <=> fills[g] = Consumed
    BY <2>1 DEF IInv, TypeOK
  <2>. QED BY <2>1, <2>2, <2>3 DEF IInv, StagedConsumed, SwapHonoured, Pending
<1>4. ASSUME NEW c \in Chains, NEW p \in PeerAccounts, UpdatePeer(c, p)
      PROVE  UNCHANGED fills /\ IInv'
  BY <1>4 DEF UpdatePeer, IInv, TypeOK, StagedConsumed, SwapHonoured
<1>5. ASSUME Tick PROVE UNCHANGED fills /\ IInv'
  BY <1>5 DEF Tick, IInv, TypeOK, StagedConsumed, SwapHonoured
<1>6. ASSUME UNCHANGED vars PROVE UNCHANGED fills /\ IInv'
  BY <1>6 DEF vars, IInv, TypeOK, StagedConsumed, SwapHonoured
<1>. QED BY <1>1, <1>2, <1>3, <1>4, <1>5, <1>6 DEF Pending

\* The invariant is kept, and a step that consumes a fill pays it out.
LEMMA Step ==
  ASSUME IInv, [Next]_vars
  PROVE  /\ IInv'
         /\ \A f \in Fills : Pending(f) /\ fills'[f] = Consumed => PaysOut(f)
<1>1. ASSUME NEW f \in Fills, CompleteTransfer(f) \/ CompleteSwap(f) PROVE IInv' /\ PaysOut(f)
  <2>1. CASE CompleteTransfer(f)
    BY <2>1, TransferDirect, TransferRelay, TransferPayload DEF CompleteTransfer
  <2>2. CASE CompleteSwap(f)
    <3>1. PICK a \in Assets, payer \in Users, spent \in 0 .. 2 * Funds, out \in 0 .. MaxOut :
            \/ CompleteSwapDirect(f, a, payer, spent, out)
            \/ CompleteSwapRelay(f, a, payer, spent, out)
            \/ CompleteSwapPayload(f, a, payer, spent, out)
      BY <2>2 DEF CompleteSwap
    <3>2. spent \in Nat /\ out \in Nat
      BY BoundsAssumption
    <3>. QED BY <3>1, <3>2, SwapDirect, SwapRelay, SwapPayload
  <2>. QED BY <1>1, <2>1, <2>2
<1>2. ASSUME NEW f \in Fills, CompleteTransfer(f) \/ CompleteSwap(f), NEW g \in Fills,
             Pending(g), fills'[g] = Consumed
      PROVE  g = f
  <2>1. fills' = [fills EXCEPT ![f] = Consumed]
    <3>1. CASE CompleteTransfer(f)
      BY <3>1 DEF CompleteTransfer, CompleteTransferDirect, CompleteTransferRelay,
         CompleteTransferPayload, Consume
    <3>2. CASE CompleteSwap(f)
      BY <3>2 DEF CompleteSwap, CompleteSwapDirect, CompleteSwapRelay, CompleteSwapPayload, Consume
    <3>. QED BY <1>2, <3>1, <3>2
  <2>. QED BY <1>2, <2>1 DEF Pending, IInv, TypeOK
<1>3. CASE \E f \in Fills : CompleteTransfer(f) \/ CompleteSwap(f)
  BY <1>1, <1>2, <1>3
<1>4. CASE ~ \E f \in Fills : CompleteTransfer(f) \/ CompleteSwap(f)
  BY <1>4, OtherSteps DEF Next
<1>. QED BY <1>3, <1>4

LEMMA Start == ASSUME Init PROVE IInv
<1>1. TypeOK
  BY InputsAssumption, BoundsAssumption DEF Init, TypeOK
<1>2. StagedConsumed /\ SwapHonoured
  BY DistinctAssumption DEF Init, StagedConsumed, SwapHonoured
<1>. QED BY <1>1, <1>2 DEF IInv

LEMMA Inductive == Spec => []IInv
<1>1. Init => IInv
  BY Start
<1>2. IInv /\ [Next]_vars => IInv'
  BY Step
<1>. QED BY <1>1, <1>2, PTL DEF Spec

------------------------------------------------------------------------------
\* No instruction overdraws a wallet, a custody account or the accounts of a
\* swap: a guard covers every debit.
THEOREM TypeCorrect == Spec => []TypeOK
<1>1. IInv => TypeOK
  BY DEF IInv
<1>. QED BY <1>1, Inductive, PTL

\* An encoded swap is executed, at its limit and before its deadline, or its
\* recipient signed for USDC, or the time limit in force had passed.
THEOREM SwapsHonoured == Spec => []SwapHonoured
<1>1. IInv => SwapHonoured
  BY DEF IInv
<1>. QED BY <1>1, Inductive, PTL

\* Whichever instruction consumes a fill pays the recipient what it owes him, and the
\* fee recipient nothing or the fee, and what a swap leaves over.
THEOREM FillsPayOut == Spec => ConsumedFillPaysOut
<1>1. IInv /\ [Next]_vars
        => [\A f \in Fills : Pending(f) /\ fills'[f] = Consumed => PaysOut(f)]_vars
  BY Step
<1>. QED BY <1>1, Inductive, PTL DEF Spec, ConsumedFillPaysOut
------------------------------------------------------------------------------
(* Value.  What the wallets hold of an asset, and how one entry of a ledger *)
(* changes it.                                                              *)
Column(w, a) == [h \in Holders |-> w[h][a]]
Sum(w, a) == Total(Column(w, a))
Countable(w) == \A a \in Assets : IsFiniteSet(Units(Column(w, a)))

\* Ledgers that differ in one entry at most.
Alike(w, v, h, a) ==
  /\ v \in Ledger /\ \A b \in Assets : b # a => v[h][b] = w[h][b]
  /\ \A g \in Holders : g # h => v[g] = w[g]

LEMMA EntryChanges ==
  ASSUME NEW w \in Ledger, NEW v, Countable(w), NEW h \in Holders,
         NEW a \in Assets, Alike(w, v, h, a)
  PROVE  /\ Countable(v)
         /\ \A b \in Assets : Sum(w, b) \in Nat /\ Sum(v, b) \in Nat
         /\ Sum(v, a) = Sum(w, a) + v[h][a] - w[h][a]
         /\ \A b \in Assets : b # a => Sum(v, b) = Sum(w, b)
<1>1. \A b \in Assets :
        /\ Column(w, b) \in [Holders -> Nat] /\ Column(v, b) \in [Holders -> Nat]
        /\ \A g \in Holders : Column(w, b)[g] = w[g][b] /\ Column(v, b)[g] = v[g][b]
        /\ IsFiniteSet(Units(Column(w, b)))
  BY DEF Column, Ledger, Countable, Alike
<1>2. ASSUME NEW b \in Assets
      PROVE  /\ IsFiniteSet(Units(Column(v, b))) /\ Sum(w, b) \in Nat /\ Sum(v, b) \in Nat
             /\ Sum(v, b) = Sum(w, b) + v[h][b] - w[h][b]
  <2>1. \A g \in Holders : g # h => Column(v, b)[g] = Column(w, b)[g]
    BY <1>1 DEF Alike
  <2>2. /\ Column(w, b) \in [Holders -> Nat] /\ Column(v, b) \in [Holders -> Nat]
        /\ IsFiniteSet(Units(Column(w, b)))
    BY <1>1
  <2>3. /\ IsFiniteSet(Units(Column(v, b)))
        /\ Total(Column(w, b)) \in Nat /\ Total(Column(v, b)) \in Nat
        /\ Total(Column(v, b)) = Total(Column(w, b)) + Column(v, b)[h] - Column(w, b)[h]
    BY <2>1, <2>2, TotalChanges
  <2>. QED BY <1>1, <2>3 DEF Sum
<1>3. \A b \in Assets : w[h][b] \in Nat /\ (b # a => v[h][b] = w[h][b])
  BY DEF Ledger, Alike
<1>4. Sum(v, a) = Sum(w, a) + v[h][a] - w[h][a]
  BY <1>2
<1>5. \A b \in Assets : b # a => Sum(v, b) = Sum(w, b)
  BY <1>2, <1>3
<1>. QED BY <1>2, <1>4, <1>5 DEF Countable

\* A dropoff moves lamports between wallets.
LEMMA MoveSum ==
  ASSUME NEW w \in Ledger, Countable(w), NEW from \in Users, NEW to \in Users, NEW n \in Nat,
         w[from]["gas"] >= n, NEW v, v = Move(w, from, to, "gas", n)
  PROVE  /\ v \in Ledger /\ Countable(v)
         /\ \A a \in Assets : Sum(w, a) \in Nat /\ Sum(v, a) = Sum(w, a)
<1>1. from \in Holders /\ to \in Holders /\ "gas" \in Assets
  BY DEF Holders, Assets
<1>2. CASE from = to
  <2>1. v = w
    BY <1>2 DEF Move
  <2>2. \A a \in Assets : Sum(w, a) \in Nat
    BY FS_CardinalityType DEF Sum, Total, Countable
  <2>. QED BY <2>1, <2>2
<1>3. CASE from # to
  <2>1. w[from] \in [Assets -> Nat] /\ w[to] \in [Assets -> Nat] /\ w[from]["gas"] - n \in Nat
    BY <1>1 DEF Ledger
  <2>2. PICK x : x = [w EXCEPT ![from] = [w[from] EXCEPT !["gas"] = w[from]["gas"] - n]]
    OBVIOUS
  <2>3. x[from] = [w[from] EXCEPT !["gas"] = w[from]["gas"] - n]
        /\ \A g \in Holders : g # from => x[g] = w[g]
    BY <1>1, <2>2 DEF Ledger
  <2>4. x[from] \in [Assets -> Nat] /\ x[from]["gas"] = w[from]["gas"] - n
        /\ \A b \in Assets : b # "gas" => x[from][b] = w[from][b]
    BY <1>1, <2>1, <2>3
  <2>5. x \in Ledger
    BY <2>2, <2>3, <2>4 DEF Ledger
  <2>6. v = [w EXCEPT ![from]["gas"] = w[from]["gas"] - n, ![to]["gas"] = w[to]["gas"] + n]
    BY <1>3 DEF Move
  <2>7. /\ v[to] = [w[to] EXCEPT !["gas"] = w[to]["gas"] + n]
        /\ v[from] = [w[from] EXCEPT !["gas"] = w[from]["gas"] - n]
        /\ \A g \in Holders : g \notin {from, to} => v[g] = w[g]
        /\ v = [g \in Holders |-> v[g]]
    BY <1>1, <1>3, <2>6 DEF Ledger
  <2>8. v[to] \in [Assets -> Nat] /\ v[to]["gas"] = w[to]["gas"] + n
        /\ \A b \in Assets : b # "gas" => v[to][b] = w[to][b]
    BY <1>1, <2>1, <2>7
  <2>9. \A g \in Holders : g # to => v[g] = x[g]
    BY <1>1, <2>3, <2>7
  <2>10. v \in Ledger
    BY <2>5, <2>7, <2>8, <2>9 DEF Ledger
  <2>11. x[to] = w[to]
    BY <1>1, <1>3, <2>3
  <2>12. /\ Countable(x) /\ \A b \in Assets : Sum(w, b) \in Nat /\ Sum(x, b) \in Nat
         /\ Sum(x, "gas") = Sum(w, "gas") + x[from]["gas"] - w[from]["gas"]
         /\ \A b \in Assets : b # "gas" => Sum(x, b) = Sum(w, b)
    <3>1. Alike(w, x, from, "gas")
      BY <2>3, <2>4, <2>5 DEF Alike
    <3>. QED BY <1>1, <3>1, EntryChanges
  <2>13. \A b \in Assets : b # "gas" => v[to][b] = x[to][b]
    BY <2>8, <2>11
  <2>14. /\ Countable(v) /\ Sum(v, "gas") = Sum(x, "gas") + v[to]["gas"] - x[to]["gas"]
         /\ \A b \in Assets : b # "gas" => Sum(v, b) = Sum(x, b)
    <3>1. to \in Holders /\ "gas" \in Assets /\ Countable(x)
      BY <1>1, <2>12
    <3>2. Alike(x, v, to, "gas")
      BY <2>9, <2>10, <2>13 DEF Alike
    <3>. QED BY <2>5, <3>1, <3>2, EntryChanges
  <2>15. Sum(v, "gas") = Sum(w, "gas")
    <3>1. w[to]["gas"] \in Nat /\ w[from]["gas"] \in Nat /\ Sum(w, "gas") \in Nat
      BY <1>1, <2>1, <2>12
    <3>. QED BY <2>4, <2>8, <2>11, <2>12, <2>14, <3>1
  <2>. QED BY <2>10, <2>12, <2>14, <2>15
<1>. QED BY <1>2, <1>3

\* A swap brings the USDC of the fill and of the swap token account into the
\* wallets, and takes the output out of Jupiter's.
LEMMA SwappedSum ==
  ASSUME TypeOK, Countable(wallet), NEW f \in Fills, Pending(f), NEW a \in Assets, a # "usdc",
         NEW spent \in Nat, NEW out \in Nat,
         spent <= fills[f].amount + swapUsdc[f], wallet[Jupiter][a] >= out,
         NEW s, s = Swapped(f, a, spent, out)
  PROVE  /\ s \in Ledger /\ Countable(s)
         /\ \A b \in Assets : Sum(wallet, b) \in Nat /\ Sum(s, b) \in Int
         /\ Sum(s, "usdc") = Sum(wallet, "usdc") + fills[f].amount + swapUsdc[f]
         /\ Sum(s, a) = Sum(wallet, a) - out
         /\ \A b \in Assets : b \notin {"usdc", a} => Sum(s, b) = Sum(wallet, b)
<1> USE DistinctAssumption
<1>1. /\ FeeRecipient \in Holders /\ Jupiter \in Holders /\ "usdc" \in Assets
      /\ wallet \in Ledger /\ fills[f].amount \in Nat /\ swapUsdc[f] \in Nat
  BY PendingIsFill DEF Holders, Assets, TypeOK, Ledger
<1>2. wallet[Jupiter] \in [Assets -> Nat] /\ wallet[FeeRecipient] \in [Assets -> Nat]
  BY <1>1 DEF Ledger
<1>3. PICK n \in Nat : n = fills[f].amount + swapUsdc[f] - spent
  BY <1>1
<1>4. PICK x : x = [wallet EXCEPT ![Jupiter] =
                      [wallet[Jupiter] EXCEPT !["usdc"] = wallet[Jupiter]["usdc"] + spent]]
  OBVIOUS
<1>5. x[Jupiter] = [wallet[Jupiter] EXCEPT !["usdc"] = wallet[Jupiter]["usdc"] + spent]
      /\ \A h \in Holders : h # Jupiter => x[h] = wallet[h]
  BY <1>1, <1>4 DEF Ledger
<1>6. /\ x[Jupiter] \in [Assets -> Nat] /\ x[Jupiter]["usdc"] = wallet[Jupiter]["usdc"] + spent
      /\ \A b \in Assets : b # "usdc" => x[Jupiter][b] = wallet[Jupiter][b]
  BY <1>1, <1>2, <1>5
<1>7. x \in Ledger
  BY <1>4, <1>5, <1>6, <1>1 DEF Ledger
<1>8. PICK y : y = [x EXCEPT ![Jupiter] = [x[Jupiter] EXCEPT ![a] = x[Jupiter][a] - out]]
  OBVIOUS
<1>9. y[Jupiter] = [x[Jupiter] EXCEPT ![a] = x[Jupiter][a] - out]
      /\ \A h \in Holders : h # Jupiter => y[h] = x[h]
  BY <1>1, <1>7, <1>8 DEF Ledger
<1>10. x[Jupiter][a] - out \in Nat
  BY <1>2, <1>6
<1>11. /\ y[Jupiter] \in [Assets -> Nat] /\ y[Jupiter][a] = x[Jupiter][a] - out
       /\ \A b \in Assets : b # a => y[Jupiter][b] = x[Jupiter][b]
  BY <1>6, <1>9, <1>10
<1>12. y \in Ledger
  BY <1>7, <1>8, <1>9, <1>11 DEF Ledger
<1>13. /\ s \in Ledger /\ s[FeeRecipient] = [wallet[FeeRecipient] EXCEPT
                                 !["usdc"] = wallet[FeeRecipient]["usdc"] + n]
       /\ s[Jupiter] = y[Jupiter]
       /\ \A h \in Users : s[h] = wallet[h]
  <2>1. s = [wallet EXCEPT ![Jupiter]["usdc"] = wallet[Jupiter]["usdc"] + spent,
                           ![Jupiter][a] = wallet[Jupiter][a] - out,
                           ![FeeRecipient]["usdc"] =
                             wallet[FeeRecipient]["usdc"] + fills[f].amount + swapUsdc[f] - spent]
    BY DEF Swapped
  <2>2. wallet[FeeRecipient]["usdc"] + fills[f].amount + swapUsdc[f] - spent
          = wallet[FeeRecipient]["usdc"] + n
    BY <1>1, <1>2, <1>3
  <2>3. /\ s[Jupiter] = [wallet[Jupiter] EXCEPT !["usdc"] = wallet[Jupiter]["usdc"] + spent,
                                                ![a] = wallet[Jupiter][a] - out]
        /\ s[FeeRecipient] = [wallet[FeeRecipient] EXCEPT
                                !["usdc"] = wallet[FeeRecipient]["usdc"] + n]
        /\ \A h \in Users : s[h] = wallet[h]
    BY <1>1, <2>1, <2>2 DEF Ledger, Holders
  <2>4. s[Jupiter] = y[Jupiter]
    BY <1>2, <1>5, <1>9, <2>3
  <2>5. s \in Ledger
    BY <1>1, SwappedLedger
  <2>. QED BY <2>3, <2>4, <2>5
<1>14. /\ s[FeeRecipient]["usdc"] = y[FeeRecipient]["usdc"] + n
       /\ \A b \in Assets : b # "usdc" => s[FeeRecipient][b] = y[FeeRecipient][b]
       /\ \A h \in Holders : h # FeeRecipient => s[h] = y[h]
  <2>1. y[FeeRecipient] = wallet[FeeRecipient] /\ \A h \in Users : y[h] = wallet[h]
    BY <1>1, <1>5, <1>9 DEF Holders
  <2>. QED BY <1>1, <1>2, <1>13, <2>1 DEF Holders
<1>15. /\ Countable(x) /\ \A b \in Assets : Sum(wallet, b) \in Nat /\ Sum(x, b) \in Nat
       /\ Sum(x, "usdc") = Sum(wallet, "usdc") + x[Jupiter]["usdc"] - wallet[Jupiter]["usdc"]
       /\ \A b \in Assets : b # "usdc" => Sum(x, b) = Sum(wallet, b)
  <2>1. Alike(wallet, x, Jupiter, "usdc")
    BY <1>5, <1>6, <1>7 DEF Alike
  <2>. QED BY <1>1, <2>1, EntryChanges
<1>16. /\ Countable(y) /\ \A b \in Assets : Sum(y, b) \in Nat
       /\ Sum(y, a) = Sum(x, a) + y[Jupiter][a] - x[Jupiter][a]
       /\ \A b \in Assets : b # a => Sum(y, b) = Sum(x, b)
  <2>1. Alike(x, y, Jupiter, a)
    BY <1>9, <1>11, <1>12 DEF Alike
  <2>2. Jupiter \in Holders /\ Countable(x)
    BY <1>1, <1>15
  <2>. QED BY <1>7, <2>1, <2>2, EntryChanges
<1>17. /\ Countable(s) /\ \A b \in Assets : Sum(s, b) \in Nat
       /\ Sum(s, "usdc") = Sum(y, "usdc") + s[FeeRecipient]["usdc"] - y[FeeRecipient]["usdc"]
       /\ \A b \in Assets : b # "usdc" => Sum(s, b) = Sum(y, b)
  <2>1. FeeRecipient \in Holders /\ "usdc" \in Assets /\ Countable(y)
    BY <1>1, <1>16
  <2>2. Alike(y, s, FeeRecipient, "usdc")
    BY <1>13, <1>14 DEF Alike
  <2>. QED BY <1>12, <2>1, <2>2, EntryChanges
<1>18. Sum(s, "usdc") = Sum(wallet, "usdc") + fills[f].amount + swapUsdc[f]
  <2>1. Sum(y, "usdc") = Sum(x, "usdc")
    BY <1>1, <1>16
  <2>2. Sum(wallet, "usdc") \in Nat /\ wallet[Jupiter]["usdc"] \in Nat
        /\ y[FeeRecipient]["usdc"] \in Nat
    BY <1>1, <1>2, <1>12, <1>15 DEF Ledger
  <2>3. Sum(x, "usdc") = Sum(wallet, "usdc") + spent
    BY <1>6, <1>15, <2>2
  <2>4. Sum(s, "usdc") = Sum(y, "usdc") + n
    <3>1. Sum(y, "usdc") \in Nat
      BY <1>1, <1>16
    <3>. QED BY <1>14, <1>17, <2>2, <3>1
  <2>. QED BY <1>1, <1>3, <2>1, <2>2, <2>3, <2>4
<1>19. Sum(s, a) = Sum(wallet, a) - out
  <2>1. Sum(s, a) = Sum(y, a) /\ Sum(x, a) = Sum(wallet, a)
    BY <1>15, <1>17
  <2>2. y[Jupiter][a] = x[Jupiter][a] - out /\ x[Jupiter][a] \in Nat /\ Sum(x, a) \in Nat
    BY <1>6, <1>11, <1>15
  <2>. QED BY <1>16, <2>1, <2>2
<1>. QED BY <1>13, <1>15, <1>16, <1>17, <1>18, <1>19
------------------------------------------------------------------------------
(* The invariant of Conservation: what is held, waits in a swap token       *)
(* account or has been received is countable, and a consumed fill has its   *)
(* receipt.                                                                 *)
Own(s, a) == IF s # None /\ s.asset = a THEN s.amount ELSE 0

Counted ==
  /\ Countable(wallet)
  /\ \A a \in Assets : IsFiniteSet(Units(InCustody(a)))
  /\ IsFiniteSet(Units(swapUsdc)) /\ IsFiniteSet(Units(Received))

Receipted == \A f \in Fills : fills[f] = Consumed => receipt[f] \in Receipt

ValueInv == Counted /\ Receipted /\ Conservation

\* The assets that a step which changes the accounts of fill f may not lose.
Gained(a) == Sum(wallet', a) - Sum(wallet, a)

Balanced(f) ==
  /\ Gained("usdc") + (Own(staged'[f], "usdc") - Own(staged[f], "usdc"))
       + (swapUsdc'[f] - swapUsdc[f]) = Received'[f] - Received[f]
  /\ \A a \in {"gas", "other"} : Gained(a) + (Own(staged'[f], a) - Own(staged[f], a)) = 0

Only(f) ==
  \A g \in Fills : g # f => /\ staged'[g] = staged[g] /\ swapUsdc'[g] = swapUsdc[g]
                            /\ Received'[g] = Received[g]

LEMMA BalancesAre ==
  ASSUME TypeOK, Receipted
  PROVE  /\ wallet \in Ledger /\ \A a : InWallets(a) = Column(wallet, a)
         /\ \A a \in Assets, f \in Fills :
              InCustody(a)[f] = Own(staged[f], a) /\ Own(staged[f], a) \in Nat
         /\ \A a \in Assets : InCustody(a) \in [Fills -> Nat]
         /\ swapUsdc \in [Fills -> Nat] /\ Received \in [Fills -> Nat]
<1>1. wallet \in Ledger /\ swapUsdc \in [Fills -> Nat]
  BY DEF TypeOK, Ledger
<1>2. \A a : InWallets(a) = Column(wallet, a)
  BY DEF InWallets, Column
<1>3. \A f \in Fills : staged[f] # None => staged[f].amount \in Nat
  BY DEF TypeOK, Staged
<1>4. \A a \in Assets, f \in Fills :
        InCustody(a)[f] = Own(staged[f], a) /\ Own(staged[f], a) \in Nat
  BY <1>3 DEF InCustody, Own
<1>5. \A a \in Assets : InCustody(a) \in [Fills -> Nat]
  BY <1>3 DEF InCustody
<1>6. \A f \in Fills : fills[f] = Consumed => receipt[f].fill.amount \in Nat
  <2>1. \A f \in Fills : fills[f] = Consumed => receipt[f] \in Receipt
    BY DEF TypeOK, Receipted
  <2>2. \A r \in Receipt : r.fill.amount \in Nat
    BY DEF Receipt, Fill
  <2>. QED BY <2>1, <2>2
<1>7. Received \in [Fills -> Nat]
  BY <1>6 DEF Received
<1>. QED BY <1>1, <1>2, <1>4, <1>5, <1>7

LEMMA Rebalances ==
  ASSUME TypeOK, TypeOK', ValueInv, Receipted', Countable(wallet)', NEW f \in Fills,
         Only(f), Balanced(f)
  PROVE  ValueInv'
<1>1. Counted /\ Receipted /\ Conservation
  BY DEF ValueInv
<1>2. /\ wallet \in Ledger /\ \A a : InWallets(a) = Column(wallet, a)
      /\ \A a \in Assets, g \in Fills :
           InCustody(a)[g] = Own(staged[g], a) /\ Own(staged[g], a) \in Nat
      /\ \A a \in Assets : InCustody(a) \in [Fills -> Nat]
      /\ swapUsdc \in [Fills -> Nat] /\ Received \in [Fills -> Nat]
  BY <1>1, BalancesAre
<1>3. /\ wallet' \in Ledger /\ \A a : InWallets(a)' = Column(wallet', a)
      /\ \A a \in Assets, g \in Fills :
           InCustody(a)'[g] = Own(staged'[g], a) /\ Own(staged'[g], a) \in Nat
      /\ \A a \in Assets : InCustody(a)' \in [Fills -> Nat]
      /\ swapUsdc' \in [Fills -> Nat] /\ Received' \in [Fills -> Nat]
  <2>1. wallet' \in Ledger /\ swapUsdc' \in [Fills -> Nat]
    BY DEF TypeOK, Ledger
  <2>2. \A a : InWallets(a)' = Column(wallet', a)
    BY DEF InWallets, Column
  <2>3. \A g \in Fills : staged'[g] # None => staged'[g].amount \in Nat
    BY DEF TypeOK, Staged
  <2>4. \A a \in Assets, g \in Fills :
          InCustody(a)'[g] = Own(staged'[g], a) /\ Own(staged'[g], a) \in Nat
    BY <2>3 DEF InCustody, Own
  <2>5. \A a \in Assets : InCustody(a)' \in [Fills -> Nat]
    BY <2>3 DEF InCustody
  <2>6. \A g \in Fills : fills'[g] = Consumed => receipt'[g].fill.amount \in Nat
    <3>1. \A g \in Fills : fills'[g] = Consumed => receipt'[g] \in Receipt
      BY DEF TypeOK, Receipted
    <3>2. \A r \in Receipt : r.fill.amount \in Nat
      BY DEF Receipt, Fill
    <3>. QED BY <3>1, <3>2
  <2>7. Received' \in [Fills -> Nat]
    BY <2>6 DEF Received
  <2>. QED BY <2>1, <2>2, <2>4, <2>5, <2>7
<1>4. \A a \in Assets :
        /\ IsFiniteSet(Units(InCustody(a)'))
        /\ Total(InCustody(a)) \in Nat /\ Total(InCustody(a)') \in Nat
        /\ Total(InCustody(a)') = Total(InCustody(a)) + Own(staged'[f], a) - Own(staged[f], a)
  <2> SUFFICES ASSUME NEW a \in Assets
               PROVE  /\ IsFiniteSet(Units(InCustody(a)'))
                      /\ Total(InCustody(a)) \in Nat /\ Total(InCustody(a)') \in Nat
                      /\ Total(InCustody(a)')
                           = Total(InCustody(a)) + Own(staged'[f], a) - Own(staged[f], a)
    OBVIOUS
  <2>1. IsFiniteSet(Units(InCustody(a))) /\ InCustody(a) \in [Fills -> Nat]
        /\ InCustody(a)' \in [Fills -> Nat]
    BY <1>1, <1>2, <1>3 DEF Counted
  <2>2. \A g \in Fills : g # f => InCustody(a)'[g] = InCustody(a)[g]
    BY <1>2, <1>3 DEF Only
  <2>3. /\ IsFiniteSet(Units(InCustody(a)'))
        /\ Total(InCustody(a)) \in Nat /\ Total(InCustody(a)') \in Nat
        /\ Total(InCustody(a)') = Total(InCustody(a)) + InCustody(a)'[f] - InCustody(a)[f]
    BY <2>1, <2>2, TotalChanges
  <2>. QED BY <1>2, <1>3, <2>3
<1>5. /\ IsFiniteSet(Units(swapUsdc')) /\ Total(swapUsdc) \in Nat /\ Total(swapUsdc') \in Nat
      /\ Total(swapUsdc') = Total(swapUsdc) + swapUsdc'[f] - swapUsdc[f]
  <2>1. IsFiniteSet(Units(swapUsdc)) /\ \A g \in Fills : g # f => swapUsdc'[g] = swapUsdc[g]
    BY <1>1 DEF Counted, Only
  <2>2. swapUsdc \in [Fills -> Nat] /\ swapUsdc' \in [Fills -> Nat]
    BY <1>2, <1>3
  <2>. QED BY <2>1, <2>2, TotalChanges
<1>6. /\ IsFiniteSet(Units(Received')) /\ Total(Received) \in Nat /\ Total(Received') \in Nat
      /\ Total(Received') = Total(Received) + Received'[f] - Received[f]
  <2>1. IsFiniteSet(Units(Received)) /\ \A g \in Fills : g # f => Received'[g] = Received[g]
    BY <1>1 DEF Counted, Only
  <2>2. Received \in [Fills -> Nat] /\ Received' \in [Fills -> Nat]
    BY <1>2, <1>3
  <2>. QED BY <2>1, <2>2, TotalChanges
<1>7. Counted'
  BY <1>4, <1>5, <1>6 DEF Counted
<1>8. \A a \in Assets :
        /\ Sum(wallet, a) \in Nat /\ Sum(wallet', a) \in Nat
        /\ Held(a) = Sum(wallet, a) + Total(InCustody(a))
        /\ Held(a)' = Sum(wallet', a) + Total(InCustody(a)')
  <2> SUFFICES ASSUME NEW a \in Assets
               PROVE  /\ Sum(wallet, a) \in Nat /\ Sum(wallet', a) \in Nat
                      /\ Held(a) = Sum(wallet, a) + Total(InCustody(a))
                      /\ Held(a)' = Sum(wallet', a) + Total(InCustody(a)')
    OBVIOUS
  <2>1. IsFiniteSet(Units(Column(wallet, a)))
    BY <1>1 DEF Counted, Countable
  <2>2. IsFiniteSet(Units(Column(wallet', a)))
    BY DEF Countable
  <2>3. Sum(wallet, a) \in Nat /\ Sum(wallet', a) \in Nat
    BY <2>1, <2>2, FS_CardinalityType DEF Sum, Total
  <2>4. Held(a) = Sum(wallet, a) + Total(InCustody(a))
    BY <1>2 DEF Held, Sum
  <2>5. Held(a)' = Total(InWallets(a)') + Total(InCustody(a)')
    BY DEF Held
  <2>. QED BY <1>3, <2>3, <2>4, <2>5 DEF Sum
<1>9. Conservation'
  <2>1. PICK supply : supply = Funds * Cardinality(Holders)
    OBVIOUS
  <2>2. /\ Held("usdc") + Total(swapUsdc) = supply + Total(Received)
        /\ Held("gas") = supply /\ Held("other") = supply
    BY <1>1, <2>1 DEF Conservation
  <2>3. "usdc" \in Assets /\ "gas" \in Assets /\ "other" \in Assets
    BY DEF Assets
  <2>4. supply \in Int
    BY <1>4, <1>8, <2>2, <2>3
  <2>5. ASSUME NEW a \in Assets
        PROVE  /\ Held(a) \in Int
               /\ Held(a)' = Held(a) + (Gained(a) + (Own(staged'[f], a) - Own(staged[f], a)))
    BY <1>2, <1>3, <1>4, <1>8 DEF Gained
  <2>6. Held("gas")' = supply /\ Held("other")' = supply
    <3>1. Gained("gas") + (Own(staged'[f], "gas") - Own(staged[f], "gas")) = 0
          /\ Gained("other") + (Own(staged'[f], "other") - Own(staged[f], "other")) = 0
      BY DEF Balanced
    <3>2. Held("gas")' = Held("gas") + 0 /\ Held("other")' = Held("other") + 0
      BY <2>3, <2>5, <3>1
    <3>. QED BY <2>2, <2>4, <3>2
  <2>7. Held("usdc")' + Total(swapUsdc') = supply + Total(Received')
    <3>1. PICK d : d = Gained("usdc") + (Own(staged'[f], "usdc") - Own(staged[f], "usdc"))
      OBVIOUS
    <3>2. d \in Int
      BY <1>2, <1>3, <1>8, <2>3, <3>1 DEF Gained
    <3>3. Held("usdc") \in Int /\ Held("usdc")' = Held("usdc") + d
      BY <2>3, <2>5, <3>1
    <3>4. d + (swapUsdc'[f] - swapUsdc[f]) = Received'[f] - Received[f]
      BY <3>1 DEF Balanced
    <3>5. /\ swapUsdc'[f] \in Nat /\ swapUsdc[f] \in Nat
          /\ Received'[f] \in Nat /\ Received[f] \in Nat
      BY <1>2, <1>3
    <3>6. PICK e \in Int : e = swapUsdc'[f] - swapUsdc[f]
      BY <3>5
    <3>7. PICK r \in Int : r = Received'[f] - Received[f]
      BY <3>5
    <3>8. d + e = r
      BY <3>4, <3>6, <3>7
    <3>9. Total(swapUsdc') = Total(swapUsdc) + e /\ Total(swapUsdc) \in Int
      BY <1>5, <3>5, <3>6
    <3>10. Total(Received') = Total(Received) + r /\ Total(Received) \in Int
      BY <1>6, <3>5, <3>7
    <3>11. Held("usdc") + Total(swapUsdc) = supply + Total(Received)
      BY <2>2
    <3>. QED BY <2>4, <3>2, <3>3, <3>8, <3>9, <3>10, <3>11
  <2>. QED BY <2>1, <2>6, <2>7 DEF Conservation
<1>. QED BY <1>7, <1>9 DEF ValueInv
\* What consuming a fill does to the accounts it is counted in.
LEMMA ConsumedFill ==
  ASSUME IInv, Receipted, NEW f \in Fills, NEW signers \in SUBSET Users, NEW usdc \in Nat,
         NEW out \in Nat, NEW gas \in Nat, NEW swapped \in BOOLEAN,
         Consume(f, signers, usdc, out, gas, swapped)
  PROVE  /\ Pending(f) /\ fills[f].amount \in Nat /\ swapUsdc[f] \in Nat
         /\ fills[f].recipient \in Users /\ fills[f].recipient \in Holders
         /\ staged[f] = None /\ Receipted'
         /\ Received[f] = 0 /\ Received'[f] = fills[f].amount
         /\ \A g \in Fills : g # f => Received'[g] = Received[g]
<1>1. PICK r : r = [fill |-> fills[f], signers |-> signers, at |-> clock, limit |-> TimeLimit(f),
                    usdc |-> usdc, out |-> out, gas |-> gas, swapped |-> swapped]
  OBVIOUS
<1>2. /\ Pending(f) /\ fills' = [fills EXCEPT ![f] = Consumed]
      /\ receipt' = [receipt EXCEPT ![f] = r]
  BY <1>1 DEF Consume, Consumable
<1>3. /\ fills[f] \in Fill /\ fills[f].amount \in Nat /\ swapUsdc[f] \in Nat
      /\ fills[f].recipient \in Users /\ fills[f].recipient \in Holders
  BY <1>2, PendingIsFill DEF IInv, Holders
<1>4. staged[f] = None /\ fills[f] # Consumed
  BY <1>2 DEF IInv, StagedConsumed, Pending
<1>5. fills'[f] = Consumed /\ receipt'[f] = r
      /\ \A g \in Fills : g # f => fills'[g] = fills[g] /\ receipt'[g] = receipt[g]
  BY <1>2 DEF IInv, TypeOK
<1>6. r.fill = fills[f]
  BY <1>1
<1>7. Received[f] = 0 /\ Received'[f] = fills[f].amount
      /\ \A g \in Fills : g # f => Received'[g] = Received[g]
  BY <1>4, <1>5, <1>6 DEF Received
<1>8. r \in Receipt
  <2>1. TimeLimit(f) \in Nat /\ clock \in Nat
    BY <1>2, PendingIsFill DEF IInv, TypeOK
  <2>. QED BY <1>1, <1>3, <2>1 DEF Receipt
<1>9. Receipted'
  BY <1>5, <1>8 DEF Receipted
<1>. QED BY <1>2, <1>3, <1>4, <1>7, <1>9

\* A credit of n.
Credited(w, v, h, a, n) == v = [w EXCEPT ![h] = [w[h] EXCEPT ![a] = w[h][a] + n]]

LEMMA CreditSum ==
  ASSUME NEW w \in Ledger, Countable(w), NEW h \in Holders, NEW a \in Assets, NEW n \in Nat,
         NEW v, Credited(w, v, h, a, n)
  PROVE  /\ v \in Ledger /\ Countable(v)
         /\ \A b \in Assets : Sum(w, b) \in Nat /\ Sum(v, b) \in Nat
         /\ Sum(v, a) = Sum(w, a) + n
         /\ \A b \in Assets : b # a => Sum(v, b) = Sum(w, b)
<1>1. w[h] \in [Assets -> Nat]
  BY DEF Ledger
<1>2. v[h] = [w[h] EXCEPT ![a] = w[h][a] + n] /\ \A g \in Holders : g # h => v[g] = w[g]
  BY DEF Ledger, Credited
<1>3. v[h] \in [Assets -> Nat] /\ v[h][a] = w[h][a] + n
      /\ \A b \in Assets : b # a => v[h][b] = w[h][b]
  BY <1>1, <1>2
<1>4. v \in Ledger
  BY <1>2, <1>3 DEF Ledger, Credited
<1>5. /\ Countable(v) /\ \A b \in Assets : Sum(w, b) \in Nat /\ Sum(v, b) \in Nat
      /\ Sum(v, a) = Sum(w, a) + v[h][a] - w[h][a]
      /\ \A b \in Assets : b # a => Sum(v, b) = Sum(w, b)
  <2>1. Alike(w, v, h, a)
    BY <1>2, <1>3, <1>4 DEF Alike
  <2>. QED BY <2>1, EntryChanges
<1>6. w[h][a] \in Nat /\ Sum(w, a) \in Nat
  BY <1>1, <1>5
<1>7. Sum(v, a) = Sum(w, a) + n
  BY <1>3, <1>5, <1>6
<1>. QED BY <1>4, <1>5, <1>7

\* The three instructions that deliver USDC.
LEMMA DirectValue ==
  ASSUME IInv, IInv', ValueInv, NEW f \in Fills, NEW redeemer \in Users,
         CompleteTransferDirect(f, redeemer)
  PROVE  ValueInv'
<1>1. /\ Consume(f, {redeemer}, fills[f].amount, 0, 0, FALSE)
      /\ wallet' = [wallet EXCEPT ![fills[f].recipient]["usdc"] = @ + fills[f].amount]
      /\ UNCHANGED <<swapUsdc, staged>>
  BY DEF CompleteTransferDirect
<1>2. PICK n \in Nat : n = fills[f].amount
  BY <1>1, PendingIsFill DEF Consume, Consumable, IInv
<1>3. /\ Pending(f) /\ swapUsdc[f] \in Nat /\ fills[f].recipient \in Holders
      /\ staged[f] = None /\ Receipted'
      /\ Received[f] = 0 /\ Received'[f] = n
      /\ \A g \in Fills : g # f => Received'[g] = Received[g]
  <2>1. {redeemer} \in SUBSET Users /\ 0 \in Nat /\ FALSE \in BOOLEAN /\ Receipted
    BY DEF ValueInv
  <2>2. Consume(f, {redeemer}, n, 0, 0, FALSE)
    BY <1>1, <1>2
  <2>. QED BY <1>2, <2>1, <2>2, ConsumedFill
<1>4. PICK r \in Holders : r = fills[f].recipient
  BY <1>3
<1>5. "usdc" \in Assets /\ wallet \in Ledger /\ Countable(wallet)
  BY DEF IInv, TypeOK, Ledger, Assets, ValueInv, Counted
<1>6. Credited(wallet, wallet', r, "usdc", n)
  BY <1>1, <1>2, <1>4 DEF Credited
<1>7. /\ Countable(wallet') /\ \A b \in Assets : Sum(wallet, b) \in Nat /\ Sum(wallet', b) \in Nat
      /\ Sum(wallet', "usdc") = Sum(wallet, "usdc") + n
      /\ \A b \in Assets : b # "usdc" => Sum(wallet', b) = Sum(wallet, b)
  BY <1>5, <1>6, CreditSum
<1>8. Only(f)
  BY <1>1, <1>3 DEF Only
<1>9. Balanced(f)
  <2>1. \A a : Own(staged[f], a) = 0 /\ Own(staged'[f], a) = 0
    BY <1>1, <1>3 DEF Own
  <2>2. swapUsdc'[f] = swapUsdc[f]
    BY <1>1
  <2>3. Gained("usdc") = n
    BY <1>5, <1>7 DEF Gained
  <2>4. Gained("gas") = 0 /\ Gained("other") = 0
    BY <1>7 DEF Gained, Assets
  <2>. QED BY <1>3, <2>1, <2>2, <2>3, <2>4 DEF Balanced
<1>10. TypeOK /\ TypeOK' /\ Receipted' /\ Countable(wallet)'
  BY <1>3, <1>7 DEF IInv
<1>. QED BY <1>8, <1>9, <1>10, Rebalances
LEMMA RelayValue ==
  ASSUME IInv, IInv', ValueInv, NEW f \in Fills, NEW payer \in Users, NEW redeemer \in Users,
         CompleteTransferRelay(f, payer, redeemer)
  PROVE  ValueInv'
<1>1. PICK fee : fee = IF redeemer = fills[f].recipient THEN 0 ELSE fills[f].fee
  OBVIOUS
<1>2. PICK gas : gas = IF redeemer = fills[f].recipient THEN 0 ELSE fills[f].dropoff
  OBVIOUS
<1>3. PICK w : w = Move(wallet, payer, fills[f].recipient, "gas", gas)
  OBVIOUS
<1>4. /\ Consume(f, {payer, redeemer}, fills[f].amount - fee, 0, gas, FALSE)
      /\ wallet[payer]["gas"] >= gas /\ FeePayable(fills[f].amount, fee)
      /\ wallet' = [w EXCEPT ![fills[f].recipient]["usdc"] = @ + fills[f].amount - fee,
                             ![FeeRecipient]["usdc"] = @ + fee]
      /\ UNCHANGED <<swapUsdc, staged>>
  BY <1>1, <1>2, <1>3 DEF CompleteTransferRelay
<1>5. PICK n \in Nat : n = fills[f].amount
  BY <1>4, PendingIsFill DEF Consume, Consumable, IInv
<1>6. fee \in Nat /\ gas \in Nat
  <2>1. fills[f].fee \in Nat /\ fills[f].dropoff \in Nat
    BY <1>4, PendingIsFill DEF Consume, Consumable, IInv
  <2>. QED BY <1>1, <1>2, <2>1
<1>7. PICK d \in Nat : d = n - fee
  BY <1>4, <1>5, <1>6 DEF FeePayable
<1>8. /\ Pending(f) /\ swapUsdc[f] \in Nat /\ fills[f].recipient \in Users
      /\ staged[f] = None /\ Receipted'
      /\ Received[f] = 0 /\ Received'[f] = n
      /\ \A g \in Fills : g # f => Received'[g] = Received[g]
  <2>1. {payer, redeemer} \in SUBSET Users /\ 0 \in Nat /\ FALSE \in BOOLEAN /\ Receipted
    BY DEF ValueInv
  <2>2. Consume(f, {payer, redeemer}, d, 0, gas, FALSE)
    BY <1>4, <1>5, <1>7
  <2>. QED BY <1>5, <1>6, <2>1, <2>2, ConsumedFill
<1>9. PICK r \in Users : r = fills[f].recipient
  BY <1>8
<1>10. /\ "usdc" \in Assets /\ wallet \in Ledger /\ Countable(wallet)
       /\ r \in Holders /\ FeeRecipient \in Holders /\ r # FeeRecipient
  BY DistinctAssumption DEF IInv, TypeOK, Ledger, Assets, ValueInv, Counted, Holders
<1>11. /\ w \in Ledger /\ Countable(w)
       /\ \A a \in Assets : Sum(wallet, a) \in Nat /\ Sum(w, a) = Sum(wallet, a)
  <2>1. w = Move(wallet, payer, r, "gas", gas) /\ wallet[payer]["gas"] >= gas
    BY <1>3, <1>4, <1>9
  <2>. QED BY <1>6, <1>10, <2>1, MoveSum
<1>12. PICK y : Credited(w, y, r, "usdc", d)
  BY DEF Credited
<1>13. /\ y \in Ledger /\ Countable(y)
       /\ Sum(y, "usdc") = Sum(w, "usdc") + d
       /\ \A b \in Assets : b # "usdc" => Sum(y, b) = Sum(w, b)
  BY <1>10, <1>11, <1>12, CreditSum
<1>14. Credited(y, wallet', FeeRecipient, "usdc", fee)
  <2>1. y = [w EXCEPT ![r] = [w[r] EXCEPT !["usdc"] = w[r]["usdc"] + d]]
    BY <1>12 DEF Credited
  <2>2. w[r]["usdc"] + fills[f].amount - fee = w[r]["usdc"] + d
    <3>1. w[r]["usdc"] \in Nat
      BY <1>10, <1>11 DEF Ledger
    <3>. QED BY <1>5, <1>6, <1>7, <3>1
  <2>3. wallet' = [w EXCEPT ![r]["usdc"] = w[r]["usdc"] + d,
                            ![FeeRecipient]["usdc"] = w[FeeRecipient]["usdc"] + fee]
    BY <1>4, <1>9, <1>10, <2>2
  <2>4. y[FeeRecipient] = w[FeeRecipient]
    BY <1>10, <1>11, <2>1 DEF Ledger
  <2>. QED BY <1>10, <2>1, <2>3, <2>4 DEF Credited
<1>15. /\ Countable(wallet')
       /\ Sum(wallet', "usdc") = Sum(y, "usdc") + fee
       /\ \A b \in Assets : b # "usdc" => Sum(wallet', b) = Sum(y, b)
  BY <1>6, <1>10, <1>13, <1>14, CreditSum
<1>16. Only(f)
  BY <1>4, <1>8 DEF Only
<1>17. Balanced(f)
  <2>1. \A a : Own(staged[f], a) = 0 /\ Own(staged'[f], a) = 0
    BY <1>4, <1>8 DEF Own
  <2>2. swapUsdc'[f] = swapUsdc[f]
    BY <1>4
  <2>3. Gained("usdc") = n
    BY <1>6, <1>7, <1>10, <1>11, <1>13, <1>15 DEF Gained
  <2>4. Gained("gas") = 0 /\ Gained("other") = 0
    BY <1>11, <1>13, <1>15 DEF Gained, Assets
  <2>. QED BY <1>8, <2>1, <2>2, <2>3, <2>4 DEF Balanced
<1>18. TypeOK /\ TypeOK' /\ Receipted' /\ Countable(wallet)'
  BY <1>8, <1>15 DEF IInv
<1>. QED BY <1>16, <1>17, <1>18, Rebalances

LEMMA PayloadValue ==
  ASSUME IInv, IInv', ValueInv, NEW f \in Fills, NEW payer \in Users, NEW redeemer \in Users,
         CompleteTransferPayload(f, payer, redeemer)
  PROVE  ValueInv'
<1>1. PICK s : s = [recipient |-> fills[f].recipient, asset |-> "usdc",
                    amount |-> fills[f].amount, isNative |-> FALSE]
  OBVIOUS
<1>2. /\ Consume(f, {payer, redeemer}, fills[f].amount, 0, 0, FALSE)
      /\ staged' = [staged EXCEPT ![f] = s] /\ UNCHANGED <<wallet, swapUsdc>>
  BY <1>1 DEF CompleteTransferPayload
<1>3. PICK n \in Nat : n = fills[f].amount
  BY <1>2, PendingIsFill DEF Consume, Consumable, IInv
<1>4. /\ swapUsdc[f] \in Nat /\ fills[f].recipient \in Users
      /\ staged[f] = None /\ Receipted'
      /\ Received[f] = 0 /\ Received'[f] = n
      /\ \A g \in Fills : g # f => Received'[g] = Received[g]
  <2>1. {payer, redeemer} \in SUBSET Users /\ 0 \in Nat /\ FALSE \in BOOLEAN /\ Receipted
    BY DEF ValueInv
  <2>2. Consume(f, {payer, redeemer}, n, 0, 0, FALSE)
    BY <1>2, <1>3
  <2>. QED BY <1>3, <2>1, <2>2, ConsumedFill
<1>5. s.asset = "usdc" /\ s.amount = n /\ s # None
  <2>1. s \in Staged
    BY <1>1, <1>3, <1>4 DEF Staged, Assets
  <2>. QED BY <1>1, <1>3, <2>1, NoneIsNotStaged
<1>6. staged'[f] = s /\ \A g \in Fills : g # f => staged'[g] = staged[g]
  BY <1>2 DEF IInv, TypeOK
<1>7. Only(f)
  BY <1>2, <1>4, <1>6 DEF Only
<1>8. Balanced(f)
  <2>1. \A a : Own(staged[f], a) = 0 /\ Own(staged'[f], a) = IF a = "usdc" THEN n ELSE 0
    BY <1>4, <1>5, <1>6 DEF Own
  <2>2. \A a \in Assets : Gained(a) = 0
    <3>1. \A a \in Assets : Sum(wallet, a) \in Nat
      BY FS_CardinalityType DEF ValueInv, Counted, Countable, Sum, Total
    <3>. QED BY <1>2, <3>1 DEF Gained
  <2>3. swapUsdc'[f] = swapUsdc[f]
    BY <1>2
  <2>. QED BY <1>4, <2>1, <2>2, <2>3 DEF Balanced, Assets
<1>9. TypeOK /\ TypeOK' /\ Receipted' /\ Countable(wallet)'
  BY <1>2, <1>4 DEF IInv, ValueInv, Counted
<1>. QED BY <1>7, <1>8, <1>9, Rebalances
\* A swap that is delivered to the recipient.
LEMMA DeliveredValue ==
  ASSUME IInv, IInv', ValueInv, NEW f \in Fills, NEW a \in Assets, NEW payer \in Users,
         NEW spent \in Nat, NEW out \in Nat, NEW gas \in Nat,
         Consume(f, {payer}, 0, out, gas, TRUE), OutputAsset(f, a),
         spent <= fills[f].amount + swapUsdc[f], swapUsdc' = [swapUsdc EXCEPT ![f] = 0],
         Deliver(f, a, payer, spent, out, gas), UNCHANGED staged
  PROVE  ValueInv'
<1>1. PICK n \in Nat : n = fills[f].amount
  BY PendingIsFill DEF Consume, Consumable, IInv
<1>2. /\ Pending(f) /\ swapUsdc[f] \in Nat /\ fills[f].recipient \in Users
      /\ staged[f] = None /\ Receipted'
      /\ Received[f] = 0 /\ Received'[f] = n
      /\ \A g \in Fills : g # f => Received'[g] = Received[g]
  <2>1. {payer} \in SUBSET Users /\ 0 \in Nat /\ TRUE \in BOOLEAN /\ Receipted
    BY DEF ValueInv
  <2>. QED BY <1>1, <2>1, ConsumedFill
<1>3. PICK r \in Users : r = fills[f].recipient
  BY <1>2
<1>4. PICK s : s = Swapped(f, a, spent, out)
  OBVIOUS
<1>5. PICK w : Credited(s, w, r, a, out)
  BY DEF Credited
<1>6. /\ wallet[Jupiter][a] >= out /\ wallet[payer]["gas"] >= gas
      /\ wallet' = Move(w, payer, r, "gas", gas)
  BY <1>3, <1>4, <1>5 DEF Deliver, Credited
<1>7. a # "usdc"
  BY OutputIsNoUsdc
<1>8. /\ TypeOK /\ Countable(wallet) /\ r \in Holders /\ payer \in Holders
      /\ "usdc" \in Assets /\ "gas" \in Assets /\ wallet \in Ledger
  BY DEF IInv, ValueInv, Counted, Holders, Assets, TypeOK, Ledger
<1>9. /\ s \in Ledger /\ Countable(s)
      /\ \A b \in Assets : Sum(wallet, b) \in Nat /\ Sum(s, b) \in Int
      /\ Sum(s, "usdc") = Sum(wallet, "usdc") + fills[f].amount + swapUsdc[f]
      /\ Sum(s, a) = Sum(wallet, a) - out
      /\ \A b \in Assets : b \notin {"usdc", a} => Sum(s, b) = Sum(wallet, b)
  BY <1>2, <1>4, <1>6, <1>7, <1>8, SwappedSum
<1>10. /\ w \in Ledger /\ Countable(w)
       /\ Sum(w, a) = Sum(s, a) + out
       /\ \A b \in Assets : b # a => Sum(w, b) = Sum(s, b)
  BY <1>5, <1>8, <1>9, CreditSum
<1>11. w[payer]["gas"] >= gas
  <2>1. s[payer] = wallet[payer] /\ s[payer] \in [Assets -> Nat]
    <3>1. \A u \in Users : Swapped(f, a, spent, out)[u] = wallet[u]
      BY <1>2, <1>6, <1>7, <1>8, SwappedLedger
    <3>. QED BY <1>4, <1>8, <3>1 DEF Ledger
  <2>2. w[payer] = s[payer] \/ w[payer] = [s[payer] EXCEPT ![a] = s[payer][a] + out]
    BY <1>5, <1>8, <1>9 DEF Credited, Ledger
  <2>3. w[payer]["gas"] = s[payer]["gas"] \/ w[payer]["gas"] = s[payer]["gas"] + out
    BY <1>8, <2>1, <2>2
  <2>. QED BY <1>6, <1>8, <2>1, <2>3
<1>12. /\ wallet' \in Ledger /\ Countable(wallet')
       /\ \A b \in Assets : Sum(wallet', b) = Sum(w, b)
  BY <1>6, <1>10, <1>11, MoveSum
<1>13. swapUsdc'[f] = 0 /\ \A g \in Fills : g # f => swapUsdc'[g] = swapUsdc[g]
  BY DEF IInv, TypeOK
<1>14. Only(f)
  BY <1>2, <1>13 DEF Only
<1>15. Balanced(f)
  <2>1. \A b : Own(staged[f], b) = 0 /\ Own(staged'[f], b) = 0
    BY <1>2 DEF Own
  <2>2. Gained("usdc") = n + swapUsdc[f]
    <3>1. Sum(wallet', "usdc") = Sum(wallet, "usdc") + n + swapUsdc[f]
      BY <1>1, <1>7, <1>8, <1>9, <1>10, <1>12
    <3>2. Sum(wallet, "usdc") \in Nat
      BY <1>8, <1>9
    <3>. QED BY <1>2, <3>1, <3>2 DEF Gained
  <2>3. \A b \in {"gas", "other"} : Gained(b) = 0
    <3>1. ASSUME NEW b \in {"gas", "other"}
          PROVE  Sum(wallet', b) = Sum(wallet, b) /\ Sum(wallet, b) \in Nat
      <4>1. b \in Assets /\ b # "usdc"
        BY DEF Assets
      <4>2. CASE b = a
        BY <1>9, <1>10, <1>12, <4>1, <4>2
      <4>3. CASE b # a
        BY <1>9, <1>10, <1>12, <4>1, <4>3
      <4>. QED BY <4>2, <4>3
    <3>. QED BY <3>1 DEF Gained
  <2>. QED BY <1>2, <1>13, <2>1, <2>2, <2>3 DEF Balanced
<1>16. TypeOK' /\ Receipted' /\ Countable(wallet)'
  BY <1>2, <1>12 DEF IInv
<1>. QED BY <1>8, <1>14, <1>15, <1>16, Rebalances

\* A swap whose output is staged.
LEMMA StagedValue ==
  ASSUME IInv, IInv', ValueInv, NEW f \in Fills, NEW a \in Assets, NEW payer \in Users,
         NEW spent \in Nat, NEW out \in Nat, CompleteSwapPayload(f, a, payer, spent, out)
  PROVE  ValueInv'
<1>1. PICK s : s = [recipient |-> fills[f].recipient, asset |-> a, amount |-> out,
                    isNative |-> a = "gas"]
  OBVIOUS
<1>2. /\ Consume(f, {payer}, 0, out, 0, TRUE) /\ OutputAsset(f, a)
      /\ spent <= fills[f].amount + swapUsdc[f] /\ swapUsdc' = [swapUsdc EXCEPT ![f] = 0]
      /\ wallet[Jupiter][a] >= out /\ wallet' = Swapped(f, a, spent, out)
      /\ staged' = [staged EXCEPT ![f] = s]
  BY <1>1 DEF CompleteSwapPayload, Swap
<1>3. PICK n \in Nat : n = fills[f].amount
  BY <1>2, PendingIsFill DEF Consume, Consumable, IInv
<1>4. /\ Pending(f) /\ swapUsdc[f] \in Nat /\ fills[f].recipient \in Users
      /\ staged[f] = None /\ Receipted'
      /\ Received[f] = 0 /\ Received'[f] = n
      /\ \A g \in Fills : g # f => Received'[g] = Received[g]
  <2>1. {payer} \in SUBSET Users /\ 0 \in Nat /\ TRUE \in BOOLEAN /\ Receipted
    BY DEF ValueInv
  <2>. QED BY <1>2, <1>3, <2>1, ConsumedFill
<1>5. s.asset = a /\ s.amount = out /\ s # None
  <2>1. s \in Staged
    BY <1>1, <1>4 DEF Staged
  <2>. QED BY <1>1, <2>1, NoneIsNotStaged
<1>6. staged'[f] = s /\ swapUsdc'[f] = 0
      /\ \A g \in Fills : g # f => staged'[g] = staged[g] /\ swapUsdc'[g] = swapUsdc[g]
  BY <1>2 DEF IInv, TypeOK
<1>7. a # "usdc" /\ TypeOK /\ Countable(wallet) /\ "usdc" \in Assets
  BY <1>2, OutputIsNoUsdc DEF IInv, ValueInv, Counted, Assets
<1>8. /\ Countable(wallet')
      /\ \A b \in Assets : Sum(wallet, b) \in Nat /\ Sum(wallet', b) \in Int
      /\ Sum(wallet', "usdc") = Sum(wallet, "usdc") + n + swapUsdc[f]
      /\ Sum(wallet', a) = Sum(wallet, a) - out
      /\ \A b \in Assets : b \notin {"usdc", a} => Sum(wallet', b) = Sum(wallet, b)
  BY <1>2, <1>3, <1>4, <1>7, SwappedSum
<1>9. Only(f)
  BY <1>4, <1>6 DEF Only
<1>10. Balanced(f)
  <2>1. \A b : Own(staged[f], b) = 0 /\ Own(staged'[f], b) = IF b = a THEN out ELSE 0
    BY <1>4, <1>5, <1>6 DEF Own
  <2>2. Gained("usdc") = n + swapUsdc[f]
    BY <1>4, <1>7, <1>8 DEF Gained
  <2>3. Own(staged'[f], "usdc") = 0
    BY <1>7, <2>1
  <2>4. \A b \in {"gas", "other"} : Gained(b) = IF b = a THEN 0 - out ELSE 0
    <3> SUFFICES ASSUME NEW b \in {"gas", "other"}
                 PROVE  Gained(b) = IF b = a THEN 0 - out ELSE 0
      OBVIOUS
    <3>1. b \in Assets /\ b # "usdc" /\ Sum(wallet, b) \in Nat
      BY <1>8 DEF Assets
    <3>2. CASE b = a
      BY <1>8, <3>1, <3>2 DEF Gained
    <3>3. CASE b # a
      BY <1>8, <3>1, <3>3 DEF Gained
    <3>. QED BY <3>2, <3>3
  <2>. QED BY <1>4, <1>6, <2>1, <2>2, <2>3, <2>4 DEF Balanced
<1>11. TypeOK' /\ Receipted' /\ Countable(wallet)'
  BY <1>4, <1>8 DEF IInv
<1>. QED BY <1>7, <1>9, <1>10, <1>11, Rebalances

\* The release of a custody account.
LEMMA ReleaseValue ==
  ASSUME IInv, IInv', ValueInv, NEW f \in Fills, Release(f)
  PROVE  ValueInv'
<1>1. PICK dst \in Users :
        /\ staged[f] # None /\ staged' = [staged EXCEPT ![f] = None]
        /\ wallet' = [wallet EXCEPT ![dst][staged[f].asset] = @ + staged[f].amount]
        /\ UNCHANGED <<fills, swapUsdc, receipt>>
  BY DEF Release, ReleaseInbound
<1>2. staged[f].asset \in Assets /\ staged[f].amount \in Nat
  BY <1>1 DEF IInv, TypeOK, Staged
<1>3. PICK a \in Assets : a = staged[f].asset
  BY <1>2
<1>4. PICK n \in Nat : n = staged[f].amount
  BY <1>2
<1>5. dst \in Holders /\ wallet \in Ledger /\ Countable(wallet)
  BY DEF Holders, IInv, TypeOK, Ledger, ValueInv, Counted
<1>6. Credited(wallet, wallet', dst, a, n)
  BY <1>1, <1>3, <1>4 DEF Credited
<1>7. /\ Countable(wallet') /\ \A b \in Assets : Sum(wallet, b) \in Nat /\ Sum(wallet', b) \in Nat
      /\ Sum(wallet', a) = Sum(wallet, a) + n
      /\ \A b \in Assets : b # a => Sum(wallet', b) = Sum(wallet, b)
  BY <1>5, <1>6, CreditSum
<1>8. staged'[f] = None /\ \A g \in Fills : g # f => staged'[g] = staged[g]
  BY <1>1 DEF IInv, TypeOK
<1>9. Received' = Received /\ swapUsdc' = swapUsdc /\ Receipted'
  BY <1>1 DEF Received, Receipted, ValueInv
<1>10. Only(f)
  BY <1>8, <1>9 DEF Only
<1>11. Balanced(f)
  <2>1. \A b \in Assets : Gained(b) + (Own(staged'[f], b) - Own(staged[f], b)) = 0
    <3> SUFFICES ASSUME NEW b \in Assets
                 PROVE  Gained(b) + (Own(staged'[f], b) - Own(staged[f], b)) = 0
      OBVIOUS
    <3>1. Own(staged'[f], b) = 0 /\ Own(staged[f], b) = IF b = a THEN n ELSE 0
      BY <1>1, <1>3, <1>4, <1>8 DEF Own
    <3>2. CASE b = a
      BY <1>7, <3>1, <3>2 DEF Gained
    <3>3. CASE b # a
      BY <1>7, <3>1, <3>3 DEF Gained
    <3>. QED BY <3>2, <3>3
  <2>2. swapUsdc[f] \in Nat /\ Received[f] \in Nat
    BY BalancesAre DEF IInv, ValueInv
  <2>3. "usdc" \in Assets /\ {"gas", "other"} \subseteq Assets
    BY DEF Assets
  <2>4. (swapUsdc'[f] - swapUsdc[f] = 0) /\ (Received'[f] - Received[f] = 0)
    BY <1>9, <2>2
  <2>. QED BY <2>1, <2>3, <2>4 DEF Balanced
<1>12. TypeOK /\ TypeOK' /\ Countable(wallet)'
  BY <1>7 DEF IInv
<1>. QED BY <1>9, <1>10, <1>11, <1>12, Rebalances

\* A donation to a swap token account.
LEMMA DonationValue ==
  ASSUME IInv, IInv', ValueInv, NEW f \in Fills, NEW u \in Users, Donate(u, f)
  PROVE  ValueInv'
<1>1. /\ wallet' = [wallet EXCEPT ![u]["usdc"] = @ - 1]
      /\ swapUsdc' = [swapUsdc EXCEPT ![f] = @ + 1]
      /\ UNCHANGED <<fills, staged, receipt>>
  BY DEF Donate
<1>2. u \in Holders /\ "usdc" \in Assets /\ wallet \in Ledger /\ wallet' \in Ledger
      /\ Countable(wallet)
  BY DEF Holders, Assets, IInv, TypeOK, Ledger, ValueInv, Counted
<1>3. /\ wallet[u]["usdc"] \in Nat /\ wallet'[u]["usdc"] = wallet[u]["usdc"] - 1
      /\ \A b \in Assets : b # "usdc" => wallet'[u][b] = wallet[u][b]
      /\ \A g \in Holders : g # u => wallet'[g] = wallet[g]
  BY <1>1, <1>2 DEF Ledger
<1>4. Alike(wallet, wallet', u, "usdc")
  BY <1>2, <1>3 DEF Alike
<1>5. /\ Countable(wallet') /\ \A b \in Assets : Sum(wallet, b) \in Nat /\ Sum(wallet', b) \in Nat
      /\ Sum(wallet', "usdc") = Sum(wallet, "usdc") + wallet'[u]["usdc"] - wallet[u]["usdc"]
      /\ \A b \in Assets : b # "usdc" => Sum(wallet', b) = Sum(wallet, b)
  BY <1>2, <1>4, EntryChanges
<1>6. swapUsdc[f] \in Nat /\ swapUsdc'[f] = swapUsdc[f] + 1
      /\ \A g \in Fills : g # f => swapUsdc'[g] = swapUsdc[g]
  BY <1>1 DEF IInv, TypeOK
<1>7. Received' = Received /\ Receipted'
  BY <1>1 DEF Received, Receipted, ValueInv
<1>8. Only(f)
  BY <1>1, <1>6, <1>7 DEF Only
<1>9. Balanced(f)
  <2>1. Gained("usdc") = 0 - 1
    BY <1>2, <1>3, <1>5 DEF Gained
  <2>2. \A b \in {"gas", "other"} : Gained(b) = 0
    BY <1>5 DEF Gained, Assets
  <2>3. \A b \in Assets : Own(staged'[f], b) - Own(staged[f], b) = 0
    BY <1>1, BalancesAre DEF IInv, ValueInv
  <2>4. Received'[f] - Received[f] = 0
    BY <1>7, BalancesAre DEF IInv, ValueInv
  <2>. QED BY <1>6, <2>1, <2>2, <2>3, <2>4 DEF Balanced, Assets
<1>10. TypeOK /\ TypeOK' /\ Countable(wallet)'
  BY <1>5 DEF IInv
<1>. QED BY <1>7, <1>8, <1>9, <1>10, Rebalances

\* A step that moves nothing.
LEMMA StillValue ==
  ASSUME ValueInv, UNCHANGED <<wallet, swapUsdc, staged>>, Receipted', Received' = Received
  PROVE  ValueInv'
<1>1. \A a : InWallets(a)' = InWallets(a) /\ InCustody(a)' = InCustody(a)
  BY DEF InWallets, InCustody
<1>2. \A a : Held(a)' = Held(a)
  BY <1>1 DEF Held
<1>3. Counted'
  BY <1>1 DEF ValueInv, Counted, Countable, Column
<1>4. Conservation'
  BY <1>2 DEF ValueInv, Conservation
<1>. QED BY <1>3, <1>4 DEF ValueInv

LEMMA ValueStep ==
  ASSUME IInv, IInv', ValueInv, [Next]_vars
  PROVE  ValueInv'
<1>1. ASSUME NEW f \in Fills, CompleteTransfer(f) PROVE ValueInv'
  BY <1>1, DirectValue, RelayValue, PayloadValue DEF CompleteTransfer
<1>2. ASSUME NEW f \in Fills, CompleteSwap(f) PROVE ValueInv'
  <2>1. PICK a \in Assets, payer \in Users, spent \in 0 .. 2 * Funds, out \in 0 .. MaxOut :
          \/ CompleteSwapDirect(f, a, payer, spent, out)
          \/ CompleteSwapRelay(f, a, payer, spent, out)
          \/ CompleteSwapPayload(f, a, payer, spent, out)
    BY <1>2 DEF CompleteSwap
  <2>2. spent \in Nat /\ out \in Nat
    BY BoundsAssumption
  <2>3. CASE CompleteSwapDirect(f, a, payer, spent, out)
    <3>1. /\ Consume(f, {payer}, 0, out, 0, TRUE) /\ OutputAsset(f, a)
          /\ spent <= fills[f].amount + swapUsdc[f] /\ swapUsdc' = [swapUsdc EXCEPT ![f] = 0]
          /\ Deliver(f, a, payer, spent, out, 0) /\ UNCHANGED staged /\ 0 \in Nat
      BY <2>3 DEF CompleteSwapDirect, Swap
    <3>. QED BY <2>2, <3>1, DeliveredValue
  <2>4. CASE CompleteSwapRelay(f, a, payer, spent, out)
    <3>1. PICK fee : fee = IF payer = fills[f].recipient THEN 0 ELSE fills[f].fee
      OBVIOUS
    <3>2. PICK gas : gas = IF payer = fills[f].recipient THEN 0 ELSE fills[f].dropoff
      OBVIOUS
    <3>3. /\ Consume(f, {payer}, 0, out, gas, TRUE) /\ OutputAsset(f, a)
          /\ spent <= fills[f].amount + swapUsdc[f] - fee
          /\ swapUsdc' = [swapUsdc EXCEPT ![f] = 0]
          /\ Deliver(f, a, payer, spent, out, gas) /\ UNCHANGED staged
      BY <2>4, <3>1, <3>2 DEF CompleteSwapRelay, Swap
    <3>4. /\ fills[f].fee \in Nat /\ fills[f].dropoff \in Nat
          /\ fills[f].amount \in Nat /\ swapUsdc[f] \in Nat
      BY <3>3, PendingIsFill DEF Consume, Consumable, IInv
    <3>5. gas \in Nat /\ spent <= fills[f].amount + swapUsdc[f]
      <4>1. fee \in Nat /\ gas \in Nat
        BY <3>1, <3>2, <3>4
      <4>. QED BY <2>2, <3>3, <3>4, <4>1
    <3>. QED BY <2>2, <3>3, <3>5, DeliveredValue
  <2>. QED BY <2>1, <2>2, <2>3, <2>4, StagedValue
<1>3. ASSUME NEW f \in Fills, NEW m \in Incoming, PrepareFill(f, m) PROVE ValueInv'
  <2>1. /\ fills' = [fills EXCEPT ![f] = m] /\ fills[f] = None /\ m # Consumed
        /\ None # Consumed /\ UNCHANGED <<wallet, swapUsdc, staged, receipt>>
    BY <1>3, DistinctAssumption DEF PrepareFill
  <2>2. \A g \in Fills : fills'[g] = Consumed <=> fills[g] = Consumed
    BY <2>1 DEF IInv, TypeOK
  <2>3. Received' = Received /\ Receipted'
    BY <2>1, <2>2 DEF Received, Receipted, ValueInv
  <2>. QED BY <2>1, <2>3, StillValue
<1>4. ASSUME UNCHANGED <<wallet, fills, swapUsdc, staged, receipt>> PROVE ValueInv'
  BY <1>4, StillValue DEF Received, Receipted, ValueInv
<1>5. ASSUME NEW c \in Chains, NEW p \in PeerAccounts, UpdatePeer(c, p) PROVE ValueInv'
  BY <1>4, <1>5 DEF UpdatePeer
<1>6. ASSUME Tick \/ UNCHANGED vars PROVE ValueInv'
  BY <1>4, <1>6 DEF Tick, vars
<1>. QED BY <1>1, <1>2, <1>3, <1>5, <1>6, ReleaseValue, DonationValue DEF Next

LEMMA StartValue == ASSUME Init PROVE ValueInv
<1>1. IsFiniteSet(Holders)
  <2>1. IsFiniteSet({FeeRecipient, Jupiter})
    <3>1. IsFiniteSet({FeeRecipient}) /\ IsFiniteSet({Jupiter})
      BY FS_Singleton
    <3>2. {FeeRecipient, Jupiter} = {FeeRecipient} \cup {Jupiter}
      OBVIOUS
    <3>. QED BY <3>1, <3>2, FS_Union
  <2>. QED BY <2>1, UsersAssumption, FS_Union DEF Holders
<1>2. PICK n \in Nat : n = Cardinality(Holders)
  BY <1>1, FS_CardinalityType
<1>3. PICK supply \in Nat : supply = Funds * n
  BY <1>2, BoundsAssumption
<1>4. \A a \in Assets : IsFiniteSet(Units(InWallets(a))) /\ Total(InWallets(a)) = supply
                        /\ InWallets(a) = Column(wallet, a)
  <2> SUFFICES ASSUME NEW a \in Assets
               PROVE  IsFiniteSet(Units(InWallets(a))) /\ Total(InWallets(a)) = supply
                      /\ InWallets(a) = Column(wallet, a)
    OBVIOUS
  <2>1. InWallets(a) = [h \in Holders |-> Funds] /\ InWallets(a) = Column(wallet, a)
    BY DEF InWallets, Init, Column
  <2>2. /\ IsFiniteSet(Units([h \in Holders |-> Funds]))
        /\ Total([h \in Holders |-> Funds]) = Funds * Cardinality(Holders)
    BY <1>1, BoundsAssumption, TotalOfEqual
  <2>. QED BY <1>2, <1>3, <2>1, <2>2
<1>5. \A a \in Assets : IsFiniteSet(Units(InCustody(a))) /\ Total(InCustody(a)) = 0
  <2> SUFFICES ASSUME NEW a \in Assets
               PROVE  IsFiniteSet(Units(InCustody(a))) /\ Total(InCustody(a)) = 0
    OBVIOUS
  <2>1. InCustody(a) \in [Fills -> Nat] /\ \A f \in Fills : InCustody(a)[f] = 0
    BY DEF InCustody, Init
  <2>. QED BY <2>1, TotalOfNone
<1>6. IsFiniteSet(Units(swapUsdc)) /\ Total(swapUsdc) = 0
  <2>1. swapUsdc \in [Fills -> Nat] /\ \A f \in Fills : swapUsdc[f] = 0
    BY DEF Init
  <2>. QED BY <2>1, TotalOfNone
<1>7. IsFiniteSet(Units(Received)) /\ Total(Received) = 0 /\ Receipted
  <2>1. \A f \in Fills : fills[f] # Consumed
    BY DistinctAssumption DEF Init
  <2>2. Received \in [Fills -> Nat] /\ \A f \in Fills : Received[f] = 0
    BY <2>1 DEF Received
  <2>. QED BY <2>1, <2>2, TotalOfNone DEF Receipted
<1>8. Counted
  BY <1>4, <1>5, <1>6, <1>7 DEF Counted, Countable
<1>9. Conservation
  <2>1. \A a \in Assets : Held(a) = supply
    BY <1>4, <1>5 DEF Held
  <2>. QED BY <1>2, <1>3, <1>6, <1>7, <2>1 DEF Conservation, Assets
<1>. QED BY <1>7, <1>8, <1>9 DEF ValueInv

\* Completing and releasing fills neither creates nor loses value, for any number
\* of wallets and fills and any amounts.
THEOREM ValueConserved == Spec => []Conservation
<1>1. Init => IInv /\ ValueInv
  BY Start, StartValue
<1>2. IInv /\ ValueInv /\ [Next]_vars => (IInv /\ ValueInv)'
  BY Step, ValueStep
<1>3. ValueInv => Conservation
  BY DEF ValueInv
<1>. QED BY <1>1, <1>2, <1>3, PTL DEF Spec
=============================================================================
