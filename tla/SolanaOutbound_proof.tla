------------------------ MODULE SolanaOutbound_proof ------------------------
(***************************************************************************)
(* Proofs about SolanaOutbound, for any number of wallets, accounts and    *)
(* chains and any requests: type correctness; every order honours the      *)
(* staging it comes from, which becomes one order at most; rents return, a *)
(* delegation is spent whole, and a staging that ends is paid in an order  *)
(* or a refund.  The promise of StagedTransfer is kept.                    *)
(***************************************************************************)
EXTENDS SolanaOutboundPromise, FiniteSetTheorems, TLAPS

------------------------------------------------------------------------------
USE NaturalsAssumption, NullsAssumption, InputsAssumption, NoneAssumption

LEMMA TransferAmountType ==
  ASSUME TypeOK, NEW r \in Requests, NEW m \in Mints, ArgsAccepted(r, m)
  PROVE  /\ TransferAmount(r, m) \in Nat
         /\ Fee(r) \in Nat
         /\ r \in Request /\ r.chain \in Chains
  <1>1. r \in Request
    OBVIOUS
  <1>2. r.amountIn \in Nat /\ r.chain \in Chains
    BY <1>1 DEF Request
  <1>3. peers[r.chain].quote \in Quotes \cup {NoQuote}
    BY <1>2 DEF TypeOK, Peer
  <1>4. Fee(r) \in Nat
    BY <1>3 DEF Fee, ArgsAccepted, RelayAccepted
  <1> QED
    BY <1>1, <1>2, <1>4 DEF TransferAmount, Fee

(* What opening the accounts of a staging does to the types.                *)
LEMMA OpenType ==
  ASSUME TypeOK, NEW k \in Keys, NEW payer \in Users, NEW sender \in Users,
         NEW refund \in Users, NEW r \in Requests, NEW m \in Mints,
         Open(k, payer, sender, refund, r, m)
  PROVE  /\ peers' \in [Chains -> Peer]
         /\ staged' \in [Keys -> Staged \cup {None}]
         /\ custody' \in [Keys -> Custody \cup {None}]
         /\ orders' \in [Keys -> Order \cup {None}]
         /\ placed' \in Seq(Order)
         /\ deposits' \in [Users -> Int]
         /\ log' \in Seq(Entry)
         /\ TransferAmount(r, m) \in Nat
  <1>1. ArgsAccepted(r, m)
    BY DEF Open
  <1>2. TransferAmount(r, m) \in Nat /\ Fee(r) \in Nat /\ r \in Request
    BY <1>1, TransferAmountType
  <1>3. r.chain \in Chains /\ r.recipient \in Addresses /\ r.exactIn \in BOOLEAN
        /\ r.minOut \in Nat \cup {NoMin} /\ r.redeem \in Modes
    BY <1>2 DEF Request
  <1>4. peers' \in [Chains -> Peer] /\ orders' \in [Keys -> Order \cup {None}]
        /\ placed' \in Seq(Order)
    BY DEF Open, TypeOK
  <1>5. [mint |-> m, chain |-> r.chain, amount |-> TransferAmount(r, m)] \in Custody
    BY <1>2, <1>3 DEF Custody
  <1>6. custody' \in [Keys -> Custody \cup {None}]
    BY <1>5 DEF Open, TypeOK
  <1>7. log \in Seq(Entry) /\ Len(log) + 1 \in Nat
    BY DEF TypeOK
  <1>8. [mode |-> r.redeem, fee |-> Fee(r)] \in StagedRedeem
    BY <1>2, <1>3 DEF StagedRedeem
  <1>9. [id |-> Len(log) + 1, preparedBy |-> payer, sender |-> sender,
         refund |-> refund, chain |-> r.chain, exactIn |-> r.exactIn,
         recipient |-> r.recipient, minOut |-> r.minOut,
         redeem |-> [mode |-> r.redeem, fee |-> Fee(r)]] \in Staged
    BY <1>3, <1>7, <1>8 DEF Staged
  <1>10. staged' \in [Keys -> Staged \cup {None}]
    BY <1>9 DEF Open, TypeOK
  <1>11. deposits' \in [Users -> Int]
    BY DEF Open, TypeOK
  <1>12. [args |-> r, mint |-> m, sender |-> sender, refund |-> refund,
          put |-> TransferAmount(r, m)] \in Entry
    BY <1>2 DEF Entry
  <1>13. log' \in Seq(Entry)
    BY <1>7, <1>12 DEF Open
  <1> QED
    BY <1>2, <1>4, <1>6, <1>10, <1>11, <1>13

------------------------------------------------------------------------------
(* Every variable keeps its type: TypeOK is inductive.                      *)

LEMMA LedgerType ==
  ASSUME NEW w \in [Holders -> [Assets -> Nat]], NEW h \in Holders, NEW a \in Assets,
         NEW n \in Nat
  PROVE  /\ Credit(w, h, a, n) \in [Holders -> [Assets -> Nat]]
         /\ w[h][a] >= n => Debit(w, h, a, n) \in [Holders -> [Assets -> Nat]]
  BY DEF Credit, Debit

LEMMA SpendType ==
  ASSUME TypeOK, NEW u \in Users, NEW m \in Mints, NEW n \in Nat,
         delegation[u][m].amount >= n, SpendDelegation(u, m, n)
  PROVE  delegation' \in
           [Users -> [Mints -> [delegate : Users \cup Request \cup {Nobody}, amount : Nat]]]
  <1> DEFINE D == [delegate : Users \cup Request \cup {Nobody}, amount : Nat]
             left == delegation[u][m].amount - n
  <1>1. delegation \in [Users -> [Mints -> D]] /\ delegation[u][m] \in D
    BY DEF TypeOK
  <1>2. left \in Nat
    BY <1>1
  <1>3. NoDelegation \in D
    BY DEF NoDelegation
  <1>4. [delegation[u][m] EXCEPT !.amount = left] \in D
    BY <1>1, <1>2
  <1> QED
    BY <1>1, <1>3, <1>4 DEF SpendDelegation

LEMMA InitType == Init => TypeOK
  <1> SUFFICES ASSUME Init PROVE TypeOK
    OBVIOUS
  <1>1. wallet \in [Holders -> [Assets -> Nat]]
    BY DEF Init
  <1>2. delegation \in
          [Users -> [Mints -> [delegate : Users \cup Request \cup {Nobody}, amount : Nat]]]
    BY DEF Init, NoDelegation
  <1> QED
    BY <1>1, <1>2 DEF Init, TypeOK

LEMMA CloseAccountsType ==
  ASSUME TypeOK, NEW k \in Keys, staged[k] # None, CloseAccounts(k)
  PROVE  /\ staged' \in [Keys -> Staged \cup {None}]
         /\ custody' \in [Keys -> Custody \cup {None}]
         /\ deposits' \in [Users -> Int]
  BY DEF CloseAccounts, TypeOK, Staged

LEMMA PrepareOrderType ==
  ASSUME TypeOK, NEW k \in Keys, staged[k] # None, NEW c \in Chains, NEW n \in Nat,
         PrepareOrder(k, c, n)
  PROVE  orders' \in [Keys -> Order \cup {None}]
  <1>1. staged[k] \in Staged /\ peers[c].address \in Addresses
    BY DEF TypeOK, Peer
  <1>2. SwapMessage(k) \in Message
    BY <1>1 DEF SwapMessage, Message, Staged
  <1>3. [id |-> staged[k].id, amount |-> n, chain |-> staged[k].chain,
         refund |-> staged[k].refund, redeemer |-> peers[c].address,
         msg |-> SwapMessage(k)] \in Order
    BY <1>1, <1>2 DEF Order, Staged
  <1> QED
    BY <1>3 DEF PrepareOrder, TypeOK

(* A staged outbound account and its custody account open and close         *)
(* together; without it the type of a custody balance is not known.         *)
Paired == \A k \in Keys : staged[k] = None <=> custody[k] = None

LEMMA TypeStep ==
  ASSUME TypeOK, Paired, [Next]_vars
  PROVE  TypeOK' /\ Paired'
  <1> USE DEF Paired
  <1>1. \A k \in Keys : staged[k] # None =>
          /\ staged[k] \in Staged
          /\ custody[k] \in Custody
          /\ custody[k].amount \in Nat /\ custody[k].mint \in Mints
    BY DEF TypeOK, Custody
  <1>2. Mints \subseteq Assets /\ "usdc" \in Assets /\ "lamports" \in Assets
        /\ "wsol" \in Mints /\ Users \subseteq Holders /\ Jupiter \in Holders
    BY DEF Mints, Assets, Holders
  <1>3. ASSUME NEW k \in Keys, NEW payer \in Users, NEW sender \in Users,
               NEW refund \in Users, NEW r \in Requests, NEW m \in Mints,
               Open(k, payer, sender, refund, r, m),
               wallet' \in [Holders -> [Assets -> Nat]],
               delegation' \in [Users -> [Mints ->
                 [delegate : Users \cup Request \cup {Nobody}, amount : Nat]]]
        PROVE  TypeOK' /\ Paired'
    <2>1. /\ peers' \in [Chains -> Peer]
          /\ staged' \in [Keys -> Staged \cup {None}]
          /\ custody' \in [Keys -> Custody \cup {None}]
          /\ orders' \in [Keys -> Order \cup {None}]
          /\ placed' \in Seq(Order)
          /\ deposits' \in [Users -> Int]
          /\ log' \in Seq(Entry)
      BY <1>3, OpenType
    <2>2. TypeOK'
      BY <1>3, <2>1 DEF TypeOK
    <2>3. staged'[k] # None /\ custody'[k] # None
      <3> DEFINE c == [mint |-> m, chain |-> r.chain, amount |-> TransferAmount(r, m)]
                 s == [id |-> Len(log) + 1, preparedBy |-> payer, sender |-> sender,
                       refund |-> refund, chain |-> r.chain, exactIn |-> r.exactIn,
                       recipient |-> r.recipient, minOut |-> r.minOut,
                       redeem |-> [mode |-> r.redeem, fee |-> Fee(r)]]
      <3>1. TransferAmount(r, m) \in Nat /\ Fee(r) \in Nat /\ r \in Request
        BY <1>3, TransferAmountType DEF Open
      <3>2. c \in Custody
        BY <3>1 DEF Custody, Request
      <3>3. s \in Staged
        BY <3>1 DEF Staged, Request, StagedRedeem, TypeOK
      <3>4. staged'[k] = s /\ custody'[k] = c
        BY <1>3 DEF Open, TypeOK
      <3> QED
        BY <3>2, <3>3, <3>4
    <2>4. \A j \in Keys \ {k} : staged'[j] = staged[j] /\ custody'[j] = custody[j]
      BY <1>3 DEF Open, TypeOK
    <2> QED
      BY <2>2, <2>3, <2>4
  <1>4. ASSUME NEW k \in Keys, staged[k] # None, CloseAccounts(k)
        PROVE  Paired'
    BY <1>4 DEF CloseAccounts, TypeOK
  <1>5. ASSUME NEW k \in Keys, Stage(k)
        PROVE  TypeOK' /\ Paired'
    <2>1. PICK payer \in Users, refund \in Users, r \in Requests :
            \/ \E sender, owner \in Users, m \in Mints :
                 StageBySender(k, payer, sender, owner, refund, m, r)
            \/ \E owner \in Users, m \in Mints :
                 StageByAuthority(k, payer, owner, refund, m, r)
            \/ \E sender \in Users : StageLamports(k, payer, sender, refund, r)
      BY <1>5 DEF Stage
    <2>2. ASSUME NEW sender \in Users, NEW owner \in Users, NEW m \in Mints,
                 StageBySender(k, payer, sender, owner, refund, m, r)
          PROVE  TypeOK' /\ Paired'
      <3>1. Open(k, payer, sender, refund, r, m) /\ wallet[owner][m] >= TransferAmount(r, m)
            /\ wallet' = Debit(wallet, owner, m, TransferAmount(r, m))
        BY <2>2 DEF StageBySender
      <3>2. TransferAmount(r, m) \in Nat
        BY <3>1, OpenType
      <3>3. wallet' \in [Holders -> [Assets -> Nat]]
        BY <1>2, <3>1, <3>2, LedgerType DEF TypeOK
      <3>4. delegation' \in [Users -> [Mints ->
              [delegate : Users \cup Request \cup {Nobody}, amount : Nat]]]
        BY <2>2, <3>2, SpendType DEF StageBySender, TypeOK
      <3> QED
        BY <1>3, <3>1, <3>3, <3>4
    <2>3. ASSUME NEW owner \in Users, NEW m \in Mints,
                 StageByAuthority(k, payer, owner, refund, m, r)
          PROVE  TypeOK' /\ Paired'
      <3>1. Open(k, payer, owner, refund, r, m) /\ wallet[owner][m] >= TransferAmount(r, m)
            /\ wallet' = Debit(wallet, owner, m, TransferAmount(r, m))
            /\ delegation[owner][m].amount = TransferAmount(r, m)
            /\ SpendDelegation(owner, m, TransferAmount(r, m))
        BY <2>3 DEF StageByAuthority, DelegatedToArgs
      <3>2. TransferAmount(r, m) \in Nat
        BY <3>1, OpenType
      <3>3. wallet' \in [Holders -> [Assets -> Nat]]
        BY <1>2, <3>1, <3>2, LedgerType DEF TypeOK
      <3>4. delegation' \in [Users -> [Mints ->
              [delegate : Users \cup Request \cup {Nobody}, amount : Nat]]]
        BY <3>1, <3>2, SpendType
      <3> QED
        BY <1>3, <3>1, <3>3, <3>4
    <2>4. ASSUME NEW sender \in Users, StageLamports(k, payer, sender, refund, r)
          PROVE  TypeOK' /\ Paired'
      <3>1. Open(k, payer, sender, refund, r, "wsol")
            /\ wallet[sender]["lamports"] >= TransferAmount(r, "wsol")
            /\ wallet' = Debit(wallet, sender, "lamports", TransferAmount(r, "wsol"))
            /\ delegation' = delegation
        BY <2>4 DEF StageLamports
      <3>2. TransferAmount(r, "wsol") \in Nat
        BY <1>2, <3>1, OpenType
      <3>3. wallet' \in [Holders -> [Assets -> Nat]]
        BY <1>2, <3>1, <3>2, LedgerType DEF TypeOK
      <3> QED
        BY <1>2, <1>3, <3>1, <3>3 DEF TypeOK
    <2> QED
      BY <2>1, <2>2, <2>3, <2>4
  <1>6. ASSUME NEW k \in Keys, Close(k)
        PROVE  TypeOK' /\ Paired'
    <2>1. ASSUME NEW dst \in Users, CloseToToken(k, dst)
          PROVE  TypeOK' /\ Paired'
      <3>1. staged[k] # None /\ CloseAccounts(k)
            /\ wallet' = Credit(wallet, dst, custody[k].mint, custody[k].amount)
            /\ UNCHANGED <<delegation, peers, orders, placed, log>>
        BY <2>1 DEF CloseToToken
      <3>2. wallet' \in [Holders -> [Assets -> Nat]]
        BY <1>1, <1>2, <3>1, LedgerType DEF TypeOK
      <3> QED
        BY <1>4, <3>1, <3>2, CloseAccountsType DEF TypeOK
    <2>2. ASSUME CloseToLamports(k)
          PROVE  TypeOK' /\ Paired'
      <3>1. staged[k] # None /\ CloseAccounts(k)
            /\ wallet' = Credit(wallet, staged[k].sender, "lamports", custody[k].amount)
            /\ UNCHANGED <<delegation, peers, orders, placed, log>>
        BY <2>2 DEF CloseToLamports
      <3>2. staged[k].sender \in Holders
        BY <1>1, <1>2, <3>1 DEF Staged
      <3>3. wallet' \in [Holders -> [Assets -> Nat]]
        BY <1>1, <1>2, <3>1, <3>2, LedgerType DEF TypeOK
      <3> QED
        BY <1>4, <3>1, <3>3, CloseAccountsType DEF TypeOK
    <2> QED
      BY <1>6, <2>1, <2>2 DEF Close
  <1>7. ASSUME NEW k \in Keys, Initiate(k)
        PROVE  TypeOK' /\ Paired'
    <2>1. PICK c \in Chains : \/ InitiateTransfer(k, c)
                              \/ \E out, dust \in 0 .. Funds : InitiateSwapExactIn(k, c, out, dust)
      BY <1>7 DEF Initiate
    <2>2. CASE InitiateTransfer(k, c)
      <3>1. staged[k] # None /\ PrepareOrder(k, c, custody[k].amount) /\ CloseAccounts(k)
            /\ UNCHANGED <<wallet, delegation, peers, placed, log>>
        BY <2>2 DEF InitiateTransfer
      <3>2. orders' \in [Keys -> Order \cup {None}]
        BY <1>1, <3>1, PrepareOrderType
      <3> QED
        BY <1>4, <3>1, <3>2, CloseAccountsType DEF TypeOK
    <2>3. ASSUME NEW out \in 0 .. Funds, NEW dust \in 0 .. Funds,
                 InitiateSwapExactIn(k, c, out, dust)
          PROVE  TypeOK' /\ Paired'
      <3> DEFINE m == custody[k].mint
      <3>1. /\ staged[k] # None /\ PrepareOrder(k, c, out)
            /\ dust <= custody[k].amount /\ out <= wallet[Jupiter]["usdc"]
            /\ m # "usdc"
            /\ wallet' = Debit(Credit(wallet, Jupiter, m, custody[k].amount - dust),
                               Jupiter, "usdc", out)
            /\ IF dust = 0 THEN CloseAccounts(k) ELSE KeepDust(k, dust)
            /\ UNCHANGED <<delegation, peers, placed, log>>
        BY <2>3 DEF InitiateSwapExactIn, SwapAccounts
      <3>2. orders' \in [Keys -> Order \cup {None}]
        BY <3>1, PrepareOrderType
      <3>3. custody[k].amount - dust \in Nat /\ dust \in Nat /\ out \in Nat
        BY <1>1, <3>1
      <3>4. wallet' \in [Holders -> [Assets -> Nat]]
        <4>1. PICK w : w = Credit(wallet, Jupiter, m, custody[k].amount - dust)
          OBVIOUS
        <4>2. w \in [Holders -> [Assets -> Nat]]
          BY <1>1, <1>2, <3>1, <3>3, <4>1, LedgerType DEF TypeOK
        <4>3. w[Jupiter]["usdc"] = wallet[Jupiter]["usdc"]
          BY <1>1, <1>2, <3>1, <4>1 DEF Credit, TypeOK
        <4>4. Debit(w, Jupiter, "usdc", out) \in [Holders -> [Assets -> Nat]]
          BY <1>2, <3>1, <3>3, <4>2, <4>3, LedgerType
        <4> QED
          BY <3>1, <4>1, <4>4
      <3>5. CASE dust = 0
        BY <1>4, <3>1, <3>2, <3>4, <3>5, CloseAccountsType DEF TypeOK
      <3>6. CASE dust # 0
        <4>1. KeepDust(k, dust)
          BY <3>1, <3>6
        <4>2. custody' \in [Keys -> Custody \cup {None}] /\ custody'[k] \in Custody
          BY <1>1, <3>1, <3>3, <4>1 DEF KeepDust, TypeOK, Custody
        <4>3. Direct \in StagedRedeem
          BY DEF Direct, StagedRedeem, Modes
        <4>4. staged' \in [Keys -> Staged \cup {None}] /\ staged'[k] \in Staged
          BY <1>1, <3>1, <4>1, <4>3 DEF KeepDust, TypeOK, Staged
        <4>5. \A j \in Keys \ {k} : staged'[j] = staged[j] /\ custody'[j] = custody[j]
          BY <4>1 DEF KeepDust, TypeOK
        <4>6. Paired'
          BY <4>2, <4>4, <4>5
        <4>7. deposits' = deposits
          BY <4>1 DEF KeepDust
        <4> QED
          BY <3>1, <3>2, <3>4, <4>2, <4>4, <4>6, <4>7 DEF TypeOK
      <3> QED
        BY <3>5, <3>6
    <2> QED
      BY <2>1, <2>2, <2>3
  <1>8. ASSUME NEW k \in Keys, PlaceOrder(k)
        PROVE  TypeOK' /\ Paired'
    <2>1. orders[k] \in Order
      BY <1>8 DEF PlaceOrder, TypeOK
    <2> QED
      BY <1>8, <2>1 DEF PlaceOrder, TypeOK
  <1>9. ASSUME NEW u \in Users, NEW a \in Approvals, Approve(u, a)
        PROVE  TypeOK' /\ Paired'
    <2>1. a.mint \in Mints /\ [delegate |-> a.delegate, amount |-> a.amount] \in
            [delegate : Users \cup Request \cup {Nobody}, amount : Nat]
      BY DEF Approval
    <2>2. delegation' \in [Users -> [Mints ->
            [delegate : Users \cup Request \cup {Nobody}, amount : Nat]]]
      BY <1>9, <2>1 DEF Approve, TypeOK
    <2> QED
      BY <1>9, <2>2 DEF Approve, TypeOK
  <1>10. ASSUME NEW u \in Users, NEW k \in Keys, Donate(u, k, 1)
         PROVE  TypeOK' /\ Paired'
    <2>1. custody[k] # None /\ custody[k] \in Custody
      BY <1>10 DEF Donate, TypeOK
    <2>2. wallet' \in [Holders -> [Assets -> Nat]]
      BY <1>2, <1>10, <2>1, LedgerType DEF Donate, TypeOK, Custody
    <2>3. custody' \in [Keys -> Custody \cup {None}] /\ custody'[k] \in Custody
      <3>1. [custody[k] EXCEPT !.amount = custody[k].amount + 1] \in Custody
        BY <2>1 DEF Custody
      <3>2. custody' = [custody EXCEPT ![k] = [custody[k] EXCEPT !.amount = custody[k].amount + 1]]
        BY <1>10 DEF Donate
      <3> QED
        BY <3>1, <3>2 DEF TypeOK
    <2>4. \A j \in Keys \ {k} : custody'[j] = custody[j]
      BY <1>10 DEF Donate, TypeOK
    <2> QED
      BY <1>10, <2>1, <2>2, <2>3, <2>4 DEF Donate, TypeOK
  <1>11. ASSUME NEW c \in Chains, NEW p \in Peer, UpdatePeer(c, p)
         PROVE  TypeOK' /\ Paired'
    BY <1>11 DEF UpdatePeer, TypeOK
  <1>12. ASSUME NEW c \in Chains, NEW q \in Quotes \cup {NoQuote},
                UpdateRelayParameters(c, q)
         PROVE  TypeOK' /\ Paired'
    <2>1. peers' \in [Chains -> Peer]
      BY <1>12 DEF UpdateRelayParameters, TypeOK, Peer
    <2> QED
      BY <1>12, <2>1 DEF UpdateRelayParameters, TypeOK
  <1>13. CASE UNCHANGED vars
    BY <1>13 DEF vars, TypeOK
  <1> QED
    BY <1>5, <1>6, <1>7, <1>8, <1>9, <1>10, <1>11, <1>12, <1>13 DEF Next

(* The type invariant, with the pairing of accounts it rests on.            *)
THEOREM TypeCorrect == Spec => []TypeOK
  <1>1. Init => TypeOK /\ Paired
    BY InitType DEF Init, Paired
  <1>2. TypeOK /\ Paired /\ [Next]_vars => (TypeOK /\ Paired)'
    BY TypeStep
  <1> QED
    BY <1>1, <1>2, PTL DEF Spec

------------------------------------------------------------------------------
(* Orders honour their stagings.  The argument: a staged outbound account   *)
(* that has not been swapped (its recipient is not zeroed) still holds what *)
(* its log entry says, its custody account holds at least what was put in,  *)
(* and what was put in was measured against the fee quoted at that moment.  *)
(* An order copies such an account, and entries of the log never change.    *)

Sized(e, fee) ==
  /\ e.mint = "usdc" /\ e.args.exactIn =>
       e.put = e.args.amountIn /\ (e.args.redeem = "Relay" => e.put > fee)
  /\ e.mint = "usdc" /\ ~e.args.exactIn =>
       e.put = e.args.amountIn + fee /\ e.args.amountIn > 0
  /\ e.mint # "usdc" =>
       e.args.minOut \in Nat /\ (e.args.redeem = "Relay" => e.args.minOut > fee)

Faithful(s, c, e) ==
  /\ s.chain = e.args.chain
  /\ s.refund = e.refund
  /\ s.sender = e.sender
  /\ s.recipient = e.args.recipient
  /\ s.minOut = e.args.minOut
  /\ s.redeem.mode = e.args.redeem
  /\ s.redeem.fee <= e.args.maxFee
  /\ c.mint = e.mint
  /\ c.amount >= e.put
  /\ Sized(e, s.redeem.fee)

OrderOK(o, l) ==
  /\ o.id \in 1 .. Len(l)
  /\ HonoursRequest(o, l[o.id])
  /\ CoversFee(o)
  /\ HonoursAmount(o, l[o.id])

StagedOK(k) ==
  staged[k] # None =>
    /\ staged[k].id \in 1 .. Len(log)
    /\ IF staged[k].recipient # ZeroAddress
       THEN Faithful(staged[k], custody[k], log[staged[k].id])
       ELSE custody[k].mint # "usdc"

OrdersInv ==
  /\ \A k \in Keys : StagedOK(k)
  /\ \A k \in Keys : orders[k] # None => OrderOK(orders[k], log)
  /\ \A i \in 1 .. Len(placed) : OrderOK(placed[i], log)

(* A staging leaves the orders of earlier stagings as they were.            *)
LEMMA LogGrows ==
  ASSUME NEW l \in Seq(Entry), NEW e \in Entry, NEW o, OrderOK(o, l)
  PROVE  OrderOK(o, Append(l, e))
  <1>1. o.id \in 1 .. Len(Append(l, e)) /\ Append(l, e)[o.id] = l[o.id]
    BY DEF OrderOK
  <1> QED
    BY <1>1 DEF OrderOK

(* The account that a staging opens is faithful to its log entry.           *)
LEMMA OpenFaithful ==
  ASSUME TypeOK, OrdersInv, NEW k \in Keys, NEW payer \in Users, NEW sender \in Users,
         NEW refund \in Users, NEW r \in Requests, NEW m \in Mints,
         Open(k, payer, sender, refund, r, m)
  PROVE  OrdersInv'
  <1> DEFINE n == TransferAmount(r, m)
             c == [mint |-> m, chain |-> r.chain, amount |-> n]
             s == [id |-> Len(log) + 1, preparedBy |-> payer, sender |-> sender,
                   refund |-> refund, chain |-> r.chain, exactIn |-> r.exactIn,
                   recipient |-> r.recipient, minOut |-> r.minOut,
                   redeem |-> [mode |-> r.redeem, fee |-> Fee(r)]]
             e == [args |-> r, mint |-> m, sender |-> sender, refund |-> refund, put |-> n]
  <1>1. ArgsAccepted(r, m)
    BY DEF Open
  <1>2. n \in Nat /\ Fee(r) \in Nat /\ r \in Request
    BY <1>1, TransferAmountType
  <1>3. e \in Entry /\ log \in Seq(Entry)
    BY <1>2 DEF Entry, TypeOK
  <1>4. custody'[k] = c /\ staged'[k] = s /\ log' = Append(log, e)
    BY DEF Open, TypeOK
  <1>5. \A j \in Keys \ {k} : staged'[j] = staged[j] /\ custody'[j] = custody[j]
    BY DEF Open, TypeOK
  <1>6. Len(log') = Len(log) + 1 /\ Len(log) \in Nat /\ log'[Len(log) + 1] = e
        /\ \A i \in 1 .. Len(log) : log'[i] = log[i]
    BY <1>3, <1>4
  <1>7. r.redeem # "Relay" => Fee(r) = 0
    BY DEF Fee
  <1>8. Sized(e, Fee(r))
    <2> USE DEF Request
    <2>1. r.amountIn \in Nat /\ r.amountIn > 0 /\ r.exactIn \in BOOLEAN
          /\ r.minOut \in Nat \cup {NoMin}
      BY <1>1, <1>2 DEF ArgsAccepted
    <2>2. CASE m = "usdc" /\ r.exactIn
      <3>1. n = r.amountIn /\ (r.redeem = "Relay" => r.amountIn > Fee(r))
        BY <1>1, <2>2 DEF TransferAmount, ArgsAccepted, RelayAccepted
      <3> QED
        BY <2>2, <3>1 DEF Sized
    <2>3. CASE m = "usdc" /\ ~r.exactIn
      <3>1. n = r.amountIn + Fee(r)
        BY <1>2, <1>7, <2>1, <2>3 DEF TransferAmount
      <3> QED
        BY <2>1, <2>3, <3>1 DEF Sized
    <2>4. CASE m # "usdc"
      <3>1. r.minOut \in Nat /\ (r.redeem = "Relay" => r.minOut > Fee(r))
        BY <1>1, <2>1, <2>4 DEF ArgsAccepted, RelayAccepted
      <3> QED
        BY <2>4, <3>1 DEF Sized
    <2> QED
      BY <2>1, <2>2, <2>3, <2>4
  <1>9. Fee(r) <= r.maxFee
    BY <1>1, <1>2, <1>7 DEF ArgsAccepted, RelayAccepted, Request
  <1>10. Faithful(s, c, e)
    BY <1>2, <1>8, <1>9 DEF Faithful
  <1>11. s.recipient # ZeroAddress
    BY <1>1 DEF ArgsAccepted
  <1>12. StagedOK(k)'
    BY <1>4, <1>6, <1>10, <1>11 DEF StagedOK
  <1>13. ASSUME NEW j \in Keys \ {k} PROVE StagedOK(j)'
    <2>1. StagedOK(j)
      BY <1>13 DEF OrdersInv
    <2> QED
      BY <1>5, <1>6, <1>13, <2>1 DEF StagedOK
  <1>14. orders' = orders /\ placed' = placed
    BY DEF Open
  <1>15. \A j \in Keys : orders[j] # None => OrderOK(orders[j], log')
    BY <1>3, <1>4, LogGrows DEF OrdersInv
  <1>16. \A i \in 1 .. Len(placed) : OrderOK(placed[i], log')
    BY <1>3, <1>4, LogGrows DEF OrdersInv
  <1> QED
    BY <1>12, <1>13, <1>14, <1>15, <1>16 DEF OrdersInv

(* An order prepared from a faithful account, for at least what the account *)
(* must yield, honours the staging.                                         *)
LEMMA PrepareFaithful ==
  ASSUME TypeOK, OrdersInv, NEW k \in Keys, NEW c \in Chains, NEW n \in Nat,
         staged[k] # None, custody[k] \in Custody,
         staged[k].recipient # ZeroAddress,
         custody[k].mint = "usdc" => n = custody[k].amount,
         custody[k].mint # "usdc" => n >= staged[k].minOut,
         PrepareOrder(k, c, n)
  PROVE  \A j \in Keys : orders'[j] # None => OrderOK(orders'[j], log)
  <1> DEFINE s == staged[k]
             e == log[s.id]
             o == [id |-> s.id, amount |-> n, chain |-> s.chain, refund |-> s.refund,
                   redeemer |-> peers[c].address, msg |-> SwapMessage(k)]
  <1>1. s \in Staged /\ s.id \in 1 .. Len(log) /\ Faithful(s, custody[k], e)
    BY DEF OrdersInv, StagedOK, TypeOK
  <1>2. e \in Entry
    BY <1>1 DEF TypeOK
  <1>3. /\ s.redeem.fee \in Nat /\ e.put \in Nat /\ e.args.amountIn \in Nat
        /\ e.args.exactIn \in BOOLEAN /\ custody[k].amount \in Nat
    BY <1>1, <1>2 DEF Staged, StagedRedeem, Entry, Request, Custody
  <1>4. HonoursRequest(o, e)
    BY <1>1 DEF HonoursRequest, Faithful, SwapMessage
  <1> DEFINE fee == s.redeem.fee
             in == e.args.amountIn
  <1>a. /\ o.amount = n /\ o.msg.redeem.fee = fee
        /\ o.msg.redeem.mode = e.args.redeem
        /\ custody[k].mint = e.mint /\ custody[k].amount >= e.put
        /\ s.minOut = e.args.minOut
    BY <1>1 DEF SwapMessage, Faithful
  <1>b. /\ e.mint = "usdc" /\ e.args.exactIn =>
             e.put = in /\ (e.args.redeem = "Relay" => e.put > fee)
        /\ e.mint = "usdc" /\ ~e.args.exactIn => e.put = in + fee /\ in > 0
        /\ e.mint # "usdc" => e.args.minOut \in Nat
                              /\ (e.args.redeem = "Relay" => e.args.minOut > fee)
    BY <1>1 DEF Faithful, Sized
  <1>5. CoversFee(o)
    <2> SUFFICES ASSUME e.args.redeem = "Relay" PROVE n > fee
      BY <1>a DEF CoversFee
    <2> QED
      BY <1>3, <1>a, <1>b
  <1>6. HonoursAmount(o, e)
    <2>1. CASE e.mint # "usdc"
      BY <1>a, <2>1 DEF HonoursAmount
    <2>2. CASE e.mint = "usdc" /\ e.args.exactIn
      <3>1. n >= in
        BY <1>3, <1>a, <1>b, <2>2
      <3> QED
        BY <1>a, <2>2, <3>1 DEF HonoursAmount
    <2>3. CASE e.mint = "usdc" /\ ~e.args.exactIn
      <3>1. n - fee >= in
        BY <1>3, <1>a, <1>b, <2>3
      <3> QED
        BY <1>a, <2>3, <3>1 DEF HonoursAmount
    <2> QED
      BY <1>3, <2>1, <2>2, <2>3
  <1>7. OrderOK(o, log)
    BY <1>1, <1>4, <1>5, <1>6 DEF OrderOK
  <1>8. orders' = [orders EXCEPT ![k] = o]
    BY DEF PrepareOrder
  <1> QED
    <2>1. \A j \in Keys \ {k} : orders'[j] = orders[j]
      BY <1>8 DEF TypeOK
    <2>2. orders'[k] = o
      BY <1>8 DEF TypeOK
    <2>3. ASSUME NEW j \in Keys, orders'[j] # None PROVE OrderOK(orders'[j], log)
      <3>1. CASE j = k
        BY <1>7, <2>2, <3>1
      <3>2. CASE j # k
        BY <2>1, <2>3, <3>2 DEF OrdersInv
      <3> QED
        BY <3>1, <3>2
    <2> QED
      BY <2>3

LEMMA OrdersStep ==
  ASSUME TypeOK, Paired, OrdersInv, [Next]_vars
  PROVE  OrdersInv'
  <1>1. \A k \in Keys : staged[k] # None =>
          /\ staged[k] \in Staged
          /\ custody[k] \in Custody
          /\ custody[k].amount \in Nat
    BY DEF TypeOK, Paired, Custody
  (* Steps that leave the log, the staged accounts and the orders alone.    *)
  <1>2. ASSUME UNCHANGED <<log, staged, orders, placed, custody>>
        PROVE  OrdersInv'
    BY <1>2 DEF OrdersInv, StagedOK
  (* Steps that only close accounts, whatever they do to the orders.        *)
  <1>3. ASSUME NEW k \in Keys, CloseAccounts(k), log' = log
        PROVE  \A j \in Keys : StagedOK(j)'
    <2>1. staged'[k] = None
      BY <1>3 DEF CloseAccounts, TypeOK
    <2>2. \A j \in Keys \ {k} : staged'[j] = staged[j] /\ custody'[j] = custody[j]
      BY <1>3 DEF CloseAccounts, TypeOK
    <2>3. \A j \in Keys : StagedOK(j)
      BY DEF OrdersInv
    <2> QED
      BY <1>3, <2>1, <2>2, <2>3 DEF StagedOK
  <1>4. ASSUME NEW k \in Keys, Stage(k)
        PROVE  OrdersInv'
    <2>1. \E payer \in Users, sender \in Users, refund \in Users, r \in Requests, m \in Mints :
            Open(k, payer, sender, refund, r, m)
      BY <1>4 DEF Stage, StageBySender, StageByAuthority, StageLamports, Mints
    <2> QED
      BY <2>1, OpenFaithful
  <1>5. ASSUME NEW k \in Keys, Close(k)
        PROVE  OrdersInv'
    <2>1. CloseAccounts(k) /\ UNCHANGED <<orders, placed, log>>
      BY <1>5 DEF Close, CloseToToken, CloseToLamports
    <2> QED
      BY <1>3, <2>1 DEF OrdersInv
  <1>6. ASSUME NEW k \in Keys, NEW c \in Chains, InitiateTransfer(k, c)
        PROVE  OrdersInv'
    <2>1. /\ staged[k] # None /\ custody[k].mint = "usdc"
          /\ PrepareOrder(k, c, custody[k].amount)
          /\ CloseAccounts(k) /\ UNCHANGED <<placed, log>>
      BY <1>6 DEF InitiateTransfer
    <2>2. staged[k].recipient # ZeroAddress
      BY <2>1 DEF OrdersInv, StagedOK
    <2>3. \A j \in Keys : orders'[j] # None => OrderOK(orders'[j], log)
      BY <1>1, <2>1, <2>2, PrepareFaithful
    <2> QED
      BY <1>3, <2>1, <2>3 DEF OrdersInv
  <1>7. ASSUME NEW k \in Keys, NEW c \in Chains, NEW out \in 0 .. Funds,
               NEW dust \in 0 .. Funds, InitiateSwapExactIn(k, c, out, dust)
        PROVE  OrdersInv'
    <2>1. /\ staged[k] # None /\ custody[k].mint # "usdc"
          /\ staged[k].recipient # ZeroAddress
          /\ out >= staged[k].minOut
          /\ PrepareOrder(k, c, out)
          /\ IF dust = 0 THEN CloseAccounts(k) ELSE KeepDust(k, dust)
          /\ UNCHANGED <<placed, log>>
      BY <1>7 DEF InitiateSwapExactIn, SwapAccounts
    <2>2. \A j \in Keys : orders'[j] # None => OrderOK(orders'[j], log)
      BY <1>1, <2>1, PrepareFaithful
    <2>3. CASE dust = 0
      BY <1>3, <2>1, <2>2, <2>3 DEF OrdersInv
    <2>4. CASE dust # 0
      <3>1. KeepDust(k, dust)
        BY <2>1, <2>4
      <3>2. /\ staged'[k].recipient = ZeroAddress
            /\ staged'[k].id = staged[k].id
            /\ custody'[k].mint = custody[k].mint
        BY <1>1, <2>1, <3>1 DEF KeepDust, TypeOK, Staged, Custody
      <3>3. \A j \in Keys \ {k} : staged'[j] = staged[j] /\ custody'[j] = custody[j]
        BY <3>1 DEF KeepDust, TypeOK
      <3>4. \A j \in Keys : StagedOK(j)
        BY DEF OrdersInv
      <3>5. StagedOK(k)'
        BY <2>1, <3>2, <3>4 DEF StagedOK
      <3>6. \A j \in Keys \ {k} : StagedOK(j)'
        BY <2>1, <3>3, <3>4 DEF StagedOK
      <3> QED
        BY <2>1, <2>2, <3>5, <3>6 DEF OrdersInv
    <2> QED
      BY <2>3, <2>4
  <1>8. ASSUME NEW k \in Keys, PlaceOrder(k)
        PROVE  OrdersInv'
    <2>1. /\ orders[k] # None /\ OrderOK(orders[k], log)
          /\ orders[k] \in Order
          /\ placed' = Append(placed, orders[k])
          /\ orders' = [orders EXCEPT ![k] = None]
          /\ UNCHANGED <<staged, custody, log>>
      BY <1>8 DEF PlaceOrder, OrdersInv, TypeOK
    <2>2. \A i \in 1 .. Len(placed') : OrderOK(placed'[i], log)
      <3>1. placed \in Seq(Order) /\ Len(placed') = Len(placed) + 1
            /\ placed'[Len(placed) + 1] = orders[k]
            /\ \A i \in 1 .. Len(placed) : placed'[i] = placed[i]
        BY <2>1 DEF TypeOK
      <3>2. ASSUME NEW i \in 1 .. Len(placed') PROVE OrderOK(placed'[i], log)
        <4>1. CASE i = Len(placed) + 1
          BY <2>1, <3>1, <4>1
        <4>2. CASE i # Len(placed) + 1
          <5>1. i \in 1 .. Len(placed)
            BY <3>1, <4>2
          <5> QED
            BY <3>1, <5>1 DEF OrdersInv
        <4> QED
          BY <4>1, <4>2
      <3> QED
        BY <3>2
    <2>3. \A j \in Keys : orders'[j] # None => OrderOK(orders'[j], log)
      BY <2>1 DEF OrdersInv, TypeOK
    <2>4. \A j \in Keys : StagedOK(j)'
      BY <2>1 DEF OrdersInv, StagedOK
    <2> QED
      BY <2>1, <2>2, <2>3, <2>4 DEF OrdersInv
  <1>9. ASSUME NEW u \in Users, NEW k \in Keys, Donate(u, k, 1)
        PROVE  OrdersInv'
    <2>1. custody[k] # None /\ custody[k] \in Custody /\ staged[k] # None
          /\ custody' = [custody EXCEPT ![k].amount = @ + 1]
          /\ UNCHANGED <<staged, orders, placed, log>>
      BY <1>9 DEF Donate, TypeOK, Paired
    <2>2. custody'[k].mint = custody[k].mint /\ custody'[k].amount = custody[k].amount + 1
      BY <2>1 DEF TypeOK, Custody
    <2>3. \A j \in Keys \ {k} : custody'[j] = custody[j]
      BY <2>1 DEF TypeOK
    <2>4. ASSUME NEW j \in Keys PROVE StagedOK(j)'
      <3>1. StagedOK(j)
        BY DEF OrdersInv
      <3>2. CASE j # k
        BY <2>1, <2>3, <3>1, <3>2 DEF StagedOK
      <3>3. CASE j = k /\ staged[k].recipient = ZeroAddress
        BY <2>1, <2>2, <3>1, <3>3 DEF StagedOK
      <3>4. CASE j = k /\ staged[k].recipient # ZeroAddress
        <4> DEFINE e == log[staged[k].id]
        <4>1. Faithful(staged[k], custody[k], e) /\ staged[k].id \in 1 .. Len(log)
          BY <2>1, <3>1, <3>4 DEF StagedOK
        <4>2. e.put \in Nat /\ custody[k].amount \in Nat
          <5>1. e \in Entry
            BY <4>1 DEF TypeOK
          <5> QED
            BY <2>1, <5>1 DEF Entry, Custody
        <4>3. custody[k].amount >= e.put
          BY <4>1 DEF Faithful
        <4>4. custody'[k].amount >= e.put
          BY <2>2, <4>2, <4>3
        <4>5. Faithful(staged[k], custody'[k], e)
          BY <2>2, <4>1, <4>4 DEF Faithful
        <4> QED
          BY <2>1, <3>4, <4>1, <4>5 DEF StagedOK
      <3> QED
        BY <3>2, <3>3, <3>4
    <2> QED
      BY <2>1, <2>4 DEF OrdersInv
  <1>10. ASSUME NEW u \in Users, NEW a \in Approvals, Approve(u, a)
         PROVE  OrdersInv'
    BY <1>2, <1>10 DEF Approve
  <1>11. ASSUME NEW c \in Chains, NEW p \in Peer, UpdatePeer(c, p)
         PROVE  OrdersInv'
    BY <1>2, <1>11 DEF UpdatePeer
  <1>12. ASSUME NEW c \in Chains, NEW q \in Quotes \cup {NoQuote},
                UpdateRelayParameters(c, q)
         PROVE  OrdersInv'
    BY <1>2, <1>12 DEF UpdateRelayParameters
  <1>13. CASE UNCHANGED vars
    BY <1>2, <1>13 DEF vars
  <1> QED
    BY <1>4, <1>5, <1>6, <1>7, <1>8, <1>9, <1>10, <1>11, <1>12, <1>13
    DEF Next, Initiate

LEMMA OrdersOK ==
  ASSUME OrdersInv
  PROVE  OrderHonoursRequest /\ FeeCovered /\ AmountHonoured
  <1>1. \A o \in Orders : OrderOK(o, log)
    BY DEF Orders, OrdersInv
  <1> QED
    BY <1>1 DEF OrderHonoursRequest, FeeCovered, AmountHonoured, OrderOK

LEMMA InvariantHolds == Spec => [](TypeOK /\ Paired /\ OrdersInv)
  <1>1. Init => TypeOK /\ Paired /\ OrdersInv
    <2>1. Init => OrdersInv
      BY DEF Init, OrdersInv, StagedOK
    <2> QED
      BY <2>1, InitType DEF Init, Paired
  <1>2. TypeOK /\ Paired /\ OrdersInv /\ [Next]_vars => (TypeOK /\ Paired /\ OrdersInv)'
    BY TypeStep, OrdersStep
  <1> QED
    BY <1>1, <1>2, PTL DEF Spec

(* Whatever happens between staging and initiation, an order carries the    *)
(* recipient, chain, refund account and redeem mode signed at staging, and  *)
(* a fee within the signed maximum.                                         *)
THEOREM OrdersHonourRequests == Spec => []OrderHonoursRequest
  BY InvariantHolds, OrdersOK, PTL

(* A relayed order always arrives with more than the fee it must pay.       *)
THEOREM OrdersCoverFees == Spec => []FeeCovered
  BY InvariantHolds, OrdersOK, PTL

(* The recipient is never owed less than the sender asked for.              *)
THEOREM OrdersHonourAmounts == Spec => []AmountHonoured
  BY InvariantHolds, OrdersOK, PTL

------------------------------------------------------------------------------
(* On top of that invariant: a staging becomes at most one order, every     *)
(* rent returns to who paid it, and a delegation to a hash of arguments is  *)
(* spent once and whole.                                                    *)

(* What instructions do to the stagings: open one, close one, make an order *)
(* of one that is not initiated, and place an order.                        *)
Opens ==
  \E k \in Keys, payer, sender, refund \in Users, r \in Requests, m \in Mints :
    Open(k, payer, sender, refund, r, m)

Cancels ==
  \E k \in Keys :
    /\ staged[k] # None
    /\ CloseAccounts(k)
    /\ UNCHANGED <<orders, placed, log>>

MakesOrder(k) ==
  /\ staged[k] # None /\ staged[k].recipient # ZeroAddress
  /\ \E c \in Chains, n \in Nat : PrepareOrder(k, c, n)
  /\ CloseAccounts(k) \/ \E dust \in Nat : KeepDust(k, dust)
  /\ UNCHANGED <<placed, log>>

Idles == UNCHANGED <<staged, orders, placed, deposits, log>>

(* The recipient of a transfer is not zeroed, since an initiated staging    *)
(* that is still open holds no USDC mint.                                   *)
LEMMA InitiationMakesOrder ==
  ASSUME TypeOK, Paired, OrdersInv, NEW k \in Keys, Initiate(k)
  PROVE  MakesOrder(k)
<1>1. CASE \E c \in Chains : InitiateTransfer(k, c)
  <2>1. PICK c \in Chains : InitiateTransfer(k, c)
    BY <1>1
  <2>2. staged[k] # None /\ custody[k].mint = "usdc"
    BY <2>1 DEF InitiateTransfer
  <2>3. staged[k].recipient # ZeroAddress
    BY <2>2 DEF OrdersInv, StagedOK
  <2>4. custody[k].amount \in Nat
    <3>1. custody[k] \in Custody
      BY <2>2 DEF TypeOK, Paired
    <3>. QED BY <3>1 DEF Custody
  <2>. QED BY <2>1, <2>2, <2>3, <2>4 DEF InitiateTransfer, MakesOrder
<1>2. CASE \E c \in Chains, out, dust \in 0 .. Funds : InitiateSwapExactIn(k, c, out, dust)
  <2>1. PICK c \in Chains, out \in 0 .. Funds, dust \in 0 .. Funds :
          InitiateSwapExactIn(k, c, out, dust)
    BY <1>2
  <2>2. out \in Nat /\ dust \in Nat
    BY <2>1
  <2>. QED BY <2>1, <2>2 DEF InitiateSwapExactIn, SwapAccounts, MakesOrder
<1>. QED BY <1>1, <1>2 DEF Initiate

(* Every step is one of these.                                              *)
LEMMA StepShapes ==
  ASSUME TypeOK, Paired, OrdersInv, [Next]_vars
  PROVE  \/ Opens \/ Cancels \/ Idles
         \/ \E k \in Keys : MakesOrder(k) \/ PlaceOrder(k)
<1>1. ASSUME NEW k \in Keys, Stage(k) PROVE Opens
  <2>1. PICK payer, refund \in Users, r \in Requests :
          \/ \E sender, owner \in Users, m \in Mints :
               StageBySender(k, payer, sender, owner, refund, m, r)
          \/ \E owner \in Users, m \in Mints :
               StageByAuthority(k, payer, owner, refund, m, r)
          \/ \E sender \in Users : StageLamports(k, payer, sender, refund, r)
    BY <1>1 DEF Stage
  <2>. QED BY <2>1 DEF Opens, StageBySender, StageByAuthority, StageLamports, Mints
<1>2. ASSUME NEW k \in Keys, Close(k) PROVE Cancels
  BY <1>2 DEF Close, CloseToToken, CloseToLamports, Cancels
<1>3. \A k \in Keys : Initiate(k) => MakesOrder(k)
  BY InitiationMakesOrder
<1>4. ASSUME \/ \E u \in Users, a \in Approvals : Approve(u, a)
             \/ \E u \in Users, k \in Keys : Donate(u, k, 1)
             \/ \E c \in Chains, p \in Peer : UpdatePeer(c, p)
             \/ \E c \in Chains, q \in Quotes \cup {NoQuote} : UpdateRelayParameters(c, q)
             \/ UNCHANGED vars
      PROVE  Idles
  BY <1>4 DEF Approve, Donate, UpdatePeer, UpdateRelayParameters, vars, Idles
<1>. QED BY <1>1, <1>2, <1>3, <1>4 DEF Next

(* What a staging opens is an account, and the only one that changes.       *)
LEMMA OpenedIsStaged ==
  ASSUME TypeOK, NEW k \in Keys, NEW payer \in Users, NEW sender \in Users,
         NEW refund \in Users, NEW r \in Requests, NEW m \in Mints,
         Open(k, payer, sender, refund, r, m)
  PROVE  /\ staged[k] = None /\ staged'[k] # None
         /\ staged'[k].preparedBy = payer /\ staged'[k].id = Len(log) + 1
         /\ \A j \in Keys : j # k => staged'[j] = staged[j]
<1> DEFINE s == [id |-> Len(log) + 1, preparedBy |-> payer, sender |-> sender,
                 refund |-> refund, chain |-> r.chain, exactIn |-> r.exactIn,
                 recipient |-> r.recipient, minOut |-> r.minOut,
                 redeem |-> [mode |-> r.redeem, fee |-> Fee(r)]]
<1>1. staged[k] = None /\ staged' = [staged EXCEPT ![k] = s] /\ ArgsAccepted(r, m)
  BY DEF Open
<1>2. Fee(r) \in Nat /\ r \in Request /\ r.chain \in Chains /\ Len(log) + 1 \in Nat
  BY <1>1, TransferAmountType DEF TypeOK
<1>3. r.recipient \in Addresses /\ r.exactIn \in BOOLEAN /\ r.minOut \in Nat \cup {NoMin}
      /\ [mode |-> r.redeem, fee |-> Fee(r)] \in StagedRedeem
  BY <1>2 DEF Request, StagedRedeem
<1>4. s \in Staged
  BY <1>2, <1>3 DEF Staged
<1>5. PICK t \in Staged : t = s
  BY <1>4
<1>6. t.preparedBy = payer /\ t.id = Len(log) + 1
  BY <1>5
<1>7. staged' = [staged EXCEPT ![k] = t]
  BY <1>1, <1>5
<1> HIDE DEF s
<1>8. t # None
  OBVIOUS
<1>. QED BY <1>1, <1>6, <1>7, <1>8 DEF TypeOK

------------------------------------------------------------------------------
(* Rents.  The set of the accounts that u paid for is finite because it     *)
(* grows by one at a time, even if there are infinitely many keys.          *)
PaidBy(u) == {k \in Keys : staged[k] # None /\ staged[k].preparedBy = u}

RentsInv ==
  \A u \in Users : IsFiniteSet(PaidBy(u)) /\ deposits[u] = 2 * Cardinality(PaidBy(u))

(* A staging whose recipient is zeroed is still a staging.                  *)
LEMMA ZeroedIsStaged ==
  ASSUME NEW t \in Staged
  PROVE  [t EXCEPT !.recipient = ZeroAddress, !.redeem = Direct] \in Staged
<1>1. PICK d \in StagedRedeem : d = Direct
  BY DEF Direct, StagedRedeem, Modes
<1>2. [t EXCEPT !.recipient = ZeroAddress] \in Staged
  BY DEF Staged
<1>3. PICK u \in Staged : u = [t EXCEPT !.recipient = ZeroAddress]
  BY <1>2
<1>4. [u EXCEPT !.redeem = d] \in Staged
  BY DEF Staged
<1>. QED BY <1>1, <1>3, <1>4

LEMMA RentsStep ==
  ASSUME TypeOK, TypeOK', RentsInv,
         \/ Opens \/ Cancels \/ Idles
         \/ \E k \in Keys : MakesOrder(k) \/ PlaceOrder(k)
  PROVE  RentsInv'
<1>1. \A u \in Users : /\ IsFiniteSet(PaidBy(u)) /\ deposits[u] = 2 * Cardinality(PaidBy(u))
                       /\ Cardinality(PaidBy(u)) \in Nat
  BY FS_CardinalityType DEF RentsInv
<1>2. CASE Opens
  <2>1. PICK k \in Keys, payer \in Users, sender \in Users, refund \in Users,
             r \in Requests, m \in Mints : Open(k, payer, sender, refund, r, m)
    BY <1>2 DEF Opens
  <2>2. /\ staged[k] = None /\ deposits' = [deposits EXCEPT ![payer] = @ + 2]
        /\ staged'[k] # None /\ staged'[k].preparedBy = payer
        /\ \A j \in Keys : j # k => staged'[j] = staged[j]
    BY <2>1, OpenedIsStaged DEF Open
  <2>3. PaidBy(payer)' = PaidBy(payer) \cup {k} /\ k \notin PaidBy(payer)
    BY <2>2 DEF PaidBy
  <2>4. \A u \in Users : u # payer => PaidBy(u)' = PaidBy(u)
    BY <2>2 DEF PaidBy
  <2>5. \A u \in Users : deposits'[u] = IF u = payer THEN deposits[u] + 2 ELSE deposits[u]
    BY <2>2 DEF TypeOK
  <2>6. /\ IsFiniteSet(PaidBy(payer)') /\ Cardinality(PaidBy(payer)') = Cardinality(PaidBy(payer)) + 1
    BY <1>1, <2>3, FS_AddElement
  <2>. QED BY <1>1, <2>4, <2>5, <2>6 DEF RentsInv
<1>3. ASSUME NEW k \in Keys, staged[k] # None, CloseAccounts(k) PROVE RentsInv'
  <2>1. PICK payer \in Users : payer = staged[k].preparedBy
    BY <1>3 DEF TypeOK, Staged
  <2>2. /\ staged'[k] = None
        /\ \A j \in Keys : j # k => staged'[j] = staged[j]
        /\ deposits' = [deposits EXCEPT ![payer] = @ - 2]
    BY <1>3, <2>1 DEF CloseAccounts, TypeOK
  <2>3. PaidBy(payer)' = PaidBy(payer) \ {k} /\ k \in PaidBy(payer)
    BY <1>3, <2>1, <2>2 DEF PaidBy
  <2>4. \A u \in Users : u # payer => PaidBy(u)' = PaidBy(u)
    BY <2>1, <2>2 DEF PaidBy
  <2>5. \A u \in Users : deposits'[u] = IF u = payer THEN deposits[u] - 2 ELSE deposits[u]
    BY <2>2 DEF TypeOK
  <2>6. /\ IsFiniteSet(PaidBy(payer)') /\ Cardinality(PaidBy(payer)') = Cardinality(PaidBy(payer)) - 1
    BY <1>1, <2>3, FS_RemoveElement
  <2>. QED BY <1>1, <2>4, <2>5, <2>6 DEF RentsInv
<1>4. ASSUME NEW k \in Keys, staged[k] # None, NEW dust \in Nat, KeepDust(k, dust) PROVE RentsInv'
  <2>1. staged[k] \in Staged
    BY <1>4 DEF TypeOK
  <2>2. /\ staged'[k] # None /\ staged'[k].preparedBy = staged[k].preparedBy
        /\ \A j \in Keys : j # k => staged'[j] = staged[j]
        /\ deposits' = deposits
    <3>1. /\ staged'[k] = [staged[k] EXCEPT !.recipient = ZeroAddress, !.redeem = Direct]
          /\ \A j \in Keys : j # k => staged'[j] = staged[j]
      BY <1>4 DEF KeepDust, TypeOK
    <3>2. [staged[k] EXCEPT !.recipient = ZeroAddress, !.redeem = Direct] \in Staged
      BY <2>1, ZeroedIsStaged
    <3>3. staged'[k].preparedBy = staged[k].preparedBy
      BY <2>1, <3>1 DEF Staged
    <3>4. staged'[k] \in Staged /\ deposits' = deposits
      BY <1>4, <3>1, <3>2 DEF KeepDust
    <3>5. staged'[k] # None
      BY <3>4
    <3>. QED BY <3>1, <3>3, <3>4, <3>5
  <2>3. \A u \in Users : PaidBy(u)' = PaidBy(u)
    BY <1>4, <2>2 DEF PaidBy
  <2>. QED BY <1>1, <2>2, <2>3 DEF RentsInv
<1>5. CASE Idles \/ \E k \in Keys : PlaceOrder(k)
  BY <1>5 DEF Idles, PlaceOrder, RentsInv, PaidBy
<1>. QED BY <1>2, <1>3, <1>4, <1>5 DEF Cancels, MakesOrder

(* Each payer is out of pocket for exactly the open accounts he paid for,   *)
(* whoever staged, cancelled or initiated the transfers.                    *)
THEOREM RentsReturned == Spec => []RentReturned
<1>1. Init => RentsInv
  <2> SUFFICES ASSUME Init PROVE RentsInv
    OBVIOUS
  <2>1. \A u \in Users : PaidBy(u) = {} /\ deposits[u] = 0
    BY DEF Init, PaidBy
  <2>. QED BY <2>1, FS_EmptySet DEF RentsInv
<1>2. TypeOK /\ Paired /\ OrdersInv /\ TypeOK' /\ RentsInv /\ [Next]_vars => RentsInv'
  BY StepShapes, RentsStep
<1>3. RentsInv => RentReturned
  BY DEF RentsInv, RentReturned, PaidBy
<1>. QED BY <1>1, <1>2, <1>3, InvariantHolds, PTL DEF Spec

------------------------------------------------------------------------------
(* Orders.  The stagings that may still become an order have ids of their   *)
(* own, and no order has the id of one of them or of another order.         *)
Live(k) == staged[k] # None /\ staged[k].recipient # ZeroAddress

OneOrderEach ==
  /\ \A j, k \in Keys :
       orders[j] # None /\ orders[k] # None /\ j # k => orders[j].id # orders[k].id
  /\ \A k \in Keys, i \in 1 .. Len(placed) : orders[k] # None => orders[k].id # placed[i].id
  /\ \A i, j \in 1 .. Len(placed) : i # j => placed[i].id # placed[j].id

IdsInv ==
  /\ \A j, k \in Keys : Live(j) /\ Live(k) /\ j # k => staged[j].id # staged[k].id
  /\ \A j, k \in Keys : Live(j) /\ orders[k] # None => staged[j].id # orders[k].id
  /\ \A j \in Keys, i \in 1 .. Len(placed) : Live(j) => staged[j].id # placed[i].id

LEMMA IdsStep ==
  ASSUME TypeOK, OrdersInv, IdsInv, OneOrderEach,
         \/ Opens \/ Cancels \/ Idles
         \/ \E k \in Keys : MakesOrder(k) \/ PlaceOrder(k)
  PROVE  IdsInv' /\ OneOrderEach'
<1>0. /\ Len(log) \in Nat
      /\ \A k \in Keys : Live(k) => staged[k].id \in 1 .. Len(log)
      /\ \A k \in Keys : orders[k] # None => orders[k].id \in 1 .. Len(log)
      /\ \A i \in 1 .. Len(placed) : placed[i].id \in 1 .. Len(log)
  BY DEF OrdersInv, StagedOK, OrderOK, Live, TypeOK
<1>1. CASE Opens
  <2>1. PICK k \in Keys, payer \in Users, sender \in Users, refund \in Users,
             r \in Requests, m \in Mints : Open(k, payer, sender, refund, r, m)
    BY <1>1 DEF Opens
  <2>2. /\ staged'[k].id = Len(log) + 1
        /\ \A j \in Keys : j # k => staged'[j] = staged[j]
        /\ orders' = orders /\ placed' = placed
    BY <2>1, OpenedIsStaged DEF Open
  <2>3. \A j \in Keys : j # k => (Live(j)' <=> Live(j))
    BY <2>2 DEF Live
  <2>. QED BY <1>0, <2>2, <2>3 DEF IdsInv, OneOrderEach
<1>2. ASSUME NEW k \in Keys, CloseAccounts(k)
      PROVE  ~Live(k)' /\ \A j \in Keys : j # k => staged'[j] = staged[j]
  BY <1>2 DEF CloseAccounts, Live, TypeOK
<1>3. CASE Cancels
  <2>1. PICK k \in Keys : CloseAccounts(k) /\ UNCHANGED <<orders, placed, log>>
    BY <1>3 DEF Cancels
  <2>2. \A j \in Keys : Live(j)' => Live(j) /\ staged'[j] = staged[j]
    BY <1>2, <2>1 DEF Live
  <2>. QED BY <2>1, <2>2 DEF IdsInv, OneOrderEach
<1>4. ASSUME NEW k \in Keys, MakesOrder(k) PROVE IdsInv' /\ OneOrderEach'
  <2>1. /\ ~Live(k)'
        /\ \A j \in Keys : j # k => staged'[j] = staged[j]
    <3>1. CASE CloseAccounts(k)
      BY <1>2, <3>1
    <3>2. ASSUME NEW dust \in Nat, KeepDust(k, dust)
          PROVE  /\ ~Live(k)'
                 /\ \A j \in Keys : j # k => staged'[j] = staged[j]
      <4>1. /\ staged'[k] = [staged[k] EXCEPT !.recipient = ZeroAddress, !.redeem = Direct]
            /\ \A j \in Keys : j # k => staged'[j] = staged[j]
        BY <3>2 DEF KeepDust, TypeOK
      <4>2. staged[k] \in Staged
        BY <1>4 DEF MakesOrder, TypeOK
      <4>3. staged'[k].recipient = ZeroAddress
        BY <4>1, <4>2 DEF Staged
      <4>. QED BY <4>1, <4>3 DEF Live
    <3>. QED BY <1>4, <3>1, <3>2 DEF MakesOrder
  <2>2. /\ Live(k) /\ orders[k] = None
        /\ orders'[k].id = staged[k].id
        /\ \A j \in Keys : j # k => orders'[j] = orders[j]
        /\ placed' = placed
    BY <1>4 DEF MakesOrder, PrepareOrder, Live, TypeOK
  <2>3. \A j \in Keys : Live(j)' => j # k /\ Live(j) /\ staged'[j] = staged[j]
    BY <2>1 DEF Live
  <2>. QED BY <2>2, <2>3 DEF IdsInv, OneOrderEach
<1>5. ASSUME NEW k \in Keys, PlaceOrder(k) PROVE IdsInv' /\ OneOrderEach'
  <2>1. /\ orders[k] # None /\ orders[k] \in Order
        /\ orders' = [orders EXCEPT ![k] = None]
        /\ placed' = Append(placed, orders[k])
        /\ placed \in Seq(Order)
        /\ staged' = staged
    BY <1>5 DEF PlaceOrder, TypeOK
  <2>2. /\ Len(placed) \in Nat /\ Len(placed') = Len(placed) + 1
        /\ placed'[Len(placed) + 1] = orders[k]
        /\ \A i \in 1 .. Len(placed) : placed'[i] = placed[i]
    BY <2>1
  <2>3. \A i \in 1 .. Len(placed') : i = Len(placed) + 1 \/ i \in 1 .. Len(placed)
    BY <2>2
  <2>4. \A j \in Keys : orders'[j] # None => j # k /\ orders'[j] = orders[j]
    BY <2>1 DEF TypeOK
  <2>5. \A j \in Keys : Live(j)' <=> Live(j)
    BY <2>1 DEF Live
  <2>6. IdsInv'
    BY <2>1, <2>2, <2>3, <2>4, <2>5 DEF IdsInv
  <2>7. OneOrderEach'
    BY <2>1, <2>2, <2>3, <2>4 DEF OneOrderEach
  <2>. QED BY <2>6, <2>7
<1>6. CASE Idles
  BY <1>6 DEF Idles, IdsInv, OneOrderEach, Live
<1>. QED BY <1>1, <1>3, <1>4, <1>5, <1>6

(* A staging becomes at most one order, prepared or placed, although anyone *)
(* may initiate, dust leaves the accounts open and keys are used again.     *)
THEOREM OneOrder == Spec => []OneOrderEach
<1>1. Init => IdsInv /\ OneOrderEach
  BY DEF Init, IdsInv, OneOrderEach, Live
<1>2. TypeOK /\ Paired /\ OrdersInv /\ IdsInv /\ OneOrderEach /\ [Next]_vars
        => (IdsInv /\ OneOrderEach)'
  BY StepShapes, IdsStep
<1>. QED BY <1>1, <1>2, InvariantHolds, PTL DEF Spec

------------------------------------------------------------------------------
(* Delegations.                                                             *)
SpentWhole ==
  \A u \in Users, m \in Mints :
    (delegation[u][m].delegate \in Requests /\ wallet'[u][m] < wallet[u][m]
       /\ delegation'[u] # delegation[u])
    => /\ delegation'[u][m] = NoDelegation
       /\ wallet[u][m] - wallet'[u][m] = delegation[u][m].amount
       /\ log' = Append(log, [args |-> delegation[u][m].delegate, mint |-> m,
                   sender |-> u, refund |-> log'[Len(log')].refund,
                   put |-> delegation[u][m].amount])

(* A debit changes one balance of one holder.                               *)
LEMMA DebitsOne ==
  ASSUME TypeOK, NEW owner \in Users, NEW a \in Assets, NEW n \in Nat,
         wallet' = Debit(wallet, owner, a, n)
  PROVE  /\ wallet'[owner][a] = wallet[owner][a] - n
         /\ \A u \in Users, m \in Mints :
              wallet'[u][m] # wallet[u][m] => u = owner /\ m = a
<1>. QED BY DEF Debit, TypeOK, Holders, Assets

LEMMA SpentByStaging ==
  ASSUME TypeOK, NEW k \in Keys, Stage(k)
  PROVE  SpentWhole
<1>1. PICK payer, refund \in Users, r \in Requests :
        \/ \E sender, owner \in Users, m \in Mints :
             StageBySender(k, payer, sender, owner, refund, m, r)
        \/ \E owner \in Users, m \in Mints :
             StageByAuthority(k, payer, owner, refund, m, r)
        \/ \E sender \in Users : StageLamports(k, payer, sender, refund, r)
  BY DEF Stage
<1>2. ASSUME NEW sender \in Users, NEW owner \in Users, NEW m \in Mints,
             StageBySender(k, payer, sender, owner, refund, m, r)
      PROVE  SpentWhole
  <2>1. CASE delegation[owner][m].delegate = sender
    <3>1. delegation[owner][m].delegate \notin Requests
      BY <2>1
    <3>2. TransferAmount(r, m) \in Nat
      BY <1>2, OpenType DEF StageBySender
    <3>3. m \in Assets /\ wallet' = Debit(wallet, owner, m, TransferAmount(r, m))
      BY <1>2 DEF StageBySender, Assets
    <3>4. \A u \in Users, p \in Mints : wallet'[u][p] # wallet[u][p] => u = owner /\ p = m
      BY <3>2, <3>3, DebitsOne
    <3>5. \A u \in Users, p \in Mints : wallet'[u][p] < wallet[u][p] => u = owner /\ p = m
      <4>1. ASSUME NEW u \in Users, NEW p \in Mints, wallet'[u][p] < wallet[u][p]
            PROVE  wallet'[u][p] # wallet[u][p]
        <5>1. wallet[u][p] \in Nat
          BY DEF TypeOK, Holders, Assets
        <5>. QED BY <4>1, <5>1
      <4>. QED BY <3>4, <4>1
    <3>. QED BY <3>1, <3>5 DEF SpentWhole
  <2>2. CASE delegation[owner][m].delegate # sender
    BY <1>2, <2>2 DEF StageBySender, SpentWhole
  <2>. QED BY <2>1, <2>2
<1>3. ASSUME NEW owner \in Users, NEW m \in Mints,
             StageByAuthority(k, payer, owner, refund, m, r)
      PROVE  SpentWhole
  <2>1. PICK n \in Nat : n = TransferAmount(r, m)
    BY <1>3, OpenType DEF StageByAuthority
  <2>2. /\ delegation[owner][m].delegate = r /\ delegation[owner][m].amount = n
        /\ SpendDelegation(owner, m, n)
        /\ wallet' = Debit(wallet, owner, m, n)
        /\ m \in Assets
    BY <1>3, <2>1 DEF StageByAuthority, DelegatedToArgs, Assets
  <2>3. delegation'[owner][m] = NoDelegation
    BY <2>2 DEF SpendDelegation, TypeOK
  <2>4. /\ wallet'[owner][m] = wallet[owner][m] - n
        /\ \A u \in Users, p \in Mints : wallet'[u][p] # wallet[u][p] => u = owner /\ p = m
    BY <2>2, DebitsOne
  <2>5. wallet[owner][m] \in Nat /\ log \in Seq(Entry)
    BY <2>2 DEF TypeOK, Holders
  <2>6. wallet[owner][m] - wallet'[owner][m] = n
    BY <2>4, <2>5
  <2>7. log' = Append(log, [args |-> r, mint |-> m, sender |-> owner,
                            refund |-> refund, put |-> n])
    BY <1>3, <2>1 DEF StageByAuthority, Open
  <2>8. log'[Len(log')].refund = refund
    BY <2>5, <2>7
  <2>9. \A u \in Users, p \in Mints : wallet'[u][p] < wallet[u][p] => u = owner /\ p = m
    <3>1. ASSUME NEW u \in Users, NEW p \in Mints, wallet'[u][p] < wallet[u][p]
          PROVE  wallet'[u][p] # wallet[u][p]
      <4>1. wallet[u][p] \in Nat
        BY DEF TypeOK, Holders, Assets
      <4>. QED BY <3>1, <4>1
    <3>. QED BY <2>4, <3>1
  <2>. QED BY <2>2, <2>3, <2>6, <2>7, <2>8, <2>9 DEF SpentWhole
<1>4. ASSUME NEW sender \in Users, StageLamports(k, payer, sender, refund, r)
      PROVE  SpentWhole
  BY <1>4 DEF StageLamports, SpentWhole
<1>. QED BY <1>1, <1>2, <1>3, <1>4

(* A delegation to the hash of some arguments is spent by the staging with  *)
(* those arguments, for the whole amount, and is gone afterwards.           *)
THEOREM DelegationsSpentWhole == Spec => DelegationSpentWhole
<1>1. ASSUME TypeOK, Next PROVE SpentWhole
  <2>1. ASSUME NEW k \in Keys, Close(k) \/ Initiate(k) \/ PlaceOrder(k)
        PROVE  delegation' = delegation
    BY <2>1 DEF Close, CloseToToken, CloseToLamports, Initiate, InitiateTransfer,
       InitiateSwapExactIn, PlaceOrder
  <2>2. ASSUME \/ \E u \in Users, k \in Keys : Donate(u, k, 1)
               \/ \E c \in Chains, p \in Peer : UpdatePeer(c, p)
               \/ \E c \in Chains, q \in Quotes \cup {NoQuote} : UpdateRelayParameters(c, q)
        PROVE  delegation' = delegation
    BY <2>2 DEF Donate, UpdatePeer, UpdateRelayParameters
  <2>3. ASSUME NEW u \in Users, NEW a \in Approvals, Approve(u, a)
        PROVE  wallet' = wallet
    BY <2>3 DEF Approve
  <2>4. delegation' = delegation => SpentWhole
    BY DEF SpentWhole
  <2>5. wallet' = wallet => SpentWhole
    <3> SUFFICES ASSUME wallet' = wallet, NEW u \in Users, NEW m \in Mints
                 PROVE  ~(wallet'[u][m] < wallet[u][m])
      BY DEF SpentWhole
    <3>1. wallet[u][m] \in Nat
      BY <1>1 DEF TypeOK, Holders, Assets
    <3>. QED BY <3>1
  <2>. QED BY <1>1, <2>1, <2>2, <2>3, <2>4, <2>5, SpentByStaging DEF Next
<1>2. TypeOK /\ [Next]_vars => [SpentWhole]_vars
  BY <1>1
<1>. QED BY <1>2, TypeCorrect, PTL DEF Spec, DelegationSpentWhole, SpentWhole
------------------------------------------------------------------------------
(* The promise.  SolanaOutbound implements StagedTransfer.  What is needed  *)
(* beside the invariants above: an account whose recipient is zeroed is one *)
(* whose order is made, so that closing it cancels nothing.                 *)

USE CancelledAssumption

Waits(i) == \E k \in Keys : staged[k] # None /\ staged[k].id = i

ZeroedHasOrder ==
  \A k \in Keys : staged[k] # None /\ ~Live(k) => Places(staged[k].id) # {}

PromiseInv == TypeOK /\ Paired /\ OrdersInv /\ IdsInv /\ OneOrderEach /\ ZeroedHasOrder

------------------------------------------------------------------------------
(* The orders made of a staging: none, or the one at its only place.        *)
LEMMA NoPlace ==
  ASSUME NEW i, Places(i) = {}
  PROVE  OrdersOf(i) = <<>>
<1>1. Cardinality(Places(i)) = 0
  BY FS_EmptySet
<1>. QED BY <1>1 DEF OrdersOf

LEMMA OnePlace ==
  ASSUME NEW i, NEW p, Places(i) = {p}
  PROVE  OrdersOf(i) = <<OrderAt(p)>>
<1> DEFINE at == SetToSeq(Places(i))
<1>1. Cardinality(Places(i)) = 1
  BY FS_Singleton
<1>2. [n \in 1 .. 1 |-> p] \in [1 .. Cardinality(Places(i)) -> Places(i)]
      /\ IsInjective([n \in 1 .. 1 |-> p])
  BY <1>1 DEF IsInjective
<1>3. at \in [1 .. Cardinality(Places(i)) -> Places(i)]
  BY <1>2 DEF SetToSeq
<1>4. at \in [1 .. 1 -> {p}]
  BY <1>1, <1>3
<1>5. DOMAIN at = 1 .. 1 /\ at[1] = p
  BY <1>4
<1>6. OrdersOf(i) = [n \in 1 .. 1 |-> OrderAt(SetToSeq(Places(i))[n])]
  BY <1>1 DEF OrdersOf
<1> HIDE DEF at
<1>. QED BY <1>5, <1>6 DEF at

(* One order each: a staging has one place, and its outcome is the order    *)
(* there.                                                                   *)
OutcomesOK ==
  /\ \A i : Places(i) = {} /\ Waits(i) => Outcome(i) = <<>>
  /\ \A i : Places(i) = {} /\ ~Waits(i) => Outcome(i) = Cancelled
  /\ \A i : \A p \in Places(i) : Outcome(i) = <<OrderAt(p)>>

LEMMA OutcomesAre == OneOrderEach => OutcomesOK
<1> SUFFICES ASSUME OneOrderEach, NEW i
             PROVE  /\ Places(i) = {} /\ Waits(i) => Outcome(i) = <<>>
                    /\ Places(i) = {} /\ ~Waits(i) => Outcome(i) = Cancelled
                    /\ \A p \in Places(i) : Outcome(i) = <<OrderAt(p)>>
  BY DEF OutcomesOK
<1>1. \A p, q \in Places(i) : p = q
  BY DEF Places, OneOrderEach
<1>2. ASSUME NEW p \in Places(i) PROVE Outcome(i) = <<OrderAt(p)>>
  <2>1. Places(i) = {p}
    BY <1>1, <1>2
  <2>2. OrdersOf(i) = <<OrderAt(p)>>
    BY <2>1, OnePlace
  <2>. QED BY <2>1, <2>2 DEF Outcome, Places, OrdersOf, OrderAt
<1>3. Places(i) = {} => OrdersOf(i) = <<>>
  BY NoPlace
<1>. QED BY <1>2, <1>3 DEF Outcome, Waits, Places, OrdersOf, OrderAt

LEMMA NextOutcomesAre == OneOrderEach' => OutcomesOK'
BY OutcomesAre, PTL

(* Where orders are, in terms of the accounts.                              *)
LEMMA PlacesAre ==
  ASSUME NEW i
  PROVE  /\ \A k \in Keys : orders[k] # None /\ orders[k].id = i
               => <<"prepared", k>> \in Places(i) /\ OrderAt(<<"prepared", k>>) = orders[k]
         /\ \A n \in 1 .. Len(placed) : placed[n].id = i
               => <<"placed", n>> \in Places(i) /\ OrderAt(<<"placed", n>>) = placed[n]
         /\ \A p \in Places(i) :
               \/ \E k \in Keys : /\ p = <<"prepared", k>> /\ OrderAt(p) = orders[k]
                                  /\ orders[k] # None /\ orders[k].id = i
               \/ \E n \in 1 .. Len(placed) :
                    p = <<"placed", n>> /\ OrderAt(p) = placed[n] /\ placed[n].id = i
BY DEF Places, OrderAt

------------------------------------------------------------------------------
(* What each kind of step does to the outcomes and to ZeroedHasOrder.       *)
LEMMA IdlesKeeps ==
  ASSUME Idles, ZeroedHasOrder
  PROVE  ZeroedHasOrder' /\ \A i : Outcome(i)' = Outcome(i)
BY DEF Idles, ZeroedHasOrder, Live, Outcome, Places, OrdersOf, OrderAt

(* Orders stay where they are: an outcome changes with the accounts only.   *)
LEMMA SameOrders ==
  ASSUME OneOrderEach, OneOrderEach', UNCHANGED <<orders, placed>>
  PROVE  /\ \A i : Places(i)' = Places(i)
         /\ \A i : Places(i) # {} \/ (Waits(i)' <=> Waits(i)) => Outcome(i)' = Outcome(i)
<1>1. \A i : Places(i)' = Places(i)
  BY DEF Places
<1>2. \A p : OrderAt(p)' = OrderAt(p)
  BY DEF OrderAt
<1>3. OutcomesOK /\ OutcomesOK'
  BY OutcomesAre, NextOutcomesAre
<1>. QED BY <1>1, <1>2, <1>3 DEF OutcomesOK

(* A staging is asked for and waits.                                        *)
LEMMA OpensWaits ==
  ASSUME PromiseInv, OneOrderEach', Opens
  PROVE  /\ ZeroedHasOrder'
         /\ \A i \in 1 .. Len(log) : Outcome(i)' = Outcome(i)
         /\ \A i : i = Len(log) + 1 => Outcome(i)' = <<>>
         /\ \E e : log' = Append(log, e)
<1>1. PICK k \in Keys, payer \in Users, sender \in Users, refund \in Users,
           r \in Requests, m \in Mints : Open(k, payer, sender, refund, r, m)
  BY DEF Opens
<1>2. /\ staged[k] = None /\ staged'[k] # None /\ staged'[k].id = Len(log) + 1
      /\ \A j \in Keys : j # k => staged'[j] = staged[j]
  BY <1>1, OpenedIsStaged DEF PromiseInv
<1>3. staged'[k].recipient # ZeroAddress
  BY <1>1 DEF Open, ArgsAccepted, PromiseInv, TypeOK
<1>4. UNCHANGED <<orders, placed>> /\ \E e : log' = Append(log, e)
  BY <1>1 DEF Open
<1>5. /\ \A i : Places(i)' = Places(i)
      /\ \A i : Places(i) # {} \/ (Waits(i)' <=> Waits(i)) => Outcome(i)' = Outcome(i)
  BY <1>4, SameOrders DEF PromiseInv
<1>6. Len(log) \in Nat
  BY DEF PromiseInv, TypeOK
<1>7. ASSUME NEW i \in 1 .. Len(log) PROVE Outcome(i)' = Outcome(i)
  <2>1. Waits(i)' <=> Waits(i)
    BY <1>2, <1>6 DEF Waits
  <2>. QED BY <1>5, <2>1
<1>8. ASSUME NEW i, i = Len(log) + 1 PROVE Outcome(i)' = <<>>
  <2>1. Places(i) = {}
    BY <1>6, <1>8, PlacesAre DEF PromiseInv, OrdersInv, OrderOK
  <2>2. Waits(i)'
    BY <1>2, <1>8 DEF Waits
  <2>. QED BY <1>5, <2>1, <2>2, NextOutcomesAre DEF OutcomesOK
<1>9. ZeroedHasOrder'
  BY <1>2, <1>3, <1>5 DEF ZeroedHasOrder, Live, PromiseInv
<1>. QED BY <1>4, <1>7, <1>8, <1>9

(* An account that is closed was waiting, and is cancelled, unless its      *)
(* order is made.                                                           *)
LEMMA CancelsOne ==
  ASSUME PromiseInv, OneOrderEach', Cancels
  PROVE  /\ ZeroedHasOrder'
         /\ \E i \in 1 .. Len(log) :
              /\ \A j : j # i => Outcome(j)' = Outcome(j)
              /\ \/ Outcome(i)' = Outcome(i)
                 \/ Outcome(i) = <<>> /\ Outcome(i)' = Cancelled
<1>1. PICK k \in Keys : /\ staged[k] # None /\ CloseAccounts(k)
                        /\ UNCHANGED <<orders, placed, log>>
  BY DEF Cancels
<1>2. staged'[k] = None /\ \A j \in Keys : j # k => staged'[j] = staged[j]
  BY <1>1 DEF CloseAccounts, PromiseInv, TypeOK
<1>3. /\ \A i : Places(i)' = Places(i)
      /\ \A i : Places(i) # {} \/ (Waits(i)' <=> Waits(i)) => Outcome(i)' = Outcome(i)
  BY <1>1, SameOrders DEF PromiseInv
<1>4. ZeroedHasOrder'
  BY <1>2, <1>3 DEF ZeroedHasOrder, Live, PromiseInv
<1>5. PICK i \in 1 .. Len(log) : i = staged[k].id
  BY <1>1 DEF PromiseInv, OrdersInv, StagedOK
<1>6. ASSUME NEW j, j # i PROVE Outcome(j)' = Outcome(j)
  <2>1. Waits(j)' <=> Waits(j)
    BY <1>2, <1>5, <1>6 DEF Waits
  <2>. QED BY <1>3, <2>1
<1>7. CASE Places(i) # {}
  BY <1>3, <1>4, <1>6, <1>7
<1>8. CASE Places(i) = {}
  <2>1. \A j \in Keys : staged[j] # None /\ staged[j].id = i => Live(j)
    BY <1>8 DEF PromiseInv, ZeroedHasOrder
  <2>2. ~Waits(i)'
    BY <1>1, <1>2, <1>5, <2>1 DEF Waits, PromiseInv, IdsInv
  <2>3. Waits(i)
    BY <1>1, <1>5 DEF Waits
  <2>4. Outcome(i) = <<>> /\ Outcome(i)' = Cancelled
    BY <1>3, <1>8, <2>2, <2>3, OutcomesAre, NextOutcomesAre DEF OutcomesOK, PromiseInv
  <2>. QED BY <1>4, <1>6, <2>4
<1>. QED BY <1>7, <1>8

(* An order is made of an account that waits, and honours what was asked.   *)
LEMMA MakesOne ==
  ASSUME PromiseInv, OneOrderEach', OrdersInv', NEW k \in Keys, MakesOrder(k)
  PROVE  /\ ZeroedHasOrder'
         /\ \E i \in 1 .. Len(log) : \E o :
              /\ \A j : j # i => Outcome(j)' = Outcome(j)
              /\ Outcome(i) = <<>> /\ Outcome(i)' = <<o>>
              /\ HonoursWhole(o, log[i]) /\ <<o>> # Cancelled
<1>1. PICK c \in Chains, n \in Nat : PrepareOrder(k, c, n)
  BY DEF MakesOrder
<1>2. PICK o \in Order : /\ orders[k] = None /\ orders' = [orders EXCEPT ![k] = o]
                         /\ o.id = staged[k].id
  <2>1. staged[k] \in Staged /\ peers[c].address \in Addresses
    BY DEF MakesOrder, PromiseInv, TypeOK, Peer
  <2>2. SwapMessage(k) \in Message
    BY <2>1 DEF SwapMessage, Message, Staged
  <2>3. [id |-> staged[k].id, amount |-> n, chain |-> staged[k].chain,
         refund |-> staged[k].refund, redeemer |-> peers[c].address,
         msg |-> SwapMessage(k)] \in Order
    BY <2>1, <2>2 DEF Order, Staged
  <2>. QED BY <1>1, <2>3 DEF PrepareOrder
<1>3. /\ Live(k) /\ orders'[k] = o /\ o # None
      /\ \A j \in Keys : j # k => orders'[j] = orders[j]
      /\ placed' = placed /\ log' = log
  BY <1>2 DEF MakesOrder, Live, PromiseInv, TypeOK
<1>4. PICK i \in 1 .. Len(log) : i = staged[k].id
  BY <1>3 DEF PromiseInv, OrdersInv, StagedOK, Live
<1>5. Places(i) = {}
  BY <1>3, <1>4, PlacesAre DEF PromiseInv, IdsInv
<1>6. \A j \in Keys : j # k => staged'[j] = staged[j]
  BY DEF MakesOrder, CloseAccounts, KeepDust, PromiseInv, TypeOK
<1>7. staged'[k] # None => staged'[k].id = i
  <2>1. CASE CloseAccounts(k)
    BY <2>1 DEF CloseAccounts, PromiseInv, TypeOK
  <2>2. ASSUME NEW dust \in Nat, KeepDust(k, dust) PROVE staged'[k].id = i
    <3>1. staged[k] \in Staged
      BY DEF MakesOrder, PromiseInv, TypeOK
    <3>2. staged'[k] = [staged[k] EXCEPT !.recipient = ZeroAddress, !.redeem = Direct]
      BY <2>2 DEF KeepDust, PromiseInv, TypeOK
    <3>. QED BY <1>4, <3>1, <3>2 DEF Staged
  <2>. QED BY <2>1, <2>2 DEF MakesOrder
<1>8. Outcome(i) = <<>> /\ Outcome(i)' = <<o>> /\ Places(i)' # {}
  <2>1. Outcome(i) = <<>>
    BY <1>3, <1>4, <1>5, OutcomesAre DEF OutcomesOK, PromiseInv, Waits, Live
  <2>2. <<"prepared", k>> \in Places(i)' /\ OrderAt(<<"prepared", k>>)' = o
    BY <1>2, <1>3, <1>4 DEF Places, OrderAt
  <2>. QED BY <2>1, <2>2, NextOutcomesAre DEF OutcomesOK
<1>9. ASSUME NEW j, j # i
      PROVE  Places(j)' = Places(j) /\ Outcome(j)' = Outcome(j)
  <2>1. Places(j)' = Places(j)
    BY <1>2, <1>3, <1>4, <1>9 DEF Places
  <2>2. \A p \in Places(j) : OrderAt(p)' = OrderAt(p)
    BY <1>2, <1>3 DEF Places, OrderAt
  <2>3. Waits(j)' <=> Waits(j)
    BY <1>4, <1>6, <1>7, <1>9 DEF Waits
  <2>. QED BY <2>1, <2>2, <2>3, OutcomesAre, NextOutcomesAre DEF OutcomesOK, PromiseInv
<1>10. HonoursWhole(o, log[i])
  BY <1>2, <1>3, <1>4 DEF OrdersInv, OrderOK, HonoursWhole
<1>11. ZeroedHasOrder'
  <2> SUFFICES ASSUME NEW j \in Keys, staged'[j] # None, ~Live(j)',
                      NEW e, e = staged'[j].id
               PROVE  Places(e)' # {}
    BY DEF ZeroedHasOrder
  <2>1. CASE j = k
    BY <1>7, <1>8, <2>1
  <2>2. CASE j # k
    <3>1. staged[j] # None /\ ~Live(j) /\ e = staged[j].id
      BY <1>6, <2>2 DEF Live
    <3>2. Places(e) # {}
      BY <3>1 DEF PromiseInv, ZeroedHasOrder
    <3>. QED BY <1>5, <1>9, <3>2
  <2>. QED BY <2>1, <2>2
<1>12. <<o>> # Cancelled
  BY <1>2
<1>. QED BY <1>8, <1>9, <1>10, <1>11, <1>12

(* Placing an order moves it.                                               *)
LEMMA PlacesOrder ==
  ASSUME PromiseInv, OneOrderEach', NEW k \in Keys, PlaceOrder(k)
  PROVE  ZeroedHasOrder' /\ \A i : Outcome(i)' = Outcome(i)
<1>1. /\ orders[k] # None /\ orders[k] \in Order /\ placed \in Seq(Order)
      /\ placed' = Append(placed, orders[k])
      /\ staged' = staged
  BY DEF PlaceOrder, PromiseInv, TypeOK
<1>2. /\ orders'[k] = None
      /\ \A j \in Keys : j # k => orders'[j] = orders[j]
  BY DEF PlaceOrder, PromiseInv, TypeOK
<1>3. /\ Len(placed) \in Nat /\ Len(placed') = Len(placed) + 1
      /\ placed'[Len(placed) + 1] = orders[k]
      /\ \A n \in 1 .. Len(placed) : placed'[n] = placed[n]
  BY <1>1
<1>4. ASSUME NEW i, NEW p \in Places(i)
      PROVE  \E q \in Places(i)' : OrderAt(q)' = OrderAt(p)
  <2>1. CASE \E j \in Keys : /\ p = <<"prepared", j>> /\ OrderAt(p) = orders[j]
                             /\ orders[j] # None /\ orders[j].id = i
    <3>1. PICK j \in Keys : /\ p = <<"prepared", j>> /\ OrderAt(p) = orders[j]
                            /\ orders[j] # None /\ orders[j].id = i
      BY <2>1
    <3>2. CASE j # k
      <4>1. p \in Places(i)' /\ OrderAt(p)' = OrderAt(p)
        BY <1>2, <3>1, <3>2 DEF Places, OrderAt
      <4>. QED BY <4>1
    <3>3. CASE j = k
      <4>1. PICK n \in 1 .. Len(placed') : n = Len(placed) + 1
        BY <1>3
      <4>2. PICK q : q = <<"placed", n>>
        OBVIOUS
      <4>3. q \in Places(i)' /\ OrderAt(q)' = orders[k]
        BY <1>3, <3>1, <3>3, <4>1, <4>2 DEF Places, OrderAt
      <4>. QED BY <3>1, <3>3, <4>3
    <3>. QED BY <3>2, <3>3
  <2>2. CASE \E n \in 1 .. Len(placed) :
               p = <<"placed", n>> /\ OrderAt(p) = placed[n] /\ placed[n].id = i
    <3>1. PICK n \in 1 .. Len(placed) :
            p = <<"placed", n>> /\ OrderAt(p) = placed[n] /\ placed[n].id = i
      BY <2>2
    <3>2. p \in Places(i)' /\ OrderAt(p)' = OrderAt(p)
      BY <1>3, <3>1 DEF Places, OrderAt
    <3>. QED BY <3>2
  <2>. QED BY <2>1, <2>2, PlacesAre
<1>5. ASSUME NEW i, Places(i) = {} PROVE Places(i)' = {}
  <2>1. /\ \A j \in Keys : orders[j] # None => orders[j].id # i
        /\ \A n \in 1 .. Len(placed) : placed[n].id # i
    BY <1>5, PlacesAre
  <2>2. \A j \in Keys : orders'[j] # None => orders'[j].id # i
    BY <1>2, <2>1
  <2>3. \A n \in 1 .. Len(placed') : placed'[n].id # i
    BY <1>1, <1>3, <2>1
  <2>. QED BY <2>2, <2>3 DEF Places
<1>6. ASSUME NEW i PROVE Outcome(i)' = Outcome(i)
  <2>1. Waits(i)' <=> Waits(i)
    BY <1>1 DEF Waits
  <2>2. OutcomesOK /\ OutcomesOK'
    BY OutcomesAre, NextOutcomesAre DEF PromiseInv
  <2>3. CASE Places(i) = {}
    BY <1>5, <2>1, <2>2, <2>3 DEF OutcomesOK
  <2>4. ASSUME NEW p \in Places(i) PROVE Outcome(i)' = Outcome(i)
    BY <1>4, <2>2, <2>4 DEF OutcomesOK
  <2>. QED BY <2>3, <2>4
<1>7. ZeroedHasOrder'
  BY <1>1, <1>4 DEF ZeroedHasOrder, Live, PromiseInv
<1>. QED BY <1>6, <1>7

------------------------------------------------------------------------------
(* The abstract state, and the steps it takes.                              *)
OutcomeNow == [i \in 1 .. Len(log) |-> Outcome(i)]

LEMMA StepRefines ==
  ASSUME PromiseInv, (TypeOK /\ Paired /\ OrdersInv)', OneOrderEach', [Next]_vars
  PROVE  ZeroedHasOrder' /\ [Promise!Next]_<<log, OutcomeNow>>
<1>1. CASE Opens
  <2>1. /\ ZeroedHasOrder'
        /\ \A i \in 1 .. Len(log) : Outcome(i)' = Outcome(i)
        /\ \A i : i = Len(log) + 1 => Outcome(i)' = <<>>
        /\ \E e : log' = Append(log, e)
    BY <1>1, OpensWaits
  <2>2. /\ Len(log) \in Nat /\ Len(log') = Len(log) + 1
        /\ SubSeq(log', 1, Len(log)) = log
    BY <2>1 DEF PromiseInv, TypeOK
  <2>3. OutcomeNow' = Append(OutcomeNow, <<>>)
    BY <2>1, <2>2 DEF OutcomeNow
  <2>. QED BY <2>1, <2>2, <2>3 DEF Promise!Next, Promise!Ask, Promise!Waiting, OutcomeNow
<1>2. CASE Cancels
  <2>1. PICK i \in 1 .. Len(log) :
          /\ \A j : j # i => Outcome(j)' = Outcome(j)
          /\ \/ Outcome(i)' = Outcome(i)
             \/ Outcome(i) = <<>> /\ Outcome(i)' = Cancelled
    BY <1>2, CancelsOne
  <2>2. ZeroedHasOrder' /\ log' = log
    BY <1>2, CancelsOne DEF Cancels
  <2>3. CASE Outcome(i)' = Outcome(i)
    <3>1. OutcomeNow' = OutcomeNow
      BY <2>1, <2>2, <2>3 DEF OutcomeNow
    <3>. QED BY <2>2, <3>1
  <2>4. CASE Outcome(i) = <<>> /\ Outcome(i)' = Cancelled
    <3>1. OutcomeNow' = [OutcomeNow EXCEPT ![i] = Cancelled] /\ OutcomeNow[i] = <<>>
      BY <2>1, <2>2, <2>4 DEF OutcomeNow
    <3>2. i \in DOMAIN OutcomeNow
      BY DEF OutcomeNow
    <3>3. Promise!Cancel(i)
      BY <2>2, <3>1 DEF Promise!Cancel, Promise!Becomes, Promise!Waiting, OutcomeNow
    <3>. QED BY <2>2, <3>2, <3>3 DEF Promise!Next, OutcomeNow
  <2>. QED BY <2>1, <2>3, <2>4
<1>3. ASSUME NEW k \in Keys, MakesOrder(k)
      PROVE  ZeroedHasOrder' /\ [Promise!Next]_<<log, OutcomeNow>>
  <2>1. PICK i, o :
          /\ i \in 1 .. Len(log)
          /\ \A j : j # i => Outcome(j)' = Outcome(j)
          /\ Outcome(i) = <<>> /\ Outcome(i)' = <<o>>
          /\ HonoursWhole(o, log[i]) /\ <<o>> # Cancelled
    BY <1>3, MakesOne
  <2>2. ZeroedHasOrder' /\ log' = log
    BY <1>3, MakesOne DEF MakesOrder
  <2>3. OutcomeNow' = [OutcomeNow EXCEPT ![i] = <<o>>]
    BY <2>1, <2>2 DEF OutcomeNow
  <2>4. OutcomeNow[i] = <<>> /\ OutcomeNow'[i] = <<o>> /\ i \in DOMAIN OutcomeNow
    BY <2>1, <2>2 DEF OutcomeNow
  <2>5. Promise!MakeOrder(i)
    <3>1. PICK end : end = OutcomeNow'[i]
      OBVIOUS
    <3>2. end # Cancelled /\ Len(end) = 1 /\ end[1] = o
      BY <2>1, <2>4, <3>1
    <3>3. HonoursWhole(end[1], log[i])
      BY <2>1, <3>2
    <3>4. Promise!Becomes(i, end) /\ OutcomeNow[i] = Promise!Waiting
      BY <2>2, <2>3, <2>4, <3>1 DEF Promise!Becomes, Promise!Waiting, OutcomeNow
    <3>. QED BY <3>1, <3>2, <3>3, <3>4 DEF Promise!MakeOrder, OutcomeNow
  <2>. QED BY <2>2, <2>4, <2>5 DEF Promise!Next, OutcomeNow
<1>4. CASE Idles \/ \E k \in Keys : PlaceOrder(k)
  <2>1. ZeroedHasOrder' /\ log' = log /\ \A i : Outcome(i)' = Outcome(i)
    BY <1>4, IdlesKeeps, PlacesOrder DEF Idles, PlaceOrder, PromiseInv
  <2>2. OutcomeNow' = OutcomeNow
    BY <2>1 DEF OutcomeNow
  <2>. QED BY <2>1, <2>2
<1>. QED BY <1>1, <1>2, <1>3, <1>4, StepShapes DEF PromiseInv

LEMMA PromiseStep ==
  PromiseInv /\ (TypeOK /\ Paired /\ OrdersInv)' /\ [Next]_vars
    => /\ (IdsInv /\ OneOrderEach /\ ZeroedHasOrder)'
       /\ [Promise!Next]_<<log, OutcomeNow>>
<1> SUFFICES ASSUME PromiseInv, (TypeOK /\ Paired /\ OrdersInv)', [Next]_vars
             PROVE  /\ (IdsInv /\ OneOrderEach /\ ZeroedHasOrder)'
                    /\ [Promise!Next]_<<log, OutcomeNow>>
  OBVIOUS
<1>1. IdsInv' /\ OneOrderEach'
  BY StepShapes, IdsStep DEF PromiseInv
<1>. QED BY <1>1, StepRefines

LEMMA PromiseInit == Init => Promise!Init /\ IdsInv /\ OneOrderEach /\ ZeroedHasOrder
<1> SUFFICES ASSUME Init
             PROVE  Promise!Init /\ IdsInv /\ OneOrderEach /\ ZeroedHasOrder
  OBVIOUS
<1>1. OutcomeNow = <<>>
  BY DEF Init, OutcomeNow
<1>. QED BY <1>1 DEF Init, Promise!Init, OutcomeNow, IdsInv, OneOrderEach, Live, ZeroedHasOrder

LEMMA PromiseInvariant == Spec => []PromiseInv
BY PromiseInit, PromiseStep, InvariantHolds, PTL DEF Spec, PromiseInv

(* Every behaviour of the program is one of StagedTransfer: a staging       *)
(* becomes one order that honours it, or is cancelled, and nothing else     *)
(* afterwards, although dust leaves its accounts open, anybody may initiate *)
(* it and its key may be staged again.                                      *)
THEOREM PromiseKept == Spec => KeepsPromise
BY PromiseInit, PromiseStep, PromiseInvariant, InvariantHolds, PTL
DEF Spec, KeepsPromise, Promise!Spec, PromiseInv, OutcomeNow
------------------------------------------------------------------------------
(* Endings.  An account closes in a cancellation or when its order is made. *)
(* A cancelled one either was swapped, and then its order is made, or holds *)
(* at least what was put into it.                                           *)
Ends(k) == staged[k] # None /\ staged'[k] = None

Paid(k) ==
  (\E o \in Orders' : o.id = staged[k].id) \/ GivenBack(log[staged[k].id])

(* An order at one of its places is one of the orders.                      *)
LEMMA PlacedIsOrder ==
  ASSUME NEW i, Places(i) # {}
  PROVE  \E o \in Orders : o.id = i
BY DEF Places, Orders

LEMMA CancelPays ==
  ASSUME PromiseInv, NEW k \in Keys, Close(k)
  PROVE  Paid(k)
<1>1. staged[k] # None /\ UNCHANGED <<orders, placed>>
  BY DEF Close, CloseToToken, CloseToLamports
<1>2. CASE ~Live(k)
  <2>1. \E o \in Orders : o.id = staged[k].id
    BY <1>1, <1>2, PlacedIsOrder DEF PromiseInv, ZeroedHasOrder
  <2>2. Orders' = Orders
    BY <1>1 DEF Orders
  <2>. QED BY <2>1, <2>2 DEF Paid
<1>3. CASE Live(k)
  <2>1. PICK e \in Entry : e = log[staged[k].id]
    BY <1>1 DEF PromiseInv, OrdersInv, StagedOK, TypeOK
  <2>2. custody[k].mint = e.mint /\ custody[k].amount >= e.put
    BY <1>1, <1>3, <2>1 DEF Live, PromiseInv, OrdersInv, StagedOK, Faithful
  <2>3. e.mint \in Mints /\ e.put \in Nat /\ custody[k].amount \in Nat /\ staged[k].sender \in Users
    <3>1. custody[k] \in Custody /\ staged[k] \in Staged
      BY <1>1 DEF PromiseInv, Paired, TypeOK
    <3>. QED BY <3>1 DEF Custody, Staged, Entry
  <2>4. ASSUME NEW u \in Users, NEW a \in Assets, a \in Refunds(e.mint), NEW n \in Nat,
               n >= e.put, wallet' = Credit(wallet, u, a, n)
        PROVE  GivenBack(e)
    <3>1. wallet[u][a] \in Nat /\ wallet'[u][a] = wallet[u][a] + n
      BY <2>4 DEF PromiseInv, TypeOK, Holders, Credit
    <3>. QED BY <2>3, <2>4, <3>1 DEF GivenBack
  <2>5. Mints \subseteq Assets /\ "lamports" \in Assets
    BY DEF Assets
  <2>6. CASE \E dst \in Users : CloseToToken(k, dst)
    <3>1. PICK dst \in Users : wallet' = Credit(wallet, dst, custody[k].mint, custody[k].amount)
      BY <2>6 DEF CloseToToken
    <3>2. e.mint \in Refunds(e.mint)
      BY DEF Refunds
    <3>3. GivenBack(e)
      BY <2>2, <2>3, <2>4, <2>5, <3>1, <3>2
    <3>. QED BY <2>1, <3>3 DEF Paid
  <2>7. CASE CloseToLamports(k)
    <3>1. /\ wallet' = Credit(wallet, staged[k].sender, "lamports", custody[k].amount)
          /\ custody[k].mint = "wsol" \/ custody[k].amount = 0
      BY <2>7 DEF CloseToLamports
    <3>2. CASE custody[k].mint = "wsol"
      <4>1. "lamports" \in Refunds(e.mint)
        BY <2>2, <3>2 DEF Refunds
      <4>2. GivenBack(e)
        BY <2>2, <2>3, <2>4, <2>5, <3>1, <4>1
      <4>. QED BY <2>1, <4>2 DEF Paid
    <3>3. CASE custody[k].amount = 0
      <4>1. e.put = 0 /\ e.mint \in Refunds(e.mint)
        BY <2>2, <2>3, <3>3 DEF Refunds
      <4>2. wallet'[staged[k].sender][e.mint] >= wallet[staged[k].sender][e.mint]
        BY <2>3, <2>5, <3>1, <3>3 DEF Credit, PromiseInv, TypeOK, Holders
      <4>3. GivenBack(e)
        BY <2>3, <4>1, <4>2, <2>5 DEF GivenBack, PromiseInv, TypeOK, Holders
      <4>. QED BY <2>1, <4>3 DEF Paid
    <3>. QED BY <3>1, <3>2, <3>3
  <2>. QED BY <2>6, <2>7 DEF Close
<1>. QED BY <1>2, <1>3

LEMMA InitiationPays ==
  ASSUME PromiseInv, TypeOK', NEW k \in Keys, MakesOrder(k)
  PROVE  Paid(k)
<1>1. PICK c \in Chains, n \in Nat : PrepareOrder(k, c, n)
  BY DEF MakesOrder
<1>2. staged[k] \in Staged /\ peers[c].address \in Addresses
  BY DEF MakesOrder, PromiseInv, TypeOK, Peer
<1>3. SwapMessage(k) \in Message
  BY <1>2 DEF SwapMessage, Message, Staged
<1>4. PICK o \in Order : o.id = staged[k].id /\ orders' = [orders EXCEPT ![k] = o]
  <2>1. [id |-> staged[k].id, amount |-> n, chain |-> staged[k].chain,
         refund |-> staged[k].refund, redeemer |-> peers[c].address,
         msg |-> SwapMessage(k)] \in Order
    BY <1>2, <1>3 DEF Order, Staged
  <2>. QED BY <1>1, <2>1 DEF PrepareOrder
<1>5. orders'[k] = o /\ orders'[k] # None
  BY <1>4 DEF PromiseInv, TypeOK
<1>6. o \in Orders'
  BY <1>5 DEF Orders
<1>. QED BY <1>4, <1>6 DEF Paid

(* Whoever closes an account, its staging is paid in an order or given      *)
(* back whole.                                                              *)
THEOREM StagingsEndPaid == Spec => EndsPaid
<1>1. PromiseInv /\ TypeOK' /\ [Next]_vars => \A k \in Keys : Ends(k) => Paid(k)
  <2> SUFFICES ASSUME PromiseInv, TypeOK', [Next]_vars, NEW k \in Keys, Ends(k)
               PROVE  Paid(k)
    OBVIOUS
  <2>1. ASSUME NEW j \in Keys, Close(j) \/ Initiate(j), k # j PROVE FALSE
    <3>1. CloseAccounts(j) \/ \E dust : KeepDust(j, dust)
      BY <2>1 DEF Close, CloseToToken, CloseToLamports, Initiate, InitiateTransfer, InitiateSwapExactIn
    <3>. QED BY <2>1, <3>1 DEF CloseAccounts, KeepDust, Ends, PromiseInv, TypeOK
  <2>2. CASE Close(k)
    BY <2>2, CancelPays
  <2>3. CASE Initiate(k)
    BY <2>3, InitiationMakesOrder, InitiationPays DEF PromiseInv
  <2>4. ASSUME NEW j \in Keys, Stage(j) PROVE FALSE
    <3>1. PICK payer \in Users, sender \in Users, refund \in Users, r \in Requests,
               m \in Mints : Open(j, payer, sender, refund, r, m)
      BY <2>4 DEF Stage, StageBySender, StageByAuthority, StageLamports, Mints
    <3>2. staged'[j] # None /\ \A i \in Keys : i # j => staged'[i] = staged[i]
      BY <3>1, OpenedIsStaged DEF PromiseInv
    <3>. QED BY <3>2 DEF Ends
  <2>5. staged' # staged
    BY DEF Ends
  <2>6. \E j \in Keys : Stage(j) \/ Close(j) \/ Initiate(j)
    BY <2>5 DEF Next, PlaceOrder, Approve, Donate, UpdatePeer, UpdateRelayParameters, vars
  <2>. QED BY <2>1, <2>2, <2>3, <2>4, <2>6
<1>2. Spec => [](PromiseInv /\ TypeOK)
  BY PromiseInvariant, PTL DEF PromiseInv
<1>3. PromiseInv /\ TypeOK' /\ [Next]_vars => [\A k \in Keys : Ends(k) => Paid(k)]_vars
  BY <1>1
<1>. QED BY <1>2, <1>3, PTL DEF Spec, EndsPaid, Ends, Paid
-----------------------------------------------------------------------------
(* The quotes above are values and nothing more; that they are what the      *)
(* program's calculate_relayer_fee can return is a fact about SolanaFees,    *)
(* and so is that the SDK's calculateRelayerFee returns them too.            *)
Fees == INSTANCE SolanaFees

Evm == [type : {"evm"}, gasPrice : Nat, gasPriceMargin : Nat]
NotEvm == [type : {"none"}]
RelayParamsRead ==
  [baseFee : Nat, nativeTokenPrice : Nat, maxGasDropoff : Nat, gasDropoffMargin : Nat,
   executionParams : Evm \union NotEvm]

\* What the SDK is asked for and what the program reads name the same swap.
SameOutput(asked, read) ==
  /\ asked.tag = read.tag
  /\ read.tag # "Usdc" =>
       /\ asked.swap.type.tag = read.swap.swap_type.tag
       /\ read.swap.swap_type.tag \in {"UniswapV3", "TraderJoe"} =>
            /\ Len(asked.swap.type.path) \in Nat
            /\ Len(asked.swap.type.path) = Len(read.swap.swap_type.path)

LEMMA ProductIsNat == ASSUME NEW a \in Nat, NEW b \in Nat PROVE a * b \in Nat
OBVIOUS

\* Within the margins that verify_relay_params accepts the program compounds as
\* the SDK does.
LEMMA CompoundsAgree ==
  ASSUME NEW percentage \in Nat, percentage <= Fees!MAX_BPS, NEW base \in Nat
  PROVE  /\ Fees!compound_checked(percentage, base) = Fees!compound(percentage, base)
         /\ Fees!compound(percentage, base) \in Nat
<1>1. PICK p \in Nat : p = base * percentage
  BY ProductIsNat
<1>2. PICK part \in Nat : part = p \div Fees!MAX_BPS
  BY DEF Fees!MAX_BPS
<1>3. Fees!compound(percentage, base) = IF percentage = 0 THEN base ELSE base + part
  BY <1>1, <1>2 DEF Fees!compound
<1>4. ~(percentage > Fees!MAX_BPS)
  BY DEF Fees!MAX_BPS
<1>5. Fees!compound_checked(percentage, base) = IF percentage = 0 THEN base ELSE part + base
  BY <1>1, <1>2, <1>4 DEF Fees!compound_checked
<1>. QED BY <1>2, <1>3, <1>5

\* The gas of the swaps is the same, or both sides refuse them.
LEMMA OverheadsAgree ==
  ASSUME NEW asked, NEW read, SameOutput(asked, read), read.tag # "Usdc"
  PROVE  /\ Fees!calculate_evm_swap_overhead(read.swap.swap_type) = Fees!calculateEvmSwapOverhead(asked)
         /\ Fees!calculateEvmSwapOverhead(asked) \in Nat \union {Fees!Bad}
<1>1. CASE read.swap.swap_type.tag = "UniswapV3"
  <2>1. PICK n \in Nat : n = Len(asked.swap.type.path) /\ n = Len(read.swap.swap_type.path)
    BY <1>1 DEF SameOutput
  <2>. QED BY <1>1, <2>1 DEF SameOutput, Fees!calculate_evm_swap_overhead,
     Fees!calculateEvmSwapOverhead, Fees!UNISWAP_GAS_OVERHEAD, Fees!UNISWAP_GAS_PER_SWAP
<1>2. CASE read.swap.swap_type.tag = "TraderJoe"
  <2>1. PICK n \in Nat : n = Len(asked.swap.type.path) /\ n = Len(read.swap.swap_type.path)
    BY <1>2 DEF SameOutput
  <2>. QED BY <1>2, <2>1 DEF SameOutput, Fees!calculate_evm_swap_overhead,
     Fees!calculateEvmSwapOverhead, Fees!TRADERJOE_GAS_OVERHEAD, Fees!TRADERJOE_GAS_PER_SWAP
<1>3. CASE read.swap.swap_type.tag \notin {"UniswapV3", "TraderJoe"}
  BY <1>3 DEF SameOutput, Fees!calculate_evm_swap_overhead, Fees!calculateEvmSwapOverhead
<1>. QED BY <1>1, <1>2, <1>3

(* A fee that the program charges for relay parameters it accepts is what    *)
(* the SDK quotes for them, and positive; what the SDK quotes the program    *)
(* charges, unless it exceeds a uint48 (relayer_fees.rs:110,                 *)
(* relayerFees.ts:80), for any parameters, dropoffs and paths.               *)
THEOREM QuotesAreCharged ==
  ASSUME NEW params \in RelayParamsRead, Fees!verify_relay_params(params),
         NEW gasDropoff \in Nat, NEW asked, NEW read, SameOutput(asked, read)
  PROVE  LET quote == Fees!calculateRelayerFee(params, Fees!denormalizeGasDropOff(gasDropoff), asked)
             fee   == Fees!calculate_relayer_fee(params, gasDropoff, read)
         IN /\ quote \in (Nat \ {0}) \union {Fees!Bad}
            /\ fee = IF quote > Fees!UINT48_MAX THEN Fees!Bad ELSE quote
<1>. DEFINE evm   == params.executionParams
            price == params.nativeTokenPrice
<1>1. /\ params.baseFee \in Nat \ {0} /\ price \in Nat /\ params.maxGasDropoff \in Nat
      /\ params.gasDropoffMargin \in Nat /\ params.gasDropoffMargin <= Fees!MAX_BPS
      /\ evm.type \in {"evm", "none"}
      /\ evm.type # "none" => /\ evm.gasPrice \in Nat /\ evm.gasPriceMargin \in Nat
                              /\ evm.gasPriceMargin <= Fees!MAX_BPS
  BY DEF RelayParamsRead, Evm, NotEvm, Fees!verify_relay_params
<1>2. PICK denorm \in Nat : /\ denorm = Fees!denormalizeGasDropOff(gasDropoff)
                            /\ denorm = Fees!denormalize_gas_dropoff(gasDropoff)
                            /\ denorm > 0 <=> gasDropoff > 0
                            /\ denorm > Fees!denormalizeGasDropOff(params.maxGasDropoff)
                                 <=> gasDropoff > params.maxGasDropoff
  BY <1>1 DEF Fees!denormalizeGasDropOff, Fees!denormalize_gas_dropoff, Fees!GAS_DROPOFF_SCALAR
<1>3. PICK overhead \in Nat \union {Fees!Bad} :
         /\ overhead = Fees!calculateEvmSwapOverhead(asked)
         /\ overhead = IF read.tag = "Usdc" THEN 0
                       ELSE Fees!calculate_evm_swap_overhead(read.swap.swap_type)
  <2>1. CASE read.tag = "Usdc"
    BY <2>1 DEF SameOutput, Fees!calculateEvmSwapOverhead
  <2>. QED BY <2>1, OverheadsAgree
<1>4. PICK dropoff \in Nat :
         /\ dropoff = Fees!calculateGasDropoffCost(denorm, params.gasDropoffMargin, price)
         /\ dropoff = Fees!calculate_gas_dropoff_cost(gasDropoff, params.gasDropoffMargin, price)
  <2>1. PICK p \in Nat : p = denorm * price
    BY <1>1, ProductIsNat
  <2>2. PICK base \in Nat : base = p \div Fees!ONE_SOL
    BY DEF Fees!ONE_SOL
  <2>. QED
    BY <1>1, <1>2, <2>1, <2>2, CompoundsAgree DEF Fees!calculateGasDropoffCost, Fees!calculate_gas_dropoff_cost
<1>5. PICK totalGas : totalGas = Fees!EVM_GAS_OVERHEAD + overhead
                                   + (IF gasDropoff > 0 THEN Fees!DROPOFF_GAS_OVERHEAD ELSE 0)
  OBVIOUS
<1>6. ASSUME overhead # Fees!Bad, evm.type # "none"
      PROVE  /\ Fees!calculateEvmGasCost(evm.gasPrice, evm.gasPriceMargin, totalGas, price) \in Nat
             /\ Fees!calculate_evm_gas_cost(evm.gasPrice, evm.gasPriceMargin, totalGas, price)
                  = Fees!calculateEvmGasCost(evm.gasPrice, evm.gasPriceMargin, totalGas, price)
  <2>1. totalGas \in Nat
    BY <1>3, <1>5, <1>6 DEF Fees!EVM_GAS_OVERHEAD, Fees!DROPOFF_GAS_OVERHEAD
  <2>2. PICK gasPrice \in Nat : /\ gasPrice = Fees!denormalizeGasPrice(evm.gasPrice)
                                /\ gasPrice = Fees!denormalize_gas_price(evm.gasPrice)
    BY <1>1, <1>6 DEF Fees!denormalizeGasPrice, Fees!denormalize_gas_price, Fees!GAS_PRICE_SCALAR
  <2>3. PICK p \in Nat : p = totalGas * gasPrice * price
    BY <1>1, <2>1, ProductIsNat
  <2>4. PICK base \in Nat : base = p \div Fees!ONE_ETHER
    BY DEF Fees!ONE_ETHER
  <2>5. Fees!calculateEvmGasCost(evm.gasPrice, evm.gasPriceMargin, totalGas, price)
          = Fees!compound(evm.gasPriceMargin, base)
    BY <2>2, <2>3, <2>4 DEF Fees!calculateEvmGasCost
  <2>6. Fees!calculate_evm_gas_cost(evm.gasPrice, evm.gasPriceMargin, totalGas, price)
          = Fees!compound_checked(evm.gasPriceMargin, base)
    BY <2>2, <2>3, <2>4 DEF Fees!calculate_evm_gas_cost
  <2>. QED BY <1>1, <1>6, <2>4, <2>5, <2>6, CompoundsAgree
<1>7. PICK gas \in Nat \union {Fees!Bad} :
         /\ gas = Fees!Bad <=> evm.type = "none" \/ overhead = Fees!Bad
         /\ gas # Fees!Bad =>
              gas = Fees!calculateEvmGasCost(evm.gasPrice, evm.gasPriceMargin, totalGas, price)
         /\ gas = IF evm.type = "none" \/ overhead = Fees!Bad THEN Fees!Bad
                  ELSE Fees!calculate_evm_gas_cost(evm.gasPrice, evm.gasPriceMargin, totalGas, price)
  BY <1>6 DEF Fees!Bad
<1>8. Fees!calculateRelayerFee(params, denorm, asked)
        = IF \/ params.baseFee = Fees!U32_MAX \/ gasDropoff > params.maxGasDropoff
             \/ gas = Fees!Bad
          THEN Fees!Bad
          ELSE params.baseFee + (IF gasDropoff = 0 THEN 0 ELSE dropoff) + gas
  BY <1>1, <1>2, <1>3, <1>4, <1>5, <1>7 DEF Fees!calculateRelayerFee
<1>9. Fees!FeeParts(params, gasDropoff, read)
        = << IF params.baseFee = Fees!U32_MAX THEN Fees!Bad ELSE params.baseFee,
             IF gasDropoff = 0 THEN 0
             ELSE IF gasDropoff > params.maxGasDropoff THEN Fees!Bad ELSE dropoff,
             gas >>
  BY <1>1, <1>3, <1>4, <1>5, <1>7 DEF Fees!FeeParts
<1>10. Fees!calculate_relayer_fee(params, gasDropoff, read)
         = LET quote == Fees!calculateRelayerFee(params, denorm, asked)
           IN IF quote > Fees!UINT48_MAX THEN Fees!Bad ELSE quote
  <2>1. PICK parts : parts = Fees!FeeParts(params, gasDropoff, read)
    OBVIOUS
  <2>2. (\E i \in 1..3 : parts[i] = Fees!Bad)
          <=> \/ params.baseFee = Fees!U32_MAX \/ gasDropoff > params.maxGasDropoff
              \/ gas = Fees!Bad
    BY <1>1, <1>9, <2>1 DEF Fees!Bad
  <2>. QED
    BY <1>1, <1>8, <1>9, <2>1, <2>2 DEF Fees!calculate_relayer_fee, Fees!SumOfParts, Fees!Bad, Fees!UINT48_MAX
<1>. QED
  BY <1>1, <1>2, <1>8, <1>10 DEF Fees!Bad
=============================================================================
