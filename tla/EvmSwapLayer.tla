---------------------------- MODULE EvmSwapLayer ----------------------------
(***************************************************************************)
(* The EVM contract SwapLayer: initiate acquires a token from its caller,  *)
(* swaps it into USDC and places an order on the liquidity layer; redeem   *)
(* takes the USDC of a fill, swaps it into what its message asks for and   *)
(* pays the recipient.  A call gives control away: to a router and the     *)
(* pools and tokens on its path, to the sender who is refunded and to the  *)
(* recipient who is paid.  Whoever has control may call again before the   *)
(* first call has ended, so a call is a frame on a stack and its steps are *)
(* what it does between two losses of control.  A frame that reverts takes *)
(* with it all that happened since it was pushed.                          *)
(*                                                                         *)
(* External and modelled from its use: the liquidity layer (a fill is      *)
(* redeemed once, an order takes its USDC), the routers (an exchange of    *)
(* any rate the limits admit, or a failure), ERC-20 and WETH.              *)
(***************************************************************************)
EXTENDS Integers, Sequences, FiniteSets, FiniteSetsExt, SequencesExt

CONSTANTS
  Users,        \* callers, senders and recipients
  This,         \* the contract
  FeeRecipient, \* _getFeeRecipient()
  Fills,        \* fills of the liquidity layer
  Incoming,     \* the contents a fill may have
  Requests,     \* the arguments of initiate that senders use
  Overrides,    \* the params of redeem that recipients use
  Peers,        \* addresses a peer registration may have
  NoPeer,       \* bytes32(0)
  Quotes,       \* values _calcRelayingFee returns
  Disabled,     \* _calcRelayingFee reverts
  None,
  Redeemed,     \* a fill the liquidity layer has paid out
  MessageFee,   \* the Wormhole message fee
  Funds,        \* initial balance of every user in every asset
  MaxDepth,     \* bound: calls on the stack
  MaxOut,       \* bound: output of an exact-in swap
  MaxOrders,    \* bound: orders placed
  MaxClock,     \* bound: block.timestamp
  MaxGifts      \* bound: tokens donated

Assets == {"usdc", "eth", "weth", "other"}
Holders == Users \cup {This, FeeRecipient}
Modes == {"Direct", "Relay", "Payload"}
Routers == {"uniswap", "traderjoe"}
SwapTypes == Routers \cup {"jupiter"}

(* The swap struct of an output or of params; a deadline of 0 is none.      *)
Output == [token : {"usdc", "weth", "other"}, limit : Nat, deadline : Nat,
           type : SwapTypes]

(* RedeemedFill and its swap message.                                       *)
Fill == [sender : Peers, amount : Nat, recipient : Users, mode : Modes,
         fee : Nat, dropoff : Nat, output : Output]

(* Arguments of initiate with their msg.value; fastFee is 0 and fast FALSE  *)
(* without a fast transfer, swap is the swap struct of a non-USDC input.    *)
Request == [value : Nat, fast : BOOLEAN, fastFee : Nat, mode : Modes,
            maxFee : Nat, exactIn : BOOLEAN, token : {"usdc", "weth", "other"},
            amount : Nat, swap : [limit : Nat, deadline : Nat, type : SwapTypes]]

ASSUME InputsAssumption ==
  /\ Incoming \subseteq Fill /\ Requests \subseteq Request
  /\ Overrides \subseteq Output
  /\ \A r \in Requests : r.fast \/ r.fastFee = 0

ASSUME BoundsAssumption ==
  /\ Quotes \subseteq Nat /\ Disabled \notin Nat
  /\ {MessageFee, Funds, MaxDepth, MaxOut, MaxOrders, MaxClock, MaxGifts}
       \subseteq Nat

ASSUME DistinctAssumption ==
  /\ This \notin Users /\ FeeRecipient \notin Users /\ This # FeeRecipient
  /\ None \notin Incoming \cup Overrides /\ Redeemed \notin Incoming
  /\ None # Redeemed /\ NoPeer \notin Peers

VARIABLES
  clock,  \* block.timestamp
  peer,   \* _getPeer of the one other chain
  quote,  \* its relaying fee
  world,  \* what a revert undoes: balances, fills, orders, payments and, as
          \* history, the USDC that swaps took for no output
  stack,  \* the calls in progress, innermost last
  gifts,  \* history: what was donated to the contract less what was swept
  donated \* history: the number of donations

vars == <<clock, peer, quote, world, stack, gifts, donated>>

Init ==
  /\ clock = 0
  /\ peer \in Peers \cup {NoPeer}
  /\ quote \in Quotes \cup {Disabled}
  /\ world = [bal |-> [h \in Holders |-> [a \in Assets |->
                         IF h \in Users THEN Funds ELSE 0]],
              fills |-> [f \in Fills |-> None],
              orders |-> <<>>,
              paid |-> [f \in Fills |-> None],
              voided |-> 0]
  /\ stack = <<>>
  /\ gifts = [a \in Assets |-> 0]
  /\ donated = 0

------------------------------------------------------------------------------
(* The ledger and the stack                                                 *)

Has(h, a, n) == world.bal[h][a] >= n

Add(bal, h, a, n) == [bal EXCEPT ![h][a] = @ + n]

Move(bal, from, to, a, n) == Add(Add(bal, from, a, -n), to, a, n)

(* _wnative.withdraw                                                        *)
Withdraw(bal, n) == Add(Add(bal, This, "weth", -n), This, "eth", n)

WithBal(bal) == [world EXCEPT !.bal = bal]

Top == Last(stack)
SetTop(frame) == stack' = [stack EXCEPT ![Len(stack)] = frame]

(* Where a frame has given control to a router, a token, a sender or a      *)
(* recipient.                                                               *)
Outside == {"router", "routed", "refunded", "dropped", "sent"}

(* A transaction may start, or whoever has control may call again.          *)
MayCall ==
  /\ Len(stack) < MaxDepth
  /\ stack # <<>> => Top.pc \in Outside

Quiet == stack = <<>>

Fixed == UNCHANGED <<clock, peer, quote, gifts, donated>>

------------------------------------------------------------------------------
(* _swap                                                                    *)

(* Seeded fault: the deadline is not checked.                               *)
SwappableLate(s) == s.type \in Routers

(* _swap calls a router: the deadline has not passed, the type is known.    *)
Swappable(s) == (s.deadline = 0 \/ s.deadline >= clock) /\ s.type \in Routers

(* The token whose balance tells what a swap did: the output of an exact-in *)
(* swap, the input of an exact-out one.                                     *)
Unknown(frame) == IF frame.exactIn THEN frame.dst ELSE frame.src

(* A frame that has called a router in the world w.                         *)
CallRouter(frame, w) ==
  [frame EXCEPT !.pc = "router", !.before = w.bal[This][Unknown(frame)], !.atCall = w]

(* The router takes spent of the input for got of the output; the frame's   *)
(* got is history, the one of the two that _swap is to find out.            *)
RouterSwaps(spent, got) ==
  /\ ~Quiet /\ Top.pc = "router"
  /\ IF Top.exactIn THEN spent = Top.in /\ got >= Top.out
     ELSE spent \in 0 .. Top.in /\ got = Top.out
  /\ Has(This, Top.src, spent)
  /\ world' = WithBal(Add(Add(world.bal, This, Top.src, -spent), This, Top.dst, got))
  /\ SetTop([Top EXCEPT !.pc = "routed", !.got = IF Top.exactIn THEN got ELSE spent])
  /\ Fixed

(* Seeded fault: the whole balance counts as the output.                    *)
SwapResultWhole(frame) ==
  IF frame.type = "traderjoe" THEN frame.got
  ELSE IF frame.exactIn THEN world.bal[This][frame.dst]
  ELSE frame.before - world.bal[This][frame.src]

(* What _swap returns: Trader Joe reports it, for the Universal Router it   *)
(* is the difference of two balances.                                       *)
SwapResult(frame) ==
  IF frame.type = "traderjoe" THEN frame.got
  ELSE IF frame.exactIn THEN world.bal[This][frame.dst] - frame.before
  ELSE frame.before - world.bal[This][frame.src]

------------------------------------------------------------------------------
(* redeem                                                                   *)

Pending(f) == world.fills[f] \notin {None, Redeemed}

(* A relayer redeems, for a fee and with the gas dropoff as msg.value.      *)
Relays(caller, fill) == fill.mode = "Relay" /\ caller # fill.recipient

(* Seeded fault: a recipient may not override a relayed fill.               *)
MayRedeemUnrelayed(caller, fill, override) ==
  /\ override # None => caller = fill.recipient /\ fill.mode # "Relay"
  /\ fill.mode = "Payload" => caller = fill.recipient

(* Only the recipient passes params, and he alone redeems a payload.        *)
MayRedeem(caller, fill, override) ==
  /\ override # None => caller = fill.recipient
  /\ fill.mode = "Payload" => caller = fill.recipient

(* Seeded fault: the fee is taken twice.                                    *)
ReceivedTwice(bal, caller, fill, fee, gas) ==
  Move(Add(Add(bal, This, "usdc", fill.amount - 2 * fee), FeeRecipient, "usdc", 2 * fee),
       caller, This, "eth", gas)

(* The fill is paid in, the fee out to the fee recipient, msg.value is kept *)
(* for the dropoff.                                                         *)
Received(bal, caller, fill, fee, gas) ==
  Move(Add(Add(bal, This, "usdc", fill.amount - fee), FeeRecipient, "usdc", fee),
       caller, This, "eth", gas)

(* Seeded fault: the subtraction of the fee is not checked.                 *)
FeeUnchecked(fill, fee) == TRUE

(* The fee is transferred and subtracted with checked arithmetic.           *)
FeePayable(fill, fee) == fill.amount >= fee

(* redeem up to its swap, or up to the payment if there is none: the output *)
(* is USDC, the deadline has passed or the type is unknown.                 *)
Redeem(caller, f, override) ==
  LET fill == world.fills[f]
      relays == Relays(caller, fill)
      fee == IF relays THEN fill.fee ELSE 0
      gas == IF relays THEN fill.dropoff ELSE 0
      output == IF override = None THEN fill.output ELSE override
      frame == [op |-> "redeem", pc |-> "deliver", id |-> f, caller |-> caller,
                exactIn |-> TRUE, src |-> "usdc", dst |-> output.token,
                in |-> fill.amount - fee, out |-> output.limit, type |-> output.type,
                before |-> 0, got |-> 0, fee |-> fee, dropoff |-> gas,
                token |-> "usdc", amount |-> fill.amount - fee, lost |-> 0,
                override |-> override, entry |-> world, atCall |-> None]
      after == [WithBal(Received(world.bal, caller, fill, fee, gas))
                 EXCEPT !.fills[f] = Redeemed]
  IN
  /\ MayCall
  /\ Pending(f)
  /\ fill.sender = peer
  /\ MayRedeem(caller, fill, override)
  /\ FeePayable(fill, fee)
  /\ Has(caller, "eth", gas)
  /\ world' = after
  /\ stack' = Append(stack, IF output.token # "usdc" /\ Swappable(output)
                            THEN CallRouter(frame, after) ELSE frame)
  /\ Fixed

(* _swap returns to redeem.  An output of 0 stands for a failure and is     *)
(* paid in USDC, although the swap has taken its input all the same.        *)
RedeemSwapped ==
  LET result == SwapResult(Top) IN
  /\ ~Quiet /\ Top.op = "redeem" /\ Top.pc = "routed"
  /\ world' = [world EXCEPT !.voided = IF result = 0 THEN @ + Top.in ELSE @]
  /\ SetTop(IF result = 0 THEN [Top EXCEPT !.pc = "deliver"]
            ELSE [Top EXCEPT !.pc = "deliver", !.token = Top.dst, !.amount = result])
  /\ Fixed

(* The router call fails and is undone: the recipient gets USDC.            *)
RedeemSwapFails ==
  /\ ~Quiet /\ Top.op = "redeem" /\ Top.pc \in {"router", "routed"}
  /\ world' = Top.atCall
  /\ SetTop([Top EXCEPT !.pc = "deliver", !.got = 0])
  /\ Fixed

Recipient(frame) == frame.entry.fills[frame.id].recipient

(* _wnative.withdraw, and _transferEth of output and dropoff.               *)
PaidEth(bal, to, n, gas) == Move(Withdraw(bal, n), This, to, "eth", n + gas)

(* The output is native: control goes to the recipient.                     *)
DeliverEth ==
  LET to == Recipient(Top) IN
  /\ ~Quiet /\ Top.pc = "deliver" /\ Top.token = "weth"
  /\ Has(This, "weth", Top.amount)
  /\ Has(This, "eth", Top.dropoff)
  /\ world' = WithBal(PaidEth(world.bal, to, Top.amount, Top.dropoff))
  /\ SetTop([Top EXCEPT !.pc = "sent"])
  /\ Fixed

(* The dropoff goes first: control goes to the recipient.                   *)
DeliverDropoff ==
  /\ ~Quiet /\ Top.pc = "deliver" /\ Top.token # "weth" /\ Top.dropoff > 0
  /\ Has(This, "eth", Top.dropoff)
  /\ world' = WithBal(Move(world.bal, This, Recipient(Top), "eth", Top.dropoff))
  /\ SetTop([Top EXCEPT !.pc = "dropped"])
  /\ Fixed

(* Then the token, which may call its receiver.                             *)
DeliverToken ==
  /\ ~Quiet /\ Top.token # "weth"
  /\ Top.pc = "dropped" \/ (Top.pc = "deliver" /\ Top.dropoff = 0)
  /\ Has(This, Top.token, Top.amount)
  /\ world' = WithBal(Move(world.bal, This, Recipient(Top), Top.token, Top.amount))
  /\ SetTop([Top EXCEPT !.pc = "sent"])
  /\ Fixed

(* redeem returns; paid is its Redeemed event.                              *)
Return ==
  /\ ~Quiet /\ Top.pc = "sent"
  /\ world' = [world EXCEPT !.paid[Top.id] =
       [fill |-> Top.entry.fills[Top.id], by |-> Top.caller, override |-> Top.override,
        fee |-> Top.fee, token |-> Top.token, amount |-> Top.amount,
        dropoff |-> Top.dropoff, got |-> Top.got, at |-> clock]]
  /\ stack' = Front(stack)
  /\ Fixed

------------------------------------------------------------------------------
(* initiate                                                                 *)

RelayFee(r) == IF r.mode = "Relay" THEN quote ELSE 0

(* The most that the liquidity layer and the relayer may take.              *)
TotalFee(r) == r.fastFee + RelayFee(r)

WormholeFee(r) == IF r.fast THEN 2 * MessageFee ELSE MessageFee

(* What is acquired: USDC with the fees on top of an exact-out amount, all  *)
(* that msg.value leaves after the Wormhole fee, or the amount of a token.  *)
Input(r) ==
  IF r.token = "usdc" THEN r.amount + IF r.exactIn THEN 0 ELSE TotalFee(r)
  ELSE IF r.token = "weth" THEN r.value - WormholeFee(r)
  ELSE r.amount

(* Seeded fault: the fees may take more than the amount.                    *)
FeesUncovered(r) == TRUE

(* InsufficientInputAmount                                                  *)
FeesCovered(r) == r.token = "usdc" /\ r.exactIn => r.amount >= TotalFee(r)

(* Seeded fault: the fees are not added to the limit of the swap.           *)
UsdcLimitWithoutFees(r) == r.swap.limit

(* The output asked of the swap leaves the specified amount after the fees. *)
UsdcLimit(r) == r.swap.limit + TotalFee(r)

(* msg.value and the input are acquired; native input is wrapped.           *)
Acquired(bal, caller, r) ==
  LET paid == Move(bal, caller, This, "eth", r.value) IN
  IF r.token = "weth"
  THEN Add(Add(paid, This, "eth", -Input(r)), This, "weth", Input(r))
  ELSE Move(paid, caller, This, r.token, Input(r))

(* initiate up to its swap, or up to the order if the input is USDC.        *)
Initiate(caller, r) ==
  LET after == WithBal(Acquired(world.bal, caller, r))
      frame == [op |-> "initiate", pc |-> "order", id |-> r, caller |-> caller,
                exactIn |-> r.exactIn, src |-> r.token, dst |-> "usdc",
                in |-> Input(r), out |-> UsdcLimit(r), type |-> r.swap.type,
                before |-> 0, got |-> 0, fee |-> RelayFee(r), dropoff |-> 0,
                token |-> "usdc", amount |-> Input(r), lost |-> 0,
                override |-> None, entry |-> world, atCall |-> None]
  IN
  /\ MayCall
  /\ Len(world.orders) < MaxOrders
  /\ r.mode = "Relay" => quote # Disabled /\ quote <= r.maxFee
  /\ FeesCovered(r)
  /\ r.token = "weth" => r.value >= WormholeFee(r)
  /\ Has(caller, "eth", r.value)
  /\ r.token # "weth" => Has(caller, r.token, Input(r))
  /\ r.token # "usdc" => Swappable(r.swap)
  /\ world' = after
  /\ stack' = Append(stack, IF r.token = "usdc" THEN frame ELSE CallRouter(frame, after))
  /\ Fixed

(* Seeded fault: what an exact-out swap leaves is not returned.             *)
RefundNothing(frame, spent) == 0

(* The unspent input of an exact-out swap.                                  *)
Refund(frame, spent) == IF spent < frame.in THEN frame.in - spent ELSE 0

(* _swap returns to _acquireUsdc, which returns unspent tokens: control     *)
(* goes to the sender.  A difference below zero wraps to more USDC than     *)
(* there is, and the call reverts.  lost is history: the USDC that calls    *)
(* nested in the swap lost, and that its difference of balances lacks.      *)
InitiateSwapped ==
  LET result == SwapResult(Top)
      lost == IF Top.exactIn THEN Top.got - result ELSE 0
      back == IF Top.exactIn THEN 0 ELSE Refund(Top, result) IN
  /\ ~Quiet /\ Top.op = "initiate" /\ Top.pc = "routed"
  /\ Top.exactIn => result >= 0
  /\ Has(This, Top.src, back)
  /\ world' = [world EXCEPT
       !.bal = IF Top.src = "weth"
               THEN Move(Withdraw(@, back), This, Top.caller, "eth", back)
               ELSE Move(@, This, Top.caller, Top.src, back),
       !.voided = @ - lost]
  /\ SetTop([Top EXCEPT !.pc = IF back = 0 THEN "order" ELSE "refunded",
                        !.amount = IF Top.exactIn THEN result ELSE Top.out,
                        !.lost = lost])
  /\ Fixed

Refunded ==
  /\ ~Quiet /\ Top.pc = "refunded"
  /\ SetTop([Top EXCEPT !.pc = "order"])
  /\ UNCHANGED world /\ Fixed

(* The order is placed with the peer registered now; the liquidity layer    *)
(* insists on its Wormhole fee.                                             *)
PlaceOrder ==
  LET r == Top.id
      forwarded == IF r.token = "weth" THEN WormholeFee(r) ELSE r.value IN
  /\ ~Quiet /\ Top.pc = "order"
  /\ peer # NoPeer
  /\ forwarded = WormholeFee(r)
  /\ Has(This, "usdc", Top.amount) /\ Has(This, "eth", forwarded)
  /\ world' = [world EXCEPT
       !.bal = Add(Add(world.bal, This, "usdc", -Top.amount), This, "eth", -forwarded),
       !.orders = Append(@, [args |-> r, sender |-> Top.caller, amount |-> Top.amount,
                             fee |-> Top.fee, redeemer |-> peer, at |-> clock,
                             lost |-> Top.lost])]
  /\ stack' = Front(stack)
  /\ Fixed

------------------------------------------------------------------------------
(* A call that reverts: any check of it, anything it calls or its gas.      *)
Revert ==
  /\ ~Quiet
  /\ world' = Top.entry
  /\ stack' = Front(stack)
  /\ Fixed

------------------------------------------------------------------------------
(* The environment, between transactions                                    *)

(* A fill arrives: its order was placed on the other chain.                 *)
Arrive(f, fill) ==
  /\ Quiet /\ world.fills[f] = None
  /\ world' = [world EXCEPT !.fills[f] = fill]
  /\ UNCHANGED <<clock, peer, quote, stack, gifts, donated>>

Tick ==
  /\ Quiet /\ clock < MaxClock
  /\ clock' = clock + 1
  /\ UNCHANGED <<peer, quote, world, stack, gifts, donated>>

(* Tokens sent to the contract by mistake.                                  *)
Donate(u, a) ==
  /\ Quiet /\ Has(u, a, 1)
  /\ donated < MaxGifts
  /\ donated' = donated + 1
  /\ world' = WithBal(Move(world.bal, u, This, a, 1))
  /\ gifts' = [gifts EXCEPT ![a] = @ + 1]
  /\ UNCHANGED <<clock, peer, quote, stack>>

(* SweepTokens by the owner or the assistant, who is no user here.          *)
Sweep(a) ==
  /\ Quiet
  /\ world' = WithBal([world.bal EXCEPT ![This][a] = 0])
  /\ gifts' = [gifts EXCEPT ![a] = @ - world.bal[This][a]]
  /\ UNCHANGED <<clock, peer, quote, stack, donated>>

(* UpdatePeer and batchFeeUpdates.                                          *)
UpdatePeer(p, q) ==
  /\ Quiet
  /\ peer' = p /\ quote' = q
  /\ UNCHANGED <<clock, world, stack, gifts, donated>>

------------------------------------------------------------------------------
Calls ==
  \E u \in Users :
    \/ \E f \in Fills, override \in Overrides \cup {None} : Redeem(u, f, override)
    \/ \E r \in Requests : Initiate(u, r)

Swaps ==
  \/ \E spent \in 0 .. Funds, got \in 0 .. MaxOut : RouterSwaps(spent, got)
  \/ RedeemSwapped \/ RedeemSwapFails \/ InitiateSwapped \/ Refunded

Pays == DeliverEth \/ DeliverDropoff \/ DeliverToken \/ Return \/ PlaceOrder \/ Revert

Next ==
  \/ Calls \/ Swaps \/ Pays
  \/ \E f \in Fills, fill \in Incoming : Arrive(f, fill)
  \/ Tick
  \/ \E a \in Assets : Sweep(a) \/ \E u \in Users : Donate(u, a)
  \/ \E p \in Peers \cup {NoPeer}, q \in Quotes \cup {Disabled} : UpdatePeer(p, q)

Spec == Init /\ [][Next]_vars

------------------------------------------------------------------------------
(* Properties                                                               *)

Paid == {world.paid[f] : f \in {g \in Fills : world.paid[g] # None}}

(* Between transactions the contract holds exactly what was given to it:    *)
(* every call has passed on or returned all that it acquired, whatever was  *)
(* called in between.  The one exception is a swap that takes USDC for no   *)
(* output, which redeem pays again.                                         *)
KeepsNothing ==
  Quiet => \A a \in Assets :
    world.bal[This][a] + (IF a = "usdc" THEN world.voided ELSE 0) = gifts[a]

(* When control comes back to a call the contract can pay what the call     *)
(* still owes: the swap, the payment to the recipient, or the order and its *)
(* Wormhole fee, unless a swap took USDC for no output since it began.      *)
(* (Never revert on a failed swap: at worst the recipient receives USDC.)   *)
Backed ==
  ~Quiet =>
    /\ Top.pc = "deliver" => Has(This, "eth", Top.dropoff)
    /\ Top.pc = "order" =>
         Has(This, "eth", IF Top.src = "weth" THEN WormholeFee(Top.id) ELSE Top.id.value)
    /\ world.voided = Top.entry.voided =>
         /\ Top.pc = "router" => Has(This, Top.src, Top.in)
         /\ Top.pc \in {"deliver", "dropped"} => Has(This, Top.token, Top.amount)
         /\ Top.pc = "order" => Has(This, "usdc", Top.amount)

(* A redeemed fill has paid its recipient the whole amount in USDC, or the  *)
(* whole output of a swap within the limit and deadline of the message or   *)
(* of his own params; only a relayer was paid the fee, which the fill must   *)
(* cover, for the full dropoff, and a payload went to its recipient alone.  *)
FillPaid ==
  \A p \in Paid :
    LET relays == Relays(p.by, p.fill)
        o == IF p.override = None THEN p.fill.output ELSE p.override IN
    /\ p.fee = IF relays THEN p.fill.fee ELSE 0
    /\ p.fee <= p.fill.amount
    /\ p.dropoff = IF relays THEN p.fill.dropoff ELSE 0
    /\ p.override # None \/ p.fill.mode = "Payload" => p.by = p.fill.recipient
    /\ IF p.token = "usdc" THEN p.amount = p.fill.amount - p.fee
       ELSE /\ p.token = o.token /\ p.amount = p.got /\ p.amount >= o.limit
            /\ o.deadline = 0 \/ p.at <= o.deadline

(* An order leaves what its sender specified after the highest fees that    *)
(* the liquidity layer and the relayer may take, the relayer's within his   *)
(* maximum, and was swapped within its deadline.  All it may lack is what   *)
(* calls nested in its swap lost to swaps without output.                   *)
OrderHonoured ==
  \A i \in 1 .. Len(world.orders) :
    LET o == world.orders[i]
        r == o.args
        promised == IF r.token # "usdc" THEN r.swap.limit
                    ELSE IF r.exactIn THEN 0 ELSE r.amount IN
    /\ o.amount + o.lost >= o.fee + r.fastFee + promised
    /\ r.token = "usdc" /\ r.exactIn => o.amount = r.amount
    /\ r.mode = "Relay" => o.fee <= r.maxFee
    /\ r.token # "usdc" /\ r.swap.deadline # 0 => o.at <= r.swap.deadline

(* The recipient can redeem his fill as USDC at every moment between        *)
(* transactions, past its deadlines, without a fee and with no ether.       *)
RecipientCanRedeem ==
  Quiet => \A f \in Fills :
    Pending(f) /\ world.fills[f].sender = peer =>
      \E o \in Overrides :
        o.token = "usdc" /\ ENABLED Redeem(world.fills[f].recipient, f, o)
=============================================================================
