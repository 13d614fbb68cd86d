------------------------- MODULE EvmSwapLayer_proof -------------------------
(***************************************************************************)
(* Proofs about EvmSwapLayer: whatever is called while a call is in        *)
(* progress, fills pay what they should, orders carry what was asked, and  *)
(* the contract keeps nothing but what was given to it.                    *)
(*                                                                         *)
(* The invariant is about every frame of the stack at once.  The world a   *)
(* frame finds when control comes back to it is the entry of the frame     *)
(* above it, or the present one: between that world and the frame's own    *)
(* entry the contract's balances differ by exactly what the frame holds.   *)
(* A call that returns, and one that reverts, leaves this true of the      *)
(* frame below it, so no sum over the stack is needed.                     *)
(***************************************************************************)
EXTENDS EvmSwapLayer, SequenceTheorems, TLAPS

USE InputsAssumption, BoundsAssumption, DistinctAssumption

------------------------------------------------------------------------------
(* Types                                                                    *)

Tokens == {"usdc", "weth", "other"}
Pcs == Outside \cup {"deliver", "order"}

PaidRecord ==
  [fill : Incoming, by : Users, override : Overrides \cup {None}, fee : Nat,
   token : Tokens, amount : Nat, dropoff : Nat, got : Nat, at : Nat]

OrderRecord ==
  [args : Requests, sender : Users, amount : Nat, fee : Nat, redeemer : Peers,
   at : Nat, lost : Nat]

World ==
  [bal : [Holders -> [Assets -> Nat]],
   fills : [Fills -> Incoming \cup {None, Redeemed}],
   orders : Seq(OrderRecord),
   paid : [Fills -> PaidRecord \cup {None}],
   voided : Nat]

Frame ==
  [op : {"redeem", "initiate"}, pc : Pcs, id : Fills \cup Requests, caller : Users,
   exactIn : BOOLEAN, src : Tokens, dst : Tokens, in : Nat, out : Nat,
   type : SwapTypes, before : Nat, got : Nat, fee : Nat, dropoff : Nat,
   token : Tokens, amount : Nat, lost : Nat,
   override : Overrides \cup {None}, entry : World, atCall : World \cup {None}]

------------------------------------------------------------------------------
(* What was paid and ordered in a world.                                    *)

PaidOK(p) ==
  LET relays == Relays(p.by, p.fill)
      o == IF p.override = None THEN p.fill.output ELSE p.override IN
  /\ p.fee = IF relays THEN p.fill.fee ELSE 0
  /\ p.fee <= p.fill.amount
  /\ p.dropoff = IF relays THEN p.fill.dropoff ELSE 0
  /\ p.override # None \/ p.fill.mode = "Payload" => p.by = p.fill.recipient
  /\ IF p.token = "usdc" THEN p.amount = p.fill.amount - p.fee
     ELSE /\ p.token = o.token /\ p.amount = p.got /\ p.amount >= o.limit
          /\ o.deadline = 0 \/ p.at <= o.deadline

OrderOK(o) ==
  LET r == o.args
      promised == IF r.token # "usdc" THEN r.swap.limit
                  ELSE IF r.exactIn THEN 0 ELSE r.amount IN
  /\ o.amount + o.lost >= o.fee + r.fastFee + promised
  /\ r.token = "usdc" /\ r.exactIn => o.amount = r.amount
  /\ r.mode = "Relay" => o.fee <= r.maxFee
  /\ r.token # "usdc" /\ r.swap.deadline # 0 => o.at <= r.swap.deadline

WorldOK(w) ==
  /\ w \in World
  /\ \A f \in Fills : w.paid[f] # None => PaidOK(w.paid[f])
  /\ \A i \in 1 .. Len(w.orders) : OrderOK(w.orders[i])

------------------------------------------------------------------------------
(* The contract's balance of a, what swaps took for no output included.     *)
Kept(w, a) == w.bal[This][a] + IF a = "usdc" THEN w.voided ELSE 0

(* What a frame holds of a when it has called the router.                   *)
HeldAtCall(fr, a) ==
  (IF a = fr.src THEN fr.in ELSE 0)
  + (IF a # "eth" THEN 0 ELSE IF fr.op = "redeem" THEN fr.dropoff
     ELSE IF fr.src = "weth" THEN WormholeFee(fr.id) ELSE fr.id.value)

(* What it holds of a at every point.                                       *)
Held(fr, a) ==
  CASE fr.pc = "router" -> HeldAtCall(fr, a)
    [] fr.pc = "routed" ->
         HeldAtCall(fr, a)
         - (IF a = fr.src THEN IF fr.exactIn THEN fr.in ELSE fr.got ELSE 0)
         + (IF a = fr.dst THEN IF fr.exactIn THEN fr.got ELSE fr.out ELSE 0)
    [] fr.pc = "deliver" ->
         (IF a = fr.token THEN fr.amount ELSE 0) + (IF a = "eth" THEN fr.dropoff ELSE 0)
    [] fr.pc = "dropped" -> IF a = fr.token THEN fr.amount ELSE 0
    [] fr.pc = "sent" -> 0
    [] fr.pc \in {"refunded", "order"} ->
         (IF a = "usdc" THEN fr.amount ELSE 0)
         + (IF a # "eth" THEN 0
            ELSE IF fr.src = "weth" THEN WormholeFee(fr.id) ELSE fr.id.value)

------------------------------------------------------------------------------
(* A swap that may still be made at the time now.                           *)
Due(o, now) == (o.deadline = 0 \/ o.deadline >= now) /\ o.type \in Routers

(* A redeem in progress remembers its fill and caller.                      *)
RedeemOK(fr, now) ==
  LET fill == fr.entry.fills[fr.id]
      relays == Relays(fr.caller, fill)
      o == IF fr.override = None THEN fill.output ELSE fr.override IN
  /\ fr.id \in Fills /\ fill \in Incoming
  /\ fr.pc \in {"router", "routed", "deliver", "dropped", "sent"}
  /\ fr.exactIn /\ fr.src = "usdc" /\ fr.dst = o.token /\ fr.type = o.type
  /\ fr.out = o.limit /\ fr.in = fill.amount - fr.fee
  /\ fr.fee = IF relays THEN fill.fee ELSE 0
  /\ fr.dropoff = IF relays THEN fill.dropoff ELSE 0
  /\ fr.override # None \/ fill.mode = "Payload" => fr.caller = fill.recipient
  /\ fr.pc \in {"router", "routed"} => fr.token = "usdc"
  /\ fr.pc \in {"router", "routed"} \/ fr.token # "usdc" => fr.dst # "usdc" /\ Due(o, now)
  /\ IF fr.token = "usdc" THEN fr.amount = fr.in
     ELSE fr.token = fr.dst /\ fr.amount = fr.got /\ fr.got >= fr.out

(* An initiate in progress remembers what it was asked for.                 *)
InitiateOK(fr, now) ==
  LET r == fr.id IN
  /\ r \in Requests
  /\ fr.pc \in {"router", "routed", "refunded", "order"}
  /\ fr.exactIn = r.exactIn /\ fr.src = r.token /\ fr.dst = "usdc"
  /\ fr.type = r.swap.type
  /\ fr.out >= fr.fee + r.fastFee + r.swap.limit
  /\ r.mode = "Relay" => fr.fee <= r.maxFee
  /\ fr.pc \in {"router", "routed"} => r.token # "usdc"
  /\ r.token # "usdc" => Due(r.swap, now)
  /\ fr.pc \in {"refunded", "order"} =>
       IF r.token # "usdc" THEN fr.amount + fr.lost >= fr.out
       ELSE IF r.exactIn THEN fr.amount = r.amount /\ r.amount >= fr.fee + r.fastFee
       ELSE fr.amount = r.amount + fr.fee + r.fastFee

(* A call of a router remembers the world it was made in.                   *)
AtCallOK(fr) ==
  /\ WorldOK(fr.atCall)
  /\ fr.before = fr.atCall.bal[This][Unknown(fr)]
  /\ \A a \in Assets : Kept(fr.atCall, a) = Kept(fr.entry, a) + HeldAtCall(fr, a)
  /\ fr.atCall.voided >= fr.entry.voided
  /\ fr.pc = "routed" => IF fr.exactIn THEN fr.got >= fr.out ELSE fr.got <= fr.in

FrameOK(fr, now) ==
  /\ fr \in Frame
  /\ WorldOK(fr.entry)
  /\ fr.op = "redeem" => RedeemOK(fr, now)
  /\ fr.op = "initiate" => InitiateOK(fr, now)
  /\ fr.pc \in {"router", "routed"} => AtCallOK(fr)

(* The world w in which control comes back to fr.                           *)
Between(fr, w) ==
  /\ \A a \in Assets : Kept(w, a) = Kept(fr.entry, a) + Held(fr, a)
  /\ w.voided >= fr.entry.voided
  /\ fr.pc \in {"router", "routed"} => w.voided >= fr.atCall.voided

(* That world, for the frame i of the stack.                                *)
After(i) == IF i = Len(stack) THEN world ELSE stack[i + 1].entry

(* The world in which the first call of the transaction was made.           *)
Bottom == IF stack = <<>> THEN world ELSE stack[1].entry

CallsInv ==
  /\ clock \in Nat /\ peer \in Peers \cup {NoPeer} /\ quote \in Quotes \cup {Disabled}
  /\ gifts \in [Assets -> Int]
  /\ WorldOK(world)
  /\ stack \in Seq(Frame)
  /\ \A i \in 1 .. Len(stack) : FrameOK(stack[i], clock) /\ Between(stack[i], After(i))
  /\ \A a \in Assets : Kept(Bottom, a) = gifts[a]

------------------------------------------------------------------------------
(* The ledger.                                                              *)
Ledger == [Holders -> [Assets -> Nat]]

LEMMA AddIs ==
  ASSUME NEW b \in Ledger, NEW h \in Holders, NEW a \in Assets, NEW n \in Int,
         b[h][a] + n >= 0
  PROVE  /\ Add(b, h, a, n) \in Ledger
         /\ Add(b, h, a, n)[h][a] = b[h][a] + n
         /\ \A c \in Assets : c # a => Add(b, h, a, n)[h][c] = b[h][c]
         /\ \A g \in Holders : g # h => Add(b, h, a, n)[g] = b[g]
<1>1. b[h][a] + n \in Nat
  BY DEF Ledger
<1>. QED BY <1>1 DEF Add, Ledger

LEMMA MoveIs ==
  ASSUME NEW b \in Ledger, NEW g \in Holders, NEW h \in Holders, g # h,
         NEW a \in Assets, NEW n \in Nat, b[g][a] >= n
  PROVE  /\ Move(b, g, h, a, n) \in Ledger
         /\ Move(b, g, h, a, n)[g][a] = b[g][a] - n
         /\ Move(b, g, h, a, n)[h][a] = b[h][a] + n
         /\ \A c \in Assets : c # a => /\ Move(b, g, h, a, n)[g][c] = b[g][c]
                                       /\ Move(b, g, h, a, n)[h][c] = b[h][c]
         /\ \A k \in Holders : k # g /\ k # h => Move(b, g, h, a, n)[k] = b[k]
<1>1. b[g][a] \in Nat /\ b[h][a] \in Nat
  BY DEF Ledger
<1>2. PICK c \in Ledger : c = Add(b, g, a, -n)
  BY <1>1, AddIs
<1>3. c[h][a] = b[h][a]
  BY <1>1, <1>2, AddIs
<1>4. Move(b, g, h, a, n) = Add(c, h, a, n)
  BY <1>2 DEF Move
<1>. QED BY <1>1, <1>2, <1>3, <1>4, AddIs

LEMMA WithdrawIs ==
  ASSUME NEW b \in Ledger, NEW n \in Nat, b[This]["weth"] >= n
  PROVE  /\ Withdraw(b, n) \in Ledger
         /\ Withdraw(b, n)[This]["weth"] = b[This]["weth"] - n
         /\ Withdraw(b, n)[This]["eth"] = b[This]["eth"] + n
         /\ Withdraw(b, n)[This]["usdc"] = b[This]["usdc"]
         /\ Withdraw(b, n)[This]["other"] = b[This]["other"]
         /\ \A k \in Holders : k # This => Withdraw(b, n)[k] = b[k]
<1>1. b[This]["weth"] \in Nat /\ b[This]["eth"] \in Nat /\ This \in Holders
  BY DEF Ledger, Holders, Assets
<1>2. PICK c \in Ledger :
        /\ c = Add(b, This, "weth", -n)
        /\ c[This]["weth"] = b[This]["weth"] - n
        /\ \A a \in Assets : a # "weth" => c[This][a] = b[This][a]
        /\ \A k \in Holders : k # This => c[k] = b[k]
  <2>1. "weth" \in Assets /\ -n \in Int /\ b[This]["weth"] + (-n) >= 0
    BY <1>1 DEF Assets
  <2>2. PICK m \in Int : m = -n
    BY <2>1
  <2>3. PICK c : c = Add(b, This, "weth", m)
    OBVIOUS
  <2>4. /\ c \in Ledger /\ c[This]["weth"] = b[This]["weth"] + m
        /\ \A a \in Assets : a # "weth" => c[This][a] = b[This][a]
        /\ \A k \in Holders : k # This => c[k] = b[k]
    BY <1>1, <2>1, <2>2, <2>3, AddIs
  <2>5. b[This]["weth"] + m = b[This]["weth"] - n
    BY <1>1, <2>2
  <2>. QED BY <2>2, <2>3, <2>4, <2>5
<1>4. Withdraw(b, n) = Add(c, This, "eth", n)
  BY <1>2 DEF Withdraw
<1>5. c[This]["eth"] = b[This]["eth"] /\ c[This]["eth"] + n >= 0
  BY <1>1, <1>2 DEF Assets
<1>. QED BY <1>1, <1>2, <1>4, <1>5, AddIs DEF Assets

(* A world with other balances, or with more or less voided, is as good.    *)
LEMMA VoidedSet ==
  ASSUME NEW w, WorldOK(w), NEW v \in Nat, NEW u, u = [w EXCEPT !.voided = v]
  PROVE  /\ WorldOK(u) /\ u.bal = w.bal /\ u.voided = v
         /\ u.fills = w.fills /\ u.orders = w.orders /\ u.paid = w.paid
<1>1. w \in World
  BY DEF WorldOK
<1>2. /\ u.bal = w.bal /\ u.voided = v
      /\ u.fills = w.fills /\ u.orders = w.orders /\ u.paid = w.paid
  BY <1>1 DEF World
<1>3. u \in World
  BY <1>1 DEF World
<1>. QED BY <1>2, <1>3 DEF WorldOK

LEMMA BalSet ==
  ASSUME NEW w, WorldOK(w), NEW b \in Ledger, NEW u, u = [w EXCEPT !.bal = b]
  PROVE  /\ WorldOK(u) /\ u.bal = b /\ u.voided = w.voided
         /\ u.fills = w.fills /\ u.orders = w.orders /\ u.paid = w.paid
<1>1. w \in World
  BY DEF WorldOK
<1>2. /\ u.bal = b /\ u.voided = w.voided
      /\ u.fills = w.fills /\ u.orders = w.orders /\ u.paid = w.paid
  BY <1>1 DEF World
<1>3. u \in World
  BY <1>1 DEF World, Ledger
<1>. QED BY <1>2, <1>3 DEF WorldOK

------------------------------------------------------------------------------
(* The stack: a call begins, goes on, or ends.                              *)
LEMMA TopIs ==
  ASSUME CallsInv, ~Quiet
  PROVE  /\ Len(stack) \in Nat \ {0} /\ Top = stack[Len(stack)]
         /\ Top \in Frame /\ FrameOK(Top, clock) /\ Between(Top, world)
<1>1. stack \in Seq(Frame) /\ stack # <<>>
  BY DEF CallsInv, Quiet
<1>2. Len(stack) \in Nat \ {0}
  BY <1>1
<1>. QED BY <1>1, <1>2 DEF Top, Last, CallsInv, After, FrameOK

LEMMA PushOK ==
  ASSUME CallsInv, Fixed, NEW u, FrameOK(u, clock), u.entry = world,
         stack' = Append(stack, u), WorldOK(world'), Between(u, world')
  PROVE  CallsInv'
<1>1. stack \in Seq(Frame) /\ u \in Frame /\ Len(stack) \in Nat
  BY DEF CallsInv, FrameOK
<1>2. /\ stack' \in Seq(Frame) /\ Len(stack') = Len(stack) + 1 /\ stack' # <<>>
      /\ stack'[Len(stack) + 1] = u
      /\ \A i \in 1 .. Len(stack) : stack'[i] = stack[i]
  BY <1>1
<1>3. ASSUME NEW i \in 1 .. Len(stack')
      PROVE  FrameOK(stack'[i], clock) /\ Between(stack'[i], After(i)')
  <2>1. CASE i = Len(stack) + 1
    BY <1>2, <2>1 DEF After
  <2>2. CASE i \in 1 .. Len(stack)
    <3>1. After(i)' = After(i)
      BY <1>1, <1>2, <2>2 DEF After
    <3>. QED BY <1>2, <2>2, <3>1 DEF CallsInv
  <2>. QED BY <1>1, <1>2, <2>1, <2>2
<1>4. Bottom' = Bottom
  BY <1>1, <1>2 DEF Bottom
<1>. QED BY <1>2, <1>3, <1>4 DEF CallsInv, Fixed

LEMMA SetOK ==
  ASSUME CallsInv, ~Quiet, Fixed, NEW u, FrameOK(u, clock), u.entry = Top.entry,
         SetTop(u), WorldOK(world'), Between(u, world')
  PROVE  CallsInv'
<1> DEFINE n == Len(stack)
<1>1. stack \in Seq(Frame) /\ u \in Frame /\ n \in Nat \ {0} /\ Top = stack[n]
  BY TopIs DEF CallsInv, FrameOK
<1>2. /\ stack' \in Seq(Frame) /\ Len(stack') = n /\ stack' # <<>>
      /\ stack'[n] = u
      /\ \A i \in 1 .. n : i # n => stack'[i] = stack[i]
  BY <1>1 DEF SetTop
<1>3. ASSUME NEW i \in 1 .. Len(stack')
      PROVE  FrameOK(stack'[i], clock) /\ Between(stack'[i], After(i)')
  <2>1. CASE i = n
    BY <1>2, <2>1 DEF After
  <2>2. CASE i # n
    <3>1. i + 1 \in 1 .. n /\ stack'[i + 1].entry = stack[i + 1].entry
      BY <1>1, <1>2, <2>2
    <3>2. After(i)' = After(i)
      BY <1>2, <2>2, <3>1 DEF After
    <3>. QED BY <1>2, <2>2, <3>2 DEF CallsInv
  <2>. QED BY <2>1, <2>2
<1>4. stack'[1].entry = stack[1].entry
  BY <1>1, <1>2
<1>5. Bottom' = Bottom
  BY <1>1, <1>2, <1>4 DEF Bottom, Quiet
<1>. QED BY <1>2, <1>3, <1>5 DEF CallsInv, Fixed

LEMMA PopOK ==
  ASSUME CallsInv, ~Quiet, Fixed, stack' = Front(stack), WorldOK(world'),
         \A a \in Assets : Kept(world', a) = Kept(Top.entry, a),
         world'.voided >= Top.entry.voided
  PROVE  CallsInv'
<1>1. PICK n \in Nat \ {0} : n = Len(stack) /\ Top = stack[n] /\ stack \in Seq(Frame)
  BY TopIs DEF CallsInv
<1>2. /\ stack' \in Seq(Frame) /\ Len(stack') = n - 1
      /\ \A i \in 1 .. n - 1 : stack'[i] = stack[i]
  <2>1. stack' = SubSeq(stack, 1, n - 1)
    BY <1>1 DEF Front
  <2>2. n - 1 \in Int /\ \A i \in 1 .. n - 1 : stack[i] \in Frame
    BY <1>1
  <2>3. /\ SubSeq(stack, 1, n - 1) \in Seq(Frame)
        /\ Len(SubSeq(stack, 1, n - 1)) = IF 1 <= n - 1 THEN n - 1 - 1 + 1 ELSE 0
        /\ \A i \in 1 .. n - 1 - 1 + 1 : SubSeq(stack, 1, n - 1)[i] = stack[1 + i - 1]
    BY <1>1, <2>2, SubSeqProperties
  <2>4. n - 1 - 1 + 1 = n - 1 /\ \A i \in 1 .. n - 1 : 1 + i - 1 = i
    BY <1>1
  <2>. QED BY <1>1, <2>1, <2>3, <2>4
<1>3. ASSUME NEW i \in 1 .. Len(stack')
      PROVE  FrameOK(stack'[i], clock) /\ Between(stack'[i], After(i)')
  <2>1. /\ i \in 1 .. n - 1 /\ i \in 1 .. n /\ i # n /\ stack'[i] = stack[i]
        /\ i + 1 \in 1 .. n
    <3>1. Len(stack') = n - 1 /\ \A k \in 1 .. n - 1 : stack'[k] = stack[k]
      BY <1>2
    <3>2. i \in 1 .. n - 1
      BY <3>1
    <3>. QED BY <3>1, <3>2
  <2>2. FrameOK(stack[i], clock) /\ Between(stack[i], stack[i + 1].entry)
    <3>1. i \in 1 .. Len(stack) /\ i # Len(stack)
      BY <1>1, <2>1
    <3>. QED BY <3>1 DEF CallsInv, After
  <2>3. CASE i = n - 1
    <3>1. Between(stack[i], Top.entry) /\ After(i)' = world'
      BY <1>1, <1>2, <2>2, <2>3 DEF After
    <3>2. Between(stack[i], world')
      <4>1. /\ Top.entry.voided \in Int /\ world'.voided \in Int
            /\ stack[i].entry.voided \in Int
        BY <2>2, TopIs DEF FrameOK, WorldOK, World
      <4>2. stack[i].pc \in {"router", "routed"} => stack[i].atCall.voided \in Int
        BY <2>2 DEF FrameOK, AtCallOK, WorldOK, World
      <4>. QED BY <3>1, <4>1, <4>2 DEF Between
    <3>. QED BY <2>1, <2>2, <3>1, <3>2
  <2>4. CASE i # n - 1
    <3>1. stack'[i + 1] = stack[i + 1] /\ i # Len(stack')
      <4>1. Len(stack') = n - 1 /\ \A k \in 1 .. n - 1 : stack'[k] = stack[k]
        BY <1>2
      <4>2. i + 1 \in 1 .. n - 1
        BY <2>1, <2>4
      <4>. QED BY <2>4, <4>1, <4>2
    <3>2. After(i)' = stack[i + 1].entry
      BY <3>1 DEF After
    <3>. QED BY <2>1, <2>2, <3>2
  <2>. QED BY <2>3, <2>4
<1>4. \A a \in Assets : Kept(Bottom', a) = Kept(Bottom, a)
  <2>1. CASE n = 1
    BY <1>1, <1>2, <2>1 DEF Bottom, Quiet
  <2>2. CASE n # 1
    BY <1>1, <1>2, <2>2 DEF Bottom, Quiet
  <2>. QED BY <2>1, <2>2
<1>. QED BY <1>2, <1>3, <1>4 DEF CallsInv, Fixed

------------------------------------------------------------------------------
(* Frames: what a step of a call changes, and what it leaves.               *)
Same(u, fr) ==
  /\ u.op = fr.op /\ u.id = fr.id /\ u.caller = fr.caller /\ u.exactIn = fr.exactIn
  /\ u.src = fr.src /\ u.dst = fr.dst /\ u.in = fr.in /\ u.out = fr.out
  /\ u.type = fr.type /\ u.fee = fr.fee /\ u.dropoff = fr.dropoff
  /\ u.override = fr.override /\ u.entry = fr.entry

LEMMA CallSet ==
  ASSUME NEW fr \in Frame, NEW w \in World, NEW u, u = CallRouter(fr, w)
  PROVE  /\ u \in Frame /\ Same(u, fr) /\ u.pc = "router" /\ u.got = fr.got
         /\ u.token = fr.token /\ u.amount = fr.amount /\ u.lost = fr.lost
         /\ u.before = w.bal[This][Unknown(fr)] /\ u.atCall = w
<1>1. PICK b \in Nat : b = w.bal[This][Unknown(fr)]
  <2>1. Unknown(fr) \in Assets
    BY DEF Unknown, Frame, Tokens, Assets
  <2>. QED BY <2>1 DEF World, Holders
<1>2. u = [fr EXCEPT !.pc = "router", !.before = b, !.atCall = w]
  BY <1>1 DEF CallRouter
<1>. QED BY <1>1, <1>2 DEF Frame, Same, Pcs, Outside

(* What is kept in a world, asset by asset.                                 *)
LEMMA KeptIs ==
  ASSUME NEW w, WorldOK(w)
  PROVE  /\ w.bal \in Ledger /\ w.voided \in Nat /\ This \in Holders
         /\ \A a \in Assets : w.bal[This][a] \in Nat
         /\ \A a \in Assets : a # "usdc" => Kept(w, a) = w.bal[This][a]
         /\ Kept(w, "usdc") = w.bal[This]["usdc"] + w.voided
BY DEF WorldOK, World, Ledger, Kept, Holders, Assets

(* Where the frames of each kind are, and what they swap.                   *)
LEMMA KindsAre ==
  ASSUME NEW fr, NEW now, FrameOK(fr, now)
  PROVE  /\ fr.op \in {"redeem", "initiate"}
         /\ fr.src \in Assets /\ fr.dst \in Assets /\ fr.src # "eth" /\ fr.dst # "eth"
         /\ fr.token \in Tokens /\ fr.token # "eth" /\ fr.token \in Assets
         /\ fr.pc \in {"router", "routed"} => fr.src # fr.dst /\ fr.type \in Routers
         /\ fr.pc \in {"deliver", "dropped", "sent"} => fr.op = "redeem"
         /\ fr.pc \in {"refunded", "order"} => fr.op = "initiate"
<1>1. fr \in Frame
  BY DEF FrameOK
<1>2. fr.op = "redeem" => RedeemOK(fr, now)
  BY DEF FrameOK
<1>3. fr.op = "initiate" => InitiateOK(fr, now)
  BY DEF FrameOK
<1>4. /\ fr.op \in {"redeem", "initiate"}
      /\ fr.src \in Tokens /\ fr.dst \in Tokens /\ fr.token \in Tokens
  BY <1>1 DEF Frame
<1>5. fr.pc \in {"deliver", "dropped", "sent"} => fr.op = "redeem"
  BY <1>3, <1>4 DEF InitiateOK
<1>6. fr.pc \in {"refunded", "order"} => fr.op = "initiate"
  BY <1>2, <1>4 DEF RedeemOK
<1>7. fr.pc \in {"router", "routed"} => fr.src # fr.dst /\ fr.type \in Routers
  <2>1. CASE fr.op = "redeem"
    <3>1. PICK o : o = IF fr.override = None THEN fr.entry.fills[fr.id].output
                       ELSE fr.override
      OBVIOUS
    <3>2. /\ fr.src = "usdc" /\ fr.type = o.type
          /\ fr.pc \in {"router", "routed"} => fr.dst # "usdc" /\ Due(o, now)
      BY <1>2, <2>1, <3>1 DEF RedeemOK
    <3>. QED BY <3>2 DEF Due
  <2>2. CASE fr.op = "initiate"
    BY <1>3, <2>2 DEF InitiateOK, Due
  <2>. QED BY <1>4, <2>1, <2>2
<1>. QED BY <1>4, <1>5, <1>6, <1>7 DEF Tokens, Assets

LEMMA SameHeld ==
  ASSUME NEW fr, NEW u, Same(u, fr)
  PROVE  Unknown(u) = Unknown(fr) /\ \A a : HeldAtCall(u, a) = HeldAtCall(fr, a)
BY DEF Same, Unknown, HeldAtCall

LEMMA HeldAtCallType ==
  ASSUME NEW fr, NEW now, FrameOK(fr, now)
  PROVE  /\ fr.in \in Nat /\ fr.out \in Nat /\ fr.got \in Nat /\ fr.amount \in Nat
         /\ fr.dropoff \in Nat /\ fr.lost \in Nat /\ fr.fee \in Nat
         /\ fr.exactIn \in BOOLEAN
         /\ \A a \in Assets : HeldAtCall(fr, a) \in Nat
<1>1. /\ fr.in \in Nat /\ fr.out \in Nat /\ fr.got \in Nat /\ fr.amount \in Nat
      /\ fr.dropoff \in Nat /\ fr.lost \in Nat /\ fr.fee \in Nat
      /\ fr.exactIn \in BOOLEAN /\ fr.op \in {"redeem", "initiate"}
  BY DEF FrameOK, Frame
<1>2. fr.op = "initiate" => WormholeFee(fr.id) \in Nat /\ fr.id.value \in Nat
  <2>1. MessageFee \in Nat
    OBVIOUS
  <2>2. fr.op = "initiate" => fr.id \in Request
    BY DEF FrameOK, InitiateOK
  <2>. QED BY <2>1, <2>2 DEF WormholeFee, Request
<1>3. ASSUME NEW a \in Assets PROVE HeldAtCall(fr, a) \in Nat
  BY <1>1, <1>2 DEF HeldAtCall
<1>. QED BY <1>1, <1>3

(* A redeem or an initiate that goes on is still a faithful one.            *)
LEMMA RedeemGoesOn ==
  ASSUME NEW fr, NEW now, RedeemOK(fr, now), NEW u, Same(u, fr),
         u.pc \in {"routed", "deliver", "dropped", "sent"},
         u.pc = "routed" => fr.pc = "router" /\ u.token = "usdc",
         IF u.token = "usdc" THEN u.amount = u.in
         ELSE /\ u.token = u.dst /\ u.amount = u.got /\ u.got >= u.out
              /\ fr.pc = "routed" \/ fr.token # "usdc"
  PROVE  RedeemOK(u, now)
BY DEF RedeemOK, Same

LEMMA InitiateGoesOn ==
  ASSUME NEW fr, NEW now, InitiateOK(fr, now), NEW u, Same(u, fr),
         u.pc \in {"routed", "refunded", "order"},
         u.pc = "routed" => fr.pc = "router",
         u.pc \in {"refunded", "order"} =>
           \/ fr.pc = "routed" /\ u.amount + u.lost >= u.out
           \/ fr.pc = "refunded" /\ u.amount = fr.amount /\ u.lost = fr.lost
  PROVE  InitiateOK(u, now)
BY DEF InitiateOK, Same

(* The router makes the exchange.                                           *)
LEMMA RouterSwapsKeeps ==
  ASSUME CallsInv, NEW spent \in Nat, NEW got \in Nat, RouterSwaps(spent, got)
  PROVE  CallsInv'
<1>1. ~Quiet /\ Top.pc = "router" /\ Fixed
  BY DEF RouterSwaps
<1>2. PICK fr : fr = Top
  OBVIOUS
<1>3. fr \in Frame /\ FrameOK(fr, clock) /\ Between(fr, world) /\ WorldOK(world)
  BY <1>1, <1>2, TopIs DEF CallsInv
<1>4. PICK g \in Nat : g = IF fr.exactIn THEN got ELSE spent
  OBVIOUS
<1>5. PICK u : u = [fr EXCEPT !.pc = "routed", !.got = g]
  OBVIOUS
<1>6. /\ u \in Frame /\ Same(u, fr) /\ u.pc = "routed" /\ u.got = g
      /\ u.token = fr.token /\ u.amount = fr.amount /\ u.lost = fr.lost
      /\ u.before = fr.before /\ u.atCall = fr.atCall
  <2>1. "routed" \in Pcs
    BY DEF Pcs, Outside
  <2>. QED BY <1>3, <1>4, <1>5, <2>1 DEF Frame, Same
<1>7. SetTop(u)
  BY <1>2, <1>4, <1>5 DEF RouterSwaps
<1>8. /\ IF fr.exactIn THEN spent = fr.in /\ got >= fr.out ELSE spent \in 0 .. fr.in /\ got = fr.out
      /\ world.bal[This][fr.src] >= spent
      /\ world' = [world EXCEPT !.bal =
                     Add(Add(world.bal, This, fr.src, -spent), This, fr.dst, got)]
  BY <1>2 DEF RouterSwaps, Has, WithBal
<1>9. /\ fr.src # fr.dst /\ fr.src \in Assets /\ fr.dst \in Assets
      /\ fr.src # "eth" /\ fr.dst # "eth" /\ fr.type \in Routers
      /\ fr.op \in {"redeem", "initiate"} /\ fr.pc = "router"
  BY <1>1, <1>2, <1>3, KindsAre
<1>10. PICK b \in Ledger :
         /\ b = Add(Add(world.bal, This, fr.src, -spent), This, fr.dst, got)
         /\ b[This][fr.src] = world.bal[This][fr.src] - spent
         /\ b[This][fr.dst] = world.bal[This][fr.dst] + got
         /\ \A a \in Assets : a # fr.src /\ a # fr.dst => b[This][a] = world.bal[This][a]
  <2>1. /\ world.bal \in Ledger /\ This \in Holders
        /\ \A a \in Assets : world.bal[This][a] \in Nat
    BY <1>3, KeptIs
  <2>2. PICK c \in Ledger : c = Add(world.bal, This, fr.src, -spent)
    BY <1>8, <1>9, <2>1, AddIs
  <2>3. /\ c[This][fr.src] = world.bal[This][fr.src] - spent
        /\ \A a \in Assets : a # fr.src => c[This][a] = world.bal[This][a]
    BY <1>8, <1>9, <2>1, <2>2, AddIs
  <2>4. c[This][fr.dst] + got >= 0
    BY <1>9, <2>1, <2>3
  <2>5. PICK b \in Ledger : b = Add(c, This, fr.dst, got)
    BY <1>9, <2>1, <2>2, <2>4, AddIs
  <2>6. /\ b[This][fr.dst] = c[This][fr.dst] + got
        /\ \A a \in Assets : a # fr.dst => b[This][a] = c[This][a]
    BY <1>9, <2>1, <2>2, <2>4, <2>5, AddIs
  <2>7. /\ b[This][fr.src] = world.bal[This][fr.src] - spent
        /\ b[This][fr.dst] = world.bal[This][fr.dst] + got
        /\ \A a \in Assets : a # fr.src /\ a # fr.dst => b[This][a] = world.bal[This][a]
    BY <1>9, <2>3, <2>6
  <2>8. b = Add(Add(world.bal, This, fr.src, -spent), This, fr.dst, got)
    BY <2>2, <2>5
  <2>. QED BY <2>5, <2>7, <2>8
<1>11. /\ WorldOK(world') /\ world'.bal = b /\ world'.voided = world.voided
  <2>1. world' = [world EXCEPT !.bal = b] /\ b \in Ledger
    BY <1>8, <1>10
  <2>. QED BY <1>3, <2>1, BalSet
<1>12. FrameOK(u, clock)
  <2>1. fr.op = "redeem" => RedeemOK(u, clock)
    <3>1. fr.op = "redeem" => RedeemOK(fr, clock)
      BY <1>3 DEF FrameOK
    <3>2. RedeemOK(fr, clock) => fr.token = "usdc" /\ fr.amount = fr.in
      BY <1>9 DEF RedeemOK
    <3>. QED BY <1>6, <1>9, <3>1, <3>2, RedeemGoesOn DEF Same
  <2>2. fr.op = "initiate" => InitiateOK(u, clock)
    BY <1>3, <1>6, <1>9, InitiateGoesOn DEF FrameOK
  <2>3. AtCallOK(fr) /\ WorldOK(fr.entry)
    BY <1>3, <1>9 DEF FrameOK
  <2>4. AtCallOK(u)
    <3>1. IF u.exactIn THEN u.got >= u.out ELSE u.got <= u.in
      BY <1>4, <1>6, <1>8 DEF Same
    <3>. QED BY <1>6, <2>3, <3>1, SameHeld DEF AtCallOK, Same
  <2>. QED BY <1>6, <2>1, <2>2, <2>3, <2>4 DEF FrameOK, Same
<1>13. Between(u, world')
  <2>1. /\ \A a \in Assets : Kept(world, a) = Kept(fr.entry, a) + HeldAtCall(fr, a)
        /\ world.voided >= fr.entry.voided /\ world.voided >= fr.atCall.voided
    BY <1>3, <1>9 DEF Between, Held
  <2>2. \A a \in Assets : Kept(world', a) = Kept(world, a)
          - (IF a = fr.src THEN spent ELSE 0) + (IF a = fr.dst THEN got ELSE 0)
    BY <1>3, <1>9, <1>10, <1>11, KeptIs DEF Kept
  <2>3. \A a \in Assets : Held(u, a) = HeldAtCall(fr, a)
          - (IF a = fr.src THEN spent ELSE 0) + (IF a = fr.dst THEN got ELSE 0)
    BY <1>4, <1>6, <1>8, SameHeld DEF Held, Same
  <2>4. \A a \in Assets : HeldAtCall(fr, a) \in Nat /\ Kept(fr.entry, a) \in Int
    <3>1. WorldOK(fr.entry)
      BY <1>3 DEF FrameOK
    <3>. QED BY <1>3, <1>9, <3>1, HeldAtCallType, KeptIs DEF Assets
  <2>. QED BY <1>6, <1>11, <2>1, <2>2, <2>3, <2>4 DEF Between, Same
<1>14. u.entry = Top.entry
  BY <1>2, <1>6 DEF Same
<1>. QED BY <1>1, <1>7, <1>11, <1>12, <1>13, <1>14, SetOK

(* _swap returns to redeem: the router has taken the USDC for what it gave. *)
LEMMA ResultIs ==
  ASSUME NEW fr, FrameOK(fr, clock), Between(fr, world), WorldOK(world),
         fr.pc = "routed", fr.op = "redeem"
  PROVE  SwapResult(fr) = fr.got
<1>1. /\ fr.src = "usdc" /\ fr.dst # "usdc" /\ fr.dst \in Assets /\ fr.exactIn
      /\ fr.dst # "eth"
  BY KindsAre DEF FrameOK, RedeemOK
<1>2. AtCallOK(fr) /\ WorldOK(fr.entry) /\ WorldOK(fr.atCall)
  BY DEF FrameOK, AtCallOK
<1>3. /\ fr.before = fr.atCall.bal[This][fr.dst]
      /\ Kept(fr.atCall, fr.dst) = Kept(fr.entry, fr.dst) + HeldAtCall(fr, fr.dst)
  BY <1>1, <1>2 DEF AtCallOK, Unknown
<1>4. Kept(world, fr.dst) = Kept(fr.entry, fr.dst) + HeldAtCall(fr, fr.dst) + fr.got
  <2>1. HeldAtCall(fr, fr.dst) = 0
    BY <1>1 DEF HeldAtCall
  <2>2. fr.got \in Nat /\ Kept(fr.entry, fr.dst) \in Int
    BY <1>1, <1>2, HeldAtCallType, KeptIs
  <2>3. Held(fr, fr.dst) = fr.got
    BY <1>1, <2>1, <2>2 DEF Held
  <2>4. Kept(world, fr.dst) = Kept(fr.entry, fr.dst) + Held(fr, fr.dst)
    BY <1>1 DEF Between
  <2>. QED BY <2>1, <2>2, <2>3, <2>4
<1>5. /\ Kept(world, fr.dst) = world.bal[This][fr.dst]
      /\ Kept(fr.atCall, fr.dst) = fr.atCall.bal[This][fr.dst]
      /\ world.bal[This][fr.dst] \in Nat /\ fr.atCall.bal[This][fr.dst] \in Nat
  BY <1>1, <1>2, KeptIs
<1>6. fr.got \in Nat
  BY HeldAtCallType
<1>. QED BY <1>1, <1>3, <1>4, <1>5, <1>6 DEF SwapResult

LEMMA RedeemSwappedKeeps ==
  ASSUME CallsInv, RedeemSwapped
  PROVE  CallsInv'
<1>1. ~Quiet /\ Top.op = "redeem" /\ Top.pc = "routed" /\ Fixed
  BY DEF RedeemSwapped
<1>2. PICK fr : fr = Top
  OBVIOUS
<1>3. fr \in Frame /\ FrameOK(fr, clock) /\ Between(fr, world) /\ WorldOK(world)
  BY <1>1, <1>2, TopIs DEF CallsInv
<1>4. SwapResult(fr) = fr.got
  BY <1>1, <1>2, <1>3, ResultIs
<1>5. /\ fr.op = "redeem" /\ fr.pc = "routed" /\ RedeemOK(fr, clock) /\ WorldOK(fr.entry)
      /\ fr.src = "usdc" /\ fr.exactIn /\ fr.token = "usdc" /\ fr.amount = fr.in
      /\ fr.dst # "usdc" /\ fr.dst # "eth" /\ fr.dst \in Assets /\ fr.got >= fr.out
      /\ fr.dst \in Tokens
  BY <1>1, <1>2, <1>3, KindsAre DEF FrameOK, RedeemOK, AtCallOK, Frame
<1>6. fr.in \in Nat /\ fr.got \in Nat /\ fr.out \in Nat /\ fr.dropoff \in Nat
  BY <1>3, HeldAtCallType
<1>7. \A a \in Assets : Kept(world, a) = Kept(fr.entry, a)
        + (IF a = "eth" THEN fr.dropoff ELSE 0) + (IF a = fr.dst THEN fr.got ELSE 0)
  <2>1. \A a \in Assets : Held(fr, a) =
          (IF a = "eth" THEN fr.dropoff ELSE 0) + (IF a = fr.dst THEN fr.got ELSE 0)
    BY <1>5, <1>6 DEF Held, HeldAtCall
  <2>2. \A a \in Assets : Kept(fr.entry, a) \in Int
    BY <1>5, KeptIs DEF Assets
  <2>. QED BY <1>3, <1>6, <2>1, <2>2 DEF Between
<1>8. CASE fr.got = 0
  <2>1. PICK v \in Nat : v = world.voided + fr.in
    BY <1>3, <1>6, KeptIs
  <2>2. world' = [world EXCEPT !.voided = v]
    BY <1>2, <1>4, <1>8, <2>1 DEF RedeemSwapped
  <2>3. WorldOK(world') /\ world'.bal = world.bal /\ world'.voided = v
    BY <1>3, <2>1, <2>2, VoidedSet
  <2>4. PICK u : u = [fr EXCEPT !.pc = "deliver"]
    OBVIOUS
  <2>5. SetTop(u)
    BY <1>2, <1>4, <1>8, <2>4 DEF RedeemSwapped
  <2>6. /\ u \in Frame /\ Same(u, fr) /\ u.pc = "deliver" /\ u.token = "usdc"
        /\ u.amount = fr.in
    BY <1>3, <1>5, <2>4 DEF Frame, Same, Pcs
  <2>7. RedeemOK(u, clock)
    BY <1>5, <2>6, RedeemGoesOn DEF Same
  <2>8. FrameOK(u, clock)
    BY <1>5, <2>6, <2>7 DEF FrameOK, Same
  <2>9. Between(u, world')
    <3>1. \A a \in Assets : Kept(world', a) = Kept(world, a) + IF a = "usdc" THEN fr.in ELSE 0
      BY <1>3, <1>6, <2>1, <2>3, KeptIs DEF Kept
    <3>2. \A a \in Assets : Held(u, a) =
            (IF a = "usdc" THEN fr.in ELSE 0) + (IF a = "eth" THEN fr.dropoff ELSE 0)
      BY <2>6 DEF Held, Same
    <3>3. \A a \in Assets : Kept(fr.entry, a) \in Int
      BY <1>5, KeptIs DEF Assets
    <3>4. \A a \in Assets : Kept(world', a) = Kept(u.entry, a) + Held(u, a)
      BY <1>6, <1>7, <1>8, <2>6, <3>1, <3>2, <3>3 DEF Same
    <3>5. world'.voided >= u.entry.voided
      <4>1. world.voided \in Nat /\ fr.entry.voided \in Nat
        BY <1>3, <1>5, KeptIs
      <4>. QED BY <1>3, <1>6, <2>1, <2>3, <2>6, <4>1 DEF Between, Same
    <3>. QED BY <2>6, <3>4, <3>5 DEF Between
  <2>. QED BY <1>1, <1>2, <2>3, <2>5, <2>6, <2>8, <2>9, SetOK DEF Same
<1>9. CASE fr.got # 0
  <2>1. world' = world
    <3>1. world' = [world EXCEPT !.voided = @]
      BY <1>2, <1>4, <1>9 DEF RedeemSwapped
    <3>. QED BY <1>3, <3>1 DEF WorldOK, World
  <2>2. PICK u : u = [fr EXCEPT !.pc = "deliver", !.token = fr.dst, !.amount = fr.got]
    OBVIOUS
  <2>3. SetTop(u)
    BY <1>2, <1>4, <1>9, <2>2 DEF RedeemSwapped
  <2>4. /\ u \in Frame /\ Same(u, fr) /\ u.pc = "deliver" /\ u.token = fr.dst
        /\ u.amount = fr.got /\ u.got = fr.got
    BY <1>3, <1>5, <1>6, <2>2 DEF Frame, Same, Pcs
  <2>5. RedeemOK(u, clock)
    BY <1>5, <2>4, RedeemGoesOn DEF Same
  <2>6. FrameOK(u, clock)
    BY <1>5, <2>4, <2>5 DEF FrameOK, Same
  <2>7. Between(u, world')
    <3>1. \A a \in Assets : Held(u, a) =
            (IF a = fr.dst THEN fr.got ELSE 0) + (IF a = "eth" THEN fr.dropoff ELSE 0)
      BY <2>4 DEF Held, Same
    <3>2. \A a \in Assets : Kept(fr.entry, a) \in Int
      BY <1>5, KeptIs DEF Assets
    <3>3. \A a \in Assets : Kept(world, a) = Kept(u.entry, a) + Held(u, a)
      BY <1>6, <1>7, <2>4, <3>1, <3>2 DEF Same
    <3>. QED BY <1>3, <2>1, <2>4, <3>3 DEF Between, Same
  <2>. QED BY <1>1, <1>2, <1>3, <2>1, <2>3, <2>4, <2>6, <2>7, SetOK DEF Same
<1>. QED BY <1>8, <1>9

(* The router's call fails and leaves the world it was called in.           *)
LEMMA RedeemSwapFailsKeeps ==
  ASSUME CallsInv, RedeemSwapFails
  PROVE  CallsInv'
<1>1. /\ ~Quiet /\ Top.op = "redeem" /\ Top.pc \in {"router", "routed"} /\ Fixed
      /\ world' = Top.atCall
  BY DEF RedeemSwapFails
<1>2. PICK fr : fr = Top
  OBVIOUS
<1>3. fr \in Frame /\ FrameOK(fr, clock) /\ Between(fr, world)
  BY <1>1, <1>2, TopIs
<1>4. AtCallOK(fr) /\ RedeemOK(fr, clock) /\ WorldOK(fr.entry)
  BY <1>1, <1>2, <1>3 DEF FrameOK
<1>5. PICK u : u = [fr EXCEPT !.pc = "deliver", !.got = 0]
  OBVIOUS
<1>6. SetTop(u)
  BY <1>2, <1>5 DEF RedeemSwapFails
<1>7. /\ u \in Frame /\ Same(u, fr) /\ u.pc = "deliver" /\ u.token = fr.token
      /\ u.amount = fr.amount
  BY <1>3, <1>5 DEF Frame, Same, Pcs
<1>8. fr.token = "usdc" /\ fr.amount = fr.in /\ fr.src = "usdc" /\ fr.op = "redeem"
  BY <1>1, <1>2, <1>4 DEF RedeemOK
<1>9. RedeemOK(u, clock)
  BY <1>4, <1>7, <1>8, RedeemGoesOn DEF Same
<1>10. FrameOK(u, clock)
  BY <1>4, <1>7, <1>8, <1>9 DEF FrameOK, Same
<1>11. Between(u, world')
  <2>1. \A a \in Assets : HeldAtCall(fr, a) = Held(u, a)
    BY <1>7, <1>8 DEF HeldAtCall, Held, Same
  <2>. QED BY <1>1, <1>2, <1>4, <1>7, <2>1 DEF Between, AtCallOK, Same
<1>12. WorldOK(world')
  BY <1>1, <1>2, <1>4 DEF AtCallOK
<1>. QED BY <1>1, <1>2, <1>6, <1>7, <1>10, <1>11, <1>12, SetOK DEF Same

(* What goes back to the sender leaves the contract, unwrapped or not.      *)
LEMMA RefundIs ==
  ASSUME NEW b \in Ledger, NEW caller \in Users, NEW src \in {"weth", "other"},
         NEW n \in Nat, b[This][src] >= n,
         NEW c, c = IF src = "weth" THEN Move(Withdraw(b, n), This, caller, "eth", n)
                    ELSE Move(b, This, caller, src, n)
  PROVE  /\ c \in Ledger /\ c[This][src] = b[This][src] - n
         /\ \A a \in Assets : a # src => c[This][a] = b[This][a]
<1>1. /\ caller \in Holders /\ This \in Holders /\ caller # This
      /\ "eth" \in Assets /\ src \in Assets
  BY DEF Holders, Assets
<1>2. CASE src = "weth"
  <2>1. PICK d \in Ledger : d = Withdraw(b, n)
    BY <1>2, WithdrawIs
  <2>2. /\ d[This]["weth"] = b[This]["weth"] - n
        /\ d[This]["eth"] = b[This]["eth"] + n
        /\ d[This]["usdc"] = b[This]["usdc"]
        /\ d[This]["other"] = b[This]["other"]
    BY <1>2, <2>1, WithdrawIs
  <2>3. b[This]["eth"] \in Nat /\ d[This]["eth"] >= n
    BY <1>1, <2>2 DEF Ledger
  <2>4. c = Move(d, This, caller, "eth", n)
    BY <1>2, <2>1
  <2>5. /\ c \in Ledger /\ c[This]["eth"] = d[This]["eth"] - n
        /\ \A a \in Assets : a # "eth" => c[This][a] = d[This][a]
    BY <1>1, <2>3, <2>4, MoveIs
  <2>. QED BY <1>2, <2>2, <2>3, <2>5 DEF Assets
<1>3. CASE src # "weth"
  <2>1. c = Move(b, This, caller, src, n) /\ b[This][src] >= n
    BY <1>3
  <2>2. /\ Move(b, This, caller, src, n) \in Ledger
        /\ Move(b, This, caller, src, n)[This][src] = b[This][src] - n
        /\ \A a \in Assets : a # src => Move(b, This, caller, src, n)[This][a] = b[This][a]
    BY <1>1, <2>1, MoveIs
  <2>. QED BY <2>1, <2>2
<1>. QED BY <1>2, <1>3

(* _swap returns to initiate: what the sender gets back and what the order  *)
(* carries is what the router took and gave.                                *)
LEMMA InitiateSwappedKeeps ==
  ASSUME CallsInv, InitiateSwapped
  PROVE  CallsInv'
<1>1. ~Quiet /\ Top.op = "initiate" /\ Top.pc = "routed" /\ Fixed
  BY DEF InitiateSwapped
<1>2. PICK fr : fr = Top
  OBVIOUS
<1>3. fr \in Frame /\ FrameOK(fr, clock) /\ Between(fr, world) /\ WorldOK(world)
  BY <1>1, <1>2, TopIs DEF CallsInv
<1>4. /\ fr.op = "initiate" /\ fr.pc = "routed" /\ InitiateOK(fr, clock)
      /\ WorldOK(fr.entry) /\ AtCallOK(fr) /\ WorldOK(fr.atCall)
      /\ fr.src \in {"weth", "other"} /\ fr.src \in Assets /\ fr.dst = "usdc"
      /\ fr.type \in Routers /\ fr.caller \in Users /\ fr.exactIn \in BOOLEAN
  <2>1. InitiateOK(fr, clock) /\ WorldOK(fr.entry) /\ AtCallOK(fr)
    BY <1>1, <1>2, <1>3 DEF FrameOK
  <2>2. fr.src # fr.dst /\ fr.type \in Routers
    BY <1>1, <1>2, <1>3, KindsAre
  <2>3. fr.src \in Tokens /\ fr.caller \in Users /\ fr.exactIn \in BOOLEAN
    BY <1>3 DEF Frame
  <2>. QED BY <1>1, <1>2, <2>1, <2>2, <2>3 DEF InitiateOK, AtCallOK, Tokens, Assets
<1>5. /\ fr.in \in Nat /\ fr.got \in Nat /\ fr.out \in Nat
      /\ \A a \in Assets : HeldAtCall(fr, a) \in Nat
  BY <1>3, <1>4, HeldAtCallType
<1>6. PICK ether : /\ ether \in Nat
                   /\ \A a \in Assets : HeldAtCall(fr, a) =
                        (IF a = fr.src THEN fr.in ELSE 0) + (IF a = "eth" THEN ether ELSE 0)
                   /\ ether = IF fr.src = "weth" THEN WormholeFee(fr.id) ELSE fr.id.value
  <2>1. HeldAtCall(fr, "eth") \in Nat
    BY <1>5 DEF Assets
  <2>2. PICK ether : ether = IF fr.src = "weth" THEN WormholeFee(fr.id) ELSE fr.id.value
    OBVIOUS
  <2>3. \A a \in Assets : HeldAtCall(fr, a) =
                        (IF a = fr.src THEN fr.in ELSE 0) + (IF a = "eth" THEN ether ELSE 0)
    BY <1>4, <2>2 DEF HeldAtCall
  <2>4. ether \in Nat
    <3>1. fr.id \in Request /\ MessageFee \in Nat
      BY <1>4 DEF InitiateOK
    <3>. QED BY <2>2, <3>1 DEF WormholeFee, Request
  <2>. QED BY <2>2, <2>3, <2>4
<1>7. /\ \A a \in Assets : Kept(fr.entry, a) \in Int /\ Kept(world, a) \in Int
                         /\ Kept(fr.atCall, a) \in Int
      /\ \A a \in Assets : world.bal[This][a] \in Nat /\ fr.atCall.bal[This][a] \in Nat
      /\ world.voided \in Nat /\ fr.atCall.voided \in Nat /\ fr.entry.voided \in Nat
      /\ "usdc" \in Assets /\ "eth" \in Assets
  BY <1>3, <1>4, KeptIs DEF Assets
<1>8. \A a \in Assets : Kept(world, a) = Kept(fr.entry, a)
        + (IF a = fr.src THEN fr.in - (IF fr.exactIn THEN fr.in ELSE fr.got) ELSE 0)
        + (IF a = "usdc" THEN IF fr.exactIn THEN fr.got ELSE fr.out ELSE 0)
        + (IF a = "eth" THEN ether ELSE 0)
  <2>1. \A a \in Assets : Held(fr, a) = HeldAtCall(fr, a)
          - (IF a = fr.src THEN IF fr.exactIn THEN fr.in ELSE fr.got ELSE 0)
          + (IF a = fr.dst THEN IF fr.exactIn THEN fr.got ELSE fr.out ELSE 0)
    BY <1>4 DEF Held
  <2>2. \A a \in Assets : Kept(world, a) = Kept(fr.entry, a) + Held(fr, a)
    BY <1>3 DEF Between
  <2>. QED BY <1>4, <1>5, <1>6, <1>7, <2>1, <2>2
<1>9. /\ \A a \in Assets : Kept(fr.atCall, a) = Kept(fr.entry, a)
           + (IF a = fr.src THEN fr.in ELSE 0) + (IF a = "eth" THEN ether ELSE 0)
      /\ fr.before = fr.atCall.bal[This][Unknown(fr)]
      /\ world.voided >= fr.atCall.voided /\ fr.atCall.voided >= fr.entry.voided
      /\ IF fr.exactIn THEN fr.got >= fr.out ELSE fr.got <= fr.in
  BY <1>3, <1>4, <1>5, <1>6, <1>7 DEF AtCallOK, Between
<1>10. PICK result : result = SwapResult(fr)
  OBVIOUS
<1>11. /\ fr.exactIn => result \in {fr.got, fr.got - (world.voided - fr.atCall.voided)}
       /\ ~fr.exactIn => result = fr.got
  <2>1. CASE fr.type = "traderjoe"
    BY <1>10, <2>1 DEF SwapResult
  <2>2. CASE fr.type # "traderjoe" /\ fr.exactIn
    <3>1. result = world.bal[This]["usdc"] - fr.atCall.bal[This]["usdc"]
      BY <1>4, <1>9, <1>10, <2>2 DEF SwapResult, Unknown
    <3>2. Kept(world, "usdc") = Kept(fr.entry, "usdc") + fr.got
      BY <1>4, <1>5, <1>7, <1>8, <2>2
    <3>3. Kept(fr.atCall, "usdc") = Kept(fr.entry, "usdc")
      BY <1>4, <1>7, <1>9
    <3>4. /\ Kept(world, "usdc") = world.bal[This]["usdc"] + world.voided
          /\ Kept(fr.atCall, "usdc") = fr.atCall.bal[This]["usdc"] + fr.atCall.voided
      BY <1>3, <1>4, KeptIs
    <3>. QED BY <1>5, <1>7, <2>2, <3>1, <3>2, <3>3, <3>4
  <2>3. CASE fr.type # "traderjoe" /\ ~fr.exactIn
    <3>1. result = fr.atCall.bal[This][fr.src] - world.bal[This][fr.src]
      BY <1>4, <1>9, <1>10, <2>3 DEF SwapResult, Unknown
    <3>2. Kept(world, fr.src) = Kept(fr.entry, fr.src) + fr.in - fr.got
      BY <1>4, <1>5, <1>7, <1>8, <2>3
    <3>3. Kept(fr.atCall, fr.src) = Kept(fr.entry, fr.src) + fr.in
      BY <1>4, <1>5, <1>7, <1>9
    <3>4. /\ Kept(world, fr.src) = world.bal[This][fr.src]
          /\ Kept(fr.atCall, fr.src) = fr.atCall.bal[This][fr.src]
      BY <1>3, <1>4, KeptIs
    <3>. QED BY <1>4, <1>5, <1>7, <2>3, <3>1, <3>2, <3>3, <3>4
  <2>. QED BY <2>1, <2>2, <2>3
<1>12. PICK lost : lost = IF fr.exactIn THEN fr.got - result ELSE 0
  OBVIOUS
<1>13. PICK back : back = IF fr.exactIn THEN 0 ELSE Refund(fr, result)
  OBVIOUS
<1>14. PICK amount : amount = IF fr.exactIn THEN result ELSE fr.out
  OBVIOUS
<1>15. /\ fr.exactIn => result >= 0
       /\ world.bal[This][fr.src] >= back
       /\ SetTop([fr EXCEPT !.pc = IF back = 0 THEN "order" ELSE "refunded",
                            !.amount = amount, !.lost = lost])
       /\ world' = [world EXCEPT
            !.bal = IF fr.src = "weth"
                    THEN Move(Withdraw(world.bal, back), This, fr.caller, "eth", back)
                    ELSE Move(world.bal, This, fr.caller, fr.src, back),
            !.voided = world.voided - lost]
  BY <1>2, <1>10, <1>12, <1>13, <1>14 DEF InitiateSwapped, Has
<1>16. /\ amount \in Nat /\ lost \in Nat /\ back \in Nat
       /\ world.voided - lost >= fr.atCall.voided
       /\ amount + lost >= fr.out
       /\ amount = (IF fr.exactIn THEN fr.got ELSE fr.out) - lost
       /\ back = fr.in - (IF fr.exactIn THEN fr.in ELSE fr.got)
  BY <1>4, <1>5, <1>7, <1>9, <1>11, <1>12, <1>13, <1>14, <1>15 DEF Refund
<1>17. PICK b : b = IF fr.src = "weth"
                    THEN Move(Withdraw(world.bal, back), This, fr.caller, "eth", back)
                    ELSE Move(world.bal, This, fr.caller, fr.src, back)
  OBVIOUS
<1>18. /\ b \in Ledger /\ b[This][fr.src] = world.bal[This][fr.src] - back
       /\ \A a \in Assets : a # fr.src => b[This][a] = world.bal[This][a]
  <2>1. world.bal \in Ledger
    BY <1>3, KeptIs
  <2>. QED BY <1>4, <1>15, <1>16, <1>17, <2>1, RefundIs
<1>19. PICK v \in Nat : v = world.voided - lost
  BY <1>7, <1>16
<1>20. WorldOK(world') /\ world'.bal = b /\ world'.voided = v
  <2>1. world' = [world EXCEPT !.bal = b, !.voided = v]
    BY <1>15, <1>17, <1>19
  <2>2. world \in World
    BY <1>3 DEF WorldOK
  <2>3. world' \in World
    BY <1>18, <1>19, <2>1, <2>2 DEF World, Ledger
  <2>4. /\ world'.bal = b /\ world'.voided = v
        /\ world'.orders = world.orders /\ world'.paid = world.paid
    BY <2>1, <2>2 DEF World
  <2>. QED BY <1>3, <2>3, <2>4 DEF WorldOK
<1>21. PICK pc \in {"order", "refunded"} : pc = IF back = 0 THEN "order" ELSE "refunded"
  OBVIOUS
<1>22. PICK u : u = [fr EXCEPT !.pc = pc, !.amount = amount, !.lost = lost]
  OBVIOUS
<1>23. SetTop(u)
  BY <1>15, <1>21, <1>22
<1>24. /\ u \in Frame /\ Same(u, fr) /\ u.pc = pc /\ u.amount = amount /\ u.lost = lost
  <2>1. pc \in Pcs
    BY <1>21 DEF Pcs, Outside
  <2>2. amount \in Nat /\ lost \in Nat
    BY <1>16
  <2>. QED BY <1>3, <1>22, <2>1, <2>2 DEF Frame, Same
<1>25. FrameOK(u, clock)
  <2>1. InitiateOK(u, clock)
    BY <1>4, <1>16, <1>21, <1>24, InitiateGoesOn DEF Same
  <2>. QED BY <1>4, <1>21, <1>24, <2>1 DEF FrameOK, Same
<1>26. Between(u, world')
  <2>1. \A a \in Assets : Held(u, a) =
          (IF a = "usdc" THEN amount ELSE 0) + (IF a = "eth" THEN ether ELSE 0)
    BY <1>6, <1>21, <1>24 DEF Held, Same
  <2>2. \A a \in Assets : Kept(world', a) = Kept(world, a)
          - (IF a = fr.src THEN back ELSE 0) - (IF a = "usdc" THEN lost ELSE 0)
    BY <1>4, <1>7, <1>16, <1>18, <1>19, <1>20 DEF Kept
  <2>3. \A a \in Assets : Kept(world', a) = Kept(u.entry, a) + Held(u, a)
    BY <1>4, <1>5, <1>6, <1>7, <1>8, <1>16, <1>24, <2>1, <2>2 DEF Same
  <2>4. world'.voided >= u.entry.voided
    BY <1>7, <1>9, <1>16, <1>19, <1>20, <1>24 DEF Same
  <2>. QED BY <1>21, <1>24, <2>3, <2>4 DEF Between
<1>. QED BY <1>1, <1>2, <1>20, <1>23, <1>24, <1>25, <1>26, SetOK DEF Same

(* The sender who was refunded returns control.                             *)
LEMMA RefundedKeeps ==
  ASSUME CallsInv, Refunded
  PROVE  CallsInv'
<1>1. ~Quiet /\ Top.pc = "refunded" /\ Fixed /\ world' = world
  BY DEF Refunded
<1>2. PICK fr : fr = Top
  OBVIOUS
<1>3. fr \in Frame /\ FrameOK(fr, clock) /\ Between(fr, world) /\ WorldOK(world)
  BY <1>1, <1>2, TopIs DEF CallsInv
<1>4. PICK u : u = [fr EXCEPT !.pc = "order"]
  OBVIOUS
<1>5. SetTop(u)
  BY <1>2, <1>4 DEF Refunded
<1>6. /\ u \in Frame /\ Same(u, fr) /\ u.pc = "order" /\ u.amount = fr.amount
      /\ u.lost = fr.lost
  BY <1>3, <1>4 DEF Frame, Same, Pcs
<1>7. fr.op = "initiate" /\ InitiateOK(fr, clock) /\ fr.pc = "refunded"
  BY <1>1, <1>2, <1>3, KindsAre DEF FrameOK
<1>8. FrameOK(u, clock)
  BY <1>3, <1>6, <1>7, InitiateGoesOn DEF FrameOK, Same
<1>9. Between(u, world')
  <2>1. \A a \in Assets : Held(u, a) = Held(fr, a)
    BY <1>6, <1>7 DEF Held, Same
  <2>. QED BY <1>1, <1>3, <1>6, <2>1 DEF Between, Same
<1>. QED BY <1>1, <1>2, <1>3, <1>5, <1>6, <1>8, <1>9, SetOK DEF Same

(* A payment to the recipient, of all that is held or of the dropoff.       *)
LEMMA PaymentKeeps ==
  ASSUME CallsInv, ~Quiet, Fixed, Top.pc \in {"deliver", "dropped"},
         NEW u, SetTop(u), u \in Frame, Same(u, Top), u.token = Top.token,
         u.amount = Top.amount, u.got = Top.got, u.pc \in {"dropped", "sent"},
         NEW b \in Ledger, world' = [world EXCEPT !.bal = b],
         \A a \in Assets : world.bal[This][a] - b[This][a] = Held(Top, a) - Held(u, a)
  PROVE  CallsInv'
<1>1. PICK fr : fr = Top
  OBVIOUS
<1>2. /\ fr \in Frame /\ FrameOK(fr, clock) /\ Between(fr, world) /\ WorldOK(world)
      /\ fr.op = "redeem" /\ RedeemOK(fr, clock) /\ WorldOK(fr.entry)
  BY <1>1, TopIs, KindsAre DEF CallsInv, FrameOK
<1>3. /\ WorldOK(world') /\ world'.bal = b /\ world'.voided = world.voided
  BY <1>2, BalSet
<1>4. RedeemOK(u, clock)
  <2>1. IF fr.token = "usdc" THEN fr.amount = fr.in
        ELSE fr.token = fr.dst /\ fr.amount = fr.got /\ fr.got >= fr.out
    BY <1>2 DEF RedeemOK
  <2>2. IF u.token = "usdc" THEN u.amount = u.in
        ELSE /\ u.token = u.dst /\ u.amount = u.got /\ u.got >= u.out
             /\ fr.token # "usdc"
    BY <1>1, <2>1 DEF Same
  <2>. QED BY <1>1, <1>2, <2>2, RedeemGoesOn
<1>5. FrameOK(u, clock)
  BY <1>1, <1>2, <1>4 DEF FrameOK, Same
<1>6. Between(u, world')
  <2>1. ASSUME NEW a \in Assets PROVE Kept(world', a) = Kept(u.entry, a) + Held(u, a)
    <3>1. Kept(world, a) = Kept(u.entry, a) + Held(fr, a)
      BY <1>1, <1>2 DEF Between, Same
    <3>2. Kept(world', a) = Kept(world, a) - (Held(fr, a) - Held(u, a))
      <4>1. /\ world.bal[This][a] \in Nat /\ b[This][a] \in Nat /\ world.voided \in Nat
        BY <1>2, KeptIs DEF Ledger
      <4>2. world.bal[This][a] - b[This][a] = Held(fr, a) - Held(u, a)
        BY <1>1
      <4>. QED BY <1>3, <4>1, <4>2 DEF Kept
    <3>3. Kept(u.entry, a) \in Int /\ Held(fr, a) \in Int /\ Held(u, a) \in Int
      <4>1. /\ fr.amount \in Nat /\ fr.dropoff \in Nat
        BY <1>2, HeldAtCallType
      <4>2. Kept(u.entry, a) \in Int
        BY <1>1, <1>2, KeptIs DEF Same, Assets
      <4>. QED BY <1>1, <4>1, <4>2 DEF Held, Same
    <3>. QED BY <3>1, <3>2, <3>3
  <2>2. world'.voided >= u.entry.voided
    BY <1>1, <1>2, <1>3 DEF Between, Same
  <2>. QED BY <2>1, <2>2 DEF Between
<1>. QED BY <1>3, <1>5, <1>6, SetOK DEF Same

(* Payments are made to a user.                                             *)
LEMMA RecipientIs ==
  ASSUME NEW fr, RedeemOK(fr, clock)
  PROVE  Recipient(fr) \in Users /\ Recipient(fr) \in Holders /\ Recipient(fr) # This
<1>1. fr.entry.fills[fr.id] \in Fill
  BY DEF RedeemOK
<1>. QED BY <1>1 DEF Fill, Recipient, Holders

LEMMA DeliverEthKeeps ==
  ASSUME CallsInv, DeliverEth
  PROVE  CallsInv'
<1>1. ~Quiet /\ Top.pc = "deliver" /\ Fixed
  BY DEF DeliverEth
<1>2. PICK fr : fr = Top
  OBVIOUS
<1>3. /\ fr \in Frame /\ FrameOK(fr, clock) /\ WorldOK(world) /\ fr.pc = "deliver"
      /\ fr.op = "redeem" /\ RedeemOK(fr, clock)
  BY <1>1, <1>2, TopIs, KindsAre DEF CallsInv, FrameOK
<1>4. PICK n \in Nat, gas \in Nat : n = fr.amount /\ gas = fr.dropoff
  BY <1>3, HeldAtCallType
<1>5. /\ fr.token = "weth" /\ world.bal[This]["weth"] >= n /\ world.bal[This]["eth"] >= gas
      /\ world' = [world EXCEPT !.bal = PaidEth(world.bal, Recipient(fr), n, gas)]
      /\ SetTop([fr EXCEPT !.pc = "sent"])
  BY <1>2, <1>4 DEF DeliverEth, Has, WithBal
<1>6. PICK b \in Ledger :
        /\ b = PaidEth(world.bal, Recipient(fr), n, gas)
        /\ \A a \in Assets : b[This][a] = world.bal[This][a]
              - (IF a = "weth" THEN n ELSE 0) - (IF a = "eth" THEN gas ELSE 0)
  <2>1. /\ world.bal \in Ledger /\ This \in Holders
        /\ \A a \in Assets : world.bal[This][a] \in Nat
    BY <1>3, KeptIs
  <2>2. PICK c \in Ledger : c = Withdraw(world.bal, n)
    BY <1>5, <2>1, WithdrawIs
  <2>3. /\ c[This]["weth"] = world.bal[This]["weth"] - n
        /\ c[This]["eth"] = world.bal[This]["eth"] + n
        /\ c[This]["usdc"] = world.bal[This]["usdc"]
        /\ c[This]["other"] = world.bal[This]["other"]
    BY <1>5, <2>1, <2>2, WithdrawIs
  <2>4. PICK to : to = Recipient(fr)
    OBVIOUS
  <2>5. to \in Holders /\ This # to /\ "eth" \in Assets /\ n + gas \in Nat
    BY <1>3, <2>4, RecipientIs DEF Assets
  <2>6. c[This]["eth"] >= n + gas
    BY <1>5, <2>1, <2>3, <2>5
  <2>7. PICK b : b = Move(c, This, to, "eth", n + gas)
    OBVIOUS
  <2>8. /\ b \in Ledger /\ b[This]["eth"] = c[This]["eth"] - (n + gas)
        /\ \A a \in Assets : a # "eth" => b[This][a] = c[This][a]
    BY <2>1, <2>5, <2>6, <2>7, MoveIs
  <2>9. ASSUME NEW a \in Assets
        PROVE  b[This][a] = world.bal[This][a]
                 - (IF a = "weth" THEN n ELSE 0) - (IF a = "eth" THEN gas ELSE 0)
    BY <2>1, <2>3, <2>8 DEF Assets
  <2>10. b = PaidEth(world.bal, Recipient(fr), n, gas)
    BY <2>2, <2>4, <2>7 DEF PaidEth
  <2>. QED BY <2>8, <2>9, <2>10
<1>7. PICK u : u = [fr EXCEPT !.pc = "sent"]
  OBVIOUS
<1>8. /\ u \in Frame /\ Same(u, fr) /\ u.pc = "sent" /\ u.token = fr.token
      /\ u.amount = fr.amount /\ u.got = fr.got
  BY <1>3, <1>7 DEF Frame, Same, Pcs, Outside
<1>9. \A a \in Assets : world.bal[This][a] - b[This][a] = Held(fr, a) - Held(u, a)
  <2>1. \A a \in Assets : Held(fr, a) =
          (IF a = "weth" THEN n ELSE 0) + (IF a = "eth" THEN gas ELSE 0)
    BY <1>3, <1>4, <1>5 DEF Held
  <2>2. \A a \in Assets : Held(u, a) = 0
    BY <1>8 DEF Held
  <2>3. \A a \in Assets : world.bal[This][a] \in Nat
    BY <1>3, KeptIs
  <2>. QED BY <1>6, <2>1, <2>2, <2>3
<1>10. world' = [world EXCEPT !.bal = b] /\ SetTop(u)
  BY <1>5, <1>6, <1>7
<1>. QED BY <1>1, <1>2, <1>6, <1>8, <1>9, <1>10, PaymentKeeps

LEMMA DeliverDropoffKeeps ==
  ASSUME CallsInv, DeliverDropoff
  PROVE  CallsInv'
<1>1. ~Quiet /\ Top.pc = "deliver" /\ Fixed
  BY DEF DeliverDropoff
<1>2. PICK fr : fr = Top
  OBVIOUS
<1>3. /\ fr \in Frame /\ FrameOK(fr, clock) /\ WorldOK(world) /\ fr.pc = "deliver"
      /\ fr.op = "redeem" /\ RedeemOK(fr, clock)
  BY <1>1, <1>2, TopIs, KindsAre DEF CallsInv, FrameOK
<1>4. PICK gas \in Nat : gas = fr.dropoff
  BY <1>3, HeldAtCallType
<1>5. PICK to : to = Recipient(fr)
  OBVIOUS
<1>6. /\ world.bal[This]["eth"] >= gas
      /\ world' = [world EXCEPT !.bal = Move(world.bal, This, to, "eth", gas)]
      /\ SetTop([fr EXCEPT !.pc = "dropped"])
  BY <1>2, <1>4, <1>5 DEF DeliverDropoff, Has, WithBal
<1>7. PICK b : b = Move(world.bal, This, to, "eth", gas)
  OBVIOUS
<1>8. /\ b \in Ledger /\ b[This]["eth"] = world.bal[This]["eth"] - gas
      /\ \A a \in Assets : a # "eth" => b[This][a] = world.bal[This][a]
  <2>1. world.bal \in Ledger /\ This \in Holders
    BY <1>3, KeptIs
  <2>2. to \in Holders /\ This # to /\ "eth" \in Assets
    BY <1>3, <1>5, RecipientIs DEF Assets
  <2>. QED BY <1>6, <1>7, <2>1, <2>2, MoveIs
<1>9. PICK u : u = [fr EXCEPT !.pc = "dropped"]
  OBVIOUS
<1>10. /\ u \in Frame /\ Same(u, fr) /\ u.pc = "dropped" /\ u.token = fr.token
       /\ u.amount = fr.amount /\ u.got = fr.got
  BY <1>3, <1>9 DEF Frame, Same, Pcs, Outside
<1>11. \A a \in Assets : world.bal[This][a] - b[This][a] = Held(fr, a) - Held(u, a)
  <2>1. \A a \in Assets : Held(fr, a) =
          (IF a = fr.token THEN fr.amount ELSE 0) + (IF a = "eth" THEN gas ELSE 0)
    BY <1>3, <1>4 DEF Held
  <2>2. \A a \in Assets : Held(u, a) = IF a = fr.token THEN fr.amount ELSE 0
    BY <1>10 DEF Held
  <2>3. fr.amount \in Nat /\ \A a \in Assets : world.bal[This][a] \in Nat
    BY <1>3, KeptIs, HeldAtCallType
  <2>. QED BY <1>8, <2>1, <2>2, <2>3
<1>12. world' = [world EXCEPT !.bal = b] /\ SetTop(u)
  BY <1>6, <1>7, <1>9
<1>. QED BY <1>1, <1>2, <1>8, <1>10, <1>11, <1>12, PaymentKeeps

LEMMA DeliverTokenKeeps ==
  ASSUME CallsInv, DeliverToken
  PROVE  CallsInv'
<1>1. /\ ~Quiet /\ Top.pc \in {"deliver", "dropped"} /\ Fixed
      /\ Top.pc = "dropped" \/ Top.dropoff = 0
  BY DEF DeliverToken
<1>2. PICK fr : fr = Top
  OBVIOUS
<1>3. /\ fr \in Frame /\ FrameOK(fr, clock) /\ WorldOK(world)
      /\ fr.op = "redeem" /\ RedeemOK(fr, clock) /\ fr.token \in Assets
  BY <1>1, <1>2, TopIs, KindsAre DEF CallsInv, FrameOK
<1>4. PICK n \in Nat : n = fr.amount
  BY <1>3, HeldAtCallType
<1>5. PICK to : to = Recipient(fr)
  OBVIOUS
<1>6. /\ world.bal[This][fr.token] >= n
      /\ world' = [world EXCEPT !.bal = Move(world.bal, This, to, fr.token, n)]
      /\ SetTop([fr EXCEPT !.pc = "sent"])
  BY <1>2, <1>4, <1>5 DEF DeliverToken, Has, WithBal
<1>7. PICK b : b = Move(world.bal, This, to, fr.token, n)
  OBVIOUS
<1>8. /\ b \in Ledger /\ b[This][fr.token] = world.bal[This][fr.token] - n
      /\ \A a \in Assets : a # fr.token => b[This][a] = world.bal[This][a]
  <2>1. world.bal \in Ledger /\ This \in Holders
    BY <1>3, KeptIs
  <2>2. to \in Holders /\ This # to
    BY <1>3, <1>5, RecipientIs
  <2>. QED BY <1>3, <1>6, <1>7, <2>1, <2>2, MoveIs
<1>9. PICK u : u = [fr EXCEPT !.pc = "sent"]
  OBVIOUS
<1>10. /\ u \in Frame /\ Same(u, fr) /\ u.pc = "sent" /\ u.token = fr.token
       /\ u.amount = fr.amount /\ u.got = fr.got
  BY <1>3, <1>9 DEF Frame, Same, Pcs, Outside
<1>11. \A a \in Assets : world.bal[This][a] - b[This][a] = Held(fr, a) - Held(u, a)
  <2>1. \A a \in Assets : Held(fr, a) = IF a = fr.token THEN n ELSE 0
    BY <1>1, <1>2, <1>4 DEF Held
  <2>2. \A a \in Assets : Held(u, a) = 0
    BY <1>10 DEF Held
  <2>3. \A a \in Assets : world.bal[This][a] \in Nat
    BY <1>3, KeptIs
  <2>. QED BY <1>8, <2>1, <2>2, <2>3
<1>12. world' = [world EXCEPT !.bal = b] /\ SetTop(u)
  BY <1>6, <1>7, <1>9
<1>. QED BY <1>1, <1>2, <1>8, <1>10, <1>11, <1>12, PaymentKeeps

(* redeem returns: what its event says is what was due.                     *)
LEMMA ReturnKeeps ==
  ASSUME CallsInv, Return
  PROVE  CallsInv'
<1>1. ~Quiet /\ Top.pc = "sent" /\ Fixed /\ stack' = Front(stack)
  BY DEF Return
<1>2. PICK fr : fr = Top
  OBVIOUS
<1>3. /\ fr \in Frame /\ FrameOK(fr, clock) /\ Between(fr, world) /\ WorldOK(world)
      /\ fr.op = "redeem" /\ RedeemOK(fr, clock) /\ WorldOK(fr.entry)
      /\ fr.pc = "sent" /\ clock \in Nat
  BY <1>1, <1>2, TopIs, KindsAre DEF CallsInv, FrameOK
<1>4. PICK fill \in Incoming : fill = fr.entry.fills[fr.id]
  BY <1>3 DEF RedeemOK
<1>5. PICK rec : rec = [fill |-> fill, by |-> fr.caller, override |-> fr.override,
                        fee |-> fr.fee, token |-> fr.token, amount |-> fr.amount,
                        dropoff |-> fr.dropoff, got |-> fr.got, at |-> clock]
  OBVIOUS
<1>6. fr.id \in Fills /\ world' = [world EXCEPT !.paid[fr.id] = rec]
  BY <1>2, <1>3, <1>4, <1>5 DEF Return, RedeemOK
<1>7. rec \in PaidRecord
  BY <1>3, <1>4, <1>5 DEF PaidRecord, Frame
<1>8. PaidOK(rec)
  <2>1. PICK o : o = IF fr.override = None THEN fill.output ELSE fr.override
    OBVIOUS
  <2>2. /\ fr.fee = IF Relays(fr.caller, fill) THEN fill.fee ELSE 0
        /\ fr.dropoff = IF Relays(fr.caller, fill) THEN fill.dropoff ELSE 0
        /\ fr.override # None \/ fill.mode = "Payload" => fr.caller = fill.recipient
        /\ fr.token # "usdc" => Due(o, clock)
        /\ fr.dst = o.token /\ fr.out = o.limit /\ fr.in = fill.amount - fr.fee
        /\ IF fr.token = "usdc" THEN fr.amount = fr.in
           ELSE fr.token = fr.dst /\ fr.amount = fr.got /\ fr.got >= fr.out
    BY <1>3, <1>4, <2>1 DEF RedeemOK
  <2>3. /\ rec.fill = fill /\ rec.by = fr.caller /\ rec.override = fr.override
        /\ rec.fee = fr.fee /\ rec.token = fr.token /\ rec.amount = fr.amount
        /\ rec.dropoff = fr.dropoff /\ rec.got = fr.got /\ rec.at = clock
    BY <1>5
  <2>4. rec.fee <= rec.fill.amount
    <3>1. fill \in Fill /\ fr.in \in Nat /\ fr.fee \in Nat
      BY <1>3, HeldAtCallType
    <3>. QED BY <2>2, <2>3, <3>1 DEF Fill
  <2>5. o \in Output
    BY <1>3, <1>4, <2>1 DEF Fill, Frame
  <2>6. rec.token # "usdc" => o.deadline = 0 \/ rec.at <= o.deadline
    BY <1>3, <2>2, <2>3, <2>5 DEF Due, Output
  <2>7. o = IF rec.override = None THEN rec.fill.output ELSE rec.override
    BY <2>1, <2>3
  <2>8. IF rec.token = "usdc" THEN rec.amount = rec.fill.amount - rec.fee
        ELSE /\ rec.token = o.token /\ rec.amount = rec.got /\ rec.amount >= o.limit
             /\ o.deadline = 0 \/ rec.at <= o.deadline
    BY <2>2, <2>3, <2>6
  <2>. QED BY <2>2, <2>3, <2>4, <2>7, <2>8 DEF PaidOK
<1>9. /\ WorldOK(world') /\ world'.bal = world.bal /\ world'.voided = world.voided
  <2>1. world \in World
    BY <1>3 DEF WorldOK
  <2>2. PICK q : q = [world.paid EXCEPT ![fr.id] = rec]
    OBVIOUS
  <2>3. /\ q \in [Fills -> PaidRecord \cup {None}] /\ q[fr.id] = rec
        /\ \A f \in Fills : f # fr.id => q[f] = world.paid[f]
    BY <1>6, <1>7, <2>1, <2>2 DEF World
  <2>4. world' = [world EXCEPT !.paid = q]
    BY <1>6, <2>2
  <2>5. /\ world' \in World /\ world'.bal = world.bal /\ world'.voided = world.voided
        /\ world'.paid = q /\ world'.orders = world.orders
    BY <2>1, <2>3, <2>4 DEF World
  <2>6. \A f \in Fills : q[f] # None => PaidOK(q[f])
    BY <1>3, <1>8, <2>3 DEF WorldOK
  <2>. QED BY <1>3, <2>5, <2>6 DEF WorldOK
<1>10. \A a \in Assets : Held(fr, a) = 0
  BY <1>3 DEF Held
<1>11. /\ \A a \in Assets : Kept(world', a) = Kept(fr.entry, a)
       /\ world'.voided >= fr.entry.voided
  <2>1. \A a \in Assets : Kept(world', a) = Kept(world, a) /\ Kept(fr.entry, a) \in Int
    BY <1>3, <1>9, KeptIs DEF Kept
  <2>. QED BY <1>3, <1>9, <1>10, <2>1 DEF Between
<1>. QED BY <1>1, <1>2, <1>9, <1>11, PopOK

(* A call that reverts leaves the world it was made in.                     *)
LEMMA RevertKeeps ==
  ASSUME CallsInv, Revert
  PROVE  CallsInv'
<1>1. ~Quiet /\ world' = Top.entry /\ stack' = Front(stack) /\ Fixed
  BY DEF Revert
<1>2. PICK w : w = Top.entry
  OBVIOUS
<1>3. WorldOK(w)
  BY <1>1, <1>2, TopIs DEF FrameOK
<1>4. w.voided \in Nat
  BY <1>3, KeptIs
<1>. QED BY <1>1, <1>2, <1>3, <1>4, PopOK

(* An order is placed with what was held for it.                            *)
LEMMA PlaceOrderKeeps ==
  ASSUME CallsInv, PlaceOrder
  PROVE  CallsInv'
<1>1. ~Quiet /\ Top.pc = "order" /\ Fixed /\ stack' = Front(stack)
  BY DEF PlaceOrder
<1>2. PICK fr : fr = Top
  OBVIOUS
<1>3. /\ fr \in Frame /\ FrameOK(fr, clock) /\ Between(fr, world) /\ WorldOK(world)
      /\ fr.op = "initiate" /\ InitiateOK(fr, clock) /\ WorldOK(fr.entry)
      /\ fr.pc = "order" /\ clock \in Nat
  BY <1>1, <1>2, TopIs, KindsAre DEF CallsInv, FrameOK
<1>4. PICK r \in Requests : r = fr.id
  BY <1>3 DEF InitiateOK
<1>5. PICK ether : ether = IF r.token = "weth" THEN WormholeFee(r) ELSE r.value
  OBVIOUS
<1>6. PICK rec : rec = [args |-> r, sender |-> fr.caller, amount |-> fr.amount,
                        fee |-> fr.fee, redeemer |-> peer, at |-> clock, lost |-> fr.lost]
  OBVIOUS
<1>7. PICK n : n = fr.amount
  OBVIOUS
<1>8. /\ peer # NoPeer /\ world.bal[This]["usdc"] >= n /\ world.bal[This]["eth"] >= ether
      /\ world' = [world EXCEPT
            !.bal = Add(Add(world.bal, This, "usdc", -n), This, "eth", -ether),
            !.orders = Append(world.orders, rec)]
  BY <1>2, <1>4, <1>5, <1>6, <1>7 DEF PlaceOrder, Has
<1>9. n \in Nat /\ ether \in Nat /\ r \in Request
  <2>1. r \in Request /\ MessageFee \in Nat
    BY <1>4
  <2>. QED BY <1>3, <1>5, <1>7, <2>1, HeldAtCallType DEF Request, WormholeFee
<1>10. rec \in OrderRecord
  <2>1. peer \in Peers
    BY <1>8 DEF CallsInv
  <2>. QED BY <1>3, <1>4, <1>6, <2>1 DEF OrderRecord, Frame
<1>11. OrderOK(rec)
  <2>1. /\ fr.exactIn = r.exactIn /\ fr.out >= fr.fee + r.fastFee + r.swap.limit
        /\ r.mode = "Relay" => fr.fee <= r.maxFee
        /\ r.token # "usdc" => Due(r.swap, clock)
        /\ IF r.token # "usdc" THEN fr.amount + fr.lost >= fr.out
           ELSE IF r.exactIn THEN fr.amount = r.amount /\ r.amount >= fr.fee + r.fastFee
           ELSE fr.amount = r.amount + fr.fee + r.fastFee
    BY <1>3, <1>4 DEF InitiateOK
  <2>2. /\ rec.args = r /\ rec.amount = fr.amount /\ rec.fee = fr.fee
        /\ rec.at = clock /\ rec.lost = fr.lost
    BY <1>6
  <2>3. /\ fr.amount \in Nat /\ fr.lost \in Nat /\ fr.fee \in Nat /\ fr.out \in Nat
        /\ r.fastFee \in Nat /\ r.amount \in Nat /\ r.swap.limit \in Nat
        /\ r.swap.deadline \in Nat
    BY <1>3, <1>9, HeldAtCallType DEF Request
  <2>4. rec.amount + rec.lost >= rec.fee + r.fastFee +
          IF r.token # "usdc" THEN r.swap.limit ELSE IF r.exactIn THEN 0 ELSE r.amount
    BY <2>1, <2>2, <2>3
  <2>5. r.token # "usdc" /\ r.swap.deadline # 0 => rec.at <= r.swap.deadline
    BY <1>3, <2>1, <2>2, <2>3 DEF Due
  <2>6. r.token = "usdc" /\ r.exactIn => rec.amount = r.amount
    BY <2>1, <2>2
  <2>. QED BY <2>1, <2>2, <2>4, <2>5, <2>6 DEF OrderOK
<1>12. PICK b : b = Add(Add(world.bal, This, "usdc", -n), This, "eth", -ether)
  OBVIOUS
<1>13. /\ b \in Ledger
       /\ \A a \in Assets : b[This][a] = world.bal[This][a]
             - (IF a = "usdc" THEN n ELSE 0) - (IF a = "eth" THEN ether ELSE 0)
  <2>1. /\ world.bal \in Ledger /\ This \in Holders /\ "usdc" \in Assets /\ "eth" \in Assets
        /\ \A a \in Assets : world.bal[This][a] \in Nat
    BY <1>3, KeptIs DEF Assets
  <2>2. PICK c \in Ledger : c = Add(world.bal, This, "usdc", -n)
    BY <1>8, <1>9, <2>1, AddIs
  <2>3. /\ c[This]["usdc"] = world.bal[This]["usdc"] - n
        /\ \A a \in Assets : a # "usdc" => c[This][a] = world.bal[This][a]
    BY <1>8, <1>9, <2>1, <2>2, AddIs
  <2>4. c[This]["eth"] + (-ether) >= 0
    BY <1>8, <1>9, <2>1, <2>3
  <2>5. b = Add(c, This, "eth", -ether) /\ -ether \in Int
    BY <1>9, <1>12, <2>2
  <2>6. /\ b \in Ledger /\ b[This]["eth"] = c[This]["eth"] + (-ether)
        /\ \A a \in Assets : a # "eth" => b[This][a] = c[This][a]
    BY <2>1, <2>2, <2>4, <2>5, AddIs
  <2>. QED BY <1>9, <2>1, <2>3, <2>6
<1>14. /\ WorldOK(world') /\ world'.bal = b /\ world'.voided = world.voided
  <2>1. world \in World /\ world.orders \in Seq(OrderRecord)
    BY <1>3 DEF WorldOK, World
  <2>2. PICK q : q = Append(world.orders, rec)
    OBVIOUS
  <2>3. /\ q \in Seq(OrderRecord) /\ Len(q) = Len(world.orders) + 1
        /\ q[Len(world.orders) + 1] = rec
        /\ \A i \in 1 .. Len(world.orders) : q[i] = world.orders[i]
    BY <1>10, <2>1, <2>2
  <2>4. world' = [world EXCEPT !.bal = b, !.orders = q]
    BY <1>8, <1>12, <2>2
  <2>5. /\ world' \in World /\ world'.bal = b /\ world'.voided = world.voided
        /\ world'.paid = world.paid /\ world'.orders = q
    BY <1>13, <2>1, <2>3, <2>4 DEF World, Ledger
  <2>6. \A i \in 1 .. Len(q) : OrderOK(q[i])
    <3>1. Len(world.orders) \in Nat
      BY <2>1
    <3>. QED BY <1>3, <1>11, <2>3, <3>1 DEF WorldOK
  <2>. QED BY <1>3, <2>5, <2>6 DEF WorldOK
<1>15. \A a \in Assets : Held(fr, a) =
         (IF a = "usdc" THEN n ELSE 0) + (IF a = "eth" THEN ether ELSE 0)
  <2>1. fr.src = r.token
    BY <1>3, <1>4 DEF InitiateOK
  <2>. QED BY <1>3, <1>4, <1>5, <1>7, <1>9, <2>1 DEF Held
<1>16. /\ \A a \in Assets : Kept(world', a) = Kept(fr.entry, a)
       /\ world'.voided >= fr.entry.voided
  <2>1. /\ \A a \in Assets : world.bal[This][a] \in Nat /\ Kept(fr.entry, a) \in Int
        /\ world.voided \in Nat
    BY <1>3, KeptIs DEF Assets
  <2>2. \A a \in Assets : Kept(world, a) = Kept(fr.entry, a) + Held(fr, a)
    BY <1>3 DEF Between
  <2>3. \A a \in Assets : Kept(world', a) = Kept(world, a) - Held(fr, a)
    BY <1>9, <1>13, <1>14, <1>15, <2>1 DEF Kept
  <2>4. \A a \in Assets : Held(fr, a) \in Int
    BY <1>9, <1>15
  <2>. QED BY <1>3, <1>14, <2>1, <2>2, <2>3, <2>4 DEF Between
<1>. QED BY <1>1, <1>2, <1>14, <1>16, PopOK

(* What redeem receives: the fill less the fee, and the gas.                *)
LEMMA ReceivedIs ==
  ASSUME NEW b \in Ledger, NEW caller \in Users, NEW fill \in Fill, NEW fee \in Nat,
         NEW gas \in Nat, fill.amount >= fee, b[caller]["eth"] >= gas
  PROVE  /\ Received(b, caller, fill, fee, gas) \in Ledger
         /\ \A a \in Assets : Received(b, caller, fill, fee, gas)[This][a] = b[This][a]
              + (IF a = "usdc" THEN fill.amount - fee ELSE 0)
              + (IF a = "eth" THEN gas ELSE 0)
<1>1. /\ This \in Holders /\ FeeRecipient \in Holders /\ caller \in Holders
      /\ caller # This /\ caller # FeeRecipient /\ This # FeeRecipient
      /\ "usdc" \in Assets /\ "eth" \in Assets
      /\ \A h \in Holders, a \in Assets : b[h][a] \in Nat
  BY DEF Holders, Assets, Ledger
<1>2. PICK n \in Nat : n = fill.amount - fee
  BY DEF Fill
<1>3. PICK c : c = Add(b, This, "usdc", n)
  OBVIOUS
<1>4. /\ c \in Ledger /\ c[This]["usdc"] = b[This]["usdc"] + n
      /\ \A a \in Assets : a # "usdc" => c[This][a] = b[This][a]
      /\ c[caller] = b[caller]
  <2>1. n \in Int /\ b[This]["usdc"] + n >= 0
    BY <1>1, <1>2
  <2>. QED BY <1>1, <1>3, <2>1, AddIs
<1>5. PICK d : d = Add(c, FeeRecipient, "usdc", fee)
  OBVIOUS
<1>6. d \in Ledger /\ d[This] = c[This] /\ d[caller] = c[caller]
  <2>1. fee \in Int /\ c[FeeRecipient]["usdc"] + fee >= 0
    BY <1>1, <1>4 DEF Ledger
  <2>. QED BY <1>1, <1>4, <1>5, <2>1, AddIs
<1>7. PICK e : e = Move(d, caller, This, "eth", gas)
  OBVIOUS
<1>8. /\ e \in Ledger /\ e[This]["eth"] = d[This]["eth"] + gas
      /\ \A a \in Assets : a # "eth" => e[This][a] = d[This][a]
  <2>1. d[caller]["eth"] >= gas
    BY <1>4, <1>6
  <2>. QED BY <1>1, <1>6, <1>7, <2>1, MoveIs
<1>9. e = Received(b, caller, fill, fee, gas)
  BY <1>2, <1>3, <1>5, <1>7 DEF Received
<1>. QED BY <1>1, <1>2, <1>4, <1>6, <1>8, <1>9

(* The frame of a call is pushed, as it is or with its router called.       *)
LEMMA PushedKeeps ==
  ASSUME CallsInv, Fixed, WorldOK(world'), world'.voided = world.voided,
         NEW fr \in Frame, fr.entry = world, fr.pc \in {"deliver", "order"},
         \A a \in Assets : Kept(world', a) = Kept(world, a) + HeldAtCall(fr, a),
         NEW calls \in BOOLEAN,
         stack' = Append(stack, IF calls THEN CallRouter(fr, world') ELSE fr),
         calls => \A u \in Frame : Same(u, fr) /\ u.pc = "router" /\ u.token = fr.token
                                    /\ u.amount = fr.amount
                    => /\ u.op = "redeem" => RedeemOK(u, clock)
                       /\ u.op = "initiate" => InitiateOK(u, clock),
         ~calls => /\ FrameOK(fr, clock)
                   /\ \A a \in Assets : Held(fr, a) = HeldAtCall(fr, a)
  PROVE  CallsInv'
<1>1. WorldOK(world) /\ world.voided \in Nat
  <2>1. WorldOK(world)
    BY DEF CallsInv
  <2>. QED BY <2>1, KeptIs
<1>2. CASE ~calls
  <2>1. Between(fr, world')
    BY <1>1, <1>2 DEF Between
  <2>. QED BY <1>2, <2>1, PushOK
<1>3. CASE calls
  <2>1. PICK w : w = world'
    OBVIOUS
  <2>2. WorldOK(w) /\ w \in World
    BY <2>1 DEF WorldOK
  <2>3. PICK u : u = CallRouter(fr, w)
    OBVIOUS
  <2>4. /\ u \in Frame /\ Same(u, fr) /\ u.pc = "router" /\ u.token = fr.token
        /\ u.amount = fr.amount
        /\ u.before = w.bal[This][Unknown(fr)] /\ u.atCall = w
    BY <2>2, <2>3, CallSet
  <2>5. /\ Unknown(u) = Unknown(fr)
        /\ \A a \in Assets : HeldAtCall(u, a) = HeldAtCall(fr, a)
    BY <2>4, SameHeld
  <2>6. AtCallOK(u)
    BY <1>1, <2>1, <2>2, <2>4, <2>5 DEF AtCallOK, Same
  <2>7. FrameOK(u, clock)
    BY <1>1, <1>3, <2>4, <2>6 DEF FrameOK, Same
  <2>8. Between(u, w)
    <3>1. \A a \in Assets : Held(u, a) = HeldAtCall(u, a)
      BY <2>4 DEF Held
    <3>2. \A a \in Assets : Kept(w, a) = Kept(u.entry, a) + Held(u, a)
      BY <2>1, <2>4, <2>5, <3>1 DEF Same
    <3>3. w.voided >= u.entry.voided /\ w.voided >= u.atCall.voided
      BY <1>1, <2>1, <2>4 DEF Same
    <3>. QED BY <3>2, <3>3 DEF Between
  <2>. QED BY <1>3, <2>1, <2>3, <2>4, <2>7, <2>8, PushOK DEF Same
<1>. QED BY <1>2, <1>3

LEMMA RedeemKeeps ==
  ASSUME CallsInv, NEW caller \in Users, NEW f \in Fills,
         NEW override \in Overrides \cup {None}, Redeem(caller, f, override)
  PROVE  CallsInv'
<1>1. Fixed /\ WorldOK(world) /\ world \in World
  BY DEF Redeem, CallsInv, WorldOK
<1>2. PICK fill \in Incoming : fill = world.fills[f]
  BY <1>1 DEF Redeem, Pending, World
<1>3. fill \in Fill /\ fill.amount \in Nat /\ fill.fee \in Nat /\ fill.dropoff \in Nat
  BY <1>2 DEF Fill
<1>4. PICK fee \in Nat : fee = IF Relays(caller, fill) THEN fill.fee ELSE 0
  BY <1>3
<1>5. PICK gas \in Nat : gas = IF Relays(caller, fill) THEN fill.dropoff ELSE 0
  BY <1>3
<1>6. PICK o \in Output : o = IF override = None THEN fill.output ELSE override
  BY <1>2 DEF Fill
<1>7. PICK fr : fr =
        [op |-> "redeem", pc |-> "deliver", id |-> f, caller |-> caller,
         exactIn |-> TRUE, src |-> "usdc", dst |-> o.token,
         in |-> fill.amount - fee, out |-> o.limit, type |-> o.type,
         before |-> 0, got |-> 0, fee |-> fee, dropoff |-> gas,
         token |-> "usdc", amount |-> fill.amount - fee, lost |-> 0,
         override |-> override, entry |-> world, atCall |-> None]
  OBVIOUS
<1>8. PICK b : b = Received(world.bal, caller, fill, fee, gas)
  OBVIOUS
<1>9. /\ MayRedeem(caller, fill, override) /\ fill.amount >= fee
      /\ world.bal[caller]["eth"] >= gas
      /\ world' = [[world EXCEPT !.bal = b] EXCEPT !.fills[f] = Redeemed]
      /\ stack' = Append(stack, IF o.token # "usdc" /\ Swappable(o)
                                THEN CallRouter(fr, world') ELSE fr)
  BY <1>2, <1>4, <1>5, <1>6, <1>7, <1>8 DEF Redeem, FeePayable, Has, WithBal
<1>10. /\ b \in Ledger
       /\ \A a \in Assets : b[This][a] = world.bal[This][a]
            + (IF a = "usdc" THEN fill.amount - fee ELSE 0)
            + (IF a = "eth" THEN gas ELSE 0)
  <2>1. world.bal \in Ledger
    BY <1>1, KeptIs
  <2>2. /\ Received(world.bal, caller, fill, fee, gas) \in Ledger
        /\ \A a \in Assets : Received(world.bal, caller, fill, fee, gas)[This][a]
             = world.bal[This][a] + (IF a = "usdc" THEN fill.amount - fee ELSE 0)
                                  + (IF a = "eth" THEN gas ELSE 0)
    BY <1>3, <1>9, <2>1, ReceivedIs
  <2>. QED BY <1>8, <2>2
<1>11. WorldOK(world') /\ world'.bal = b /\ world'.voided = world.voided
  <2>1. PICK w : w = [world EXCEPT !.bal = b]
    OBVIOUS
  <2>2. WorldOK(w) /\ w.bal = b /\ w.voided = world.voided /\ w \in World
    BY <1>1, <1>10, <2>1, BalSet DEF WorldOK
  <2>3. world' = [w EXCEPT !.fills[f] = Redeemed]
    BY <1>9, <2>1
  <2>4. /\ world' \in World /\ world'.bal = w.bal /\ world'.voided = w.voided
        /\ world'.paid = w.paid /\ world'.orders = w.orders
    BY <2>2, <2>3 DEF World
  <2>. QED BY <2>2, <2>4 DEF WorldOK
<1>12. /\ fr.op = "redeem" /\ fr.pc = "deliver" /\ fr.id = f /\ fr.caller = caller
       /\ fr.exactIn /\ fr.src = "usdc" /\ fr.dst = o.token /\ fr.in = fill.amount - fee
       /\ fr.out = o.limit /\ fr.type = o.type /\ fr.fee = fee /\ fr.dropoff = gas
       /\ fr.token = "usdc" /\ fr.amount = fr.in /\ fr.override = override
       /\ fr.entry = world
  BY <1>7
<1>13. fr \in Frame
  <2>1. fill.amount - fee \in Nat
    BY <1>3, <1>9
  <2>2. o.token \in Tokens /\ o.limit \in Nat /\ o.type \in SwapTypes
    BY DEF Output, Tokens
  <2>. QED BY <1>1, <1>7, <2>1, <2>2 DEF Frame, Pcs, Tokens
<1>14. \A a \in Assets : Kept(world', a) = Kept(world, a) + HeldAtCall(fr, a)
  <2>1. world.voided \in Nat /\ \A a \in Assets : world.bal[This][a] \in Nat
    BY <1>1, KeptIs
  <2>2. \A a \in Assets : HeldAtCall(fr, a) =
          (IF a = "usdc" THEN fill.amount - fee ELSE 0) + (IF a = "eth" THEN gas ELSE 0)
    BY <1>12 DEF HeldAtCall
  <2>3. fill.amount - fee \in Nat
    BY <1>3, <1>9
  <2>. QED BY <1>10, <1>11, <2>1, <2>2, <2>3 DEF Kept
<1>15. PICK calls \in BOOLEAN : calls <=> o.token # "usdc" /\ Swappable(o)
  OBVIOUS
<1>16. stack' = Append(stack, IF calls THEN CallRouter(fr, world') ELSE fr)
  BY <1>9, <1>15
<1>17. override # None \/ fill.mode = "Payload" => caller = fill.recipient
  BY <1>9 DEF MayRedeem
<1>18. ASSUME NEW u \in Frame, Same(u, fr), u.token = fr.token, u.amount = fr.amount,
              u.pc = "deliver" \/ (u.pc = "router" /\ calls)
       PROVE  RedeemOK(u, clock)
  <2>1. calls => o.token # "usdc" /\ Due(o, clock)
    BY <1>15 DEF Swappable, Due
  <2>2. /\ u.entry.fills[u.id] = fill /\ u.id \in Fills /\ u.caller = caller
        /\ o = IF u.override = None THEN fill.output ELSE u.override
        /\ u.override = override
    BY <1>2, <1>6, <1>12, <1>18 DEF Same
  <2>3. /\ u.exactIn /\ u.src = "usdc" /\ u.dst = o.token /\ u.type = o.type
        /\ u.out = o.limit /\ u.in = fill.amount - u.fee
        /\ u.fee = fee /\ u.dropoff = gas /\ u.token = "usdc" /\ u.amount = u.in
    BY <1>12, <1>18 DEF Same
  <2>. QED BY <1>2, <1>4, <1>5, <1>17, <1>18, <2>1, <2>2, <2>3 DEF RedeemOK
<1>19. ~calls => /\ FrameOK(fr, clock)
                 /\ \A a \in Assets : Held(fr, a) = HeldAtCall(fr, a)
  <2>1. RedeemOK(fr, clock)
    BY <1>12, <1>13, <1>18 DEF Same
  <2>2. FrameOK(fr, clock)
    BY <1>1, <1>12, <1>13, <2>1 DEF FrameOK
  <2>3. \A a \in Assets : Held(fr, a) = HeldAtCall(fr, a)
    BY <1>12 DEF Held, HeldAtCall
  <2>. QED BY <2>2, <2>3
<1>20. calls => \A u \in Frame : Same(u, fr) /\ u.pc = "router" /\ u.token = fr.token
                                  /\ u.amount = fr.amount
                  => /\ u.op = "redeem" => RedeemOK(u, clock)
                     /\ u.op = "initiate" => InitiateOK(u, clock)
  BY <1>12, <1>18 DEF Same
<1>. QED BY <1>1, <1>11, <1>12, <1>13, <1>14, <1>16, <1>19, <1>20, PushedKeeps

(* What initiate acquires: its input and the ether its order forwards.      *)
LEMMA AcquiredIs ==
  ASSUME NEW b \in Ledger, NEW caller \in Users, NEW r \in Request, Input(r) \in Nat,
         r.token = "weth" => r.value >= WormholeFee(r), b[caller]["eth"] >= r.value,
         r.token # "weth" => b[caller][r.token] >= Input(r)
  PROVE  /\ Acquired(b, caller, r) \in Ledger
         /\ \A a \in Assets : Acquired(b, caller, r)[This][a] = b[This][a]
              + (IF a = r.token THEN Input(r) ELSE 0)
              + (IF a # "eth" THEN 0
                 ELSE IF r.token = "weth" THEN WormholeFee(r) ELSE r.value)
<1>1. /\ This \in Holders /\ caller \in Holders /\ caller # This
      /\ "eth" \in Assets /\ "weth" \in Assets /\ r.token \in Assets /\ r.token # "eth"
      /\ r.value \in Nat /\ WormholeFee(r) \in Nat
      /\ \A h \in Holders, a \in Assets : b[h][a] \in Nat
  <2>1. MessageFee \in Nat
    OBVIOUS
  <2>. QED BY <2>1 DEF Holders, Assets, Ledger, Request, WormholeFee
<1>2. PICK n \in Nat : n = Input(r)
  OBVIOUS
<1>3. PICK v \in Nat : v = r.value
  BY <1>1
<1>4. PICK c : c = Move(b, caller, This, "eth", v)
  OBVIOUS
<1>5. /\ c \in Ledger /\ c[This]["eth"] = b[This]["eth"] + v
      /\ \A a \in Assets : a # "eth" => c[This][a] = b[This][a] /\ c[caller][a] = b[caller][a]
  BY <1>1, <1>3, <1>4, MoveIs
<1>6. CASE r.token = "weth"
  <2>1. n = v - WormholeFee(r) /\ n <= v
    BY <1>1, <1>2, <1>3, <1>6 DEF Input
  <2>2. PICK d : d = Add(c, This, "eth", -n)
    OBVIOUS
  <2>3. /\ d \in Ledger /\ d[This]["eth"] = c[This]["eth"] - n
        /\ \A a \in Assets : a # "eth" => d[This][a] = c[This][a]
    <3>1. -n \in Int /\ c[This]["eth"] + (-n) >= 0 /\ c[This]["eth"] \in Int
      BY <1>1, <1>5, <2>1
    <3>. QED BY <1>1, <1>5, <2>2, <3>1, AddIs
  <2>4. PICK e : e = Add(d, This, "weth", n)
    OBVIOUS
  <2>5. /\ e \in Ledger /\ e[This]["weth"] = d[This]["weth"] + n
        /\ \A a \in Assets : a # "weth" => e[This][a] = d[This][a]
    <3>1. n \in Int /\ d[This]["weth"] + n >= 0
      BY <1>1, <1>5, <2>3
    <3>. QED BY <1>1, <2>3, <2>4, <3>1, AddIs
  <2>6. e = Acquired(b, caller, r)
    BY <1>2, <1>3, <1>4, <1>6, <2>2, <2>4 DEF Acquired
  <2>7. ASSUME NEW a \in Assets
        PROVE  e[This][a] = b[This][a]
              + (IF a = r.token THEN n ELSE 0)
              + (IF a # "eth" THEN 0
                 ELSE IF r.token = "weth" THEN WormholeFee(r) ELSE r.value)
    BY <1>1, <1>5, <1>6, <2>1, <2>3, <2>5
  <2>. QED BY <1>2, <2>5, <2>6, <2>7
<1>7. CASE r.token # "weth"
  <2>1. PICK d : d = Move(c, caller, This, r.token, n)
    OBVIOUS
  <2>2. /\ d \in Ledger /\ d[This][r.token] = c[This][r.token] + n
        /\ \A a \in Assets : a # r.token => d[This][a] = c[This][a]
    <3>1. c[caller][r.token] >= n
      BY <1>1, <1>2, <1>5, <1>7
    <3>. QED BY <1>1, <1>5, <2>1, <3>1, MoveIs
  <2>3. d = Acquired(b, caller, r)
    BY <1>2, <1>3, <1>4, <1>7, <2>1 DEF Acquired
  <2>4. ASSUME NEW a \in Assets
        PROVE  d[This][a] = b[This][a]
              + (IF a = r.token THEN n ELSE 0)
              + (IF a # "eth" THEN 0
                 ELSE IF r.token = "weth" THEN WormholeFee(r) ELSE r.value)
    BY <1>1, <1>3, <1>5, <1>7, <2>2
  <2>. QED BY <1>2, <2>2, <2>3, <2>4
<1>. QED BY <1>6, <1>7

LEMMA InitiateKeeps ==
  ASSUME CallsInv, NEW caller \in Users, NEW r \in Requests, Initiate(caller, r)
  PROVE  CallsInv'
<1>1. Fixed /\ WorldOK(world) /\ world \in World
  BY DEF Initiate, CallsInv, WorldOK
<1>2. /\ r \in Request /\ r.amount \in Nat /\ r.value \in Nat /\ r.fastFee \in Nat
      /\ r.swap.limit \in Nat /\ r.token \in Tokens /\ r.exactIn \in BOOLEAN
      /\ r.swap.type \in SwapTypes
  BY DEF Request, Tokens
<1>3. PICK fee \in Nat : fee = RelayFee(r)
  BY DEF Initiate, CallsInv, RelayFee
<1>4. PICK ether \in Nat : ether = IF r.token = "weth" THEN WormholeFee(r) ELSE r.value
  <2>1. MessageFee \in Nat
    OBVIOUS
  <2>. QED BY <1>2, <2>1 DEF WormholeFee
<1>5. TotalFee(r) = r.fastFee + fee
  BY <1>3 DEF TotalFee
<1>6. PICK n \in Nat : n = Input(r)
  <2>1. r.token = "weth" => r.value >= WormholeFee(r) /\ WormholeFee(r) = ether
    BY <1>4 DEF Initiate
  <2>. QED BY <1>2, <1>3, <1>5, <2>1 DEF Input
<1>7. PICK fr : fr =
        [op |-> "initiate", pc |-> "order", id |-> r, caller |-> caller,
         exactIn |-> r.exactIn, src |-> r.token, dst |-> "usdc",
         in |-> n, out |-> UsdcLimit(r), type |-> r.swap.type,
         before |-> 0, got |-> 0, fee |-> fee, dropoff |-> 0,
         token |-> "usdc", amount |-> n, lost |-> 0,
         override |-> None, entry |-> world, atCall |-> None]
  OBVIOUS
<1>8. PICK b : b = Acquired(world.bal, caller, r)
  OBVIOUS
<1>9. /\ r.mode = "Relay" => fee <= r.maxFee
      /\ FeesCovered(r)
      /\ r.token = "weth" => r.value >= WormholeFee(r)
      /\ world.bal[caller]["eth"] >= r.value
      /\ r.token # "weth" => world.bal[caller][r.token] >= Input(r)
      /\ r.token # "usdc" => Swappable(r.swap)
      /\ world' = [world EXCEPT !.bal = b]
      /\ stack' = Append(stack, IF r.token = "usdc" THEN fr ELSE CallRouter(fr, world'))
  BY <1>3, <1>6, <1>7, <1>8 DEF Initiate, Has, WithBal, RelayFee
<1>10. /\ b \in Ledger
       /\ \A a \in Assets : b[This][a] = world.bal[This][a]
            + (IF a = r.token THEN n ELSE 0) + (IF a = "eth" THEN ether ELSE 0)
  <2>1. world.bal \in Ledger
    BY <1>1, KeptIs
  <2>2. /\ Acquired(world.bal, caller, r) \in Ledger
        /\ \A a \in Assets : Acquired(world.bal, caller, r)[This][a]
              = world.bal[This][a] + (IF a = r.token THEN Input(r) ELSE 0)
              + (IF a # "eth" THEN 0
                 ELSE IF r.token = "weth" THEN WormholeFee(r) ELSE r.value)
    BY <1>2, <1>6, <1>9, <2>1, AcquiredIs
  <2>. QED BY <1>4, <1>6, <1>8, <2>2
<1>11. WorldOK(world') /\ world'.bal = b /\ world'.voided = world.voided
  BY <1>1, <1>9, <1>10, BalSet
<1>12. /\ fr.op = "initiate" /\ fr.pc = "order" /\ fr.id = r
       /\ fr.exactIn = r.exactIn /\ fr.src = r.token /\ fr.dst = "usdc" /\ fr.in = n
       /\ fr.out = UsdcLimit(r) /\ fr.type = r.swap.type /\ fr.fee = fee
       /\ fr.amount = n /\ fr.entry = world
  BY <1>7
<1>13. UsdcLimit(r) \in Nat /\ UsdcLimit(r) = fee + r.fastFee + r.swap.limit
  BY <1>2, <1>5 DEF UsdcLimit
<1>14. fr \in Frame
  BY <1>1, <1>2, <1>7, <1>13 DEF Frame, Pcs, Tokens
<1>15. \A a \in Assets : HeldAtCall(fr, a) =
         (IF a = r.token THEN n ELSE 0) + (IF a = "eth" THEN ether ELSE 0)
  BY <1>4, <1>12 DEF HeldAtCall
<1>16. \A a \in Assets : Kept(world', a) = Kept(world, a) + HeldAtCall(fr, a)
  <2>1. world.voided \in Nat /\ \A a \in Assets : world.bal[This][a] \in Nat
    BY <1>1, KeptIs
  <2>. QED BY <1>10, <1>11, <1>15, <2>1 DEF Kept
<1>17. PICK calls \in BOOLEAN : calls <=> r.token # "usdc"
  OBVIOUS
<1>18. stack' = Append(stack, IF calls THEN CallRouter(fr, world') ELSE fr)
  BY <1>9, <1>17
<1>19. ASSUME NEW u \in Frame, Same(u, fr), u.pc = "router", calls
       PROVE  InitiateOK(u, clock)
  <2>1. Due(r.swap, clock)
    BY <1>9, <1>17, <1>19 DEF Swappable, Due
  <2>2. /\ u.id = r /\ u.exactIn = r.exactIn /\ u.src = r.token /\ u.dst = "usdc"
        /\ u.type = r.swap.type /\ u.fee = fee /\ u.out = fee + r.fastFee + r.swap.limit
    BY <1>12, <1>13, <1>19 DEF Same
  <2>. QED BY <1>2, <1>9, <1>13, <1>17, <1>19, <2>1, <2>2 DEF InitiateOK
<1>20. ~calls => /\ FrameOK(fr, clock)
                 /\ \A a \in Assets : Held(fr, a) = HeldAtCall(fr, a)
  <2>1. SUFFICES ASSUME r.token = "usdc"
                 PROVE  /\ FrameOK(fr, clock)
                        /\ \A a \in Assets : Held(fr, a) = HeldAtCall(fr, a)
    BY <1>17
  <2>2. IF r.exactIn THEN fr.amount = r.amount /\ r.amount >= fr.fee + r.fastFee
        ELSE fr.amount = r.amount + fr.fee + r.fastFee
    BY <1>2, <1>5, <1>6, <1>9, <1>12, <2>1 DEF FeesCovered, Input
  <2>3. InitiateOK(fr, clock)
    BY <1>2, <1>9, <1>12, <1>13, <2>1, <2>2 DEF InitiateOK
  <2>4. FrameOK(fr, clock)
    BY <1>1, <1>12, <1>14, <2>3 DEF FrameOK
  <2>5. \A a \in Assets : Held(fr, a) = HeldAtCall(fr, a)
    BY <1>12, <2>1 DEF Held, HeldAtCall
  <2>. QED BY <2>4, <2>5
<1>21. calls => \A u \in Frame : Same(u, fr) /\ u.pc = "router" /\ u.token = fr.token
                                  /\ u.amount = fr.amount
                  => /\ u.op = "redeem" => RedeemOK(u, clock)
                     /\ u.op = "initiate" => InitiateOK(u, clock)
  BY <1>12, <1>19 DEF Same
<1>. QED BY <1>1, <1>11, <1>12, <1>14, <1>16, <1>18, <1>20, <1>21, PushedKeeps

------------------------------------------------------------------------------
(* Between transactions.                                                    *)
LEMMA QuietKeeps ==
  ASSUME CallsInv, Quiet, stack' = stack, WorldOK(world'), clock' \in Nat,
         peer' \in Peers \cup {NoPeer}, quote' \in Quotes \cup {Disabled},
         gifts' \in [Assets -> Int],
         \A a \in Assets : Kept(world', a) = gifts'[a]
  PROVE  CallsInv'
<1>1. stack = <<>> /\ stack' = <<>>
  BY DEF Quiet
<1>2. stack' \in Seq(Frame) /\ Len(stack') = 0 /\ Bottom' = world'
  BY <1>1 DEF Bottom
<1>. QED BY <1>2 DEF CallsInv

LEMMA QuietIs ==
  ASSUME CallsInv, Quiet
  PROVE  /\ clock \in Nat /\ peer \in Peers \cup {NoPeer} /\ quote \in Quotes \cup {Disabled}
         /\ gifts \in [Assets -> Int] /\ WorldOK(world) /\ world \in World
         /\ \A a \in Assets : Kept(world, a) = gifts[a]
BY DEF CallsInv, Quiet, Bottom, WorldOK

LEMMA ArriveKeeps ==
  ASSUME CallsInv, NEW f \in Fills, NEW fill \in Incoming, Arrive(f, fill)
  PROVE  CallsInv'
<1>1. Quiet /\ UNCHANGED <<clock, peer, quote, stack, gifts, donated>>
  BY DEF Arrive
<1>2. world' = [world EXCEPT !.fills[f] = fill]
  BY DEF Arrive
<1>3. /\ world' \in World /\ world'.bal = world.bal /\ world'.voided = world.voided
      /\ world'.paid = world.paid /\ world'.orders = world.orders
  <2>1. world \in World
    BY <1>1, QuietIs
  <2>. QED BY <1>2, <2>1 DEF World
<1>4. WorldOK(world')
  BY <1>1, <1>3, QuietIs DEF WorldOK
<1>5. \A a \in Assets : Kept(world', a) = Kept(world, a)
  BY <1>3 DEF Kept
<1>. QED BY <1>1, <1>4, <1>5, QuietIs, QuietKeeps

LEMMA TickKeeps ==
  ASSUME CallsInv, Tick
  PROVE  CallsInv'
<1>1. Quiet /\ clock' = clock + 1 /\ UNCHANGED <<peer, quote, world, stack, gifts, donated>>
  BY DEF Tick
<1>2. clock' \in Nat
  BY <1>1, QuietIs
<1>. QED BY <1>1, <1>2, QuietIs, QuietKeeps

LEMMA UpdatePeerKeeps ==
  ASSUME CallsInv, NEW p \in Peers \cup {NoPeer}, NEW q \in Quotes \cup {Disabled},
         UpdatePeer(p, q)
  PROVE  CallsInv'
<1>1. /\ Quiet /\ peer' = p /\ quote' = q
      /\ UNCHANGED <<clock, world, stack, gifts, donated>>
  BY DEF UpdatePeer
<1>. QED BY <1>1, QuietIs, QuietKeeps

LEMMA DonateKeeps ==
  ASSUME CallsInv, NEW u \in Users, NEW a \in Assets, Donate(u, a)
  PROVE  CallsInv'
<1>1. /\ Quiet /\ world.bal[u][a] >= 1 /\ gifts' = [gifts EXCEPT ![a] = @ + 1]
      /\ UNCHANGED <<clock, peer, quote, stack>>
      /\ world' = [world EXCEPT !.bal = Move(world.bal, u, This, a, 1)]
  BY DEF Donate, Has, WithBal
<1>2. PICK b : b = Move(world.bal, u, This, a, 1)
  OBVIOUS
<1>3. /\ b \in Ledger /\ b[This][a] = world.bal[This][a] + 1
      /\ \A c \in Assets : c # a => b[This][c] = world.bal[This][c]
  <2>1. world.bal \in Ledger /\ This \in Holders
    BY <1>1, QuietIs, KeptIs
  <2>2. u \in Holders /\ u # This
    BY DEF Holders
  <2>. QED BY <1>1, <1>2, <2>1, <2>2, MoveIs
<1>4. WorldOK(world') /\ world'.bal = b /\ world'.voided = world.voided
  <2>1. world' = [world EXCEPT !.bal = b] /\ WorldOK(world)
    BY <1>1, <1>2, QuietIs
  <2>. QED BY <1>3, <2>1, BalSet
<1>5. ASSUME NEW c \in Assets PROVE Kept(world', c) = gifts'[c]
  <2>1. /\ world.voided \in Nat /\ world.bal[This][c] \in Nat
        /\ Kept(world, c) = gifts[c] /\ gifts \in [Assets -> Int]
    BY <1>1, QuietIs, KeptIs
  <2>2. gifts'[c] = gifts[c] + IF c = a THEN 1 ELSE 0
    BY <1>1, <2>1
  <2>3. Kept(world', c) = Kept(world, c) + IF c = a THEN 1 ELSE 0
    BY <1>3, <1>4, <2>1 DEF Kept
  <2>. QED BY <2>1, <2>2, <2>3
<1>6. gifts' \in [Assets -> Int]
  BY <1>1, QuietIs
<1>. QED BY <1>1, <1>4, <1>5, <1>6, QuietIs, QuietKeeps

LEMMA SweepKeeps ==
  ASSUME CallsInv, NEW a \in Assets, Sweep(a)
  PROVE  CallsInv'
<1>1. /\ Quiet /\ UNCHANGED <<clock, peer, quote, stack>>
      /\ gifts' = [gifts EXCEPT ![a] = @ - world.bal[This][a]]
      /\ world' = [world EXCEPT !.bal = [world.bal EXCEPT ![This][a] = 0]]
  BY DEF Sweep, WithBal
<1>2. PICK b : b = [world.bal EXCEPT ![This][a] = 0]
  OBVIOUS
<1>3. /\ b \in Ledger /\ b[This][a] = 0
      /\ \A c \in Assets : c # a => b[This][c] = world.bal[This][c]
  <2>1. world.bal \in Ledger /\ This \in Holders
    BY <1>1, QuietIs, KeptIs
  <2>. QED BY <1>2, <2>1 DEF Ledger
<1>4. WorldOK(world') /\ world'.bal = b /\ world'.voided = world.voided
  <2>1. world' = [world EXCEPT !.bal = b] /\ WorldOK(world)
    BY <1>1, <1>2, QuietIs
  <2>. QED BY <1>3, <2>1, BalSet
<1>5. ASSUME NEW c \in Assets PROVE Kept(world', c) = gifts'[c]
  <2>1. /\ world.voided \in Nat /\ world.bal[This][c] \in Nat
        /\ Kept(world, c) = gifts[c] /\ gifts \in [Assets -> Int]
    BY <1>1, QuietIs, KeptIs
  <2>2. gifts'[c] = gifts[c] - IF c = a THEN world.bal[This][c] ELSE 0
    BY <1>1, <2>1
  <2>3. Kept(world', c) = Kept(world, c) - IF c = a THEN world.bal[This][c] ELSE 0
    BY <1>3, <1>4, <2>1 DEF Kept
  <2>. QED BY <2>1, <2>2, <2>3
<1>6. gifts' \in [Assets -> Int]
  <2>1. world.bal[This][a] \in Int
    BY <1>1, QuietIs, KeptIs
  <2>. QED BY <1>1, <2>1, QuietIs
<1>. QED BY <1>1, <1>4, <1>5, <1>6, QuietIs, QuietKeeps

------------------------------------------------------------------------------
LEMMA CallsInit == Init => CallsInv
<1>. SUFFICES ASSUME Init PROVE CallsInv
  OBVIOUS
<1>1. stack = <<>> /\ stack \in Seq(Frame) /\ Len(stack) = 0 /\ Bottom = world
  BY DEF Init, Bottom
<1>2. PICK b : b = [h \in Holders |-> [a \in Assets |-> IF h \in Users THEN Funds ELSE 0]]
  OBVIOUS
<1>3. b \in Ledger /\ \A a \in Assets : b[This][a] = 0
  BY <1>2 DEF Ledger, Holders
<1>4. world = [bal |-> b, fills |-> [f \in Fills |-> None], orders |-> <<>>,
               paid |-> [f \in Fills |-> None], voided |-> 0]
  BY <1>2 DEF Init
<1>5. WorldOK(world)
  <2>1. world \in World
    BY <1>3, <1>4 DEF World, Ledger
  <2>. QED BY <1>4, <2>1 DEF WorldOK
<1>6. /\ gifts \in [Assets -> Int]
      /\ \A a \in Assets : Kept(world, a) = gifts[a]
  BY <1>3, <1>4 DEF Init, Kept
<1>7. \A i \in 1 .. Len(stack) : FrameOK(stack[i], clock) /\ Between(stack[i], After(i))
  BY <1>1
<1>8. clock \in Nat /\ peer \in Peers \cup {NoPeer} /\ quote \in Quotes \cup {Disabled}
  BY DEF Init
<1>. QED BY <1>1, <1>5, <1>6, <1>7, <1>8 DEF CallsInv

LEMMA CallsNext == CallsInv /\ [Next]_vars => CallsInv'
<1>. SUFFICES ASSUME CallsInv, [Next]_vars PROVE CallsInv'
  OBVIOUS
<1>1. CASE Calls
  <2>1. PICK u \in Users :
          \/ \E f \in Fills, override \in Overrides \cup {None} : Redeem(u, f, override)
          \/ \E r \in Requests : Initiate(u, r)
    BY <1>1 DEF Calls
  <2>. QED BY <2>1, RedeemKeeps, InitiateKeeps
<1>2. CASE Swaps
  <2>1. CASE \E spent \in 0 .. Funds, got \in 0 .. MaxOut : RouterSwaps(spent, got)
    <3>1. Funds \in Nat /\ MaxOut \in Nat
      OBVIOUS
    <3>2. PICK spent \in Nat, got \in Nat : RouterSwaps(spent, got)
      BY <2>1, <3>1
    <3>. QED BY <3>2, RouterSwapsKeeps
  <2>2. CASE RedeemSwapped
    BY <2>2, RedeemSwappedKeeps
  <2>3. CASE RedeemSwapFails
    BY <2>3, RedeemSwapFailsKeeps
  <2>4. CASE InitiateSwapped
    BY <2>4, InitiateSwappedKeeps
  <2>5. CASE Refunded
    BY <2>5, RefundedKeeps
  <2>. QED BY <1>2, <2>1, <2>2, <2>3, <2>4, <2>5 DEF Swaps
<1>3. CASE Pays
  <2>1. CASE DeliverEth
    BY <2>1, DeliverEthKeeps
  <2>2. CASE DeliverDropoff
    BY <2>2, DeliverDropoffKeeps
  <2>3. CASE DeliverToken
    BY <2>3, DeliverTokenKeeps
  <2>4. CASE Return
    BY <2>4, ReturnKeeps
  <2>5. CASE PlaceOrder
    BY <2>5, PlaceOrderKeeps
  <2>6. CASE Revert
    BY <2>6, RevertKeeps
  <2>. QED BY <1>3, <2>1, <2>2, <2>3, <2>4, <2>5, <2>6 DEF Pays
<1>4. CASE \E f \in Fills, fill \in Incoming : Arrive(f, fill)
  BY <1>4, ArriveKeeps
<1>5. CASE Tick
  BY <1>5, TickKeeps
<1>6. CASE \E a \in Assets : Sweep(a) \/ \E u \in Users : Donate(u, a)
  BY <1>6, SweepKeeps, DonateKeeps
<1>7. CASE \E p \in Peers \cup {NoPeer}, q \in Quotes \cup {Disabled} : UpdatePeer(p, q)
  BY <1>7, UpdatePeerKeeps
<1>8. CASE UNCHANGED vars
  <2>1. After(0)' = After(0) /\ \A i : After(i)' = After(i)
    BY <1>8 DEF vars, After
  <2>2. Bottom' = Bottom
    BY <1>8 DEF vars, Bottom
  <2>. QED BY <1>8, <2>1, <2>2 DEF vars, CallsInv
<1>. QED BY <1>1, <1>2, <1>3, <1>4, <1>5, <1>6, <1>7, <1>8 DEF Next

(* At every moment the contract holds for every call in progress, suspended *)
(* or not, exactly what that call still owes, and every fill paid and order *)
(* placed so far is as it should be (redeem, initiate and _swap).           *)
THEOREM CallsKept == Spec => []CallsInv
<1>1. Init => CallsInv
  BY CallsInit
<1>2. CallsInv /\ [Next]_vars => CallsInv'
  BY CallsNext
<1>. QED BY <1>1, <1>2, PTL DEF Spec

(* Between transactions the contract holds what was given to it, less what  *)
(* swaps took for no output: no nesting of calls leaves it more or less.    *)
THEOREM NothingKept == Spec => []KeepsNothing
<1>1. CallsInv => KeepsNothing
  <2>. SUFFICES ASSUME CallsInv, Quiet, NEW a \in Assets
                PROVE  world.bal[This][a] + (IF a = "usdc" THEN world.voided ELSE 0) = gifts[a]
    BY DEF KeepsNothing
  <2>. QED BY QuietIs DEF Kept
<1>. QED BY <1>1, CallsKept, PTL

(* Every fill that redeem has paid was paid as its message, or its          *)
(* recipient's own params, asked for.                                       *)
THEOREM FillsPaid == Spec => []FillPaid
<1>1. CallsInv => FillPaid
  <2>. SUFFICES ASSUME CallsInv, NEW f \in Fills, world.paid[f] # None
                PROVE  PaidOK(world.paid[f])
    BY DEF FillPaid, Paid, PaidOK
  <2>. QED BY DEF CallsInv, WorldOK
<1>. QED BY <1>1, CallsKept, PTL

(* Every order that initiate has placed carries what its sender asked for.  *)
THEOREM OrdersHonoured == Spec => []OrderHonoured
<1>1. CallsInv => OrderHonoured
  <2>. SUFFICES ASSUME CallsInv, NEW i \in 1 .. Len(world.orders)
                PROVE  OrderOK(world.orders[i])
    BY DEF OrderHonoured, OrderOK
  <2>. QED BY DEF CallsInv, WorldOK
<1>. QED BY <1>1, CallsKept, PTL

(* The call that has control can pay what it still owes.                    *)
THEOREM CallsBacked == Spec => []Backed
<1>1. CallsInv => Backed
  <2>. SUFFICES ASSUME CallsInv, ~Quiet PROVE Backed
    BY DEF Backed
  <2>1. PICK fr : fr = Top
    OBVIOUS
  <2>2. /\ FrameOK(fr, clock) /\ Between(fr, world) /\ WorldOK(world) /\ WorldOK(fr.entry)
    BY <2>1, TopIs DEF CallsInv, FrameOK
  <2>3. /\ fr.in \in Nat /\ fr.amount \in Nat /\ fr.dropoff \in Nat
        /\ fr.src \in Assets /\ fr.token \in Assets /\ "eth" \in Assets /\ "usdc" \in Assets
        /\ fr.token # "eth" /\ fr.src # "eth"
    BY <2>2, HeldAtCallType, KindsAre DEF Assets
  <2>4. /\ \A a \in Assets : world.bal[This][a] \in Nat /\ fr.entry.bal[This][a] \in Nat
        /\ world.voided \in Nat /\ fr.entry.voided \in Nat
    BY <2>2, KeptIs
  <2>5. PICK ether \in Nat : ether = HeldAtCall(fr, "eth")
    BY <2>2, <2>3, HeldAtCallType
  <2>6. /\ fr.pc = "router" =>
              Held(fr, fr.src) >= fr.in /\ \A a \in Assets : Held(fr, a) \in Nat
        /\ fr.pc \in {"deliver", "dropped"} =>
              \A a \in Assets : Held(fr, a) = (IF a = fr.token THEN fr.amount ELSE 0)
                + (IF a = "eth" /\ fr.pc = "deliver" THEN fr.dropoff ELSE 0)
        /\ fr.pc = "order" =>
              \A a \in Assets : Held(fr, a) =
                (IF a = "usdc" THEN fr.amount ELSE 0) + (IF a = "eth" THEN ether ELSE 0)
    <3>1. CASE fr.pc = "router"
      <4>1. \A a \in Assets : Held(fr, a) = HeldAtCall(fr, a) /\ HeldAtCall(fr, a) \in Nat
        BY <2>2, <3>1, HeldAtCallType DEF Held
      <4>2. HeldAtCall(fr, fr.src) = fr.in
        BY <2>3 DEF HeldAtCall
      <4>. QED BY <2>3, <3>1, <4>1, <4>2
    <3>2. CASE fr.pc = "deliver"
      BY <2>3, <3>2 DEF Held
    <3>3. CASE fr.pc = "dropped"
      BY <2>3, <3>3 DEF Held
    <3>4. CASE fr.pc = "order"
      <4>1. fr.op = "initiate"
        BY <2>2, <3>4, KindsAre
      <4>. QED BY <2>3, <2>5, <3>4, <4>1 DEF Held, HeldAtCall
    <3>. QED BY <3>1, <3>2, <3>3, <3>4
  <2>7. fr.pc \in {"router", "deliver", "dropped", "order"} =>
          \A a \in Assets : a # "usdc" \/ world.voided = fr.entry.voided =>
            world.bal[This][a] >= Held(fr, a)
    <3>1. SUFFICES ASSUME fr.pc \in {"router", "deliver", "dropped", "order"},
                          NEW a \in Assets, a # "usdc" \/ world.voided = fr.entry.voided
                   PROVE  world.bal[This][a] >= Held(fr, a)
      OBVIOUS
    <3>2. Kept(world, a) = Kept(fr.entry, a) + Held(fr, a)
      BY <2>2 DEF Between
    <3>3. Held(fr, a) \in Int
      <4>1. CASE fr.pc = "router"
        BY <2>6, <4>1
      <4>2. CASE fr.pc \in {"deliver", "dropped"}
        BY <2>3, <2>6, <4>2
      <4>3. CASE fr.pc = "order"
        BY <2>3, <2>6, <4>3
      <4>. QED BY <3>1, <4>1, <4>2, <4>3
    <3>. QED BY <2>4, <3>1, <3>2, <3>3 DEF Kept
  <2>8. fr.pc = "deliver" => world.bal[This]["eth"] >= fr.dropoff
    BY <2>3, <2>4, <2>6, <2>7
  <2>9. fr.pc = "order" => world.bal[This]["eth"] >= ether
    BY <2>3, <2>4, <2>6, <2>7
  <2>10. fr.pc = "order" => ether = IF fr.src = "weth" THEN WormholeFee(fr.id) ELSE fr.id.value
    <3>1. fr.pc = "order" => fr.op = "initiate"
      BY <2>2, KindsAre
    <3>2. ether \in Int /\ (fr.op = "initiate" =>
            ether = 0 + IF fr.src = "weth" THEN WormholeFee(fr.id) ELSE fr.id.value)
      BY <2>3, <2>5 DEF HeldAtCall
    <3>3. fr.op = "initiate" => WormholeFee(fr.id) \in Int /\ fr.id.value \in Int
      <4>1. fr.op = "initiate" => fr.id \in Request
        BY <2>2 DEF FrameOK, InitiateOK
      <4>2. MessageFee \in Nat
        OBVIOUS
      <4>. QED BY <4>1, <4>2 DEF Request, WormholeFee
    <3>. QED BY <3>1, <3>2, <3>3
  <2>11. world.voided = fr.entry.voided =>
           /\ fr.pc = "router" => world.bal[This][fr.src] >= fr.in
           /\ fr.pc \in {"deliver", "dropped"} => world.bal[This][fr.token] >= fr.amount
           /\ fr.pc = "order" => world.bal[This]["usdc"] >= fr.amount
    <3>1. SUFFICES ASSUME world.voided = fr.entry.voided
                   PROVE  /\ fr.pc = "router" => world.bal[This][fr.src] >= fr.in
                          /\ fr.pc \in {"deliver", "dropped"} =>
                               world.bal[This][fr.token] >= fr.amount
                          /\ fr.pc = "order" => world.bal[This]["usdc"] >= fr.amount
      OBVIOUS
    <3>2. fr.pc = "router" => world.bal[This][fr.src] >= fr.in
      <4>1. ASSUME fr.pc = "router" PROVE world.bal[This][fr.src] >= fr.in
        <5>1. Held(fr, fr.src) >= fr.in /\ Held(fr, fr.src) \in Nat
          BY <2>3, <2>6, <4>1
        <5>2. world.bal[This][fr.src] >= Held(fr, fr.src)
          BY <2>3, <2>7, <3>1, <4>1
        <5>. QED BY <2>3, <2>4, <5>1, <5>2
      <4>. QED BY <4>1
    <3>3. fr.pc \in {"deliver", "dropped"} => world.bal[This][fr.token] >= fr.amount
      BY <2>3, <2>4, <2>6, <2>7, <3>1
    <3>4. fr.pc = "order" => world.bal[This]["usdc"] >= fr.amount
      BY <2>3, <2>4, <2>6, <2>7, <3>1
    <3>. QED BY <3>2, <3>3, <3>4
  <2>. QED BY <2>1, <2>8, <2>9, <2>10, <2>11 DEF Backed, Has
<1>. QED BY <1>1, CallsKept, PTL
=============================================================================
