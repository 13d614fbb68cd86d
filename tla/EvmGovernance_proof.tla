------------------------ MODULE EvmGovernance_proof ------------------------
(***************************************************************************)
(* Proofs about the governance of the EVM swap layer, for any addresses,   *)
(* chains, fee parameters, sizes of batches and depths of nesting.         *)
(***************************************************************************)
EXTENDS EvmGovernance, SequenceTheorems, TLAPS

Params == [Fields -> Values \union {Bad}]
Governed ==
  [owner : Candidates, pendingOwner : Candidates, assistant : Candidates,
   feeUpdater : Candidates, feeRecipient : Candidates,
   peers : [Chains -> Peers \union {NoPeer}], fees : [Chains -> Params],
   implementation : Implementations, named : SUBSET Candidates,
   granted : BOOLEAN, stale : BOOLEAN]
CommandFrame ==
  [kind : {"commands"}, pc : {"next", "sweeping", "last"}, sender : Keys, isOwner : BOOLEAN,
   entry : Governed, done : Nat]
FeeFrame ==
  [kind : {"fees"}, pc : {"next"}, sender : Keys, curChain : Chains \union {NoChain},
   curParams : Params, entry : Governed, done : Nat, asked : [Chains -> Params]]
Frames == CommandFrame \union FeeFrame

\* What holds of the state now and of each state that a revert may bring back: the
\* pending owner was named too, and with the ownership relinquished there is none.
Sound(g) ==
  /\ g \in Governed
  /\ g.owner \in g.named \union {Zero} /\ g.pendingOwner \in g.named \union {Zero}
  /\ g.owner = Zero /\ ~g.stale => g.pendingOwner = Zero

\* A fee batch calls nobody, so only the innermost frame may be one.
Shapes ==
  /\ Sound(gov) /\ stack \in Seq(Frames)
  /\ \A i \in 1..Len(stack) : Sound(stack[i].entry)
  /\ \A i \in 1..Len(stack) : i < Len(stack) => stack[i] \in CommandFrame

\* In a state g that the first n frames may go on from, either the owner took part or
\* nothing of his has changed and none of them has his privilege.
Unprivileged(g, n) ==
  ~g.granted => /\ Reserved(stack[1].entry, g)
                /\ \A i \in 1..n : stack[i] \in CommandFrame => ~stack[i].isOwner
Bounded ==
  /\ Len(stack) > 0 => Unprivileged(gov, Len(stack))
  /\ \A i \in 1..Len(stack) : i > 1 => Unprivileged(stack[i].entry, i - 1)

\* The working copy, once written, is all that was asked for.
Working ==
  \A i \in 1..Len(stack) :
    i = Len(stack) /\ stack[i] \in FeeFrame =>
      stack[i].asked = IF stack[i].curChain = NoChain THEN gov.fees
                       ELSE [gov.fees EXCEPT ![stack[i].curChain] = stack[i].curParams]

Inv == Shapes /\ Bounded /\ Working

------------------------------------------------------------------------------
LEMMA KindOfFrame ==
  ASSUME NEW fr \in Frames
  PROVE  /\ fr \in CommandFrame <=> fr.kind = "commands"
         /\ fr \in FeeFrame <=> fr.kind = "fees"
         /\ fr.entry \in Governed /\ fr.sender \in Keys /\ fr.done \in Nat
BY DEF Frames, CommandFrame, FeeFrame

LEMMA ReservedReflexive == ASSUME NEW g \in Governed PROVE Reserved(g, g)
BY DEF Reserved

LEMMA ReservedTransitive ==
  ASSUME NEW g, NEW h, NEW k, Reserved(g, h), Reserved(h, k)
  PROVE  Reserved(g, k)
BY DEF Reserved

\* A state that satisfies the invariant has an innermost frame, if it has one, of a kind.
LEMMA TopFrame ==
  ASSUME Inv, ~Idle
  PROVE  /\ Len(stack) \in Nat /\ Len(stack) > 0 /\ Len(stack) \in 1..Len(stack)
         /\ Top \in Frames /\ Sound(Top.entry)
<1>1. stack \in Seq(Frames) /\ stack # <<>>
  BY DEF Inv, Shapes, Idle
<1>2. Len(stack) \in Nat /\ Len(stack) > 0
  BY <1>1
<1>. QED BY <1>1, <1>2 DEF Inv, Shapes, Top

------------------------------------------------------------------------------
(* The three things that happen to the stack.                               *)

\* A batch begins.
LEMMA Push ==
  ASSUME Inv, Idle \/ Top \in CommandFrame, NEW fr \in Frames, fr.entry = gov,
         stack' = Append(stack, fr), Sound(gov'),
         \* the owner's batch, or one that changes nothing
         \/ gov'.granted
         \/ /\ Reserved(gov, gov')
            /\ fr \in CommandFrame => ~fr.isOwner
            /\ Idle \/ gov.granted = gov'.granted,
         fr \in FeeFrame => fr.curChain = NoChain /\ fr.asked = gov'.fees
  PROVE  Inv'
<1>1. stack \in Seq(Frames) /\ Len(stack) \in Nat
  BY DEF Inv, Shapes
<1>2. /\ stack' \in Seq(Frames) /\ Len(stack') = Len(stack) + 1 /\ stack'[Len(stack')] = fr
      /\ \A i \in 1..Len(stack) : stack'[i] = stack[i]
  BY <1>1
<1>3. Shapes'
  <2>1. \A i \in 1..Len(stack') : Sound(stack'[i].entry)
    BY <1>1, <1>2 DEF Inv, Shapes
  <2>2. \A i \in 1..Len(stack') : i < Len(stack') => stack'[i] \in CommandFrame
    BY <1>1, <1>2 DEF Inv, Shapes, Top, Idle
  <2>. QED BY <1>2, <2>1, <2>2 DEF Shapes
<1>4. Bounded'
  <2>1. Unprivileged(gov, Len(stack))'
    <3>1. SUFFICES ASSUME ~gov'.granted
                   PROVE  /\ Reserved(stack'[1].entry, gov')
                          /\ \A i \in 1..Len(stack') : stack'[i] \in CommandFrame => ~stack'[i].isOwner
      BY DEF Unprivileged
    <3>0. Reserved(gov, gov') /\ (fr \in CommandFrame => ~fr.isOwner)
      BY <3>1
    <3>2. CASE Idle
      <4>1. Len(stack) = 0 /\ Len(stack') = 1 /\ stack'[1] = fr
        BY <1>2, <3>2 DEF Idle
      <4>. QED BY <3>0, <4>1
    <3>3. CASE ~Idle
      <4>1. Len(stack) > 0 /\ ~gov.granted
        BY <3>1, <3>3, TopFrame
      <4>2. /\ Reserved(stack[1].entry, gov)
            /\ \A i \in 1..Len(stack) : stack[i] \in CommandFrame => ~stack[i].isOwner
        BY <4>1 DEF Inv, Bounded, Unprivileged
      <4>3. Reserved(stack'[1].entry, gov')
        BY <1>1, <1>2, <3>0, <4>1, <4>2, ReservedTransitive
      <4>4. \A i \in 1..Len(stack') : i \in 1..Len(stack) \/ i = Len(stack')
        BY <1>1, <1>2
      <4>. QED BY <1>2, <3>0, <4>2, <4>3, <4>4
    <3>. QED BY <3>2, <3>3
  <2>2. ASSUME NEW i \in 1..Len(stack'), i > 1 PROVE Unprivileged(stack[i].entry, i - 1)'
    <3>1. CASE i \in 1..Len(stack)
      BY <1>1, <1>2, <2>2, <3>1 DEF Inv, Bounded, Unprivileged
    <3>2. CASE i = Len(stack) + 1
      BY <1>1, <1>2, <2>2, <3>2 DEF Inv, Bounded, Unprivileged
    <3>. QED BY <1>1, <1>2, <3>1, <3>2
  <2>. QED BY <2>1, <2>2 DEF Bounded
<1>5. Working'
  BY <1>1, <1>2 DEF Working
<1>. QED BY <1>3, <1>4, <1>5 DEF Inv

\* A command of a batch ran.
LEMMA Advance ==
  ASSUME Inv, ~Idle, Top \in CommandFrame,
         NEW fr \in CommandFrame, fr.isOwner = Top.isOwner, fr.entry = Top.entry,
         stack' = WithTop(fr), Sound(gov'), gov'.granted = gov.granted,
         Top.isOwner \/ Reserved(gov, gov')
  PROVE  Inv'
<1> DEFINE n == Len(stack)
<1>1. stack \in Seq(Frames) /\ n \in Nat /\ n > 0 /\ stack[n] = Top /\ Sound(Top.entry)
  BY TopFrame DEF Inv, Shapes, Top
<1>2. /\ stack' \in Seq(Frames) /\ Len(stack') = n /\ stack'[n] = fr
      /\ \A i \in 1..n : i < n => stack'[i] = stack[i]
  BY <1>1 DEF WithTop, Frames
<1>3. \A i \in 1..n : /\ stack'[i].entry = stack[i].entry
                      /\ stack'[i] \in CommandFrame /\ stack[i] \in CommandFrame
                      /\ stack'[i].isOwner = stack[i].isOwner
  BY <1>1, <1>2 DEF Inv, Shapes
<1>4. Shapes'
  BY <1>1, <1>2, <1>3 DEF Inv, Shapes
<1>5. Bounded'
  <2>1. Unprivileged(gov, Len(stack))'
    <3>1. SUFFICES ASSUME ~gov'.granted
                   PROVE  /\ Reserved(stack'[1].entry, gov')
                          /\ \A i \in 1..n : ~stack'[i].isOwner
      BY <1>2 DEF Unprivileged
    <3>2. /\ Reserved(stack[1].entry, gov)
          /\ \A i \in 1..n : ~stack[i].isOwner
      BY <1>1, <1>3, <3>1 DEF Inv, Bounded, Unprivileged
    <3>3. Reserved(gov, gov')
      BY <1>1, <3>2
    <3>4. Reserved(stack[1].entry, gov')
      BY <3>2, <3>3, ReservedTransitive
    <3>. QED BY <1>1, <1>3, <3>2, <3>4
  <2>2. ASSUME NEW i \in 1..Len(stack'), i > 1 PROVE Unprivileged(stack[i].entry, i - 1)'
    BY <1>1, <1>2, <1>3, <2>2 DEF Inv, Bounded, Unprivileged
  <2>. QED BY <2>1, <2>2 DEF Bounded
<1>6. Working'
  <2>1. \A i \in 1..n : stack'[i] \notin FeeFrame
    BY <1>3 DEF CommandFrame, FeeFrame
  <2>. QED BY <1>2, <2>1 DEF Working
<1>. QED BY <1>4, <1>5, <1>6 DEF Inv

\* A batch ends or is undone.
LEMMA Pop ==
  ASSUME Inv, ~Idle, stack' = Popped,
         \/ gov' = Top.entry
         \/ Sound(gov') /\ gov'.granted = gov.granted /\ Reserved(gov, gov')
  PROVE  Inv'
<1> DEFINE n == Len(stack)
<1>1. stack \in Seq(Frames) /\ n \in Nat /\ n > 0 /\ stack[n] = Top /\ Sound(Top.entry)
  BY TopFrame DEF Inv, Shapes, Top
<1>2. /\ stack' \in Seq(Frames) /\ Len(stack') = n - 1
      /\ \A i \in 1..n-1 : stack'[i] = stack[i] /\ stack[i] \in CommandFrame
  <2>1. stack' = SubSeq(stack, 1, n - 1) /\ n - 1 \in 0..n
    BY <1>1 DEF Popped
  <2>2. /\ stack' \in Seq(Frames) /\ Len(stack') = n - 1
        /\ \A i \in 1..n-1 : stack'[i] = stack[i]
    <3>1. \A i \in 1..n-1 : stack[i] \in Frames
      BY <1>1
    <3>2. 1 \in Int /\ n - 1 \in Int
      BY <1>1
    <3>. HIDE DEF n
    <3>3. /\ SubSeq(stack, 1, n - 1) \in Seq(Frames)
          /\ Len(SubSeq(stack, 1, n - 1)) = IF 1 <= n - 1 THEN n - 1 - 1 + 1 ELSE 0
          /\ \A i \in 1..n - 1 - 1 + 1 : SubSeq(stack, 1, n - 1)[i] = stack[1 + i - 1]
      BY <3>1, <3>2, SubSeqProperties
    <3>. QED BY <1>1, <2>1, <3>3
  <2>3. \A i \in 1..n-1 : stack[i] \in CommandFrame
    BY <1>1 DEF Inv, Shapes
  <2>. QED BY <2>2, <2>3
<1>3. Shapes'
  BY <1>1, <1>2 DEF Inv, Shapes
<1>4. Bounded'
  <2>1. ASSUME n > 1 PROVE Unprivileged(gov, Len(stack))'
    <3>1. CASE gov' = Top.entry
      <4>1. n \in 1..n /\ Unprivileged(stack[n].entry, n - 1)
        BY <1>1, <2>1 DEF Inv, Bounded
      <4>. QED BY <1>1, <1>2, <2>1, <3>1, <4>1 DEF Unprivileged
    <3>2. CASE gov'.granted = gov.granted /\ Reserved(gov, gov')
      <4>1. SUFFICES ASSUME ~gov'.granted
                     PROVE  /\ Reserved(stack'[1].entry, gov')
                            /\ \A i \in 1..n-1 : stack'[i] \in CommandFrame => ~stack'[i].isOwner
        BY <1>2 DEF Unprivileged
      <4>2. /\ Reserved(stack[1].entry, gov)
            /\ \A i \in 1..n : stack[i] \in CommandFrame => ~stack[i].isOwner
        BY <1>1, <3>2, <4>1 DEF Inv, Bounded, Unprivileged
      <4>3. Reserved(stack[1].entry, gov')
        BY <3>2, <4>2, ReservedTransitive
      <4>. QED BY <1>1, <1>2, <2>1, <4>2, <4>3
    <3>. QED BY <3>1, <3>2
  <2>2. ASSUME NEW i \in 1..Len(stack'), i > 1 PROVE Unprivileged(stack[i].entry, i - 1)'
    BY <1>1, <1>2, <2>2 DEF Inv, Bounded, Unprivileged
  <2>. QED BY <1>1, <1>2, <2>1, <2>2 DEF Bounded
<1>5. Working'
  <2>1. \A i \in 1..n-1 : stack'[i] \notin FeeFrame
    BY <1>2 DEF CommandFrame, FeeFrame
  <2>. QED BY <1>2, <2>1 DEF Working
<1>. QED BY <1>3, <1>4, <1>5 DEF Inv

------------------------------------------------------------------------------
(* Commands.                                                                *)

\* Every command is Advance with one more command done.
LEMMA RunsCommand ==
  ASSUME Inv, NEW next \in {"next", "sweeping", "last"}, Command(next),
         Sound(gov'), gov'.granted = gov.granted, Top.isOwner \/ Reserved(gov, gov')
  PROVE  Inv'
<1> DEFINE fr == [Top EXCEPT !.done = @ + 1, !.pc = next]
<1>1. ~Idle /\ Top.kind = "commands" /\ stack' = WithTop(fr)
  BY DEF Command, At
<1>2. Top \in CommandFrame
  BY <1>1, TopFrame, KindOfFrame
<1>3. fr \in CommandFrame /\ fr.isOwner = Top.isOwner /\ fr.entry = Top.entry
  <2>1. PICK n \in Nat : n = Top.done + 1
    BY <1>2 DEF CommandFrame
  <2>2. fr = [Top EXCEPT !.done = n, !.pc = next]
    BY <2>1
  <2>3. \A t \in CommandFrame, m \in Nat :
          LET u == [t EXCEPT !.done = m, !.pc = next]
          IN u \in CommandFrame /\ u.isOwner = t.isOwner /\ u.entry = t.entry
    BY DEF CommandFrame
  <2>. QED BY <1>2, <2>2, <2>3
<1>. QED BY <1>1, <1>2, <1>3, Advance

\* Whoever runs a command is a key, never the zero address.
LEMMA SenderIsKey ==
  ASSUME Inv, NEW next, Command(next)
  PROVE  Top.sender \in Keys /\ Top.sender # Zero
BY TopFrame, KindOfFrame, GovernanceAssumption DEF Command, At

LEMMA PeerCommand ==
  ASSUME Inv, NEW c \in Chains, NEW p \in Peers \union {NoPeer}, NEW e \in Encodings, UpdatePeer(c, p, e)
  PROVE  Inv'
<1> USE GovernanceAssumption
<1>1. gov \in Governed /\ Sound(gov)
  BY DEF Inv, Shapes, Sound
<1>2. e \in Params /\ ZeroFees \in Params
  BY DEF Params, ZeroFees
<1>3. /\ Command("next")
      /\ p # gov.peers[c] => gov.peers[c] = NoPeer \/ Top.isOwner
      /\ gov' = [gov EXCEPT !.peers[c] = p, !.fees[c] = IF p = NoPeer THEN ZeroFees ELSE e]
  BY DEF UpdatePeer, PeerChangeAllowed
<1>4. Sound(gov') /\ gov'.granted = gov.granted
  BY <1>1, <1>2, <1>3 DEF Sound, Governed
<1>5. Top.isOwner \/ Reserved(gov, gov')
  BY <1>1, <1>3 DEF Reserved, Governed
<1>. QED BY <1>3, <1>4, <1>5, RunsCommand

LEMMA SweepCommand ==
  ASSUME Inv, SweepEther
  PROVE  Inv'
<1>1. Command("sweeping") /\ gov' = gov
  BY DEF SweepEther
<1>2. Sound(gov') /\ Reserved(gov, gov')
  BY <1>1, ReservedReflexive DEF Inv, Shapes, Sound
<1>. QED BY <1>1, <1>2, RunsCommand

\* The commands of the assistant that change his own roles.
LEMMA RoleCommand ==
  ASSUME Inv, NEW k \in Candidates, UpdateFeeUpdater(k) \/ UpdateAssistant(k)
  PROVE  Inv'
<1>1. gov \in Governed /\ Sound(gov)
  BY DEF Inv, Shapes, Sound
<1>2. /\ Command("next")
      /\ gov' = [gov EXCEPT !.feeUpdater = k] \/ gov' = [gov EXCEPT !.assistant = k]
  BY DEF UpdateFeeUpdater, UpdateAssistant
<1>3. Sound(gov') /\ gov'.granted = gov.granted /\ Reserved(gov, gov')
  BY <1>1, <1>2 DEF Sound, Governed, Reserved
<1>. QED BY <1>2, <1>3, RunsCommand

\* The owner's commands.  A proposal after the ownership was relinquished is one for
\* a sender that is the owner no longer, hence stale.
LEMMA OwnerCommand ==
  ASSUME Inv,
         \/ \E k \in Candidates : UpdateFeeRecipient(k) \/ ProposeOwnershipTransfer(k)
         \/ RelinquishOwnership
         \/ \E i \in Implementations : UpgradeContract(i)
  PROVE  Inv'
<1> USE GovernanceAssumption
<1>1. gov \in Governed /\ Sound(gov)
  BY DEF Inv, Shapes, Sound
<1>2. ASSUME NEW k \in Candidates, UpdateFeeRecipient(k) PROVE Inv'
  <2>1. /\ Command("next") /\ Top.isOwner
        /\ gov' = [gov EXCEPT !.feeRecipient = k, !.stale = Stale]
    BY <1>2 DEF UpdateFeeRecipient, OwnerOnly
  <2>2. Sound(gov') /\ gov'.granted = gov.granted
    BY <1>1, <2>1 DEF Sound, Governed, Stale
  <2>. QED BY <2>1, <2>2, RunsCommand
<1>3. ASSUME NEW k \in Candidates, ProposeOwnershipTransfer(k) PROVE Inv'
  <2>1. /\ Command("next") /\ Top.isOwner
        /\ gov' = [gov EXCEPT !.pendingOwner = k, !.stale = Stale, !.named = @ \union {k}]
    BY <1>3 DEF ProposeOwnershipTransfer, OwnerOnly
  <2>2. gov.owner = Zero => Stale
    BY <2>1, SenderIsKey DEF Stale
  <2>3. Sound(gov') /\ gov'.granted = gov.granted
    BY <1>1, <2>1, <2>2 DEF Sound, Governed, Stale
  <2>. QED BY <2>1, <2>3, RunsCommand
<1>4. ASSUME RelinquishOwnership PROVE Inv'
  <2>1. /\ Command("last") /\ Top.isOwner
        /\ gov' = [OwnerUpdated(gov, Zero) EXCEPT !.stale = Stale]
    BY <1>4 DEF RelinquishOwnership, OwnerOnly
  <2>2. Sound(gov') /\ gov'.granted = gov.granted
    BY <1>1, <2>1 DEF Sound, Governed, Stale, OwnerUpdated, Candidates
  <2>. QED BY <2>1, <2>2, RunsCommand
<1>5. ASSUME NEW i \in Implementations, UpgradeContract(i) PROVE Inv'
  <2>1. /\ Command("last") /\ Top.isOwner
        /\ gov' = [gov EXCEPT !.implementation = i, !.stale = Stale]
    BY <1>5 DEF UpgradeContract, OwnerOnly
  <2>2. Sound(gov') /\ gov'.granted = gov.granted
    BY <1>1, <2>1 DEF Sound, Governed, Stale
  <2>. QED BY <2>1, <2>2, RunsCommand
<1>. QED BY <1>2, <1>3, <1>4, <1>5

LEMMA SweepComesBack ==
  ASSUME Inv, SweepReturns
  PROVE  Inv'
<1> DEFINE fr == [Top EXCEPT !.pc = "next"]
<1>1. ~Idle /\ Top.kind = "commands" /\ stack' = WithTop(fr) /\ gov' = gov
  BY DEF SweepReturns, At
<1>2. Top \in CommandFrame
  BY <1>1, TopFrame, KindOfFrame
<1>3. fr \in CommandFrame /\ fr.isOwner = Top.isOwner /\ fr.entry = Top.entry
  BY <1>2 DEF CommandFrame
<1>4. Sound(gov') /\ gov'.granted = gov.granted /\ Reserved(gov, gov')
  BY <1>1, ReservedReflexive DEF Inv, Shapes, Sound
<1>. QED BY <1>1, <1>2, <1>3, <1>4, Advance

------------------------------------------------------------------------------
(* Batches begin and end.                                                   *)

LEMMA MayCallFrame ==
  ASSUME Inv, MayCall
  PROVE  Idle \/ Top \in CommandFrame
BY TopFrame, KindOfFrame DEF MayCall, At

LEMMA CommandsBegin ==
  ASSUME Inv, NEW s \in Keys, BeginCommands(s)
  PROVE  Inv'
<1> USE GovernanceAssumption
<1>1. gov \in Governed /\ Sound(gov)
  BY DEF Inv, Shapes, Sound
<1>2. PICK isOwner \in BOOLEAN, g \in {gov, OwnerUpdated(gov, s)} :
         /\ Enter(s, isOwner, g) /\ MayCall
         /\ g # gov => isOwner /\ s = gov.pendingOwner
  BY DEF BeginCommands
<1> DEFINE fr == [kind |-> "commands", pc |-> "next", sender |-> s, isOwner |-> isOwner,
                  entry |-> gov, done |-> 0]
<1>3. /\ stack' = Append(stack, fr)
      /\ gov' = [g EXCEPT !.granted = isOwner \/ (~Idle /\ @)]
  BY <1>2 DEF Enter
<1>4. fr \in Frames /\ fr \notin FeeFrame /\ fr.entry = gov /\ fr.isOwner = isOwner
  BY <1>1 DEF Frames, CommandFrame, FeeFrame
<1>5. Sound(gov')
  <2>1. CASE g = gov
    BY <1>1, <1>3, <2>1 DEF Sound, Governed
  <2>2. CASE g # gov
    BY <1>1, <1>2, <1>3, <2>2 DEF Sound, Governed, OwnerUpdated, Candidates
  <2>. QED BY <2>1, <2>2
<1>6. ASSUME ~gov'.granted
      PROVE  Reserved(gov, gov') /\ ~isOwner /\ (Idle \/ gov.granted = gov'.granted)
  <2>1. ~isOwner /\ g = gov
    BY <1>1, <1>2, <1>3, <1>6 DEF Governed, OwnerUpdated
  <2>. QED BY <1>1, <1>3, <1>6, <2>1 DEF Governed, Reserved
<1> HIDE DEF fr
<1>. QED BY <1>2, <1>3, <1>4, <1>5, <1>6, MayCallFrame, Push

LEMMA FeesBegin ==
  ASSUME Inv, NEW s \in Keys, BeginFeeUpdates(s)
  PROVE  Inv'
<1> USE GovernanceAssumption
<1> DEFINE fr == [kind |-> "fees", pc |-> "next", sender |-> s, curChain |-> NoChain,
                  curParams |-> ZeroFees, entry |-> gov, done |-> 0, asked |-> gov.fees]
<1>1. gov \in Governed /\ Sound(gov)
  BY DEF Inv, Shapes, Sound
<1>2. /\ stack' = Append(stack, fr) /\ MayCall
      /\ gov' = [gov EXCEPT !.granted = ~Idle /\ @]
  BY DEF BeginFeeUpdates
<1>3. /\ fr \in Frames /\ fr \notin CommandFrame /\ fr.entry = gov
      /\ fr.curChain = NoChain /\ fr.asked = gov.fees
  BY <1>1 DEF Frames, CommandFrame, FeeFrame, Governed, ZeroFees, Params
<1>4. /\ Sound(gov') /\ Reserved(gov, gov') /\ gov'.fees = gov.fees
      /\ Idle \/ gov.granted = gov'.granted
  BY <1>1, <1>2 DEF Sound, Governed, Reserved
<1> HIDE DEF fr
<1>. QED BY <1>2, <1>3, <1>4, MayCallFrame, Push

\* The end of a batch, the last write of a batch of fee updates, and a revert.
LEMMA BatchEnds ==
  ASSUME Inv, EndCommands \/ EndFeeUpdates \/ Revert
  PROVE  Inv'
<1>1. gov \in Governed /\ Sound(gov)
  BY DEF Inv, Shapes, Sound
<1>2. CASE EndCommands
  <2>1. ~Idle /\ stack' = Popped /\ gov' = gov
    BY <1>2 DEF EndCommands
  <2>. QED BY <1>1, <2>1, ReservedReflexive, Pop
<1>3. CASE EndFeeUpdates
  <2>1. ~Idle /\ stack' = Popped /\ gov' = Written(gov, Top) /\ Top.kind = "fees"
    BY <1>3 DEF EndFeeUpdates, At
  <2>2. Top \in FeeFrame
    BY <2>1, TopFrame, KindOfFrame
  <2>3. Top.curChain \in Chains \union {NoChain} /\ Top.curParams \in Params
    BY <2>2 DEF FeeFrame
  <2>4. Sound(gov') /\ gov'.granted = gov.granted /\ Reserved(gov, gov')
    BY <1>1, <2>1, <2>3 DEF Written, Sound, Governed, Reserved
  <2>. QED BY <2>1, <2>4, Pop
<1>4. CASE Revert
  BY <1>4, Pop DEF Revert
<1>. QED BY <1>2, <1>3, <1>4

------------------------------------------------------------------------------
(* Fee updates.                                                             *)

\* A batch of fee updates is the innermost frame, so the invariant says of the frame
\* itself what it works on.
LEMMA FeeTop ==
  ASSUME Inv, At("fees", "next")
  PROVE  /\ ~Idle /\ Top \in FeeFrame /\ stack[Len(stack)] = Top /\ Len(stack) \in Nat /\ Len(stack) > 0
         /\ Top.curChain \in Chains \union {NoChain} /\ Top.curParams \in Params
         /\ Top.asked \in [Chains -> Params] /\ gov.fees \in [Chains -> Params]
         /\ Top.asked = IF Top.curChain = NoChain THEN gov.fees
                        ELSE [gov.fees EXCEPT ![Top.curChain] = Top.curParams]
<1>1. ~Idle /\ Top.kind = "fees"
  BY DEF At
<1>2. Top \in FeeFrame
  BY <1>1, TopFrame, KindOfFrame
<1>3. gov.fees \in [Chains -> Params]
  BY DEF Inv, Shapes, Sound, Governed
<1>4. stack[Len(stack)] = Top /\ Len(stack) \in 1..Len(stack) /\ Len(stack) \in Nat /\ Len(stack) > 0
  BY <1>1, TopFrame DEF Top
<1>5. Top.asked = IF Top.curChain = NoChain THEN gov.fees
                  ELSE [gov.fees EXCEPT ![Top.curChain] = Top.curParams]
  BY <1>2, <1>4 DEF Inv, Working
<1>. QED BY <1>1, <1>2, <1>3, <1>4, <1>5 DEF FeeFrame

\* The frame of a batch after one more update.
After(t, n, c, p, asked) ==
  [t EXCEPT !.done = n, !.curChain = c, !.curParams = p, !.asked = asked]

LEMMA FeeFrameUpdated ==
  ASSUME NEW t \in FeeFrame, NEW n \in Nat, NEW c \in Chains, NEW p \in Params,
         NEW asked \in [Chains -> Params], NEW u, u = After(t, n, c, p, asked)
  PROVE  /\ u \in FeeFrame /\ u.entry = t.entry
         /\ u.curChain = c /\ u.curParams = p /\ u.asked = asked
BY DEF FeeFrame, After

LEMMA FeeUpdated ==
  ASSUME Inv, NEW c \in Chains, NEW f \in Fields, NEW v \in Values \union {Bad}, UpdateFee(c, f, v)
  PROVE  Inv'
<1> USE GovernanceAssumption
<1> DEFINE n == Len(stack)
           cur == IF c = Top.curChain THEN Top.curParams ELSE gov.fees[c]
           p == [cur EXCEPT ![f] = v]
           asked == [Top.asked EXCEPT ![c] = [Top.asked[c] EXCEPT ![f] = v]]
           fr == [Top EXCEPT !.done = Top.done + 1, !.curChain = c, !.curParams = p, !.asked = asked]
<1>1. /\ At("fees", "next") /\ stack' = WithTop(fr) /\ gov' = Switched(Top, c)
  BY DEF UpdateFee
<1>2. /\ ~Idle /\ Top \in FeeFrame /\ stack[n] = Top /\ n \in Nat /\ n > 0
      /\ Top.curChain \in Chains \union {NoChain} /\ Top.curParams \in Params
      /\ Top.asked \in [Chains -> Params] /\ gov.fees \in [Chains -> Params]
      /\ Top.asked = IF Top.curChain = NoChain THEN gov.fees
                     ELSE [gov.fees EXCEPT ![Top.curChain] = Top.curParams]
  BY <1>1, FeeTop
<1>3. cur \in Params /\ p \in Params /\ Top.asked[c] = cur
  BY <1>2 DEF Params
<1>4. asked \in [Chains -> Params] /\ asked = [Top.asked EXCEPT ![c] = p]
  BY <1>2, <1>3
<1>5. gov \in Governed /\ Sound(gov)
  BY DEF Inv, Shapes, Sound
<1>6. /\ gov'.fees = IF Top.curChain \in {c, NoChain} THEN gov.fees
                     ELSE [gov.fees EXCEPT ![Top.curChain] = Top.curParams]
      /\ Sound(gov') /\ gov'.granted = gov.granted /\ Reserved(gov, gov')
  <2>1. gov' = gov \/ gov' = [gov EXCEPT !.fees[Top.curChain] = Top.curParams]
    BY <1>1 DEF Switched, Written
  <2>2. Top.curChain \notin {c, NoChain} => gov' = [gov EXCEPT !.fees[Top.curChain] = Top.curParams]
    BY <1>1 DEF Switched, Written
  <2>3. Top.curChain \in {c, NoChain} => gov' = gov
    BY <1>1 DEF Switched, Written
  <2>4. gov' = gov => Sound(gov') /\ gov'.granted = gov.granted /\ Reserved(gov, gov')
    BY <1>5, ReservedReflexive
  <2>5. Top.curChain \notin {c, NoChain} => Sound(gov') /\ gov'.granted = gov.granted /\ Reserved(gov, gov')
    BY <1>2, <1>5, <2>2 DEF Sound, Governed, Reserved
  <2>6. Top.curChain \notin {c, NoChain} => gov'.fees = [gov.fees EXCEPT ![Top.curChain] = Top.curParams]
    BY <1>2, <1>5, <2>2 DEF Governed
  <2>. QED BY <2>2, <2>3, <2>4, <2>5, <2>6
<1>7. asked = [gov'.fees EXCEPT ![c] = p]
  <2>. HIDE DEF p, asked, cur
  <2>. QED BY <1>2, <1>4, <1>6
<1>8. /\ fr \in FeeFrame /\ fr.entry = Top.entry
      /\ fr.curChain = c /\ fr.curParams = p /\ fr.asked = asked
  <2>1. PICK d \in Nat : d = Top.done + 1
    BY <1>2 DEF FeeFrame
  <2>2. PICK q \in Params, a \in [Chains -> Params] : q = p /\ a = asked
    BY <1>3, <1>4
  <2>3. PICK t \in FeeFrame : t = Top
    BY <1>2
  <2>4. PICK u : u = After(t, d, c, q, a)
    OBVIOUS
  <2>5. /\ u \in FeeFrame /\ u.entry = t.entry
        /\ u.curChain = c /\ u.curParams = q /\ u.asked = a
    BY <2>4, FeeFrameUpdated
  <2>. HIDE DEF p, asked, cur
  <2>6. fr = u
    BY <2>1, <2>2, <2>3, <2>4 DEF After
  <2>. HIDE DEF fr
  <2>. QED BY <2>2, <2>3, <2>5, <2>6
<1> HIDE DEF fr, p, asked, cur
<1>9. /\ stack \in Seq(Frames) /\ stack' \in Seq(Frames) /\ Len(stack') = n /\ stack'[n] = fr
      /\ \A i \in 1..n : i < n => stack'[i] = stack[i]
      /\ \A i \in 1..n : stack'[i].entry = stack[i].entry
  BY <1>1, <1>2, <1>8 DEF WithTop, Frames, Inv, Shapes
<1>10. Shapes'
  BY <1>2, <1>6, <1>9 DEF Inv, Shapes
<1>11. \A i \in 1..n : stack'[i] \in CommandFrame => i < n
  BY <1>2, <1>8, <1>9 DEF CommandFrame, FeeFrame
<1>12. Bounded'
  <2>1. Unprivileged(gov, Len(stack))'
    <3>1. SUFFICES ASSUME ~gov'.granted
                   PROVE  /\ Reserved(stack'[1].entry, gov')
                          /\ \A i \in 1..n : stack'[i] \in CommandFrame => ~stack'[i].isOwner
      BY <1>9 DEF Unprivileged
    <3>2. /\ Reserved(stack[1].entry, gov)
          /\ \A i \in 1..n : stack[i] \in CommandFrame => ~stack[i].isOwner
      BY <1>2, <1>6, <3>1 DEF Inv, Bounded, Unprivileged
    <3>3. Reserved(stack[1].entry, gov')
      BY <1>6, <3>2, ReservedTransitive
    <3>. QED BY <1>2, <1>9, <1>11, <3>2, <3>3
  <2>2. ASSUME NEW i \in 1..Len(stack'), i > 1 PROVE Unprivileged(stack[i].entry, i - 1)'
    BY <1>2, <1>9, <2>2 DEF Inv, Bounded, Unprivileged
  <2>. QED BY <2>1, <2>2 DEF Bounded
<1>13. Working'
  BY <1>2, <1>7, <1>8, <1>9 DEF Working
<1>. QED BY <1>10, <1>12, <1>13 DEF Inv

------------------------------------------------------------------------------
LEMMA Step ==
  ASSUME Inv, [Next]_vars
  PROVE  Inv'
<1>1. CASE \E s \in Keys : BeginCommands(s) \/ BeginFeeUpdates(s)
  BY <1>1, CommandsBegin, FeesBegin
<1>2. CASE Commands
  BY <1>2, PeerCommand, SweepCommand, SweepComesBack, RoleCommand, OwnerCommand, BatchEnds DEF Commands
<1>3. CASE FeeUpdates
  BY <1>3, FeeUpdated, BatchEnds DEF FeeUpdates
<1>4. CASE Revert
  BY <1>4, BatchEnds
<1>5. CASE UNCHANGED vars
  BY <1>5 DEF vars, Inv, Shapes, Bounded, Unprivileged, Working
<1>. QED BY <1>1, <1>2, <1>3, <1>4, <1>5 DEF Next

LEMMA Start == ASSUME Init PROVE Inv
<1> USE GovernanceAssumption
<1>1. gov \in Governed /\ gov.owner \in gov.named /\ gov.pendingOwner = Zero
  BY DEF Init, Construct, Governed, Candidates, Params, ZeroFees
<1>2. stack = <<>> /\ stack \in Seq(Frames) /\ Len(stack) = 0
  BY DEF Init
<1>. QED BY <1>1, <1>2 DEF Inv, Shapes, Sound, Bounded, Working

LEMMA Inductive == Spec => []Inv
<1>1. Init => Inv
  BY Start
<1>2. Inv /\ [Next]_vars => Inv'
  BY Step
<1>. QED BY <1>1, <1>2, PTL DEF Spec

\* Whatever batches run inside each other and whichever of them are undone, the owner
\* is a key that an owner named.
THEOREM OwnershipDescends == Spec => []OwnedByNamed
<1>1. Inv => OwnedByNamed
  BY DEF Inv, Shapes, Sound, OwnedByNamed
<1>. QED BY <1>1, Inductive, PTL

\* Relinquished ownership leaves no pending owner who could take it, unless an owner's
\* batch went on after it had lost the ownership.
THEOREM RelinquishedStays == Spec => []RelinquishedForGood
<1>1. Inv => RelinquishedForGood
  BY DEF Inv, Shapes, Sound, RelinquishedForGood
<1>. QED BY <1>1, Inductive, PTL

\* A transaction that the owner and the pending owner take no part in changes nothing that
\* is reserved to the owner, to any depth of nested batches.
THEOREM AssistantStaysBounded == Spec => AssistantBounded
<1>1. ASSUME Inv, Inv', [Next]_vars
      PROVE  [Len(stack) = 1 /\ stack' = <<>> /\ ~gov.granted => Reserved(stack[1].entry, gov')]_vars
  <2>1. SUFFICES ASSUME Next, Len(stack) = 1, stack' = <<>>, ~gov.granted
                 PROVE  Reserved(stack[1].entry, gov')
    BY <1>1
  <2>2. stack \in Seq(Frames) /\ ~Idle /\ Top = stack[1]
    <3>1. stack \in Seq(Frames)
      BY <1>1 DEF Inv, Shapes
    <3>2. ~Idle
      BY <2>1 DEF Idle
    <3>3. Top = stack[1]
      BY <2>1 DEF Top
    <3>. QED BY <3>1, <3>2, <3>3
  <2>3. Reserved(stack[1].entry, gov) /\ gov \in Governed /\ stack[1].entry \in Governed
    BY <1>1, <2>1, <2>2, TopFrame DEF Inv, Bounded, Unprivileged, Shapes, Sound
  <2>4. EndCommands \/ EndFeeUpdates \/ Revert
    <3>1. \A fr : Append(stack, fr) # <<>> /\ WithTop(fr) # <<>>
      <4>1. SUFFICES ASSUME NEW fr PROVE Append(stack, fr) # <<>> /\ WithTop(fr) # <<>>
        OBVIOUS
      <4>2. DOMAIN WithTop(fr) = 1 .. 1
        BY <2>1, <2>2 DEF WithTop
      <4>3. stack \in Seq(Frames \union {fr}) /\ fr \in Frames \union {fr}
        BY <2>2
      <4>4. Append(stack, fr) # <<>>
        BY <4>3, AppendProperties
      <4>5. WithTop(fr) # <<>>
        <5>1. DOMAIN <<>> = 1 .. 0
          OBVIOUS
        <5>. QED BY <4>2, <5>1
      <4>. QED BY <4>4, <4>5
    <3>2. ASSUME NEW s \in Keys, BeginCommands(s) \/ BeginFeeUpdates(s) PROVE FALSE
      BY <2>1, <3>1, <3>2 DEF BeginCommands, Enter, BeginFeeUpdates
    <3>3. ASSUME NEW next, Command(next) PROVE FALSE
      BY <2>1, <3>1, <3>3 DEF Command
    <3>4. ASSUME Commands PROVE EndCommands
      BY <2>1, <3>1, <3>3, <3>4 DEF Commands, UpdatePeer, SweepEther, SweepReturns,
         RelinquishOwnership, UpdateFeeUpdater, UpdateAssistant, UpdateFeeRecipient,
         ProposeOwnershipTransfer, UpgradeContract
    <3>5. ASSUME FeeUpdates PROVE EndFeeUpdates
      BY <2>1, <3>1, <3>5 DEF FeeUpdates, UpdateFee
    <3>. QED BY <2>1, <3>2, <3>4, <3>5 DEF Next
  <2>5. CASE EndCommands
    BY <2>3, <2>5 DEF EndCommands
  <2>6. CASE EndFeeUpdates
    BY <2>3, <2>6 DEF EndFeeUpdates, Written, Reserved, Governed
  <2>7. CASE Revert
    BY <2>2, <2>3, <2>7, ReservedReflexive DEF Revert
  <2>. QED BY <2>4, <2>5, <2>6, <2>7
<1>2. Inv /\ Inv' /\ [Next]_vars
        => [Len(stack) = 1 /\ stack' = <<>> /\ ~gov.granted => Reserved(stack[1].entry, gov')]_vars
  BY <1>1
<1>. QED BY <1>2, Inductive, PTL DEF Spec, AssistantBounded

\* A batch of fee updates leaves exactly the values it asked for, of any length and in any
\* order of chains.
THEOREM FeeBatchesExact == Spec => FeeBatchExact
<1>1. ASSUME Inv
      PROVE  \A n \in {Len(stack)} :
               n > 0 /\ stack[n].kind = "fees" /\ EndFeeUpdates => gov'.fees = stack[n].asked
  <2>1. SUFFICES ASSUME EndFeeUpdates PROVE gov'.fees = stack[Len(stack)].asked
    OBVIOUS
  <2>2. At("fees", "next") /\ gov' = Written(gov, Top) /\ gov \in Governed
    BY <1>1, <2>1 DEF EndFeeUpdates, Inv, Shapes, Sound
  <2>. QED BY <1>1, <2>2, FeeTop DEF Written, Governed
<1>2. Inv => [\A n \in {Len(stack)} :
               n > 0 /\ stack[n].kind = "fees" /\ EndFeeUpdates => gov'.fees = stack[n].asked]_vars
  BY <1>1
<1>. QED BY <1>2, Inductive, PTL DEF Spec, FeeBatchExact
=============================================================================
