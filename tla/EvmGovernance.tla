---------------------------- MODULE EvmGovernance ----------------------------
(***************************************************************************)
(* Governance of the EVM swap layer: batches of governance commands and of *)
(* fee updates.  A batch is a frame on a stack and each of its commands a  *)
(* step, because a sweep of ether hands control to the sender, who may     *)
(* send, or let others send, another batch before the first goes on.  A    *)
(* frame that reverts restores the state it entered with.                  *)
(*                                                                         *)
(* The commands of a batch are chosen as it runs, which makes every batch  *)
(* of up to MaxBatch commands.                                             *)
(***************************************************************************)
EXTENDS Naturals, Sequences

CONSTANTS
  Keys,            \* addresses
  Zero,            \* address(0)
  Owner0, Assistant0, FeeUpdater0, FeeRecipient0,  \* the proxy's constructor arguments
  Chains, NoChain, \* the other chains; chain id 0, which no chain has
  Peers, NoPeer,   \* addresses of swap layers; bytes32(0)
  Fields,          \* the parameters of a chain's FeeParams
  Margins,         \* those that are percentages
  Values, Bad,     \* values of a parameter; an encoding that checkedWrap refuses
  Encodings,       \* the fee parameters a peer is registered with
  Zeroed,          \* the value of a parameter that was never set
  Implementations, \* addresses of swap layer implementations
  MaxBatch,        \* bound: commands of a batch
  MaxUpdates,      \* bound: fee updates of a batch
  MaxDepth,        \* bound: batches inside batches
  MaxBatches       \* bound: batches sent

Candidates == Keys \union {Zero}
ZeroFees == [f \in Fields |-> Zeroed]

ASSUME GovernanceAssumption ==
  /\ Zero \notin Keys /\ NoPeer \notin Peers /\ Bad \notin Values /\ Zeroed \in Values
  /\ {Owner0, Assistant0, FeeUpdater0, FeeRecipient0} \subseteq Candidates
  /\ Encodings \subseteq [Fields -> Values \union {Bad}] /\ Margins \subseteq Fields
  /\ NoChain \notin Chains /\ Implementations # {}
  /\ {MaxBatch, MaxUpdates, MaxDepth, MaxBatches} \subseteq Nat

VARIABLES
  gov,     \* what a revert restores: roles, peers, fees, implementation, histories
  stack,   \* the batches being executed, innermost last
  sent     \* the number of batches sent

vars == <<gov, stack, sent>>

-----------------------------------------------------------------------------
(* named (history): the keys an owner made pending owner.  granted: the     *)
(* transaction has run a batch of the owner or pending owner.  stale: an    *)
(* owner-only command has run for a sender that was no longer the owner.    *)
Construct(owner, assistant, updater, recipient) ==
  [owner |-> owner, pendingOwner |-> Zero, assistant |-> assistant,
   feeUpdater |-> updater, feeRecipient |-> recipient,
   peers |-> [c \in Chains |-> NoPeer], fees |-> [c \in Chains |-> ZeroFees],
   implementation |-> CHOOSE i \in Implementations : TRUE,
   named |-> {owner}, granted |-> FALSE, stale |-> FALSE]

Init ==
  /\ FeeRecipient0 # Zero
  /\ gov = Construct(Owner0, Assistant0, FeeUpdater0, FeeRecipient0)
  /\ stack = <<>> /\ sent = 0

Idle == stack = <<>>
Top == stack[Len(stack)]
At(kind, pc) == ~Idle /\ Top.kind = kind /\ Top.pc = pc
WithTop(frame) == [stack EXCEPT ![Len(stack)] = frame]
Popped == SubSeq(stack, 1, Len(stack) - 1)

\* A transaction starts, or the receiver of swept ether calls.
MayCall ==
  /\ sent < MaxBatches
  /\ Idle \/ (At("commands", "sweeping") /\ Len(stack) < MaxDepth)

(* _updateRole                                                              *)
\* Seeded fault: the pending owner outlives a change of owner.
OwnerUpdatedOnly(g, new) == [g EXCEPT !.owner = new]
OwnerUpdated(g, new) == [g EXCEPT !.owner = new, !.pendingOwner = Zero]

RecipientAccepted(new) == new # Zero

-----------------------------------------------------------------------------
(* batchGovernanceCommands                                                  *)

Enter(sender, isOwner, g) ==
  /\ gov' = [g EXCEPT !.granted = isOwner \/ (~Idle /\ @)]
  /\ stack' = Append(stack, [kind |-> "commands", pc |-> "next", sender |-> sender,
                             isOwner |-> isOwner, entry |-> gov, done |-> 0])
  /\ sent' = sent + 1

\* The highest privilege first; the pending owner accepts by sending a batch, unless the
\* address is the assistant's too.
BeginCommands(s) ==
  /\ MayCall
  /\ \/ s = gov.owner /\ Enter(s, TRUE, gov)
     \/ s # gov.owner /\ s = gov.assistant /\ Enter(s, FALSE, gov)
     \/ s \notin {gov.owner, gov.assistant} /\ s = gov.pendingOwner
          /\ Enter(s, TRUE, OwnerUpdated(gov, s))

\* One more command of the batch; after `last` the batch must end.
Command(pc) ==
  /\ At("commands", "next") /\ Top.done < MaxBatch
  /\ stack' = WithTop([Top EXCEPT !.done = @ + 1, !.pc = pc])
  /\ UNCHANGED sent

CheckedWrap(fees) == \A f \in Margins : fees[f] # Bad

\* Seeded fault: whoever may add a peer may change it.
PeerChangeAnybody(chain) == TRUE
PeerChangeAllowed(chain) == gov.peers[chain] = NoPeer \/ Top.isOwner

\* _getPeer of a chain that is not in Chains is zero; its fee parameters are not looked at.
UpdatePeer(chain, peer, fees) ==
  /\ Command("next")
  /\ chain \in Chains
  /\ peer # gov.peers[chain] => PeerChangeAllowed(chain)
  /\ peer # NoPeer => CheckedWrap(fees)
  /\ gov' = [gov EXCEPT !.peers[chain] = peer,
                        !.fees[chain] = IF peer = NoPeer THEN ZeroFees ELSE fees]

\* The ether goes to the sender with a call, which is made even when there is none.  Swept
\* tokens give control to nobody: balances are left to EvmSwapLayer.
SweepEther == Command("sweeping") /\ UNCHANGED gov

SweepReturns ==
  /\ At("commands", "sweeping")
  /\ stack' = WithTop([Top EXCEPT !.pc = "next"])
  /\ UNCHANGED <<gov, sent>>

UpdateFeeUpdater(k) == Command("next") /\ gov' = [gov EXCEPT !.feeUpdater = k]
UpdateAssistant(k) == Command("next") /\ gov' = [gov EXCEPT !.assistant = k]

\* Seeded fault: the assistant's batch runs the owner's commands.
OwnerOnlyForAll == TRUE
\* isOwner is what it was when the batch began.
OwnerOnly == Top.isOwner
Stale == gov.stale \/ gov.owner # Top.sender

UpdateFeeRecipient(k) ==
  /\ Command("next") /\ OwnerOnly /\ RecipientAccepted(k)
  /\ gov' = [gov EXCEPT !.feeRecipient = k, !.stale = Stale]

UpgradeContract(implementation) ==
  /\ Command("last") /\ OwnerOnly
  /\ gov' = [gov EXCEPT !.implementation = implementation, !.stale = Stale]

ProposeOwnershipTransfer(k) ==
  /\ Command("next") /\ OwnerOnly
  /\ gov' = [gov EXCEPT !.pendingOwner = k, !.stale = Stale,
                        !.named = IF Top.isOwner THEN @ \union {k} ELSE @]

RelinquishOwnership ==
  /\ Command("last") /\ OwnerOnly
  /\ gov' = [OwnerUpdated(gov, Zero) EXCEPT !.stale = Stale]

\* The offset is the length of the batch.
EndCommands ==
  /\ ~Idle /\ Top.kind = "commands" /\ Top.pc \in {"next", "last"}
  /\ stack' = Popped
  /\ UNCHANGED <<gov, sent>>

-----------------------------------------------------------------------------
(* batchFeeUpdates: one chain's parameters are worked on at a time, and     *)
(* written when the chain changes and at the end.  asked is history.        *)

BeginFeeUpdates(s) ==
  /\ MayCall
  /\ s \in {gov.feeUpdater, gov.assistant, gov.owner}
  /\ gov' = [gov EXCEPT !.granted = ~Idle /\ @]
  /\ stack' = Append(stack, [kind |-> "fees", pc |-> "next", sender |-> s, curChain |-> NoChain,
                             curParams |-> ZeroFees, entry |-> gov, done |-> 0,
                             asked |-> gov.fees])
  /\ sent' = sent + 1

\* Seeded fault: what was done to the chain before is not written.
WrittenNever(g, frame) == g
\* _setFeeParams of the chain worked on, if there is one.
Written(g, frame) ==
  IF frame.curChain = NoChain THEN g ELSE [g EXCEPT !.fees[frame.curChain] = frame.curParams]

Switched(frame, chain) ==
  IF chain = frame.curChain THEN gov ELSE Written(gov, frame)

UpdateAccepted(field, value) == field \in Margins => value # Bad

\* Chain 0 and an invalid percentage revert.
UpdateFee(chain, field, value) ==
  /\ At("fees", "next") /\ Top.done < MaxUpdates
  /\ UpdateAccepted(field, value)
  /\ LET params == IF chain = Top.curChain THEN Top.curParams ELSE gov.fees[chain] IN
     stack' = WithTop([Top EXCEPT !.done = @ + 1, !.curChain = chain,
                                  !.curParams = [params EXCEPT ![field] = value],
                                  !.asked[chain][field] = value])
  /\ gov' = Switched(Top, chain)
  /\ UNCHANGED sent

EndFeeUpdates ==
  /\ At("fees", "next")
  /\ gov' = Written(gov, Top)
  /\ stack' = Popped
  /\ UNCHANGED sent

-----------------------------------------------------------------------------
\* A command that is refused, does not parse or runs out of gas: what the batch did, and
\* the batches inside it, is undone; a batch inside another takes that one with it, since
\* _transferEth reverts, or is caught by the receiver.
Revert ==
  /\ ~Idle
  /\ gov' = Top.entry
  /\ stack' = Popped
  /\ UNCHANGED sent

Commands ==
  \/ \E c \in Chains, p \in Peers \union {NoPeer}, e \in Encodings : UpdatePeer(c, p, e)
  \/ SweepEther \/ SweepReturns \/ RelinquishOwnership \/ EndCommands
  \/ \E k \in Candidates :
       UpdateFeeUpdater(k) \/ UpdateAssistant(k) \/ UpdateFeeRecipient(k)
         \/ ProposeOwnershipTransfer(k)
  \/ \E i \in Implementations : UpgradeContract(i)

FeeUpdates ==
  \/ \E c \in Chains, f \in Fields, v \in Values \union {Bad} : UpdateFee(c, f, v)
  \/ EndFeeUpdates

Next ==
  \/ \E s \in Keys : BeginCommands(s) \/ BeginFeeUpdates(s)
  \/ Commands \/ FeeUpdates \/ Revert

Spec == Init /\ [][Next]_vars

-----------------------------------------------------------------------------
(* Properties                                                               *)

\* What the comments of GovernanceCommand reserve to the owner: "only owner can change
\* existing registrations", "only available to owner".
Reserved(before, after) ==
  /\ before.owner = after.owner /\ before.pendingOwner = after.pendingOwner
  /\ before.feeRecipient = after.feeRecipient
  /\ before.implementation = after.implementation
  /\ \A c \in Chains : before.peers[c] \in {NoPeer, after.peers[c]}

\* A whole transaction in which neither the owner nor the pending owner sent a batch,
\* whatever batches were sent from inside its sweeps, changes nothing reserved to the owner.
\* (SwapLayerGovernance.sol:46-58)
AssistantBounded ==
  [][Len(stack) = 1 /\ stack' = <<>> /\ ~gov.granted => Reserved(stack[1].entry, gov')]_vars

\* The owner is nobody, or a key that an owner proposed.
OwnedByNamed == gov.owner \in gov.named \union {Zero}

\* Relinquished ownership does not come back: no pending owner is left to take it.  The one
\* way to leave one is an owner's batch that goes on after a batch inside its sweep gave the
\* ownership away, since isOwner is read once (stale).
RelinquishedForGood ==
  Idle /\ gov.owner = Zero /\ ~gov.stale => gov.pendingOwner = Zero

\* What took effect of the commands that GovernanceCommand calls "only available to owner"
\* was asked for by who was the owner when the command ran.  The code does not hold to it:
\* isOwner is read when a batch begins (SwapLayerGovernance.sol:99), and a batch sent from
\* inside its sweep may hand the ownership on before the batch goes on.
OwnerCommandsByOwner == Idle => ~gov.stale

\* A batch of fee updates that succeeds leaves every parameter of every chain at the last
\* value the batch gave it, or as it was: the copy that is worked on loses nothing, in
\* whatever order the batch goes back and forth between chains.
FeeBatchExact ==
  [][\A n \in {Len(stack)} :
       n > 0 /\ stack[n].kind = "fees" /\ EndFeeUpdates => gov'.fees = stack[n].asked]_vars
=============================================================================
