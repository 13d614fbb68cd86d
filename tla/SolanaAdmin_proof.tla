------------------------- MODULE SolanaAdmin_proof -------------------------
(***************************************************************************)
(* Proofs about the administration of the Solana Swap Layer, for any       *)
(* wallets, chains, addresses and relay parameters.  The invariant is the  *)
(* conjunction of three properties the runs check; it is inductive.        *)
(***************************************************************************)
EXTENDS SolanaAdmin, TLAPS

CustodianOK(c) ==
  /\ c = [owner |-> c.owner, pending |-> c.pending, assistant |-> c.assistant,
          updater |-> c.updater, feeToken |-> c.feeToken]
  /\ c.owner \in Keys /\ c.assistant \in Keys /\ c.updater \in Keys
  /\ c.pending \in Keys \union {None}
  /\ \E k \in Keys : c.feeToken = FeeTokenOf(k)

PeerOK(p) ==
  /\ p = [address |-> p.address, params |-> p.params]
  /\ p.address \in Addresses /\ p.params \in ValidParams

Shapes ==
  /\ custodian # None => CustodianOK(custodian)
  /\ DOMAIN peers = Chains /\ peers = [ch \in Chains |-> peers[ch]]
  /\ \A ch \in Chains : peers[ch] # None => ch \notin {NoChain, Solana} /\ PeerOK(peers[ch])
  /\ offer \in Keys \union {None} /\ named \subseteq Keys /\ last \in Keys \union {None}

\* Beyond the two properties: a pending owner was named, which is what makes
\* OwnedByNamed inductive, and nothing is offered before initialize.
Held ==
  /\ RequestIsOwners /\ OwnedByNamed
  /\ custodian # None /\ custodian.pending # None => custodian.pending \in named
  /\ custodian = None => offer = None

Inv == Shapes /\ Held

\* A custodian of the right shape exists.
LEMMA CustodianExists == ASSUME NEW c, CustodianOK(c) PROVE c # None
<1>1. c \in [owner : Keys, pending : Keys \union {None}, assistant : Keys, updater : Keys,
              feeToken : {<<"usdc-ata", k>> : k \in Keys}]
  BY DEF CustodianOK, FeeTokenOf
<1>. QED BY <1>1, NoneIsNoCustodian

\* What a handler does to the custodian is done by one of five updates; each
\* keeps its shape.
LEMMA OwnerInstruction ==
  ASSUME Inv, NEW s \in Keys, Ownership(s), last' = s
  PROVE  Inv'
<1> USE AdminAssumption, CustodianExists
<1>1. ASSUME NEW k \in Candidates, submit_ownership_transfer_request(submitOwnershipTransferIx(s, k))
      PROVE  Inv'
  BY <1>1 DEF Inv, Shapes, Held, CustodianOK, PeerOK, RequestIsOwners, OwnedByNamed, Candidates,
     submit_ownership_transfer_request, submitOwnershipTransferIx, Composite, OwnerOnlyMut, IsCustodian
<1>2. ASSUME confirm_ownership_transfer_request(confirmOwnershipTransferIx(s)) PROVE Inv'
  BY <1>2 DEF Inv, Shapes, Held, CustodianOK, PeerOK, RequestIsOwners, OwnedByNamed,
     confirm_ownership_transfer_request, confirmOwnershipTransferIx, Composite, IsCustodian
<1>3. ASSUME cancel_ownership_transfer_request(cancelOwnershipTransferIx(s)) PROVE Inv'
  BY <1>3 DEF Inv, Shapes, Held, CustodianOK, PeerOK, RequestIsOwners, OwnedByNamed,
     cancel_ownership_transfer_request, cancelOwnershipTransferIx, Composite, OwnerOnlyMut, IsCustodian
<1>. QED BY <1>1, <1>2, <1>3 DEF Ownership

LEMMA RoleInstruction ==
  ASSUME Inv, NEW s \in Keys, Roles(s), last' = s
  PROVE  Inv'
<1> USE AdminAssumption, CustodianExists
<1>1. PICK k \in Candidates :
         \/ update_owner_assistant(updateOwnerAssistantIx(s, k))
         \/ update_fee_updater(updateFeeUpdaterIx(s, k))
         \/ CanDerive(k) /\ update_fee_recipient(updateFeeRecipientIx(s, k))
  BY DEF Roles
<1>2. CASE update_owner_assistant(updateOwnerAssistantIx(s, k))
  BY <1>2 DEF Inv, Shapes, Held, CustodianOK, PeerOK, RequestIsOwners, OwnedByNamed, Candidates,
     update_owner_assistant, updateOwnerAssistantIx, Composite, OwnerOnlyMut, IsCustodian
<1>3. CASE update_fee_updater(updateFeeUpdaterIx(s, k))
  BY <1>3 DEF Inv, Shapes, Held, CustodianOK, PeerOK, RequestIsOwners, OwnedByNamed, Candidates,
     update_fee_updater, updateFeeUpdaterIx, Composite, AdminMut, IsCustodian
<1>4. CASE update_fee_recipient(updateFeeRecipientIx(s, k))
  BY <1>4 DEF Inv, Shapes, Held, CustodianOK, PeerOK, RequestIsOwners, OwnedByNamed, Candidates,
     update_fee_recipient, updateFeeRecipientIx, Composite, AdminMut, IsCustodian, FeeTokenOf
<1>. QED BY <1>1, <1>2, <1>3, <1>4

\* add_peer and update_peer both end in SetPeer.
LEMMA SetPeerShapes ==
  ASSUME Inv, NEW s \in Keys, NEW args \in PeerArgs, last' = s,
         SetPeer(addPeerIx(s, args))
  PROVE  Inv'
<1> USE AdminAssumption
<1>1. peers' = [peers EXCEPT ![args.chain] = [address |-> args.address, params |-> args.params]]
  BY DEF SetPeer, addPeerIx
<1>2. args.chain \in Chains /\ args.chain \notin {NoChain, Solana} /\ args.address \in Addresses
      /\ args.params \in ValidParams
  BY DEF SetPeer, addPeerIx, PeerArgs
<1>3. DOMAIN peers' = Chains /\ peers' = [ch \in Chains |-> peers'[ch]]
  BY <1>1 DEF Inv, Shapes
<1>4. \A ch \in Chains : peers'[ch] # None => ch \notin {NoChain, Solana} /\ PeerOK(peers'[ch])
  BY <1>1, <1>2 DEF Inv, Shapes, PeerOK
<1>5. UNCHANGED <<custodian, offer, named>>
  BY DEF SetPeer
<1>. QED BY <1>3, <1>4, <1>5 DEF Inv, Shapes, Held, RequestIsOwners, OwnedByNamed, CustodianOK

LEMMA PeerInstruction ==
  ASSUME Inv, NEW s \in Keys, PeersOf(s), last' = s
  PROVE  Inv'
<1> USE AdminAssumption
<1>1. ASSUME NEW args \in PeerArgs, add_peer(addPeerIx(s, args)) PROVE Inv'
  BY <1>1, SetPeerShapes DEF add_peer
<1>2. ASSUME NEW args \in PeerArgs, update_peer(updatePeerIx(s, args)) PROVE Inv'
  <2>1. updatePeerIx(s, args) = addPeerIx(s, args) BY DEF updatePeerIx, addPeerIx
  <2>. QED BY <1>2, <2>1, SetPeerShapes DEF update_peer
<1>3. ASSUME NEW args \in RelayArgs, update_relay_parameters(updateRelayParamsIx(s, args))
      PROVE  Inv'
  <2>1. /\ peers' = [peers EXCEPT ![args.chain].params = args.params]
        /\ peers[args.chain] # None /\ args.params \in ValidParams /\ args.chain \in Chains
        /\ UNCHANGED <<custodian, offer, named>>
    BY <1>3 DEF update_relay_parameters, updateRelayParamsIx, RelayArgs
  <2>2. \A ch \in Chains : peers'[ch] # None => ch \notin {NoChain, Solana} /\ PeerOK(peers'[ch])
    BY <2>1 DEF Inv, Shapes, PeerOK
  <2>. QED BY <2>1, <2>2 DEF Inv, Shapes, Held, RequestIsOwners, OwnedByNamed, CustodianOK
<1>. QED BY <1>1, <1>2, <1>3 DEF PeersOf

LEMMA InitializeInstruction ==
  ASSUME Inv, NEW s \in Keys, Initialize(s), last' = s
  PROVE  Inv'
<1> USE AdminAssumption
<1>1. PICK a \in Candidates, u \in Candidates, r \in Candidates : initialize(initializeIx(s, a, u, r))
  BY DEF Initialize
<1>2. /\ custodian' = [owner |-> s, pending |-> None, assistant |-> a, updater |-> u,
                       feeToken |-> FeeTokenOf(r)]
      /\ custodian = None /\ {a, u, r} \subseteq Keys
      /\ named' = named \union {s} /\ UNCHANGED <<peers, offer>>
  BY <1>1 DEF initialize, initializeIx, FeeTokenOf, Candidates
<1>. QED
  BY <1>2 DEF Inv, Shapes, Held, CustodianOK, PeerOK, RequestIsOwners, OwnedByNamed, FeeTokenOf

LEMMA InvStep == Inv /\ [Next]_vars => Inv'
<1> SUFFICES ASSUME Inv, [Next]_vars PROVE Inv' OBVIOUS
<1>1. ASSUME NEW s \in Keys, last' = s,
             Initialize(s) \/ Ownership(s) \/ Roles(s) \/ PeersOf(s)
      PROVE  Inv'
  BY <1>1, InitializeInstruction, OwnerInstruction, RoleInstruction, PeerInstruction
<1>2. CASE UNCHANGED vars
  BY <1>2 DEF vars, Inv, Shapes, Held, CustodianOK, PeerOK, RequestIsOwners, OwnedByNamed
<1>. QED BY <1>1, <1>2 DEF Next

LEMMA InvInit == Init => Inv
BY AdminAssumption DEF Init, Inv, Shapes, Held, RequestIsOwners, OwnedByNamed

LEMMA Invariant == Spec => []Inv
BY InvInit, InvStep, PTL DEF Spec

-----------------------------------------------------------------------------
\* Every role is held by a wallet, and a registered peer has an address and
\* parameters verify_relay_params accepts, for any set of wallets and chains.
THEOREM TypeCorrect == Spec => []TypeOK
<1>1. Inv => TypeOK
  BY DEF Inv, Shapes, CustodianOK, PeerOK, TypeOK
<1>. QED BY <1>1, Invariant, PTL

\* A pending request is the present owner's own: no former owner can take the
\* custodian back with a request made before the transfer.
THEOREM NoStaleRequest == Spec => []RequestIsOwners
<1>1. Inv => RequestIsOwners
  BY DEF Inv, Held
<1>. QED BY <1>1, Invariant, PTL

\* Whatever assistants, fee updaters and strangers sign, the owner is a key an
\* owner has named.
THEOREM OwnershipDescends == Spec => []OwnedByNamed
<1>1. Inv => OwnedByNamed
  BY DEF Inv, Held
<1>. QED BY <1>1, Invariant, PTL

\* What one step may do to a registered peer.
PeersKept ==
  \A ch \in Chains :
    peers[ch] # None =>
      /\ peers'[ch] # None
      /\ peers'[ch].address # peers[ch].address => last' = custodian.owner

\* One instruction: only update_peer moves an address, and it asks for the owner.
LEMMA PeersKeptStep == Inv /\ [Next]_vars => [PeersKept]_vars
<1> SUFFICES ASSUME Inv, Next PROVE PeersKept
  OBVIOUS
<1> USE AdminAssumption
<1>1. PICK s \in Keys : /\ Initialize(s) \/ Ownership(s) \/ Roles(s) \/ PeersOf(s)
                        /\ last' = s
  BY DEF Next
<1>2. CASE UNCHANGED peers
  BY <1>2 DEF PeersKept
<1>3. ASSUME NEW args \in PeerArgs,
             add_peer(addPeerIx(s, args)) \/ update_peer(updatePeerIx(s, args))
      PROVE  PeersKept
  <2>1. peers' = [peers EXCEPT ![args.chain] = [address |-> args.address, params |-> args.params]]
    BY <1>3 DEF add_peer, update_peer, SetPeer, addPeerIx, updatePeerIx
  <2>2. peers[args.chain] # None => s = custodian.owner
    BY <1>3 DEF add_peer, update_peer, addPeerIx, updatePeerIx, OwnerOnly, Composite
  <2>3. args.address # ZeroAddress /\ args.chain \in Chains
    BY <1>3 DEF add_peer, update_peer, SetPeer, addPeerIx, updatePeerIx, PeerArgs
  <2>4. [address |-> args.address, params |-> args.params] # None
    BY NoneIsNoPeer, <1>3 DEF PeerArgs
  <2>. QED BY <1>1, <2>1, <2>2, <2>3, <2>4 DEF PeersKept, Inv, Shapes
<1>4. ASSUME NEW args \in RelayArgs, update_relay_parameters(updateRelayParamsIx(s, args))
      PROVE  PeersKept
  <2>1. peers' = [peers EXCEPT ![args.chain].params = args.params]
    BY <1>4 DEF update_relay_parameters, updateRelayParamsIx
  <2>2. /\ peers[args.chain] # None /\ args.chain \in Chains
        /\ args.params \in Params
    BY <1>4 DEF update_relay_parameters, updateRelayParamsIx, RelayArgs
  <2>3. PeerOK(peers[args.chain])
    BY <2>2 DEF Inv, Shapes
  <2>4. peers'[args.chain] = [address |-> peers[args.chain].address, params |-> args.params]
    BY <2>1, <2>2, <2>3 DEF PeerOK, Inv, Shapes
  <2>5. peers'[args.chain] # None /\ peers'[args.chain].address = peers[args.chain].address
    BY <2>2, <2>3, <2>4, NoneIsNoPeer DEF PeerOK
  <2>. QED BY <2>1, <2>2, <2>5 DEF PeersKept, Inv, Shapes
<1>. QED
  BY <1>1, <1>2, <1>3, <1>4 DEF Initialize, initialize, Ownership, Roles, PeersOf,
     submit_ownership_transfer_request, confirm_ownership_transfer_request,
     cancel_ownership_transfer_request, update_owner_assistant, update_fee_updater,
     update_fee_recipient

\* A registered peer keeps its address unless the owner signs, whoever else may
\* write to its account.
THEOREM PeerMovedByOwnerOnly == Spec => PeerMovedByOwner
BY Invariant, PeersKeptStep, PTL DEF Spec, PeerMovedByOwner, PeersKept
=============================================================================
