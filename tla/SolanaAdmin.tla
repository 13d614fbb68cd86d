---------------------------- MODULE SolanaAdmin ----------------------------
(***************************************************************************)
(* The administration of the Solana Swap Layer: the Custodian account with *)
(* its owner, pending owner, assistant, fee updater and fee recipient, and *)
(* the Peer accounts.  An instruction is what the TypeScript client builds *)
(* (SwapLayerProgram.*Ix): accounts and arguments, the signer among them.  *)
(* Building reads nothing, so an instruction that was signed long ago is   *)
(* the same as one that is built when it lands: anybody's instruction may  *)
(* land at any moment, and each handler decides by the accounts it finds.  *)
(***************************************************************************)
CONSTANTS
  Keys,            \* wallets
  ZeroKey,         \* Pubkey::default()
  Deployer,        \* upgrade authority of the program
  OffCurve,        \* wallets that are program addresses
  Chains,          \* Wormhole chains a peer may be asked for
  NoChain, Solana, \* chain 0, which is none; this one
  Addresses,       \* addresses of swap layers on other chains
  ZeroAddress,
  Params,          \* relay parameters
  ValidParams,     \* those verify_relay_params accepts
  None

ASSUME AdminAssumption ==
  /\ Deployer \in Keys /\ ZeroKey \notin Keys /\ None \notin Keys \union {ZeroKey}
  /\ OffCurve \subseteq Keys /\ Deployer \notin OffCurve
  /\ ZeroAddress \notin Addresses /\ ValidParams \subseteq Params

\* An account that exists is not the absence of one.
ASSUME NoneIsNoPeer == None \notin [address : Addresses \union {ZeroAddress}, params : Params]
ASSUME NoneIsNoCustodian ==
  None \notin [owner : Keys, pending : Keys \union {None}, assistant : Keys, updater : Keys,
               feeToken : {<<"usdc-ata", k>> : k \in Keys}]

VARIABLES
  custodian,   \* the Custodian account, or None before initialize
  peers,       \* chain -> Peer account, or None
  offer,       \* history: who made the pending offer, or None
  named,       \* history: the keys ever offered the ownership by an owner
  last         \* history: who signed the last instruction

vars == <<custodian, peers, offer, named, last>>

Candidates == Keys \union {ZeroKey}

-----------------------------------------------------------------------------
(* Building instructions: SwapLayerProgram                                 *)

custodianAddress == <<"custodian">>
peerAddress(ch) == <<"peer", ch>>
programDataAddress == <<"program-data">>

\* The account of the fees; the client refuses to derive one for an owner
\* that is a program address.
FeeTokenOf(owner) == <<"usdc-ata", owner>>
CanDerive(owner) == owner \notin OffCurve

\* Every builder passes the signer and the custodian: adminComposite,
\* adminMutComposite, ownerOnlyComposite, ownerOnlyMutComposite and
\* feeUpdaterComposite differ in names and mutability only.
Composite(signer) == [signer |-> signer, custodian |-> custodianAddress]

initializeIx(owner, assistant, updater, recipient) ==
  [signer |-> owner, custodian |-> custodianAddress, assistant |-> assistant,
   updater |-> updater, recipient |-> recipient,
   recipientToken |-> FeeTokenOf(recipient), programData |-> programDataAddress]

addPeerIx(signer, args) ==
  [by |-> Composite(signer), peer |-> peerAddress(args.chain), args |-> args]
updatePeerIx(signer, args) ==
  [by |-> Composite(signer), peer |-> peerAddress(args.chain), args |-> args]
submitOwnershipTransferIx(signer, newOwner) ==
  [by |-> Composite(signer), newOwner |-> newOwner]
confirmOwnershipTransferIx(signer) == [by |-> Composite(signer)]
cancelOwnershipTransferIx(signer) == [by |-> Composite(signer)]
updateOwnerAssistantIx(signer, assistant) ==
  [by |-> Composite(signer), newAssistant |-> assistant]
updateFeeUpdaterIx(signer, updater) == [by |-> Composite(signer), newUpdater |-> updater]
updateRelayParamsIx(signer, args) ==
  [by |-> Composite(signer), peer |-> peerAddress(args.chain), args |-> args]
updateFeeRecipientIx(signer, recipient) ==
  [by |-> Composite(signer), recipient |-> recipient, recipientToken |-> FeeTokenOf(recipient)]

-----------------------------------------------------------------------------
(* Who may: the composites of the program                                  *)

IsCustodian(by) == custodian # None /\ by.custodian = <<"custodian">>
OwnerOnly(by) == IsCustodian(by) /\ by.signer = custodian.owner

\* Seeded fault: the assistant passes for the owner.
OwnerOrAssistant(by) ==
  IsCustodian(by) /\ by.signer \in {custodian.owner, custodian.assistant}

OwnerOnlyMut(by) == IsCustodian(by) /\ by.signer = custodian.owner
Admin(by) == IsCustodian(by) /\ by.signer \in {custodian.owner, custodian.assistant}
AdminMut(by) == IsCustodian(by) /\ by.signer \in {custodian.owner, custodian.assistant}
FeeUpdater(by) ==
  IsCustodian(by) /\ by.signer \in {custodian.updater, custodian.owner, custodian.assistant}

-----------------------------------------------------------------------------
(* Handlers                                                                *)

initialize(x) ==
  /\ custodian = None
  /\ x.custodian = <<"custodian">> /\ x.programData = <<"program-data">>
  /\ x.signer = Deployer
  /\ ZeroKey \notin {x.assistant, x.updater, x.recipient}
  /\ x.recipientToken = <<"usdc-ata", x.recipient>>
  /\ custodian' = [owner |-> x.signer, pending |-> None, assistant |-> x.assistant,
                   updater |-> x.updater, feeToken |-> x.recipientToken]
  /\ named' = named \union {x.signer}
  /\ UNCHANGED <<peers, offer>>

\* handle_add_peer, which add_peer and update_peer share.
SetPeer(x) ==
  /\ x.peer = <<"peer", x.args.chain>>
  /\ x.args.chain \notin {NoChain, Solana}
  /\ x.args.address # ZeroAddress
  /\ x.args.params \in ValidParams
  /\ peers' = [peers EXCEPT ![x.args.chain] = [address |-> x.args.address, params |-> x.args.params]]
  /\ UNCHANGED <<custodian, offer, named>>

\* Seeded fault: init_if_needed in place of init.
AddPeerIfNeeded(x) == Admin(x.by) /\ SetPeer(x)

add_peer(x) ==
  /\ Admin(x.by)
  /\ peers[x.args.chain] = None
  /\ SetPeer(x)

update_peer(x) ==
  /\ OwnerOnly(x.by)
  /\ peers[x.args.chain] # None
  /\ SetPeer(x)

submit_ownership_transfer_request(x) ==
  /\ OwnerOnlyMut(x.by)
  /\ x.newOwner \notin {ZeroKey, x.by.signer}
  /\ custodian' = [custodian EXCEPT !.pending = x.newOwner]
  /\ offer' = x.by.signer
  /\ named' = IF x.by.signer = custodian.owner THEN named \union {x.newOwner} ELSE named
  /\ UNCHANGED peers

\* Seeded fault: the request survives the transfer.
ConfirmKeepsRequest(x) ==
  /\ IsCustodian(x.by) /\ x.by.signer = custodian.pending
  /\ custodian' = [custodian EXCEPT !.owner = x.by.signer]
  /\ offer' = None /\ UNCHANGED <<peers, named>>

confirm_ownership_transfer_request(x) ==
  /\ IsCustodian(x.by)
  /\ custodian.pending # None
  /\ x.by.signer = custodian.pending
  /\ custodian' = [custodian EXCEPT !.owner = x.by.signer, !.pending = None]
  /\ offer' = None
  /\ UNCHANGED <<peers, named>>

cancel_ownership_transfer_request(x) ==
  /\ OwnerOnlyMut(x.by)
  /\ custodian' = [custodian EXCEPT !.pending = None]
  /\ offer' = None
  /\ UNCHANGED <<peers, named>>

update_owner_assistant(x) ==
  /\ OwnerOnlyMut(x.by)
  /\ x.newAssistant # ZeroKey
  /\ custodian' = [custodian EXCEPT !.assistant = x.newAssistant]
  /\ UNCHANGED <<peers, offer, named>>

update_fee_updater(x) ==
  /\ AdminMut(x.by)
  /\ x.newUpdater # ZeroKey
  /\ custodian' = [custodian EXCEPT !.updater = x.newUpdater]
  /\ UNCHANGED <<peers, offer, named>>

update_fee_recipient(x) ==
  /\ AdminMut(x.by)
  /\ x.recipient # ZeroKey
  /\ x.recipientToken = <<"usdc-ata", x.recipient>>
  /\ custodian' = [custodian EXCEPT !.feeToken = x.recipientToken]
  /\ UNCHANGED <<peers, offer, named>>

\* The address of the peer and the parameters share an account.
update_relay_parameters(x) ==
  /\ FeeUpdater(x.by)
  /\ x.peer = <<"peer", x.args.chain>> /\ peers[x.args.chain] # None
  /\ x.args.params \in ValidParams
  /\ peers' = [peers EXCEPT ![x.args.chain].params = x.args.params]
  /\ UNCHANGED <<custodian, offer, named>>

-----------------------------------------------------------------------------
PeerArgs == [chain : Chains, address : Addresses \union {ZeroAddress}, params : Params]
RelayArgs == [chain : Chains, params : Params]

Init ==
  /\ custodian = None /\ peers = [ch \in Chains |-> None]
  /\ offer = None /\ named = {} /\ last = None

Ownership(s) ==
  \/ \E k \in Candidates : submit_ownership_transfer_request(submitOwnershipTransferIx(s, k))
  \/ confirm_ownership_transfer_request(confirmOwnershipTransferIx(s))
  \/ cancel_ownership_transfer_request(cancelOwnershipTransferIx(s))

Roles(s) ==
  \E k \in Candidates :
    \/ update_owner_assistant(updateOwnerAssistantIx(s, k))
    \/ update_fee_updater(updateFeeUpdaterIx(s, k))
    \/ CanDerive(k) /\ update_fee_recipient(updateFeeRecipientIx(s, k))

PeersOf(s) ==
  \/ \E args \in PeerArgs : add_peer(addPeerIx(s, args)) \/ update_peer(updatePeerIx(s, args))
  \/ \E args \in RelayArgs : update_relay_parameters(updateRelayParamsIx(s, args))

Initialize(s) ==
  \E a, u, r \in Candidates : CanDerive(r) /\ initialize(initializeIx(s, a, u, r))

Next ==
  \E s \in Keys :
    /\ Initialize(s) \/ Ownership(s) \/ Roles(s) \/ PeersOf(s)
    /\ last' = s

Spec == Init /\ [][Next]_vars

-----------------------------------------------------------------------------
(* Properties                                                              *)

\* Every role is held by a wallet, fees have an account, and a registered peer
\* has an address and parameters that calculate_relayer_fee can divide by.
TypeOK ==
  /\ custodian # None =>
       /\ {custodian.owner, custodian.assistant, custodian.updater} \subseteq Keys
       /\ custodian.pending \in Keys \union {None}
       /\ \E k \in Keys : custodian.feeToken = FeeTokenOf(k)
  /\ \A ch \in Chains : peers[ch] # None =>
       ch \notin {NoChain, Solana} /\ peers[ch].address \in Addresses /\ peers[ch].params \in ValidParams
  /\ offer \in Keys \union {None} /\ named \subseteq Keys /\ last \in Keys \union {None}

\* A pending request is always the present owner's own and never names him: a
\* request of a former owner does not outlive the transfer, so that nobody can
\* take back what was handed over (ownership_transfer_request/confirm.rs).
RequestIsOwners ==
  custodian # None =>
    /\ custodian.pending # None => offer = custodian.owner /\ custodian.pending # custodian.owner
    /\ custodian.pending = None => offer = None

\* Through any sequence of instructions of assistants, fee updaters and
\* strangers the ownership stays with keys that an owner named.
OwnedByNamed == custodian # None => custodian.owner \in named

\* The other side of a chain, once registered, is changed by the owner alone:
\* neither adding it again nor updating its relay parameters moves it.
\* (add_peer is open to the assistant, update_relay_parameters to the updater.)
PeerMovedByOwner ==
  [][\A ch \in Chains :
       peers[ch] # None =>
         /\ peers'[ch] # None
         /\ peers'[ch].address # peers[ch].address => last' = custodian.owner]_vars
=============================================================================
