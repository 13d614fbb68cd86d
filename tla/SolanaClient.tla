---------------------------- MODULE SolanaClient ----------------------------
(***************************************************************************)
(* The TypeScript client of the Solana Swap Layer (SwapLayerProgram in     *)
(* src/solana/ts/src/swapLayer/index.ts) against the accounts the program  *)
(* checks.  A method fills in the accounts its caller leaves out: some are *)
(* derived (program addresses, associated token accounts), others are read *)
(* from the chain, one await after the other.  The instruction is built    *)
(* from what was read and lands later; meanwhile others stage, cancel and  *)
(* initiate under the same key, consume the same fill, and the fee         *)
(* recipient changes.                                                      *)
(*                                                                         *)
(* A call is a record of the arguments the caller passes: an argument that *)
(* is left undefined is not in its domain.  Addresses are tuples of seeds, *)
(* so that two derivations agree exactly when their seeds do.              *)
(***************************************************************************)
EXTENDS Naturals, Sequences

CONSTANTS
  Keys,             \* keys of staged outbound accounts
  Fills,            \* keys of prepared fills
  Contents,         \* what fills carry: [chain, mode, output, recipient, late]
  Registered,       \* chains with a Peer account
  Usdc, Native,     \* mints
  Mints,
  ProgramOf,        \* mint -> token program that owns it
  TokenProgram,     \* the SPL Token program (the other one is Token-2022)
  OffCurve,         \* owners that are program addresses
  Stagings,         \* what others stage: contents of StagedOutbound accounts
  FeeTokens,        \* USDC accounts that may receive the relaying fees
  Quote,            \* the relaying fee of the day
  Calls,            \* the calls of the client
  Null, None, Idle, Consumed

\* What a StagedOutbound says that the client reads; mint and dust are those of
\* its custody token.
StagedOutboundInfo == {"preparedBy", "sender", "refund", "chain", "exactIn"}
ASSUME ClientAssumption ==
  /\ Usdc \in Mints /\ Native \in Mints
  /\ ProgramOf[Usdc] = TokenProgram /\ ProgramOf[Native] = TokenProgram
  /\ Quote \in Nat \ {0}
  /\ None \notin Stagings /\ {None, Consumed} \intersect Contents = {}
  /\ \A s \in Stagings :
       /\ DOMAIN s = StagedOutboundInfo \union {"mint", "dust"}
       /\ s.chain \in Registered

\* The methods that name a staged account, and those that name a fill.
KeyMethods == {"stage", "close", "initiateTransfer", "initiateSwap"}
FillMethods ==
  {"completeTransferDirect", "completeTransferRelay", "completeTransferPayload",
   "completeSwapDirect", "completeSwapRelay", "completeSwapPayload", "release"}

\* What the types of the client require of its caller: the accounts and
\* arguments that are not optional; the payer signs.
ASSUME CallsAssumption ==
  \A c \in Calls :
    /\ {"method", "payer", "signers"} \subseteq DOMAIN c
    /\ c.payer \in c.signers /\ Null \notin c.signers
    /\ \/ c.method \in KeyMethods /\ "key" \in DOMAIN c /\ c.key \in Keys
       \/ c.method \in FillMethods /\ "fill" \in DOMAIN c /\ c.fill \in Fills
    /\ c.method = "stage" =>
         /\ {"by", "args", "refund"} \subseteq DOMAIN c
         /\ c.by \in {"native", "sender", "programTransferAuthority"}
         /\ c.args.amountIn \in Nat
    /\ c.method = "close" => {"chain", "senderToken"} \subseteq DOMAIN c
    /\ c.method \in FillMethods \ {"completeTransferPayload", "completeSwapPayload"} =>
         "recipient" \in DOMAIN c
    /\ c.method = "release" => "dstToken" \in DOMAIN c

VARIABLES
  staged,      \* key -> StagedOutbound account, or None
  fills,       \* fill -> PreparedFill account, None, or Consumed
  inbound,     \* fill -> StagedInbound account and its custody token, or None
  feeToken,    \* Custodian.fee_recipient_token
  call         \* the call in progress, or Idle

chain == <<staged, fills, inbound, feeToken>>
vars == <<staged, fills, inbound, feeToken, call>>

-----------------------------------------------------------------------------
(* Arguments with defaults, and derived addresses                          *)

Given(c, arg) == arg \in DOMAIN c
Or(c, arg, default) == IF Given(c, arg) THEN c[arg] ELSE default

\* The fields of both, those of f before those of g.
f ++ g == [x \in DOMAIN f \union DOMAIN g |-> IF x \in DOMAIN f THEN f[x] ELSE g[x]]

peerAddress(ch) == <<"peer", ch>>
stagedCustodyTokenAddress(account) == <<"staged-custody", account>>
preparedOrderAddress(k) == <<"prepared-order", k>>
swapAuthorityAddress(source) == <<"swap-authority", source>>
stagedInboundAddress(f) == <<"staged-inbound", f>>
completeTokenAccountKey(f) == <<"complete", f>>
transferAuthority(args) == <<"transfer-authority", args>>
PublicKeyDefault == <<"default">>

\* Associated token accounts: the default token program is SPL Token.
Ata(mint, owner, program) == <<"ata", mint, owner, program>>
Exists(token) == token[4] = ProgramOf[token[2]]

\* The SPL Token program is the default of the library that builds it.
createApproveInstruction(token, delegate, owner, amount) ==
  [token |-> token, delegate |-> delegate, owner |-> owner, amount |-> amount,
   program |-> TokenProgram]

\* An address is not the absence of one, nor is an instruction.
ASSUME AddressesAssumption ==
  \A c \in Calls : c.method = "stage" =>
    /\ Ata(IF "mint" \in DOMAIN c THEN c.mint ELSE Usdc, c.payer, TokenProgram) # Null
    /\ transferAuthority(c.args) # Null
    /\ "senderToken" \in DOMAIN c =>
         \A owner \in {c.senderToken[3], PublicKeyDefault} :
           createApproveInstruction(c.senderToken, transferAuthority(c.args), owner,
                                    c.args.amountIn) # Null

-----------------------------------------------------------------------------
(* What a method awaits, in its order                                      *)

Read(kind, key) == [kind |-> kind, key |-> key]
Unless(given, read) == IF given THEN <<>> ELSE <<read>>

StagedRead(c) ==
  Unless(Given(c, "chain") /\ Given(c, "refund") /\ Given(c, "preparedBy"),
         Read("staged", c.key))
FillRead(c) == Unless(Given(c, "chain"), Read("fill", c.fill))
MintRead(c, mint) == Unless(Given(c, "program"), Read("mint", mint))
\* Who owns the sender's token account: read when the approval is built here.
OwnerRead(c) ==
  Unless(c.by # "programTransferAuthority" \/ Given(c, "authority"),
         Read("owner", c.senderToken))
CustodianRead(c) == Unless(Given(c, "feeToken"), Read("custodian", Null))

srcMint(c) ==
  Or(c, "mint", IF c.method = "stage" /\ c.by # "native" THEN Usdc ELSE Native)
dstMint(c) == Or(c, "mint", Native)

Reads(c) ==
  CASE c.method = "close" ->
         Unless(Given(c, "preparedBy") /\ Given(c, "sender"), Read("staged", c.key))
    [] c.method = "stage" -> MintRead(c, srcMint(c)) \o OwnerRead(c)
    [] c.method = "initiateTransfer" -> StagedRead(c)
    [] c.method = "initiateSwap" -> StagedRead(c) \o MintRead(c, srcMint(c))
    [] c.method = "completeTransferRelay" -> CustodianRead(c) \o FillRead(c)
    [] c.method \in {"completeTransferDirect", "completeTransferPayload"} -> FillRead(c)
    [] c.method = "release" ->
         Unless(Given(c, "mint") /\ Given(c, "program"), Read("token", c.dstToken))
    [] c.method \in {"completeSwapDirect", "completeSwapRelay"} ->
         CustodianRead(c) \o MintRead(c, dstMint(c)) \o <<Read("fill", c.fill)>>
    [] c.method = "completeSwapPayload" ->
         MintRead(c, dstMint(c)) \o CustodianRead(c) \o <<Read("fill", c.fill)>>

\* The account a read finds; None: fetch throws.  The owner is looked up under
\* the SPL Token program only, and a lookup that fails is caught.
Found(r) ==
  CASE r.kind = "staged" -> staged[r.key]
    [] r.kind = "fill" -> IF fills[r.key] = Consumed THEN None ELSE fills[r.key]
    [] r.kind = "mint" -> [program |-> ProgramOf[r.key]]
    [] r.kind = "token" -> IF Exists(r.key) THEN [mint |-> r.key[2], program |-> r.key[4]] ELSE None
    [] r.kind = "owner" ->
         [owner |-> IF r.key # Null /\ r.key[4] = TokenProgram /\ Exists(r.key)
                    THEN r.key[3] ELSE PublicKeyDefault]
    [] r.kind = "custodian" -> [feeToken |-> feeToken]

-----------------------------------------------------------------------------
(* The instructions: c are the arguments, got what was read for them       *)

\* programTransferAuthority reaches the accounts only when it is derived
\* here, together with the approval of amountIn in the name of the owner read.
stageOutboundIx(c, got) ==
  LET program == Or(c, "program", got.mint.program)
      sender == Or(c, "sender", IF c.by = "programTransferAuthority" THEN Null ELSE c.payer)
      senderToken ==
        Or(c, "senderToken",
           IF c.by = "native" THEN Null ELSE Ata(srcMint(c), sender, TokenProgram))
      derived == c.by = "programTransferAuthority" /\ ~Given(c, "authority")
      authority == IF derived THEN transferAuthority(c.args) ELSE Null
  IN [method |-> "stage", signers |-> c.signers, payer |-> c.payer, key |-> c.key,
      args |-> c.args, refund |-> c.refund, mint |-> srcMint(c), program |-> program,
      sender |-> sender, senderToken |-> senderToken,
      authority |-> authority, peer |-> Or(c, "peer", peerAddress(c.args.chain)),
      custody |-> stagedCustodyTokenAddress(c.key),
      approve |-> IF derived
                  THEN createApproveInstruction(senderToken, authority, got.owner.owner,
                                                c.args.amountIn)
                  ELSE Null]

closeStagedOutboundIx(c, got) ==
  [method |-> "close", signers |-> c.signers, key |-> c.key,
   sender |-> Or(c, "sender", got.staged.sender),
   preparedBy |-> Or(c, "preparedBy", got.staged.preparedBy),
   peer |-> peerAddress(c.chain),
   custody |-> stagedCustodyTokenAddress(c.key),
   senderToken |-> c.senderToken, program |-> TokenProgram]

\* What initiateTransferIx and initiateSwapExactInIxes have in common.
OrderAccounts(c, got) ==
  [key |-> c.key, signers |-> c.signers,
   preparedBy |-> Or(c, "preparedBy", got.staged.preparedBy),
   refund |-> Or(c, "refund", got.staged.refund),
   peer |-> peerAddress(Or(c, "chain", got.staged.chain)),
   order |-> Or(c, "order", preparedOrderAddress(c.key))]

initiateTransferIx(c, got) ==
  [method |-> "initiateTransfer",
   custody |-> Or(c, "custody", stagedCustodyTokenAddress(c.key))] ++ OrderAccounts(c, got)

\* Seeded fault: the authority is derived from the staged account.
SwapIxesForStaged(c, got) ==
  LET program == Or(c, "program", got.mint.program)
      authority == swapAuthorityAddress(c.key)
  IN [method |-> "initiateSwap", custody |-> stagedCustodyTokenAddress(c.key),
      authority |-> authority, mint |-> srcMint(c), program |-> program,
      srcSwap |-> Ata(srcMint(c), authority, program),
      dstSwap |-> Ata(Usdc, authority, TokenProgram)] ++ OrderAccounts(c, got)

\* A stagedCustodyToken that the caller passes is not used.
initiateSwapExactInIxes(c, got) ==
  LET program == Or(c, "program", got.mint.program)
      accounts == OrderAccounts(c, got)
      authority == swapAuthorityAddress(accounts.order)
  IN [method |-> "initiateSwap", custody |-> stagedCustodyTokenAddress(c.key),
      authority |-> authority, mint |-> srcMint(c), program |-> program,
      srcSwap |-> Ata(srcMint(c), authority, program),
      dstSwap |-> Ata(Usdc, authority, TokenProgram)] ++ accounts

consumeSwapLayerFillComposite(c, got) ==
  [fill |-> c.fill, beneficiary |-> Or(c, "beneficiary", c.payer),
   peer |-> Or(c, "peer", peerAddress(Or(c, "chain", got.fill.chain)))]

completeTransferRelayIx(c, got) ==
  [method |-> "completeTransferRelay", signers |-> c.signers, payer |-> c.payer,
   redeemer |-> Or(c, "redeemer", c.payer), recipient |-> c.recipient,
   recipientToken |-> Or(c, "recipientToken", Ata(Usdc, c.recipient, TokenProgram)),
   complete |-> completeTokenAccountKey(c.fill),
   feeToken |-> Or(c, "feeToken", got.custodian.feeToken)]
  ++ consumeSwapLayerFillComposite(c, got)

completeTransferDirectIx(c, got) ==
  [method |-> "completeTransferDirect", signers |-> c.signers,
   redeemer |-> Or(c, "redeemer", c.payer), recipient |-> c.recipient,
   recipientToken |-> Or(c, "recipientToken", Ata(Usdc, c.recipient, TokenProgram))]
  ++ consumeSwapLayerFillComposite(c, got)

completeTransferPayloadIx(c, got) ==
  [method |-> "completeTransferPayload", signers |-> c.signers, payer |-> c.payer,
   redeemer |-> Or(c, "redeemer", c.payer),
   inbound |-> stagedInboundAddress(c.fill),
   custody |-> stagedCustodyTokenAddress(stagedInboundAddress(c.fill))]
  ++ consumeSwapLayerFillComposite(c, got)

\* The custody token is derived, never read from the staged inbound.
releaseInboundIx(c, got) ==
  [method |-> "release", signers |-> c.signers, fill |-> c.fill,
   recipient |-> c.recipient, beneficiary |-> Or(c, "beneficiary", c.recipient),
   dstToken |-> c.dstToken,
   custody |-> stagedCustodyTokenAddress(stagedInboundAddress(c.fill)),
   mint |-> Or(c, "mint", got.token.mint),
   program |-> Or(c, "program", got.token.program)]

prepareSwapAccounts(authority, mint, program) ==
  [authority |-> authority, mint |-> mint, program |-> program,
   srcSwap |-> Ata(Usdc, authority, TokenProgram), dstSwap |-> Ata(mint, authority, program)]

\* completeSwapDirectIxes and completeSwapRelayIxes differ in the method only.
completeSwapIxes(c, got) ==
  LET program == Or(c, "program", got.mint.program)
  IN [method |-> c.method, signers |-> c.signers, payer |-> c.payer,
      recipient |-> c.recipient,
      recipientToken |-> Or(c, "recipientToken", Ata(dstMint(c), c.recipient, program)),
      feeToken |-> Or(c, "feeToken", got.custodian.feeToken)]
     ++ prepareSwapAccounts(swapAuthorityAddress(c.fill), dstMint(c), program)
     ++ consumeSwapLayerFillComposite(c, got)

completeSwapPayloadIxes(c, got) ==
  [method |-> "completeSwapPayload", signers |-> c.signers, payer |-> c.payer,
   inbound |-> stagedInboundAddress(c.fill),
   feeToken |-> Or(c, "feeToken", got.custodian.feeToken)]
  ++ prepareSwapAccounts(stagedInboundAddress(c.fill), dstMint(c),
                         Or(c, "program", got.mint.program))
  ++ consumeSwapLayerFillComposite(c, got)

Build(c, got) ==
  CASE c.method = "stage" -> stageOutboundIx(c, got)
    [] c.method = "close" -> closeStagedOutboundIx(c, got)
    [] c.method = "initiateTransfer" -> initiateTransferIx(c, got)
    [] c.method = "initiateSwap" -> initiateSwapExactInIxes(c, got)
    [] c.method = "completeTransferRelay" -> completeTransferRelayIx(c, got)
    [] c.method = "completeTransferDirect" -> completeTransferDirectIx(c, got)
    [] c.method = "completeTransferPayload" -> completeTransferPayloadIx(c, got)
    [] c.method = "release" -> releaseInboundIx(c, got)
    [] c.method = "completeSwapPayload" -> completeSwapPayloadIxes(c, got)
    [] c.method \in {"completeSwapDirect", "completeSwapRelay"} -> completeSwapIxes(c, got)

\* getAssociatedTokenAddressSync refuses an owner that is a program address
\* unless told otherwise, which only the completions of swaps do; a delegated
\* staging needs the token account it takes from.
Throws(c) ==
  \/ /\ c.method \in {"completeTransferRelay", "completeTransferDirect"}
     /\ ~Given(c, "recipientToken")
     /\ c.recipient \in OffCurve
  \/ /\ c.method = "stage" /\ ~Given(c, "senderToken")
     /\ \/ c.by = "programTransferAuthority"
        \/ c.by = "sender" /\ Or(c, "sender", c.payer) \in OffCurve

-----------------------------------------------------------------------------
(* What the program requires of the accounts of an instruction             *)

RegisteredPeer(peer) == \E ch \in Registered : peer = <<"peer", ch>>
TokenOf(token, mint) == token # Null /\ token[2] = mint /\ Exists(token)

\* What stage_outbound takes from the sender.
TransferAmount(args, mint) ==
  IF args.redeem = "relay" /\ mint = Usdc /\ ~args.exactIn
  THEN args.amountIn + Quote ELSE args.amountIn

StageTerms(args, mint) ==
  /\ args.amountIn # 0
  /\ args.redeem = "relay" =>
       /\ Quote <= args.maxFee
       /\ IF mint = Usdc THEN args.exactIn => args.amountIn > Quote ELSE args.minOut > Quote

\* The approval that was returned with the instruction precedes it in the
\* transaction: the token program it names must own the account, and the
\* account's owner must be the one named, and sign.
Delegated(x) ==
  /\ x.sender = Null /\ x.authority = <<"transfer-authority", x.args>>
  /\ x.approve # Null
  /\ x.approve.token = x.senderToken /\ x.approve.program = ProgramOf[x.mint]
  /\ x.approve.owner = x.senderToken[3] /\ x.approve.owner \in x.signers
  /\ x.approve.delegate = x.authority
  /\ x.approve.amount = TransferAmount(x.args, x.mint)

StageAccepted(x) ==
  /\ staged[x.key] = None
  /\ StageTerms(x.args, x.mint)
  /\ RegisteredPeer(x.peer) /\ x.peer = <<"peer", x.args.chain>>
  /\ x.custody = <<"staged-custody", x.key>>
  /\ x.program = ProgramOf[x.mint]
  /\ TokenOf(x.refund, Usdc)
  /\ IF x.senderToken = Null
     THEN /\ x.mint = Native /\ x.sender \in x.signers /\ x.authority = Null
     ELSE /\ TokenOf(x.senderToken, x.mint)
          /\ \/ x.sender \in x.signers /\ x.authority = Null
                /\ x.senderToken[3] = x.sender
             \/ Delegated(x)

CloseAccepted(x) ==
  LET s == staged[x.key]
  IN /\ s # None
     /\ x.sender = s.sender /\ x.sender \in x.signers
     /\ x.preparedBy = s.preparedBy
     /\ RegisteredPeer(x.peer) /\ x.peer = <<"peer", s.chain>>
     /\ x.custody = <<"staged-custody", x.key>>
     /\ x.program = ProgramOf[s.mint]
     /\ IF x.senderToken = Null THEN s.mint = Native ELSE TokenOf(x.senderToken, s.mint)

\* Seeded fault: the payer of the rent is taken from the instruction.
OrderAcceptedUnnamed(x) ==
  LET s == staged[x.key]
  IN /\ s # None /\ x.refund = s.refund /\ x.peer = <<"peer", s.chain>>
     /\ x.custody = <<"staged-custody", x.key>>
     /\ x.order = <<"prepared-order", x.key>>

\* What initiate_transfer and initiate_swap_exact_in both check.
OrderAccepted(x) ==
  LET s == staged[x.key]
  IN /\ s # None
     /\ x.preparedBy = s.preparedBy /\ x.refund = s.refund
     /\ RegisteredPeer(x.peer) /\ x.peer = <<"peer", s.chain>>
     /\ x.custody = <<"staged-custody", x.key>>
     /\ x.order = <<"prepared-order", x.key>>

TransferAccepted(x) == OrderAccepted(x) /\ staged[x.key].mint = Usdc

SwapAccepted(x) ==
  /\ OrderAccepted(x)
  /\ staged[x.key].exactIn /\ ~staged[x.key].dust
  /\ x.mint = staged[x.key].mint /\ x.mint # Usdc
  /\ x.program = ProgramOf[x.mint]
  /\ x.authority = <<"swap-authority", x.order>>
  /\ x.srcSwap = Ata(x.mint, x.authority, x.program)
  /\ x.dstSwap = Ata(Usdc, x.authority, TokenProgram)

FillAccepted(x, mode) ==
  /\ fills[x.fill] \in Contents
  /\ fills[x.fill].mode = mode
  /\ RegisteredPeer(x.peer) /\ x.peer = <<"peer", fills[x.fill].chain>>

RedeemedByRecipient(x) ==
  fills[x.fill].output = Usdc \/ x.redeemer = fills[x.fill].recipient

PaidInUsdc(x) ==
  /\ x.redeemer \in x.signers
  /\ x.recipient = fills[x.fill].recipient
  /\ x.recipientToken = Ata(Usdc, x.recipient, TokenProgram)

SwapOutputAccepted(x) ==
  LET output == fills[x.fill].output
  IN /\ x.mint # Usdc
     /\ output # Usdc => x.mint = output
     /\ x.program = ProgramOf[x.mint]
     /\ x.srcSwap = Ata(Usdc, x.authority, TokenProgram)
     /\ x.dstSwap = Ata(x.mint, x.authority, x.program)
     /\ x.feeToken = feeToken

Accepted(x) ==
  CASE x.method = "stage" -> StageAccepted(x)
    [] x.method = "close" -> CloseAccepted(x)
    [] x.method = "initiateTransfer" -> TransferAccepted(x)
    [] x.method = "initiateSwap" -> SwapAccepted(x)
    [] x.method = "completeTransferDirect" ->
         FillAccepted(x, "direct") /\ PaidInUsdc(x) /\ RedeemedByRecipient(x)
    [] x.method = "completeTransferRelay" ->
         /\ FillAccepted(x, "relay") /\ PaidInUsdc(x)
         /\ (RedeemedByRecipient(x) \/ fills[x.fill].late)
         /\ x.complete = <<"complete", x.fill>>
         /\ x.feeToken = feeToken
    [] x.method = "completeTransferPayload" ->
         /\ FillAccepted(x, "payload") /\ RedeemedByRecipient(x)
         /\ x.redeemer \in x.signers
         /\ x.inbound = <<"staged-inbound", x.fill>>
         /\ x.custody = <<"staged-custody", x.inbound>>
    [] x.method \in {"completeSwapDirect", "completeSwapRelay"} ->
         /\ FillAccepted(x, IF x.method = "completeSwapDirect" THEN "direct" ELSE "relay")
         /\ SwapOutputAccepted(x)
         /\ x.authority = <<"swap-authority", x.fill>>
         /\ x.recipient = fills[x.fill].recipient
         /\ x.recipientToken = Ata(x.mint, x.recipient, x.program)
         /\ fills[x.fill].output = Usdc =>
              x.method = "completeSwapDirect" /\ x.payer = x.recipient
    [] x.method = "completeSwapPayload" ->
         /\ FillAccepted(x, "payload")
         /\ SwapOutputAccepted(x) /\ fills[x.fill].output # Usdc
         /\ x.inbound = <<"staged-inbound", x.fill>> /\ x.authority = x.inbound
    [] x.method = "release" ->
         /\ inbound[x.fill] # None
         /\ x.recipient = inbound[x.fill].recipient /\ x.recipient \in x.signers
         /\ x.custody = inbound[x.fill].custody
         /\ x.mint = inbound[x.fill].mint
         /\ x.program = ProgramOf[x.mint] /\ TokenOf(x.dstToken, x.mint)

-----------------------------------------------------------------------------
(* The client                                                              *)

Init ==
  /\ staged = [k \in Keys |-> None]
  /\ fills = [f \in Fills |-> None]
  /\ inbound = [f \in Fills |-> None]
  /\ feeToken \in FeeTokens
  /\ call = Idle

Begin(c) ==
  /\ call = Idle
  /\ ~Throws(c)
  /\ call' = [args |-> c, reads |-> Reads(c), got |-> <<>>, ix |-> None, fresh |-> TRUE]
  /\ UNCHANGED chain

\* One await; a fetch of an account that is not there throws.
Await ==
  /\ call # Idle /\ call.ix = None /\ call.reads # <<>>
  /\ LET r == Head(call.reads)
     IN call' = IF Found(r) = None THEN Idle
                ELSE [call EXCEPT !.reads = Tail(@), !.got = [k \in {r.kind} |-> Found(r)] ++ @]
  /\ UNCHANGED chain

Return ==
  /\ call # Idle /\ call.ix = None /\ call.reads = <<>>
  /\ call' = [call EXCEPT !.ix = Build(call.args, call.got)]
  /\ UNCHANGED chain

-----------------------------------------------------------------------------
(* The chain: the client's instruction lands, and others do the same.      *)

ConsumeFill(f) == fills' = [fills EXCEPT ![f] = Consumed]
Stored(f, custody, mint) ==
  inbound' = [inbound EXCEPT ![f] =
                [custody |-> custody, mint |-> mint, recipient |-> fills[f].recipient]]

\* What an accepted instruction does to the accounts.
Effect(x) ==
  CASE x.method = "stage" ->
         /\ staged' = [staged EXCEPT ![x.key] =
              [preparedBy |-> x.payer, refund |-> x.refund, chain |-> x.args.chain,
               sender |-> IF x.sender # Null THEN x.sender ELSE x.senderToken[3],
               mint |-> x.mint, exactIn |-> x.args.exactIn, dust |-> FALSE]]
         /\ UNCHANGED <<fills, inbound, feeToken>>
    [] x.method \in {"close", "initiateTransfer"} ->
         staged' = [staged EXCEPT ![x.key] = None] /\ UNCHANGED <<fills, inbound, feeToken>>
    [] x.method = "initiateSwap" ->
         /\ \/ staged' = [staged EXCEPT ![x.key] = None]
            \/ staged' = [staged EXCEPT ![x.key].dust = TRUE]
         /\ UNCHANGED <<fills, inbound, feeToken>>
    [] x.method = "completeTransferPayload" ->
         ConsumeFill(x.fill) /\ Stored(x.fill, x.custody, Usdc) /\ UNCHANGED <<staged, feeToken>>
    [] x.method = "completeSwapPayload" ->
         ConsumeFill(x.fill) /\ Stored(x.fill, x.dstSwap, x.mint) /\ UNCHANGED <<staged, feeToken>>
    [] x.method = "release" ->
         inbound' = [inbound EXCEPT ![x.fill] = None] /\ UNCHANGED <<staged, fills, feeToken>>
    [] OTHER -> ConsumeFill(x.fill) /\ UNCHANGED <<staged, inbound, feeToken>>

\* A refused transaction changes nothing.
Land ==
  /\ call # Idle /\ call.ix # None
  /\ IF Accepted(call.ix) THEN Effect(call.ix) ELSE UNCHANGED chain
  /\ call' = Idle

\* What was read is no longer what is there.
NoLongerFresh == call' = IF call = Idle THEN Idle ELSE [call EXCEPT !.fresh = FALSE]

OthersStage(k, s) ==
  /\ staged[k] = None /\ staged' = [staged EXCEPT ![k] = s]
  /\ NoLongerFresh /\ UNCHANGED <<fills, inbound, feeToken>>

OthersCloseOrInitiate(k) ==
  /\ staged[k] # None /\ staged' = [staged EXCEPT ![k] = None]
  /\ NoLongerFresh /\ UNCHANGED <<fills, inbound, feeToken>>

OthersPrepareFill(f, content) ==
  /\ fills[f] = None /\ fills' = [fills EXCEPT ![f] = content]
  /\ NoLongerFresh /\ UNCHANGED <<staged, inbound, feeToken>>

OthersComplete(f) ==
  /\ fills[f] \in Contents /\ ConsumeFill(f)
  /\ \/ fills[f].mode # "payload" /\ UNCHANGED inbound
     \/ /\ fills[f].mode = "payload"
        /\ Stored(f, <<"staged-custody", <<"staged-inbound", f>>>>, Usdc)
     \/ /\ fills[f].mode = "payload" /\ fills[f].output # Usdc
        /\ LET mint == fills[f].output
           IN Stored(f, Ata(mint, <<"staged-inbound", f>>, ProgramOf[mint]), mint)
  /\ NoLongerFresh /\ UNCHANGED <<staged, feeToken>>

OthersRelease(f) ==
  /\ inbound[f] # None /\ inbound' = [inbound EXCEPT ![f] = None]
  /\ NoLongerFresh /\ UNCHANGED <<staged, fills, feeToken>>

UpdateFeeRecipient(t) ==
  /\ t # feeToken /\ feeToken' = t
  /\ NoLongerFresh /\ UNCHANGED <<staged, fills, inbound>>

Next ==
  \/ \E c \in Calls : Begin(c)
  \/ Await \/ Return \/ Land
  \/ \E k \in Keys : OthersCloseOrInitiate(k) \/ \E s \in Stagings : OthersStage(k, s)
  \/ \E f \in Fills : \/ OthersComplete(f) \/ OthersRelease(f)
                        \/ \E content \in Contents : OthersPrepareFill(f, content)
  \/ \E t \in FeeTokens : UpdateFeeRecipient(t)

Spec == Init /\ [][Next]_vars

-----------------------------------------------------------------------------
(* Properties                                                              *)

Built == call # Idle /\ call.ix # None

\* What the caller cannot leave to the client.
Required ==
  [stage |-> {"by", "args", "refund", "senderToken", "mint", "authority"},
   close |-> {"chain", "senderToken"},
   initiateTransfer |-> {}, initiateSwap |-> {"mint"},
   completeTransferDirect |-> {"recipient"}, completeTransferRelay |-> {"recipient"},
   completeTransferPayload |-> {}, release |-> {"recipient", "dstToken"},
   completeSwapDirect |-> {"recipient", "mint"}, completeSwapRelay |-> {"recipient", "mint"},
   completeSwapPayload |-> {"mint"}]
Plain(c) ==
  /\ DOMAIN c \subseteq {"method", "payer", "signers", "key", "fill"} \union Required[c.method]
  /\ c.method = "stage" /\ c.by # "programTransferAuthority" => ~Given(c, "senderToken")

\* The transfers the caller may ask for, in terms of the chain and of what is
\* required of the caller.  The last conjunct of CanRelease and the ones on token
\* programs, authority and exact-out relays of CanStage are what the client does
\* not manage although the program would.
CanStage(c) ==
  /\ staged[c.key] = None
  /\ StageTerms(c.args, srcMint(c)) /\ c.args.chain \in Registered
  /\ TokenOf(c.refund, Usdc)
  /\ CASE c.by = "native" -> srcMint(c) = Native
       [] c.by = "sender" -> ProgramOf[srcMint(c)] = TokenProgram
       [] c.by = "programTransferAuthority" ->
            /\ TokenOf(c.senderToken, srcMint(c)) /\ ~Given(c, "authority")
            /\ ProgramOf[srcMint(c)] = TokenProgram /\ c.senderToken[3] \in c.signers
            /\ ~(c.args.redeem = "relay" /\ srcMint(c) = Usdc /\ ~c.args.exactIn)

CanRelease(c) ==
  /\ inbound[c.fill] # None
  /\ c.recipient = inbound[c.fill].recipient /\ c.recipient \in c.signers
  /\ TokenOf(c.dstToken, inbound[c.fill].mint)
  /\ inbound[c.fill].custody[1] = "staged-custody"

CanClose(c) ==
  LET s == staged[c.key]
  IN /\ s # None /\ s.sender \in c.signers /\ c.chain = s.chain
     /\ ProgramOf[s.mint] = TokenProgram
     /\ IF c.senderToken = Null THEN s.mint = Native ELSE TokenOf(c.senderToken, s.mint)

CanInitiate(c) ==
  LET s == staged[c.key]
  IN /\ s # None
     /\ IF c.method = "initiateTransfer" THEN s.mint = Usdc
        ELSE srcMint(c) = s.mint /\ s.mint # Usdc /\ s.exactIn /\ ~s.dust

CanComplete(c) ==
  LET i == fills[c.fill]
      swaps == c.method \in {"completeSwapDirect", "completeSwapRelay", "completeSwapPayload"}
      mode == CASE c.method \in {"completeTransferDirect", "completeSwapDirect"} -> "direct"
                [] c.method \in {"completeTransferRelay", "completeSwapRelay"} -> "relay"
                [] OTHER -> "payload"
  IN /\ i \in Contents /\ i.mode = mode /\ i.chain \in Registered
     /\ mode # "payload" => c.recipient = i.recipient
     /\ IF swaps
        THEN /\ dstMint(c) # Usdc
             /\ IF i.output = Usdc THEN mode = "direct" /\ c.payer = i.recipient
                ELSE dstMint(c) = i.output
        ELSE i.output = Usdc \/ c.payer = i.recipient \/ (mode = "relay" /\ i.late)

Possible(c) ==
  CASE c.method = "stage" -> CanStage(c)
    [] c.method = "close" -> CanClose(c)
    [] c.method \in {"initiateTransfer", "initiateSwap"} -> CanInitiate(c)
    [] c.method = "release" -> CanRelease(c)
    [] OTHER -> CanComplete(c)

\* A caller who leaves every optional account to the client gets an
\* instruction the program accepts, exactly when the transfer can be asked
\* for, as long as nobody changed the chain in between.  Exceptions, which
\* are the client's: it derives the sender's account of a Token-2022 mint
\* under SPL Token (index.ts:628), where it also looks for the owner of a token
\* account to approve (index.ts:667), so that a delegated transfer of such a
\* mint fails; the approval of an exact-out relay leaves the fee out
\* (index.ts:651); an authority the caller names itself is dropped
\* (index.ts:639, 653); a payload completed by a swap keeps its tokens in
\* another account than the one that is released (index.ts:999).
DefaultsAccepted ==
  Built /\ call.fresh /\ Plain(call.args) => (Accepted(call.ix) <=> Possible(call.args))

\* Whatever the caller passed, an instruction that was built from accounts
\* that are no longer what they were, by somebody else's staging at the same
\* key or by a new fee recipient, does not pay rent, refunds, tokens or fees
\* to the parties that were read, nor order a transfer to the chain that was
\* read (index.ts:506, 702, 774, 862).
StaleRefused ==
  Built /\ ~call.fresh /\ Accepted(call.ix) =>
    /\ "staged" \in DOMAIN call.got =>
         LET read == call.got.staged  now == staged[call.args.key]
         IN /\ \A who \in {"preparedBy", "sender", "refund"} :
                 who \in DOMAIN call.ix /\ ~Given(call.args, who) => read[who] = now[who]
            /\ call.args.method # "close" /\ ~Given(call.args, "chain") => read.chain = now.chain
    /\ "custodian" \in DOMAIN call.got /\ ~Given(call.args, "feeToken") =>
         call.got.custodian.feeToken = feeToken
=============================================================================
