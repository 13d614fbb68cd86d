# Verification of the Swap Layer

The Swap Layer moves a token of one chain into a token of another. On the source
chain it turns the input into USDC and places an order on the Wormhole liquidity
layer (the Token Router on Solana); on the target chain it redeems the fill of that
order, turns the USDC into the output token and pays the recipient. There is one
program per platform: the Anchor program `src/solana/programs/swap-layer` and the
contract `src/evm/src/assets`. They share a message format and nothing else: each
trusts only fills sent by the peer it has registered for the source chain. Around
them are a TypeScript SDK per platform, the scripts that deploy and configure the
contract, and a relayer for the test networks.

This directory holds TLA+ models of all of these, configurations for TLC and proofs
for TLAPS. `PROJECT.json` lists the runs, the seeded faults that each property must
detect, the lines of source behind every definition, the findings, the hazards and
the theorems.

## Inventory

| Component | State it keeps | Operations | Interacts with | Module |
|---|---|---|---|---|
| Solana outbound | `StagedOutbound` and its custody account per key; the prepared order | `stage_outbound`, `close_staged_outbound`, `initiate_transfer`, `initiate_swap_exact_in` | SPL Token, Jupiter, Token Router, `Peer` | `SolanaOutbound`, `StagedTransfer` |
| Solana inbound | the prepared fill (the Token Router's), `StagedInbound` and its custody account | `complete_transfer_{direct,relay,payload}`, `complete_swap_{direct,relay,payload}`, `release_inbound` | Token Router, Jupiter, `Peer`, clock | `SolanaInbound` |
| Solana administration | `Custodian` (owner, pending owner, assistant, fee updater, fee recipient), `Peer` | eleven instructions | everything that reads a `Peer` | `SolanaAdmin` |
| Solana client | none; one call at a time | every builder of `SwapLayerProgram` | accounts that others change | `SolanaClient`, `SolanaAdmin` |
| Solana SDK | none | message layouts, quote of the fee, adaptation of Jupiter routes | the program, Jupiter's API | `SolanaLayouts`, `SolanaFees`, `SolanaOrders` |
| EVM initiate, redeem, routers | none of their own between calls | `initiate`, `redeem`, `_swap` | senders, recipients, routers, liquidity layer | `EvmSwapLayer` |
| EVM governance | roles, peers, fee parameters, implementation | `batchGovernanceCommands`, `batchFeeUpdates` | initiate, redeem | `EvmGovernance` |
| EVM parsing, fees, queries | fee parameters per chain in packed words | `parseParamBaseStructure`, `encodeSwapMessage`, `_calcRelayingFee`, `batchQueries` | SDKs, the other platform | `EvmParams` |
| EVM SDK | none | `layout.ts` and the encoders | the contract | `Layouts`, `EvmLayouts` |
| EVM deployment scripts | `contracts.json`, `lastrun.json`, configuration files | deploy, upgrade, configure, update fees, test sends | the contract, each other | `EvmScripts`, `EvmDeployment` |
| Message codec (Rust) | none | `read`, `write` | all parsers | `SolanaLayouts` |
| Testnet relayer | listeners, sockets, running handlers | relay every order it hears | both platforms as an ordinary caller | `TestnetRelayer` |

What is hard in this code, and what makes each part correct:

* **Solana outbound.** A transfer is several transactions of several parties: who
  stages, who pays, who delegates and who initiates may differ, and in between the
  owner changes the peer and the fee updater the quote. A Jupiter swap may leave
  part of its input, which stays claimable in accounts that look like a fresh
  staging. Correct is: the order says what was signed and was made once; accounts are
  not closed before that without giving back all that was put in; rents go to those who
  paid them.
* **Solana inbound.** Recipient, relayer and strangers race for one fill with six
  instructions. Who may replace the encoded swap by USDC depends on the signer, the
  redeem mode, the deadline of the swap and a time limit in an account that may
  change. Correct is: a swap is honoured unless its recipient or the time limit
  waives it; a fill pays out exactly once and exactly; it never gets stuck.
* **EVM.** Control leaves the contract in the middle of a call: to routers, pools,
  tokens, to the refunded sender and to the paid recipient. Results of the
  Universal Router are differences of balances around such a loss of control. A
  failed swap of `redeem` is undone and paid in USDC, one of `initiate` reverts.
  Correct is: no call touches the money of another, and nothing is left behind.
* **Administration.** Batches that read a role once and change it while they run;
  ownership transfers in steps, with overlapping roles and stale requests. Correct
  is: no one gains a privilege without the owner's act.
* **Clients.** A builder derives some accounts and reads others, one await after the
  other, and lands later; a script looks up what another overwrites and does not
  wait for what it sends; a route is rewritten for another owner. Correct is: what
  was prepared is accepted, does what was asked, or is refused.
* **Encodings and fees.** Five readers of one message format, two of them at offsets
  computed by hand; two implementations of each fee. Correct is: what one writes all
  others read as the same, and what was quoted is what is charged.
* **Relayer.** Sockets that drop, handlers that survive them and run concurrently on
  one wallet. Correct is: it keeps listening, finishes, leaves no gap in its nonces, and
  gives up an order only to a race for one.

## How the modules are built

`SolanaOutbound`, `SolanaInbound`, `SolanaAdmin`, `EvmSwapLayer`, `EvmGovernance`,
`EvmScripts`, `SolanaClient` and `TestnetRelayer` are state machines of one component
each.
`SolanaOutboundPromise` maps `SolanaOutbound` to the abstract `StagedTransfer`.
`Layouts` is what the layout library does; `EvmLayouts` and `SolanaLayouts` extend it
with the layouts, `EvmParams` extends `EvmLayouts` with what the contract reads.
`EvmDeployment` joins `EvmScripts`, the scripts, wallets and chains, with `EvmParams`,
what they encode and the contract decodes; `SolanaOrders` extends `EvmParams` with orders
from Solana, which use `SolanaLayouts` and `SolanaFees` as instances.
`Orders` puts the two side by side. The MC modules hold the instances for TLC.

No module with a theorem reaches a recursive operator. `Totals`, which `SolanaInbound`
uses, says what accounts hold together by counting units, so that sums need no recursion:
`Total(balance)` is the number of pairs of an account and a number up to its balance.
`Layouts` is recursive, since layouts are; it is used by modules without theorems only.

### SolanaOutbound

An instruction of Solana is atomic: it completes or leaves no trace. So each is one
action whose guard collects the account constraints and the `require!`s.

* `staged[k]` and `custody[k]` are the `StagedOutbound` account at the key `k` and the
  token account derived from it. `StageBySender`, `StageByAuthority` and
  `StageLamports` are the three ways of `stage_outbound`; `Open` is what they share.
* `SpendDelegation` is a token transfer by a delegate. The program transfer authority
  is a PDA of the hash of the arguments: as a delegate it *is* the arguments.
* `CloseToToken` and `CloseToLamports` are the branches of `close_staged_outbound`.
  `CloseAccounts` returns the rents, and is also what the initiations end with.
* `InitiateTransfer` and `InitiateSwapExactIn` place `PrepareOrder`'s order. A swap
  that leaves dust keeps both accounts (`KeepDust`) with the recipient zeroed, so
  that they can only be closed, which the code relies on.
* `Approve`, `Donate`, `PlaceOrder` (the Token Router), `UpdatePeer` and
  `UpdateRelayParameters` are the environment. Here `calculate_relayer_fee` is a quote
  of the peer, any of `Quotes`, or `NoQuote` when relaying is disabled or refused; the
  formula itself is in `SolanaFees`.
* `log`, `id` and `deposits` are history; `put` of a log entry is what the staging put
  into its custody account.

`StagedTransfer` is the promise without accounts, signers, fees, swaps or dust: a
request waits, and then becomes one order that honours it or is cancelled, for good.
`SolanaOutboundPromise` reads the requests from `log` and each outcome from the orders
made and the accounts left: `Places(i)` is where the orders of staging `i` are, under a
key or placed, and `OrdersOf(i)` lists them, however many. `Honours` of the abstract
module is `HonoursWhole`: terms, fee and amount. `KeepsPromise` is the refinement.

### SolanaInbound

* `fills[f]` is the Token Router's prepared fill; consuming it closes it.
* Each of the six instructions is one action; `Consume` is the account
  `ConsumeSwapLayerFill` and the call that pays the fill out. `payer` and `redeemer` are
  the signers.
* `Swap` is Jupiter: it may take less than the whole input, and gives any output the
  limit admits. `Deliver` pays the output and the dropoff, `Swapped` returns the
  residue.
* `swapUsdc[f]` is USDC already in the swap's token account (`Donate`).
* `receipt[f]` is history: who signed, when, and what was paid.

### SolanaAdmin

The custodian and the peers, with one action per instruction, as the client builds
it: the client reads nothing for these, so an instruction that was signed long ago
is one that is built when it lands, and anybody's may land at any moment. The account
structs that instructions share (`OwnerOnly`, `AdminMut`, `FeeUpdater`...) are operators
of the signer. History: who made the pending offer, who was ever named, who signed.
`NoChain` is the chain id 0, which a registration may name and `SetPeer` refuses.

### SolanaClient

`call` is a builder under way: the arguments its caller gave (an optional one that was
left out is not in the record), and what it has read so far. `Reads` is the order of
its awaits; `Await` does the next, others stage, cancel, complete and release in
between, `Return` builds, `Land` compares the accounts with those the program checks.
Addresses are tuples of seeds, so two derivations agree exactly when their seeds do.
The approval that `stageOutboundIx` adds for the program transfer authority is an
instruction of its own: `OwnerRead` looks for the owner of the sender's token account
under SPL Token and finds the default key where the look-up fails, and
`createApproveInstruction` names SPL Token as its program. `Delegated` is what that
instruction needs to succeed: the token account's own program, its owner, who signs.

### EvmSwapLayer

* A call is a frame of `stack`. Its `pc` is where it has given control away
  (`router`, `routed`, `refunded`, `dropped`, `sent`) or what it does next (`deliver`,
  `order`). Whoever has control may push another `redeem` or `initiate`; only the
  innermost frame moves.
* `world` is all that a revert undoes. A frame keeps the world it entered (`entry`) and
  the one in which it called its router (`atCall`): `Revert` restores the first,
  `RedeemSwapFails` the second, nested calls included. Any frame may revert at any
  moment, which stands for every check not modelled, for a callee that reverts and
  for gas.
* `SwapResult` is what `_swap` returns: for Trader Joe what the router says, for the
  Universal Router a difference of balances. The frame's `got` records what the router
  really did.
* History: `world.voided` is the USDC that swaps took for an output of zero; `lost`, of a
  frame and of its order, is how much of that calls nested in its swap took. A revert
  undoes `voided` with the rest of the world.
* Between transactions: fills arrive, time passes, tokens are sent to the contract by
  mistake (`Donate`), the owner sweeps, updates peers and quotes.

### EvmGovernance

A batch is a frame, each of its commands a step: a sweep of ether hands control away
in the middle, and another batch may run before the first goes on. `gov` is what a
revert restores. `isOwner` is a field of the frame, read once when it begins, as in
the code. A batch of fee updates carries the chain it works on and its copy of that
chain's parameters; `Written` stores it when the chain changes.

### Layouts, EvmLayouts, EvmParams

A layout is a sequence of items as in the library: numbers under a conversion,
constants, bytes, switches, arrays. `Serialize` and `Deserialize` interpret it over
sequences of bytes; `Thrown` among the bytes is an exception. `EvmLayouts` is
`layout.ts`, item for item. `EvmParams` is the other side: the contract's parsers with
their offsets and sizes, the packed fee word, `_calcRelayingFee`, `UpdatePeers` and
`batchQueries`. Unchecked reads behind the end find zero; every parser compares its
last offset with the length. Prices, gas and dropoffs are scaled down to fit the
integers of the checker, their order of multiplications and divisions is the code's.

### EvmScripts, EvmDeployment

`EvmScripts` knows nothing of bytes. What it needs of the encodings is declared as
constants with assumptions: the address of a contract as a peer's (`AddressOf`), whether
a batch encodes (`Encodes`, `EncodesFees`), what a contract makes of it (`Govern`) and
whether it accepts a test order (`Initiates`). `EvmDeployment` defines them by the SDK's
layouts and the contract's parsers, and the run gives the constants these definitions, so
that TLC evaluates the assumptions with them.

A shell runs a chain of scripts. `sh[s]` is what is left of it, the chain it is at, and
its local variables; a step is what a script does between two awaits. `pools[c]` are
the wallet's transactions that a chain has not mined, in nonce order; `contracts[c]`
are its contracts, whose addresses follow from the nonce. `Sends` may report an error
and have sent or not. `files.lastrun` is the file that a deployment overwrites and
every lookup reads again. A contract is the number of its creation on its chain, at most
`MaxContracts`. `read` is history: whether a shell configured with the addresses it had
deployed. `order`, of `EvmDeployment`, is an integrator's order from a configured contract;
its steps are those of `EvmScripts`, which leave `order` alone, and `SendOrder`, which leaves
all else.
`UpgradeProxy` and `UpdateFees` end as the code does: see the remarks below.

### SolanaLayouts, SolanaFees, SolanaOrders, Orders

`SolanaLayouts` has the SDK's layouts and those of the Rust codec, which leaves behind
what it does not read, and Jupiter's route arguments for both. `SolanaFees` has the fee
twice, as the SDK quotes it and as the program charges it. In `SolanaOrders` an
integrator quotes, stages and sends, through a route that
`modifySharedAccountsRouteInstruction` adapted if the token is not USDC, while the fee
updater acts between any two steps. The recipient is any 32 bytes: `stage_outbound`
refuses zero only, and `parseSwapMessageStructure`, the contract's reader, reverts on one
that is not an EVM address. `Orders` lets one of the two sides move in a
behaviour: they share messages, which `OrderReadAsAsked` and `SolanaOrderAsAsked` have
read by the readers of both platforms, and no state.

### TestnetRelayer

One Node process: `socket`, `live` and `saved` are each chain's connection and where
its listener is; `task[t]` is a run of the handler at one of its awaits, which
survives the connection but not the process. `chain` is the round of `main`, `pool`
the wallet's pending transactions. What `getToChain` finds is any of `Words`: in the
first two relayer runs any configured chain or none, in the third what Node's
`Buffer` really makes of the string.

## Runs

| Run | What it shows | Instance |
|---|---|---|
| `outbound` | accounts are closed only after the order was made or with all that was put in given back, rents return to their payers, a delegation is spent whole and only by the arguments it names; an order says what was signed and covers its fee; the program refines `StagedTransfer` | two regimes in one run: two wallets stage one key once, an exact-out relay or a swap, with two approvals, up to its end; one wallet stages it twice with every kind of transfer, two chains, USDC in and out, swaps with a relay and a payload; two quotes and none |
| `outbound_cancel` | finding: a Token-2022 staging cannot be closed | the second regime, one staging |
| `inbound` | a swap is honoured or waived, a fill pays out exactly, its recipient can always redeem, a relayer completes it without him | one fill of any content, a moving peer account, clock to 3, outputs to 2 |
| `evm_calls` | nested calls and reverts do not mix up money; what a redeemed fill pays; what an order carries | three regimes in one run: two fills and one order two calls deep; one fill of any kind with overrides and time; one order of any kind with time and quotes |
| `evm_governance` | ownership only by the owner's act, relinquished for good; an assistant stays within his commands; a batch of fee updates writes what it says | two addresses for five roles, two chains, three batches of up to two commands and three updates, two deep |
| `evm_stale_owner` | finding: a batch goes on with the privilege of an owner that it gave away | as `evm_governance` |
| `solana_admin` | no stale request, ownership descends, peers moved by the owner only | three wallets, one a program address, two chains and the id 0 |
| `solana_client` | what a builder fills in is accepted exactly when the transfer can be asked for; what became stale in between is refused | one key, one fill of 7 contents, 6 stagings, every builder with every optional account given or not; a token account of each token program, one of them another user's |
| `orders` | networks that scripts build are whole and charge as configured; orders of both platforms are read as asked, charged as quoted; routes are kept | two EVM chains and an unknown id, two of six commands in two shells, one fault; about 40 kinds of arguments; on Solana a mint of each token program, recipients that are an EVM address, none and zero, 9 routes, one of them without accounts of a dex, 5 options, one update |
| `relayer_race` | listeners survive reconnections, nonces have no gaps, an order is lost only to a race for a nonce | two orders for one chain, two rounds of `main`, two faults |
| `relayer_liveness` | connections come back, handlers end | orders of every kind, incomplete configurations, one fault |
| `relayer_redeems` | finding: no order that was heard is redeemed | one order, no fault |

Why these bounds are enough. Keys and fills do not interact except through
balances, so one key suffices for what a key's life does; two stagings of it are
needed for the dust, the restaging and a change of terms in between. Amounts only
meet comparisons with fees and limits: 0 to 3 gives less, equal and more. Deadlines
and limits lie inside the clock's range with a tick before and after. `Quotes`
includes two values, so that the quote at staging and at initiation can differ. One
call nested in another is the whole phenomenon: a call that returns has changed
the contract's balances by nothing (`KeepsNothing`), so to the frame below a deeper
nest looks like a shallow one. A batch of three fee updates can leave a chain and come
back to it. Two shells can overwrite each other's file once in either order, and one
fault is enough for a half-done network: a second has nothing left to break that the
first did not. Encodings are checked with each variant of every switch and values
that differ in every byte that is read; the bytes of one block do not depend on
another's but through its length. Bounds on unbounded things are constants:
`MaxStagings`, `MaxOut`, `MaxClock`, `MaxDepth`, `MaxOrders`, `MaxGifts`, `MaxBatch`,
`MaxUpdates`, `MaxBatches`, `MaxRounds`, `MaxRuns`, `MaxContracts`, `OrderRuns`, `MaxFaults`.
`MaxCustody` bounds the donations in the first regime of `outbound`. `MaxContracts` is one
contract of an earlier deployment and two for each of two runs. The state constraints
`Regimes` of `outbound` and `evm_calls` leave out products of two and of three questions,
not cases of one. `evm_calls` uses the symmetry of fills, `orders` that of shells; all their
properties are invariants. `CHECK_DEADLOCK FALSE` is set everywhere: the bounded
environment comes to its end, and a swap layer with nothing to do rests.

Fairness. `inbound`: time passes (weak fairness of `Tick`) and someone other than the
recipient keeps submitting `complete_transfer_relay` (weak fairness of `Relayed`),
which is what a relayer is paid for; the instruction is open to any signer and needs
only lamports for the dropoff. Time limits of the peer account may change all the
while; they are 16-bit seconds in the code and at most `MaxClock` in the run, so that
they pass. The relayer runs: timers fire, connections are accepted in the end, the
services answer in the end (the handler polls them without limit), sent transactions
are mined. Nothing is assumed of the operator, of faults or of orders; the relayer's
loop of `main` and its start are not fair.

## What holds with an exception

* `KeepsNothing`: a swap of `redeem` that succeeds with an output of zero counts as
  failed although it has taken its USDC (`outputAmount == 0` at
  `SwapLayerRedeem.sol:131`), and the recipient is paid in USDC again, out of what the
  contract holds, if it holds that much. The property accounts for it (`world.voided`),
  and so do the two that speak of calls around such a redeem: `Backed` promises nothing
  more of the amounts once a nested call took USDC for nothing, and `OrderHonoured`
  allows an order to lack what was `lost` in its swap. It needs a limit of zero and an
  amount too small for the pool; the swaps nested in `evm_calls` have limits of at least
  1, the theorems are about any limits. This exception was found by the proof: the
  invariant of the calls is not inductive without it.
* `LostToNonceRace`: handlers run concurrently on one wallet, which reads its nonce
  before it sends; of two that read the same, one transaction is refused and its order
  dropped. The property says that nothing else loses an order once it has been read.
  It is proved for every configuration, including those for which `main` throws.
* `OrderReadAsAsked` excepts payload orders: the SDK's layout writes the sender before
  the payload, the contract reads the length there (`InitiateParams.sol:160`) and
  refuses them.
* `ConfiguredWhenDone` speaks of shells that read the addresses they had deployed. A
  deployment of some of the operating chains overwrites `lastrun.json`, after which
  every configuration ends with an error.
* `RouteKept`: the SDK's decoder throws at dex ids 39 to 41, which the program's types
  know; above a slippage of 100 % it reports a negative minimum where the program
  clamps. A route needs an account behind its 13, for the program indexes it.
* `SolanaOrderAsAsked`: an order whose recipient is not an EVM address is staged and sent,
  and no contract can read it (`Message.sol:67`); the zero recipient is refused. The
  property says that the contract reads exactly those that are for an EVM address.
* `DefaultsAccepted`: what the client does not manage although the program would. It
  derives the sender's account of a Token-2022 mint under SPL Token (`index.ts:628`); it
  looks up the owner and builds the approval under SPL Token too (`:667`, `:670`), so a
  delegated staging of such a mint fails; the approval of an exact-out relay leaves the fee
  out (`:651`); a transfer authority that the caller names is dropped (`:639`); a payload
  completed by a swap keeps its tokens in another account than `releaseInboundIx` derives
  (`:999`).
* `RelinquishedForGood` leaves out transactions with a stale owner, which are the third
  finding.

## Findings

1. `close_staged_outbound` takes the custody account as an account of the SPL Token
   program, while `stage_outbound` opens it for either token program. A Token-2022
   amount staged for a swap that then cannot be executed cannot be taken back by the
   instruction documented for it (`lib.rs:211`). Run `outbound_cancel`.
2. The relayer reads the target chain from `new Buffer(circleMessage, "hex")` of a string
   that begins with `0x`; the buffer is empty, the read throws and the order is dropped,
   although the comment at `index.ts:188` says it is redeemed. Run `relayer_redeems`.
3. Commands that are "only available to owner" take effect for a batch whose sender is the
   owner no longer: `batchGovernanceCommands` reads `isOwner` once
   (`SwapLayerGovernance.sol:99`), and a batch sent from inside its sweep of ether may hand
   the ownership on before it continues. It takes two batches of one owner, nested. Run
   `evm_stale_owner`.

Remarks that no run is made for: the comment on `redeem`'s params
(`SwapLayerRedeem.sol:42`) promises that an overridden swap that fails reverts, the code
pays USDC (`:125` says so too). `updateSwapLayerFees.ts` always throws, for it encodes
`GasPriceUpdateThreshold`, which the layout does not have; the SDK's `GasPrice` update
carries a timestamp that the contract does not read. `upgradeSwapLayer.ts` calls
`upgrade`, which the contract does not have. The SDK's `immutableTypes` lack the Trader
Joe router. Percentages keep two digits below 1 % and one decimal above, fewer than the
comment at `layout.ts:112` says. A second subscription may leave two listeners
(`index.ts:265`). The comment on `complete_transfer_relay` in `lib.rs` has the dropoff
go "from the payer to the relayer"; the code sends it to the recipient, and when the
recipient pays himself there is neither fee nor dropoff.

## Proofs

`SolanaOutbound_proof` proves, for any wallets, keys, chains, quotes, requests,
approvals, funds and number of stagings, from the assumptions named in
`SolanaOutbound` (wallets are finitely many, amounts are natural numbers, null values are
distinct from the values they stand beside):

* `TypeCorrect`: `Spec => []TypeOK`. It is the absence of overdrawn wallets, custody
  accounts and delegations, not only a matter of shapes: every debit needs the
  guard that covers it. `TypeOK` is inductive by itself, one step per action
  (`TypeStep`).
* `OrdersHonourRequests`, `OrdersCoverFees`, `OrdersHonourAmounts`: an order, prepared or
  placed, carries what its staging was asked for. None of the three is inductive: an
  order is made from the staged account, and the properties say nothing of that.
  The inductive invariant is `TypeOK /\ Paired /\ OrdersInv`. `Paired`: a staged account
  exists exactly when its custody account does. `OrdersInv`: every staged account
  that is not yet initiated is `Faithful` to its log entry (terms, a fee within the
  maximum, at least the staged amount in custody, which donations only increase)
  and `Sized` (the checks of `stage_outbound` on amount and fee); one that is
  initiated (recipient zeroed) holds no USDC mint, so that neither instruction
  accepts it; every order is `OrderOK`. `OpenFaithful` establishes it for a
  staging, `PrepareFaithful` carries it from the account to the order, `LogGrows`
  keeps it for older orders.

From that invariant it goes on. `StepShapes` reduces every step to what it does to the
stagings: opens one, cancels one, makes an order of one that is not initiated, places an
order, or nothing.

* `RentsReturned`: `deposits[u]` is twice the number of open stagings that `u` paid for.
  The invariant `RentsInv` adds that their set is finite, which a cardinality needs and
  which holds although there may be infinitely many keys, for it grows by one at a time.
* `OneOrder`: no two orders, prepared or placed, come from the same staging. It needs
  `IdsInv`: the stagings that can still become an order have distinct log indices, none
  of which an order has. An order is made only of such a staging, which ceases to be
  one in that step, with dust or without; a new one takes an index that nothing has
  yet. This is the heart of `KeepsPromise`.
* `DelegationsSpentWhole`: an action property, from `TypeOK` and the assumption that a
  wallet is not the hash of some arguments.
* `StagingsEndPaid`: `EndsPaid`, an action property. A closing of the sender's gives back
  all that custody holds; it suffices because a staging without an order still has in
  custody at least what was put in (`Faithful`), and one that is zeroed has its order
  (`ZeroedHasOrder`, below). An initiation makes the order in the step that closes.

`SolanaOutbound_proof` ends with `PromiseKept`: `SolanaOutbound` implements
`StagedTransfer`, step by step: opening is `Ask`, cancelling is `Cancel`, an initiation is
`MakeOrder`, and every other step, placing included, leaves requests and outcomes as they
are. By `OneOrder` a staging has at most one place (`OutcomesAre`), so that `OrdersOf` is
empty or one order. The invariant adds `ZeroedHasOrder` to those above: an account whose
recipient is zeroed is one whose order is made, so that closing what dust has left
cancels nothing.

The quotes of `SolanaOutbound` are values and no more. That they are what the program and
the SDK compute is `QuotesAreCharged`, a theorem about `SolanaFees` as an instance: for any
parameters that `verify_relay_params` accepts, any dropoff and any path, the program's
`calculate_relayer_fee` is the SDK's `calculateRelayerFee`, both refuse, or the fee exceeds a
uint48; and the fee is positive, which `InputsAssumption` says of `Quotes`. The scaled units
of `SolanaFees` are in the definitions; the argument needs of them only that they are
positive and that the same margin is the largest on both sides.

`SolanaInbound_proof` proves, for any wallets, fills, peers, funds and limits:

* `TypeCorrect`: also here that no instruction overdraws a wallet, a custody account or
  the accounts of a swap, which `MoveGas`, `SwappedLedger` and `SwapDelivers` show for the moves of money.
* `SwapsHonoured`: a consumed fill with an encoded swap was swapped within its terms, or
  waived by its recipient or by the time limit. `SwapHonoured` speaks of receipts; the
  invariant adds `StagedConsumed`, that what is staged belongs to a consumed fill.
* `FillsPayOut`: what a step that consumes a fill pays, by one lemma per instruction.
* `ValueConserved`: `Conservation`, for finitely many wallets (`UsersAssumption`). It begins
  with the lemmas about `Totals` it needs: a total changes by what one entry changes by
  (`TotalChanges`), grows by what an entry new in the domain holds (`TotalGrows`), is zero
  where all is zero, and is a product where all entries are equal. A fill brings the USDC that `Received` counts;
  `Receipted`, that a consumed fill has a receipt, makes this total one of amounts.
  `CreditSum` adds up what a delivery gives to two wallets, which may be one, and
  `SwappedSum` what a swap exchanges with Jupiter.

`SolanaClient_proof` proves, for any keys, fills, mints, chains, calls and stagings of
others, from the assumptions named in `SolanaClient` (the accounts that the types of the
client require are there, a payer signs, no address or instruction is the null value, both
USDC and the native mint belong to SPL Token):

* `DefaultsAreAccepted`: `DefaultsAccepted`. Two invariants. `CallInv` says what is known of a
  builder under way: what its method awaits (`Needs`, which `ReadsAre` gets from `Reads`)
  is either still to be read or was read, and then, if nobody changed anything, is as
  it was read; a built instruction is `Build` of what was read. `ChainInv` says what
  accounts can be: staged for a registered chain, fills of known contents, a payload in
  the custody token of its fill or in an associated account. From the two, one lemma per
  method (`StageDefaults`, `CloseDefaults`...) shows that accepted and possible are the same,
  in both directions, by way of what each field of the instruction is (`StageIs`,
  `CloseIs`...); `OwnerFound` is what the look-up for an approval can have found.
* `StaleIsRefused`: `StaleRefused`, from `CallInv` alone. What was read counts for nothing in
  it, only that it went into the instruction and what the program compares it with.

`SolanaAdmin_proof` proves, for any wallets, chains and parameters:

* `TypeCorrect`: roles are held by wallets, the fee account exists, registered peers
  have an address and accepted parameters.
* `NoStaleRequest`, `OwnershipDescends`: a pending request is the present owner's own,
  and the owner is always a key that an owner named. They are proved together with
  the type invariant, which keeps `None` and the zero key from being owners.
* `PeerMovedByOwnerOnly`: an action property, from the same invariant.

`EvmGovernance_proof` proves, for any keys, chains and bounds, with batches nested to any
depth:

* `OwnershipDescends`, `RelinquishedStays`. A revert restores the state at which a frame
  was entered, so that the invariant `Shapes` says of every frame's `entry` what it says
  of the present state.
* `AssistantStaysBounded`: what a transaction without the owner may not change. It is
  about the end of a transaction, while frames run with a privilege they read once.
  `Bounded` says of the state, and of the entry of each frame, that as long as the owner
  took no part, nothing of his has changed since the transaction began and none of the
  frames that may go on from there has his privilege.
* `FeeBatchesExact`: after a batch of fee updates every chain has what was asked. `Working`
  relates the copy that a batch works on, and the chain it belongs to, to what was asked
  so far.

`EvmScripts_proof` proves, for any shells, commands, chains, lists of chains, configurations,
numbers of contracts and of faults, from the assumptions named in `EvmScripts`:

* `ScriptsTypeCorrect`: contracts, pools, files and processes keep their types.
* `DeploymentsApart`: `PeersTogether`. An address goes from a deployment's local variables to
  `lastrun.json`, from there to a batch, to a pool and at last to a contract, with other
  shells at work between any two of these. `TogetherInv` says of each place that what it
  holds is of one deployment: the file (`DeployedBy`), the process that built a batch
  (`GoodShell`), the pool (`GoodPool`). Files are read without an await between the lookups
  of one batch, which is why its addresses cannot mix (`PeersBatchIs`). Beside it stands
  that numbers are never reused: a creation in a pool is of a number that no contract and
  no other creation has (`Numbered`), although nodes may take a transaction and report an
  error, and a shell that waits for its creation waits for its own (`Creation`).
* `DeploymentsWork`: `ConfiguredWhenDone`. `NetworksInv` adds that runs have numbers of their
  own (`RunsOK`), and that whoever refers to a contract of a run that is still known does so
  by way of what its shell noted, when it had noted all (`RecordedOK`): the file is written
  once, at the end. So a batch sent to a contract of the run is for it and has its peers
  (`GovernOf`), a later batch repeats what an earlier one did, and what was `Configured`
  stays so. `ConfiguredSoFar` counts the chains that a shell has been through, each
  `Configured` or with its batch in the pool. `AcceptedOK`: a batch is sent only after it
  was tried, and the contract accepts it then whatever else was mined in between.
  `TestsOK`: a test order in a pool comes behind a batch that gives its contract the peer,
  for one wallet's transactions are mined in nonce order.

The theorems are of `ScriptsSpec`. The run checks the same properties in `EvmDeployment!Spec`,
each step of which is one of `ScriptsSpec` or changes none of its variables.

`EvmSwapLayer_proof` proves, for any fills, requests, routers, callers and limits and for
calls nested to any depth, from one invariant, `CallsInv` (`CallsKept`):

* The world that a frame finds when control comes back to it is the present one for the
  innermost frame, and for any other the `entry` of the frame above it (`After`), for that
  is what a call that reverts restores. `Between` says that the contract's balances in
  that world exceed those at the frame's own entry by exactly what the frame
  has `Held` at its point of the code: the input before the swap, the output after it, the fee of
  Wormhole, the dropoff. `AtCallOK` says the same of the world to which a failed swap of
  `redeem` returns. A call that returns has changed nothing, one that reverts likewise, so
  no sum over the stack is needed.
* `RedeemOK` and `InitiateOK` say what a frame remembers of its fill or request, `WorldOK`
  that each fill paid and each order placed is as it should be, in the present world and
  in every world that may be restored.
* `NothingKept`, `FillsPaid`, `OrdersHonoured` and `CallsBacked` follow: `KeepsNothing` from
  `Between` at the bottom of the stack, `Backed` at its top.

`TestnetRelayer_proof` proves, for any chains, orders, runs of handlers and faults:

* `ListenersSurvive`. `WiresInv` adds that an open socket has no listeners saved for later
  and that all chains have one listener or, before the first round of `main`, none has.
* `NoNonceIsSkipped`: `NoNonceGap`. `MoneyInv` relates handlers and pools: a pending
  transaction is one its handler sent, with the nonce the handler read, below the next one
  that the node would give out; two of one chain differ in their nonces. Counting them
  (`TakenIs`) leaves no nonce between those mined and the next one that is not pending.
* `LostOnlyToNonceRace`. `NonceInv`: every nonce that was given out belongs to a handler
  whose transaction `Landed`, pending or mined, and if mined, an order redeemed. `CalmInv`:
  without faults sockets stay open under waiting handlers, and a handler that knew the
  right chain gives up only for an order redeemed or a nonce used. A handler that gives
  up because a configuration is incomplete has no listener to begin with (`Doomed`).

Only model-checked: whatever is about `ENABLED` (both `RecipientCanRedeem`) and liveness under fairness (`RelayCompletes` and the properties of
`relayer_liveness`), which are beyond the prover; what `Layouts` and the modules above it
compute, which is recursive and an induction over data, and with it `FeesAsConfigured`,
`OrderReadAsAsked`, `SolanaOrderAsAsked` and `RouteKept` of the run `orders`.

## Order of work

The project was built along the money: first the Solana program, outbound and inbound,
then the contract's calls, the governance of both, the clients, scripts and encodings, the
relayer; each state machine was checked before its proof. Not yet modelled, and worth it:
fees for a Solana target in `EvmParams`, and the ways to acquire tokens in `EvmSwapLayer`.

## Not modelled, and why

* External programs beyond their use: Token Router and liquidity layer (a submodule
  without its contents here), Jupiter, the routers, SPL Token, WETH, ethers, Circle's
  attestation service, the guardians. A swap is an exchange of any rate its limits
  admit. On EVM an exact-in swap takes its whole input.
* Token-2022 transfer fees; the rent of the prepared order, which belongs to the Token
  Router; token accounts of an outbound swap that hold tokens beforehand (inbound
  ones are modelled).
* EVM: tokens that call out while `initiate` acquires them, tokens sent to the contract
  in the middle of a call, allowances and permits, the inversion of paths, ATA rent
  and Jupiter swaps in the fee for a Solana target, queries that read one slot.
* Bytes of governance commands other than `UpdatePeer`: `EvmGovernance` has what they do,
  and the scripts write no other.
* Scripts: the CREATE2 factory, guardian keys and relayers of `env.ts`, which no script of
  the swap layer uses; the `CONTAINER` override; transactions that a node drops later.
* Generated code: `whirlpool.ts` (the interface description of another program, half
  of the TypeScript lines), the bindings of ethers contracts, the maps of addresses in
  `constants.ts`.
