--------------------------- MODULE TestnetRelayer ---------------------------
(***************************************************************************)
(* The testnet relayer: one Node process that listens, over one websocket  *)
(* per chain, to the messages the liquidity layer publishes, and redeems   *)
(* on the target chain the orders that ask to be relayed                   *)
(* (src/testnet-relayer/src/{index,websocket,env}.ts).                     *)
(*                                                                         *)
(* JavaScript is single-threaded, so a step is what runs between two       *)
(* awaits or timers.  A handler of an event is a task that survives a      *)
(* lost connection, because the wrapper re-sends the pending requests, and *)
(* does not survive the process, which stores nothing.                     *)
(*                                                                         *)
(* External, modelled from how the relayer uses it: ethers (a Contract     *)
(* keeps one wrapped listener per filter; `off` removes it only from the   *)
(* provider in use; a Wallet reads its nonce before it sends), Circle's    *)
(* attestation service, the guardians and the nodes of the chains.         *)
(***************************************************************************)
EXTENDS Integers, FiniteSets

CONSTANTS
  Chains,     \* environment.chains, by chainId
  Orders,     \* messages published by the liquidity layer contracts
  From, To,   \* Orders -> Chains: where an order is placed and where it goes
  Kind,       \* Orders -> {"relay", "other", "nocctp"}
  Dropoff,    \* Orders -> Nat: the gas dropoff its redemption must carry
  Words,      \* the chains getToChain may find for the number it reads, NoChain included
  NoChain,    \* no configured chain has the domain that was read, or the read threw
  Configs,    \* contents chains.json may have: Chains -> set of fields
  MaxRounds,  \* bound: rounds of the loop of main
  MaxFaults   \* bound: connections lost or refused

Required == {"chainId", "evmNetworkId", "rpcWs", "wormholeAddress",
  "liquidityLayerAddress", "uniswapV3RouterAddress", "permit2Address", "usdcAddress",
  "circleMessageTransmitter", "circleDomain", "swapLayerAddress"}
\* What the wormhole SDK knows of the chain: it is a testnet chain, with a core contract.
Known == {"network", "core"}

Copies == 1..MaxRounds
Tasks == Orders \X Copies

ASSUME RelayerAssumption ==
  /\ NoChain \notin Chains
  /\ From \in [Orders -> Chains] /\ To \in [Orders -> Chains]
  /\ Kind \in [Orders -> {"relay", "other", "nocctp"}]
  /\ Dropoff \in [Orders -> Nat]
  /\ Words \subseteq Chains \union {NoChain}
  /\ Configs \subseteq [Chains -> SUBSET (Required \union Known)]
  /\ MaxRounds \in Nat \ {0} /\ MaxFaults \in Nat

VARIABLES
  up,        \* the process runs
  config,    \* the chain data it was started with
  run,       \* the loop of main goes on
  socket,    \* Chains -> state of the websocket of the chain's provider
  live,      \* Chains -> listeners in provider._events
  saved,     \* Chains -> listeners in WebSocketProvider.events, to be started on "open"
  task,      \* Tasks -> progress of one call of handleRelayerEvent
  placed,    \* orders whose message has been published
  heard,     \* orders whose message reached at least one listener
  pool,      \* transactions of the relayer's key accepted by a node and not mined
  mined,     \* Chains -> transactions of the relayer's key mined
  redeemed,  \* Orders -> how often redeem has succeeded
  paid,      \* orders redeemed by the relayer's transaction
  rounds, faults  \* bounds

process == <<up, config, run>>
wires == <<socket, live, saved>>
chain == <<placed, pool, mined, redeemed, paid>>
vars == <<process, wires, chain, task, heard, rounds, faults>>

-----------------------------------------------------------------------------
(* Listeners.  A contract knows one wrapped listener per filter (fresh);   *)
(* one it no longer knows but which a provider still holds is stale, and   *)
(* calls the same handler.                                                 *)

Listeners == [fresh : 0..1, stale : 0..MaxRounds]
NoListener == [fresh |-> 0, stale |-> 0]
Count(l) == l.fresh + l.stale
Join(a, b) == [fresh |-> a.fresh + b.fresh, stale |-> a.stale + b.stale]

\* Mutant: a listener waiting for the next "open" is taken for the one just removed.
\* Contract.off, then Contract.on, as subscribeToEvents calls them.
Unsubscribed(c) == [live |-> [live[c] EXCEPT !.fresh = 0],
                    saved |-> [fresh |-> 0, stale |-> saved[c].stale + saved[c].fresh]]
subscribeToEvents(c) == [Unsubscribed(c) EXCEPT !.live.fresh = 1]

-----------------------------------------------------------------------------
(* Tasks: one per call of handleRelayerEvent.                              *)

Idle == [pc |-> "idle", to |-> NoChain, nonce |-> -1]
At(t, pc) == task[t].pc = pc
Goto(t, pc) == task' = [task EXCEPT ![t].pc = pc]
\* The catch of handleRelayerEvent: the error is logged, the order forgotten.
Dropped(t) == Goto(t, "dropped")
Running(t) == task[t].pc \notin {"idle", "ignored", "done", "dropped"}

\* The message is a Fill whose sender is the swap layer of its source chain, and its swap
\* message asks for Relay.
isFromSwapLayer(o) == Kind[o] # "other"
\* A log of the receipt is a MessageSent of the circleMessageTransmitter.
findCircleMessageInLogs(o) == Kind[o] # "nocctp"
\* The chain whose circleDomain is the number read at byte 69 of the Circle message.
getToChain == Words
\* getChainInfo throws for a chain that is not in the environment.
HasChainInfo(chainId) == chainId \in Chains

\* A request is answered when its chain's socket is open; one pending when the socket
\* closed is sent again on the next (this.requests).
Answered(c) == up /\ socket[c] = "open"

Pending(c) == {tx \in pool : tx.to = c}
\* What redeem requires of a call without msg.value, on chain c.
Redeemable(o, c) == c = To[o] /\ redeemed[o] = 0 /\ Dropoff[o] = 0

Init ==
  /\ up = FALSE /\ run = FALSE
  /\ config = [c \in Chains |-> {}]
  /\ socket = [c \in Chains |-> "closed"]
  /\ live = [c \in Chains |-> NoListener]
  /\ saved = [c \in Chains |-> NoListener]
  /\ task = [t \in Tasks |-> Idle]
  /\ placed = {} /\ heard = {}
  /\ pool = {}
  /\ mined = [c \in Chains |-> 0]
  /\ redeemed = [o \in Orders |-> 0]
  /\ paid = {}
  /\ rounds = 0 /\ faults = 0

-----------------------------------------------------------------------------
(* The process.                                                            *)

\* createEnvironment: every field is there or the process exits.
Complete(cfg) == \A c \in Chains : Required \subseteq cfg[c]

Start ==
  /\ ~up
  /\ \E cfg \in Configs :
       /\ Complete(cfg)
       /\ config' = cfg
  /\ up' = TRUE /\ run' = TRUE
  /\ socket' = [c \in Chains |-> "connecting"]
  /\ live' = [c \in Chains |-> NoListener]
  /\ saved' = [c \in Chains |-> NoListener]
  /\ UNCHANGED <<chain, task, heard, rounds, faults>>

\* Nothing is stored: the tasks, the listeners and the pending requests are gone.
Exit ==
  /\ up' = FALSE /\ run' = FALSE
  /\ task' = [t \in Tasks |-> IF Running(t) THEN [task[t] EXCEPT !.pc = "dropped"] ELSE task[t]]
  /\ socket' = [c \in Chains |-> "closed"]
  /\ live' = [c \in Chains |-> NoListener]
  /\ saved' = [c \in Chains |-> NoListener]
  /\ UNCHANGED <<config, chain, heard>>

\* One round of main: every chain in turn, without an await.  An unknown network throws,
\* which ends the loop after the round; a network without a core contract ends the process.
MainRound ==
  /\ up /\ run /\ rounds < MaxRounds
  /\ rounds' = rounds + 1
  /\ UNCHANGED faults
  /\ LET known == {c \in Chains : "network" \in config[c]}
     IN \/ /\ \E c \in known : "core" \notin config[c]
           /\ Exit
        \/ /\ \A c \in known : "core" \in config[c]
           /\ run' = (known = Chains)
           /\ live' = [c \in Chains |-> IF c \in known THEN subscribeToEvents(c).live ELSE live[c]]
           /\ saved' = [c \in Chains |-> IF c \in known THEN subscribeToEvents(c).saved ELSE saved[c]]
           /\ UNCHANGED <<up, config, socket, task, heard, chain>>

-----------------------------------------------------------------------------
(* The websocket of one chain (websocket.ts).                              *)

\* Mutant: the saved listeners are not registered with the new provider.
OpenForgets(c) ==
  /\ up /\ socket[c] = "connecting"
  /\ socket' = [socket EXCEPT ![c] = "open"]
  /\ saved' = [saved EXCEPT ![c] = NoListener]
  /\ UNCHANGED <<process, live, chain, task, heard, rounds, faults>>

\* "open": the saved listeners are registered and started, the pending requests sent.
Open(c) ==
  /\ up /\ socket[c] = "connecting"
  /\ socket' = [socket EXCEPT ![c] = "open"]
  /\ live' = [live EXCEPT ![c] = Join(live[c], saved[c])]
  /\ saved' = [saved EXCEPT ![c] = NoListener]
  /\ UNCHANGED <<process, chain, task, heard, rounds, faults>>

Fault == faults < MaxFaults /\ faults' = faults + 1

\* The connection is lost without a close frame.
Drop(c) ==
  /\ up /\ socket[c] \in {"open", "half"} /\ Fault
  /\ socket' = [socket EXCEPT ![c] = "closed"]
  /\ UNCHANGED <<process, live, saved, chain, task, heard, rounds>>

\* The peer stops answering: nothing arrives, and no close.
GoSilent(c) ==
  /\ up /\ socket[c] = "open" /\ Fault
  /\ socket' = [socket EXCEPT ![c] = "half"]
  /\ UNCHANGED <<process, live, saved, chain, task, heard, rounds>>

\* Mutant: a terminated socket counts as closed normally.
TerminateForGood(c) ==
  /\ up /\ socket[c] = "half"
  /\ socket' = [socket EXCEPT ![c] = "gone"]
  /\ UNCHANGED <<process, live, saved, chain, task, heard, rounds, faults>>

\* No pong within WEBSOCKET_PONG_TIMEOUT of a ping: the socket is terminated.
Terminate(c) ==
  /\ up /\ socket[c] = "half"
  /\ socket' = [socket EXCEPT ![c] = "closed"]
  /\ UNCHANGED <<process, live, saved, chain, task, heard, rounds, faults>>

\* "close" with code 1000: the provider is never created again.
NormalClose(c) ==
  /\ up /\ socket[c] = "open" /\ Fault
  /\ socket' = [socket EXCEPT ![c] = "gone"]
  /\ UNCHANGED <<process, live, saved, chain, task, heard, rounds>>

\* create(), WEBSOCKET_RECONNECT_DELAY after any other close.
Create(c) ==
  /\ up /\ socket[c] = "closed"
  /\ saved' = [saved EXCEPT ![c] = Join(saved[c], live[c])]
  /\ live' = [live EXCEPT ![c] = NoListener]
  /\ socket' = [socket EXCEPT ![c] = "connecting"]
  /\ UNCHANGED <<process, chain, task, heard, rounds, faults>>

\* The connection is refused: the socket emits an "error" nobody listens to.
Refused(c) ==
  /\ up /\ socket[c] = "connecting" /\ Fault
  /\ Exit
  /\ UNCHANGED rounds

-----------------------------------------------------------------------------
(* Events and their handlers.                                              *)

\* An order is placed; the message reaches every started listener of its chain, or nobody.
\* The handler decodes it before its first await and leaves alone what it need not relay.
Publish(o) ==
  /\ o \notin placed
  /\ placed' = placed \union {o}
  /\ LET calls == IF Answered(From[o]) THEN Count(live[From[o]]) ELSE 0
         first == IF isFromSwapLayer(o) THEN "receipt" ELSE "ignored"
     IN /\ heard' = IF calls > 0 THEN heard \union {o} ELSE heard
        /\ task' = [t \in Tasks |-> IF t[1] = o /\ t[2] <= calls
                                    THEN [Idle EXCEPT !.pc = first] ELSE task[t]]
  /\ UNCHANGED <<process, wires, pool, mined, redeemed, paid, rounds, faults>>

\* getTransactionReceipt over the source chain's socket, then the Circle message in its logs.
GetReceipt(t) ==
  /\ At(t, "receipt") /\ Answered(From[t[1]])
  /\ IF findCircleMessageInLogs(t[1]) THEN Goto(t, "circle") ELSE Dropped(t)
  /\ UNCHANGED <<process, wires, chain, heard, rounds, faults>>

\* getCircleAttestation polls until the attestation is complete.
Attested(t) ==
  /\ up /\ At(t, "circle")
  /\ Goto(t, "vaa")
  /\ UNCHANGED <<process, wires, chain, heard, rounds, faults>>

\* getSignedVAAWithRetry, then getToChain: a word no chain has, or that is not there, throws.
GetVaa(t) ==
  /\ up /\ At(t, "vaa")
  /\ \E to \in getToChain :
       IF HasChainInfo(to)
       THEN task' = [task EXCEPT ![t].pc = "redeem", ![t].to = to]
       ELSE Dropped(t)
  /\ UNCHANGED <<process, wires, chain, heard, rounds, faults>>

\* Mutant: a handler gives up while another transaction of the key is pending.
PopulateAlone(t) ==
  LET to == task[t].to
  IN /\ At(t, "redeem") /\ Answered(to)
     /\ IF Redeemable(t[1], to) /\ Pending(to) = {}
        THEN task' = [task EXCEPT ![t].pc = "send", ![t].nonce = mined[to]]
        ELSE Dropped(t)
     /\ UNCHANGED <<process, wires, chain, heard, rounds, faults>>

\* Mutant: nonces are counted in the process, as ethers' NonceManager does: one that a
\* handler is about to use is not given to another.
PopulateManaged(t) ==
  LET to == task[t].to
      taken == {u \in Tasks : At(u, "send") /\ task[u].to = to}
  IN /\ At(t, "redeem") /\ Answered(to)
     /\ IF Redeemable(t[1], to)
        THEN task' = [task EXCEPT ![t].pc = "send",
                ![t].nonce = mined[to] + Cardinality(Pending(to)) + Cardinality(taken)]
        ELSE Dropped(t)
     /\ UNCHANGED <<process, wires, chain, heard, rounds, faults>>

\* contract.redeem: the gas estimate fails if the call would revert; the nonce is read.
Populate(t) ==
  LET to == task[t].to
  IN /\ At(t, "redeem") /\ Answered(to)
     /\ IF Redeemable(t[1], to)
        THEN task' = [task EXCEPT ![t].pc = "send",
                                  ![t].nonce = mined[to] + Cardinality(Pending(to))]
        ELSE Dropped(t)
     /\ UNCHANGED <<process, wires, chain, heard, rounds, faults>>

\* A transaction of the key with this nonce has been mined or is pending.
Taken(c, n) == n < mined[c] \/ \E tx \in Pending(c) : tx.nonce = n

\* The signed transaction reaches the node, which refuses a nonce already used.
Send(t) ==
  LET to == task[t].to
      n == task[t].nonce
  IN /\ At(t, "send") /\ Answered(to)
     /\ IF Taken(to, n)
        THEN Dropped(t) /\ UNCHANGED pool
        ELSE /\ pool' = pool \union {[task |-> t, to |-> to, nonce |-> n]}
             /\ Goto(t, "wait")
     /\ UNCHANGED <<process, wires, placed, mined, redeemed, paid, heard, rounds, faults>>

\* The transaction is executed; it reverts if the order has been redeemed since.
Mine(tx) ==
  LET o == tx.task[1]
  IN /\ tx \in pool /\ tx.nonce = mined[tx.to]
     /\ pool' = pool \ {tx}
     /\ mined' = [mined EXCEPT ![tx.to] = @ + 1]
     /\ IF Redeemable(o, tx.to)
        THEN /\ redeemed' = [redeemed EXCEPT ![o] = @ + 1]
             /\ paid' = paid \union {o}
        ELSE UNCHANGED <<redeemed, paid>>
     /\ UNCHANGED <<process, wires, placed, task, heard, rounds, faults>>

\* Mutant: the receipt of a reverted transaction is waited for.
AwaitSuccess(t) ==
  /\ At(t, "wait") /\ Answered(task[t].to) /\ t[1] \in paid
  /\ Goto(t, "done")
  /\ UNCHANGED <<process, wires, chain, heard, rounds, faults>>

\* tx.wait: the receipt of a reverted transaction throws.
Await(t) ==
  /\ At(t, "wait") /\ Answered(task[t].to)
  /\ \A tx \in pool : tx.task # t
  /\ IF t[1] \in paid THEN Goto(t, "done") ELSE Dropped(t)
  /\ UNCHANGED <<process, wires, chain, heard, rounds, faults>>

\* The node had the transaction when the socket closed: sent again, it is "already known".
SentTwice(t) ==
  /\ At(t, "wait") /\ up /\ socket[task[t].to] = "connecting"
  /\ Dropped(t)
  /\ UNCHANGED <<process, wires, chain, heard, rounds, faults>>

\* Anybody may redeem an order on its target chain, with the value it asks for.
OthersRedeem(o) ==
  /\ o \in placed /\ redeemed[o] = 0
  /\ redeemed' = [redeemed EXCEPT ![o] = @ + 1]
  /\ UNCHANGED <<process, wires, placed, pool, mined, paid, task, heard, rounds, faults>>

-----------------------------------------------------------------------------
Wire(c) == Open(c) \/ Drop(c) \/ GoSilent(c) \/ Terminate(c) \/ NormalClose(c)
             \/ Create(c) \/ Refused(c)
Handle(t) == GetReceipt(t) \/ Attested(t) \/ GetVaa(t) \/ Populate(t) \/ Send(t)
               \/ Await(t) \/ SentTwice(t)

Next ==
  \/ Start \/ MainRound
  \/ \E c \in Chains : Wire(c)
  \/ \E t \in Tasks : Handle(t)
  \/ \E tx \in pool : Mine(tx)
  \/ \E o \in Orders : Publish(o) \/ OthersRedeem(o)

Spec == Init /\ [][Next]_vars

\* Timers fire, the services answer in the end, a node accepts connections in the end and
\* mines what it accepted.  Nothing is assumed of the operator, the faults or the orders.
Fairness ==
  /\ \A c \in Chains : WF_vars(Open(c)) /\ WF_vars(Create(c)) /\ WF_vars(Terminate(c))
  /\ \A t \in Tasks : WF_vars(Handle(t))
  /\ WF_vars(\E tx \in pool : Mine(tx))
FairSpec == Spec /\ Fairness

-----------------------------------------------------------------------------
(* The listener survives every reconnection: once a round of main has      *)
(* subscribed the chains, each holds exactly one listener its contract     *)
(* knows of, in the provider or waiting for the next "open"; and a socket  *)
(* that is open has no listener waiting (websocket.ts, create).            *)
ListenersKept ==
  /\ up /\ run /\ (\E c \in Chains : Count(live[c]) + Count(saved[c]) > 0) =>
       \A c \in Chains : live[c].fresh + saved[c].fresh = 1
  /\ \A c \in Chains : socket[c] = "open" => saved[c] = NoListener

(* No transaction of the relayer waits for a nonce that nobody will use:   *)
(* every lower nonce is mined, pending, or in the hands of a handler about *)
(* to send it, although handlers read their nonce and send it in steps of  *)
(* their own, some are refused, and the process may die in between with    *)
(* transactions pending (index.ts, handleRelayerEvent).                    *)
NoNonceGap ==
  \A tx \in pool : \A n \in 0 .. tx.nonce - 1 :
    \/ Taken(tx.to, n)
    \/ \E t \in Tasks : At(t, "send") /\ task[t].to = tx.to /\ task[t].nonce = n

(* While the process lives, an order the relayer could have redeemed is    *)
(* given up only because another of its transactions on that chain took    *)
(* the nonce it had read: handlers run concurrently and share one wallet.  *)
Lost(o) ==
  /\ redeemed[o] = 0
  /\ \E t \in Tasks : t[1] = o /\ At(t, "dropped") /\ task[t].to = To[o]
  /\ \A t \in Tasks : t[1] = o => ~Running(t)
  /\ \A tx \in pool : tx.task[1] # o
LostToNonceRace ==
  \A o \in Orders : Lost(o) /\ Dropoff[o] = 0 /\ faults = 0 =>
    \E t \in Tasks : /\ t[1] # o /\ task[t].to = To[o]
                     /\ \E u \in Tasks : u[1] = o /\ task[u].nonce >= 0 /\ task[u].nonce = task[t].nonce

(* A lost connection is made again: a socket that is silent, closed or     *)
(* being opened is open again in the end, unless the process died of a     *)
(* refused connection.                                                     *)
Reconnects ==
  \A c \in Chains : up /\ socket[c] \in {"half", "closed", "connecting"} ~> socket[c] = "open" \/ ~up

(* Every call of the handler ends, redeemed or given up, although it polls *)
(* two services without limit and its requests span reconnections; the     *)
(* exception is a chain whose socket was closed normally (code 1000).      *)
HandlersFinish ==
  \A t \in Tasks : Running(t) ~> ~Running(t) \/ \E c \in Chains : socket[c] = "gone"

(* "redeem the transfer on the target chain" (index.ts:188): an order to   *)
(* be relayed that reached the handler is redeemed, by the relayer or by   *)
(* somebody else.                                                          *)
RedeemsWhatItHears ==
  \A o \in Orders : o \in heard /\ Kind[o] = "relay" ~> redeemed[o] > 0
=============================================================================
