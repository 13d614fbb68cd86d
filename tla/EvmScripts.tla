------------------------------ MODULE EvmScripts ------------------------------
(***************************************************************************)
(* The scripts that deploy and configure the EVM swap layer.               *)
(*                                                                         *)
(* A shell runs a chain of scripts joined by &&.  Scripts share one wallet, *)
(* the files config/contracts.json and output/deploySwapLayer/lastrun.json  *)
(* and the chains, whose transactions are mined in nonce order some time    *)
(* after they were sent.  What a script does between two awaits is one step.*)
(*                                                                         *)
(* A contract is the number of its creation on its chain, which gives its   *)
(* address; a list of deployments is a function from chains to contracts.   *)
(* What depends on encodings is declared and not defined here:              *)
(* EvmDeployment has what the SDK and the contract make of bytes.           *)
(***************************************************************************)
EXTENDS Integers, Sequences, FiniteSets, Functions

CONSTANTS
  Shells,          \* the operator's terminals
  Commands,        \* what they run: chains of scripts, ts-scripts/shell
  Chains,          \* the ids of chains.json
  Lists,           \* what getOperatingChains returns, as edited between runs
  Configs,         \* contracts.json's useLastRun, configureSwapLayer.json's
                   \* shouldUpdatePeers, configureFees.json by chain id
  FromChain, ToChain,  \* testRegularSend.json, testFastSend.json
  MaxContracts,    \* bound: contracts on a chain
  MaxRuns,         \* bound: commands started, each once at most
  MaxFaults        \* bound: failing nodes and creations

CONSTANTS
  AddressOf(_, _), \* chain, contract: its address as a peer's
  NoPeer,          \* no address, and the fees of a chain without
  InitialOwner,    \* what a proxy reads in its constructor's arguments
  Encodes(_),      \* registrations: whether the SDK encodes the batch
  Govern(_, _, _), \* chain, state of a contract, registrations: [ok, state]
                   \* after the batch they are encoded to
  EncodesFees(_),  \* fees by chain: whether the SDK encodes their updates
  Initiates(_, _)  \* state of a contract, fast or regular: whether it accepts
                   \* the test order

VARIABLES
  contracts,  \* per chain, the contracts
  pools,      \* per chain, the wallet's transactions that are not mined yet
  files,      \* useLastRun, lastrun.json's SwapLayerProxies, shouldUpdatePeers,
              \* configureFees.json
  sh,         \* what each shell is doing
  tests,      \* (history) what became of the test orders that shells sent to
              \* contracts of their own deployment
  started,    \* the commands that were started
  faults      \* how many nodes and creations failed

scriptVars == <<contracts, pools, files, sh, tests, started, faults>>

-----------------------------------------------------------------------------
(* What the encodings have to do for the properties below.                  *)
OtherChains(c) == Chains \ {c}
Addresses == {AddressOf(d, n) : d \in Chains, n \in 1..MaxContracts}
FeeConfigs == UNION {Range(config.fees) : config \in Configs}
Batches(c) == UNION {[peers -> [peer : Addresses, fees : FeeConfigs]] : peers \in {{}, OtherChains(c)}}

NoPeers == [d \in Chains |-> NoPeer]
InitialState == [owner |-> InitialOwner, peers |-> NoPeers, fees |-> NoPeers]
States(c) == {InitialState} \union {Govern(c, InitialState, regs).state : regs \in Batches(c)}

ASSUME ChainsAssumption == FromChain \in Chains /\ ToChain \in Chains /\ FromChain # ToChain
ASSUME ListsAssumption == Lists \subseteq Seq(Chains) /\ Commands \subseteq Seq(STRING)
ASSUME ConfigsAssumption ==
  \A config \in Configs : config.useLastRun \in BOOLEAN /\ config.shouldUpdatePeers \in BOOLEAN
ASSUME BoundsAssumption ==
  MaxContracts \in Nat \ {0} /\ MaxRuns \in Nat /\ MaxFaults \in Nat
ASSUME AddressAssumption == NoPeer \notin Addresses
\* A contract that accepts a batch has the peers that it names and keeps the
\* others; whether it does is up to the batch.
ASSUME GovernAssumption ==
  \A c \in Chains : \A of \in States(c), regs \in Batches(c) :
    LET governed == Govern(c, of, regs)
    IN /\ governed.ok = Govern(c, InitialState, regs).ok
       /\ governed.state \in States(c)
       /\ ~governed.ok \/ regs = [d \in {} |-> NoPeer] => governed.state = of
       /\ governed.ok => \A d \in Chains :
            governed.state.peers[d] = IF d \in DOMAIN regs THEN regs[d].peer ELSE of.peers[d]
\* The test orders are within what the fees allow.
ASSUME InitiatesAssumption ==
  \A of \in States(FromChain), fast \in BOOLEAN :
    of.peers[ToChain] # NoPeer => Initiates(of, fast)

-----------------------------------------------------------------------------
Contract(kind, run) == [kind |-> kind, run |-> run, state |-> InitialState]
With(f, x, y) == [z \in DOMAIN f \union {x} |-> IF z = x THEN y ELSE f[z]]

\* contracts.json names the contracts of an earlier deployment.
SwapLayers == [c \in Chains |-> 1]
NoFile == [c \in {} |-> 0]

\* read (history): whose addresses configureSwapLayer has read, those that the
\* same shell deployed or others.
Idle == [todo |-> <<>>, pc |-> "idle", list |-> <<>>, i |-> 1, at |-> 0, out |-> NoFile, tx |-> <<>>,
         run |-> 0, read |-> "none", exit |-> "none"]
ScriptsInit ==
  /\ contracts = [c \in Chains |-> [n \in {1} |-> Contract("proxy", 0)]]
  /\ pools = [c \in Chains |-> <<>>]
  /\ \E config \in Configs :
       files = [useLastRun |-> config.useLastRun, lastrun |-> NoFile,
                shouldUpdatePeers |-> config.shouldUpdatePeers, fees |-> config.fees]
  /\ sh = [s \in Shells |-> Idle]
  /\ tests = {} /\ started = {} /\ faults = 0

(* env.ts                                                                   *)
\* The contracts in use; of NoFile, where reading throws, there is none.
loadSwapLayers == IF files.useLastRun THEN files.lastrun ELSE SwapLayers
HasSwapLayer(c) == c \in DOMAIN loadSwapLayers
getSwapLayerAddress(c) == loadSwapLayers[c]
loadFeeConfig(c) == files.fees[c]
HasFeeConfig(c) == c \in DOMAIN files.fees
loadSwapLayerConfiguration == [shouldUpdatePeers |-> files.shouldUpdatePeers]

-----------------------------------------------------------------------------
(* A node process: what it does next, how it ends.                          *)
Script(s, name, pc) == sh[s].todo # <<>> /\ Head(sh[s].todo) = name /\ sh[s].pc = pc
Chain(s) == sh[s].list[sh[s].i]
ChainsLeft(s) == sh[s].i <= Len(sh[s].list)
Goes(s, pc) == [sh[s] EXCEPT !.pc = pc]
NextChain(s) == [sh[s] EXCEPT !.pc = "start", !.i = @ + 1, !.tx = <<>>, !.at = 0]
Exited(s) ==
  LET p == [sh[s] EXCEPT !.todo = Tail(@), !.pc = "start", !.i = 1, !.tx = <<>>, !.at = 0]
  IN IF p.todo = <<>>
     THEN [Idle EXCEPT !.out = p.out, !.run = p.run, !.read = p.read, !.exit = "ok"] ELSE p
Died(s) == [Idle EXCEPT !.exit = "failed"]
Becomes(s, p) == sh' = [sh EXCEPT ![s] = p]

Sent(c, tx) == [pools EXCEPT ![c] = Append(@, tx)]
\* A transaction is sent: the node takes it, or reports an error and has
\* taken it or not; taken is also how it stands when the operator ends a
\* script that waits.
Sends(s, c, tx, after) ==
  \/ /\ pools' = Sent(c, tx)
     /\ Becomes(s, after) /\ UNCHANGED faults
  \/ /\ faults < MaxFaults /\ faults' = faults + 1
     /\ pools' \in {pools, Sent(c, tx)}
     /\ Becomes(s, Died(s))
Steady == UNCHANGED <<contracts, files, tests, started>>
Mined(s) == sh[s].at \in DOMAIN contracts[Chain(s)]
Failed(s) == contracts[Chain(s)][sh[s].at].kind = "failed"

StartShell(s, command, list) ==
  /\ sh[s].pc = "idle" /\ command \notin started /\ Cardinality(started) < MaxRuns
  /\ Becomes(s, [Idle EXCEPT !.todo = command, !.pc = "start",
                           !.list = list, !.run = Cardinality(started) + 1])
  /\ started' = started \union {command}
  /\ UNCHANGED <<contracts, pools, files, tests, faults>>

(* checkNetworks.ts: failing nodes end it, --set-last-run edits the config. *)
CheckNetworks(s) ==
  /\ Script(s, "checkNetworks", "start") \/ Script(s, "checkNetworks --set-last-run", "start")
  /\ files' = [files EXCEPT !.useLastRun = @ \/ Head(sh[s].todo) # "checkNetworks"]
  /\ Becomes(s, Exited(s))
  /\ UNCHANGED <<contracts, pools, tests, started, faults>>

-----------------------------------------------------------------------------
(* deploySwapLayer.ts, upgradeSwapLayer.ts, deployments.ts                  *)
Deploys(s, pc) == Script(s, "deploySwapLayer", pc) \/ Script(s, "upgradeSwapLayer", pc)
\* The wallet's nonce gives the next creation an address nothing has.
Taken(c) ==
  DOMAIN contracts[c] \union {tx.n : tx \in {x \in Range(pools[c]) : x.kind = "create"}}
Fresh(c) == CHOOSE n \in 1..MaxContracts : n \notin Taken(c)
Create(s, kind, after) ==
  LET c == Chain(s)
  IN /\ ~ (1..MaxContracts \subseteq Taken(c))
     /\ Sends(s, c, [kind |-> "create", n |-> Fresh(c), of |-> Contract(kind, sh[s].run)],
              [Goes(s, after) EXCEPT !.at = Fresh(c)])

deployImplementation(s) ==
  /\ Deploys(s, "start") /\ ChainsLeft(s)
  /\ Create(s, "implementation", "implementation")
  /\ Steady

\* deployed() throws if the creation failed.
ImplementationDeployed(s) ==
  /\ Script(s, "deploySwapLayer", "implementation") /\ Mined(s)
  /\ IF Failed(s) THEN Becomes(s, Died(s)) /\ UNCHANGED <<pools, faults>>
     ELSE Create(s, "proxy", "proxy")
  /\ Steady

\* The upgrade calls a function that the contract does not have, which ends
\* the script with an error, as a failed creation does.
UpgradeProxy(s) ==
  /\ Script(s, "upgradeSwapLayer", "implementation") /\ Mined(s)
  /\ Becomes(s, Died(s))
  /\ Steady /\ UNCHANGED <<pools, faults>>

\* Of two deployments for a chain lookups find the first.
ProxyDeployed(s) ==
  /\ Script(s, "deploySwapLayer", "proxy") /\ Mined(s)
  /\ Becomes(s, IF Failed(s) THEN Died(s)
                ELSE [NextChain(s) EXCEPT !.out =
                        IF Chain(s) \in DOMAIN @ THEN @ ELSE With(@, Chain(s), sh[s].at)])
  /\ Steady /\ UNCHANGED <<pools, faults>>

\* The file is written once, when every chain has its contracts.
writeOutputFiles(s) ==
  /\ Deploys(s, "start") /\ ~ChainsLeft(s)
  /\ files' = IF Script(s, "deploySwapLayer", "start")
              THEN [files EXCEPT !.lastrun = sh[s].out] ELSE files
  /\ Becomes(s, Exited(s))
  /\ UNCHANGED <<contracts, pools, tests, started, faults>>

-----------------------------------------------------------------------------
(* configureSwapLayer.ts, updateSwapLayerFees.ts                            *)
\* Every other chain of chains.json as a peer, with its fees, if the peers are
\* to be updated; the script dies when an address or the fees of one are missing.
ToRegister(c) == IF loadSwapLayerConfiguration.shouldUpdatePeers THEN OtherChains(c) ELSE {}
Registers(c) == \A d \in ToRegister(c) : HasSwapLayer(d) /\ HasFeeConfig(d)
Registration(d, n, fees) == [peer |-> AddressOf(d, n), fees |-> fees]
createSwapLayerConfiguration(c) ==
  [d \in ToRegister(c) |-> Registration(d, getSwapLayerAddress(d), loadFeeConfig(d))]

\* Seeded fault: the contract is looked up once, when the script starts.
getSwapLayerOnce(s) ==
  IF Chain(s) \in DOMAIN sh[s].out THEN sh[s].out[Chain(s)] ELSE getSwapLayerAddress(Chain(s))
getSwapLayer(s) == getSwapLayerAddress(Chain(s))

\* The lookups and the encoding have no await between them.
PeersBatch(s) ==
  [kind |-> "govern", n |-> getSwapLayer(s), regs |-> createSwapLayerConfiguration(Chain(s))]
ReadsOwn(s) ==
  /\ loadSwapLayerConfiguration.shouldUpdatePeers
  /\ sh[s].read # "others" /\ loadSwapLayers = sh[s].out
Configure(s) ==
  /\ Script(s, "configureSwapLayer", "start")
  /\ Becomes(s,
       IF ~ChainsLeft(s) THEN Exited(s)
       ELSE IF HasSwapLayer(Chain(s)) /\ Registers(Chain(s)) /\ Encodes(PeersBatch(s).regs)
            THEN [Goes(s, "send") EXCEPT !.tx = PeersBatch(s), !.read = IF ReadsOwn(s) THEN "own" ELSE "others"]
            ELSE Died(s))
  /\ Steady /\ UNCHANGED <<pools, faults>>

Governed(c, tx) == Govern(c, contracts[c][tx.n].state, tx.regs)

\* Seeded fault: the script goes on with the next chain when a batch fails.
RefusedGoesOn(s) == NextChain(s)
Refused(s) == Died(s)

\* The wallet estimates the gas first, which runs the batch; a batch that the
\* contract accepts is sent and not waited for.
SendBatch(s) ==
  /\ Script(s, "configureSwapLayer", "send")
  /\ LET c == Chain(s)
         accepted == Governed(c, sh[s].tx).ok
     IN \/ /\ accepted /\ pools' = Sent(c, sh[s].tx)
           /\ Becomes(s, NextChain(s)) /\ UNCHANGED faults
        \/ /\ ~accepted
           /\ Becomes(s, Refused(s)) /\ UNCHANGED <<pools, faults>>
        \/ /\ faults < MaxFaults /\ faults' = faults + 1
           /\ (pools' = pools) \/ (accepted /\ pools' = Sent(c, sh[s].tx))
           /\ Becomes(s, Refused(s))
  /\ Steady

\* The encoding throws: the script ends at its first chain.
createBatchFeeUpdate(c) == [d \in OtherChains(c) |-> loadFeeConfig(d)]
UpdateFees(s) ==
  /\ Script(s, "updateSwapLayerFees", "start")
  /\ IF ChainsLeft(s) /\ HasSwapLayer(Chain(s)) /\ \A d \in OtherChains(Chain(s)) : HasFeeConfig(d)
     THEN ~EncodesFees(createBatchFeeUpdate(Chain(s)))
     ELSE TRUE
  /\ Becomes(s, IF ChainsLeft(s) THEN Died(s) ELSE Exited(s))
  /\ Steady /\ UNCHANGED <<pools, faults>>

-----------------------------------------------------------------------------
(* testRegularSend.ts, testFastSend.ts                                      *)
loadTestSendConfig == [fromChain |-> FromChain, toChain |-> ToChain]
TestSend(s, pc) == Script(s, "testRegularSend", pc) \/ Script(s, "testFastSend", pc)

\* The contract is looked up and the order encoded before the approval is sent.
TestOrder(s) ==
  [kind |-> "initiate", n |-> getSwapLayerAddress(loadTestSendConfig.fromChain),
   fast |-> Script(s, "testFastSend", "start"), run |-> sh[s].run, own |-> sh[s].read = "own"]
Approve(s) ==
  /\ TestSend(s, "start")
  /\ LET from == loadTestSendConfig.fromChain
     IN IF HasSwapLayer(from)
        THEN Sends(s, from, [kind |-> "approve", by |-> s], [Goes(s, "approving") EXCEPT !.tx = TestOrder(s)])
        ELSE Becomes(s, Died(s)) /\ UNCHANGED <<pools, faults>>
  /\ Steady
\* The approval is waited for, the order is not.
Initiate(s) ==
  /\ TestSend(s, "approving")
  /\ LET from == loadTestSendConfig.fromChain
     IN /\ [kind |-> "approve", by |-> s] \notin Range(pools[from])
        /\ Sends(s, from, sh[s].tx, Exited(s))
  /\ Steady

-----------------------------------------------------------------------------
\* A creation may run out of gas.
MineCreate(c, tx) ==
  /\ \/ contracts' = [contracts EXCEPT ![c] = With(@, tx.n, tx.of)] /\ UNCHANGED faults
     \/ /\ faults < MaxFaults /\ faults' = faults + 1
        /\ contracts' = [contracts EXCEPT ![c] = With(@, tx.n, Contract("failed", 0))]
  /\ UNCHANGED tests
MineGovern(c, tx) ==
  /\ contracts' = [contracts EXCEPT ![c][tx.n].state = Governed(c, tx).state]
  /\ UNCHANGED <<tests, faults>>
MineInitiate(c, tx) ==
  /\ tests' = IF tx.own /\ contracts[c][tx.n].run = tx.run
              THEN tests \union {Initiates(contracts[c][tx.n].state, tx.fast)} ELSE tests
  /\ UNCHANGED <<contracts, faults>>

\* The first transaction of a chain is mined.
Mine(c) ==
  /\ pools[c] # <<>> /\ pools' = [pools EXCEPT ![c] = Tail(@)]
  /\ LET tx == Head(pools[c])
     IN \/ tx.kind = "create" /\ MineCreate(c, tx)
        \/ tx.kind = "govern" /\ MineGovern(c, tx)
        \/ tx.kind = "initiate" /\ MineInitiate(c, tx)
        \/ tx.kind = "approve" /\ UNCHANGED <<contracts, tests, faults>>
  /\ UNCHANGED <<files, sh, started>>

ScriptsNext ==
  \/ \E s \in Shells :
       \/ \E command \in Commands, list \in Lists : StartShell(s, command, list)
       \/ CheckNetworks(s)
       \/ deployImplementation(s) \/ ImplementationDeployed(s) \/ ProxyDeployed(s)
       \/ UpgradeProxy(s)
       \/ writeOutputFiles(s)
       \/ Configure(s) \/ SendBatch(s) \/ UpdateFees(s)
       \/ Approve(s) \/ Initiate(s)
  \/ \E c \in Chains : Mine(c)

ScriptsSpec == ScriptsInit /\ [][ScriptsNext]_scriptVars

-----------------------------------------------------------------------------
(* Swap layers that know each other were deployed together: however shells   *)
(* overlap, end early or deploy on some chains only, configureSwapLayer      *)
(* (:53) never registers, on the contract of one deployment, the contract of *)
(* another as a peer.                                                        *)
IsProxy(c, n, run) ==
  n \in DOMAIN contracts[c] /\ contracts[c][n].kind = "proxy" /\ contracts[c][n].run = run
PeersTogether ==
  \A c, d \in Chains : \A p \in Range(contracts[c]) :
    p.state.peers[d] # NoPeer =>
      \E n \in DOMAIN contracts[d] : AddressOf(d, n) = p.state.peers[d] /\ IsProxy(d, n, p.run)

(* A shell that deployed and configured, and whose scripts all ended well,   *)
(* leaves a network that works, unless it read other addresses than those it *)
(* had deployed: once its transactions are mined, every contract of its      *)
(* deployment has every other as its peer.  And the test order such a shell  *)
(* sends without waiting for the configuration (configureSwapLayer.ts:44) is *)
(* never refused by a contract that it deployed.                             *)
Done(s) == sh[s].exit = "ok" /\ sh[s].read = "own" /\ \A c \in Chains : pools[c] = <<>>
DeployedNetwork(out) ==
  /\ DOMAIN out = Chains
  /\ \A c, d \in Chains :
       c # d => contracts[c][out[c]].state.peers[d] = AddressOf(d, out[d])
ConfiguredWhenDone ==
  /\ \A s \in Shells : Done(s) => DeployedNetwork(sh[s].out)
  /\ FALSE \notin tests
=============================================================================
