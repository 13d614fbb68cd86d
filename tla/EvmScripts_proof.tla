--------------------------- MODULE EvmScripts_proof ---------------------------
(***************************************************************************)
(* What holds of the deployment scripts however many shells, chains,       *)
(* commands and runs there are.                                            *)
(***************************************************************************)
EXTENDS EvmScripts, FiniteSetTheorems, SequenceTheorems, TLAPS

-----------------------------------------------------------------------------
(* The invariant behind PeersTogether: contracts are never replaced, and    *)
(* whatever addresses a script holds are those of one deployment.           *)
Kinds == {"proxy", "implementation", "failed"}
AllStates == UNION {States(c) : c \in Chains}
Contracts == [kind : Kinds, run : Nat, state : AllStates]
ContractMaps == UNION {[D -> Contracts] : D \in SUBSET (1..MaxContracts)}
Deployments == UNION {[D -> 1..MaxContracts] : D \in SUBSET Chains}

Creations == [kind : {"proxy", "implementation"}, run : Nat, state : {InitialState}]
CreateTxs == [kind : {"create"}, n : 1..MaxContracts, of : Creations]
GovernTxs == [kind : {"govern"}, n : 1..MaxContracts, regs : UNION {Batches(c) : c \in Chains}]
InitiateTxs ==
  [kind : {"initiate"}, n : 1..MaxContracts, fast : BOOLEAN, run : Nat, own : BOOLEAN]
ApproveTxs == [kind : {"approve"}, by : Shells]
Txs == CreateTxs \union GovernTxs \union InitiateTxs \union ApproveTxs

Pcs == {"idle", "start", "implementation", "proxy", "send", "approving"}
Processes ==
  [todo : Seq(STRING), pc : Pcs, list : Seq(Chains), i : Nat \ {0}, at : Nat,
   out : Deployments, tx : Txs \union {<<>>}, run : Nat,
   read : {"none", "own", "others"}, exit : {"none", "ok", "failed"}]
Files ==
  [useLastRun : BOOLEAN, lastrun : Deployments, shouldUpdatePeers : BOOLEAN,
   fees : {config.fees : config \in Configs}]

TypeOK ==
  /\ contracts \in [Chains -> ContractMaps]
  /\ pools \in [Chains -> Seq(Txs)]
  /\ files \in Files
  /\ sh \in [Shells -> Processes]
  /\ IsFiniteSet(started)

StatesOK ==
  \A c \in Chains : \A n \in DOMAIN contracts[c] : contracts[c][n].state \in States(c)

Creates(c, k, n) == pools[c][k].kind = "create" /\ pools[c][k].n = n
Numbered(c) ==
  \A k \in DOMAIN pools[c] : pools[c][k].kind = "create" =>
    /\ pools[c][k].n \notin DOMAIN contracts[c]
    /\ \A j \in DOMAIN pools[c] : Creates(c, j, pools[c][k].n) => j = k
NumbersOK == \A c \in Chains : IsProxy(c, 1, 0) /\ Numbered(c)

DeployedBy(out, run) == \A d \in DOMAIN out : IsProxy(d, out[d], run)
OneDeployment(c, tx) ==
  \E run \in Nat :
    /\ IsProxy(c, tx.n, run)
    /\ \A d \in DOMAIN tx.regs :
         \E m \in 1..MaxContracts : IsProxy(d, m, run) /\ tx.regs[d].peer = AddressOf(d, m)
GoodGovern(c, tx) == tx \in GovernTxs /\ tx.regs \in Batches(c) /\ OneDeployment(c, tx)
Creation(c, n, run) ==
  /\ n \in Taken(c)
  /\ n \in DOMAIN contracts[c] => contracts[c][n].kind = "failed" \/ IsProxy(c, n, run)
  /\ \A k \in DOMAIN pools[c] : Creates(c, k, n) => pools[c][k].of = Contract("proxy", run)

GoodShell(p) ==
  /\ DeployedBy(p.out, p.run)
  /\ p.pc \in {"implementation", "proxy", "send"} => p.i \in DOMAIN p.list
  /\ p.pc = "proxy" => Creation(p.list[p.i], p.at, p.run)
  /\ p.pc = "send" => GoodGovern(p.list[p.i], p.tx)
  /\ p.pc = "approving" => p.tx \in InitiateTxs
GoodPool(c) == \A k \in DOMAIN pools[c] : pools[c][k].kind = "govern" => GoodGovern(c, pools[c][k])

TogetherInv ==
  /\ TypeOK /\ StatesOK /\ NumbersOK
  /\ \E run \in Nat : DeployedBy(files.lastrun, run)
  /\ \A s \in Shells : GoodShell(sh[s])
  /\ \A c \in Chains : GoodPool(c)
  /\ PeersTogether

-----------------------------------------------------------------------------
(* Types                                                                    *)
LEMMA TxKinds ==
  ASSUME NEW tx \in Txs
  PROVE  /\ tx.kind = "create" <=> tx \in CreateTxs
         /\ tx.kind = "govern" <=> tx \in GovernTxs
         /\ tx.kind = "initiate" <=> tx \in InitiateTxs
         /\ tx.kind = "approve" <=> tx \in ApproveTxs
         /\ tx.kind \in {"create", "govern", "initiate", "approve"}
<1>1. tx \in CreateTxs => tx.kind = "create"
  BY DEF CreateTxs
<1>2. tx \in GovernTxs => tx.kind = "govern"
  BY DEF GovernTxs
<1>3. tx \in InitiateTxs => tx.kind = "initiate"
  BY DEF InitiateTxs
<1>4. tx \in ApproveTxs => tx.kind = "approve"
  BY DEF ApproveTxs
<1>. QED
  BY <1>1, <1>2, <1>3, <1>4 DEF Txs

LEMMA TakenIs ==
  ASSUME NEW c \in Chains, NEW n
  PROVE  n \in Taken(c) <=>
           n \in DOMAIN contracts[c] \/ \E k \in DOMAIN pools[c] : Creates(c, k, n)
  BY DEF Taken, Creates, Range

LEMMA FreshIsFree ==
  ASSUME NEW c \in Chains, ~ (1..MaxContracts \subseteq Taken(c))
  PROVE  Fresh(c) \in 1..MaxContracts /\ Fresh(c) \notin Taken(c)
  BY DEF Fresh

LEMMA ContractParts ==
  ASSUME TypeOK, NEW c \in Chains
  PROVE  /\ DOMAIN contracts[c] \subseteq 1..MaxContracts
         /\ contracts[c] \in [DOMAIN contracts[c] -> Contracts]
         /\ pools[c] \in Seq(Txs)
         /\ DOMAIN pools[c] = 1..Len(pools[c])
         /\ \A k \in DOMAIN pools[c] : pools[c][k] \in Txs
<1>1. contracts[c] \in ContractMaps /\ pools[c] \in Seq(Txs)
  BY DEF TypeOK
<1>2. PICK D \in SUBSET (1..MaxContracts) : contracts[c] \in [D -> Contracts]
  BY <1>1 DEF ContractMaps
<1>3. DOMAIN contracts[c] = D
  BY <1>2
<1>4. DOMAIN pools[c] = 1..Len(pools[c]) /\ \A k \in DOMAIN pools[c] : pools[c][k] \in Txs
  BY <1>1
<1>. QED
  BY <1>1, <1>2, <1>3, <1>4

LEMMA ContractIs ==
  ASSUME TypeOK, StatesOK, NEW c \in Chains, NEW n \in DOMAIN contracts[c]
  PROVE  /\ n \in 1..MaxContracts /\ contracts[c][n] \in Contracts
         /\ contracts[c][n].state \in States(c)
  BY ContractParts DEF StatesOK

LEMMA ShellParts ==
  ASSUME TypeOK, NEW s \in Shells
  PROVE  sh[s] \in Processes
  BY DEF TypeOK
-----------------------------------------------------------------------------
(* The steps of scripts: they leave the contracts alone, post at most one   *)
(* transaction and change one process.                                      *)
Postable(c, tx) ==
  /\ tx \in Txs
  /\ tx.kind = "create" => tx.n \notin Taken(c)
  /\ tx.kind = "govern" => GoodGovern(c, tx)
Posts == pools' = pools \/ \E c \in Chains, tx \in Txs : Postable(c, tx) /\ pools' = Sent(c, tx)
Moves(s) == \E p \in Processes : sh' = [sh EXCEPT ![s] = p] /\ GoodShell(p)'
ScriptStep ==
  /\ contracts' = contracts /\ Posts
  /\ IsFiniteSet(started')
  /\ files' \in Files /\ \E run \in Nat : DeployedBy(files.lastrun, run)'
  /\ \E s \in Shells : Moves(s)

LEMMA AppendIs ==
  ASSUME NEW q \in Seq(Txs), NEW tx \in Txs
  PROVE  /\ Append(q, tx) \in Seq(Txs)
         /\ DOMAIN q = 1..Len(q) /\ Len(q) \in Nat
         /\ DOMAIN Append(q, tx) = 1..(Len(q) + 1)
         /\ \A k \in DOMAIN q : k \in DOMAIN Append(q, tx) /\ Append(q, tx)[k] = q[k]
         /\ Append(q, tx)[Len(q) + 1] = tx
  OBVIOUS

LEMMA PoolAfter ==
  ASSUME TypeOK, Posts
  PROVE  /\ pools' \in [Chains -> Seq(Txs)]
         /\ \A c \in Chains :
              pools'[c] = pools[c] \/ \E tx \in Txs : Postable(c, tx) /\ pools'[c] = Append(pools[c], tx)
<1>1. CASE pools' = pools
  BY <1>1 DEF TypeOK
<1>2. ASSUME NEW c \in Chains, NEW tx \in Txs, Postable(c, tx), pools' = Sent(c, tx)
      PROVE  /\ pools' \in [Chains -> Seq(Txs)]
             /\ \A d \in Chains : pools'[d] = IF d = c THEN Append(pools[c], tx) ELSE pools[d]
  BY <1>2, AppendIs DEF TypeOK, Sent
<1>. QED
  BY <1>1, <1>2 DEF Posts

\* A chain's transactions, before and after.
LEMMA TxsAfter ==
  ASSUME TypeOK, Posts, NEW c \in Chains
  PROVE  /\ \A k \in DOMAIN pools[c] : k \in DOMAIN pools'[c] /\ pools'[c][k] = pools[c][k]
         /\ \A k \in DOMAIN pools'[c] :
              \/ k \in DOMAIN pools[c]
              \/ k = Len(pools[c]) + 1 /\ Postable(c, pools'[c][k])
<1>. USE ContractParts
<1>1. CASE pools'[c] = pools[c]
  BY <1>1
<1>2. ASSUME NEW tx \in Txs, Postable(c, tx), pools'[c] = Append(pools[c], tx)
      PROVE  /\ \A k \in DOMAIN pools[c] : k \in DOMAIN pools'[c] /\ pools'[c][k] = pools[c][k]
             /\ \A k \in DOMAIN pools'[c] :
                  \/ k \in DOMAIN pools[c]
                  \/ k = Len(pools[c]) + 1 /\ Postable(c, pools'[c][k])
  BY <1>2, AppendIs
<1>. QED
  BY <1>1, <1>2, PoolAfter

LEMMA PostsKeepTaken ==
  ASSUME TypeOK, Posts, contracts' = contracts, NEW c \in Chains, NEW n \in Taken(c)
  PROVE  n \in Taken(c)'
<1>1. n \in DOMAIN contracts[c] \/ \E k \in DOMAIN pools[c] : Creates(c, k, n)
  BY TakenIs
<1>2. n \in DOMAIN contracts'[c] \/ \E k \in DOMAIN pools'[c] : Creates(c, k, n)'
  BY <1>1, TxsAfter DEF Creates
<1>. QED
  BY <1>2 DEF Taken, Creates, Range

LEMMA PostsKeepCreations ==
  ASSUME TypeOK, Posts, contracts' = contracts, NEW c \in Chains, NEW n, NEW run, Creation(c, n, run)
  PROVE  Creation(c, n, run)'
<1>1. n \in Taken(c)'
  BY PostsKeepTaken DEF Creation
<1>2. ASSUME NEW k \in DOMAIN pools'[c], Creates(c, k, n)'
      PROVE  pools'[c][k].of = Contract("proxy", run)
  <2>1. k \in DOMAIN pools[c]
    BY <1>2, TxsAfter DEF Postable, Creates, Creation
  <2>. QED
    BY <1>2, <2>1, TxsAfter DEF Creates, Creation
<1>. QED
  BY <1>1, <1>2 DEF Creation, IsProxy, Contract

LEMMA PostsKeepNumbers ==
  ASSUME TypeOK, NumbersOK, Posts, contracts' = contracts
  PROVE  NumbersOK'
<1>1. SUFFICES ASSUME NEW c \in Chains
               PROVE  IsProxy(c, 1, 0)' /\ Numbered(c)'
  BY DEF NumbersOK
<1>2. IsProxy(c, 1, 0)'
  BY DEF NumbersOK, IsProxy
<1>3. ASSUME NEW k \in DOMAIN pools'[c], pools'[c][k].kind = "create",
             NEW j \in DOMAIN pools'[c], Creates(c, j, pools[c][k].n)'
      PROVE  j = k
  <2>1. CASE k \in DOMAIN pools[c] /\ j \in DOMAIN pools[c]
    BY <1>3, <2>1, TxsAfter DEF NumbersOK, Numbered, Creates
  <2>2. CASE k \in DOMAIN pools[c] /\ j \notin DOMAIN pools[c]
    BY <1>3, <2>2, TxsAfter, TakenIs DEF Postable, Creates
  <2>3. CASE k \notin DOMAIN pools[c] /\ j \in DOMAIN pools[c]
    BY <1>3, <2>3, TxsAfter, TakenIs DEF Postable, Creates
  <2>4. CASE k \notin DOMAIN pools[c] /\ j \notin DOMAIN pools[c]
    BY <2>4, TxsAfter
  <2>. QED
    BY <2>1, <2>2, <2>3, <2>4
<1>4. ASSUME NEW k \in DOMAIN pools'[c], pools'[c][k].kind = "create"
      PROVE  pools'[c][k].n \notin DOMAIN contracts'[c]
  BY <1>4, TxsAfter, TakenIs DEF Postable, NumbersOK, Numbered
<1>. QED
  BY <1>2, <1>3, <1>4 DEF Numbered
LEMMA SameContracts ==
  ASSUME contracts' = contracts
  PROVE  /\ \A c, n, run : IsProxy(c, n, run)' <=> IsProxy(c, n, run)
         /\ \A out, run : DeployedBy(out, run)' <=> DeployedBy(out, run)
         /\ \A c, tx : GoodGovern(c, tx)' <=> GoodGovern(c, tx)
<1>1. \A c, n, run : IsProxy(c, n, run)' <=> IsProxy(c, n, run)
  BY DEF IsProxy
<1>2. \A out, run : DeployedBy(out, run)' <=> DeployedBy(out, run)
  BY <1>1 DEF DeployedBy
<1>3. \A c, tx : OneDeployment(c, tx)' <=> OneDeployment(c, tx)
  BY <1>1 DEF OneDeployment
<1>. QED
  BY <1>1, <1>2, <1>3 DEF GoodGovern

LEMMA PostsKeepShell ==
  ASSUME TypeOK, Posts, contracts' = contracts, NEW p \in Processes, GoodShell(p)
  PROVE  GoodShell(p)'
<1>. USE SameContracts DEF GoodShell
<1>1. DeployedBy(p.out, p.run)'
  OBVIOUS
<1>2. p.pc = "proxy" => Creation(p.list[p.i], p.at, p.run)'
  <2>1. SUFFICES ASSUME p.pc = "proxy"
                 PROVE  Creation(p.list[p.i], p.at, p.run)'
    OBVIOUS
  <2>2. p.list[p.i] \in Chains
    BY <2>1 DEF Processes
  <2>. QED
    BY <2>1, <2>2, PostsKeepCreations
<1>3. p.pc = "send" => GoodGovern(p.list[p.i], p.tx)'
  OBVIOUS
<1>. QED
  BY <1>1, <1>2, <1>3

LEMMA PostsKeepPools ==
  ASSUME TypeOK, Posts, contracts' = contracts, NEW c \in Chains, GoodPool(c)
  PROVE  GoodPool(c)'
<1>1. ASSUME NEW k \in DOMAIN pools'[c], pools'[c][k].kind = "govern"
      PROVE  GoodGovern(c, pools'[c][k])
  <2>1. CASE k \in DOMAIN pools[c]
    BY <1>1, <2>1, TxsAfter DEF GoodPool
  <2>2. CASE k \notin DOMAIN pools[c]
    BY <1>1, <2>2, TxsAfter DEF Postable
  <2>. QED
    BY <2>1, <2>2
<1>2. \A tx : GoodGovern(c, tx)' <=> GoodGovern(c, tx)
  BY SameContracts
<1>. QED
  BY <1>1, <1>2 DEF GoodPool

LEMMA ScriptStepKeeps ==
  ASSUME TogetherInv, ScriptStep
  PROVE  TogetherInv'
<1>. USE DEF TogetherInv, ScriptStep
<1>1. PICK s \in Shells, p \in Processes : sh' = [sh EXCEPT ![s] = p] /\ GoodShell(p)'
  BY DEF Moves
<1>2. TypeOK'
  BY <1>1, PoolAfter DEF TypeOK
<1>3. StatesOK' /\ NumbersOK'
  BY PostsKeepNumbers DEF StatesOK
<1>4. \E run \in Nat : DeployedBy(files.lastrun, run)'
  OBVIOUS
<1>5. \A t \in Shells : GoodShell(sh[t])'
  <2>1. SUFFICES ASSUME NEW t \in Shells PROVE GoodShell(sh[t])'
    OBVIOUS
  <2>2. CASE t = s
    BY <1>1, <2>2 DEF TypeOK
  <2>3. CASE t # s
    BY <1>1, <2>3, PostsKeepShell, ShellParts DEF TypeOK
  <2>. QED
    BY <2>2, <2>3
<1>6. \A c \in Chains : GoodPool(c)'
  BY PostsKeepPools
<1>7. PeersTogether'
  BY SameContracts DEF PeersTogether, Range
<1>. QED
  BY <1>2, <1>3, <1>4, <1>5, <1>6, <1>7
-----------------------------------------------------------------------------
(* What processes become.                                                   *)
LEMMA IdleIs ==
  /\ Idle \in Processes /\ NoFile \in Deployments /\ DOMAIN NoFile = {}
  /\ Idle.out = NoFile /\ Idle.pc = "idle"
<1>1. NoFile \in [{} -> 1..MaxContracts] /\ DOMAIN NoFile = {}
  BY DEF NoFile
<1>2. NoFile \in Deployments
  BY <1>1 DEF Deployments
<1>. QED
  BY <1>1, <1>2 DEF Idle, Processes, Pcs

LEMMA DiedIs ==
  ASSUME NEW s \in Shells
  PROVE  \E p \in Processes : p = Died(s) /\ GoodShell(p)'
<1>1. Died(s) \in Processes /\ Died(s).out = NoFile /\ Died(s).pc = "idle"
  BY IdleIs DEF Died, Processes
<1>2. PICK p \in Processes : p = Died(s)
  BY <1>1
<1>3. p.out = NoFile /\ p.pc = "idle"
  BY <1>1, <1>2
<1>. QED
  BY <1>2, <1>3, IdleIs DEF GoodShell, DeployedBy

\* A process that waits for nothing.
LEMMA AtRest ==
  ASSUME TogetherInv, contracts' = contracts, NEW s \in Shells, NEW p \in Processes,
         p.out = sh[s].out, p.run = sh[s].run, p.pc \in {"start", "idle"}
  PROVE  GoodShell(p)'
<1>1. DeployedBy(p.out, p.run)'
  BY SameContracts DEF TogetherInv, GoodShell
<1>. QED
  BY <1>1 DEF GoodShell

\* The values a process' fields take.
LEMMA Fields ==
  ASSUME TogetherInv, NEW s \in Shells
  PROVE  /\ sh[s] \in Processes
         /\ Pcs = {"idle", "start", "implementation", "proxy", "send", "approving"}
         /\ "start" \in Pcs /\ 0 \in Nat /\ 1 \in Nat \ {0} /\ sh[s].i + 1 \in Nat \ {0}
         /\ <<>> \in Txs \union {<<>>} /\ "ok" \in {"none", "ok", "failed"}
         /\ sh[s].todo # <<>> => Tail(sh[s].todo) \in Seq(STRING)
<1>1. sh[s] \in Processes
  BY DEF TogetherInv, TypeOK
<1>2. sh[s].i \in Nat \ {0} /\ sh[s].todo \in Seq(STRING)
  BY <1>1 DEF Processes
<1>3. sh[s].i + 1 \in Nat \ {0}
  BY <1>2
<1>4. sh[s].todo # <<>> => Tail(sh[s].todo) \in Seq(STRING)
  BY <1>2, HeadTailProperties
<1>5. /\ Pcs = {"idle", "start", "implementation", "proxy", "send", "approving"}
      /\ "start" \in Pcs /\ "ok" \in {"none", "ok", "failed"} /\ <<>> \in Txs \union {<<>>}
  BY DEF Pcs
<1>. QED
  BY <1>1, <1>3, <1>4, <1>5

Ended(s) == [sh[s] EXCEPT !.todo = Tail(@), !.pc = "start", !.i = 1, !.tx = <<>>, !.at = 0]
Over(p) == [Idle EXCEPT !.out = p.out, !.run = p.run, !.read = p.read, !.exit = "ok"]
LEMMA OverIs ==
  ASSUME NEW p \in Processes
  PROVE  /\ Over(p) \in Processes /\ Over(p).pc = "idle" /\ Over(p).out = p.out
         /\ Over(p).run = p.run /\ Over(p).read = p.read /\ Over(p).exit = "ok"
         /\ Over(p).list = <<>> /\ Over(p).todo = <<>>
<1>1. "ok" \in {"none", "ok", "failed"}
  OBVIOUS
<1>2. Over(p) \in Processes
  BY <1>1, IdleIs DEF Over, Processes
<1>3. /\ Over(p).pc = "idle" /\ Over(p).out = p.out /\ Over(p).run = p.run /\ Over(p).read = p.read
      /\ Over(p).exit = "ok" /\ Over(p).list = <<>> /\ Over(p).todo = <<>>
  BY DEF Over, Idle
<1>. QED
  BY <1>2, <1>3

LEMMA EndedIs ==
  ASSUME TogetherInv, NEW s \in Shells, sh[s].todo # <<>>
  PROVE  /\ Ended(s) \in Processes /\ Ended(s).pc = "start" /\ Ended(s).out = sh[s].out
         /\ Ended(s).run = sh[s].run /\ Ended(s).read = sh[s].read
         /\ Ended(s).list = sh[s].list /\ Ended(s).i = 1 /\ Ended(s).todo = Tail(sh[s].todo)
         /\ Ended(s).exit = sh[s].exit
         /\ Exited(s) = IF Ended(s).todo = <<>> THEN Over(Ended(s)) ELSE Ended(s)
<1>1. Ended(s) \in Processes
  BY Fields DEF Ended, Processes
<1>2. /\ Ended(s).pc = "start" /\ Ended(s).out = sh[s].out /\ Ended(s).run = sh[s].run
      /\ Ended(s).read = sh[s].read /\ Ended(s).list = sh[s].list /\ Ended(s).i = 1
      /\ Ended(s).todo = Tail(sh[s].todo) /\ Ended(s).exit = sh[s].exit
  BY Fields DEF Ended, Processes
<1>3. Exited(s) = IF Ended(s).todo = <<>> THEN Over(Ended(s)) ELSE Ended(s)
  BY DEF Exited, Ended, Over
<1>. QED
  BY <1>1, <1>2, <1>3

LEMMA ExitedIs ==
  ASSUME TogetherInv, contracts' = contracts, NEW s \in Shells, sh[s].todo # <<>>
  PROVE  \E p \in Processes : p = Exited(s) /\ GoodShell(p)'
<1>1. /\ Exited(s) \in Processes /\ Exited(s).pc \in {"start", "idle"}
      /\ Exited(s).out = sh[s].out /\ Exited(s).run = sh[s].run
  BY EndedIs, OverIs
<1>2. PICK p \in Processes : p = Exited(s)
  BY <1>1
<1>. QED
  BY <1>1, <1>2, AtRest

LEMMA NextChainIs ==
  ASSUME TogetherInv, contracts' = contracts, NEW s \in Shells
  PROVE  \E p \in Processes : p = NextChain(s) /\ GoodShell(p)'
<1>1. NextChain(s) \in Processes
  BY Fields DEF Processes, NextChain
<1>2. NextChain(s).pc = "start" /\ NextChain(s).out = sh[s].out /\ NextChain(s).run = sh[s].run
  BY Fields DEF Processes, NextChain
<1>3. PICK p \in Processes : p = NextChain(s)
  BY <1>1
<1>. QED
  BY <1>2, <1>3, AtRest

LEMMA FilesStay ==
  ASSUME TogetherInv, contracts' = contracts, files' = files
  PROVE  files' \in Files /\ \E run \in Nat : DeployedBy(files.lastrun, run)'
<1>1. PICK run \in Nat : DeployedBy(files.lastrun, run)
  BY DEF TogetherInv
<1>2. DeployedBy(files.lastrun, run)'
  BY <1>1, SameContracts DEF DeployedBy, IsProxy
<1>. QED
  BY <1>2 DEF TogetherInv, TypeOK

\* The chain a process is at.
LEMMA ChainIs ==
  ASSUME TogetherInv, NEW s \in Shells
  PROVE  /\ ChainsLeft(s) => sh[s].i \in DOMAIN sh[s].list
         /\ sh[s].i \in DOMAIN sh[s].list => Chain(s) \in Chains /\ Chain(s) = sh[s].list[sh[s].i]
<1>1. sh[s].list \in Seq(Chains) /\ sh[s].i \in Nat \ {0}
  BY DEF TogetherInv, TypeOK, Processes
<1>. QED
  BY <1>1 DEF ChainsLeft, Chain
-----------------------------------------------------------------------------
(* The actions.                                                             *)
LEMMA StepOf ==
  ASSUME TogetherInv, Steady, Posts,
         NEW s \in Shells, NEW p \in Processes, Becomes(s, p), GoodShell(p)'
  PROVE  ScriptStep
<1>1. Moves(s)
  BY DEF Moves, Becomes
<1>2. IsFiniteSet(started')
  BY DEF TogetherInv, TypeOK, Steady
<1>. QED
  BY <1>1, <1>2, FilesStay DEF ScriptStep, Steady

LEMMA StartShellSteps ==
  ASSUME TogetherInv, NEW s \in Shells, NEW command \in Commands, NEW list \in Lists,
         StartShell(s, command, list)
  PROVE  ScriptStep
<1>. DEFINE q == [Idle EXCEPT !.todo = command, !.pc = "start",
                             !.list = list, !.run = Cardinality(started) + 1]
<1>1. IsFiniteSet(started) /\ started' = started \union {command}
  BY DEF TogetherInv, TypeOK, StartShell
<1>2. Cardinality(started) \in Nat /\ IsFiniteSet(started')
  BY <1>1, FS_CardinalityType, FS_AddElement
<1>3. command \in Seq(STRING) /\ list \in Seq(Chains) /\ "start" \in Pcs /\ Cardinality(started) + 1 \in Nat
  BY <1>2, ListsAssumption DEF Pcs
<1>4. q \in Processes
  BY <1>3, IdleIs DEF Processes
<1>5. q.out = NoFile /\ q.pc = "start"
  BY DEF Idle
<1>6. PICK p \in Processes : p = q
  BY <1>4
<1>7. GoodShell(p)'
  BY <1>5, <1>6, IdleIs DEF GoodShell, DeployedBy
<1>8. Moves(s)
  BY <1>6, <1>7 DEF Moves, StartShell, Becomes
<1>9. Posts /\ contracts' = contracts /\ files' = files
  BY DEF StartShell, Posts
<1>. QED
  BY <1>2, <1>8, <1>9, FilesStay DEF ScriptStep

LEMMA CheckNetworksSteps ==
  ASSUME TogetherInv, NEW s \in Shells, CheckNetworks(s)
  PROVE  ScriptStep
<1>1. /\ Posts /\ contracts' = contracts /\ started' = started /\ sh[s].todo # <<>>
      /\ files' = [files EXCEPT !.useLastRun = @ \/ Head(sh[s].todo) # "checkNetworks"]
  BY DEF CheckNetworks, Posts, Script
<1>2. Moves(s)
  BY <1>1, ExitedIs DEF CheckNetworks, Moves, Becomes
<1>3. files' \in Files /\ files'.lastrun = files.lastrun
  <2>1. (files.useLastRun \/ Head(sh[s].todo) # "checkNetworks") \in BOOLEAN
    OBVIOUS
  <2>2. files \in Files
    BY DEF TogetherInv, TypeOK
  <2>. HIDE DEF TogetherInv
  <2>. QED
    BY <1>1, <2>1, <2>2 DEF Files
<1>4. \E run \in Nat : DeployedBy(files.lastrun, run)'
  BY <1>1, <1>3, SameContracts DEF TogetherInv, DeployedBy, IsProxy
<1>5. IsFiniteSet(started')
  BY <1>1 DEF TogetherInv, TypeOK
<1>. QED
  BY <1>1, <1>2, <1>3, <1>4, <1>5 DEF ScriptStep

Waits(s, after, n) == [Goes(s, after) EXCEPT !.at = n]
LEMMA CreateIs ==
  ASSUME TogetherInv, Steady, NEW s \in Shells, NEW kind \in {"proxy", "implementation"},
         NEW after \in Pcs, Create(s, kind, after), Chain(s) \in Chains
  PROVE  /\ Posts
         /\ Fresh(Chain(s)) \in 1..MaxContracts /\ Fresh(Chain(s)) \notin Taken(Chain(s))
         /\ \/ Becomes(s, Died(s))
            \/ /\ Becomes(s, Waits(s, after, Fresh(Chain(s))))
               /\ pools' = Sent(Chain(s), [kind |-> "create", n |-> Fresh(Chain(s)),
                                           of |-> Contract(kind, sh[s].run)])
<1>1. /\ ~ (1..MaxContracts \subseteq Taken(Chain(s)))
      /\ Fresh(Chain(s)) \in 1..MaxContracts /\ Fresh(Chain(s)) \notin Taken(Chain(s))
  BY FreshIsFree DEF Create
<1>. DEFINE tx == [kind |-> "create", n |-> Fresh(Chain(s)), of |-> Contract(kind, sh[s].run)]
<1>2. sh[s].run \in Nat
  BY Fields DEF Processes
<1>3. tx \in CreateTxs /\ tx.kind = "create" /\ tx.n = Fresh(Chain(s))
  BY <1>1, <1>2 DEF CreateTxs, Creations, Contract
<1>4. Postable(Chain(s), tx)
  BY <1>1, <1>3 DEF Postable, Txs
<1>5. Sends(s, Chain(s), tx, [Goes(s, after) EXCEPT !.at = Fresh(Chain(s))])
  BY DEF Create
<1>6. tx \in Txs
  BY <1>3 DEF Txs
<1>. HIDE DEF tx
<1>7. pools' = pools \/ pools' = Sent(Chain(s), tx)
  BY <1>5 DEF Sends
<1>8. Posts
  BY <1>4, <1>6, <1>7 DEF Posts
<1>9. \/ Becomes(s, Died(s))
      \/ /\ Becomes(s, Waits(s, after, Fresh(Chain(s))))
         /\ pools' = Sent(Chain(s), tx)
  BY <1>5 DEF Sends, Waits
<1>. QED
  BY <1>1, <1>8, <1>9 DEF tx

LEMMA WaitingIs ==
  ASSUME TogetherInv, NEW s \in Shells, NEW after \in Pcs, NEW n \in 1..MaxContracts
  PROVE  /\ Waits(s, after, n) \in Processes
         /\ Waits(s, after, n).pc = after /\ Waits(s, after, n).at = n
         /\ Waits(s, after, n).out = sh[s].out /\ Waits(s, after, n).run = sh[s].run
         /\ Waits(s, after, n).list = sh[s].list /\ Waits(s, after, n).i = sh[s].i
         /\ Waits(s, after, n).todo = sh[s].todo /\ Waits(s, after, n).read = sh[s].read
         /\ Waits(s, after, n).exit = sh[s].exit
<1>. n \in Nat
  BY BoundsAssumption
<1>1. Waits(s, after, n) \in Processes
  BY Fields DEF Waits, Goes, Processes
<1>2. Waits(s, after, n).pc = after /\ Waits(s, after, n).at = n
  BY Fields DEF Waits, Goes, Processes
<1>. QED
  BY <1>1, <1>2, Fields DEF Waits, Goes, Processes

LEMMA deployImplementationSteps ==
  ASSUME TogetherInv, NEW s \in Shells, deployImplementation(s)
  PROVE  ScriptStep
<1>1. Steady /\ Create(s, "implementation", "implementation") /\ ChainsLeft(s)
  BY DEF deployImplementation
<1>2. sh[s].i \in DOMAIN sh[s].list /\ Chain(s) \in Chains /\ contracts' = contracts
  BY <1>1, ChainIs DEF Steady
<1>. "implementation" \in Pcs
  BY DEF Pcs
<1>3. PICK q : /\ Becomes(s, q) /\ Posts /\ Fresh(Chain(s)) \in 1..MaxContracts
               /\ \/ q = Died(s)
                  \/ q = Waits(s, "implementation", Fresh(Chain(s)))
  BY <1>1, <1>2, CreateIs
<1>4. CASE q = Died(s)
  BY <1>1, <1>3, <1>4, DiedIs, StepOf
<1>5. CASE q # Died(s)
  <2>1. /\ q \in Processes /\ q.pc = "implementation" /\ q.out = sh[s].out /\ q.run = sh[s].run
        /\ q.list = sh[s].list /\ q.i = sh[s].i
    BY <1>3, <1>5, WaitingIs
  <2>2. DeployedBy(q.out, q.run)'
    BY <1>2, <2>1, SameContracts DEF TogetherInv, GoodShell
  <2>3. GoodShell(q)'
    BY <1>2, <2>1, <2>2 DEF GoodShell
  <2>. QED
    BY <1>1, <1>3, <2>1, <2>3, StepOf
<1>. QED
  BY <1>4, <1>5
\* Of a posted creation.
LEMMA CreationPosted ==
  ASSUME TogetherInv, contracts' = contracts, NEW c \in Chains, NEW n \in 1..MaxContracts,
         n \notin Taken(c), NEW run \in Nat,
         pools' = Sent(c, [kind |-> "create", n |-> n, of |-> Contract("proxy", run)])
  PROVE  Creation(c, n, run)'
<1>. DEFINE tx == [kind |-> "create", n |-> n, of |-> Contract("proxy", run)]
<1>1. tx \in CreateTxs
  BY DEF CreateTxs, Creations, Contract
<1>2. tx \in Txs /\ tx.kind = "create" /\ tx.n = n /\ tx.of = Contract("proxy", run)
  BY <1>1 DEF Txs
<1>. HIDE DEF tx
<1>3. pools'[c] = Append(pools[c], tx) /\ pools[c] \in Seq(Txs)
  BY DEF TogetherInv, TypeOK, Sent, tx
<1>4. PICK j \in DOMAIN pools'[c] : pools'[c][j] = tx
  BY <1>2, <1>3, AppendIs
<1>5. n \in Taken(c)'
  BY <1>2, <1>4 DEF Taken, Range
<1>6. n \notin DOMAIN contracts'[c]
  BY DEF Taken
<1>7. ASSUME NEW k \in DOMAIN pools'[c], Creates(c, k, n)'
      PROVE  pools'[c][k].of = Contract("proxy", run)
  <2>1. CASE k \in DOMAIN pools[c]
    BY <1>2, <1>3, <1>7, <2>1, AppendIs, TakenIs DEF Creates
  <2>2. CASE k \notin DOMAIN pools[c]
    BY <1>2, <1>3, <2>2, AppendIs
  <2>. QED
    BY <2>1, <2>2
<1>. QED
  BY <1>5, <1>6, <1>7 DEF Creation, Contract, IsProxy

LEMMA ImplementationDeployedSteps ==
  ASSUME TogetherInv, NEW s \in Shells, ImplementationDeployed(s)
  PROVE  ScriptStep
<1>1. Steady /\ contracts' = contracts /\ sh[s].pc = "implementation"
  BY DEF ImplementationDeployed, Steady, Script
<1>2. sh[s].i \in DOMAIN sh[s].list /\ Chain(s) \in Chains /\ Chain(s) = sh[s].list[sh[s].i]
  BY <1>1, ChainIs DEF TogetherInv, GoodShell
<1>. "proxy" \in Pcs
  BY DEF Pcs
<1>3. CASE Failed(s)
  BY <1>1, <1>3, DiedIs, StepOf DEF ImplementationDeployed, Posts
<1>4. CASE ~Failed(s)
  <2>1. Create(s, "proxy", "proxy")
    BY <1>4 DEF ImplementationDeployed
  <2>2. PICK n : n = Fresh(Chain(s)) /\ n \in 1..MaxContracts /\ n \notin Taken(Chain(s))
    BY <1>1, <1>2, <2>1, CreateIs
  <2>3. PICK q : /\ Becomes(s, q) /\ Posts
                 /\ \/ q = Died(s)
                    \/ /\ q = Waits(s, "proxy", n)
                       /\ pools' = Sent(Chain(s), [kind |-> "create", n |-> n,
                                                   of |-> Contract("proxy", sh[s].run)])
    BY <1>1, <1>2, <2>1, <2>2, CreateIs
  <2>4. CASE q = Died(s)
    BY <1>1, <2>3, <2>4, DiedIs, StepOf
  <2>5. CASE q # Died(s)
    <3>1. /\ q \in Processes /\ q.pc = "proxy" /\ q.out = sh[s].out /\ q.run = sh[s].run
          /\ q.list = sh[s].list /\ q.i = sh[s].i /\ q.at = n
      BY <2>2, <2>3, <2>5, WaitingIs
    <3>2. DeployedBy(q.out, q.run)'
      BY <1>1, <3>1, SameContracts DEF TogetherInv, GoodShell
    <3>3. q.run \in Nat /\ q.list[q.i] = Chain(s)
      BY <1>2, <3>1 DEF Processes
    <3>4. PICK c \in Chains : c = q.list[q.i]
      BY <1>2, <3>3
    <3>5. Creation(c, n, q.run)'
      BY <1>1, <2>2, <2>3, <2>5, <3>1, <3>3, <3>4, CreationPosted
    <3>6. GoodShell(q)'
      BY <1>2, <3>1, <3>2, <3>4, <3>5 DEF GoodShell
    <3>. QED
      BY <1>1, <2>3, <3>1, <3>6, StepOf
  <2>. QED
    BY <2>4, <2>5
<1>. QED
  BY <1>3, <1>4

LEMMA UpgradeProxySteps ==
  ASSUME TogetherInv, NEW s \in Shells, UpgradeProxy(s)
  PROVE  ScriptStep
  BY DiedIs, StepOf DEF UpgradeProxy, Posts
LEMMA DeploymentParts ==
  ASSUME NEW out \in Deployments
  PROVE  /\ DOMAIN out \subseteq Chains
         /\ \A d \in DOMAIN out : out[d] \in 1..MaxContracts
         /\ \A c \in Chains, n \in 1..MaxContracts : With(out, c, n) \in Deployments
<1>1. PICK D \in SUBSET Chains : out \in [D -> 1..MaxContracts]
  BY DEF Deployments
<1>2. ASSUME NEW c \in Chains, NEW n \in 1..MaxContracts
      PROVE  With(out, c, n) \in Deployments
  <2>1. With(out, c, n) \in [D \union {c} -> 1..MaxContracts] /\ D \union {c} \in SUBSET Chains
    BY <1>1 DEF With
  <2>. QED
    BY <2>1 DEF Deployments
<1>3. DOMAIN out \subseteq Chains /\ \A d \in DOMAIN out : out[d] \in 1..MaxContracts
  BY <1>1
<1>. QED
  BY <1>2, <1>3

\* The deployments that a shell has noted after a chain.
Noted(s) == IF Chain(s) \in DOMAIN sh[s].out THEN sh[s].out ELSE With(sh[s].out, Chain(s), sh[s].at)
Notes(s) == [NextChain(s) EXCEPT !.out = Noted(s)]

LEMMA NotesIs ==
  ASSUME TogetherInv, NEW s \in Shells, Noted(s) \in Deployments
  PROVE  /\ Notes(s) \in Processes /\ Notes(s).pc = "start" /\ Notes(s).out = Noted(s)
         /\ Notes(s).run = sh[s].run /\ Notes(s).i = sh[s].i + 1 /\ Notes(s).list = sh[s].list
         /\ Notes(s).todo = sh[s].todo /\ Notes(s).read = sh[s].read /\ Notes(s).exit = sh[s].exit
<1>1. Notes(s) \in Processes
  BY Fields DEF Notes, NextChain, Processes
<1>2. Notes(s).pc = "start" /\ Notes(s).out = Noted(s) /\ Notes(s).i = sh[s].i + 1
  BY Fields DEF Notes, NextChain, Processes
<1>. QED
  BY <1>1, <1>2, Fields DEF Notes, NextChain, Processes

LEMMA DeployedProxy ==
  ASSUME TogetherInv, NEW s \in Shells, ProxyDeployed(s), ~Failed(s)
  PROVE  /\ IsProxy(Chain(s), sh[s].at, sh[s].run) /\ sh[s].at \in 1..MaxContracts
         /\ Chain(s) \in Chains /\ Chain(s) = sh[s].list[sh[s].i] /\ sh[s].i \in DOMAIN sh[s].list
         /\ Noted(s) \in Deployments /\ Becomes(s, Notes(s))
         /\ DeployedBy(Noted(s), sh[s].run)
<1>1. sh[s].pc = "proxy" /\ Mined(s)
  BY DEF ProxyDeployed, Script
<1>2. Chain(s) \in Chains /\ Chain(s) = sh[s].list[sh[s].i] /\ sh[s].i \in DOMAIN sh[s].list
  BY <1>1, ChainIs DEF TogetherInv, GoodShell
<1>3. Creation(Chain(s), sh[s].at, sh[s].run) /\ DeployedBy(sh[s].out, sh[s].run)
  BY <1>1, <1>2 DEF TogetherInv, GoodShell
<1>4. IsProxy(Chain(s), sh[s].at, sh[s].run) /\ sh[s].at \in 1..MaxContracts
  BY <1>1, <1>2, <1>3, ContractIs DEF Creation, Mined, Failed, TogetherInv
<1>5. sh[s].out \in Deployments
  BY Fields DEF Processes
<1>6. Noted(s) \in Deployments /\ DeployedBy(Noted(s), sh[s].run)
  BY <1>2, <1>3, <1>4, <1>5, DeploymentParts DEF Noted, DeployedBy, With
<1>7. NextChain(s).out = sh[s].out
  BY Fields DEF NextChain, Processes
<1>8. Becomes(s, Notes(s))
  BY <1>7 DEF ProxyDeployed, Notes, Noted
<1>. QED
  BY <1>2, <1>4, <1>6, <1>8

LEMMA ProxyDeployedSteps ==
  ASSUME TogetherInv, NEW s \in Shells, ProxyDeployed(s)
  PROVE  ScriptStep
<1>1. Steady /\ Posts /\ contracts' = contracts
  BY DEF ProxyDeployed, Posts, Steady
<1>2. CASE Failed(s)
  BY <1>1, <1>2, DiedIs, StepOf DEF ProxyDeployed
<1>3. CASE ~Failed(s)
  <2>1. PICK p \in Processes : p = Notes(s)
    BY <1>3, DeployedProxy, NotesIs
  <2>2. p.pc = "start" /\ DeployedBy(p.out, p.run) /\ Becomes(s, p)
    BY <1>3, <2>1, DeployedProxy, NotesIs
  <2>3. GoodShell(p)'
    BY <1>1, <2>2, SameContracts DEF GoodShell
  <2>. QED
    BY <1>1, <2>1, <2>2, <2>3, StepOf
<1>. QED
  BY <1>2, <1>3

LEMMA writeOutputFilesSteps ==
  ASSUME TogetherInv, NEW s \in Shells, writeOutputFiles(s)
  PROVE  ScriptStep
<1>1. /\ Posts /\ contracts' = contracts /\ started' = started /\ sh[s].todo # <<>>
      /\ files' = files \/ files' = [files EXCEPT !.lastrun = sh[s].out]
      /\ Becomes(s, Exited(s))
  BY DEF writeOutputFiles, Posts, Deploys, Script
<1>2. Moves(s)
  BY <1>1, ExitedIs DEF Moves, Becomes
<1>3. IsFiniteSet(started')
  BY <1>1 DEF TogetherInv, TypeOK
<1>4. files' \in Files /\ \E run \in Nat : DeployedBy(files.lastrun, run)'
  <2>1. CASE files' = files
    BY <1>1, <2>1, FilesStay
  <2>2. CASE files' = [files EXCEPT !.lastrun = sh[s].out]
    <3>1. files \in Files
      BY DEF TogetherInv, TypeOK
    <3>2. sh[s].out \in Deployments /\ sh[s].run \in Nat
      BY Fields DEF Processes
    <3>3. files' \in Files /\ files'.lastrun = sh[s].out
      BY <2>2, <3>1, <3>2 DEF Files
    <3>4. DeployedBy(sh[s].out, sh[s].run)
      BY DEF TogetherInv, GoodShell
    <3>5. PICK run, out : run \in Nat /\ run = sh[s].run /\ out = files'.lastrun /\ DeployedBy(out, run)
      BY <3>2, <3>3, <3>4
    <3>6. DeployedBy(out, run)'
      BY <1>1, <3>5, SameContracts
    <3>. QED
      BY <3>3, <3>5, <3>6 DEF DeployedBy
  <2>. QED
    BY <1>1, <2>1, <2>2
<1>. QED
  BY <1>1, <1>2, <1>3, <1>4 DEF ScriptStep
-----------------------------------------------------------------------------
(* Configuration.                                                           *)
LEMMA LoadIs ==
  ASSUME TogetherInv
  PROVE  loadSwapLayers \in Deployments /\ \E run \in Nat : DeployedBy(loadSwapLayers, run)
<1>1. files.lastrun \in Deployments /\ \E run \in Nat : DeployedBy(files.lastrun, run)
  BY DEF TogetherInv, TypeOK, Files
<1>2. SwapLayers \in [Chains -> 1..MaxContracts]
  BY BoundsAssumption DEF SwapLayers
<1>3. SwapLayers \in Deployments
  BY <1>2 DEF Deployments
<1>4. DeployedBy(SwapLayers, 0)
  BY DEF DeployedBy, SwapLayers, TogetherInv, NumbersOK
<1>. QED
  BY <1>1, <1>3, <1>4 DEF loadSwapLayers

LEMMA BatchesAre ==
  ASSUME NEW c \in Chains, NEW regs \in Batches(c)
  PROVE  /\ DOMAIN regs \subseteq OtherChains(c) /\ DOMAIN regs \in {{}, OtherChains(c)}
         /\ DOMAIN regs = {} => regs = [d \in {} |-> NoPeer]
         /\ \A d \in DOMAIN regs : regs[d].peer \in Addresses
<1>1. PICK D \in {{}, OtherChains(c)} : regs \in [D -> [peer : Addresses, fees : FeeConfigs]]
  BY DEF Batches
<1>2. DOMAIN regs = D
  BY <1>1
<1>3. \A d \in DOMAIN regs : regs[d].peer \in Addresses
  BY <1>1
<1>4. DOMAIN regs = {} => regs = [d \in {} |-> NoPeer]
  BY <1>1
<1>. QED
  BY <1>1, <1>2, <1>3, <1>4

LEMMA FeesAre ==
  ASSUME TogetherInv, NEW d, HasFeeConfig(d)
  PROVE  loadFeeConfig(d) \in FeeConfigs
<1>1. PICK config \in Configs : files.fees = config.fees
  BY DEF TogetherInv, TypeOK, Files
<1>2. loadFeeConfig(d) \in Range(config.fees)
  BY <1>1 DEF loadFeeConfig, HasFeeConfig, Range
<1>. QED
  BY <1>2 DEF FeeConfigs

LEMMA PeersBatchIs ==
  ASSUME TogetherInv, NEW s \in Shells, Chain(s) \in Chains,
         HasSwapLayer(Chain(s)), Registers(Chain(s))
  PROVE  /\ GoodGovern(Chain(s), PeersBatch(s)) /\ PeersBatch(s).kind = "govern"
         /\ PeersBatch(s).n = loadSwapLayers[Chain(s)]
         /\ DOMAIN PeersBatch(s).regs = ToRegister(Chain(s))
         /\ \A d \in ToRegister(Chain(s)) :
              /\ d \in DOMAIN loadSwapLayers
              /\ PeersBatch(s).regs[d].peer = AddressOf(d, loadSwapLayers[d])
<1>. DEFINE c == Chain(s)
            regs == createSwapLayerConfiguration(c)
<1>1. PeersBatch(s) = [kind |-> "govern", n |-> loadSwapLayers[c], regs |-> regs]
  BY DEF PeersBatch, getSwapLayer, getSwapLayerAddress
<1>2. /\ loadSwapLayers \in Deployments /\ c \in DOMAIN loadSwapLayers
      /\ DOMAIN loadSwapLayers \subseteq Chains
      /\ \A d \in DOMAIN loadSwapLayers : loadSwapLayers[d] \in 1..MaxContracts
  BY LoadIs, DeploymentParts DEF HasSwapLayer
<1>3. ToRegister(c) \in {{}, OtherChains(c)}
  BY DEF ToRegister
<1>4. \A d \in ToRegister(c) : d \in DOMAIN loadSwapLayers /\ HasFeeConfig(d)
  BY DEF Registers, HasSwapLayer
<1>5. /\ DOMAIN regs = ToRegister(c)
      /\ \A d \in ToRegister(c) :
           regs[d] = [peer |-> AddressOf(d, loadSwapLayers[d]), fees |-> loadFeeConfig(d)]
  BY DEF createSwapLayerConfiguration, Registration, getSwapLayerAddress
<1>6. \A d \in ToRegister(c) : AddressOf(d, loadSwapLayers[d]) \in Addresses
  BY <1>2, <1>4 DEF Addresses
<1>7. \A d \in ToRegister(c) : regs[d] \in [peer : Addresses, fees : FeeConfigs]
  BY <1>4, <1>5, <1>6, FeesAre
<1>8. regs \in [ToRegister(c) -> [peer : Addresses, fees : FeeConfigs]]
  BY <1>5, <1>7 DEF createSwapLayerConfiguration
<1>9. regs \in Batches(c)
  BY <1>3, <1>8 DEF Batches
<1>10. PeersBatch(s) \in GovernTxs
  BY <1>1, <1>2, <1>9 DEF GovernTxs
<1>11. OneDeployment(c, PeersBatch(s))
  <2>1. PICK run \in Nat : DeployedBy(loadSwapLayers, run)
    BY LoadIs
  <2>. HIDE DEF regs
  <2>. QED
    BY <1>1, <1>2, <1>4, <1>5, <2>1 DEF OneDeployment, DeployedBy
<1>. QED
  BY <1>1, <1>4, <1>5, <1>9, <1>10, <1>11 DEF GoodGovern
Asks(s) ==
  [Goes(s, "send") EXCEPT !.tx = PeersBatch(s), !.read = IF ReadsOwn(s) THEN "own" ELSE "others"]
Configurable(s) ==
  /\ ChainsLeft(s) /\ HasSwapLayer(Chain(s)) /\ Registers(Chain(s)) /\ Encodes(PeersBatch(s).regs)

LEMMA AsksIs ==
  ASSUME TogetherInv, NEW s \in Shells, PeersBatch(s) \in Txs
  PROVE  /\ Asks(s) \in Processes /\ Asks(s).pc = "send" /\ Asks(s).tx = PeersBatch(s)
         /\ Asks(s).out = sh[s].out /\ Asks(s).run = sh[s].run /\ Asks(s).list = sh[s].list
         /\ Asks(s).i = sh[s].i /\ Asks(s).todo = sh[s].todo /\ Asks(s).exit = sh[s].exit
         /\ Asks(s).read = IF ReadsOwn(s) THEN "own" ELSE "others"
<1>. DEFINE read == IF ReadsOwn(s) THEN "own" ELSE "others"
<1>1. "send" \in Pcs /\ read \in {"none", "own", "others"} /\ PeersBatch(s) \in Txs \union {<<>>}
  BY DEF Pcs
<1>2. Asks(s) = [Goes(s, "send") EXCEPT !.tx = PeersBatch(s), !.read = read]
  BY DEF Asks
<1>. HIDE DEF read
<1>3. Asks(s) \in Processes
  BY <1>1, <1>2, Fields DEF Goes, Processes
<1>4. Asks(s).pc = "send" /\ Asks(s).tx = PeersBatch(s) /\ Asks(s).read = read
  BY <1>2, Fields DEF Goes, Processes
<1>5. /\ Asks(s).out = sh[s].out /\ Asks(s).run = sh[s].run /\ Asks(s).list = sh[s].list
      /\ Asks(s).i = sh[s].i /\ Asks(s).todo = sh[s].todo /\ Asks(s).exit = sh[s].exit
  BY <1>2, Fields DEF Goes, Processes
<1>. QED
  BY <1>3, <1>4, <1>5 DEF read

LEMMA ConfigureSteps ==
  ASSUME TogetherInv, NEW s \in Shells, Configure(s)
  PROVE  ScriptStep
<1>1. Steady /\ Posts /\ contracts' = contracts /\ sh[s].todo # <<>>
  BY DEF Configure, Posts, Steady, Script
<1>2. CASE ~ChainsLeft(s)
  BY <1>1, <1>2, ExitedIs, StepOf DEF Configure
<1>3. CASE ChainsLeft(s) /\ ~Configurable(s)
  BY <1>1, <1>3, DiedIs, StepOf DEF Configure, Configurable
<1>4. CASE Configurable(s)
  <2>1. sh[s].i \in DOMAIN sh[s].list /\ Chain(s) \in Chains /\ Chain(s) = sh[s].list[sh[s].i]
    BY <1>4, ChainIs DEF Configurable
  <2>2. GoodGovern(Chain(s), PeersBatch(s)) /\ PeersBatch(s) \in Txs
    BY <1>4, <2>1, PeersBatchIs DEF Configurable, GoodGovern, Txs
  <2>3. PICK p \in Processes : p = Asks(s)
    BY <2>2, AsksIs
  <2>4. /\ p.pc = "send" /\ p.i \in DOMAIN p.list /\ GoodGovern(p.list[p.i], p.tx)
        /\ DeployedBy(p.out, p.run)
    BY <2>1, <2>2, <2>3, AsksIs DEF TogetherInv, GoodShell
  <2>5. GoodShell(p)'
    BY <1>1, <2>4, SameContracts DEF GoodShell
  <2>6. Becomes(s, p)
    BY <1>4, <2>3 DEF Configure, Configurable, Asks
  <2>. QED
    BY <1>1, <2>5, <2>6, StepOf
<1>. QED
  BY <1>2, <1>3, <1>4 DEF Configurable

LEMMA SentPosts ==
  ASSUME NEW c \in Chains, NEW tx \in Txs, Postable(c, tx), pools' = pools \/ pools' = Sent(c, tx)
  PROVE  Posts
  BY DEF Posts

LEMMA SendBatchSteps ==
  ASSUME TogetherInv, NEW s \in Shells, SendBatch(s)
  PROVE  ScriptStep
<1>1. Steady /\ contracts' = contracts /\ sh[s].pc = "send"
  BY DEF SendBatch, Steady, Script
<1>2. Chain(s) \in Chains /\ GoodGovern(Chain(s), sh[s].tx)
  BY <1>1, ChainIs DEF TogetherInv, GoodShell
<1>3. sh[s].tx \in Txs /\ sh[s].tx.kind = "govern"
  BY <1>2 DEF GoodGovern, Txs, GovernTxs
<1>4. pools' = pools \/ pools' = Sent(Chain(s), sh[s].tx)
  BY DEF SendBatch
<1>5. Posts
  BY <1>2, <1>3, <1>4, SentPosts DEF Postable
<1>6. Becomes(s, NextChain(s)) \/ Becomes(s, Died(s))
  BY DEF SendBatch, Refused
<1>. QED
  BY <1>1, <1>5, <1>6, DiedIs, NextChainIs, StepOf

LEMMA UpdateFeesSteps ==
  ASSUME TogetherInv, NEW s \in Shells, UpdateFees(s)
  PROVE  ScriptStep
<1>1. Steady /\ Posts /\ contracts' = contracts /\ sh[s].todo # <<>>
  BY DEF UpdateFees, Posts, Steady, Script
<1>2. Becomes(s, Died(s)) \/ Becomes(s, Exited(s))
  BY DEF UpdateFees
<1>. QED
  BY <1>1, <1>2, DiedIs, ExitedIs, StepOf

-----------------------------------------------------------------------------
(* Test orders.                                                             *)
Awaits(s) == [Goes(s, "approving") EXCEPT !.tx = TestOrder(s)]

LEMMA AwaitsIs ==
  ASSUME TogetherInv, NEW s \in Shells, TestOrder(s) \in Txs
  PROVE  /\ Awaits(s) \in Processes /\ Awaits(s).pc = "approving" /\ Awaits(s).tx = TestOrder(s)
         /\ Awaits(s).out = sh[s].out /\ Awaits(s).run = sh[s].run /\ Awaits(s).list = sh[s].list
         /\ Awaits(s).i = sh[s].i /\ Awaits(s).todo = sh[s].todo /\ Awaits(s).exit = sh[s].exit
         /\ Awaits(s).read = sh[s].read
<1>1. "approving" \in Pcs /\ TestOrder(s) \in Txs \union {<<>>}
  BY DEF Pcs
<1>2. Awaits(s) \in Processes
  BY <1>1, Fields DEF Awaits, Goes, Processes
<1>3. Awaits(s).pc = "approving" /\ Awaits(s).tx = TestOrder(s)
  BY Fields DEF Awaits, Goes, Processes
<1>4. /\ Awaits(s).out = sh[s].out /\ Awaits(s).run = sh[s].run /\ Awaits(s).list = sh[s].list
      /\ Awaits(s).i = sh[s].i /\ Awaits(s).todo = sh[s].todo /\ Awaits(s).exit = sh[s].exit
      /\ Awaits(s).read = sh[s].read
  BY Fields DEF Awaits, Goes, Processes
<1>. QED
  BY <1>2, <1>3, <1>4

LEMMA TestOrderIs ==
  ASSUME TogetherInv, NEW s \in Shells, HasSwapLayer(FromChain)
  PROVE  /\ TestOrder(s) \in InitiateTxs /\ TestOrder(s) \in Txs /\ TestOrder(s).kind = "initiate"
         /\ TestOrder(s).n = loadSwapLayers[FromChain]
         /\ TestOrder(s).run = sh[s].run /\ (TestOrder(s).own <=> sh[s].read = "own")
<1>1. /\ loadSwapLayers[FromChain] \in 1..MaxContracts
      /\ sh[s].run \in Nat
      /\ Script(s, "testFastSend", "start") \in BOOLEAN /\ (sh[s].read = "own") \in BOOLEAN
  BY LoadIs, DeploymentParts, Fields DEF HasSwapLayer, Processes, Script
<1>2. TestOrder(s) =
        [kind |-> "initiate", n |-> loadSwapLayers[FromChain],
         fast |-> Script(s, "testFastSend", "start"), run |-> sh[s].run, own |-> sh[s].read = "own"]
  BY DEF TestOrder, getSwapLayerAddress, loadTestSendConfig
<1>3. TestOrder(s) \in InitiateTxs
  BY <1>1, <1>2 DEF InitiateTxs
<1>4. TestOrder(s).own = (sh[s].read = "own")
  BY <1>2
<1>5. /\ TestOrder(s).kind = "initiate" /\ TestOrder(s).n = loadSwapLayers[FromChain]
      /\ TestOrder(s).run = sh[s].run
  BY <1>2
<1>. QED
  BY <1>3, <1>4, <1>5 DEF Txs

LEMMA ApproveSteps ==
  ASSUME TogetherInv, NEW s \in Shells, Approve(s)
  PROVE  ScriptStep
<1>1. Steady /\ contracts' = contracts
  BY DEF Approve, Steady
<1>2. CASE ~HasSwapLayer(FromChain)
  BY <1>1, <1>2, DiedIs, StepOf DEF Approve, loadTestSendConfig, Posts
<1>3. CASE HasSwapLayer(FromChain)
  <2>1. PICK tx : tx = [kind |-> "approve", by |-> s]
    OBVIOUS
  <2>2. tx \in Txs /\ tx.kind = "approve"
    BY <2>1 DEF ApproveTxs, Txs
  <2>3. Sends(s, FromChain, tx, Awaits(s))
    BY <1>3, <2>1 DEF Approve, loadTestSendConfig, Awaits
  <2>4. Posts
    BY <2>2, <2>3, SentPosts, ChainsAssumption DEF Sends, Postable
  <2>5. Becomes(s, Awaits(s)) \/ Becomes(s, Died(s))
    BY <2>3 DEF Sends
  <2>6. PICK p \in Processes : p = Awaits(s)
    BY <1>3, AwaitsIs, TestOrderIs
  <2>7. p.pc = "approving" /\ p.tx \in InitiateTxs /\ DeployedBy(p.out, p.run)
    BY <1>3, <2>6, AwaitsIs, TestOrderIs DEF TogetherInv, GoodShell
  <2>8. GoodShell(p)'
    BY <1>1, <2>7, SameContracts DEF GoodShell
  <2>. QED
    BY <1>1, <2>4, <2>5, <2>6, <2>8, DiedIs, StepOf
<1>. QED
  BY <1>2, <1>3

LEMMA InitiateSteps ==
  ASSUME TogetherInv, NEW s \in Shells, Initiate(s)
  PROVE  ScriptStep
<1>1. Steady /\ contracts' = contracts /\ sh[s].todo # <<>> /\ sh[s].pc = "approving"
  BY DEF Initiate, Steady, TestSend, Script
<1>2. sh[s].tx \in InitiateTxs
  BY <1>1 DEF TogetherInv, GoodShell
<1>3. sh[s].tx \in Txs /\ sh[s].tx.kind = "initiate"
  BY <1>2 DEF InitiateTxs, Txs
<1>4. Sends(s, FromChain, sh[s].tx, Exited(s))
  BY DEF Initiate, loadTestSendConfig
<1>5. Posts
  BY <1>3, <1>4, SentPosts, ChainsAssumption DEF Sends, Postable
<1>6. Becomes(s, Exited(s)) \/ Becomes(s, Died(s))
  BY <1>4 DEF Sends
<1>. QED
  BY <1>1, <1>5, <1>6, DiedIs, ExitedIs, StepOf
-----------------------------------------------------------------------------
(* A transaction is mined: contracts are added or get another state.        *)
Kept(d, n) ==
  /\ n \in DOMAIN contracts'[d]
  /\ contracts'[d][n].kind = contracts[d][n].kind /\ contracts'[d][n].run = contracts[d][n].run
Made(c, n) ==
  /\ Head(pools[c]).kind = "create" /\ Head(pools[c]).n = n
  /\ contracts'[c][n] \in {Head(pools[c]).of, Contract("failed", 0)}
Grows(c) ==
  /\ contracts' \in [Chains -> ContractMaps] /\ StatesOK'
  /\ \A d \in Chains : \A n \in DOMAIN contracts[d] : Kept(d, n)
  /\ \A d \in Chains : \A n \in DOMAIN contracts'[d] : n \in DOMAIN contracts[d] \/ (d = c /\ Made(c, n))
  /\ Head(pools[c]).kind = "create" => Head(pools[c]).n \in DOMAIN contracts'[c]

LEMMA HeadIs ==
  ASSUME TogetherInv, NEW c \in Chains, pools[c] # <<>>
  PROVE  /\ 1 \in DOMAIN pools[c] /\ Head(pools[c]) = pools[c][1] /\ pools[c][1] \in Txs
         /\ Tail(pools[c]) \in Seq(Txs)
         /\ \A k \in DOMAIN Tail(pools[c]) :
              k + 1 \in DOMAIN pools[c] /\ Tail(pools[c])[k] = pools[c][k + 1] /\ k \in Nat \ {0}
         /\ \A k \in DOMAIN pools[c] :
              k # 1 => k - 1 \in DOMAIN Tail(pools[c]) /\ Tail(pools[c])[k - 1] = pools[c][k]
<1>1. pools[c] \in Seq(Txs)
  BY DEF TogetherInv, TypeOK
<1>2. PICK q \in Seq(Txs) : q = pools[c] /\ q # <<>>
  BY <1>1
<1>3. /\ Tail(q) \in Seq(Txs) /\ Len(Tail(q)) = Len(q) - 1 /\ Len(q) \in Nat \ {0}
      /\ DOMAIN q = 1..Len(q)
      /\ \A k \in 1..Len(Tail(q)) : Tail(q)[k] = q[k + 1]
  BY <1>2, HeadTailProperties
<1>4. DOMAIN Tail(q) = 1..(Len(q) - 1)
  BY <1>3
<1>5. 1 \in DOMAIN q /\ Head(q) = q[1] /\ q[1] \in Txs
  BY <1>2, <1>3
<1>6. \A k \in DOMAIN Tail(q) : k + 1 \in DOMAIN q /\ Tail(q)[k] = q[k + 1] /\ k \in Nat \ {0}
  BY <1>3, <1>4
<1>7. \A k \in DOMAIN q : k # 1 => k - 1 \in DOMAIN Tail(q) /\ Tail(q)[k - 1] = q[k]
  <2>1. SUFFICES ASSUME NEW k \in DOMAIN q, k # 1
                 PROVE  k - 1 \in DOMAIN Tail(q) /\ Tail(q)[k - 1] = q[k]
    OBVIOUS
  <2>2. k \in Nat /\ k - 1 \in 1..(Len(q) - 1)
    BY <1>3, <2>1
  <2>3. Tail(q)[k - 1] = q[(k - 1) + 1] /\ (k - 1) + 1 = k
    BY <1>3, <2>2
  <2>. QED
    BY <1>4, <2>2, <2>3
<1>. QED
  BY <1>2, <1>3, <1>5, <1>6, <1>7

LEMMA ContractMapIs ==
  ASSUME NEW D \in SUBSET (1..MaxContracts), NEW f \in [D -> Contracts]
  PROVE  f \in ContractMaps
  BY DEF ContractMaps

LEMMA NewStates ==
  ASSUME NEW c \in Chains
  PROVE  InitialState \in States(c) /\ States(c) \subseteq AllStates
  BY DEF States, AllStates

LEMMA MineCreateGrows ==
  ASSUME TogetherInv, NEW c \in Chains, pools[c] # <<>>, Head(pools[c]).kind = "create",
         MineCreate(c, Head(pools[c]))
  PROVE  Grows(c)
<1>1. PICK tx \in CreateTxs : tx = Head(pools[c])
  BY HeadIs, TxKinds
<1>2. PICK new : /\ contracts' = [contracts EXCEPT ![c] = With(@, tx.n, new)]
                 /\ new \in {tx.of, Contract("failed", 0)}
  BY <1>1 DEF MineCreate
<1>3. tx.n \in 1..MaxContracts /\ tx.of \in Creations /\ tx.kind = "create"
  BY <1>1 DEF CreateTxs
<1>4. new \in Contracts /\ new.state = InitialState
  BY <1>2, <1>3, NewStates DEF Creations, Contracts, Contract, Kinds
<1>5. tx.n \notin DOMAIN contracts[c]
  BY <1>1, <1>3, HeadIs DEF TogetherInv, NumbersOK, Numbered
<1>6. /\ \A d \in Chains : d # c => contracts'[d] = contracts[d]
      /\ contracts'[c] = With(contracts[c], tx.n, new)
  BY <1>2 DEF TogetherInv, TypeOK
<1>7. /\ DOMAIN contracts'[c] = DOMAIN contracts[c] \union {tx.n}
      /\ contracts'[c][tx.n] = new
      /\ \A n \in DOMAIN contracts[c] : contracts'[c][n] = contracts[c][n]
  BY <1>5, <1>6 DEF With
<1>8. contracts'[c] \in [DOMAIN contracts[c] \union {tx.n} -> Contracts]
  <2>1. DOMAIN contracts[c] \subseteq 1..MaxContracts /\ contracts[c] \in [DOMAIN contracts[c] -> Contracts]
    BY ContractParts DEF TogetherInv
  <2>2. \A n \in DOMAIN contracts[c] \union {tx.n} :
          (IF n = tx.n THEN new ELSE contracts[c][n]) \in Contracts
    BY <1>4, <2>1
  <2>. QED
    BY <1>6, <2>2 DEF With
<1>9. contracts'[c] \in ContractMaps
  <2>1. DOMAIN contracts[c] \union {tx.n} \in SUBSET (1..MaxContracts)
    BY <1>3, ContractParts DEF TogetherInv
  <2>. QED
    BY <1>8, <2>1, ContractMapIs
<1>10. contracts' \in [Chains -> ContractMaps]
  BY <1>2, <1>6, <1>9 DEF TogetherInv, TypeOK
<1>11. StatesOK'
  BY <1>4, <1>6, <1>7, NewStates DEF StatesOK, TogetherInv
<1>12. \A d \in Chains : \A n \in DOMAIN contracts[d] : Kept(d, n)
  BY <1>6, <1>7 DEF Kept
<1>13. \A d \in Chains : \A n \in DOMAIN contracts'[d] : n \in DOMAIN contracts[d] \/ (d = c /\ Made(c, n))
  BY <1>1, <1>2, <1>3, <1>6, <1>7 DEF Made
<1>. QED
  BY <1>1, <1>7, <1>10, <1>11, <1>12, <1>13 DEF Grows

\* What a mined batch does to its contract.
LEMMA GovernedIs ==
  ASSUME TogetherInv, NEW c \in Chains, NEW tx, GoodGovern(c, tx)
  PROVE  LET of == contracts[c][tx.n].state
         IN /\ tx.n \in DOMAIN contracts[c] /\ tx.regs \in Batches(c) /\ of \in States(c)
            /\ Governed(c, tx) = Govern(c, of, tx.regs)
            /\ Governed(c, tx).ok = Govern(c, InitialState, tx.regs).ok
            /\ Governed(c, tx).state \in States(c)
            /\ \A d \in Chains :
                 \/ Governed(c, tx).state.peers[d] = of.peers[d]
                 \/ d \in DOMAIN tx.regs /\ Governed(c, tx).state.peers[d] = tx.regs[d].peer
            /\ Governed(c, tx).ok =>
                 \A d \in DOMAIN tx.regs : Governed(c, tx).state.peers[d] = tx.regs[d].peer
<1>. DEFINE of == contracts[c][tx.n].state
<1>1. tx.n \in DOMAIN contracts[c] /\ tx.regs \in Batches(c)
  BY DEF GoodGovern, OneDeployment, IsProxy
<1>2. of \in States(c)
  BY <1>1, ContractIs DEF TogetherInv
<1>3. Governed(c, tx) = Govern(c, of, tx.regs)
  BY DEF Governed
<1>. HIDE DEF of
<1>4. DOMAIN tx.regs \subseteq Chains
  BY <1>1, BatchesAre DEF OtherChains
<1>. QED
  BY <1>1, <1>2, <1>3, <1>4, GovernAssumption DEF of

LEMMA MineGovernGrows ==
  ASSUME TogetherInv, NEW c \in Chains, pools[c] # <<>>, Head(pools[c]).kind = "govern",
         MineGovern(c, Head(pools[c]))
  PROVE  Grows(c)
<1>1. PICK tx : tx = Head(pools[c]) /\ GoodGovern(c, tx)
  BY HeadIs DEF TogetherInv, GoodPool
<1>2. PICK state \in States(c) : state = Governed(c, tx).state
  BY <1>1, GovernedIs
<1>3. tx.n \in DOMAIN contracts[c] /\ state \in AllStates
  BY <1>1, <1>2, GovernedIs, NewStates
<1>4. /\ contracts' = [contracts EXCEPT ![c][tx.n].state = state]
      /\ contracts[c][tx.n] \in Contracts
      /\ contracts[c] \in [DOMAIN contracts[c] -> Contracts] /\ DOMAIN contracts[c] \subseteq 1..MaxContracts
  BY <1>1, <1>2, <1>3, ContractParts DEF MineGovern, TogetherInv
<1>5. PICK new : new = [contracts[c][tx.n] EXCEPT !.state = state]
  OBVIOUS
<1>6. /\ new \in Contracts /\ new.state = state
      /\ new.kind = contracts[c][tx.n].kind /\ new.run = contracts[c][tx.n].run
  BY <1>3, <1>4, <1>5 DEF Contracts
<1>7. contracts' = [contracts EXCEPT ![c] = [contracts[c] EXCEPT ![tx.n] = new]]
  BY <1>4, <1>5
<1>8. /\ \A d \in Chains : d # c => contracts'[d] = contracts[d]
      /\ contracts'[c] = [contracts[c] EXCEPT ![tx.n] = new]
  BY <1>7 DEF TogetherInv, TypeOK
<1>9. /\ contracts'[c] \in [DOMAIN contracts[c] -> Contracts]
      /\ DOMAIN contracts'[c] = DOMAIN contracts[c]
      /\ \A n \in DOMAIN contracts[c] : contracts'[c][n] = IF n = tx.n THEN new ELSE contracts[c][n]
  <2>1. PICK f, D : f = contracts[c] /\ D = DOMAIN f /\ f \in [D -> Contracts] /\ tx.n \in D
    BY <1>3, <1>4
  <2>2. contracts'[c] = [f EXCEPT ![tx.n] = new]
    BY <1>8, <2>1
  <2>. QED
    BY <1>6, <2>1, <2>2
<1>10. contracts'[c] \in ContractMaps
  BY <1>4, <1>9, ContractMapIs
<1>11. contracts' \in [Chains -> ContractMaps]
  BY <1>7, <1>8, <1>10 DEF TogetherInv, TypeOK
<1>12. StatesOK'
  BY <1>2, <1>6, <1>8, <1>9 DEF StatesOK, TogetherInv
<1>13. \A d \in Chains : \A n \in DOMAIN contracts[d] : Kept(d, n)
  BY <1>6, <1>8, <1>9 DEF Kept
<1>14. \A d \in Chains : \A n \in DOMAIN contracts'[d] : n \in DOMAIN contracts[d]
  BY <1>8, <1>9
<1>. QED
  BY <1>11, <1>12, <1>13, <1>14 DEF Grows

LEMMA SameGrows ==
  ASSUME TogetherInv, NEW c \in Chains, contracts' = contracts, Head(pools[c]).kind # "create"
  PROVE  Grows(c)
  BY DEF Grows, Kept, TogetherInv, TypeOK, StatesOK

LEMMA MineGrows ==
  ASSUME TogetherInv, NEW c \in Chains, Mine(c)
  PROVE  /\ Grows(c) /\ pools[c] # <<>> /\ pools' = [pools EXCEPT ![c] = Tail(@)]
         /\ UNCHANGED <<files, sh, started>>
<1>1. pools[c] # <<>> /\ pools' = [pools EXCEPT ![c] = Tail(@)] /\ UNCHANGED <<files, sh, started>>
  BY DEF Mine
<1>2. PICK tx : tx = Head(pools[c])
  OBVIOUS
<1>3. \/ tx.kind = "create" /\ MineCreate(c, tx)
      \/ tx.kind = "govern" /\ MineGovern(c, tx)
      \/ tx.kind = "initiate" /\ contracts' = contracts
      \/ tx.kind = "approve" /\ contracts' = contracts
  BY <1>2 DEF Mine, MineInitiate
<1>. QED
  BY <1>1, <1>2, <1>3, MineCreateGrows, MineGovernGrows, SameGrows
LEMMA GrownProxies ==
  ASSUME NEW c \in Chains, Grows(c)
  PROVE  /\ \A d \in Chains : \A n, run : IsProxy(d, n, run) => IsProxy(d, n, run)'
         /\ \A out \in Deployments : \A run : DeployedBy(out, run) => DeployedBy(out, run)'
         /\ \A d \in Chains : \A tx : GoodGovern(d, tx) => GoodGovern(d, tx)'
<1>1. \A d \in Chains : \A n, run : IsProxy(d, n, run) => IsProxy(d, n, run)'
  BY DEF Grows, Kept, IsProxy
<1>2. \A out \in Deployments : \A run : DeployedBy(out, run) => DeployedBy(out, run)'
  BY <1>1, DeploymentParts DEF DeployedBy
<1>3. ASSUME NEW d \in Chains, NEW tx, GoodGovern(d, tx)
      PROVE  GoodGovern(d, tx)'
  <2>1. PICK run \in Nat :
          /\ IsProxy(d, tx.n, run)
          /\ \A e \in DOMAIN tx.regs :
               \E m \in 1..MaxContracts : IsProxy(e, m, run) /\ tx.regs[e].peer = AddressOf(e, m)
    BY <1>3 DEF GoodGovern, OneDeployment
  <2>2. DOMAIN tx.regs \subseteq Chains
    BY <1>3, BatchesAre DEF GoodGovern, OtherChains
  <2>3. \A e \in DOMAIN tx.regs :
          \E m \in 1..MaxContracts : IsProxy(e, m, run)' /\ tx.regs[e].peer = AddressOf(e, m)
    BY <1>1, <2>1, <2>2
  <2>4. OneDeployment(d, tx)'
    BY <1>1, <2>1, <2>3 DEF OneDeployment
  <2>. QED
    BY <1>3, <2>4 DEF GoodGovern
<1>. QED
  BY <1>1, <1>2, <1>3

\* The transactions that are left, and those mined.
LEMMA MinedTxs ==
  ASSUME TogetherInv, NEW c \in Chains, Mine(c), NEW d \in Chains
  PROVE  /\ pools'[d] \in Seq(Txs)
         /\ d # c => pools'[d] = pools[d]
         /\ \A k \in DOMAIN pools'[d] : \E j \in DOMAIN pools[d] :
              /\ pools[d][j] = pools'[d][k]
              /\ IF d = c THEN j = k + 1 /\ j # 1 ELSE j = k
         /\ \A j \in DOMAIN pools[d] :
              \/ d = c /\ j = 1
              \/ \E k \in DOMAIN pools'[d] :
                   pools'[d][k] = pools[d][j] /\ k = IF d = c THEN j - 1 ELSE j
<1>1. pools' = [pools EXCEPT ![c] = Tail(@)] /\ pools \in [Chains -> Seq(Txs)] /\ pools[c] # <<>>
  BY MineGrows DEF TogetherInv, TypeOK
<1>2. CASE d = c
  <2>1. pools'[c] = Tail(pools[c])
    BY <1>1
  <2>2. /\ pools'[d] \in Seq(Txs)
        /\ \A k \in DOMAIN pools'[d] :
             k + 1 \in DOMAIN pools[d] /\ pools'[d][k] = pools[d][k + 1] /\ k \in Nat \ {0}
        /\ \A j \in DOMAIN pools[d] :
             j # 1 => j - 1 \in DOMAIN pools'[d] /\ pools'[d][j - 1] = pools[d][j]
    BY <1>1, <1>2, <2>1, HeadIs
  <2>. QED
    BY <1>2, <2>2
<1>3. CASE d # c
  BY <1>1, <1>3
<1>. QED
  BY <1>2, <1>3

LEMMA MineKeepsNumbers ==
  ASSUME TogetherInv, NEW c \in Chains, Mine(c)
  PROVE  NumbersOK'
<1>1. Grows(c)
  BY MineGrows
<1>2. SUFFICES ASSUME NEW d \in Chains
               PROVE  IsProxy(d, 1, 0)' /\ Numbered(d)'
  BY DEF NumbersOK
<1>3. IsProxy(d, 1, 0)' /\ Numbered(d)
  BY <1>1, GrownProxies DEF TogetherInv, NumbersOK
<1>4. ASSUME NEW k \in DOMAIN pools'[d], pools'[d][k].kind = "create"
      PROVE  pools'[d][k].n \notin DOMAIN contracts'[d]
  <2>1. PICK j \in DOMAIN pools[d] : pools[d][j] = pools'[d][k] /\ (d = c => j # 1)
    BY MinedTxs
  <2>2. pools[d][j].n \notin DOMAIN contracts[d]
    BY <1>3, <1>4, <2>1 DEF Numbered
  <2>3. ~ (d = c /\ Made(c, pools[d][j].n))
    BY <1>3, <1>4, <2>1, MineGrows, HeadIs DEF Made, Numbered, Creates
  <2>. QED
    BY <1>1, <2>1, <2>2, <2>3 DEF Grows
<1>5. ASSUME NEW k \in DOMAIN pools'[d], pools'[d][k].kind = "create",
             NEW l \in DOMAIN pools'[d], Creates(d, l, pools[d][k].n)'
      PROVE  l = k
  <2>1. PICK i \in DOMAIN pools[d] :
          pools[d][i] = pools'[d][k] /\ (IF d = c THEN i = k + 1 ELSE i = k)
    BY MinedTxs
  <2>2. PICK j \in DOMAIN pools[d] :
          pools[d][j] = pools'[d][l] /\ (IF d = c THEN j = l + 1 ELSE j = l)
    BY MinedTxs
  <2>3. j = i
    BY <1>3, <1>5, <2>1, <2>2 DEF Numbered, Creates
  <2>4. k \in Nat /\ l \in Nat
    BY MinedTxs
  <2>. QED
    BY <2>1, <2>2, <2>3, <2>4
<1>. QED
  BY <1>3, <1>4, <1>5 DEF Numbered

LEMMA MineKeepsCreation ==
  ASSUME TogetherInv, NEW c \in Chains, Mine(c), NEW d \in Chains, NEW n, NEW run, Creation(d, n, run)
  PROVE  Creation(d, n, run)'
<1>1. Grows(c) /\ pools[c] # <<>>
  BY MineGrows
<1>2. n \in Taken(d)'
  <2>1. CASE n \in DOMAIN contracts[d]
    BY <1>1, <2>1 DEF Grows, Kept, Taken
  <2>2. ASSUME NEW j \in DOMAIN pools[d], Creates(d, j, n)
        PROVE  n \in Taken(d)'
    <3>1. CASE d = c /\ j = 1
      BY <1>1, <2>2, <3>1, HeadIs DEF Grows, Creates, Taken
    <3>2. CASE ~ (d = c /\ j = 1)
      <4>1. PICK k \in DOMAIN pools'[d] : pools'[d][k] = pools[d][j]
        BY <3>2, MinedTxs
      <4>. QED
        BY <2>2, <4>1 DEF Creates, Taken, Range
    <3>. QED
      BY <3>1, <3>2
  <2>. QED
    BY <2>1, <2>2, TakenIs DEF Creation
<1>3. ASSUME NEW k \in DOMAIN pools'[d], Creates(d, k, n)'
      PROVE  pools'[d][k].of = Contract("proxy", run)
  BY <1>3, MinedTxs DEF Creation, Creates
<1>4. ASSUME n \in DOMAIN contracts'[d]
      PROVE  contracts'[d][n].kind = "failed" \/ IsProxy(d, n, run)'
  <2>1. CASE n \in DOMAIN contracts[d]
    BY <1>1, <2>1, GrownProxies DEF Grows, Kept, Creation
  <2>2. CASE n \notin DOMAIN contracts[d]
    <3>1. d = c /\ Made(c, n)
      BY <1>1, <1>4, <2>2 DEF Grows
    <3>2. Head(pools[c]).of = Contract("proxy", run)
      BY <1>1, <3>1, HeadIs DEF Made, Creation, Creates
    <3>3. contracts'[d][n] \in {Contract("proxy", run), Contract("failed", 0)}
      BY <3>1, <3>2 DEF Made
    <3>. QED
      BY <1>4, <3>3 DEF Contract, IsProxy
  <2>. QED
    BY <2>1, <2>2
<1>. QED
  BY <1>2, <1>3, <1>4 DEF Creation

\* What mining does to the contracts that were there.
LEMMA MinedStates ==
  ASSUME TogetherInv, NEW c \in Chains, Mine(c), NEW d \in Chains, NEW n \in DOMAIN contracts[d]
  PROVE  LET tx == Head(pools[c])
         IN IF d = c /\ tx.kind = "govern" /\ n = tx.n
            THEN GoodGovern(c, tx) /\ contracts'[d][n].state = Governed(c, tx).state
            ELSE contracts'[d][n].state = contracts[d][n].state
<1>1. pools[c] # <<>>
  BY MineGrows
<1>2. PICK tx : tx = Head(pools[c])
  OBVIOUS
<1>3. CASE contracts' = contracts /\ tx.kind # "govern"
  BY <1>2, <1>3
<1>4. CASE tx.kind = "create" /\ MineCreate(c, tx)
  <2>1. tx.n \notin DOMAIN contracts[c]
    BY <1>1, <1>2, <1>4, HeadIs DEF TogetherInv, NumbersOK, Numbered
  <2>2. PICK new : contracts' = [contracts EXCEPT ![c] = With(@, tx.n, new)]
    BY <1>4 DEF MineCreate
  <2>3. contracts'[d] = IF d = c THEN With(contracts[c], tx.n, new) ELSE contracts[d]
    BY <2>2 DEF TogetherInv, TypeOK
  <2>4. contracts'[d][n] = contracts[d][n]
    BY <2>1, <2>3 DEF With
  <2>. QED
    BY <1>2, <1>4, <2>4
<1>5. CASE tx.kind = "govern" /\ MineGovern(c, tx)
  <2>1. GoodGovern(c, tx) /\ contracts' = [contracts EXCEPT ![c][tx.n].state = Governed(c, tx).state]
    BY <1>1, <1>2, <1>5, HeadIs DEF TogetherInv, GoodPool, MineGovern
  <2>2. contracts[d] \in [DOMAIN contracts[d] -> Contracts]
    BY ContractParts DEF TogetherInv
  <2>3. CASE ~ (d = c /\ n = tx.n)
    <3>1. contracts'[d][n] = contracts[d][n]
      BY <2>1, <2>2, <2>3 DEF TogetherInv, TypeOK
    <3>. QED
      BY <1>2, <2>3, <3>1
  <2>4. CASE d = c /\ n = tx.n
    <3>1. contracts[d][n] \in Contracts
      BY <2>2
    <3>2. contracts'[d][n] = [contracts[d][n] EXCEPT !.state = Governed(c, tx).state]
      BY <2>1, <2>2, <2>4 DEF TogetherInv, TypeOK
    <3>3. contracts'[d][n].state = Governed(c, tx).state
      BY <3>1, <3>2 DEF Contracts
    <3>. QED
      BY <1>2, <1>5, <2>1, <2>4, <3>3
  <2>. QED
    BY <2>3, <2>4
<1>. QED
  BY <1>2, <1>3, <1>4, <1>5 DEF Mine, MineInitiate

\* What a contract has for a peer after a transaction was mined.
LEMMA PeersAfter ==
  ASSUME TogetherInv, NEW c \in Chains, Mine(c), NEW d \in Chains, NEW n \in DOMAIN contracts'[d],
         NEW e \in Chains
  PROVE  LET peer == contracts'[d][n].state.peers[e]
         IN \/ peer = NoPeer
            \/ n \in DOMAIN contracts[d] /\ peer = contracts[d][n].state.peers[e]
            \/ /\ GoodGovern(d, Head(pools[d])) /\ n = Head(pools[d]).n
               /\ e \in DOMAIN Head(pools[d]).regs /\ peer = Head(pools[d]).regs[e].peer
<1>1. CASE n \in DOMAIN contracts[d]
  <2>1. PICK tx : tx = Head(pools[c])
    OBVIOUS
  <2>2. CASE contracts'[d][n].state = contracts[d][n].state
    BY <1>1, <2>2
  <2>3. CASE d = c /\ n = tx.n /\ GoodGovern(c, tx) /\ contracts'[d][n].state = Governed(c, tx).state
    BY <1>1, <2>1, <2>3, GovernedIs
  <2>. QED
    BY <1>1, <2>1, <2>2, <2>3, MinedStates
<1>2. CASE n \notin DOMAIN contracts[d]
  <2>1. /\ d = c /\ contracts'[d][n] \in {Head(pools[c]).of, Contract("failed", 0)}
        /\ Head(pools[c]).kind = "create" /\ pools[c] # <<>>
    BY <1>2, MineGrows DEF Grows, Made
  <2>2. Head(pools[c]) \in CreateTxs
    BY <2>1, HeadIs, TxKinds
  <2>3. contracts'[d][n].state = InitialState
    BY <2>1, <2>2 DEF CreateTxs, Creations, Contract
  <2>. QED
    BY <2>3 DEF InitialState, NoPeers
<1>. QED
  BY <1>1, <1>2

LEMMA MineKeepsShells ==
  ASSUME TogetherInv, NEW c \in Chains, Mine(c), NEW s \in Shells
  PROVE  GoodShell(sh[s])'
<1>1. Grows(c) /\ sh' = sh
  BY MineGrows
<1>2. PICK p \in Processes : p = sh[s] /\ GoodShell(p)
  BY ShellParts DEF TogetherInv
<1>3. p.out \in Deployments
  BY DEF Processes
<1>4. p.i \in DOMAIN p.list => p.list[p.i] \in Chains
  BY DEF Processes
<1>5. DeployedBy(p.out, p.run)'
  BY <1>1, <1>2, <1>3, GrownProxies DEF GoodShell
<1>6. p.pc = "proxy" => Creation(p.list[p.i], p.at, p.run)'
  BY <1>2, <1>4, MineKeepsCreation DEF GoodShell
<1>7. p.pc = "send" => GoodGovern(p.list[p.i], p.tx)'
  BY <1>1, <1>2, <1>4, GrownProxies DEF GoodShell
<1>8. GoodShell(p)'
  BY <1>2, <1>5, <1>6, <1>7 DEF GoodShell
<1>. QED
  BY <1>1, <1>2, <1>8

LEMMA MineKeepsPeers ==
  ASSUME TogetherInv, NEW c \in Chains, Mine(c)
  PROVE  PeersTogether'
<1>1. Grows(c) /\ pools[c] # <<>>
  BY MineGrows
<1>2. SUFFICES ASSUME NEW d \in Chains, NEW e \in Chains, NEW n \in DOMAIN contracts'[d],
                      contracts'[d][n].state.peers[e] # NoPeer
               PROVE  \E m \in DOMAIN contracts'[e] :
                        /\ AddressOf(e, m) = contracts'[d][n].state.peers[e]
                        /\ IsProxy(e, m, contracts[d][n].run)'
  BY DEF PeersTogether, Range
<1>3. CASE n \in DOMAIN contracts[d] /\ contracts'[d][n].state.peers[e] = contracts[d][n].state.peers[e]
  <2>1. PICK m \in DOMAIN contracts[e] :
          /\ AddressOf(e, m) = contracts[d][n].state.peers[e]
          /\ IsProxy(e, m, contracts[d][n].run)
    BY <1>2, <1>3 DEF TogetherInv, PeersTogether, Range
  <2>2. contracts'[d][n].run = contracts[d][n].run
    BY <1>1, <1>3 DEF Grows, Kept
  <2>3. IsProxy(e, m, contracts[d][n].run)'
    BY <1>1, <2>1, <2>2, GrownProxies DEF IsProxy
  <2>. QED
    BY <1>3, <2>1, <2>3 DEF IsProxy
<1>4. ASSUME NEW tx, GoodGovern(d, tx), n = tx.n, e \in DOMAIN tx.regs,
             contracts'[d][n].state.peers[e] = tx.regs[e].peer
      PROVE  \E m \in DOMAIN contracts'[e] :
               /\ AddressOf(e, m) = contracts'[d][n].state.peers[e]
               /\ IsProxy(e, m, contracts[d][n].run)'
  <2>1. PICK run \in Nat :
          /\ IsProxy(d, tx.n, run)
          /\ \A x \in DOMAIN tx.regs :
               \E m \in 1..MaxContracts : IsProxy(x, m, run) /\ tx.regs[x].peer = AddressOf(x, m)
    BY <1>4 DEF GoodGovern, OneDeployment
  <2>2. PICK m : IsProxy(e, m, run) /\ tx.regs[e].peer = AddressOf(e, m)
    BY <1>4, <2>1
  <2>3. IsProxy(d, n, run)' /\ IsProxy(e, m, run)'
    BY <1>1, <1>4, <2>1, <2>2, GrownProxies
  <2>. QED
    BY <1>4, <2>2, <2>3 DEF IsProxy
<1>5. PICK tx : tx = Head(pools[d])
  OBVIOUS
<1>. QED
  BY <1>2, <1>3, <1>4, <1>5, PeersAfter

LEMMA MineKeeps ==
  ASSUME TogetherInv, NEW c \in Chains, Mine(c)
  PROVE  TogetherInv'
<1>1. Grows(c) /\ pools' = [pools EXCEPT ![c] = Tail(@)] /\ UNCHANGED <<files, sh, started>>
  BY MineGrows
<1>2. TypeOK'
  <2>1. pools' \in [Chains -> Seq(Txs)]
    BY <1>1, MinedTxs DEF TogetherInv, TypeOK
  <2>. QED
    BY <1>1, <2>1 DEF Grows, TogetherInv, TypeOK
<1>3. StatesOK' /\ NumbersOK'
  BY <1>1, MineKeepsNumbers DEF Grows
<1>4. \E run \in Nat : DeployedBy(files.lastrun, run)'
  <2>1. PICK run \in Nat : DeployedBy(files.lastrun, run)
    BY DEF TogetherInv
  <2>2. PICK out \in Deployments : out = files.lastrun
    BY DEF TogetherInv, TypeOK, Files
  <2>3. DeployedBy(out, run)'
    BY <1>1, <2>1, <2>2, GrownProxies
  <2>. QED
    BY <1>1, <2>2, <2>3 DEF DeployedBy, IsProxy
<1>5. \A d \in Chains : GoodPool(d)'
  <2>1. SUFFICES ASSUME NEW d \in Chains, NEW k \in DOMAIN pools'[d], pools'[d][k].kind = "govern"
                 PROVE  GoodGovern(d, pools[d][k])'
    BY DEF GoodPool
  <2>2. PICK j \in DOMAIN pools[d] : pools[d][j] = pools'[d][k]
    BY MinedTxs
  <2>3. PICK tx : tx = pools'[d][k] /\ GoodGovern(d, tx)
    BY <2>1, <2>2 DEF TogetherInv, GoodPool
  <2>4. GoodGovern(d, tx)'
    BY <1>1, <2>3, GrownProxies
  <2>. QED
    BY <2>3, <2>4
<1>. QED
  BY <1>2, <1>3, <1>4, <1>5, MineKeepsShells, MineKeepsPeers DEF TogetherInv

LEMMA TogetherInit ==
  ASSUME ScriptsInit
  PROVE  TogetherInv
<1>. USE DEF ScriptsInit
<1>1. PICK config \in Configs :
        files = [useLastRun |-> config.useLastRun, lastrun |-> NoFile,
                 shouldUpdatePeers |-> config.shouldUpdatePeers, fees |-> config.fees]
  OBVIOUS
<1>2. files \in Files /\ files.lastrun = NoFile
  BY <1>1, ConfigsAssumption, IdleIs DEF Files
<1>3. \A c \in Chains : DOMAIN contracts[c] = {1} /\ contracts[c][1] = Contract("proxy", 0)
  OBVIOUS
<1>4. Contract("proxy", 0) \in [kind : Kinds, run : Nat, state : {InitialState}]
  BY DEF Contract, Kinds
<1>5. \A c \in Chains : contracts[c] \in ContractMaps
  <2>1. SUFFICES ASSUME NEW c \in Chains PROVE contracts[c] \in ContractMaps
    OBVIOUS
  <2>2. Contract("proxy", 0) \in Contracts
    BY <1>4, NewStates DEF Contracts
  <2>3. {1} \in SUBSET (1..MaxContracts) /\ contracts[c] \in [{1} -> Contracts]
    BY <2>2, BoundsAssumption
  <2>. QED
    BY <2>3, ContractMapIs
<1>6. TypeOK
  <2>1. contracts \in [Chains -> ContractMaps] /\ pools \in [Chains -> Seq(Txs)]
    BY <1>5
  <2>2. sh \in [Shells -> Processes] /\ IsFiniteSet(started)
    BY IdleIs, FS_EmptySet
  <2>. QED
    BY <1>2, <2>1, <2>2 DEF TypeOK
<1>7. StatesOK
  BY <1>3, NewStates DEF StatesOK, Contract
<1>8. \A c \in Chains : pools[c] = <<>>
  OBVIOUS
<1>9. NumbersOK
  BY <1>3, <1>8 DEF NumbersOK, IsProxy, Numbered, Contract
<1>10. DeployedBy(files.lastrun, 0)
  BY <1>2, IdleIs DEF DeployedBy
<1>11. \A s \in Shells : GoodShell(sh[s])
  BY IdleIs DEF GoodShell, DeployedBy
<1>12. \A c \in Chains : GoodPool(c)
  BY <1>8 DEF GoodPool
<1>13. PeersTogether
  BY <1>3 DEF PeersTogether, Range, Contract, InitialState, NoPeers
<1>. QED
  BY <1>6, <1>7, <1>9, <1>10, <1>11, <1>12, <1>13 DEF TogetherInv

\* Every step of a script is a ScriptStep.
LEMMA ScriptsStep ==
  ASSUME TogetherInv, ScriptsNext, \A c \in Chains : ~Mine(c)
  PROVE  ScriptStep
<1>1. PICK s \in Shells :
        \/ \E command \in Commands, list \in Lists : StartShell(s, command, list)
        \/ CheckNetworks(s)
        \/ deployImplementation(s) \/ ImplementationDeployed(s) \/ ProxyDeployed(s)
        \/ UpgradeProxy(s)
        \/ writeOutputFiles(s)
        \/ Configure(s) \/ SendBatch(s) \/ UpdateFees(s)
        \/ Approve(s) \/ Initiate(s)
  BY DEF ScriptsNext
<1>. QED
  BY <1>1, StartShellSteps, CheckNetworksSteps, deployImplementationSteps,
     ImplementationDeployedSteps, ProxyDeployedSteps, UpgradeProxySteps,
     writeOutputFilesSteps, ConfigureSteps, SendBatchSteps, UpdateFeesSteps,
     ApproveSteps, InitiateSteps

LEMMA NothingKeeps ==
  ASSUME TogetherInv, UNCHANGED scriptVars
  PROVE  TogetherInv'
<1>1. /\ contracts' = contracts /\ pools' = pools /\ files' = files /\ sh' = sh
      /\ started' = started /\ Posts
  BY DEF scriptVars, Posts
<1>2. TypeOK' /\ StatesOK' /\ NumbersOK'
  BY <1>1, PostsKeepNumbers DEF TogetherInv, TypeOK, StatesOK
<1>3. \E run \in Nat : DeployedBy(files.lastrun, run)'
  BY <1>1, FilesStay
<1>4. \A s \in Shells : GoodShell(sh[s])'
  <2>1. SUFFICES ASSUME NEW s \in Shells PROVE GoodShell(sh[s])'
    OBVIOUS
  <2>2. PICK p \in Processes : p = sh[s] /\ GoodShell(p)
    BY ShellParts DEF TogetherInv
  <2>3. GoodShell(p)'
    BY <1>1, <2>2, PostsKeepShell DEF TogetherInv
  <2>. QED
    BY <1>1, <2>2, <2>3
<1>5. \A c \in Chains : GoodPool(c)'
  BY <1>1, PostsKeepPools DEF TogetherInv
<1>6. PeersTogether'
  BY <1>1, SameContracts DEF TogetherInv, PeersTogether, Range
<1>. QED
  BY <1>2, <1>3, <1>4, <1>5, <1>6 DEF TogetherInv

\* The invariant, from which the theorems follow.
LEMMA TogetherAlways == ScriptsSpec => []TogetherInv
<1>1. TogetherInv /\ [ScriptsNext]_scriptVars => TogetherInv'
  BY MineKeeps, ScriptsStep, ScriptStepKeeps, NothingKeeps
<1>. QED
  BY <1>1, TogetherInit, PTL DEF ScriptsSpec

\* Whatever scripts run and wherever they end, the chains' contracts, the
\* wallet's transactions, the files and the processes keep their types; in
\* particular a transaction never lacks what its kind needs, and a contract's
\* state is one that batches can bring about (env.ts, deployments.ts).
THEOREM ScriptsTypeCorrect == ScriptsSpec => []TypeOK
<1>1. TogetherInv => TypeOK
  BY DEF TogetherInv
<1>. QED
  BY <1>1, TogetherAlways, PTL

\* However many shells deploy and configure at once, on whatever chains, and
\* wherever they end early, no contract of one deployment ever has the contract
\* of another as a peer (configureSwapLayer.ts).
THEOREM DeploymentsApart == ScriptsSpec => []PeersTogether
<1>1. TogetherInv => PeersTogether
  BY DEF TogetherInv
<1>. QED
  BY <1>1, TogetherAlways, PTL
-----------------------------------------------------------------------------
(* The invariant behind ConfiguredWhenDone.  A run of a shell has a number   *)
(* of its own; whoever reads or sends to the contracts of a run that is not  *)
(* over knows those its shell has noted, all of them; batches in the pools   *)
(* will be accepted.                                                         *)
Number == Cardinality(started)
Settled(p) == \A j \in DOMAIN p.list : p.list[j] \in DOMAIN p.out

RunsOK ==
  /\ \A c \in Chains :
       /\ \A n \in DOMAIN contracts[c] : contracts[c][n].run <= Number
       /\ \A k \in DOMAIN pools[c] : pools[c][k].kind = "create" => pools[c][k].of.run <= Number
  /\ \A s \in Shells :
       /\ sh[s].run <= Number
       /\ sh[s].pc # "idle" => sh[s].run # 0
       /\ \A t \in Shells : sh[s].run = sh[t].run /\ sh[s].run # 0 => s = t

FileOf(p) ==
  \A d \in DOMAIN files.lastrun :
    contracts[d][files.lastrun[d]].run = p.run => files.lastrun = p.out /\ Settled(p)
GovernsFor(c, tx, p) ==
  /\ c \in DOMAIN p.out /\ tx.n = p.out[c]
  /\ \A d \in DOMAIN tx.regs : d \in DOMAIN p.out /\ tx.regs[d].peer = AddressOf(d, p.out[d])
GovernOf(c, tx, p) == contracts[c][tx.n].run = p.run => Settled(p) /\ GovernsFor(c, tx, p)
Recorded(p) ==
  /\ FileOf(p)
  /\ \A c \in Chains : \A k \in DOMAIN pools[c] :
       pools[c][k].kind = "govern" => GovernOf(c, pools[c][k], p)
  /\ \A t \in Shells : sh[t].pc = "send" => GovernOf(sh[t].list[sh[t].i], sh[t].tx, p)
RecordedOK == \A s \in Shells : sh[s].run # 0 => Recorded(sh[s])

Runs(p, script) == p.todo # <<>> /\ Head(p.todo) = script
DeployedSoFar(p) ==
  p.pc # "idle" =>
    /\ p.i <= Len(p.list) + 1 /\ p.exit = "none"
    /\ \A d \in DOMAIN p.out : \E j \in DOMAIN p.list : p.list[j] = d
    /\ Runs(p, "deploySwapLayer") =>
         \A j \in DOMAIN p.list : j < p.i => p.list[j] \in DOMAIN p.out
    /\ Runs(p, "configureSwapLayer") /\ p.read = "none" => p.i = 1 /\ p.pc = "start"

Accepted(c, tx) == Govern(c, InitialState, tx.regs).ok
AcceptedOK ==
  \A c \in Chains : \A k \in DOMAIN pools[c] : pools[c][k].kind = "govern" => Accepted(c, pools[c][k])

Configures(c, tx, out) ==
  /\ tx.kind = "govern" /\ tx.n = out[c] /\ DOMAIN tx.regs = OtherChains(c)
  /\ \A d \in OtherChains(c) : tx.regs[d].peer = AddressOf(d, out[d])
HasPeers(c, out) ==
  \A d \in OtherChains(c) : contracts[c][out[c]].state.peers[d] = AddressOf(d, out[d])
Configured(c, out) ==
  HasPeers(c, out) \/ \E k \in DOMAIN pools[c] : Configures(c, pools[c][k], out)
ConfiguredSoFar(p) ==
  p.read = "own" =>
    /\ p.run # 0 /\ DOMAIN p.out = Chains
    /\ p.pc = "send" => Configures(p.list[p.i], p.tx, p.out)
    /\ \A j \in DOMAIN p.list :
         ~Runs(p, "configureSwapLayer") \/ j < p.i => Configured(p.list[j], p.out)
    /\ p.exit = "ok" => \A c \in Chains : Configured(c, p.out)

\* A test order comes after a batch that gives its contract the peer.
HasPeer(n) == contracts[FromChain][n].state.peers[ToChain] # NoPeer
GivesPeer(tx, n) == tx.kind = "govern" /\ tx.n = n /\ ToChain \in DOMAIN tx.regs
Follows(tx, k) ==
  \/ HasPeer(tx.n)
  \/ \E j \in DOMAIN pools[FromChain] : j < k /\ GivesPeer(pools[FromChain][j], tx.n)
TestOK(tx, k) ==
  /\ tx.n \in DOMAIN contracts[FromChain]
  /\ tx.own /\ contracts[FromChain][tx.n].run = tx.run => Follows(tx, k)
TestsOK ==
  /\ FALSE \notin tests
  /\ \A c \in Chains : \A k \in DOMAIN pools[c] :
       pools[c][k].kind = "initiate" => c = FromChain /\ TestOK(pools[c][k], k)
  /\ \A s \in Shells : sh[s].pc = "approving" => TestOK(sh[s].tx, Len(pools[FromChain]) + 1)

NetworksInv ==
  /\ TogetherInv
  /\ RunsOK /\ RecordedOK /\ AcceptedOK /\ TestsOK
  /\ \A s \in Shells : DeployedSoFar(sh[s]) /\ ConfiguredSoFar(sh[s])

-----------------------------------------------------------------------------
(* The steps of scripts, once more: what they post is fit to be sent, and   *)
(* the process that moves goes on with its run or starts a new one.         *)
Sendable(c, tx) ==
  /\ Postable(c, tx)
  /\ tx.kind = "create" => tx.of.run <= Number
  /\ tx.kind = "govern" =>
       Accepted(c, tx) /\ \A t \in Shells : sh[t].run # 0 => GovernOf(c, tx, sh[t])
  /\ tx.kind = "initiate" => c = FromChain /\ TestOK(tx, Len(pools[c]) + 1)
NetPosts == pools' = pools \/ \E c \in Chains, tx \in Txs : Sendable(c, tx) /\ pools' = Sent(c, tx)
Continues(p, q) ==
  \/ q.run = 0
  \/ q.run = p.run /\ (Settled(p) => Settled(q) /\ q.out = p.out)
  \/ q.run = Number + 1 /\ Number' = Number + 1
NetMove(s, q) ==
  /\ Becomes(s, q) /\ Number' \in {Number, Number + 1}
  /\ Continues(sh[s], q) /\ (q.pc # "idle" => q.run # 0)
  /\ DeployedSoFar(q) /\ ConfiguredSoFar(q)'
  /\ q.pc = "send" => \A t \in Shells : sh[t].run # 0 => GovernOf(q.list[q.i], q.tx, sh[t])
  /\ q.pc = "approving" => TestOK(q.tx, Len(pools[FromChain]) + 1)
NetFiles(s) ==
  \/ files'.lastrun = files.lastrun
  \/ files'.lastrun = sh[s].out /\ Settled(sh[s]) /\ sh[s].run # 0
NetStep ==
  /\ contracts' = contracts /\ NetPosts /\ tests' = tests
  /\ \E s \in Shells : NetFiles(s) /\ \E q \in Processes : NetMove(s, q)

LEMMA NumberIs ==
  ASSUME TogetherInv
  PROVE  Number \in Nat
  BY FS_CardinalityType DEF TogetherInv, TypeOK, Number

LEMMA NetPostsAre ==
  ASSUME TogetherInv, NetPosts, NEW c \in Chains
  PROVE  /\ Posts
         /\ \A k \in DOMAIN pools[c] : k \in DOMAIN pools'[c] /\ pools'[c][k] = pools[c][k]
         /\ \A k \in DOMAIN pools'[c] :
              \/ k \in DOMAIN pools[c]
              \/ k = Len(pools[c]) + 1 /\ Sendable(c, pools'[c][k])
         /\ Len(pools'[c]) \in Nat /\ Len(pools[c]) \in Nat /\ Len(pools[c]) <= Len(pools'[c])
         /\ \A k \in DOMAIN pools[c] : k \in Nat /\ k < Len(pools[c]) + 1
<1>. DEFINE Goal == 
         /\ Posts
         /\ \A k \in DOMAIN pools[c] : k \in DOMAIN pools'[c] /\ pools'[c][k] = pools[c][k]
         /\ \A k \in DOMAIN pools'[c] :
              \/ k \in DOMAIN pools[c]
              \/ k = Len(pools[c]) + 1 /\ Sendable(c, pools'[c][k])
         /\ Len(pools'[c]) \in Nat /\ Len(pools[c]) \in Nat /\ Len(pools[c]) <= Len(pools'[c])
<1>1. pools \in [Chains -> Seq(Txs)] /\ pools[c] \in Seq(Txs) /\ TypeOK
  BY DEF TogetherInv, TypeOK
<1>2. CASE pools' = pools
  BY <1>1, <1>2 DEF Posts
<1>3. ASSUME NEW d \in Chains, NEW tx \in Txs, Sendable(d, tx), pools' = Sent(d, tx)
      PROVE  Goal
  <2>1. Posts
    BY <1>3 DEF Posts, Sendable
  <2>2. CASE d = c
    <3>1. pools'[c] = Append(pools[c], tx)
      BY <1>1, <1>3, <2>2 DEF Sent
    <3>2. /\ Len(pools[c]) \in Nat /\ DOMAIN pools[c] = 1..Len(pools[c])
          /\ DOMAIN pools'[c] = 1..(Len(pools[c]) + 1) /\ Len(pools'[c]) = Len(pools[c]) + 1
      BY <1>1, <3>1, AppendIs
    <3>3. \A k \in DOMAIN pools'[c] :
              \/ k \in DOMAIN pools[c]
              \/ k = Len(pools[c]) + 1
      BY <3>2
    <3>4. pools'[c][Len(pools[c]) + 1] = tx
      BY <1>1, <3>1, AppendIs
    <3>. QED
      BY <1>1, <1>3, <2>1, <2>2, <3>1, <3>2, <3>3, <3>4, AppendIs
  <2>3. CASE d # c
    <3>1. pools'[c] = pools[c]
      BY <1>1, <1>3, <2>3 DEF Sent
    <3>. QED
      BY <1>1, <2>1, <3>1
  <2>. QED
    BY <2>2, <2>3
<1>4. Goal
  BY <1>1, <1>2, <1>3 DEF NetPosts
<1>5. \A k \in DOMAIN pools[c] : k \in Nat /\ k < Len(pools[c]) + 1
  BY <1>1
<1>. QED
  BY <1>4, <1>5

LEMMA ContractRuns ==
  ASSUME TogetherInv, NEW c \in Chains, NEW n \in DOMAIN contracts[c]
  PROVE  contracts[c][n].run \in Nat
  BY ContractIs DEF TogetherInv, Contracts

\* Where shells are after a step.
LEMMA MovedShells ==
  ASSUME TogetherInv, NEW s \in Shells, NEW q \in Processes, Becomes(s, q), NEW t \in Shells
  PROVE  sh[t] \in Processes /\ sh'[t] = IF t = s THEN q ELSE sh[t]
  BY DEF TogetherInv, TypeOK, Becomes

LEMMA ListedChain ==
  ASSUME NEW p \in Processes, NEW i \in DOMAIN p.list
  PROVE  p.list[i] \in Chains /\ i \in Nat /\ i <= Len(p.list) /\ i # 0
  BY DEF Processes

LEMMA NetStepRuns ==
  ASSUME NetworksInv, NetStep
  PROVE  RunsOK'
<1>1. PICK s \in Shells, q \in Processes : NetMove(s, q)
  BY DEF NetStep
<1>2. TogetherInv /\ RunsOK /\ contracts' = contracts /\ NetPosts
  BY DEF NetworksInv, NetStep
<1>3. Number \in Nat /\ Number' \in {Number, Number + 1} /\ Becomes(s, q) /\ Continues(sh[s], q)
  BY <1>1, <1>2, NumberIs DEF NetMove
<1>4. ASSUME NEW c \in Chains
      PROVE  /\ \A n \in DOMAIN contracts'[c] : contracts'[c][n].run <= Number'
             /\ \A k \in DOMAIN pools'[c] : pools'[c][k].kind = "create" => pools'[c][k].of.run <= Number'
  <2>1. \A n \in DOMAIN contracts[c] : contracts[c][n].run <= Number'
    BY <1>2, <1>3, ContractRuns DEF RunsOK
  <2>2. ASSUME NEW k \in DOMAIN pools'[c], pools'[c][k].kind = "create"
        PROVE  pools'[c][k].of.run <= Number'
    <3>1. PICK tx : tx = pools'[c][k]
      OBVIOUS
    <3>2. tx \in Txs
      BY <1>2, <3>1, NetPostsAre, PoolAfter DEF TogetherInv
    <3>3. tx.of.run \in Nat
      BY <2>2, <3>1, <3>2, TxKinds DEF CreateTxs, Creations
    <3>4. tx.of.run <= Number
      BY <1>2, <2>2, <3>1, NetPostsAre DEF RunsOK, Sendable
    <3>. QED
      BY <1>3, <3>1, <3>3, <3>4
  <2>. QED
    BY <1>2, <2>1, <2>2
<1>5. ASSUME NEW t \in Shells
      PROVE  /\ sh'[t].run \in Nat /\ sh'[t].run <= Number'
             /\ sh'[t].run \in {0, sh[t].run} \/ (t = s /\ sh'[t].run = Number + 1)
             /\ sh'[t].pc # "idle" => sh'[t].run # 0
  <2>1. sh[t].run \in Nat /\ q.run \in Nat /\ sh[t].run <= Number
    BY <1>2, <1>3, MovedShells DEF Processes, RunsOK
  <2>2. CASE t = s
    BY <1>1, <1>2, <1>3, <2>1, <2>2, MovedShells DEF NetMove, Continues
  <2>3. CASE t # s
    BY <1>2, <1>3, <2>1, <2>3, MovedShells DEF RunsOK
  <2>. QED
    BY <2>2, <2>3
<1>6. ASSUME NEW t \in Shells, NEW u \in Shells, sh'[t].run = sh'[u].run, sh'[t].run # 0
      PROVE  t = u
  <2>1. \A v \in Shells : sh[v].run \in Nat /\ sh[v].run <= Number
    BY <1>2, <1>3, MovedShells DEF Processes, RunsOK
  <2>. QED
    BY <1>2, <1>3, <1>5, <1>6, <2>1 DEF RunsOK
<1>. QED
  BY <1>4, <1>5, <1>6 DEF RunsOK
\* A shell's claim on the batches of its run goes on with it.
LEMMA GovernOfKept ==
  ASSUME NetworksInv, contracts' = contracts, NEW p \in Processes, NEW q \in Processes,
         Continues(p, q), q.run # 0, NEW c \in Chains, NEW tx, tx.n \in DOMAIN contracts[c],
         p.run # 0 => GovernOf(c, tx, p)
  PROVE  GovernOf(c, tx, q)'
<1>1. contracts[c][tx.n].run \in Nat /\ contracts[c][tx.n].run <= Number /\ Number \in Nat
  BY ContractRuns, NumberIs DEF NetworksInv, RunsOK
<1>2. GovernOf(c, tx, q)
  BY <1>1 DEF Continues, GovernOf, GovernsFor
<1>. QED
  BY <1>2 DEF GovernOf, GovernsFor

LEMMA FileOfKept ==
  ASSUME NetworksInv, NetStep, NEW s \in Shells, NEW q \in Processes, NetFiles(s), NetMove(s, q),
         NEW t \in Shells, NEW p \in Processes, NEW r \in Processes, p = sh[t], r = sh'[t], r.run # 0
  PROVE  FileOf(r)'
<1>1. /\ TogetherInv /\ RunsOK /\ contracts' = contracts
      /\ p.run # 0 => FileOf(p)
  BY DEF NetworksInv, NetStep, RecordedOK, Recorded
<1>2. Continues(p, r)
  BY <1>1, MovedShells DEF NetMove, Continues
<1>3. SUFFICES ASSUME NEW d \in DOMAIN files'.lastrun, contracts[d][files'.lastrun[d]].run = r.run
               PROVE  files'.lastrun = r.out /\ Settled(r)
  BY <1>1 DEF FileOf, Settled
<1>4. CASE files'.lastrun = files.lastrun
  <2>1. PICK run \in Nat : DeployedBy(files.lastrun, run)
    BY <1>1 DEF TogetherInv
  <2>2. d \in Chains
    BY <1>1, <1>3, <1>4, DeploymentParts DEF TogetherInv, TypeOK, Files
  <2>3. files.lastrun[d] \in DOMAIN contracts[d]
    BY <1>3, <1>4, <2>1 DEF DeployedBy, IsProxy
  <2>4. r.run <= Number /\ Number \in Nat /\ r.run \in Nat
    BY <1>1, <1>3, <1>4, <2>2, <2>3, NumberIs, ContractRuns DEF RunsOK
  <2>5. r.run = p.run /\ (Settled(p) => Settled(r) /\ r.out = p.out)
    BY <1>2, <2>4 DEF Continues
  <2>. QED
    BY <1>1, <1>3, <1>4, <2>5 DEF FileOf
<1>5. CASE files'.lastrun = sh[s].out /\ Settled(sh[s]) /\ sh[s].run # 0
  <2>1. PICK o \in Processes : o = sh[s] /\ DeployedBy(o.out, o.run)
    BY <1>1, MovedShells DEF TogetherInv, GoodShell, TypeOK
  <2>2. d \in DOMAIN o.out /\ d \in Chains
    BY <1>3, <1>5, <2>1, DeploymentParts DEF Processes
  <2>3. IsProxy(d, o.out[d], o.run)
    BY <2>1, <2>2 DEF DeployedBy
  <2>4. r.run = o.run /\ o.run <= Number /\ Number \in Nat /\ o.run \in Nat /\ o.run # 0
    BY <1>1, <1>3, <1>5, <2>1, <2>3, NumberIs DEF IsProxy, RunsOK, Processes
  <2>5. r.run = p.run /\ (Settled(p) => Settled(r) /\ r.out = p.out)
    BY <1>2, <2>4 DEF Continues
  <2>6. t = s
    BY <1>1, <2>1, <2>4, <2>5 DEF RunsOK
  <2>. QED
    BY <1>5, <2>1, <2>5, <2>6
<1>. QED
  BY <1>4, <1>5 DEF NetFiles

LEMMA NetStepRecorded ==
  ASSUME NetworksInv, TogetherInv', NetStep
  PROVE  RecordedOK'
<1>1. PICK s \in Shells, q \in Processes : NetMove(s, q) /\ NetFiles(s)
  BY DEF NetStep
<1>2. TogetherInv /\ RecordedOK /\ contracts' = contracts /\ NetPosts /\ Becomes(s, q)
  BY <1>1 DEF NetworksInv, NetStep, NetMove
<1>3. SUFFICES ASSUME NEW t \in Shells, sh'[t].run # 0
               PROVE  Recorded(sh[t])'
  BY DEF RecordedOK
<1>4. PICK p \in Processes, r \in Processes : p = sh[t] /\ r = sh'[t]
  BY <1>2, MovedShells
<1>5. Continues(p, r)
  BY <1>1, <1>2, <1>4, MovedShells DEF NetMove, Continues
<1>6. FileOf(r)'
  BY <1>1, <1>3, <1>4, FileOfKept
<1>7. ASSUME NEW c \in Chains, NEW tx, GoodGovern(c, tx), p.run # 0 => GovernOf(c, tx, p)
      PROVE  GovernOf(c, tx, r)'
  <2>1. tx.n \in DOMAIN contracts[c]
    BY <1>7 DEF GoodGovern, OneDeployment, IsProxy
  <2>. QED
    BY <1>2, <1>3, <1>4, <1>5, <1>7, <2>1, GovernOfKept
<1>8. ASSUME NEW c \in Chains, NEW k \in DOMAIN pools'[c], pools'[c][k].kind = "govern"
      PROVE  GovernOf(c, pools[c][k], r)'
  <2>1. PICK tx : tx = pools'[c][k]
    OBVIOUS
  <2>2. GoodGovern(c, tx)
    <3>1. GoodGovern(c, tx)'
      BY <1>8, <2>1 DEF TogetherInv, GoodPool
    <3>. QED
      BY <1>2, <3>1, SameContracts
  <2>3. p.run # 0 => GovernOf(c, tx, p)
    BY <1>2, <1>4, <1>8, <2>1, NetPostsAre DEF RecordedOK, Recorded, Sendable
  <2>4. GovernOf(c, tx, r)'
    BY <1>7, <2>2, <2>3
  <2>. QED
    BY <2>1, <2>4
<1>9. ASSUME NEW u \in Shells, sh'[u].pc = "send"
      PROVE  GovernOf(sh[u].list[sh[u].i], sh[u].tx, r)'
  <2>1. PICK o \in Processes : o = sh'[u] /\ o.pc = "send" /\ (u # s => o = sh[u]) /\ (u = s => o = q)
    BY <1>2, <1>9, MovedShells
  <2>2. GoodShell(o)'
    BY <2>1 DEF TogetherInv
  <2>3. o.i \in DOMAIN o.list /\ GoodGovern(o.list[o.i], o.tx)'
    BY <2>1, <2>2 DEF GoodShell
  <2>4. PICK c, tx : c \in Chains /\ c = o.list[o.i] /\ tx = o.tx
    BY <2>3, ListedChain
  <2>5. GoodGovern(c, tx)
    BY <1>2, <2>3, <2>4, SameContracts
  <2>6. p.run # 0 => GovernOf(c, tx, p)
    BY <1>1, <1>2, <1>4, <2>1, <2>4 DEF RecordedOK, Recorded, NetMove
  <2>7. GovernOf(c, tx, r)'
    BY <1>7, <2>4, <2>5, <2>6
  <2>. QED
    BY <2>1, <2>4, <2>7
<1>10. Recorded(r)'
  BY <1>6, <1>8, <1>9 DEF Recorded
<1>. QED
  BY <1>4, <1>10
LEMMA NetStepAccepted ==
  ASSUME NetworksInv, NetStep
  PROVE  AcceptedOK'
<1>1. SUFFICES ASSUME NEW c \in Chains, NEW k \in DOMAIN pools'[c], pools'[c][k].kind = "govern"
               PROVE  Accepted(c, pools'[c][k])
  BY DEF AcceptedOK, Accepted
<1>2. TogetherInv /\ AcceptedOK /\ NetPosts
  BY DEF NetworksInv, NetStep
<1>. QED
  BY <1>1, <1>2, NetPostsAre DEF AcceptedOK, Sendable

LEMMA PostsKeepTests ==
  ASSUME TogetherInv, NetPosts, contracts' = contracts, NEW tx, NEW k \in Nat, NEW l \in Nat, k <= l,
         TestOK(tx, k)
  PROVE  TestOK(tx, l)'
<1>1. ASSUME Follows(tx, k)
      PROVE  Follows(tx, l)'
  <2>1. CASE HasPeer(tx.n)
    BY <2>1 DEF Follows, HasPeer
  <2>2. ASSUME NEW j \in DOMAIN pools[FromChain], j < k, GivesPeer(pools[FromChain][j], tx.n)
        PROVE  Follows(tx, l)'
    <3>1. j \in DOMAIN pools'[FromChain] /\ pools'[FromChain][j] = pools[FromChain][j] /\ j \in Nat
      BY NetPostsAre, ChainsAssumption
    <3>2. j < l
      BY <2>2, <3>1
    <3>. QED
      BY <2>2, <3>1, <3>2 DEF Follows, GivesPeer
  <2>. QED
    BY <1>1, <2>1, <2>2 DEF Follows
<1>. QED
  BY <1>1 DEF TestOK

LEMMA NetStepTests ==
  ASSUME NetworksInv, NetStep
  PROVE  TestsOK'
<1>1. PICK s \in Shells, q \in Processes : NetMove(s, q)
  BY DEF NetStep
<1>2. TogetherInv /\ TestsOK /\ contracts' = contracts /\ NetPosts /\ Becomes(s, q) /\ tests' = tests
  BY <1>1 DEF NetworksInv, NetStep, NetMove
<1>3. ASSUME NEW c \in Chains, NEW k \in DOMAIN pools'[c], pools'[c][k].kind = "initiate"
      PROVE  c = FromChain /\ TestOK(pools[c][k], k)'
  <2>1. PICK tx : tx = pools'[c][k]
    OBVIOUS
  <2>2. k \in Nat
    BY <1>2, NetPostsAre
  <2>3. c = FromChain /\ TestOK(tx, k)
    BY <1>2, <1>3, <2>1, NetPostsAre DEF TestsOK, Sendable
  <2>4. TestOK(tx, k)'
    BY <1>2, <2>2, <2>3, PostsKeepTests
  <2>. QED
    BY <2>1, <2>3, <2>4
<1>4. ASSUME NEW t \in Shells, sh'[t].pc = "approving"
      PROVE  TestOK(sh[t].tx, Len(pools[FromChain]) + 1)'
  <2>1. PICK r : r = sh'[t] /\ r.pc = "approving" /\ (t # s => r = sh[t]) /\ (t = s => r = q)
    BY <1>2, <1>4, MovedShells
  <2>2. TestOK(r.tx, Len(pools[FromChain]) + 1)
    BY <1>1, <1>2, <2>1 DEF TestsOK, NetMove
  <2>3. PICK k \in Nat, l \in Nat :
          k = Len(pools[FromChain]) + 1 /\ l = Len(pools'[FromChain]) + 1 /\ k <= l
    BY <1>2, NetPostsAre, ChainsAssumption
  <2>4. TestOK(r.tx, l)'
    BY <1>2, <2>2, <2>3, PostsKeepTests
  <2>. QED
    BY <2>1, <2>3, <2>4
<1>. QED
  BY <1>2, <1>3, <1>4 DEF TestsOK

LEMMA PostsKeepConfigured ==
  ASSUME TogetherInv, NetPosts, contracts' = contracts, NEW c \in Chains, NEW out, Configured(c, out)
  PROVE  Configured(c, out)'
<1>1. ASSUME NEW k \in DOMAIN pools[c], Configures(c, pools[c][k], out)
      PROVE  Configured(c, out)'
  <2>1. k \in DOMAIN pools'[c] /\ pools'[c][k] = pools[c][k]
    BY NetPostsAre
  <2>. QED
    BY <1>1, <2>1 DEF Configured, Configures
<1>2. CASE HasPeers(c, out)
  BY <1>2 DEF Configured, HasPeers
<1>. QED
  BY <1>1, <1>2 DEF Configured

LEMMA PostsKeepConfiguring ==
  ASSUME TogetherInv, NetPosts, contracts' = contracts, NEW p \in Processes, ConfiguredSoFar(p)
  PROVE  ConfiguredSoFar(p)'
<1>1. \A j \in DOMAIN p.list : Configured(p.list[j], p.out) => Configured(p.list[j], p.out)'
  BY ListedChain, PostsKeepConfigured
<1>2. \A c \in Chains : Configured(c, p.out) => Configured(c, p.out)'
  BY PostsKeepConfigured
<1>. QED
  BY <1>1, <1>2 DEF ConfiguredSoFar, Configures, Runs

LEMMA NetStepKeeps ==
  ASSUME NetworksInv, TogetherInv', NetStep
  PROVE  NetworksInv'
<1>1. PICK s \in Shells, q \in Processes : NetMove(s, q)
  BY DEF NetStep
<1>2. TogetherInv /\ contracts' = contracts /\ NetPosts /\ Becomes(s, q)
  BY <1>1 DEF NetworksInv, NetStep, NetMove
<1>3. ASSUME NEW t \in Shells
      PROVE  DeployedSoFar(sh[t])' /\ ConfiguredSoFar(sh[t])'
  <2>1. PICK r \in Processes : r = sh'[t] /\ (t # s => r = sh[t]) /\ (t = s => r = q)
    BY <1>2, MovedShells
  <2>2. CASE t = s
    <3>1. DeployedSoFar(r) /\ ConfiguredSoFar(r)'
      BY <1>1, <2>1, <2>2 DEF NetMove
    <3>. QED
      BY <2>1, <3>1 DEF DeployedSoFar, Runs
  <2>3. CASE t # s
    <3>1. DeployedSoFar(r) /\ ConfiguredSoFar(r)
      BY <2>1, <2>3 DEF NetworksInv
    <3>2. ConfiguredSoFar(r)'
      BY <1>2, <3>1, PostsKeepConfiguring
    <3>. QED
      BY <2>1, <3>1, <3>2 DEF DeployedSoFar, Runs
  <2>. QED
    BY <2>2, <2>3
<1>. QED
  BY <1>3, NetStepRuns, NetStepRecorded, NetStepAccepted, NetStepTests DEF NetworksInv
-----------------------------------------------------------------------------
(* What a process that moves becomes.                                       *)
LEMMA NetStepOf ==
  ASSUME NetworksInv, contracts' = contracts, tests' = tests, NetPosts,
         NEW s \in Shells, NetFiles(s), NEW q \in Processes, NetMove(s, q)
  PROVE  NetStep
  BY DEF NetStep

LEMMA NetSteady ==
  ASSUME Steady
  PROVE  /\ contracts' = contracts /\ tests' = tests /\ started' = started
         /\ \A s \in Shells : NetFiles(s)
  BY DEF Steady, NetFiles

\* What is known of a process that runs.
LEMMA Running ==
  ASSUME NetworksInv, NEW s \in Shells, sh[s].pc # "idle"
  PROVE  /\ TogetherInv /\ sh[s] \in Processes /\ sh[s].run # 0 /\ sh[s].exit = "none"
         /\ sh[s].i <= Len(sh[s].list) + 1 /\ sh[s].i \in Nat \ {0} /\ sh[s].list \in Seq(Chains)
         /\ DeployedSoFar(sh[s]) /\ ConfiguredSoFar(sh[s]) /\ Recorded(sh[s])
<1>1. /\ TogetherInv /\ DeployedSoFar(sh[s]) /\ ConfiguredSoFar(sh[s])
      /\ sh[s].run # 0 /\ Recorded(sh[s])
  BY DEF NetworksInv, RunsOK, RecordedOK
<1>2. sh[s] \in Processes
  BY <1>1 DEF TogetherInv, TypeOK
<1>3. sh[s].i \in Nat \ {0} /\ sh[s].list \in Seq(Chains)
  BY <1>2 DEF Processes
<1>4. sh[s].exit = "none" /\ sh[s].i <= Len(sh[s].list) + 1
  BY <1>1 DEF DeployedSoFar
<1>. QED
  BY <1>1, <1>2, <1>3, <1>4

LEMMA DiedMoves ==
  ASSUME NetworksInv, started' = started, NEW s \in Shells, Becomes(s, Died(s))
  PROVE  \E q \in Processes : NetMove(s, q)
<1>1. /\ Died(s) \in Processes /\ Died(s).run = 0 /\ Died(s).pc = "idle" /\ Died(s).read = "none"
  BY IdleIs DEF Died, Processes, Idle
<1>2. PICK q \in Processes : q = Died(s)
  BY <1>1
<1>3. Continues(sh[s], q) /\ DeployedSoFar(q) /\ ConfiguredSoFar(q)'
  BY <1>1, <1>2 DEF Continues, DeployedSoFar, ConfiguredSoFar
<1>4. NetMove(s, q)
  BY <1>1, <1>2, <1>3 DEF NetMove, Number
<1>. QED
  BY <1>4

LEMMA ExitedMoves ==
  ASSUME NetworksInv, contracts' = contracts, NetPosts, started' = started,
         NEW s \in Shells, sh[s].todo # <<>>, sh[s].pc # "idle", Becomes(s, Exited(s)),
         Runs(sh[s], "configureSwapLayer") => ~ChainsLeft(s)
  PROVE  \E q \in Processes : NetMove(s, q)
<1>. USE Running
<1>1. PICK e \in Processes : e = Ended(s)
  BY EndedIs
<1>2. /\ e.pc = "start" /\ e.out = sh[s].out /\ e.run = sh[s].run /\ e.read = sh[s].read
      /\ e.list = sh[s].list /\ e.i = 1 /\ e.exit = "none"
      /\ Exited(s) = IF e.todo = <<>> THEN Over(e) ELSE e
  BY <1>1, EndedIs
<1>3. ASSUME e.read = "own"
      PROVE  /\ DOMAIN e.out = Chains
             /\ \A j \in DOMAIN e.list : Configured(e.list[j], e.out)'
             /\ \A c \in Chains : Configured(c, e.out)'
  <2>1. DOMAIN e.out = Chains
    BY <1>2, <1>3 DEF ConfiguredSoFar
  <2>2. ASSUME NEW j \in DOMAIN e.list
        PROVE  Configured(e.list[j], e.out)'
    <3>1. j < sh[s].i \/ ~Runs(sh[s], "configureSwapLayer")
      BY <1>2, ListedChain DEF ChainsLeft
    <3>2. Configured(e.list[j], e.out)
      BY <1>2, <1>3, <3>1 DEF ConfiguredSoFar
    <3>. QED
      BY <3>2, ListedChain, PostsKeepConfigured
  <2>3. \A c \in Chains : \E j \in DOMAIN e.list : e.list[j] = c
    BY <1>2, <2>1 DEF DeployedSoFar
  <2>4. ASSUME NEW c \in Chains
        PROVE  Configured(c, e.out)'
    <3>1. PICK j \in DOMAIN e.list : e.list[j] = c
      BY <2>3
    <3>2. Configured(e.list[j], e.out)'
      BY <2>2
    <3>. QED
      BY <3>1, <3>2
  <2>. QED
    BY <2>1, <2>2, <2>4
<1>4. CASE e.todo # <<>>
  <2>1. Becomes(s, e)
    BY <1>2, <1>4
  <2>2. Continues(sh[s], e)
    BY <1>2 DEF Continues, Settled
  <2>3. DeployedSoFar(e)
    <3>1. \A j \in DOMAIN e.list : ~ (j < e.i)
      BY <1>2, ListedChain
    <3>2. Len(e.list) \in Nat /\ e.i <= Len(e.list) + 1
      BY <1>2
    <3>. QED
      BY <1>2, <3>1, <3>2 DEF DeployedSoFar
  <2>4. ConfiguredSoFar(e)'
    BY <1>2, <1>3 DEF ConfiguredSoFar
  <2>5. NetMove(s, e)
    BY <1>2, <2>1, <2>2, <2>3, <2>4 DEF NetMove, Number
  <2>. QED
    BY <2>5
<1>5. CASE e.todo = <<>>
  <2>1. PICK q \in Processes : q = Over(e)
    BY OverIs
  <2>2. /\ q.pc = "idle" /\ q.out = e.out /\ q.run = e.run /\ q.read = e.read
        /\ q.list = <<>>
    BY <2>1, OverIs
  <2>3. Becomes(s, q)
    BY <1>2, <1>5, <2>1
  <2>4. Continues(sh[s], q) /\ DeployedSoFar(q)
    BY <1>2, <2>2 DEF Continues, Settled, DeployedSoFar
  <2>5. ConfiguredSoFar(q)'
    BY <1>2, <1>3, <2>2 DEF ConfiguredSoFar
  <2>6. NetMove(s, q)
    BY <1>2, <2>2, <2>3, <2>4, <2>5 DEF NetMove, Number
  <2>. QED
    BY <2>6
<1>. QED
  BY <1>4, <1>5

\* A process that stays at its chain, for none but a configuring script's
\* batch and a test script's order.
LEMMA StaysMoves ==
  ASSUME NetworksInv, contracts' = contracts, NetPosts, started' = started,
         NEW s \in Shells, sh[s].pc # "idle", NEW q \in Processes, Becomes(s, q),
         q.out = sh[s].out, q.run = sh[s].run, q.list = sh[s].list, q.i = sh[s].i,
         q.todo = sh[s].todo, q.read = sh[s].read, q.exit = sh[s].exit,
         q.pc \in {"implementation", "proxy", "approving"}, ~Runs(sh[s], "configureSwapLayer"),
         q.pc = "approving" => TestOK(q.tx, Len(pools[FromChain]) + 1)
  PROVE  NetMove(s, q)
<1>. USE Running
<1>1. Continues(sh[s], q)
  BY DEF Continues, Settled
<1>2. DeployedSoFar(q)
  BY DEF DeployedSoFar, Runs
<1>3. ConfiguredSoFar(q)
  BY DEF ConfiguredSoFar, Runs
<1>4. ConfiguredSoFar(q)'
  BY <1>3, PostsKeepConfiguring
<1>5. q.run # 0
  OBVIOUS
<1>. QED
  BY <1>1, <1>2, <1>4, <1>5 DEF NetMove, Number
-----------------------------------------------------------------------------
(* Every step of a script is a NetStep.                                     *)
LEMMA Unposted ==
  ASSUME NetworksInv, pools' = pools
  PROVE  NetPosts
  BY DEF NetPosts

LEMMA SentNets ==
  ASSUME NEW c \in Chains, NEW tx \in Txs, Sendable(c, tx), pools' = pools \/ pools' = Sent(c, tx)
  PROVE  NetPosts
  BY DEF NetPosts

LEMMA StartShellNets ==
  ASSUME NetworksInv, NEW s \in Shells, NEW command \in Commands, NEW list \in Lists,
         StartShell(s, command, list)
  PROVE  NetStep
<1>. DEFINE p == [Idle EXCEPT !.todo = command, !.pc = "start",
                             !.list = list, !.run = Cardinality(started) + 1]
<1>1. IsFiniteSet(started) /\ started' = started \union {command} /\ command \notin started
  BY DEF NetworksInv, TogetherInv, TypeOK, StartShell
<1>2. Number \in Nat /\ Number' = Number + 1
  BY <1>1, FS_CardinalityType, FS_AddElement DEF Number
<1>3. command \in Seq(STRING) /\ list \in Seq(Chains) /\ "start" \in Pcs /\ Cardinality(started) + 1 \in Nat
  BY <1>2, ListsAssumption DEF Pcs, Number
<1>4. p \in Processes
  BY <1>3, IdleIs DEF Processes
<1>5. /\ p.out = NoFile /\ p.pc = "start" /\ p.run = Number + 1 /\ p.i = 1 /\ p.list = list
      /\ p.read = "none" /\ p.exit = "none"
  BY DEF Idle, Number
<1>6. PICK q \in Processes : q = p
  BY <1>4
<1>7. /\ q.out = NoFile /\ q.pc = "start" /\ q.run = Number + 1 /\ q.i = 1 /\ q.list = list
      /\ q.read = "none" /\ q.exit = "none"
  BY <1>5, <1>6
<1>. HIDE DEF p
<1>8. DeployedSoFar(q)
  <2>1. \A j \in DOMAIN q.list : ~ (j < q.i)
    BY <1>7, ListedChain
  <2>2. Len(q.list) \in Nat
    BY <1>3, <1>7
  <2>. QED
    BY <1>7, <2>1, <2>2, IdleIs DEF DeployedSoFar
<1>9. ConfiguredSoFar(q)'
  BY <1>7 DEF ConfiguredSoFar
<1>10. Becomes(s, q)
  BY <1>6 DEF StartShell, p
<1>11. NetMove(s, q)
  BY <1>2, <1>7, <1>8, <1>9, <1>10 DEF NetMove, Continues
<1>12. contracts' = contracts /\ tests' = tests /\ NetPosts /\ NetFiles(s)
  BY DEF StartShell, NetPosts, NetFiles
<1>. QED
  BY <1>11, <1>12, NetStepOf

LEMMA CheckNetworksNets ==
  ASSUME NetworksInv, NEW s \in Shells, CheckNetworks(s)
  PROVE  NetStep
<1>1. /\ contracts' = contracts /\ tests' = tests /\ started' = started /\ NetPosts
      /\ sh[s].todo # <<>> /\ sh[s].pc # "idle" /\ Becomes(s, Exited(s))
      /\ ~Runs(sh[s], "configureSwapLayer")
      /\ files' = [files EXCEPT !.useLastRun = @ \/ Head(sh[s].todo) # "checkNetworks"]
  BY DEF CheckNetworks, NetPosts, Script, Runs
<1>2. files \in Files
  BY DEF NetworksInv, TogetherInv, TypeOK
<1>3. NetFiles(s)
  BY <1>1, <1>2 DEF NetFiles, Files
<1>. QED
  BY <1>1, <1>3, ExitedMoves, NetStepOf

LEMMA CreateNets ==
  ASSUME NetworksInv, Steady, NEW s \in Shells, NEW kind \in {"proxy", "implementation"},
         NEW after \in {"proxy", "implementation"}, Create(s, kind, after), Chain(s) \in Chains,
         sh[s].pc # "idle", ~Runs(sh[s], "configureSwapLayer")
  PROVE  NetStep
<1>. USE NetSteady
<1>. "implementation" \in Pcs /\ "proxy" \in Pcs /\ after \in Pcs
  BY DEF Pcs
<1>1. TogetherInv
  BY DEF NetworksInv
<1>2. PICK n, tx : /\ n = Fresh(Chain(s)) /\ n \in 1..MaxContracts /\ n \notin Taken(Chain(s))
                   /\ tx = [kind |-> "create", n |-> n, of |-> Contract(kind, sh[s].run)]
  BY <1>1, CreateIs
<1>3. sh[s].run \in Nat /\ sh[s].run <= Number
  BY <1>1, Fields DEF Processes, NetworksInv, RunsOK
<1>4. tx \in CreateTxs /\ tx.kind = "create" /\ tx.n = n /\ tx.of.run = sh[s].run
  BY <1>2, <1>3 DEF CreateTxs, Creations, Contract
<1>5. tx \in Txs /\ Sendable(Chain(s), tx)
  BY <1>2, <1>3, <1>4 DEF Txs, Sendable, Postable
<1>6. Sends(s, Chain(s), tx, Waits(s, after, n))
  BY <1>2 DEF Create, Waits
<1>7. NetPosts
  <2>1. pools' = pools \/ pools' = Sent(Chain(s), tx)
    BY <1>6 DEF Sends
  <2>. QED
    BY <1>5, <2>1, SentNets
<1>8. CASE Becomes(s, Died(s))
  BY <1>7, <1>8, DiedMoves, NetStepOf
<1>9. CASE Becomes(s, Waits(s, after, n))
  <2>1. PICK q \in Processes : q = Waits(s, after, n)
    BY <1>1, <1>2, WaitingIs
  <2>2. /\ q.out = sh[s].out /\ q.run = sh[s].run /\ q.list = sh[s].list /\ q.i = sh[s].i
        /\ q.todo = sh[s].todo /\ q.read = sh[s].read /\ q.exit = sh[s].exit /\ q.pc = after
    BY <1>1, <1>2, <2>1, WaitingIs
  <2>3. NetMove(s, q)
    BY <1>7, <1>9, <2>1, <2>2, StaysMoves
  <2>. QED
    BY <1>7, <2>3, NetStepOf
<1>. QED
  BY <1>6, <1>8, <1>9 DEF Sends

LEMMA deployImplementationNets ==
  ASSUME NetworksInv, NEW s \in Shells, deployImplementation(s)
  PROVE  NetStep
<1>1. /\ Steady /\ Create(s, "implementation", "implementation") /\ ChainsLeft(s)
      /\ sh[s].pc # "idle" /\ ~Runs(sh[s], "configureSwapLayer")
  BY DEF deployImplementation, Deploys, Script, Runs
<1>2. Chain(s) \in Chains
  BY <1>1, ChainIs DEF NetworksInv
<1>. QED
  BY <1>1, <1>2, CreateNets

LEMMA ImplementationDeployedNets ==
  ASSUME NetworksInv, NEW s \in Shells, ImplementationDeployed(s)
  PROVE  NetStep
<1>1. /\ Steady /\ sh[s].pc = "implementation" /\ ~Runs(sh[s], "configureSwapLayer")
  BY DEF ImplementationDeployed, Script, Runs
<1>2. Chain(s) \in Chains
  BY <1>1, ChainIs DEF NetworksInv, TogetherInv, GoodShell
<1>3. CASE Failed(s)
  BY <1>1, <1>3, NetSteady, Unposted, DiedMoves, NetStepOf DEF ImplementationDeployed
<1>4. CASE ~Failed(s)
  BY <1>1, <1>2, <1>4, CreateNets DEF ImplementationDeployed
<1>. QED
  BY <1>3, <1>4

LEMMA UpgradeProxyNets ==
  ASSUME NetworksInv, NEW s \in Shells, UpgradeProxy(s)
  PROVE  NetStep
  BY NetSteady, Unposted, DiedMoves, NetStepOf DEF UpgradeProxy

LEMMA ProxyDeployedNets ==
  ASSUME NetworksInv, NEW s \in Shells, ProxyDeployed(s)
  PROVE  NetStep
<1>1. /\ Steady /\ NetPosts /\ sh[s].pc = "proxy"
      /\ Runs(sh[s], "deploySwapLayer") /\ ~Runs(sh[s], "configureSwapLayer")
  BY DEF ProxyDeployed, NetPosts, Script, Runs
<1>2. CASE Failed(s)
  BY <1>1, <1>2, NetSteady, DiedMoves, NetStepOf DEF ProxyDeployed
<1>3. CASE ~Failed(s)
  <2>. USE Running
  <2>1. TogetherInv /\ Becomes(s, Notes(s)) /\ Noted(s) \in Deployments
    BY <1>1, <1>3, DeployedProxy
  <2>2. /\ Chain(s) = sh[s].list[sh[s].i] /\ Chain(s) \in Chains /\ sh[s].i \in DOMAIN sh[s].list
        /\ sh[s].i <= Len(sh[s].list)
    BY <1>1, <1>3, <2>1, DeployedProxy
  <2>3. PICK q \in Processes : q = Notes(s)
    BY <2>1, NotesIs
  <2>4. /\ q.pc = "start" /\ q.out = Noted(s) /\ q.run = sh[s].run /\ q.i = sh[s].i + 1
        /\ q.list = sh[s].list /\ q.todo = sh[s].todo /\ q.read = sh[s].read /\ q.exit = sh[s].exit
    BY <2>1, <2>3, NotesIs
  <2>5. /\ DOMAIN sh[s].out \subseteq DOMAIN q.out /\ Chain(s) \in DOMAIN q.out
        /\ DOMAIN q.out \subseteq DOMAIN sh[s].out \union {Chain(s)}
        /\ Chain(s) \in DOMAIN sh[s].out => q.out = sh[s].out
    BY <2>4 DEF Noted, With
  <2>6. Continues(sh[s], q)
    BY <2>2, <2>4, <2>5 DEF Continues, Settled
  <2>7. DeployedSoFar(q)
    <3>1. ASSUME NEW d \in DOMAIN q.out
          PROVE  \E j \in DOMAIN q.list : q.list[j] = d
      BY <1>1, <2>2, <2>4, <2>5 DEF DeployedSoFar
    <3>2. ASSUME NEW j \in DOMAIN q.list, j < q.i
          PROVE  q.list[j] \in DOMAIN q.out
      <4>1. j < sh[s].i \/ j = sh[s].i
        BY <1>1, <2>4, <3>2, ListedChain
      <4>. QED
        BY <1>1, <2>2, <2>4, <2>5, <4>1 DEF DeployedSoFar
    <3>3. q.i <= Len(q.list) + 1
      BY <1>1, <2>2, <2>4
    <3>. QED
      BY <1>1, <2>4, <3>1, <3>2, <3>3 DEF DeployedSoFar, Runs
  <2>8. ConfiguredSoFar(q)
    BY <1>1, <2>2, <2>4, <2>5 DEF ConfiguredSoFar, Runs
  <2>9. ConfiguredSoFar(q)'
    BY <1>1, <2>1, <2>8, NetSteady, PostsKeepConfiguring
  <2>10. NetMove(s, q)
    BY <1>1, <2>1, <2>3, <2>4, <2>6, <2>7, <2>9, NetSteady DEF NetMove, Number
  <2>. QED
    BY <1>1, <2>10, NetSteady, NetStepOf
<1>. QED
  BY <1>2, <1>3

LEMMA writeOutputFilesNets ==
  ASSUME NetworksInv, NEW s \in Shells, writeOutputFiles(s)
  PROVE  NetStep
<1>1. /\ contracts' = contracts /\ tests' = tests /\ started' = started /\ NetPosts
      /\ sh[s].todo # <<>> /\ sh[s].pc = "start" /\ Becomes(s, Exited(s)) /\ ~ChainsLeft(s)
  BY DEF writeOutputFiles, NetPosts, Deploys, Script
<1>2. NetFiles(s)
  <2>1. CASE files' = files
    BY <2>1 DEF NetFiles
  <2>2. CASE Script(s, "deploySwapLayer", "start") /\ files' = [files EXCEPT !.lastrun = sh[s].out]
    <3>1. files \in Files
      BY DEF NetworksInv, TogetherInv, TypeOK
    <3>2. files'.lastrun = sh[s].out
      BY <2>2, <3>1 DEF Files
    <3>3. Settled(sh[s])
      BY <1>1, <2>2, Running, ListedChain DEF Settled, DeployedSoFar, Runs, Script, ChainsLeft
    <3>. QED
      BY <1>1, <3>2, <3>3, Running DEF NetFiles
  <2>. QED
    BY <2>1, <2>2 DEF writeOutputFiles
<1>. QED
  BY <1>1, <1>2, ExitedMoves, NetStepOf
\* Whoever reads the contracts of a run that is not over reads all of them.
LEMMA ReadsAll ==
  ASSUME NetworksInv, NEW t \in Shells, sh[t].run # 0, NEW c \in DOMAIN loadSwapLayers,
         contracts[c][loadSwapLayers[c]].run = sh[t].run
  PROVE  loadSwapLayers = sh[t].out /\ Settled(sh[t])
<1>1. CASE files.useLastRun
  <2>1. FileOf(sh[t]) /\ loadSwapLayers = files.lastrun
    BY <1>1 DEF NetworksInv, RecordedOK, Recorded, loadSwapLayers
  <2>. QED
    BY <2>1 DEF FileOf
<1>2. CASE ~files.useLastRun
  <2>1. loadSwapLayers = [d \in Chains |-> 1]
    BY <1>2 DEF loadSwapLayers, SwapLayers
  <2>2. c \in Chains /\ loadSwapLayers[c] = 1
    BY <2>1
  <2>3. contracts[c][1].run = 0
    BY <2>2 DEF NetworksInv, TogetherInv, NumbersOK, IsProxy
  <2>. QED
    BY <2>2, <2>3
<1>. QED
  BY <1>1, <1>2

LEMMA BatchFor ==
  ASSUME NetworksInv, NEW s \in Shells, Chain(s) \in Chains, HasSwapLayer(Chain(s)),
         Registers(Chain(s)), NEW t \in Shells, sh[t].run # 0
  PROVE  GovernOf(Chain(s), PeersBatch(s), sh[t])
<1>1. /\ PeersBatch(s).n = loadSwapLayers[Chain(s)]
      /\ DOMAIN PeersBatch(s).regs = ToRegister(Chain(s))
      /\ \A d \in ToRegister(Chain(s)) :
           /\ d \in DOMAIN loadSwapLayers
           /\ PeersBatch(s).regs[d].peer = AddressOf(d, loadSwapLayers[d])
  BY PeersBatchIs DEF NetworksInv
<1>2. SUFFICES ASSUME contracts[Chain(s)][PeersBatch(s).n].run = sh[t].run
               PROVE  Settled(sh[t]) /\ GovernsFor(Chain(s), PeersBatch(s), sh[t])
  BY DEF GovernOf
<1>3. Chain(s) \in DOMAIN loadSwapLayers
  BY DEF HasSwapLayer
<1>4. loadSwapLayers = sh[t].out /\ Settled(sh[t])
  BY <1>1, <1>2, <1>3, ReadsAll
<1>. QED
  BY <1>1, <1>3, <1>4 DEF GovernsFor

\* A batch for the contracts that the shell itself has deployed.
LEMMA OwnBatch ==
  ASSUME NetworksInv, NEW s \in Shells, Chain(s) \in Chains, HasSwapLayer(Chain(s)),
         Registers(Chain(s)), ReadsOwn(s)
  PROVE  DOMAIN sh[s].out = Chains /\ Configures(Chain(s), PeersBatch(s), sh[s].out)
<1>1. ToRegister(Chain(s)) = OtherChains(Chain(s)) /\ loadSwapLayers = sh[s].out
  BY DEF ReadsOwn, ToRegister
<1>2. /\ PeersBatch(s).kind = "govern" /\ PeersBatch(s).n = sh[s].out[Chain(s)]
      /\ DOMAIN PeersBatch(s).regs = OtherChains(Chain(s))
      /\ \A d \in OtherChains(Chain(s)) :
           /\ d \in DOMAIN sh[s].out
           /\ PeersBatch(s).regs[d].peer = AddressOf(d, sh[s].out[d])
  BY <1>1, PeersBatchIs DEF NetworksInv
<1>3. Chain(s) \in DOMAIN sh[s].out
  BY <1>1 DEF HasSwapLayer
<1>4. DOMAIN sh[s].out \subseteq Chains
  BY <1>1, LoadIs, DeploymentParts DEF NetworksInv
<1>. QED
  BY <1>2, <1>3, <1>4 DEF Configures, OtherChains

LEMMA AsksMoves ==
  ASSUME NetworksInv, NEW s \in Shells, Steady, NetPosts, Script(s, "configureSwapLayer", "start"),
         Configurable(s), NEW q \in Processes, q = Asks(s), Becomes(s, q)
  PROVE  NetMove(s, q)
<1>. USE Running
<1>1. sh[s].pc # "idle" /\ Runs(sh[s], "configureSwapLayer") /\ TogetherInv
  BY DEF Script, Runs, NetworksInv
<1>2. /\ sh[s].i \in DOMAIN sh[s].list /\ Chain(s) \in Chains /\ Chain(s) = sh[s].list[sh[s].i]
      /\ HasSwapLayer(Chain(s)) /\ Registers(Chain(s))
  BY <1>1, ChainIs DEF Configurable
<1>3. PeersBatch(s) \in Txs
  BY <1>1, <1>2, PeersBatchIs DEF GoodGovern, Txs
<1>4. /\ q.pc = "send" /\ q.tx = PeersBatch(s)
      /\ q.out = sh[s].out /\ q.run = sh[s].run /\ q.list = sh[s].list
      /\ q.i = sh[s].i /\ q.todo = sh[s].todo /\ q.exit = sh[s].exit
      /\ q.read = IF ReadsOwn(s) THEN "own" ELSE "others"
  BY <1>1, <1>3, AsksIs
<1>5. Continues(sh[s], q)
  BY <1>4 DEF Continues, Settled
<1>6. DeployedSoFar(q)
  BY <1>1, <1>4 DEF DeployedSoFar, Runs
<1>7. ConfiguredSoFar(q)
  <2>1. SUFFICES ASSUME q.read = "own" PROVE ConfiguredSoFar(q)
    BY DEF ConfiguredSoFar
  <2>2. ReadsOwn(s) /\ sh[s].read \in {"none", "own"}
    BY <1>1, <1>4, <2>1 DEF ReadsOwn, Processes
  <2>3. DOMAIN q.out = Chains /\ Configures(q.list[q.i], q.tx, q.out)
    BY <1>2, <1>4, <2>2, OwnBatch
  <2>4. ASSUME NEW j \in DOMAIN q.list, j < q.i
        PROVE  Configured(q.list[j], q.out)
    <3>1. sh[s].i # 1
      BY <1>4, <2>4, ListedChain
    <3>2. sh[s].read = "own"
      BY <1>1, <2>2, <3>1 DEF DeployedSoFar
    <3>. QED
      BY <1>1, <1>4, <2>4, <3>2 DEF ConfiguredSoFar
  <2>5. Runs(q, "configureSwapLayer") /\ q.exit # "ok" /\ q.run # 0
    BY <1>1, <1>4 DEF Runs
  <2>. QED
    BY <2>3, <2>4, <2>5 DEF ConfiguredSoFar
<1>8. ConfiguredSoFar(q)'
  BY <1>1, <1>7, NetSteady, PostsKeepConfiguring
<1>9. \A t \in Shells : sh[t].run # 0 => GovernOf(q.list[q.i], q.tx, sh[t])
  BY <1>2, <1>4, BatchFor
<1>10. Number' = Number /\ q.run # 0
  BY <1>1, <1>4, NetSteady DEF Number
<1>. QED
  BY <1>4, <1>5, <1>6, <1>8, <1>9, <1>10 DEF NetMove

LEMMA ConfigureNets ==
  ASSUME NetworksInv, NEW s \in Shells, Configure(s)
  PROVE  NetStep
<1>1. /\ Steady /\ NetPosts /\ contracts' = contracts /\ tests' = tests /\ started' = started
      /\ NetFiles(s) /\ TogetherInv
      /\ sh[s].todo # <<>> /\ sh[s].pc # "idle" /\ Script(s, "configureSwapLayer", "start")
  BY NetSteady DEF Configure, NetPosts, Script, NetworksInv
<1>2. CASE ~ChainsLeft(s)
  BY <1>1, <1>2, ExitedMoves, NetStepOf DEF Configure
<1>3. CASE ChainsLeft(s) /\ ~Configurable(s)
  BY <1>1, <1>3, DiedMoves, NetStepOf DEF Configure, Configurable
<1>4. CASE Configurable(s)
  <2>1. Chain(s) \in Chains /\ HasSwapLayer(Chain(s)) /\ Registers(Chain(s))
    BY <1>1, <1>4, ChainIs DEF Configurable
  <2>2. PeersBatch(s) \in Txs
    BY <1>1, <2>1, PeersBatchIs DEF GoodGovern, Txs
  <2>3. PICK q \in Processes : q = Asks(s)
    BY <1>1, <2>2, AsksIs
  <2>4. Becomes(s, q)
    BY <1>4, <2>3 DEF Configure, Configurable, Asks
  <2>. QED
    BY <1>1, <1>4, <2>3, <2>4, AsksMoves, NetStepOf
<1>. QED
  BY <1>2, <1>3, <1>4 DEF Configurable

LEMMA SendBatchNets ==
  ASSUME NetworksInv, NEW s \in Shells, SendBatch(s)
  PROVE  NetStep
<1>. USE Running
<1>1. /\ Steady /\ contracts' = contracts /\ tests' = tests /\ started' = started
      /\ NetFiles(s) /\ TogetherInv
      /\ sh[s].pc = "send" /\ Runs(sh[s], "configureSwapLayer")
  BY NetSteady DEF SendBatch, Script, Runs, NetworksInv
<1>2. /\ sh[s].i \in DOMAIN sh[s].list /\ Chain(s) \in Chains /\ Chain(s) = sh[s].list[sh[s].i]
      /\ GoodGovern(Chain(s), sh[s].tx)
  BY <1>1, ChainIs DEF TogetherInv, GoodShell
<1>3. sh[s].tx \in Txs /\ sh[s].tx.kind = "govern"
  BY <1>2 DEF GoodGovern, Txs, GovernTxs
<1>4. Governed(Chain(s), sh[s].tx).ok => Sendable(Chain(s), sh[s].tx)
  <2>1. Governed(Chain(s), sh[s].tx).ok => Accepted(Chain(s), sh[s].tx)
    BY <1>1, <1>2, GovernedIs DEF Accepted
  <2>2. \A t \in Shells : sh[t].run # 0 => GovernOf(Chain(s), sh[s].tx, sh[t])
    BY <1>1, <1>2 DEF NetworksInv, RecordedOK, Recorded
  <2>. QED
    BY <1>2, <1>3, <2>1, <2>2 DEF Sendable, Postable
<1>5. NetPosts
  <2>1. pools' = pools \/ (Governed(Chain(s), sh[s].tx).ok /\ pools' = Sent(Chain(s), sh[s].tx))
    BY DEF SendBatch
  <2>. QED
    BY <1>2, <1>3, <1>4, <2>1 DEF NetPosts
<1>6. CASE Becomes(s, Died(s))
  BY <1>1, <1>5, <1>6, DiedMoves, NetStepOf
<1>7. CASE pools' = Sent(Chain(s), sh[s].tx) /\ Becomes(s, NextChain(s))
  <2>1. NextChain(s) \in Processes
    BY <1>1, NextChainIs
  <2>2. PICK q \in Processes : q = NextChain(s)
    BY <2>1
  <2>3. /\ q.pc = "start" /\ q.out = sh[s].out /\ q.run = sh[s].run /\ q.i = sh[s].i + 1
        /\ q.list = sh[s].list /\ q.todo = sh[s].todo /\ q.read = sh[s].read /\ q.exit = sh[s].exit
    BY <1>1, <2>2, Fields DEF NextChain, Processes
  <2>4. Continues(sh[s], q)
    BY <2>3 DEF Continues, Settled
  <2>5. DeployedSoFar(q)
    <3>1. q.i <= Len(q.list) + 1
      BY <1>1, <1>2, <2>3
    <3>2. ~Runs(q, "deploySwapLayer") /\ q.read # "none"
      BY <1>1, <2>3 DEF Runs, DeployedSoFar
    <3>. QED
      BY <1>1, <2>3, <3>1, <3>2 DEF DeployedSoFar
  <2>6. ConfiguredSoFar(q)'
    <3>1. SUFFICES ASSUME q.read = "own" PROVE ConfiguredSoFar(q)'
      BY DEF ConfiguredSoFar
    <3>2. DOMAIN q.out = Chains /\ Configures(Chain(s), sh[s].tx, q.out)
      BY <1>1, <1>2, <2>3, <3>1 DEF ConfiguredSoFar
    <3>3. ASSUME NEW j \in DOMAIN q.list, j < q.i
          PROVE  Configured(q.list[j], q.out)'
      <4>1. CASE j < sh[s].i
        <5>1. Configured(q.list[j], q.out)
          BY <1>1, <2>3, <3>1, <4>1 DEF ConfiguredSoFar
        <5>. QED
          BY <1>1, <1>5, <5>1, ListedChain, PostsKeepConfigured
      <4>2. CASE j = sh[s].i
        <5>1. PICK c \in Chains : c = Chain(s) /\ c = q.list[j]
          BY <1>2, <2>3, <4>2
        <5>2. pools[c] \in Seq(Txs) /\ pools'[c] = Append(pools[c], sh[s].tx)
          BY <1>1, <1>7, <5>1 DEF TogetherInv, TypeOK, Sent
        <5>3. \E k \in DOMAIN pools'[c] : pools'[c][k] = sh[s].tx
          BY <1>3, <5>2, AppendIs
        <5>4. Configured(c, q.out)'
          BY <3>2, <5>1, <5>3 DEF Configured, Configures
        <5>. QED
          BY <5>1, <5>4
      <4>. QED
        BY <1>1, <2>3, <3>3, <4>1, <4>2, ListedChain
    <3>4. Runs(q, "configureSwapLayer") /\ q.exit # "ok" /\ q.run # 0
      BY <1>1, <2>3 DEF Runs
    <3>. QED
      BY <2>3, <3>2, <3>3, <3>4 DEF ConfiguredSoFar
  <2>7. Number' = Number /\ q.run # 0 /\ Becomes(s, q)
    BY <1>1, <1>7, <2>2, <2>3 DEF Number
  <2>8. NetMove(s, q)
    BY <2>3, <2>4, <2>5, <2>6, <2>7 DEF NetMove
  <2>. QED
    BY <1>1, <1>5, <2>8, NetStepOf
<1>. QED
  BY <1>6, <1>7 DEF SendBatch, Refused

LEMMA UpdateFeesNets ==
  ASSUME NetworksInv, NEW s \in Shells, UpdateFees(s)
  PROVE  NetStep
<1>1. /\ Steady /\ NetPosts /\ contracts' = contracts /\ tests' = tests /\ started' = started
      /\ NetFiles(s)
      /\ sh[s].todo # <<>> /\ sh[s].pc # "idle" /\ ~Runs(sh[s], "configureSwapLayer")
  BY NetSteady DEF UpdateFees, NetPosts, Script, Runs
<1>2. Becomes(s, Died(s)) \/ Becomes(s, Exited(s))
  BY DEF UpdateFees
<1>. QED
  BY <1>1, <1>2, DiedMoves, ExitedMoves, NetStepOf
\* The order of a shell that read the contracts it had deployed comes after
\* the batch that it sent to the order's contract.
LEMMA OwnTest ==
  ASSUME NetworksInv, NEW s \in Shells, HasSwapLayer(FromChain), sh[s].pc # "idle",
         ~Runs(sh[s], "configureSwapLayer")
  PROVE  TestOK(TestOrder(s), Len(pools[FromChain]) + 1)
<1>. USE ChainsAssumption
<1>. DEFINE n == loadSwapLayers[FromChain]
<1>1. TogetherInv /\ FromChain \in DOMAIN loadSwapLayers
  BY DEF NetworksInv, HasSwapLayer
<1>2. n \in DOMAIN contracts[FromChain]
  BY <1>1, LoadIs DEF DeployedBy, IsProxy
<1>3. /\ TestOrder(s).n = n /\ TestOrder(s).run = sh[s].run
      /\ (TestOrder(s).own <=> sh[s].read = "own")
  BY <1>1, TestOrderIs
<1>4. ASSUME sh[s].read = "own", contracts[FromChain][n].run = sh[s].run
      PROVE  Follows(TestOrder(s), Len(pools[FromChain]) + 1)
  <2>1. PICK p \in Processes : p = sh[s] /\ p.run # 0 /\ ConfiguredSoFar(p) /\ DeployedSoFar(p)
    BY Running
  <2>2. loadSwapLayers = p.out
    BY <1>1, <1>4, <2>1, ReadsAll
  <2>3. DOMAIN p.out = Chains
    BY <1>4, <2>1 DEF ConfiguredSoFar
  <2>4. PICK j \in DOMAIN p.list : p.list[j] = FromChain
    BY <2>1, <2>3 DEF DeployedSoFar
  <2>5. Configured(FromChain, p.out)
    BY <1>4, <2>1, <2>4 DEF ConfiguredSoFar
  <2>6. ToChain \in OtherChains(FromChain) /\ n = p.out[FromChain]
    BY <2>2 DEF OtherChains
  <2>7. CASE HasPeers(FromChain, p.out)
    <3>1. contracts[FromChain][n].state.peers[ToChain] = AddressOf(ToChain, p.out[ToChain])
      BY <2>6, <2>7 DEF HasPeers
    <3>2. AddressOf(ToChain, p.out[ToChain]) \in Addresses
      BY <2>1, <2>3, DeploymentParts DEF Processes, Addresses
    <3>. QED
      BY <1>3, <3>1, <3>2, AddressAssumption DEF Follows, HasPeer
  <2>8. ASSUME NEW k \in DOMAIN pools[FromChain], Configures(FromChain, pools[FromChain][k], p.out)
        PROVE  Follows(TestOrder(s), Len(pools[FromChain]) + 1)
    <3>1. GivesPeer(pools[FromChain][k], n)
      BY <2>6, <2>8 DEF Configures, GivesPeer
    <3>2. pools[FromChain] \in Seq(Txs)
      BY <1>1 DEF TogetherInv, TypeOK
    <3>3. k < Len(pools[FromChain]) + 1
      BY <3>2
    <3>. QED
      BY <1>3, <3>1, <3>3 DEF Follows
  <2>. QED
    BY <2>5, <2>7, <2>8 DEF Configured
<1>. QED
  BY <1>2, <1>3, <1>4 DEF TestOK

LEMMA ApproveNets ==
  ASSUME NetworksInv, NEW s \in Shells, Approve(s)
  PROVE  NetStep
<1>1. /\ Steady /\ contracts' = contracts /\ tests' = tests /\ started' = started
      /\ NetFiles(s) /\ TogetherInv
      /\ sh[s].pc # "idle" /\ ~Runs(sh[s], "configureSwapLayer")
  BY NetSteady DEF Approve, TestSend, Script, Runs, NetworksInv
<1>2. CASE ~HasSwapLayer(FromChain)
  BY <1>1, <1>2, DiedMoves, Unposted, NetStepOf DEF Approve, loadTestSendConfig
<1>3. CASE HasSwapLayer(FromChain)
  <2>1. PICK tx : tx = [kind |-> "approve", by |-> s]
    OBVIOUS
  <2>2. tx \in Txs /\ tx.kind = "approve"
    BY <2>1 DEF ApproveTxs, Txs
  <2>3. Sends(s, FromChain, tx, Awaits(s))
    BY <1>3, <2>1 DEF Approve, loadTestSendConfig, Awaits
  <2>4. pools' = pools \/ pools' = Sent(FromChain, tx)
    BY <2>3 DEF Sends
  <2>5. NetPosts
    BY <2>2, <2>4, SentNets, ChainsAssumption DEF Sendable, Postable
  <2>6. CASE Becomes(s, Died(s))
    BY <1>1, <2>5, <2>6, DiedMoves, NetStepOf
  <2>7. CASE Becomes(s, Awaits(s))
    <3>1. TestOrder(s) \in Txs
      BY <1>1, <1>3, TestOrderIs
    <3>2. PICK q \in Processes : q = Awaits(s)
      BY <1>1, <3>1, AwaitsIs
    <3>3. /\ q.out = sh[s].out /\ q.run = sh[s].run /\ q.list = sh[s].list /\ q.i = sh[s].i
          /\ q.todo = sh[s].todo /\ q.read = sh[s].read /\ q.exit = sh[s].exit
          /\ q.pc = "approving" /\ q.tx = TestOrder(s) /\ Becomes(s, q)
      BY <1>1, <2>7, <3>1, <3>2, AwaitsIs
    <3>4. TestOK(q.tx, Len(pools[FromChain]) + 1)
      BY <1>1, <1>3, <3>3, OwnTest
    <3>5. NetMove(s, q)
      BY <1>1, <2>5, <3>3, <3>4, StaysMoves
    <3>. QED
      BY <1>1, <2>5, <3>5, NetStepOf
  <2>. QED
    BY <2>3, <2>6, <2>7 DEF Sends
<1>. QED
  BY <1>2, <1>3

LEMMA InitiateNets ==
  ASSUME NetworksInv, NEW s \in Shells, Initiate(s)
  PROVE  NetStep
<1>1. /\ Steady /\ contracts' = contracts /\ tests' = tests /\ started' = started
      /\ NetFiles(s) /\ TogetherInv
      /\ sh[s].todo # <<>> /\ sh[s].pc = "approving" /\ ~Runs(sh[s], "configureSwapLayer")
  BY NetSteady DEF Initiate, TestSend, Script, Runs, NetworksInv
<1>2. sh[s].tx \in InitiateTxs /\ TestOK(sh[s].tx, Len(pools[FromChain]) + 1)
  BY <1>1 DEF TogetherInv, GoodShell, NetworksInv, TestsOK
<1>3. sh[s].tx \in Txs /\ sh[s].tx.kind = "initiate"
  BY <1>2 DEF InitiateTxs, Txs
<1>4. Sendable(FromChain, sh[s].tx)
  BY <1>2, <1>3 DEF Sendable, Postable
<1>5. Sends(s, FromChain, sh[s].tx, Exited(s))
  BY DEF Initiate, loadTestSendConfig
<1>6. pools' = pools \/ pools' = Sent(FromChain, sh[s].tx)
  BY <1>5 DEF Sends
<1>7. NetPosts
  BY <1>3, <1>4, <1>6, SentNets, ChainsAssumption
<1>8. Becomes(s, Exited(s)) \/ Becomes(s, Died(s))
  BY <1>5 DEF Sends
<1>. QED
  BY <1>1, <1>7, <1>8, DiedMoves, ExitedMoves, NetStepOf

LEMMA ScriptsNet ==
  ASSUME NetworksInv, ScriptsNext, \A c \in Chains : ~Mine(c)
  PROVE  NetStep
<1>1. PICK s \in Shells :
        \/ \E command \in Commands, list \in Lists : StartShell(s, command, list)
        \/ CheckNetworks(s)
        \/ deployImplementation(s) \/ ImplementationDeployed(s) \/ ProxyDeployed(s)
        \/ UpgradeProxy(s)
        \/ writeOutputFiles(s)
        \/ Configure(s) \/ SendBatch(s) \/ UpdateFees(s)
        \/ Approve(s) \/ Initiate(s)
  BY DEF ScriptsNext
<1>. QED
  BY <1>1, StartShellNets, CheckNetworksNets, deployImplementationNets,
     ImplementationDeployedNets, ProxyDeployedNets, UpgradeProxyNets,
     writeOutputFilesNets, ConfigureNets, SendBatchNets, UpdateFeesNets,
     ApproveNets, InitiateNets
-----------------------------------------------------------------------------
(* A transaction is mined, once more.                                       *)
LEMMA MineRuns ==
  ASSUME NetworksInv, NEW c \in Chains, Mine(c)
  PROVE  RunsOK'
<1>1. TogetherInv /\ RunsOK /\ Grows(c) /\ pools[c] # <<>> /\ sh' = sh /\ started' = started
  BY MineGrows DEF NetworksInv
<1>2. Number' = Number /\ Number \in Nat
  BY <1>1, NumberIs DEF Number
<1>3. ASSUME NEW d \in Chains, NEW n \in DOMAIN contracts'[d]
      PROVE  contracts'[d][n].run <= Number
  <2>1. CASE n \in DOMAIN contracts[d]
    BY <1>1, <2>1 DEF Grows, Kept, RunsOK
  <2>2. CASE n \notin DOMAIN contracts[d]
    <3>1. d = c /\ Made(c, n)
      BY <1>1, <1>3, <2>2 DEF Grows
    <3>2. Head(pools[c]).of.run <= Number
      BY <1>1, <3>1, HeadIs DEF Made, RunsOK
    <3>. QED
      BY <1>2, <3>1, <3>2 DEF Made, Contract
  <2>. QED
    BY <2>1, <2>2
<1>4. ASSUME NEW d \in Chains, NEW k \in DOMAIN pools'[d], pools'[d][k].kind = "create"
      PROVE  pools'[d][k].of.run <= Number
  BY <1>1, <1>4, MinedTxs DEF RunsOK
<1>. QED
  BY <1>1, <1>2, <1>3, <1>4 DEF RunsOK

LEMMA MineRecorded ==
  ASSUME NetworksInv, NEW c \in Chains, Mine(c)
  PROVE  RecordedOK'
<1>1. TogetherInv /\ Grows(c) /\ sh' = sh /\ files' = files
  BY MineGrows DEF NetworksInv
<1>2. SUFFICES ASSUME NEW t \in Shells, sh[t].run # 0
               PROVE  Recorded(sh[t])'
  BY <1>1 DEF RecordedOK
<1>3. PICK p : p = sh[t] /\ Recorded(p)
  BY <1>2 DEF NetworksInv, RecordedOK
<1>4. \A d \in Chains : \A n \in DOMAIN contracts[d] : contracts'[d][n].run = contracts[d][n].run
  BY <1>1 DEF Grows, Kept
<1>5. FileOf(p)'
  <2>1. PICK run \in Nat : DeployedBy(files.lastrun, run)
    BY <1>1 DEF TogetherInv
  <2>2. DOMAIN files.lastrun \subseteq Chains
    BY <1>1, DeploymentParts DEF TogetherInv, TypeOK, Files
  <2>3. \A d \in DOMAIN files.lastrun :
          contracts'[d][files.lastrun[d]].run = contracts[d][files.lastrun[d]].run
    BY <1>4, <2>1, <2>2 DEF DeployedBy, IsProxy
  <2>. QED
    BY <1>1, <1>3, <2>3 DEF Recorded, FileOf, Settled
<1>6. ASSUME NEW d \in Chains, NEW tx, GoodGovern(d, tx), GovernOf(d, tx, p)
      PROVE  GovernOf(d, tx, p)'
  BY <1>4, <1>6 DEF GoodGovern, OneDeployment, IsProxy, GovernOf, GovernsFor, Settled
<1>7. ASSUME NEW d \in Chains, NEW k \in DOMAIN pools'[d], pools'[d][k].kind = "govern"
      PROVE  GovernOf(d, pools[d][k], p)'
  <2>1. PICK tx : tx = pools'[d][k]
    OBVIOUS
  <2>2. GoodGovern(d, tx) /\ GovernOf(d, tx, p)
    BY <1>1, <1>3, <1>7, <2>1, MinedTxs DEF TogetherInv, GoodPool, Recorded
  <2>3. GovernOf(d, tx, p)'
    BY <1>6, <2>2
  <2>. QED
    BY <2>1, <2>3
<1>8. ASSUME NEW u \in Shells, sh[u].pc = "send"
      PROVE  GovernOf(sh[u].list[sh[u].i], sh[u].tx, p)'
  <2>1. PICK o \in Processes : o = sh[u] /\ o.pc = "send"
    BY <1>1, <1>8, ShellParts DEF TogetherInv
  <2>2. o.i \in DOMAIN o.list /\ GoodGovern(o.list[o.i], o.tx) /\ GovernOf(o.list[o.i], o.tx, p)
    BY <1>1, <1>3, <2>1 DEF TogetherInv, GoodShell, Recorded
  <2>3. GovernOf(o.list[o.i], o.tx, p)'
    BY <1>6, <2>2, ListedChain
  <2>. QED
    BY <1>1, <2>1, <2>3
<1>9. Recorded(p)'
  BY <1>1, <1>5, <1>7, <1>8 DEF Recorded
<1>. QED
  BY <1>1, <1>3, <1>9

\* A batch that is mined is accepted: its contract has the peers that it names.
LEMMA MinedBatch ==
  ASSUME NetworksInv, NEW c \in Chains, Mine(c), Head(pools[c]).kind = "govern"
  PROVE  LET tx == Head(pools[c])
         IN /\ GoodGovern(c, tx) /\ tx.n \in DOMAIN contracts[c]
            /\ \A e \in DOMAIN tx.regs : e \in Chains /\ contracts'[c][tx.n].state.peers[e] = tx.regs[e].peer
<1>1. TogetherInv /\ pools[c] # <<>>
  BY MineGrows DEF NetworksInv
<1>2. PICK tx : tx = Head(pools[c]) /\ GoodGovern(c, tx) /\ Accepted(c, tx)
  BY <1>1, HeadIs DEF NetworksInv, AcceptedOK, TogetherInv, GoodPool
<1>3. /\ tx.n \in DOMAIN contracts[c] /\ tx.regs \in Batches(c)
      /\ \A e \in DOMAIN tx.regs : Governed(c, tx).state.peers[e] = tx.regs[e].peer
  BY <1>1, <1>2, GovernedIs DEF Accepted
<1>4. DOMAIN tx.regs \subseteq Chains
  BY <1>3, BatchesAre DEF OtherChains
<1>5. contracts'[c][tx.n].state = Governed(c, tx).state
  BY <1>1, <1>2, <1>3, MinedStates
<1>. QED
  BY <1>2, <1>3, <1>4, <1>5

LEMMA MineKeepsConfigured ==
  ASSUME NetworksInv, NEW c \in Chains, Mine(c), NEW t \in Shells, NEW p \in Processes, p = sh[t],
         p.run # 0, DOMAIN p.out = Chains, NEW d \in Chains, Configured(d, p.out)
  PROVE  Configured(d, p.out)'
<1>1. TogetherInv /\ Recorded(p) /\ pools[c] # <<>>
  BY MineGrows DEF NetworksInv, RecordedOK
<1>2. PICK n : n = p.out[d]
  OBVIOUS
<1>3. n \in DOMAIN contracts[d] /\ contracts[d][n].run = p.run
  BY <1>1, <1>2 DEF TogetherInv, GoodShell, DeployedBy, IsProxy
<1>4. PICK tx : tx = Head(pools[c])
  OBVIOUS
<1>5. CASE HasPeers(d, p.out)
  <2>1. CASE d = c /\ tx.kind = "govern" /\ n = tx.n
    <3>1. GoodGovern(c, tx) /\ GovernsFor(c, tx, p)
      BY <1>1, <1>3, <1>4, <2>1, HeadIs, MinedBatch DEF Recorded, GovernOf
    <3>2. contracts'[d][n].state = Governed(c, tx).state
      BY <1>1, <1>3, <1>4, <2>1, MinedStates
    <3>3. \A e \in OtherChains(d) : contracts'[d][n].state.peers[e] = AddressOf(e, p.out[e])
      <4>1. SUFFICES ASSUME NEW e \in OtherChains(d)
                     PROVE  contracts'[d][n].state.peers[e] = AddressOf(e, p.out[e])
        OBVIOUS
      <4>2. e \in Chains /\ contracts[d][n].state.peers[e] = AddressOf(e, p.out[e])
        BY <1>2, <1>5 DEF HasPeers, OtherChains
      <4>3. \/ contracts'[d][n].state.peers[e] = contracts[d][n].state.peers[e]
            \/ e \in DOMAIN tx.regs /\ contracts'[d][n].state.peers[e] = tx.regs[e].peer
        BY <1>1, <2>1, <3>1, <3>2, <4>2, GovernedIs
      <4>. QED
        BY <3>1, <4>2, <4>3 DEF GovernsFor
    <3>. QED
      BY <1>2, <3>3 DEF Configured, HasPeers
  <2>2. CASE ~ (d = c /\ tx.kind = "govern" /\ n = tx.n)
    <3>1. contracts'[d][n].state = contracts[d][n].state
      BY <1>1, <1>3, <1>4, <2>2, MinedStates
    <3>. QED
      BY <1>2, <1>5, <3>1 DEF Configured, HasPeers
  <2>. QED
    BY <2>1, <2>2
<1>6. ASSUME NEW k \in DOMAIN pools[d], Configures(d, pools[d][k], p.out)
      PROVE  Configured(d, p.out)'
  <2>1. CASE d = c /\ k = 1
    <3>1. tx = pools[d][k] /\ Configures(d, tx, p.out)
      BY <1>1, <1>4, <1>6, <2>1, HeadIs
    <3>2. \A e \in OtherChains(d) : contracts'[d][n].state.peers[e] = AddressOf(e, p.out[e])
      BY <1>2, <1>4, <2>1, <3>1, MinedBatch DEF Configures
    <3>. QED
      BY <1>2, <3>2 DEF Configured, HasPeers
  <2>2. CASE ~ (d = c /\ k = 1)
    <3>1. \E j \in DOMAIN pools'[d] : pools'[d][j] = pools[d][k]
      BY <1>1, <2>2, MinedTxs
    <3>. QED
      BY <1>6, <3>1 DEF Configured, Configures
  <2>. QED
    BY <2>1, <2>2
<1>. QED
  BY <1>5, <1>6 DEF Configured

LEMMA MineKeepsConfiguring ==
  ASSUME NetworksInv, NEW c \in Chains, Mine(c), NEW t \in Shells, NEW p \in Processes, p = sh[t]
  PROVE  ConfiguredSoFar(p)'
<1>1. ConfiguredSoFar(p)
  BY DEF NetworksInv
<1>2. SUFFICES ASSUME p.read = "own" PROVE ConfiguredSoFar(p)'
  BY DEF ConfiguredSoFar
<1>3. p.run # 0 /\ DOMAIN p.out = Chains
  BY <1>1, <1>2 DEF ConfiguredSoFar
<1>4. \A d \in Chains : Configured(d, p.out) => Configured(d, p.out)'
  BY <1>3, MineKeepsConfigured
<1>. QED
  BY <1>1, <1>2, <1>3, <1>4, ListedChain DEF ConfiguredSoFar, Configures, Runs
LEMMA MineKeepsPeer ==
  ASSUME NetworksInv, NEW c \in Chains, Mine(c), NEW n \in DOMAIN contracts[FromChain], HasPeer(n)
  PROVE  HasPeer(n)'
<1>. USE ChainsAssumption
<1>1. TogetherInv /\ Grows(c)
  BY MineGrows DEF NetworksInv
<1>2. PICK tx : tx = Head(pools[c])
  OBVIOUS
<1>3. CASE contracts'[FromChain][n].state = contracts[FromChain][n].state
  BY <1>3 DEF HasPeer
<1>4. CASE /\ FromChain = c /\ tx.kind = "govern" /\ n = tx.n /\ GoodGovern(c, tx)
           /\ contracts'[FromChain][n].state = Governed(c, tx).state
  <2>1. \/ Governed(c, tx).state.peers[ToChain] = contracts[c][n].state.peers[ToChain]
        \/ /\ ToChain \in DOMAIN tx.regs
           /\ Governed(c, tx).state.peers[ToChain] = tx.regs[ToChain].peer
    BY <1>1, <1>4, GovernedIs
  <2>2. \A d \in DOMAIN tx.regs : tx.regs[d].peer # NoPeer
    BY <1>4, BatchesAre, AddressAssumption DEF GoodGovern
  <2>. QED
    BY <1>4, <2>1, <2>2 DEF HasPeer
<1>. QED
  BY <1>1, <1>2, <1>3, <1>4, MinedStates

\* The position of a transaction moves up when one of its chain is mined.
Position(c, k) == IF c = FromChain THEN k - 1 ELSE k
LEMMA MineKeepsTests ==
  ASSUME NetworksInv, NEW c \in Chains, Mine(c), NEW tx, NEW k \in Nat, TestOK(tx, k)
  PROVE  TestOK(tx, Position(c, k))'
<1>. USE ChainsAssumption
<1>1. TogetherInv /\ Grows(c) /\ pools[c] # <<>>
  BY MineGrows DEF NetworksInv
<1>2. tx.n \in DOMAIN contracts[FromChain]
  BY DEF TestOK
<1>3. /\ tx.n \in DOMAIN contracts'[FromChain]
      /\ contracts'[FromChain][tx.n].run = contracts[FromChain][tx.n].run
  BY <1>1, <1>2 DEF Grows, Kept
<1>4. ASSUME HasPeer(tx.n)
      PROVE  Follows(tx, Position(c, k))'
  <2>1. HasPeer(tx.n)'
    BY <1>2, <1>4, MineKeepsPeer
  <2>. QED
    BY <2>1 DEF Follows, HasPeer
<1>5. ASSUME NEW j \in DOMAIN pools[FromChain], j < k, GivesPeer(pools[FromChain][j], tx.n)
      PROVE  Follows(tx, Position(c, k))'
  <2>1. CASE c = FromChain /\ j = 1
    <3>1. PICK batch : batch = Head(pools[c]) /\ GivesPeer(batch, tx.n)
      BY <1>1, <1>5, <2>1, HeadIs
    <3>2. GoodGovern(c, batch) /\ contracts'[c][tx.n].state.peers[ToChain] = batch.regs[ToChain].peer
      BY <3>1, MinedBatch DEF GivesPeer
    <3>3. batch.regs[ToChain].peer # NoPeer
      BY <3>1, <3>2, BatchesAre, AddressAssumption DEF GoodGovern, GivesPeer
    <3>. QED
      BY <2>1, <3>2, <3>3 DEF Follows, HasPeer
  <2>2. CASE ~ (c = FromChain /\ j = 1)
    <3>1. PICK i \in DOMAIN pools'[FromChain] :
            /\ pools'[FromChain][i] = pools[FromChain][j]
            /\ i = IF FromChain = c THEN j - 1 ELSE j
      BY <1>1, <2>2, MinedTxs
    <3>2. j \in Nat
      BY <1>1, ContractParts DEF TogetherInv
    <3>3. i < Position(c, k)
      BY <1>5, <3>1, <3>2 DEF Position
    <3>. QED
      BY <1>5, <3>1, <3>3 DEF Follows, GivesPeer, Position
  <2>. QED
    BY <2>1, <2>2
<1>. QED
  BY <1>3, <1>4, <1>5 DEF TestOK, Follows, Position

\* The order that is mined is accepted.
LEMMA MineTested ==
  ASSUME NetworksInv, NEW c \in Chains, Mine(c)
  PROVE  FALSE \notin tests'
<1>1. TogetherInv /\ FALSE \notin tests /\ pools[c] # <<>>
  BY MineGrows DEF NetworksInv, TestsOK
<1>2. PICK tx : tx = Head(pools[c])
  OBVIOUS
<1>3. CASE tests' = tests
  BY <1>1, <1>3
<1>4. CASE /\ tx.kind = "initiate" /\ tx.own /\ contracts[c][tx.n].run = tx.run
           /\ tests' = tests \union {Initiates(contracts[c][tx.n].state, tx.fast)}
  <2>1. c = FromChain /\ TestOK(tx, 1) /\ tx \in InitiateTxs
    BY <1>1, <1>2, <1>4, HeadIs, TxKinds DEF NetworksInv, TestsOK
  <2>2. Follows(tx, 1) /\ tx.n \in DOMAIN contracts[FromChain] /\ tx.fast \in BOOLEAN
    BY <1>4, <2>1 DEF TestOK, InitiateTxs
  <2>3. pools[FromChain] \in Seq(Txs)
    BY <1>1, ChainsAssumption DEF TogetherInv, TypeOK
  <2>4. HasPeer(tx.n)
    BY <2>2, <2>3 DEF Follows
  <2>5. contracts[FromChain][tx.n].state \in States(FromChain)
    BY <1>1, <2>2, ChainsAssumption, ContractIs DEF TogetherInv
  <2>6. Initiates(contracts[FromChain][tx.n].state, tx.fast)
    BY <2>2, <2>4, <2>5, InitiatesAssumption DEF HasPeer
  <2>. QED
    BY <1>1, <1>4, <2>1, <2>6
<1>. QED
  BY <1>2, <1>3, <1>4 DEF Mine, MineCreate, MineGovern, MineInitiate

LEMMA MineTests ==
  ASSUME NetworksInv, NEW c \in Chains, Mine(c)
  PROVE  TestsOK'
<1>. USE ChainsAssumption
<1>1. TogetherInv /\ TestsOK /\ sh' = sh
  BY MineGrows DEF NetworksInv
<1>2. ASSUME NEW d \in Chains, NEW k \in DOMAIN pools'[d], pools'[d][k].kind = "initiate"
      PROVE  d = FromChain /\ TestOK(pools[d][k], k)'
  <2>1. PICK tx : tx = pools'[d][k]
    OBVIOUS
  <2>2. PICK j \in DOMAIN pools[d] : pools[d][j] = tx /\ j = IF d = c THEN k + 1 ELSE k
    BY <1>1, <2>1, MinedTxs
  <2>3. d = FromChain /\ TestOK(tx, j)
    BY <1>1, <1>2, <2>1, <2>2 DEF TestsOK
  <2>4. j \in Nat /\ k \in Nat
    <3>1. DOMAIN pools'[d] = 1..Len(pools'[d])
      BY <1>1, MinedTxs
    <3>. QED
      BY <1>1, <3>1, ContractParts DEF TogetherInv
  <2>5. Position(c, j) = k
    BY <2>2, <2>3, <2>4 DEF Position
  <2>6. TestOK(tx, Position(c, j))'
    BY <2>3, <2>4, MineKeepsTests
  <2>7. TestOK(tx, k)'
    BY <2>5, <2>6 DEF Position
  <2>. QED
    BY <2>1, <2>3, <2>7
<1>3. ASSUME NEW t \in Shells, sh[t].pc = "approving"
      PROVE  TestOK(sh[t].tx, Len(pools[FromChain]) + 1)'
  <2>1. PICK tx, k : tx = sh[t].tx /\ k = Len(pools[FromChain]) + 1 /\ TestOK(tx, k)
    BY <1>1, <1>3 DEF TestsOK
  <2>2. pools[FromChain] \in Seq(Txs) /\ k \in Nat
    BY <1>1, <2>1 DEF TogetherInv, TypeOK
  <2>3. Position(c, k) = Len(pools'[FromChain]) + 1
    <3>1. CASE c = FromChain
      <4>1. pools'[c] = Tail(pools[c]) /\ pools[c] # <<>>
        BY <1>1, MineGrows DEF TogetherInv, TypeOK
      <4>2. Len(pools'[c]) = Len(pools[c]) - 1 /\ Len(pools[c]) \in Nat
        BY <2>2, <3>1, <4>1, HeadTailProperties
      <4>. QED
        BY <2>1, <3>1, <4>2 DEF Position
    <3>2. CASE c # FromChain
      BY <1>1, <2>1, <3>2, MinedTxs DEF Position
    <3>. QED
      BY <3>1, <3>2
  <2>4. TestOK(tx, Position(c, k))'
    BY <2>1, <2>2, MineKeepsTests
  <2>5. TestOK(tx, Len(pools[FromChain]) + 1)'
    BY <2>3, <2>4 DEF Position, TestOK, Follows
  <2>. QED
    BY <1>1, <2>1, <2>5
<1>. QED
  BY <1>1, <1>2, <1>3, MineTested DEF TestsOK

LEMMA MineKeepsNetworks ==
  ASSUME NetworksInv, TogetherInv', NEW c \in Chains, Mine(c)
  PROVE  NetworksInv'
<1>1. TogetherInv /\ sh' = sh
  BY MineGrows DEF NetworksInv
<1>2. AcceptedOK'
  BY <1>1, MinedTxs DEF NetworksInv, AcceptedOK, Accepted
<1>3. ASSUME NEW t \in Shells
      PROVE  DeployedSoFar(sh[t])' /\ ConfiguredSoFar(sh[t])'
  <2>1. PICK p \in Processes : p = sh[t] /\ DeployedSoFar(p)
    BY <1>1, ShellParts DEF NetworksInv, TogetherInv
  <2>2. ConfiguredSoFar(p)'
    BY <2>1, MineKeepsConfiguring
  <2>. QED
    BY <1>1, <2>1, <2>2 DEF DeployedSoFar, Runs
<1>. QED
  BY <1>2, <1>3, MineRuns, MineRecorded, MineTests DEF NetworksInv

LEMMA NetworksInit ==
  ASSUME ScriptsInit, TogetherInv
  PROVE  NetworksInv
<1>1. /\ \A c \in Chains : pools[c] = <<>> /\ DOMAIN contracts[c] = {1} /\ contracts[c][1].run = 0
      /\ \A s \in Shells : sh[s] = Idle
      /\ FALSE \notin tests /\ started = {}
  BY DEF ScriptsInit, Contract
<1>2. Number = 0
  BY <1>1, FS_EmptySet DEF Number
<1>3. Idle.pc = "idle" /\ Idle.run = 0 /\ Idle.read = "none"
  BY DEF Idle
<1>4. RunsOK
  BY <1>1, <1>2, <1>3 DEF RunsOK
<1>5. RecordedOK /\ AcceptedOK
  BY <1>1, <1>3 DEF RecordedOK, AcceptedOK
<1>6. TestsOK
  <2>1. \A c \in Chains : DOMAIN pools[c] = {}
    BY <1>1
  <2>2. \A s \in Shells : sh[s].pc # "approving"
    BY <1>1, <1>3
  <2>. QED
    BY <1>1, <2>1, <2>2 DEF TestsOK
<1>7. \A s \in Shells : DeployedSoFar(sh[s]) /\ ConfiguredSoFar(sh[s])
  BY <1>1, <1>3 DEF DeployedSoFar, ConfiguredSoFar
<1>. QED
  BY <1>4, <1>5, <1>6, <1>7 DEF NetworksInv

LEMMA NothingKeepsNetworks ==
  ASSUME NetworksInv, TogetherInv', UNCHANGED scriptVars
  PROVE  NetworksInv'
<1>1. /\ contracts' = contracts /\ pools' = pools /\ files' = files /\ sh' = sh
      /\ started' = started /\ tests' = tests
  BY DEF scriptVars
<1>2. RunsOK' /\ AcceptedOK'
  BY <1>1 DEF NetworksInv, RunsOK, AcceptedOK, Number, Accepted
<1>3. RecordedOK'
  <2>1. \A c, tx, p : GovernOf(c, tx, p) => GovernOf(c, tx, p)'
    BY <1>1 DEF GovernOf, GovernsFor, Settled
  <2>2. \A p : Recorded(p) => Recorded(p)'
    BY <1>1, <2>1 DEF Recorded, FileOf, Settled
  <2>. QED
    BY <1>1, <2>2 DEF NetworksInv, RecordedOK
<1>4. TestsOK'
  BY <1>1 DEF NetworksInv, TestsOK, TestOK, Follows, HasPeer, GivesPeer
<1>5. ASSUME NEW s \in Shells
      PROVE  DeployedSoFar(sh[s])' /\ ConfiguredSoFar(sh[s])'
  <2>1. PICK p \in Processes : p = sh[s] /\ DeployedSoFar(p) /\ ConfiguredSoFar(p)
    BY ShellParts DEF NetworksInv, TogetherInv
  <2>2. ConfiguredSoFar(p)'
    BY <1>1, <2>1, PostsKeepConfiguring DEF NetworksInv, NetPosts
  <2>. QED
    BY <1>1, <2>1, <2>2 DEF DeployedSoFar, Runs
<1>. QED
  BY <1>2, <1>3, <1>4, <1>5 DEF NetworksInv

LEMMA NetworksAlways == ScriptsSpec => []NetworksInv
<1>1. NetworksInv => TogetherInv
  BY DEF NetworksInv
<1>2. NetworksInv /\ TogetherInv' /\ [ScriptsNext]_scriptVars => NetworksInv'
  BY MineKeepsNetworks, ScriptsNet, NetStepKeeps, NothingKeepsNetworks
<1>. QED
  BY <1>1, <1>2, NetworksInit, TogetherAlways, PTL DEF ScriptsSpec

LEMMA ConfiguredNetworks ==
  ASSUME NetworksInv
  PROVE  ConfiguredWhenDone
<1>1. ASSUME NEW s \in Shells, Done(s)
      PROVE  DeployedNetwork(sh[s].out)
  <2>1. /\ DOMAIN sh[s].out = Chains
        /\ \A c \in Chains : Configured(c, sh[s].out)
    BY <1>1 DEF NetworksInv, ConfiguredSoFar, Done
  <2>2. \A c \in Chains : DOMAIN pools[c] = {}
    BY <1>1 DEF Done
  <2>. QED
    BY <2>1, <2>2 DEF DeployedNetwork, Configured, HasPeers, OtherChains
<1>. QED
  BY <1>1 DEF ConfiguredWhenDone, NetworksInv, TestsOK

\* Whatever else shells run meanwhile, a shell that read the contracts that it
\* had deployed and ended well leaves a network in which each of them has every
\* other as its peer, and its test order is accepted although the shell does not
\* wait for the configuration (configureSwapLayer.ts, testRegularSend.ts).
THEOREM DeploymentsWork == ScriptsSpec => []ConfiguredWhenDone
  BY NetworksAlways, ConfiguredNetworks, PTL
=============================================================================
