------------------------ MODULE TestnetRelayer_proof ------------------------
(***************************************************************************)
(* Proofs about TestnetRelayer: a chain's listener survives every          *)
(* reconnection, no transaction of the relayer waits for a nonce that      *)
(* nobody will use, and an order it could have redeemed is lost only to    *)
(* another of its own transactions.                                        *)
(*                                                                         *)
(* What a handler does with a nonce is safe because the number a node      *)
(* gives out next, the transactions mined plus those pending, never goes   *)
(* down (Issued), and every number below it belongs to a handler.          *)
(***************************************************************************)
EXTENDS TestnetRelayer, FiniteSetTheorems, TLAPS

USE RelayerAssumption

-----------------------------------------------------------------------------
(* The listeners.                                                          *)

Sockets == {"closed", "connecting", "open", "half", "gone"}
Listening == [fresh : Nat, stale : Nat]

WiresType ==
  /\ up \in BOOLEAN /\ run \in BOOLEAN
  /\ socket \in [Chains -> Sockets]
  /\ live \in [Chains -> Listening] /\ saved \in [Chains -> Listening]

Fresh(c) == live[c].fresh + saved[c].fresh
Silent(c) == live[c] = NoListener /\ saved[c] = NoListener

(* Each chain has one listener or, before the first round, none has any.   *)
WiresInv ==
  /\ WiresType
  /\ \A c \in Chains : socket[c] = "open" => saved[c] = NoListener
  /\ up /\ run => (\A c \in Chains : Silent(c)) \/ (\A c \in Chains : Fresh(c) = 1)

LEMMA ListenersAre ==
  /\ NoListener \in Listening
  /\ NoListener.fresh = 0 /\ NoListener.stale = 0
  /\ \A a, b \in Listening : /\ Join(a, b) \in Listening
                             /\ Join(a, b).fresh = a.fresh + b.fresh
                             /\ Join(a, b).stale = a.stale + b.stale
  /\ Join(NoListener, NoListener) = NoListener
BY DEF Listening, NoListener, Join

(* The listener a round of main leaves a chain.                            *)
LEMMA SubscribedIs ==
  ASSUME WiresType, NEW c \in Chains
  PROVE  /\ subscribeToEvents(c).live \in Listening
         /\ subscribeToEvents(c).saved \in Listening
         /\ subscribeToEvents(c).live.fresh = 1
         /\ subscribeToEvents(c).saved.fresh = 0
         /\ saved[c] = NoListener => subscribeToEvents(c).saved = NoListener
<1>1. live[c] \in Listening /\ saved[c] \in Listening
  BY DEF WiresType
<1>2. PICK l : l = [live[c] EXCEPT !.fresh = 0]
  OBVIOUS
<1>3. l \in Listening
  BY <1>1, <1>2 DEF Listening
<1>4. PICK s : s = [fresh |-> 0, stale |-> saved[c].stale + saved[c].fresh]
  OBVIOUS
<1>5. /\ s \in Listening /\ s.fresh = 0
      /\ saved[c] = NoListener => s = NoListener
  BY <1>1, <1>4 DEF Listening, NoListener
<1>6. Unsubscribed(c) = [live |-> l, saved |-> s]
  BY <1>2, <1>4 DEF Unsubscribed
<1>7. PICK m : m = [l EXCEPT !.fresh = 1]
  OBVIOUS
<1>8. m \in Listening /\ m.fresh = 1
  BY <1>3, <1>7 DEF Listening
<1>9. subscribeToEvents(c).live = m /\ subscribeToEvents(c).saved = s
  <2>1. PICK u : u = [live |-> l, saved |-> s]
    OBVIOUS
  <2>2. subscribeToEvents(c) = [u EXCEPT !.live.fresh = 1]
    BY <1>6, <2>1 DEF subscribeToEvents
  <2>3. u.live = l /\ u.saved = s
    BY <2>1
  <2>4. subscribeToEvents(c) = [u EXCEPT !.live = m]
    BY <1>7, <2>2, <2>3
  <2>. QED BY <2>1, <2>3, <2>4
<1>. QED BY <1>5, <1>8, <1>9

LEMMA WiresNext == WiresInv /\ [Next]_vars => WiresInv'
<1>. SUFFICES ASSUME WiresInv, [Next]_vars PROVE WiresInv'
  OBVIOUS
<1>. USE DEF WiresInv
<1>1. CASE UNCHANGED wires /\ UNCHANGED <<up, run>>
  BY <1>1 DEF wires, WiresType, Silent, Fresh
<1>2. ASSUME Exit PROVE WiresInv'
  <2>1. NoListener \in Listening
    BY ListenersAre
  <2>. QED BY <1>2, <2>1 DEF Exit, WiresType, Sockets
<1>3. CASE Start
  <2>1. NoListener \in Listening
    BY ListenersAre
  <2>. QED BY <1>3, <2>1 DEF Start, WiresType, Sockets, Silent
<1>4. CASE MainRound
  <2>1. PICK known : known = {c \in Chains : "network" \in config[c]}
    OBVIOUS
  <2>2. CASE Exit
    BY <1>2, <2>2
  <2>3. CASE /\ run' = (known = Chains)
             /\ live' = [c \in Chains |-> IF c \in known THEN subscribeToEvents(c).live ELSE live[c]]
             /\ saved' = [c \in Chains |-> IF c \in known THEN subscribeToEvents(c).saved ELSE saved[c]]
             /\ UNCHANGED <<up, config, socket, task, heard, chain>>
    <3>1. WiresType'
      BY <2>3, SubscribedIs DEF WiresType
    <3>2. \A c \in Chains : socket'[c] = "open" => saved'[c] = NoListener
      BY <2>3, SubscribedIs
    <3>3. up' /\ run' => \A c \in Chains : Fresh(c)' = 1
      <4>1. SUFFICES ASSUME run', NEW c \in Chains PROVE live'[c].fresh + saved'[c].fresh = 1
        BY DEF Fresh
      <4>2. c \in known
        BY <2>3, <4>1
      <4>3. live'[c].fresh = 1 /\ saved'[c].fresh = 0
        BY <2>3, <4>2, SubscribedIs
      <4>. QED BY <4>3
    <3>. QED BY <3>1, <3>2, <3>3
  <2>. QED BY <1>4, <2>1, <2>2, <2>3 DEF MainRound
<1>5. ASSUME NEW c \in Chains, Wire(c) PROVE WiresInv'
  <2>1. CASE Open(c)
    <3>1. live[c] \in Listening /\ saved[c] \in Listening
      BY DEF WiresType
    <3>2. /\ live' = [live EXCEPT ![c] = Join(live[c], saved[c])]
          /\ saved' = [saved EXCEPT ![c] = NoListener]
          /\ socket' = [socket EXCEPT ![c] = "open"] /\ up' = up /\ run' = run
      BY <2>1 DEF Open, process
    <3>3. WiresType'
      BY <3>1, <3>2, ListenersAre DEF WiresType, Sockets
    <3>4. \A d \in Chains : socket'[d] = "open" => saved'[d] = NoListener
      BY <3>2 DEF WiresType
    <3>5. \A d \in Chains : Silent(d) => Silent(d)'
      BY <3>2, ListenersAre DEF Silent, WiresType
    <3>6. \A d \in Chains : Fresh(d)' = Fresh(d)
      <4>1. ASSUME NEW d \in Chains PROVE Fresh(d)' = Fresh(d)
        <5>1. CASE d = c
          <6>1. /\ live'[d].fresh = live[d].fresh + saved[d].fresh /\ saved'[d].fresh = 0
            BY <3>1, <3>2, <5>1, ListenersAre DEF WiresType
          <6>2. live[d].fresh \in Nat /\ saved[d].fresh \in Nat
            BY <3>1, <5>1 DEF Listening
          <6>. QED BY <6>1, <6>2 DEF Fresh
        <5>2. CASE d # c
          BY <3>2, <5>2 DEF Fresh, WiresType
        <5>. QED BY <5>1, <5>2
      <4>. QED BY <4>1
    <3>. QED BY <3>2, <3>3, <3>4, <3>5, <3>6
  <2>2. CASE Create(c)
    <3>1. live[c] \in Listening /\ saved[c] \in Listening
      BY DEF WiresType
    <3>2. /\ saved' = [saved EXCEPT ![c] = Join(saved[c], live[c])]
          /\ live' = [live EXCEPT ![c] = NoListener]
          /\ socket' = [socket EXCEPT ![c] = "connecting"] /\ up' = up /\ run' = run
      BY <2>2 DEF Create, process
    <3>3. WiresType'
      BY <3>1, <3>2, ListenersAre DEF WiresType, Sockets
    <3>4. \A d \in Chains : socket'[d] = "open" => saved'[d] = NoListener
      BY <3>2 DEF WiresType
    <3>5. \A d \in Chains : Silent(d) => Silent(d)'
      BY <3>2, ListenersAre DEF Silent, WiresType
    <3>6. \A d \in Chains : Fresh(d)' = Fresh(d)
      <4>1. ASSUME NEW d \in Chains PROVE Fresh(d)' = Fresh(d)
        <5>1. CASE d = c
          <6>1. /\ saved'[d].fresh = saved[d].fresh + live[d].fresh /\ live'[d].fresh = 0
            BY <3>1, <3>2, <5>1, ListenersAre DEF WiresType
          <6>2. live[d].fresh \in Nat /\ saved[d].fresh \in Nat
            BY <3>1, <5>1 DEF Listening
          <6>. QED BY <6>1, <6>2 DEF Fresh
        <5>2. CASE d # c
          BY <3>2, <5>2 DEF Fresh, WiresType
        <5>. QED BY <5>1, <5>2
      <4>. QED BY <4>1
    <3>. QED BY <3>2, <3>3, <3>4, <3>5, <3>6
  <2>3. CASE Refused(c)
    BY <1>2, <2>3 DEF Refused
  <2>4. CASE Drop(c) \/ GoSilent(c) \/ Terminate(c) \/ NormalClose(c)
    <3>1. /\ UNCHANGED <<up, run, live, saved>>
          /\ \E s \in Sockets : s # "open" /\ socket' = [socket EXCEPT ![c] = s]
      BY <2>4 DEF Drop, GoSilent, Terminate, NormalClose, process, Sockets
    <3>. QED BY <3>1 DEF WiresType, Silent, Fresh
  <2>. QED BY <1>5, <2>1, <2>2, <2>3, <2>4 DEF Wire
<1>6. ASSUME NEW t \in Tasks, Handle(t) PROVE WiresInv'
  BY <1>1, <1>6 DEF Handle, GetReceipt, Attested, GetVaa, Populate, Send, Await, SentTwice,
       process, wires
<1>7. ASSUME NEW tx \in pool, Mine(tx) PROVE WiresInv'
  BY <1>1, <1>7 DEF Mine, process, wires
<1>8. ASSUME NEW o \in Orders, Publish(o) \/ OthersRedeem(o) PROVE WiresInv'
  BY <1>1, <1>8 DEF Publish, OthersRedeem, process, wires
<1>9. CASE UNCHANGED vars
  BY <1>1, <1>9 DEF vars, process, wires
<1>. QED BY <1>3, <1>4, <1>5, <1>6, <1>7, <1>8, <1>9 DEF Next

LEMMA WiresKept == Spec => []WiresInv
<1>1. Init => WiresInv
  <2>1. NoListener \in Listening
    BY ListenersAre
  <2>2. SUFFICES ASSUME Init PROVE WiresInv
    OBVIOUS
  <2>3. WiresType
    BY <2>1, <2>2 DEF Init, WiresType, Sockets
  <2>4. up = FALSE /\ \A c \in Chains : saved[c] = NoListener
    BY <2>2 DEF Init
  <2>. QED BY <2>3, <2>4 DEF WiresInv
<1>. QED BY <1>1, WiresNext, PTL DEF Spec

(* Whatever happens to the connections, and however often main goes round, *)
(* a chain that was subscribed keeps exactly one listener its contract     *)
(* knows of (websocket.ts, create; index.ts, subscribeToEvents).           *)
THEOREM ListenersSurvive == Spec => []ListenersKept
<1>1. WiresInv => ListenersKept
  <2>. SUFFICES ASSUME WiresInv PROVE ListenersKept
    OBVIOUS
  <2>1. \A c \in Chains : Silent(c) => Count(live[c]) + Count(saved[c]) = 0
    BY DEF Silent, Count, NoListener
  <2>. QED BY <2>1 DEF WiresInv, ListenersKept, Fresh
<1>. QED BY <1>1, WiresKept, PTL

-----------------------------------------------------------------------------
(* The nonces of the relayer's key and what its transactions redeem.       *)

Pcs == {"idle", "ignored", "receipt", "circle", "vaa", "redeem", "send", "wait", "done", "dropped"}
Sent == {"wait", "done", "dropped"}
TaskRec == [pc : Pcs, to : Chains \cup {NoChain}, nonce : Nat \cup {-1}]
Tx == [task : Tasks, to : Chains, nonce : Nat]

(* The nonce a node gives out next.                                        *)
Issued(c) == mined[c] + Cardinality(Pending(c))

MoneyType ==
  /\ task \in [Tasks -> TaskRec]
  /\ placed \subseteq Orders
  /\ pool \subseteq Tx /\ IsFiniteSet(pool)
  /\ mined \in [Chains -> Nat]
  /\ redeemed \in [Orders -> Nat]
  /\ paid \subseteq Orders

(* A handler knows its chain and its nonce from the step that reads them.  *)
TaskOK(t, s, pl) ==
  /\ s.pc # "idle" => t[1] \in pl
  /\ s.to # NoChain => s.pc \in Sent \cup {"redeem", "send"}
  /\ s.pc \in {"redeem", "send", "wait", "done"} => s.to \in Chains
  /\ s.nonce # -1 => s.pc \in Sent \cup {"send"}

TasksInv ==
  /\ \A t \in Tasks : TaskOK(t, task[t], placed)
  /\ \A t \in Tasks : task[t].pc = "send" =>
                        task[t].nonce \in Nat /\ task[t].nonce <= Issued(task[t].to)

PoolInv ==
  /\ \A tx \in pool : /\ task[tx.task].to = tx.to /\ task[tx.task].nonce = tx.nonce
                      /\ task[tx.task].pc \in Sent
                      /\ tx.nonce < Issued(tx.to)
  /\ \A c \in Chains, n \in Nat : n < Issued(c) => Taken(c, n)

MoneyInv == MoneyType /\ TasksInv /\ PoolInv

LEMMA IssuedIs ==
  ASSUME MoneyType, NEW c \in Chains
  PROVE  /\ IsFiniteSet(Pending(c)) /\ Cardinality(Pending(c)) \in Nat
         /\ mined[c] \in Nat /\ Issued(c) \in Nat
<1>1. Pending(c) \in SUBSET pool /\ IsFiniteSet(pool)
  BY DEF Pending, MoneyType
<1>2. IsFiniteSet(Pending(c))
  BY <1>1, FS_Subset
<1>3. Cardinality(Pending(c)) \in Nat
  BY <1>2, FS_CardinalityType
<1>4. mined[c] \in Nat
  BY DEF MoneyType
<1>. QED BY <1>2, <1>3, <1>4 DEF Issued

(* The node refuses the nonces below the one it gives out next, no other.  *)
LEMMA TakenIs ==
  ASSUME MoneyInv, NEW c \in Chains, NEW n \in Nat
  PROVE  Taken(c, n) <=> n < Issued(c)
<1>1. PICK m \in Nat : m = Issued(c)
  BY IssuedIs DEF MoneyInv
<1>2. mined[c] \in Nat /\ mined[c] <= m
  BY <1>1, IssuedIs DEF MoneyInv, Issued
<1>3. \A tx \in Pending(c) : tx.nonce < m
  BY <1>1 DEF Pending, MoneyInv, PoolInv
<1>4. Taken(c, n) => n < m
  BY <1>2, <1>3 DEF Taken
<1>. QED BY <1>1, <1>4 DEF MoneyInv, PoolInv

LEMMA IssuedStays ==
  ASSUME UNCHANGED <<pool, mined>>
  PROVE  /\ \A c : Issued(c)' = Issued(c)
         /\ \A c, n : Taken(c, n)' <=> Taken(c, n)
BY DEF Issued, Taken, Pending

(* Handlers make a step of their own: no transaction moves, and a chain or *)
(* a nonce once known stays.                                               *)
Steps(s, r) ==
  /\ s.to # NoChain => r.to = s.to
  /\ s.nonce # -1 => r.nonce = s.nonce
  /\ s.pc \in Sent => r.pc \in Sent /\ r.nonce = s.nonce

LEMMA HandlersStep ==
  ASSUME MoneyInv, UNCHANGED <<pool, mined, redeemed, paid>>,
         placed' \subseteq Orders, placed \subseteq placed',
         task' \in [Tasks -> TaskRec],
         \A t \in Tasks : /\ Steps(task[t], task'[t])
                          /\ TaskOK(t, task'[t], placed')
                          /\ task'[t].pc = "send" => /\ task'[t].nonce \in Nat
                                                     /\ task'[t].nonce <= Issued(task'[t].to)
  PROVE  MoneyInv'
<1>1. \A c : Issued(c)' = Issued(c)
  BY IssuedStays
<1>2. MoneyType'
  BY DEF MoneyInv, MoneyType
<1>3. TasksInv'
  BY <1>1 DEF TasksInv
<1>4. PoolInv'
  <2>1. ASSUME NEW tx \in pool
        PROVE  /\ task'[tx.task].to = tx.to /\ task'[tx.task].nonce = tx.nonce
               /\ task'[tx.task].pc \in Sent /\ tx.nonce < Issued(tx.to)'
    <3>1. tx.task \in Tasks /\ tx.to \in Chains /\ tx.to # NoChain
      BY DEF MoneyInv, MoneyType, Tx
    <3>2. /\ task[tx.task].to = tx.to /\ task[tx.task].nonce = tx.nonce
          /\ task[tx.task].pc \in Sent /\ tx.nonce < Issued(tx.to)
      BY DEF MoneyInv, PoolInv
    <3>. QED BY <1>1, <3>1, <3>2 DEF Steps
  <2>2. \A c, n : Taken(c, n)' <=> Taken(c, n)
    BY IssuedStays
  <2>. QED BY <1>1, <2>1, <2>2 DEF MoneyInv, PoolInv
<1>. QED BY <1>2, <1>3, <1>4 DEF MoneyInv

(* A step of one handler.                                                  *)
LEMMA HandlerSteps ==
  ASSUME MoneyInv, UNCHANGED chain, NEW t \in Tasks, NEW r \in TaskRec,
         task' = [task EXCEPT ![t] = r], Steps(task[t], r), TaskOK(t, r, placed),
         r.pc = "send" => r.nonce \in Nat /\ r.nonce <= Issued(r.to)
  PROVE  MoneyInv'
<1>1. /\ placed' = placed /\ UNCHANGED <<pool, mined, redeemed, paid>>
      /\ task \in [Tasks -> TaskRec] /\ placed \subseteq Orders
  BY DEF chain, MoneyInv, MoneyType
<1>2. task' \in [Tasks -> TaskRec]
  BY <1>1
<1>3. ASSUME NEW u \in Tasks
      PROVE  /\ Steps(task[u], task'[u])
             /\ TaskOK(u, task'[u], placed')
             /\ task'[u].pc = "send" => /\ task'[u].nonce \in Nat
                                        /\ task'[u].nonce <= Issued(task'[u].to)
  <2>1. CASE u = t
    BY <1>1, <2>1
  <2>2. CASE u # t
    BY <1>1, <2>2 DEF MoneyInv, TasksInv, Steps
  <2>. QED BY <2>1, <2>2
<1>. QED BY <1>1, <1>2, <1>3, HandlersStep

LEMMA DroppedSteps ==
  ASSUME MoneyInv, UNCHANGED chain, NEW t \in Tasks, NEW pc \in {"dropped", "done"},
         Goto(t, pc), task[t].pc # "idle", pc = "done" => task[t].pc = "wait"
  PROVE  MoneyInv'
<1>1. PICK s : s = task[t]
  OBVIOUS
<1>2. s \in TaskRec /\ TaskOK(t, s, placed) /\ s.pc # "idle"
  BY <1>1 DEF MoneyInv, MoneyType, TasksInv
<1>3. PICK r : r = [s EXCEPT !.pc = pc]
  OBVIOUS
<1>4. r \in TaskRec /\ r.pc = pc /\ r.to = s.to /\ r.nonce = s.nonce
  BY <1>2, <1>3 DEF TaskRec, Pcs
<1>5. task' = [task EXCEPT ![t] = r]
  BY <1>1, <1>3 DEF Goto
<1>6. Steps(s, r) /\ TaskOK(t, r, placed) /\ r.pc # "send"
  BY <1>1, <1>2, <1>4 DEF Steps, TaskOK, Sent
<1>. QED BY <1>1, <1>4, <1>5, <1>6, HandlerSteps

LEMMA HandleKeeps ==
  ASSUME MoneyInv, NEW t \in Tasks,
         GetReceipt(t) \/ Attested(t) \/ GetVaa(t) \/ Populate(t) \/ Await(t) \/ SentTwice(t)
  PROVE  MoneyInv'
<1>1. UNCHANGED chain
  BY DEF GetReceipt, Attested, GetVaa, HasChainInfo, Populate, Await, SentTwice
<1>2. PICK s : s = task[t]
  OBVIOUS
<1>3. s \in TaskRec /\ TaskOK(t, s, placed)
  BY <1>2 DEF MoneyInv, MoneyType, TasksInv
<1>4. CASE \E pc \in {"circle", "vaa"} : Goto(t, pc) /\ s.pc \in {"receipt", "circle"}
  <2>1. PICK pc \in {"circle", "vaa"} : Goto(t, pc) /\ s.pc \in {"receipt", "circle"}
    BY <1>4
  <2>2. PICK r : r = [s EXCEPT !.pc = pc]
    OBVIOUS
  <2>3. r \in TaskRec /\ r.pc = pc /\ r.to = s.to /\ r.nonce = s.nonce
    BY <1>3, <2>2 DEF TaskRec, Pcs
  <2>4. task' = [task EXCEPT ![t] = r]
    BY <1>2, <2>1, <2>2 DEF Goto
  <2>5. Steps(s, r) /\ TaskOK(t, r, placed) /\ r.pc # "send"
    BY <1>3, <2>1, <2>3 DEF Steps, TaskOK, Sent
  <2>. QED BY <1>1, <1>2, <2>3, <2>4, <2>5, HandlerSteps
<1>5. CASE GetReceipt(t)
  BY <1>1, <1>2, <1>4, <1>5, DroppedSteps DEF GetReceipt, Dropped, At
<1>6. CASE Attested(t)
  BY <1>2, <1>4, <1>6 DEF Attested, At
<1>7. CASE GetVaa(t)
  <2>1. PICK to \in Words :
          IF to \in Chains
          THEN task' = [task EXCEPT ![t].pc = "redeem", ![t].to = to] ELSE Dropped(t)
    BY <1>7 DEF GetVaa, getToChain, HasChainInfo
  <2>2. CASE to \notin Chains
    BY <1>1, <1>2, <1>7, <2>1, <2>2, DroppedSteps DEF GetVaa, Dropped, At
  <2>3. CASE to \in Chains
    <3>1. PICK r : r = [s EXCEPT !.pc = "redeem", !.to = to]
      OBVIOUS
    <3>2. to \in Chains
      BY <2>3
    <3>3. r \in TaskRec /\ r.pc = "redeem" /\ r.to = to /\ r.nonce = s.nonce
      BY <1>3, <3>1, <3>2 DEF TaskRec, Pcs
    <3>4. task' = [task EXCEPT ![t] = r]
      BY <1>2, <2>1, <2>3, <3>1
    <3>5. s.pc = "vaa"
      BY <1>2, <1>7 DEF GetVaa, At
    <3>6. Steps(s, r) /\ TaskOK(t, r, placed)
      BY <1>3, <3>2, <3>3, <3>5 DEF Steps, TaskOK, Sent
    <3>. QED BY <1>1, <1>2, <3>3, <3>4, <3>6, HandlerSteps
  <2>. QED BY <2>2, <2>3
<1>8. CASE Populate(t)
  <2>1. CASE Dropped(t)
    BY <1>1, <1>8, <2>1, DroppedSteps DEF Populate, Dropped, At
  <2>2. CASE task' = [task EXCEPT ![t].pc = "send",
                                  ![t].nonce = mined[s.to] + Cardinality(Pending(s.to))]
    <3>1. s.pc = "redeem" /\ s.to \in Chains
      BY <1>2, <1>3, <1>8 DEF Populate, At, TaskOK
    <3>2. PICK n \in Nat : n = Issued(s.to)
      BY <3>1, IssuedIs DEF MoneyInv
    <3>3. PICK r : r = [s EXCEPT !.pc = "send", !.nonce = n]
      OBVIOUS
    <3>4. r \in TaskRec /\ r.pc = "send" /\ r.to = s.to /\ r.nonce = n
      BY <1>3, <3>3 DEF TaskRec, Pcs
    <3>5. task' = [task EXCEPT ![t] = r]
      BY <1>2, <2>2, <3>2, <3>3 DEF Issued
    <3>6. Steps(s, r) /\ TaskOK(t, r, placed)
      BY <1>3, <3>1, <3>4 DEF Steps, TaskOK, Sent
    <3>7. r.pc = "send" => r.nonce \in Nat /\ r.nonce <= Issued(r.to)
      BY <3>2, <3>4
    <3>. QED BY <1>1, <1>2, <3>4, <3>5, <3>6, <3>7, HandlerSteps
  <2>. QED BY <1>2, <1>8, <2>1, <2>2 DEF Populate
<1>9. CASE Await(t)
  BY <1>1, <1>9, DroppedSteps DEF Await, Dropped, At
<1>10. CASE SentTwice(t)
  BY <1>1, <1>10, DroppedSteps DEF SentTwice, Dropped, At
<1>. QED BY <1>5, <1>6, <1>7, <1>8, <1>9, <1>10

(* The node accepts a transaction only with the nonce it gives out next.   *)
LEMMA SendIssues ==
  ASSUME MoneyInv, NEW t \in Tasks, Send(t), ~(task[t].nonce < Issued(task[t].to))
  PROVE  /\ task[t].to \in Chains /\ task[t].nonce = Issued(task[t].to)
         /\ pool' = pool \cup {[task |-> t, to |-> task[t].to, nonce |-> task[t].nonce]}
         /\ Goto(t, "wait") /\ UNCHANGED <<placed, mined, redeemed, paid>>
         /\ \A c \in Chains : Issued(c)' = IF c = task[t].to THEN Issued(c) + 1 ELSE Issued(c)
<1>1. PICK s : s = task[t]
  OBVIOUS
<1>2. s.pc = "send" /\ s.to \in Chains /\ s.nonce \in Nat /\ s.nonce <= Issued(s.to)
  BY <1>1 DEF MoneyInv, TasksInv, TaskOK, Send, At
<1>3. Issued(s.to) \in Nat
  BY <1>2, IssuedIs DEF MoneyInv
<1>4. s.nonce = Issued(s.to)
  <2>1. PICK n \in Nat : n = Issued(s.to)
    BY <1>3
  <2>2. ~(s.nonce < n)
    BY <1>1, <2>1
  <2>3. PICK m \in Nat : m = s.nonce
    BY <1>2
  <2>4. m <= n
    BY <1>2, <2>1, <2>3
  <2>5. ~(m < n)
    BY <2>2, <2>3
  <2>6. m = n
    BY <2>4, <2>5
  <2>. QED BY <2>1, <2>3, <2>6
<1>5. PICK x : x = [task |-> t, to |-> s.to, nonce |-> s.nonce]
  OBVIOUS
<1>6. x.task = t /\ x.to = s.to
  BY <1>5
<1>7. pool' = pool \cup {x} /\ Goto(t, "wait") /\ UNCHANGED <<placed, mined, redeemed, paid>>
  <2>1. ~Taken(s.to, s.nonce)
    BY <1>1, <1>2, TakenIs
  <2>. QED BY <1>1, <1>5, <2>1 DEF Send
<1>8. \A y \in pool : y.task # t
  BY <1>1, <1>2 DEF MoneyInv, PoolInv, Sent
<1>9. ASSUME NEW c \in Chains, c = s.to PROVE Issued(c)' = Issued(c) + 1
  <2>1. Pending(c)' = Pending(c) \cup {x} /\ x \notin Pending(c)
    BY <1>6, <1>7, <1>8, <1>9 DEF Pending
  <2>2. IsFiniteSet(Pending(c)) /\ Cardinality(Pending(c)) \in Nat /\ mined[c] \in Nat
    BY IssuedIs DEF MoneyInv
  <2>3. Cardinality(Pending(c)') = Cardinality(Pending(c)) + 1
    BY <2>1, <2>2, FS_AddElement
  <2>. QED BY <1>7, <2>2, <2>3 DEF Issued
<1>10. ASSUME NEW c \in Chains, c # s.to PROVE Issued(c)' = Issued(c)
  BY <1>6, <1>7, <1>10 DEF Issued, Pending
<1>. QED BY <1>1, <1>2, <1>4, <1>5, <1>7, <1>9, <1>10

LEMMA SendKeeps ==
  ASSUME MoneyInv, NEW t \in Tasks, Send(t)
  PROVE  MoneyInv'
<1>1. PICK s : s = task[t]
  OBVIOUS
<1>2. /\ s \in TaskRec /\ TaskOK(t, s, placed) /\ s.pc = "send" /\ s.to \in Chains
      /\ s.nonce \in Nat /\ s.nonce <= Issued(s.to)
  BY <1>1 DEF MoneyInv, MoneyType, TasksInv, TaskOK, Send, At
<1>3. Issued(s.to) \in Nat
  BY <1>2, IssuedIs DEF MoneyInv
<1>4. CASE s.nonce < Issued(s.to)
  <2>1. Goto(t, "dropped") /\ UNCHANGED chain
    <3>1. Taken(s.to, s.nonce)
      BY <1>2, <1>4, TakenIs
    <3>. QED BY <1>1, <3>1 DEF Send, Dropped, chain
  <2>. QED BY <1>1, <1>2, <2>1, DroppedSteps
<1>5. CASE ~(s.nonce < Issued(s.to))
  <2>1. s.nonce = Issued(s.to)
    BY <1>2, <1>3, <1>5
  <2>2. PICK x : x = [task |-> t, to |-> s.to, nonce |-> s.nonce]
    OBVIOUS
  <2>3. x \in Tx /\ x.task = t /\ x.to = s.to /\ x.nonce = s.nonce
    BY <1>2, <2>2 DEF Tx
  <2>4. /\ pool' = pool \cup {x} /\ Goto(t, "wait")
        /\ UNCHANGED <<placed, mined, redeemed, paid>>
    <3>1. ~Taken(s.to, s.nonce)
      BY <1>2, <1>5, TakenIs
    <3>. QED BY <1>1, <2>2, <3>1 DEF Send
  <2>5. PICK r : r = [s EXCEPT !.pc = "wait"]
    OBVIOUS
  <2>6. r \in TaskRec /\ r.pc = "wait" /\ r.to = s.to /\ r.nonce = s.nonce
    BY <1>2, <2>5 DEF TaskRec, Pcs
  <2>7. task' = [task EXCEPT ![t] = r] /\ task \in [Tasks -> TaskRec]
    BY <1>1, <2>4, <2>5 DEF Goto, MoneyInv, MoneyType
  <2>8. task'[t] = r /\ \A u \in Tasks : u # t => task'[u] = task[u]
    BY <2>7
  <2>9. \A y \in pool : y.task # t
    BY <1>1, <1>2 DEF MoneyInv, PoolInv, Sent
  <2>10. Issued(s.to)' = Issued(s.to) + 1
    <3>1. PICK c \in Chains : c = s.to
      BY <1>2
    <3>2. Issued(c)' = Issued(c) + 1
      BY <1>1, <1>5, <3>1, SendIssues
    <3>. QED BY <3>1, <3>2
  <2>11. \A c \in Chains : c # s.to => Issued(c)' = Issued(c)
    BY <1>1, <1>5, SendIssues
  <2>12. \A c \in Chains : Issued(c) \in Nat /\ Issued(c)' \in Nat /\ Issued(c) <= Issued(c)'
    <3>1. \A c \in Chains : Issued(c) \in Nat
      BY IssuedIs DEF MoneyInv
    <3>. QED BY <2>10, <2>11, <3>1
  <2>13. MoneyType'
    <3>1. IsFiniteSet(pool')
      BY <2>4, FS_AddElement DEF MoneyInv, MoneyType
    <3>2. task' \in [Tasks -> TaskRec]
      BY <2>6, <2>7
    <3>. QED BY <2>3, <2>4, <3>1, <3>2 DEF MoneyInv, MoneyType
  <2>14. TasksInv'
    <3>1. \A u \in Tasks : TaskOK(u, task'[u], placed')
      BY <1>2, <2>4, <2>6, <2>8 DEF TaskOK, Sent, MoneyInv, TasksInv
    <3>2. ASSUME NEW u \in Tasks, task'[u].pc = "send"
          PROVE  (task[u].nonce \in Nat /\ task[u].nonce <= Issued(task[u].to))'
      <4>1. u # t
        BY <2>6, <2>8, <3>2
      <4>2. PICK c \in Chains : c = task[u].to
        BY <2>8, <3>2, <4>1 DEF MoneyInv, TasksInv, TaskOK
      <4>3. task'[u] = task[u] /\ task[u].nonce \in Nat /\ task[u].nonce <= Issued(c)
        BY <2>8, <3>2, <4>1, <4>2 DEF MoneyInv, TasksInv
      <4>4. PICK m : m = Issued(c)'
        OBVIOUS
      <4>5. m \in Nat /\ Issued(c) \in Nat /\ Issued(c) <= m
        BY <2>12, <4>4
      <4>6. Issued(task[u].to)' = m
        BY <4>2, <4>3, <4>4
      <4>. QED BY <4>3, <4>5, <4>6
    <3>. QED BY <3>1, <3>2 DEF TasksInv
  <2>15. PoolInv'
    <3>1. ASSUME NEW y \in pool
          PROVE  /\ task'[y.task].to = y.to /\ task'[y.task].nonce = y.nonce
                 /\ task'[y.task].pc \in Sent /\ y.nonce < Issued(y.to)'
      <4>1. y.task \in Tasks /\ y.to \in Chains /\ y.nonce \in Nat /\ y.task # t
        BY <2>9 DEF MoneyInv, MoneyType, Tx
      <4>2. /\ task[y.task].to = y.to /\ task[y.task].nonce = y.nonce
            /\ task[y.task].pc \in Sent /\ y.nonce < Issued(y.to)
        BY DEF MoneyInv, PoolInv
      <4>3. Issued(y.to) \in Nat /\ Issued(y.to)' \in Nat /\ Issued(y.to) <= Issued(y.to)'
        BY <2>12, <4>1
      <4>. QED BY <2>8, <4>1, <4>2, <4>3
    <3>2. /\ task'[x.task].to = x.to /\ task'[x.task].nonce = x.nonce
          /\ task'[x.task].pc \in Sent
      BY <2>3, <2>6, <2>8 DEF Sent
    <3>3. x.nonce < Issued(x.to)'
      <4>1. PICK m : m = Issued(s.to)'
        OBVIOUS
      <4>2. Issued(x.to)' = m
        BY <2>3, <4>1
      <4>. QED BY <1>2, <2>1, <2>3, <2>10, <4>1, <4>2
    <3>4. ASSUME NEW c \in Chains, NEW n \in Nat, n < Issued(c)'
          PROVE  Taken(c, n)'
      <4>1. CASE Taken(c, n)
        BY <2>4, <4>1 DEF Taken, Pending
      <4>2. CASE ~Taken(c, n)
        <5>1. PICK m \in Nat : m = Issued(c)
          BY <2>12
        <5>2. ~(n < m)
          BY <4>2, <5>1, TakenIs
        <5>3. c = s.to
          BY <2>11, <3>4, <5>1, <5>2
        <5>4. Issued(c)' = m + 1
          BY <2>10, <5>1, <5>3
        <5>5. n = m
          BY <3>4, <5>2, <5>4
        <5>. QED BY <2>1, <2>3, <2>4, <5>1, <5>3, <5>5 DEF Taken, Pending
      <4>. QED BY <4>1, <4>2
    <3>6. \A y \in pool' : /\ task'[y.task].to = y.to /\ task'[y.task].nonce = y.nonce
                           /\ task'[y.task].pc \in Sent /\ y.nonce < Issued(y.to)'
      BY <2>4, <3>1, <3>2, <3>3
    <3>. QED BY <3>4, <3>6 DEF PoolInv
  <2>. QED BY <2>13, <2>14, <2>15 DEF MoneyInv
<1>. QED BY <1>4, <1>5

(* A mined transaction leaves the nonce given out next where it was.       *)
LEMMA MineIssues ==
  ASSUME MoneyInv, NEW tx \in pool, Mine(tx)
  PROVE  \A d \in Chains : Issued(d)' = Issued(d)
<1>1. PICK c \in Chains : c = tx.to
  BY DEF MoneyInv, MoneyType, Tx
<1>2. pool' = pool \ {tx} /\ mined' = [mined EXCEPT ![c] = mined[c] + 1]
  BY <1>1 DEF Mine
<1>3. Issued(c)' = Issued(c)
  <2>1. Pending(c)' = Pending(c) \ {tx} /\ tx \in Pending(c)
    BY <1>1, <1>2 DEF Pending
  <2>2. IsFiniteSet(Pending(c)) /\ Cardinality(Pending(c)) \in Nat /\ mined[c] \in Nat
    BY <1>1, IssuedIs DEF MoneyInv
  <2>3. Cardinality(Pending(c)') = Cardinality(Pending(c)) - 1
    BY <2>1, <2>2, FS_RemoveElement
  <2>4. mined'[c] = mined[c] + 1
    BY <1>2 DEF MoneyInv, MoneyType
  <2>5. PICK n \in Nat : n = Cardinality(Pending(c))
    BY <2>2
  <2>6. Issued(c) = mined[c] + n /\ Issued(c)' = (mined[c] + 1) + (n - 1)
    BY <2>3, <2>4, <2>5 DEF Issued
  <2>. QED BY <2>2, <2>5, <2>6
<1>4. \A d \in Chains : d # c => Issued(d)' = Issued(d)
  BY <1>1, <1>2 DEF Issued, Pending, MoneyInv, MoneyType
<1>. QED BY <1>3, <1>4

LEMMA MineKeeps ==
  ASSUME MoneyInv, NEW tx \in pool, Mine(tx)
  PROVE  MoneyInv'
<1>1. PICK c \in Chains : c = tx.to
  BY DEF MoneyInv, MoneyType, Tx
<1>2. /\ pool' = pool \ {tx} /\ mined' = [mined EXCEPT ![c] = mined[c] + 1]
      /\ UNCHANGED <<placed, task>>
  BY <1>1 DEF Mine
<1>3. PICK o \in Orders, k \in Copies : tx.task = <<o, k>>
  BY DEF MoneyInv, MoneyType, Tx, Tasks
<1>4. task[<<o, k>>].to = c
  BY <1>1, <1>3 DEF MoneyInv, PoolInv
<1>5. \A d \in Chains : Issued(d)' = Issued(d)
  BY MineIssues
<1>6. \/ UNCHANGED <<redeemed, paid>>
      \/ /\ c = To[o] /\ redeemed[o] = 0 /\ Dropoff[o] = 0
         /\ redeemed' = [redeemed EXCEPT ![o] = redeemed[o] + 1]
         /\ paid' = paid \cup {o}
  <2>1. tx.task[1] = o
    BY <1>3
  <2>. QED BY <1>1, <2>1 DEF Mine, Redeemable
<1>7. MoneyType'
  <2>1. IsFiniteSet(pool')
    BY <1>2, FS_RemoveElement DEF MoneyInv, MoneyType
  <2>2. mined' \in [Chains -> Nat]
    BY <1>2 DEF MoneyInv, MoneyType
  <2>3. redeemed' \in [Orders -> Nat] /\ paid' \subseteq Orders
    BY <1>6 DEF MoneyInv, MoneyType
  <2>. QED BY <1>2, <2>1, <2>2, <2>3 DEF MoneyInv, MoneyType
<1>8. TasksInv'
  <2>1. ASSUME NEW u \in Tasks, task[u].pc = "send"
        PROVE  task[u].nonce \in Nat /\ task[u].nonce <= Issued(task[u].to)'
    <3>1. PICK d \in Chains : d = task[u].to
      BY <2>1 DEF MoneyInv, TasksInv, TaskOK
    <3>2. task[u].nonce \in Nat /\ task[u].nonce <= Issued(d)
      BY <2>1, <3>1 DEF MoneyInv, TasksInv
    <3>3. Issued(task[u].to)' = Issued(d)'
      BY <1>2, <3>1
    <3>. QED BY <1>2, <1>5, <3>1, <3>2, <3>3
  <2>. QED BY <1>2, <2>1 DEF MoneyInv, TasksInv
<1>9. PoolInv'
  <2>1. ASSUME NEW y \in pool' PROVE y.nonce < Issued(y.to)'
    <3>1. y \in pool /\ y.to \in Chains
      BY <1>2 DEF MoneyInv, MoneyType, Tx
    <3>. QED BY <1>5, <3>1 DEF MoneyInv, PoolInv
  <2>2. ASSUME NEW d \in Chains, NEW n \in Nat, n < Issued(d)' PROVE Taken(d, n)'
    <3>1. Taken(d, n)
      BY <1>5, <2>2 DEF MoneyInv, PoolInv
    <3>2. /\ mined[c] \in Nat /\ mined'[c] = mined[c] + 1
          /\ \A b \in Chains : b # c => mined'[b] = mined[b]
      BY <1>2 DEF MoneyInv, MoneyType
    <3>3. CASE n < mined[d]
      BY <3>2, <3>3 DEF Taken
    <3>4. CASE \E y \in Pending(d) : y.nonce = n /\ y # tx
      BY <1>2, <3>4 DEF Taken, Pending
    <3>5. CASE tx \in Pending(d) /\ tx.nonce = n
      <4>1. d = c /\ n = mined[c]
        BY <1>1, <3>5 DEF Pending, Mine
      <4>. QED BY <3>2, <4>1 DEF Taken
    <3>. QED BY <3>1, <3>3, <3>4, <3>5 DEF Taken
  <2>. QED BY <1>2, <2>1, <2>2 DEF MoneyInv, PoolInv
<1>. QED BY <1>7, <1>8, <1>9 DEF MoneyInv

LEMMA OthersRedeemKeeps ==
  ASSUME MoneyInv, NEW o \in Orders, OthersRedeem(o)
  PROVE  MoneyInv'
<1>1. /\ UNCHANGED <<placed, pool, mined, paid, task>> /\ redeemed[o] = 0
      /\ redeemed' = [redeemed EXCEPT ![o] = redeemed[o] + 1]
  BY DEF OthersRedeem
<1>2. MoneyType'
  BY <1>1 DEF MoneyInv, MoneyType
<1>3. TasksInv' /\ PoolInv'
  BY <1>1, IssuedStays DEF MoneyInv, TasksInv, PoolInv
<1>. QED BY <1>2, <1>3 DEF MoneyInv

LEMMA PublishKeeps ==
  ASSUME MoneyInv, NEW o \in Orders, Publish(o)
  PROVE  MoneyInv'
<1>1. PICK calls : calls = IF Answered(From[o]) THEN Count(live[From[o]]) ELSE 0
  OBVIOUS
<1>2. PICK first \in {"receipt", "ignored"} : first = IF isFromSwapLayer(o) THEN "receipt" ELSE "ignored"
  OBVIOUS
<1>3. PICK r : r = [Idle EXCEPT !.pc = first]
  OBVIOUS
<1>4. r \in TaskRec /\ r.pc = first /\ r.to = NoChain /\ r.nonce = -1
  BY <1>2, <1>3 DEF Idle, TaskRec, Pcs
<1>5. task' = [t \in Tasks |-> IF t[1] = o /\ t[2] <= calls THEN r ELSE task[t]]
  BY <1>1, <1>2, <1>3 DEF Publish
<1>6. /\ o \notin placed /\ placed' = placed \cup {o}
      /\ UNCHANGED <<pool, mined, redeemed, paid>>
  BY DEF Publish
<1>7. task \in [Tasks -> TaskRec] /\ placed \subseteq Orders
  BY DEF MoneyInv, MoneyType
<1>8. task' \in [Tasks -> TaskRec] /\ placed' \subseteq Orders /\ placed \subseteq placed'
  BY <1>4, <1>5, <1>6, <1>7
<1>9. ASSUME NEW t \in Tasks
      PROVE  /\ Steps(task[t], task'[t])
             /\ TaskOK(t, task'[t], placed')
             /\ task'[t].pc = "send" => /\ task'[t].nonce \in Nat
                                        /\ task'[t].nonce <= Issued(task'[t].to)
  <2>1. CASE t[1] = o /\ t[2] <= calls
    <3>1. task'[t] = r
      BY <1>5, <2>1
    <3>2. task[t].pc = "idle" /\ task[t].to = NoChain /\ task[t].nonce = -1
      BY <1>6, <2>1 DEF MoneyInv, TasksInv, TaskOK, Sent
    <3>3. Steps(task[t], r) /\ TaskOK(t, r, placed') /\ r.pc # "send"
      BY <1>2, <1>4, <1>6, <2>1, <3>2 DEF Steps, TaskOK, Sent
    <3>. QED BY <3>1, <3>3
  <2>2. CASE ~(t[1] = o /\ t[2] <= calls)
    <3>1. task'[t] = task[t]
      BY <1>5, <2>2
    <3>2. TaskOK(t, task[t], placed')
      BY <1>6 DEF MoneyInv, TasksInv, TaskOK
    <3>. QED BY <3>1, <3>2 DEF Steps, MoneyInv, TasksInv
  <2>. QED BY <2>1, <2>2
<1>. QED BY <1>6, <1>8, <1>9, HandlersStep

(* The process dies: every handler is forgotten, no transaction is.        *)
LEMMA ExitKeeps ==
  ASSUME MoneyInv, Exit
  PROVE  MoneyInv'
<1>1. /\ task' = [t \in Tasks |-> IF Running(t) THEN [task[t] EXCEPT !.pc = "dropped"] ELSE task[t]]
      /\ placed' = placed /\ UNCHANGED <<pool, mined, redeemed, paid>>
  BY DEF Exit, chain
<1>2. task \in [Tasks -> TaskRec] /\ placed \subseteq Orders
  BY DEF MoneyInv, MoneyType
<1>3. ASSUME NEW t \in Tasks
      PROVE  /\ task'[t] \in TaskRec /\ Steps(task[t], task'[t])
             /\ TaskOK(t, task'[t], placed')
             /\ task'[t].pc = "send" => /\ task'[t].nonce \in Nat
                                        /\ task'[t].nonce <= Issued(task'[t].to)
  <2>1. PICK s : s = task[t]
    OBVIOUS
  <2>2. s \in TaskRec /\ TaskOK(t, s, placed)
    BY <1>2, <2>1 DEF MoneyInv, TasksInv
  <2>3. CASE Running(t)
    <3>1. PICK r : r = [s EXCEPT !.pc = "dropped"]
      OBVIOUS
    <3>2. r \in TaskRec /\ r.pc = "dropped" /\ r.to = s.to /\ r.nonce = s.nonce
      BY <2>2, <3>1 DEF TaskRec, Pcs
    <3>3. task'[t] = r
      BY <1>1, <2>1, <2>3, <3>1
    <3>4. Steps(s, r) /\ TaskOK(t, r, placed)
      BY <2>1, <2>2, <2>3, <3>2 DEF Steps, TaskOK, Sent, Running
    <3>. QED BY <1>1, <2>1, <3>2, <3>3, <3>4
  <2>4. CASE ~Running(t)
    <3>1. task'[t] = s
      BY <1>1, <2>1, <2>4
    <3>2. s.pc # "send"
      BY <2>1, <2>4 DEF Running
    <3>. QED BY <1>1, <2>1, <2>2, <3>1, <3>2 DEF Steps
  <2>. QED BY <2>3, <2>4
<1>4. task' \in [Tasks -> TaskRec]
  BY <1>1, <1>3
<1>. QED BY <1>1, <1>2, <1>3, <1>4, HandlersStep

LEMMA MoneyNext == MoneyInv /\ [Next]_vars => MoneyInv'
<1>. SUFFICES ASSUME MoneyInv, [Next]_vars PROVE MoneyInv'
  OBVIOUS
<1>1. CASE UNCHANGED <<task, chain>>
  <2>1. UNCHANGED <<task, placed, pool, mined, redeemed, paid>>
    BY <1>1 DEF chain
  <2>. QED BY <2>1, IssuedStays DEF MoneyInv, MoneyType, TasksInv, PoolInv
<1>2. CASE Start
  BY <1>1, <1>2 DEF Start
<1>3. CASE MainRound
  BY <1>1, <1>3, ExitKeeps DEF MainRound
<1>4. ASSUME NEW c \in Chains, Wire(c) PROVE MoneyInv'
  BY <1>1, <1>4, ExitKeeps DEF Wire, Open, Drop, GoSilent, Terminate, NormalClose, Create, Refused
<1>5. ASSUME NEW t \in Tasks, Handle(t) PROVE MoneyInv'
  BY <1>5, HandleKeeps, SendKeeps DEF Handle
<1>6. ASSUME NEW tx \in pool, Mine(tx) PROVE MoneyInv'
  BY <1>6, MineKeeps
<1>7. ASSUME NEW o \in Orders, Publish(o) \/ OthersRedeem(o) PROVE MoneyInv'
  BY <1>7, PublishKeeps, OthersRedeemKeeps
<1>8. CASE UNCHANGED vars
  BY <1>1, <1>8 DEF vars
<1>. QED BY <1>2, <1>3, <1>4, <1>5, <1>6, <1>7, <1>8 DEF Next

LEMMA MoneyKept == Spec => []MoneyInv
<1>1. Init => MoneyInv
  <2>. SUFFICES ASSUME Init PROVE MoneyInv
    OBVIOUS
  <2>1. Idle \in TaskRec /\ Idle.pc = "idle" /\ Idle.to = NoChain /\ Idle.nonce = -1
    BY DEF Idle, TaskRec, Pcs
  <2>2. IsFiniteSet(pool)
    BY FS_EmptySet DEF Init
  <2>3. \A c \in Chains : Issued(c) = 0
    <3>1. ASSUME NEW c \in Chains PROVE Issued(c) = 0
      <4>1. Pending(c) = {} /\ mined[c] = 0
        BY DEF Init, Pending
      <4>. QED BY <4>1, FS_EmptySet DEF Issued
    <3>. QED BY <3>1
  <2>. QED BY <2>1, <2>2, <2>3 DEF Init, MoneyInv, MoneyType, TasksInv, TaskOK, PoolInv
<1>. QED BY <1>1, MoneyNext, PTL DEF Spec

(* No transaction of the relayer waits for a nonce that nobody will use,   *)
(* for any number of chains, orders and handlers, and whenever the process *)
(* dies (index.ts, handleRelayerEvent).                                    *)
THEOREM NoNonceIsSkipped == Spec => []NoNonceGap
<1>1. MoneyInv => NoNonceGap
  <2>. SUFFICES ASSUME MoneyInv, NEW tx \in pool, NEW n \in 0 .. (tx.nonce - 1)
                PROVE  Taken(tx.to, n)
    BY DEF NoNonceGap
  <2>1. tx.to \in Chains /\ tx.nonce \in Nat
    BY DEF MoneyInv, MoneyType, Tx
  <2>2. PICK m \in Nat : m = Issued(tx.to)
    BY <2>1, IssuedIs DEF MoneyInv
  <2>3. n \in Nat /\ n < m
    BY <2>1, <2>2 DEF MoneyInv, PoolInv
  <2>. QED BY <2>1, <2>2, <2>3, TakenIs
<1>. QED BY <1>1, MoneyKept, PTL

-----------------------------------------------------------------------------
(* What becomes of an order when two handlers share a nonce.               *)

(* The transaction of a handler has reached a node, and is pending or, if  *)
(* it could redeem the order, has seen it redeemed.                        *)
Landed(t) ==
  /\ task[t].pc \in Sent /\ task[t].to \in Chains
  /\ \/ \E tx \in pool : tx.task = t
     \/ To[t[1]] = task[t].to /\ Dropoff[t[1]] = 0 => redeemed[t[1]] > 0

NonceInv ==
  /\ \A t \in Tasks : task[t].pc = "wait" => Landed(t)
  /\ \A c \in Chains, n \in Nat : n < Issued(c) =>
       \E t \in Tasks : task[t].to = c /\ task[t].nonce = n /\ Landed(t)

(* A round of main would end the process; there is no listener yet.        *)
Doomed == \E c \in Chains : "network" \in config[c] /\ "core" \notin config[c]

(* Without a fault, a handler that knew the right chain gives up only when *)
(* the order has been redeemed or its nonce has been used.                 *)
CalmInv ==
  /\ faults \in Nat
  /\ ~up \/ Doomed => \A t \in Tasks : ~Running(t)
  /\ up /\ Doomed => \A c \in Chains : Silent(c)
  /\ faults = 0 =>
       \A t \in Tasks :
         /\ task[t].pc = "wait" => socket[task[t].to] = "open"
         /\ task[t].pc = "dropped" /\ task[t].to = To[t[1]] /\ Dropoff[t[1]] = 0 =>
              redeemed[t[1]] > 0 \/ (task[t].nonce \in Nat /\ task[t].nonce < Issued(task[t].to))

LEMMA NonceStep ==
  ASSUME MoneyInv, NonceInv, UNCHANGED <<pool, mined, redeemed>>,
         \A t \in Tasks : /\ Steps(task[t], task'[t])
                          /\ task'[t].pc = "wait" => task[t].pc = "wait"
  PROVE  NonceInv'
<1>1. \A c : Issued(c)' = Issued(c)
  BY DEF Issued, Pending
<1>2. ASSUME NEW t \in Tasks, Landed(t)
      PROVE  /\ Landed(t)' /\ task'[t].to = task[t].to /\ task'[t].nonce = task[t].nonce
  <2>1. task[t].pc \in Sent /\ task[t].to # NoChain
    BY <1>2 DEF Landed
  <2>2. /\ task'[t].pc \in Sent /\ task'[t].to = task[t].to /\ task'[t].nonce = task[t].nonce
    BY <2>1 DEF Steps
  <2>. QED BY <1>2, <2>2 DEF Landed
<1>3. \A t \in Tasks : task'[t].pc = "wait" => Landed(t)'
  BY <1>2 DEF NonceInv
<1>4. ASSUME NEW c \in Chains, NEW n \in Nat, n < Issued(c)'
      PROVE  \E t \in Tasks : task'[t].to = c /\ task'[t].nonce = n /\ Landed(t)'
  <2>1. PICK t \in Tasks : task[t].to = c /\ task[t].nonce = n /\ Landed(t)
    BY <1>1, <1>4 DEF NonceInv
  <2>. QED BY <1>2, <2>1
<1>. QED BY <1>3, <1>4 DEF NonceInv

(* What the handler's own steps do to its task.                            *)
LEMMA HandlerIs ==
  ASSUME MoneyInv, NEW t \in Tasks,
         GetReceipt(t) \/ Attested(t) \/ GetVaa(t) \/ Populate(t) \/ Await(t) \/ SentTwice(t)
  PROVE  /\ Running(t) /\ UNCHANGED <<process, wires, chain, faults>>
         /\ \A u \in Tasks : u # t => task'[u] = task[u]
         /\ Steps(task[t], task'[t]) /\ task'[t].pc # "wait"
         /\ task'[t].pc = "dropped" =>
              /\ task'[t].to = task[t].to
              /\ \/ task[t].to = NoChain
                 \/ Populate(t) /\ ~Redeemable(t[1], task[t].to)
                 \/ Await(t) /\ t[1] \notin paid
                 \/ SentTwice(t)
<1>1. Running(t) /\ UNCHANGED <<process, wires, chain, faults>>
  BY DEF GetReceipt, Attested, GetVaa, HasChainInfo, Populate, Await, SentTwice, At, Running
<1>2. PICK s : s = task[t]
  OBVIOUS
<1>3. s \in TaskRec /\ TaskOK(t, s, placed) /\ task \in [Tasks -> TaskRec]
  BY <1>2 DEF MoneyInv, MoneyType, TasksInv
<1>4. ASSUME NEW r, task' = [task EXCEPT ![t] = r]
      PROVE  task'[t] = r /\ \A u \in Tasks : u # t => task'[u] = task[u]
  BY <1>3, <1>4
<1>5. ASSUME NEW pc \in Pcs \ {"wait"}, Goto(t, pc), s.pc \in Sent => pc \in Sent
      PROVE  /\ \A u \in Tasks : u # t => task'[u] = task[u]
             /\ Steps(s, task'[t]) /\ task'[t].pc = pc /\ task'[t].to = s.to
  <2>1. PICK r : r = [s EXCEPT !.pc = pc]
    OBVIOUS
  <2>2. r.pc = pc /\ r.to = s.to /\ r.nonce = s.nonce
    BY <1>3, <2>1 DEF TaskRec
  <2>3. task' = [task EXCEPT ![t] = r]
    BY <1>2, <1>5, <2>1 DEF Goto
  <2>4. Steps(s, r)
    BY <1>5, <2>2 DEF Steps
  <2>. QED BY <1>4, <2>2, <2>3, <2>4
<1>6. CASE GetReceipt(t)
  <2>1. s.pc = "receipt" /\ s.to = NoChain
    BY <1>2, <1>3, <1>6 DEF GetReceipt, At, TaskOK, Sent, TaskRec
  <2>2. Goto(t, "circle") \/ Goto(t, "dropped")
    BY <1>6 DEF GetReceipt, Dropped
  <2>. QED BY <1>1, <1>2, <1>5, <2>1, <2>2 DEF Pcs, Sent
<1>7. CASE Attested(t)
  <2>1. s.pc = "circle" /\ Goto(t, "vaa")
    BY <1>2, <1>7 DEF Attested, At
  <2>. QED BY <1>1, <1>2, <1>5, <2>1 DEF Pcs, Sent
<1>8. CASE GetVaa(t)
  <2>1. s.pc = "vaa" /\ s.to = NoChain
    BY <1>2, <1>3, <1>8 DEF GetVaa, At, TaskOK, Sent, TaskRec
  <2>2. CASE Goto(t, "dropped")
    BY <1>1, <1>2, <1>5, <2>1, <2>2 DEF Pcs, Sent
  <2>3. ASSUME NEW to \in Words, task' = [task EXCEPT ![t].pc = "redeem", ![t].to = to]
        PROVE  /\ \A u \in Tasks : u # t => task'[u] = task[u]
               /\ Steps(s, task'[t]) /\ task'[t].pc = "redeem"
    <3>1. PICK r : r = [s EXCEPT !.pc = "redeem", !.to = to]
      OBVIOUS
    <3>2. r.pc = "redeem" /\ r.to = to /\ r.nonce = s.nonce
      BY <1>3, <3>1 DEF TaskRec
    <3>3. task' = [task EXCEPT ![t] = r]
      BY <1>2, <2>3, <3>1
    <3>. QED BY <1>4, <2>1, <3>2, <3>3 DEF Steps, Sent
  <2>. QED BY <1>1, <1>2, <1>8, <2>2, <2>3 DEF GetVaa, getToChain, Dropped
<1>9. CASE Populate(t)
  <2>1. s.pc = "redeem" /\ s.nonce = -1
    BY <1>2, <1>3, <1>9 DEF Populate, At, TaskOK, Sent, TaskRec
  <2>2. CASE Goto(t, "dropped") /\ ~Redeemable(t[1], s.to)
    BY <1>1, <1>2, <1>5, <1>9, <2>1, <2>2 DEF Pcs, Sent
  <2>3. CASE task' = [task EXCEPT ![t].pc = "send",
                                  ![t].nonce = mined[s.to] + Cardinality(Pending(s.to))]
    <3>1. PICK n : n = mined[s.to] + Cardinality(Pending(s.to))
      OBVIOUS
    <3>2. PICK r : r = [s EXCEPT !.pc = "send", !.nonce = n]
      OBVIOUS
    <3>3. r.pc = "send" /\ r.to = s.to /\ r.nonce = n
      BY <1>3, <3>2 DEF TaskRec
    <3>4. task' = [task EXCEPT ![t] = r]
      BY <1>2, <2>3, <3>1, <3>2
    <3>5. Steps(s, r)
      BY <2>1, <3>3 DEF Steps, Sent
    <3>. QED BY <1>1, <1>2, <1>4, <3>3, <3>4, <3>5
  <2>. QED BY <1>2, <1>9, <2>2, <2>3 DEF Populate, Dropped
<1>10. CASE Await(t)
  <2>1. s.pc = "wait" /\ (Goto(t, "done") \/ (Goto(t, "dropped") /\ t[1] \notin paid))
    BY <1>2, <1>10 DEF Await, At, Dropped
  <2>. QED BY <1>1, <1>2, <1>5, <1>10, <2>1 DEF Pcs, Sent
<1>11. CASE SentTwice(t)
  <2>1. s.pc = "wait" /\ Goto(t, "dropped")
    BY <1>2, <1>11 DEF SentTwice, At, Dropped
  <2>. QED BY <1>1, <1>2, <1>5, <1>11, <2>1 DEF Pcs, Sent
<1>. QED BY <1>6, <1>7, <1>8, <1>9, <1>10, <1>11

LEMMA NonceSend ==
  ASSUME MoneyInv, NonceInv, NEW t \in Tasks, Send(t), ~(task[t].nonce < Issued(task[t].to))
  PROVE  NonceInv'
<1>1. PICK s : s = task[t]
  OBVIOUS
<1>2. /\ s.to \in Chains /\ s.nonce = Issued(s.to) /\ s.pc = "send" /\ s \in TaskRec
      /\ pool' = pool \cup {[task |-> t, to |-> s.to, nonce |-> s.nonce]}
      /\ Goto(t, "wait") /\ redeemed' = redeemed
      /\ \A c \in Chains : Issued(c)' = IF c = s.to THEN Issued(c) + 1 ELSE Issued(c)
  BY <1>1, SendIssues DEF Send, At, MoneyInv, MoneyType
<1>3. PICK r : r = [s EXCEPT !.pc = "wait"]
  OBVIOUS
<1>4. r.pc = "wait" /\ r.to = s.to /\ r.nonce = s.nonce
  BY <1>2, <1>3 DEF TaskRec
<1>5. task'[t] = r /\ \A u \in Tasks : u # t => task'[u] = task[u]
  BY <1>1, <1>2, <1>3 DEF Goto, MoneyInv, MoneyType
<1>6. Landed(t)'
  <2>1. PICK x : x = [task |-> t, to |-> s.to, nonce |-> s.nonce]
    OBVIOUS
  <2>2. x.task = t /\ x \in pool'
    BY <1>2, <2>1
  <2>. QED BY <1>2, <1>4, <1>5, <2>2 DEF Landed, Sent
<1>7. ASSUME NEW u \in Tasks, u # t, Landed(u) PROVE Landed(u)'
  BY <1>2, <1>5, <1>7 DEF Landed
<1>8. \A u \in Tasks : Landed(u) => u # t
  BY <1>1, <1>2 DEF Landed, Sent
<1>9. \A u \in Tasks : task'[u].pc = "wait" => Landed(u)'
  BY <1>5, <1>6, <1>7 DEF NonceInv
<1>10. ASSUME NEW c \in Chains, NEW n \in Nat, n < Issued(c)'
       PROVE  \E u \in Tasks : task'[u].to = c /\ task'[u].nonce = n /\ Landed(u)'
  <2>1. CASE n < Issued(c)
    <3>1. PICK u \in Tasks : task[u].to = c /\ task[u].nonce = n /\ Landed(u)
      BY <2>1 DEF NonceInv
    <3>. QED BY <1>5, <1>7, <1>8, <3>1
  <2>2. CASE ~(n < Issued(c))
    <3>1. PICK m \in Nat : m = Issued(c)
      BY IssuedIs DEF MoneyInv
    <3>2. c = s.to
      BY <1>2, <1>10, <2>2
    <3>3. Issued(c)' = m + 1
      BY <1>2, <3>1, <3>2
    <3>4. ~(n < m)
      BY <2>2, <3>1
    <3>5. n = m
      BY <1>10, <3>3, <3>4
    <3>. QED BY <1>2, <1>4, <1>5, <1>6, <3>1, <3>2, <3>5
  <2>. QED BY <2>1, <2>2
<1>. QED BY <1>9, <1>10 DEF NonceInv

(* An order may only become redeemed.                                      *)
LEMMA NonceRedeemed ==
  ASSUME MoneyInv, NonceInv, UNCHANGED task,
         \A c \in Chains : Issued(c)' = Issued(c),
         \A o \in Orders : redeemed[o] > 0 => redeemed'[o] > 0,
         \A tx \in pool : tx \notin pool' /\ To[tx.task[1]] = tx.to /\ Dropoff[tx.task[1]] = 0 =>
                            redeemed'[tx.task[1]] > 0
  PROVE  NonceInv'
<1>1. ASSUME NEW t \in Tasks, Landed(t) PROVE Landed(t)'
  <2>1. t[1] \in Orders
    BY DEF Tasks
  <2>2. CASE \E tx \in pool : tx.task = t
    <3>1. PICK tx \in pool : tx.task = t
      BY <2>2
    <3>2. tx.to = task[t].to
      BY <3>1 DEF MoneyInv, PoolInv
    <3>. QED BY <1>1, <3>1, <3>2 DEF Landed
  <2>3. CASE To[t[1]] = task[t].to /\ Dropoff[t[1]] = 0 => redeemed[t[1]] > 0
    BY <1>1, <2>1, <2>3 DEF Landed
  <2>. QED BY <1>1, <2>2, <2>3 DEF Landed
<1>. QED BY <1>1 DEF NonceInv

LEMMA MineRedeems ==
  ASSUME MoneyInv, NEW tx \in pool, Mine(tx)
  PROVE  /\ UNCHANGED <<task, process, wires, faults>> /\ pool' = pool \ {tx}
         /\ \A o \in Orders : redeemed[o] > 0 => redeemed'[o] > 0
         /\ To[tx.task[1]] = tx.to /\ Dropoff[tx.task[1]] = 0 => redeemed'[tx.task[1]] > 0
<1>1. PICK o \in Orders : o = tx.task[1]
  BY DEF MoneyInv, MoneyType, Tx, Tasks
<1>2. \A p \in Orders : redeemed[p] \in Nat
  BY DEF MoneyInv, MoneyType
<1>3. CASE Redeemable(o, tx.to)
  <2>1. redeemed' = [redeemed EXCEPT ![o] = redeemed[o] + 1]
    BY <1>1, <1>3 DEF Mine
  <2>2. redeemed'[o] = redeemed[o] + 1 /\ \A p \in Orders : p # o => redeemed'[p] = redeemed[p]
    BY <2>1 DEF MoneyInv, MoneyType
  <2>. QED BY <1>1, <1>2, <2>2 DEF Mine
<1>4. CASE ~Redeemable(o, tx.to)
  <2>1. redeemed' = redeemed
    BY <1>1, <1>4 DEF Mine
  <2>2. To[o] = tx.to /\ Dropoff[o] = 0 => redeemed[o] > 0
    BY <1>2, <1>4 DEF Redeemable
  <2>. QED BY <1>1, <2>1, <2>2 DEF Mine
<1>. QED BY <1>3, <1>4

LEMMA PublishIs ==
  ASSUME MoneyInv, CalmInv, NEW o \in Orders, Publish(o)
  PROVE  /\ UNCHANGED <<process, wires, pool, mined, redeemed, faults>>
         /\ \A t \in Tasks : task'[t] # task[t] =>
              up /\ ~Doomed /\ task[t] = Idle /\ task'[t].pc \in {"receipt", "ignored"}
<1>1. PICK calls : calls = IF Answered(From[o]) THEN Count(live[From[o]]) ELSE 0
  OBVIOUS
<1>2. PICK first \in {"receipt", "ignored"} : first = IF isFromSwapLayer(o) THEN "receipt" ELSE "ignored"
  OBVIOUS
<1>3. task' = [t \in Tasks |-> IF t[1] = o /\ t[2] <= calls THEN [Idle EXCEPT !.pc = first] ELSE task[t]]
  BY <1>1, <1>2 DEF Publish
<1>4. o \notin placed /\ UNCHANGED <<process, wires, pool, mined, redeemed, faults>>
  BY DEF Publish
<1>5. ASSUME NEW t \in Tasks, task'[t] # task[t]
      PROVE  /\ up /\ ~Doomed /\ task[t] = Idle
             /\ task'[t].pc \in {"receipt", "ignored"}
  <2>1. t[1] = o /\ t[2] <= calls /\ task'[t] = [Idle EXCEPT !.pc = first]
    BY <1>3, <1>5
  <2>2. task'[t].pc = first
    BY <2>1 DEF Idle
  <2>3. task[t] = Idle
    <3>1. task[t] \in TaskRec /\ TaskOK(t, task[t], placed)
      BY DEF MoneyInv, MoneyType, TasksInv
    <3>2. task[t].pc = "idle" /\ task[t].to = NoChain /\ task[t].nonce = -1
      BY <1>4, <2>1, <3>1 DEF TaskOK, Sent
    <3>. QED BY <3>1, <3>2 DEF TaskRec, Idle
  <2>4. calls # 0
    BY <2>1 DEF Tasks, Copies
  <2>5. up /\ ~Silent(From[o])
    BY <1>1, <2>4 DEF Answered, Silent, Count, NoListener
  <2>6. From[o] \in Chains
    OBVIOUS
  <2>. QED BY <1>2, <2>2, <2>3, <2>5, <2>6 DEF CalmInv
<1>. QED BY <1>4, <1>5

LEMMA NonceNext ==
  ASSUME MoneyInv, NonceInv, CalmInv, [Next]_vars
  PROVE  NonceInv'
<1>1. CASE UNCHANGED <<task, chain>>
  <2>1. UNCHANGED <<pool, mined, redeemed>>
    BY <1>1 DEF chain
  <2>2. \A t \in Tasks : Steps(task[t], task'[t]) /\ (task'[t].pc = "wait" => task[t].pc = "wait")
    BY <1>1 DEF Steps
  <2>. QED BY <2>1, <2>2, NonceStep
<1>2. ASSUME Exit PROVE NonceInv'
  <2>1. ASSUME NEW t \in Tasks
        PROVE  Steps(task[t], task'[t]) /\ (task'[t].pc = "wait" => task[t].pc = "wait")
    <3>1. PICK s \in TaskRec : s = task[t]
      BY DEF MoneyInv, MoneyType
    <3>2. CASE Running(t)
      <4>1. PICK r : r = [s EXCEPT !.pc = "dropped"]
        OBVIOUS
      <4>2. r.pc = "dropped" /\ r.to = s.to /\ r.nonce = s.nonce
        BY <3>1, <4>1 DEF TaskRec
      <4>3. task'[t] = r
        BY <1>2, <3>1, <3>2, <4>1 DEF Exit
      <4>. QED BY <3>1, <4>2, <4>3 DEF Steps, Sent
    <3>3. CASE ~Running(t)
      BY <1>2, <3>3 DEF Exit, Steps
    <3>. QED BY <3>2, <3>3
  <2>. QED BY <1>2, <2>1, NonceStep DEF Exit, chain
<1>3. CASE Start
  BY <1>1, <1>3 DEF Start
<1>4. CASE MainRound
  BY <1>1, <1>2, <1>4 DEF MainRound
<1>5. ASSUME NEW c \in Chains, Wire(c) PROVE NonceInv'
  BY <1>1, <1>2, <1>5 DEF Wire, Open, Drop, GoSilent, Terminate, NormalClose, Create, Refused
<1>6. ASSUME NEW t \in Tasks, Handle(t) PROVE NonceInv'
  <2>1. CASE GetReceipt(t) \/ Attested(t) \/ GetVaa(t) \/ Populate(t) \/ Await(t) \/ SentTwice(t)
    <3>1. UNCHANGED <<pool, mined, redeemed>>
      BY <2>1, HandlerIs DEF chain
    <3>2. \A u \in Tasks : Steps(task[u], task'[u]) /\ (task'[u].pc = "wait" => task[u].pc = "wait")
      BY <2>1, HandlerIs DEF Steps
    <3>. QED BY <3>1, <3>2, NonceStep
  <2>2. CASE Send(t) /\ task[t].nonce < Issued(task[t].to)
    <3>1. PICK s \in TaskRec : s = task[t] /\ s.pc = "send"
      BY <2>2 DEF MoneyInv, MoneyType, Send, At
    <3>2. Goto(t, "dropped") /\ UNCHANGED <<pool, mined, redeemed>>
      <4>1. task[t].to \in Chains /\ task[t].nonce \in Nat
        BY <3>1 DEF MoneyInv, TasksInv, TaskOK
      <4>2. Taken(task[t].to, task[t].nonce)
        BY <2>2, <4>1, TakenIs
      <4>. QED BY <2>2, <4>2 DEF Send, Dropped
    <3>3. PICK r : r = [s EXCEPT !.pc = "dropped"]
      OBVIOUS
    <3>4. r.pc = "dropped" /\ r.to = s.to /\ r.nonce = s.nonce
      BY <3>1, <3>3 DEF TaskRec
    <3>5. task'[t] = r /\ \A u \in Tasks : u # t => task'[u] = task[u]
      BY <3>1, <3>2, <3>3 DEF Goto, MoneyInv, MoneyType
    <3>6. \A u \in Tasks : Steps(task[u], task'[u]) /\ (task'[u].pc = "wait" => task[u].pc = "wait")
      BY <3>1, <3>4, <3>5 DEF Steps, Sent
    <3>. QED BY <3>2, <3>6, NonceStep
  <2>3. CASE Send(t) /\ ~(task[t].nonce < Issued(task[t].to))
    BY <2>3, NonceSend
  <2>. QED BY <1>6, <2>1, <2>2, <2>3 DEF Handle
<1>7. ASSUME NEW tx \in pool, Mine(tx) PROVE NonceInv'
  <2>1. \A c \in Chains : Issued(c)' = Issued(c)
    BY <1>7, MineIssues
  <2>2. /\ UNCHANGED task /\ pool' = pool \ {tx}
        /\ \A o \in Orders : redeemed[o] > 0 => redeemed'[o] > 0
        /\ To[tx.task[1]] = tx.to /\ Dropoff[tx.task[1]] = 0 => redeemed'[tx.task[1]] > 0
    BY <1>7, MineRedeems
  <2>3. \A y \in pool : y \notin pool' /\ To[y.task[1]] = y.to /\ Dropoff[y.task[1]] = 0 =>
                          redeemed'[y.task[1]] > 0
    BY <2>2
  <2>. QED BY <2>1, <2>2, <2>3, NonceRedeemed
<1>8. ASSUME NEW o \in Orders, Publish(o) PROVE NonceInv'
  <2>1. UNCHANGED <<pool, mined, redeemed>>
    BY <1>8, PublishIs
  <2>2. \A t \in Tasks : Steps(task[t], task'[t]) /\ (task'[t].pc = "wait" => task[t].pc = "wait")
    BY <1>8, PublishIs DEF Steps, Idle, Sent
  <2>. QED BY <2>1, <2>2, NonceStep
<1>9. ASSUME NEW o \in Orders, OthersRedeem(o) PROVE NonceInv'
  <2>1. /\ UNCHANGED <<task, pool, mined>>
        /\ redeemed' = [redeemed EXCEPT ![o] = redeemed[o] + 1]
    BY <1>9 DEF OthersRedeem
  <2>2. \A c \in Chains : Issued(c)' = Issued(c)
    BY <2>1 DEF Issued, Pending
  <2>3. \A p \in Orders : redeemed[p] > 0 => redeemed'[p] > 0
    BY <2>1 DEF MoneyInv, MoneyType
  <2>4. \A y \in pool : y \notin pool' /\ To[y.task[1]] = y.to /\ Dropoff[y.task[1]] = 0 =>
                          redeemed'[y.task[1]] > 0
    BY <2>1
  <2>. QED BY <2>1, <2>2, <2>3, <2>4, NonceRedeemed
<1>10. CASE UNCHANGED vars
  BY <1>1, <1>10 DEF vars
<1>. QED BY <1>3, <1>4, <1>5, <1>6, <1>7, <1>8, <1>9, <1>10 DEF Next

(* A handler that moves on does not disturb what the others wait for.      *)
LEMMA CalmHandle ==
  ASSUME MoneyInv, NonceInv, CalmInv, NEW t \in Tasks, Handle(t)
  PROVE  CalmInv'
<1>1. Running(t) /\ UNCHANGED <<process, wires, redeemed, faults>>
  BY DEF Handle, GetReceipt, Attested, GetVaa, Populate, Send, Await, SentTwice, At, Running, chain
<1>2. up /\ ~Doomed
  BY <1>1 DEF CalmInv
<1>3. up' /\ ~Doomed' /\ faults' \in Nat
  BY <1>1, <1>2 DEF process, Doomed, CalmInv
<1>4. PICK s : s = task[t]
  OBVIOUS
<1>5. s \in TaskRec /\ task \in [Tasks -> TaskRec]
  BY <1>4 DEF MoneyInv, MoneyType
<1>6. \A o \in Orders : redeemed[o] \in Nat
  BY DEF MoneyInv, MoneyType
<1>7. t[1] \in Orders /\ To[t[1]] \in Chains /\ To[t[1]] # NoChain
  BY DEF Tasks
<1>8. CASE GetReceipt(t) \/ Attested(t) \/ GetVaa(t) \/ Populate(t) \/ Await(t) \/ SentTwice(t)
  <2>1. /\ \A u \in Tasks : u # t => task'[u] = task[u]
        /\ task'[t].pc # "wait" /\ UNCHANGED chain
        /\ task'[t].pc = "dropped" =>
             /\ task'[t].to = s.to
             /\ \/ s.to = NoChain
                \/ Populate(t) /\ ~Redeemable(t[1], s.to)
                \/ Await(t) /\ t[1] \notin paid
                \/ SentTwice(t)
    BY <1>4, <1>8, HandlerIs
  <2>2. \A c : Issued(c)' = Issued(c)
    BY <2>1 DEF Issued, Pending, chain
  <2>3. ASSUME faults = 0, task'[t].pc = "dropped", task'[t].to = To[t[1]], Dropoff[t[1]] = 0
        PROVE  redeemed[t[1]] > 0
    <3>1. s.to = To[t[1]] /\ s.to # NoChain
      BY <1>7, <2>1, <2>3
    <3>2. CASE ~Redeemable(t[1], s.to)
      BY <1>6, <1>7, <2>3, <3>1, <3>2 DEF Redeemable
    <3>3. CASE Await(t)
      <4>1. s.pc = "wait" /\ \A tx \in pool : tx.task # t
        BY <1>4, <3>3 DEF Await, At
      <4>2. Landed(t)
        BY <1>4, <4>1 DEF NonceInv
      <4>. QED BY <1>4, <2>3, <3>1, <4>1, <4>2 DEF Landed
    <3>4. CASE SentTwice(t)
      <4>1. s.pc = "wait" /\ socket[s.to] = "connecting"
        BY <1>4, <3>4 DEF SentTwice, At
      <4>. QED BY <1>4, <2>3, <4>1 DEF CalmInv
    <3>. QED BY <2>1, <2>3, <3>1, <3>2, <3>3, <3>4
  <2>4. ASSUME faults' = 0, NEW u \in Tasks
        PROVE  /\ task'[u].pc = "wait" => socket'[task'[u].to] = "open"
               /\ task'[u].pc = "dropped" /\ task'[u].to = To[u[1]] /\ Dropoff[u[1]] = 0 =>
                    \/ redeemed'[u[1]] > 0
                    \/ (task[u].nonce \in Nat /\ task[u].nonce < Issued(task[u].to))'
    <3>1. faults = 0 /\ socket' = socket /\ redeemed' = redeemed
      BY <1>1, <2>4 DEF wires
    <3>2. CASE u = t
      BY <2>1, <2>3, <3>1, <3>2
    <3>3. CASE u # t
      <4>1. task'[u] = task[u]
        BY <2>1, <3>3
      <4>2. Issued(task[u].to)' = Issued(task[u].to)
        BY <2>2, <4>1
      <4>. QED BY <3>1, <4>1, <4>2 DEF CalmInv
    <3>. QED BY <3>2, <3>3
  <2>. QED BY <1>2, <1>3, <2>4 DEF CalmInv
<1>9. CASE Send(t) /\ s.nonce < Issued(s.to)
  <2>1. Goto(t, "dropped") /\ UNCHANGED <<pool, mined>>
    <3>1. s.to \in Chains /\ s.nonce \in Nat
      BY <1>4, <1>9 DEF Send, At, MoneyInv, TasksInv, TaskOK
    <3>2. Taken(s.to, s.nonce)
      BY <1>9, <3>1, TakenIs
    <3>. QED BY <1>4, <1>9, <3>2 DEF Send, Dropped
  <2>2. s.pc = "send" /\ s.nonce \in Nat
    BY <1>4, <1>9 DEF Send, At, MoneyInv, TasksInv
  <2>3. PICK r : r = [s EXCEPT !.pc = "dropped"]
    OBVIOUS
  <2>4. r.pc = "dropped" /\ r.to = s.to /\ r.nonce = s.nonce
    BY <1>5, <2>3 DEF TaskRec
  <2>5. task'[t] = r /\ \A u \in Tasks : u # t => task'[u] = task[u]
    BY <1>4, <1>5, <2>1, <2>3 DEF Goto
  <2>6. \A c : Issued(c)' = Issued(c)
    BY <2>1 DEF Issued, Pending
  <2>7. ASSUME faults' = 0, NEW u \in Tasks
        PROVE  /\ task'[u].pc = "wait" => socket'[task'[u].to] = "open"
               /\ task'[u].pc = "dropped" /\ task'[u].to = To[u[1]] /\ Dropoff[u[1]] = 0 =>
                    \/ redeemed'[u[1]] > 0
                    \/ (task[u].nonce \in Nat /\ task[u].nonce < Issued(task[u].to))'
    <3>1. faults = 0 /\ socket' = socket /\ redeemed' = redeemed
      BY <1>1, <2>7 DEF wires
    <3>2. CASE u = t
      <4>1. task'[u].nonce = s.nonce /\ task'[u].to = s.to /\ task'[u].pc # "wait"
        BY <2>4, <2>5, <3>2
      <4>2. Issued(task[u].to)' = Issued(s.to)
        BY <2>6, <4>1
      <4>. QED BY <1>9, <2>2, <4>1, <4>2
    <3>3. CASE u # t
      <4>1. task'[u] = task[u]
        BY <2>5, <3>3
      <4>2. Issued(task[u].to)' = Issued(task[u].to)
        BY <2>6, <4>1
      <4>. QED BY <3>1, <4>1, <4>2 DEF CalmInv
    <3>. QED BY <3>2, <3>3
  <2>. QED BY <1>2, <1>3, <2>7 DEF CalmInv
<1>10. CASE Send(t) /\ ~(s.nonce < Issued(s.to))
  <2>1. /\ s.to \in Chains /\ Goto(t, "wait")
        /\ \A c \in Chains : Issued(c)' = IF c = s.to THEN Issued(c) + 1 ELSE Issued(c)
    BY <1>4, <1>10, SendIssues
  <2>2. socket[s.to] = "open"
    BY <1>4, <1>10 DEF Send, Answered
  <2>3. PICK r : r = [s EXCEPT !.pc = "wait"]
    OBVIOUS
  <2>4. r.pc = "wait" /\ r.to = s.to
    BY <1>5, <2>3 DEF TaskRec
  <2>5. task'[t] = r /\ \A u \in Tasks : u # t => task'[u] = task[u]
    BY <1>4, <1>5, <2>1, <2>3 DEF Goto
  <2>6. \A c \in Chains : Issued(c) \in Nat
    BY IssuedIs DEF MoneyInv
  <2>7. ASSUME faults' = 0, NEW u \in Tasks
        PROVE  /\ task'[u].pc = "wait" => socket'[task'[u].to] = "open"
               /\ task'[u].pc = "dropped" /\ task'[u].to = To[u[1]] /\ Dropoff[u[1]] = 0 =>
                    \/ redeemed'[u[1]] > 0
                    \/ (task[u].nonce \in Nat /\ task[u].nonce < Issued(task[u].to))'
    <3>1. faults = 0 /\ socket' = socket /\ redeemed' = redeemed
      BY <1>1, <2>7 DEF wires
    <3>2. CASE u = t
      BY <2>2, <2>4, <2>5, <3>1, <3>2
    <3>3. CASE u # t
      <4>1. task'[u] = task[u]
        BY <2>5, <3>3
      <4>2. ASSUME task[u].pc = "dropped", task[u].to = To[u[1]], Dropoff[u[1]] = 0, ~(redeemed[u[1]] > 0)
            PROVE  (task[u].nonce \in Nat /\ task[u].nonce < Issued(task[u].to))'
        <5>1. PICK c \in Chains : c = task[u].to
          BY <4>2 DEF Tasks
        <5>2. task[u].nonce \in Nat /\ task[u].nonce < Issued(c)
          BY <3>1, <4>2, <5>1 DEF CalmInv
        <5>3. PICK m \in Nat, n \in Nat : m = task[u].nonce /\ n = Issued(c)
          BY <2>6, <5>2
        <5>4. Issued(c)' = n \/ Issued(c)' = n + 1
          BY <2>1, <5>3
        <5>5. Issued(task[u].to)' = Issued(c)'
          BY <4>1, <5>1
        <5>. QED BY <4>1, <5>2, <5>3, <5>4, <5>5
      <4>. QED BY <3>1, <4>1, <4>2 DEF CalmInv
    <3>. QED BY <3>2, <3>3
  <2>. QED BY <1>2, <1>3, <2>7 DEF CalmInv
<1>. QED BY <1>4, <1>8, <1>9, <1>10 DEF Handle

(* The connections change: no handler that waits loses its own, but to a   *)
(* fault.                                                                  *)
LEMMA CalmWire ==
  ASSUME WiresType, MoneyInv, CalmInv, NEW c \in Chains, Wire(c)
  PROVE  CalmInv'
<1>1. faults \in Nat
  BY DEF CalmInv
<1>2. CASE Refused(c)
  <2>1. faults' = faults + 1 /\ up' = FALSE /\ Exit
    BY <1>2 DEF Refused, Fault, Exit
  <2>2. ASSUME NEW t \in Tasks PROVE ~Running(t)'
    <3>1. PICK s \in TaskRec : s = task[t]
      BY DEF MoneyInv, MoneyType
    <3>2. CASE Running(t)
      <4>1. PICK r : r = [s EXCEPT !.pc = "dropped"]
        OBVIOUS
      <4>2. r.pc = "dropped"
        BY <3>1, <4>1 DEF TaskRec
      <4>3. task'[t] = r
        BY <2>1, <3>1, <3>2, <4>1 DEF Exit
      <4>. QED BY <4>2, <4>3 DEF Running
    <3>3. CASE ~Running(t)
      BY <2>1, <3>3 DEF Exit, Running
    <3>. QED BY <3>2, <3>3
  <2>. QED BY <1>1, <2>1, <2>2 DEF CalmInv
<1>3. CASE Open(c) \/ Drop(c) \/ GoSilent(c) \/ Terminate(c) \/ NormalClose(c) \/ Create(c)
  <2>1. UNCHANGED <<up, config, task, pool, mined, redeemed>>
    BY <1>3 DEF Open, Drop, GoSilent, Terminate, NormalClose, Create, process, chain
  <2>2. faults' = faults \/ faults' = faults + 1
    BY <1>3 DEF Open, Drop, GoSilent, Terminate, NormalClose, Create, Fault
  <2>3. \A d \in Chains : Silent(d) => Silent(d)'
    <3>1. CASE Open(c)
      BY <3>1, ListenersAre DEF Open, Silent
    <3>2. CASE Create(c)
      BY <3>2, ListenersAre DEF Create, Silent
    <3>3. CASE UNCHANGED <<live, saved>>
      BY <3>3 DEF Silent
    <3>. QED BY <1>3, <3>1, <3>2, <3>3 DEF Drop, GoSilent, Terminate, NormalClose
  <2>4. ASSUME faults' = 0, NEW d \in Chains, socket[d] = "open" PROVE socket'[d] = "open"
    <3>1. Open(c) \/ Terminate(c) \/ Create(c)
      BY <1>1, <1>3, <2>4 DEF Drop, GoSilent, NormalClose, Fault
    <3>. QED BY <2>4, <3>1 DEF Open, Terminate, Create, WiresType
  <2>5. \A t \in Tasks : task[t].pc = "wait" => task[t].to \in Chains
    BY DEF MoneyInv, TasksInv, TaskOK
  <2>6. \A d : Issued(d)' = Issued(d)
    BY <2>1 DEF Issued, Pending
  <2>7. ASSUME faults' = 0, NEW t \in Tasks
        PROVE  /\ task'[t].pc = "wait" => socket'[task'[t].to] = "open"
               /\ task'[t].pc = "dropped" /\ task'[t].to = To[t[1]] /\ Dropoff[t[1]] = 0 =>
                    \/ redeemed'[t[1]] > 0
                    \/ (task[t].nonce \in Nat /\ task[t].nonce < Issued(task[t].to))'
    <3>1. faults = 0
      BY <1>1, <2>2, <2>7
    <3>2. task'[t].pc = "wait" => socket'[task'[t].to] = "open"
      BY <2>1, <2>4, <2>5, <2>7, <3>1 DEF CalmInv
    <3>3. Issued(task[t].to)' = Issued(task[t].to)
      BY <2>1, <2>6
    <3>. QED BY <2>1, <3>1, <3>2, <3>3 DEF CalmInv
  <2>8. faults' \in Nat
    BY <1>1, <2>2
  <2>9. ~up' \/ Doomed' => \A t \in Tasks : ~Running(t)'
    BY <2>1 DEF CalmInv, Doomed, Running
  <2>10. up' /\ Doomed' => \A d \in Chains : Silent(d)'
    BY <2>1, <2>3 DEF CalmInv, Doomed
  <2>. QED BY <2>7, <2>8, <2>9, <2>10 DEF CalmInv
<1>. QED BY <1>2, <1>3 DEF Wire

(* The process starts, or goes round: nobody waits when it ends.           *)
LEMMA CalmProcess ==
  ASSUME MoneyInv, CalmInv, Start \/ MainRound
  PROVE  CalmInv'
<1>1. faults' = faults /\ faults \in Nat /\ UNCHANGED chain
  BY DEF Start, MainRound, Exit, CalmInv
<1>2. \A d : Issued(d)' = Issued(d)
  BY <1>1 DEF Issued, Pending, chain
<1>3. redeemed' = redeemed
  BY <1>1 DEF chain
<1>4. ASSUME task' = task, faults' = 0, NEW t \in Tasks,
             task'[t].pc = "wait" => socket'[task'[t].to] = "open"
      PROVE  /\ task'[t].pc = "wait" => socket'[task'[t].to] = "open"
             /\ task'[t].pc = "dropped" /\ task'[t].to = To[t[1]] /\ Dropoff[t[1]] = 0 =>
                  \/ redeemed'[t[1]] > 0
                  \/ (task[t].nonce \in Nat /\ task[t].nonce < Issued(task[t].to))'
  <2>1. Issued(task[t].to)' = Issued(task[t].to)
    BY <1>2, <1>4
  <2>. QED BY <1>1, <1>3, <1>4, <2>1 DEF CalmInv
<1>5. ASSUME task' = task, \A t \in Tasks : ~Running(t),
             up' /\ Doomed' => \A d \in Chains : Silent(d)'
      PROVE  CalmInv'
  <2>1. \A t \in Tasks : ~Running(t)' /\ task'[t].pc # "wait"
    BY <1>5 DEF Running
  <2>. QED BY <1>1, <1>4, <1>5, <2>1 DEF CalmInv
<1>6. CASE Start
  <2>1. task' = task /\ ~up /\ \A d \in Chains : Silent(d)'
    BY <1>6 DEF Start, Silent
  <2>. QED BY <1>5, <2>1 DEF CalmInv
<1>7. CASE MainRound /\ Exit
  <2>1. CASE Doomed
    <3>1. \A t \in Tasks : ~Running(t)
      BY <2>1 DEF CalmInv
    <3>2. task' = task
      BY <1>7, <3>1 DEF Exit, MoneyInv, MoneyType
    <3>3. up' = FALSE
      BY <1>7 DEF Exit
    <3>. QED BY <1>5, <3>1, <3>2, <3>3
  <2>2. CASE ~Doomed
    <3>1. PICK known : known = {c \in Chains : "network" \in config[c]}
      OBVIOUS
    <3>2. \A c \in known : "core" \in config[c]
      BY <2>2, <3>1 DEF Doomed
    <3>3. up' = up
      BY <1>7, <3>1, <3>2 DEF MainRound
    <3>4. up /\ up' = FALSE
      BY <1>7 DEF MainRound, Exit
    <3>. QED BY <3>3, <3>4
  <2>. QED BY <2>1, <2>2
<1>8. CASE MainRound /\ UNCHANGED <<up, config, socket, task>> /\ ~Doomed
  <2>1. up /\ up' /\ ~Doomed'
    BY <1>8 DEF MainRound, Doomed
  <2>2. task' = task /\ socket' = socket
    BY <1>8
  <2>3. ASSUME faults' = 0, NEW t \in Tasks
        PROVE  task'[t].pc = "wait" => socket'[task'[t].to] = "open"
    BY <1>1, <2>2, <2>3 DEF CalmInv
  <2>. QED BY <1>1, <1>4, <2>1, <2>2, <2>3 DEF CalmInv
<1>9. MainRound => Exit \/ (UNCHANGED <<up, config, socket, task>> /\ ~Doomed)
  <2>1. PICK known : known = {c \in Chains : "network" \in config[c]}
    OBVIOUS
  <2>. QED BY <2>1 DEF MainRound, Doomed
<1>. QED BY <1>6, <1>7, <1>8, <1>9

LEMMA CalmNext ==
  ASSUME WiresType, MoneyInv, NonceInv, CalmInv, [Next]_vars
  PROVE  CalmInv'
<1>1. ASSUME UNCHANGED <<process, wires, faults>>,
             \A c \in Chains : Issued(c)' = Issued(c),
             \A o \in Orders : redeemed[o] > 0 => redeemed'[o] > 0,
             \A t \in Tasks : task'[t] # task[t] =>
               up /\ ~Doomed /\ task'[t].pc \in {"receipt", "ignored"}
      PROVE  CalmInv'
  <2>1. UNCHANGED <<up, config, socket, live, saved, faults>>
    BY <1>1 DEF process, wires
  <2>2. ~up' \/ Doomed' => \A t \in Tasks : ~Running(t)'
    <3>1. SUFFICES ASSUME ~up \/ Doomed, NEW t \in Tasks PROVE ~Running(t)'
      BY <2>1 DEF Doomed
    <3>2. task'[t] = task[t] /\ ~Running(t)
      BY <1>1, <3>1 DEF CalmInv
    <3>. QED BY <3>2 DEF Running
  <2>3. up' /\ Doomed' => \A d \in Chains : Silent(d)'
    BY <2>1 DEF CalmInv, Doomed, Silent
  <2>4. ASSUME faults' = 0, NEW t \in Tasks
        PROVE  /\ task'[t].pc = "wait" => socket'[task'[t].to] = "open"
               /\ task'[t].pc = "dropped" /\ task'[t].to = To[t[1]] /\ Dropoff[t[1]] = 0 =>
                    \/ redeemed'[t[1]] > 0
                    \/ (task[t].nonce \in Nat /\ task[t].nonce < Issued(task[t].to))'
    <3>1. CASE task'[t] # task[t]
      BY <1>1, <3>1
    <3>2. CASE task'[t] = task[t]
      <4>1. task'[t].pc = "wait" => socket'[task'[t].to] = "open"
        BY <2>1, <2>4, <3>2 DEF CalmInv
      <4>2. t[1] \in Orders /\ To[t[1]] \in Chains
        BY DEF Tasks
      <4>3. ASSUME task[t].pc = "dropped", task[t].to = To[t[1]], Dropoff[t[1]] = 0
            PROVE  \/ redeemed'[t[1]] > 0
                   \/ (task[t].nonce \in Nat /\ task[t].nonce < Issued(task[t].to))'
        <5>1. CASE redeemed[t[1]] > 0
          BY <1>1, <4>2, <5>1
        <5>2. CASE task[t].nonce \in Nat /\ task[t].nonce < Issued(task[t].to)
          <6>1. PICK c \in Chains : c = task[t].to
            BY <4>2, <4>3
          <6>2. Issued(task[t].to)' = Issued(c)'
            BY <3>2, <6>1
          <6>. QED BY <1>1, <3>2, <5>2, <6>1, <6>2
        <5>. QED BY <2>1, <2>4, <4>3, <5>1, <5>2 DEF CalmInv
      <4>. QED BY <3>2, <4>1, <4>3
    <3>. QED BY <3>1, <3>2
  <2>. QED BY <2>1, <2>2, <2>3, <2>4 DEF CalmInv
<1>2. CASE Start \/ MainRound
  BY <1>2, CalmProcess
<1>3. ASSUME NEW c \in Chains, Wire(c) PROVE CalmInv'
  BY <1>3, CalmWire
<1>4. ASSUME NEW t \in Tasks, Handle(t) PROVE CalmInv'
  BY <1>4, CalmHandle
<1>5. ASSUME NEW tx \in pool, Mine(tx) PROVE CalmInv'
  <2>1. \A c \in Chains : Issued(c)' = Issued(c)
    BY <1>5, MineIssues
  <2>2. /\ UNCHANGED <<task, process, wires, faults>>
        /\ \A o \in Orders : redeemed[o] > 0 => redeemed'[o] > 0
    BY <1>5, MineRedeems
  <2>. QED BY <1>1, <2>1, <2>2
<1>6. ASSUME NEW o \in Orders, Publish(o) PROVE CalmInv'
  <2>1. /\ UNCHANGED <<process, wires, pool, mined, redeemed, faults>>
        /\ \A t \in Tasks : task'[t] # task[t] =>
             up /\ ~Doomed /\ task'[t].pc \in {"receipt", "ignored"}
    BY <1>6, PublishIs
  <2>2. \A c \in Chains : Issued(c)' = Issued(c)
    BY <2>1 DEF Issued, Pending
  <2>3. \A p \in Orders : redeemed[p] > 0 => redeemed'[p] > 0
    BY <2>1
  <2>. QED BY <1>1, <2>1, <2>2, <2>3
<1>7. ASSUME NEW o \in Orders, OthersRedeem(o) PROVE CalmInv'
  <2>1. /\ UNCHANGED <<process, wires, pool, mined, faults, task>>
        /\ redeemed' = [redeemed EXCEPT ![o] = redeemed[o] + 1]
    BY <1>7 DEF OthersRedeem
  <2>2. \A c \in Chains : Issued(c)' = Issued(c)
    BY <2>1 DEF Issued, Pending
  <2>3. \A p \in Orders : redeemed[p] > 0 => redeemed'[p] > 0
    BY <2>1 DEF MoneyInv, MoneyType
  <2>. QED BY <1>1, <2>1, <2>2, <2>3
<1>8. CASE UNCHANGED vars
  <2>1. UNCHANGED <<process, wires, pool, mined, redeemed, faults, task>>
    BY <1>8 DEF vars, chain
  <2>2. \A c \in Chains : Issued(c)' = Issued(c)
    BY <2>1 DEF Issued, Pending
  <2>. QED BY <1>1, <2>1, <2>2
<1>. QED BY <1>2, <1>3, <1>4, <1>5, <1>6, <1>7, <1>8 DEF Next

(* When no connection fails, an order the relayer could have redeemed is   *)
(* lost only because another handler of its own took the nonce it had      *)
(* read: every nonce already used belongs to a handler whose transaction   *)
(* arrived, and if that was the order's own it has been redeemed           *)
(* (index.ts, handleRelayerEvent; one Wallet per chain in env.ts).         *)
THEOREM LostOnlyToNonceRace == Spec => []LostToNonceRace
<1>1. Init => NonceInv /\ CalmInv
  <2>. SUFFICES ASSUME Init PROVE NonceInv /\ CalmInv
    OBVIOUS
  <2>1. Idle.pc = "idle"
    BY DEF Idle
  <2>2. \A c \in Chains : Issued(c) = 0
    <3>1. ASSUME NEW c \in Chains PROVE Issued(c) = 0
      <4>1. Pending(c) = {} /\ mined[c] = 0
        BY DEF Init, Pending
      <4>. QED BY <4>1, FS_EmptySet DEF Issued
    <3>. QED BY <3>1
  <2>3. NonceInv
    BY <2>1, <2>2 DEF NonceInv, Init
  <2>4. CalmInv
    BY <2>1 DEF CalmInv, Init, Running
  <2>. QED BY <2>3, <2>4
<1>2. WiresInv /\ MoneyInv /\ NonceInv /\ CalmInv /\ [Next]_vars => NonceInv' /\ CalmInv'
  BY NonceNext, CalmNext DEF WiresInv
<1>3. MoneyInv /\ NonceInv /\ CalmInv => LostToNonceRace
  <2>. SUFFICES ASSUME MoneyInv, NonceInv, CalmInv, NEW o \in Orders,
                       Lost(o), Dropoff[o] = 0, faults = 0
                PROVE  \E t \in Tasks :
                         /\ t[1] # o /\ task[t].to = To[o]
                         /\ \E u \in Tasks : /\ u[1] = o /\ task[u].nonce >= 0
                                             /\ task[u].nonce = task[t].nonce
    BY DEF LostToNonceRace
  <2>1. PICK u \in Tasks : u[1] = o /\ task[u].pc = "dropped" /\ task[u].to = To[o]
    BY DEF Lost, At
  <2>2. PICK c \in Chains : c = To[o]
    OBVIOUS
  <2>3. redeemed[o] = 0
    BY DEF Lost
  <2>4. PICK n \in Nat : n = task[u].nonce /\ n < Issued(c)
    BY <2>1, <2>2, <2>3 DEF CalmInv
  <2>5. PICK t \in Tasks : task[t].to = c /\ task[t].nonce = n /\ Landed(t)
    BY <2>4 DEF NonceInv
  <2>6. t[1] # o
    BY <2>2, <2>3, <2>5 DEF Landed, Lost
  <2>. QED BY <2>1, <2>2, <2>4, <2>5, <2>6
<1>. QED BY <1>1, <1>2, <1>3, WiresKept, MoneyKept, PTL DEF Spec
=============================================================================
