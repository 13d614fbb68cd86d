------------------------- MODULE SolanaClient_proof -------------------------
(***************************************************************************)
(* Proofs about SolanaClient, for any keys, fills, mints and calls: what a *)
(* builder fills in is accepted, and what became stale is refused.         *)
(***************************************************************************)
EXTENDS SolanaClient, SequenceTheorems, TLAPS

-----------------------------------------------------------------------------
(* What is awaited.                                                        *)

Of(s) == {s[i] : i \in 1 .. Len(s)}
Awaited(c) == Of(Reads(c))

LEMMA JoinIs ==
  ASSUME NEW S, NEW s \in Seq(S), NEW t \in Seq(S)
  PROVE  s \o t \in Seq(S) /\ Of(s \o t) = Of(s) \cup Of(t)
<1>1. /\ s \o t \in Seq(S)
      /\ Len(s \o t) = Len(s) + Len(t)
      /\ \A i \in 1 .. Len(s) + Len(t) : (s \o t)[i] = IF i <= Len(s) THEN s[i] ELSE t[i - Len(s)]
  BY ConcatProperties
<1>2. Len(s) \in Nat /\ Len(t) \in Nat
  OBVIOUS
<1>3. Of(s \o t) \subseteq Of(s) \cup Of(t)
  BY <1>1, <1>2 DEF Of
<1>4. Of(s) \subseteq Of(s \o t)
  BY <1>1, <1>2 DEF Of
<1>5. ASSUME NEW i \in 1 .. Len(t) PROVE t[i] \in Of(s \o t)
  <2>1. i + Len(s) \in 1 .. Len(s \o t) /\ (s \o t)[i + Len(s)] = t[i]
    BY <1>1, <1>2
  <2>. QED BY <2>1 DEF Of
<1>. QED BY <1>1, <1>3, <1>4, <1>5 DEF Of

LEMMA TakeIs ==
  ASSUME NEW S, NEW s \in Seq(S), s # <<>>
  PROVE  /\ Head(s) \in S /\ Tail(s) \in Seq(S)
         /\ Of(s) = {Head(s)} \cup Of(Tail(s))
<1>1. /\ Head(s) = s[1] /\ Tail(s) \in Seq(S) /\ Len(s) \in Nat \ {0}
      /\ Len(Tail(s)) = Len(s) - 1
      /\ \A i \in 1 .. Len(Tail(s)) : Tail(s)[i] = s[i + 1]
  OBVIOUS
<1>2. Of(s) \subseteq {Head(s)} \cup Of(Tail(s))
  <2> SUFFICES ASSUME NEW i \in 1 .. Len(s), i # 1 PROVE s[i] \in Of(Tail(s))
    BY <1>1 DEF Of
  <2>1. i - 1 \in 1 .. Len(Tail(s)) /\ Tail(s)[i - 1] = s[i]
    BY <1>1
  <2>. QED BY <2>1 DEF Of
<1>3. Of(Tail(s)) \subseteq Of(s)
  BY <1>1 DEF Of
<1>4. Head(s) \in Of(s)
  BY <1>1 DEF Of
<1>. QED BY <1>1, <1>2, <1>3, <1>4

\* The reads of a call are of different kinds, each of one account.
Reading(s) == s \in Seq(Of(s)) /\ \A r, q \in Of(s) : r.kind = q.kind => r = q

LEMMA ReadingJoin ==
  ASSUME NEW s, NEW t, Reading(s), Reading(t),
         \A r \in Of(s), q \in Of(t) : r.kind # q.kind
  PROVE  Reading(s \o t) /\ Of(s \o t) = Of(s) \cup Of(t)
<1> DEFINE S == Of(s) \cup Of(t)
<1>1. s \in Seq(S) /\ t \in Seq(S)
  BY SeqMonotonic DEF Reading
<1>2. s \o t \in Seq(S) /\ Of(s \o t) = S
  BY <1>1, JoinIs
<1>. QED BY <1>2 DEF Reading

LEMMA NoRead == Reading(<<>>) /\ Of(<<>>) = {}
<1>1. Len(<<>>) = 0 /\ <<>> \in Seq({})
  OBVIOUS
<1>. QED BY <1>1 DEF Reading, Of

LEMMA OneRead == ASSUME NEW r PROVE Reading(<<r>>) /\ Of(<<r>>) = {r}
<1>1. Len(<<r>>) = 1 /\ <<r>>[1] = r /\ <<r>> \in Seq({r})
  OBVIOUS
<1>2. Of(<<r>>) = {r}
  BY <1>1 DEF Of
<1>. QED BY <1>1, <1>2 DEF Reading

LEMMA ReadingUnless ==
  ASSUME NEW b, NEW r
  PROVE  Reading(Unless(b, r)) /\ Of(Unless(b, r)) = IF b THEN {} ELSE {r}
<1>1. CASE b
  <2>1. Unless(b, r) = <<>>
    BY <1>1 DEF Unless
  <2>. QED BY <1>1, <2>1, NoRead
<1>2. CASE ~b
  <2>1. Unless(b, r) = <<r>>
    BY <1>2 DEF Unless
  <2>. QED BY <1>2, <2>1, OneRead
<1>. QED BY <1>1, <1>2

\* The reads of a call, as a set.
Need(given, read) == IF given THEN {} ELSE {read}

StagedNeed(c) ==
  Need(Given(c, "chain") /\ Given(c, "refund") /\ Given(c, "preparedBy"), Read("staged", c.key))
FillNeed(c) == Need(Given(c, "chain"), Read("fill", c.fill))
MintNeed(c, mint) == Need(Given(c, "program"), Read("mint", mint))
OwnerNeed(c) ==
  Need(c.by # "programTransferAuthority" \/ Given(c, "authority"), Read("owner", c.senderToken))
CustodianNeed(c) == Need(Given(c, "feeToken"), Read("custodian", Null))

Needs(c) ==
  CASE c.method = "close" ->
         Need(Given(c, "preparedBy") /\ Given(c, "sender"), Read("staged", c.key))
    [] c.method = "stage" -> MintNeed(c, srcMint(c)) \cup OwnerNeed(c)
    [] c.method = "initiateTransfer" -> StagedNeed(c)
    [] c.method = "initiateSwap" -> StagedNeed(c) \cup MintNeed(c, srcMint(c))
    [] c.method = "completeTransferRelay" -> CustodianNeed(c) \cup FillNeed(c)
    [] c.method \in {"completeTransferDirect", "completeTransferPayload"} -> FillNeed(c)
    [] c.method = "release" ->
         Need(Given(c, "mint") /\ Given(c, "program"), Read("token", c.dstToken))
    [] c.method \in {"completeSwapDirect", "completeSwapRelay", "completeSwapPayload"} ->
         CustodianNeed(c) \cup MintNeed(c, dstMint(c)) \cup {Read("fill", c.fill)}

LEMMA ReadsAre ==
  ASSUME NEW c, c.method \in KeyMethods \cup FillMethods
  PROVE  Reading(Reads(c)) /\ Of(Reads(c)) = Needs(c)
<1> DEFINE staged1 == StagedRead(c)
           fill == FillRead(c)
           custodian == CustodianRead(c)
           src == MintRead(c, srcMint(c))
           dst == MintRead(c, dstMint(c))
           filled == <<Read("fill", c.fill)>>
           owner == OwnerRead(c)
<1>1. Reading(staged1) /\ Of(staged1) = StagedNeed(c) /\ \A r \in Of(staged1) : r.kind = "staged"
  <2> DEFINE read == Read("staged", c.key)
  <2>1. \/ staged1 = <<>> /\ StagedNeed(c) = {}
        \/ staged1 = <<read>> /\ StagedNeed(c) = {read}
    BY DEF StagedRead, StagedNeed, Need, Unless
  <2>2. read.kind = "staged" /\ Reading(<<read>>) /\ Of(<<read>>) = {read}
    BY OneRead DEF Read
  <2>. QED BY <2>1, <2>2, NoRead
<1>2. Reading(fill) /\ Of(fill) = FillNeed(c) /\ \A r \in Of(fill) : r.kind = "fill"
  BY ReadingUnless DEF FillRead, FillNeed, Need, Read
<1>3. Reading(custodian) /\ Of(custodian) = CustodianNeed(c)
      /\ \A r \in Of(custodian) : r.kind = "custodian"
  BY ReadingUnless DEF CustodianRead, CustodianNeed, Need, Read
<1>4. Reading(src) /\ Of(src) = MintNeed(c, srcMint(c)) /\ \A r \in Of(src) : r.kind = "mint"
  BY ReadingUnless DEF MintRead, MintNeed, Need, Read
<1>5. Reading(dst) /\ Of(dst) = MintNeed(c, dstMint(c)) /\ \A r \in Of(dst) : r.kind = "mint"
  BY ReadingUnless DEF MintRead, MintNeed, Need, Read
<1>6. Reading(filled) /\ Of(filled) = {Read("fill", c.fill)} /\ \A r \in Of(filled) : r.kind = "fill"
  <2>1. Reading(filled) /\ Of(filled) = {Read("fill", c.fill)}
    BY OneRead
  <2>. QED BY <2>1 DEF Read
<1>7. CASE c.method = "close"
  BY <1>7, ReadingUnless DEF Reads, Needs, Need
<1>8. CASE c.method = "stage"
  <2>1. Reading(owner) /\ Of(owner) = OwnerNeed(c) /\ \A r \in Of(owner) : r.kind = "owner"
    <3> DEFINE read == Read("owner", c.senderToken)
    <3>1. \/ owner = <<>> /\ OwnerNeed(c) = {}
          \/ owner = <<read>> /\ OwnerNeed(c) = {read}
      BY DEF OwnerRead, OwnerNeed, Need, Unless
    <3>2. read.kind = "owner" /\ Reading(<<read>>) /\ Of(<<read>>) = {read}
      BY OneRead DEF Read
    <3>. QED BY <3>1, <3>2, NoRead
  <2>2. Reading(src \o owner) /\ Of(src \o owner) = Of(src) \cup Of(owner)
    BY <1>4, <2>1, ReadingJoin
  <2>. QED BY <1>4, <1>8, <2>1, <2>2 DEF Reads, Needs
<1>9. CASE c.method = "initiateTransfer"
  BY <1>1, <1>9 DEF Reads, Needs
<1>10. CASE c.method = "initiateSwap"
  <2>1. Reading(staged1 \o src) /\ Of(staged1 \o src) = Of(staged1) \cup Of(src)
    BY <1>1, <1>4, ReadingJoin
  <2>. QED BY <1>1, <1>4, <1>10, <2>1 DEF Reads, Needs
<1>11. CASE c.method = "completeTransferRelay"
  <2>1. Reading(custodian \o fill) /\ Of(custodian \o fill) = Of(custodian) \cup Of(fill)
    BY <1>2, <1>3, ReadingJoin
  <2>. QED BY <1>2, <1>3, <1>11, <2>1 DEF Reads, Needs
<1>12. CASE c.method \in {"completeTransferDirect", "completeTransferPayload"}
  BY <1>2, <1>12 DEF Reads, Needs
<1>13. CASE c.method = "release"
  BY <1>13, ReadingUnless DEF Reads, Needs, Need
<1>14. CASE c.method \in {"completeSwapDirect", "completeSwapRelay"}
  <2>1. Reading(custodian \o dst) /\ Of(custodian \o dst) = Of(custodian) \cup Of(dst)
    BY <1>3, <1>5, ReadingJoin
  <2>2. /\ Reading((custodian \o dst) \o filled)
        /\ Of((custodian \o dst) \o filled) = Of(custodian \o dst) \cup Of(filled)
    BY <1>3, <1>5, <1>6, <2>1, ReadingJoin
  <2>3. Reads(c) = (custodian \o dst) \o filled
    BY <1>14 DEF Reads
  <2>. QED BY <1>3, <1>5, <1>6, <1>14, <2>1, <2>2, <2>3 DEF Needs
<1>15. CASE c.method = "completeSwapPayload"
  <2>1. Reading(dst \o custodian) /\ Of(dst \o custodian) = Of(dst) \cup Of(custodian)
    BY <1>3, <1>5, ReadingJoin
  <2>2. /\ Reading((dst \o custodian) \o filled)
        /\ Of((dst \o custodian) \o filled) = Of(dst \o custodian) \cup Of(filled)
    BY <1>3, <1>5, <1>6, <2>1, ReadingJoin
  <2>3. Reads(c) = (dst \o custodian) \o filled
    BY <1>15 DEF Reads
  <2>. QED BY <1>3, <1>5, <1>6, <1>15, <2>1, <2>2, <2>3 DEF Needs
<1>. QED BY <1>7, <1>8, <1>9, <1>10, <1>11, <1>12, <1>13, <1>14, <1>15 DEF KeyMethods, FillMethods

-----------------------------------------------------------------------------
(* What a builder has read so far.                                         *)

AllRead == \A r \in Awaited(call.args) :
  \/ r \in Of(call.reads)
  \/ /\ r.kind \in DOMAIN call.got
     /\ call.fresh => call.got[r.kind] = Found(r) /\ Found(r) # None

CallOK ==
  /\ DOMAIN call = {"args", "reads", "got", "ix", "fresh"}
  /\ call.args \in Calls /\ ~Throws(call.args) /\ call.fresh \in BOOLEAN
  /\ call.reads \in Seq(Awaited(call.args))
  /\ DOMAIN call.got \subseteq {r.kind : r \in Awaited(call.args)}
  /\ AllRead
  /\ call.ix # None => call.reads = <<>> /\ call.ix = Build(call.args, call.got)

CallInv == call # Idle => CallOK

LEMMA CallIs ==
  ASSUME NEW c \in Calls
  PROVE  /\ c.method \in KeyMethods \cup FillMethods
         /\ Reading(Reads(c)) /\ Awaited(c) = Needs(c)
  BY ReadsAre, CallsAssumption DEF Awaited

LEMMA AwaitKeeps == ASSUME CallInv, Await PROVE CallInv'
<1> DEFINE r == Head(call.reads)
<1>1. call # Idle /\ CallOK /\ call.ix = None /\ call.reads # <<>> /\ UNCHANGED chain
  BY DEF Await, CallInv
<1>2. SUFFICES ASSUME Found(r) # None, call' # Idle PROVE CallOK'
  BY DEF Await, CallInv
<1> DEFINE read == [k \in {r.kind} |-> Found(r)] ++ call.got
<1>3. call' = [call EXCEPT !.reads = Tail(@), !.got = read]
  BY <1>1, <1>2 DEF Await, CallOK
<1>4. /\ DOMAIN call' = DOMAIN call /\ call'.args = call.args /\ call'.ix = None
      /\ call'.fresh = call.fresh /\ call'.reads = Tail(call.reads) /\ call'.got = read
  BY <1>1, <1>3 DEF CallOK
<1>5. /\ r \in Awaited(call.args) /\ Tail(call.reads) \in Seq(Awaited(call.args))
      /\ Of(call.reads) = {r} \cup Of(Tail(call.reads))
  BY <1>1, TakeIs DEF CallOK
<1>6. /\ DOMAIN read = {r.kind} \cup DOMAIN call.got /\ read[r.kind] = Found(r)
      /\ \A k \in DOMAIN call.got : k # r.kind => read[k] = call.got[k]
  BY DEF ++
<1>7. \A q : Found(q)' = Found(q)
  BY <1>1 DEF chain, Found
<1>8. \A q \in Awaited(call.args) : q.kind = r.kind => q = r
  BY <1>1, <1>5, CallIs DEF CallOK, Reading, Awaited
<1>9. AllRead'
  <2> SUFFICES ASSUME NEW q \in Awaited(call.args), q \notin Of(Tail(call.reads))
               PROVE  /\ q.kind \in DOMAIN read
                      /\ call.fresh => read[q.kind] = Found(q) /\ Found(q) # None
    BY <1>4, <1>7 DEF AllRead
  <2>1. CASE q.kind = r.kind
    BY <1>2, <1>6, <1>8, <2>1
  <2>2. CASE q.kind # r.kind
    BY <1>1, <1>5, <1>6, <2>2 DEF CallOK, AllRead
  <2>. QED BY <2>1, <2>2
<1>10. DOMAIN read \subseteq {q.kind : q \in Awaited(call.args)}
  BY <1>1, <1>5, <1>6 DEF CallOK
<1>11. Throws(call.args)' = Throws(call.args) /\ Awaited(call.args)' = Awaited(call.args)
  BY <1>4 DEF Throws, Awaited
<1>. QED BY <1>1, <1>4, <1>5, <1>9, <1>10, <1>11 DEF CallOK

LEMMA CallStep == ASSUME CallInv, [Next]_vars PROVE CallInv'
<1>1. ASSUME NEW c \in Calls, Begin(c) PROVE CallInv'
  <2>1. /\ call' = [args |-> c, reads |-> Reads(c), got |-> <<>>, ix |-> None, fresh |-> TRUE]
        /\ ~Throws(c)
    BY <1>1 DEF Begin
  <2>2. Reads(c) \in Seq(Awaited(c)) /\ DOMAIN <<>> = {}
    BY CallIs DEF Reading, Awaited
  <2>3. AllRead'
    BY <2>1 DEF AllRead, Awaited
  <2>. QED BY <2>1, <2>2, <2>3 DEF CallInv, CallOK
<1>2. ASSUME Return PROVE CallInv'
  <2>1. call # Idle /\ CallOK /\ call.ix = None /\ call.reads = <<>> /\ UNCHANGED chain
        /\ call' = [call EXCEPT !.ix = Build(call.args, call.got)]
    BY <1>2 DEF Return, CallInv
  <2>2. /\ DOMAIN call' = DOMAIN call /\ call'.args = call.args /\ call'.got = call.got
        /\ call'.fresh = call.fresh /\ call'.reads = call.reads
        /\ call'.ix = Build(call.args, call.got)
    BY <2>1 DEF CallOK
  <2>3. \A q : Found(q)' = Found(q)
    BY <2>1 DEF chain, Found
  <2>4. AllRead'
    BY <2>1, <2>2, <2>3 DEF AllRead, CallOK
  <2>. QED BY <2>1, <2>2, <2>4 DEF CallInv, CallOK
<1>3. ASSUME Land PROVE CallInv'
  BY <1>3 DEF Land, CallInv
<1>4. ASSUME NoLongerFresh PROVE CallInv'
  <2> SUFFICES ASSUME call # Idle, CallOK, call' = [call EXCEPT !.fresh = FALSE] PROVE CallOK'
    BY <1>4 DEF NoLongerFresh, CallInv
  <2>1. /\ DOMAIN call' = DOMAIN call /\ call'.args = call.args /\ call'.got = call.got
        /\ call'.fresh = FALSE /\ call'.reads = call.reads /\ call'.ix = call.ix
    BY DEF CallOK
  <2>2. AllRead'
    BY <2>1 DEF AllRead, CallOK
  <2>. QED BY <2>1, <2>2 DEF CallOK
<1>5. ASSUME UNCHANGED vars PROVE CallInv'
  <2>1. (\A q : Found(q)' = Found(q)) /\ call' = call
    BY <1>5 DEF vars, Found
  <2>2. AllRead => AllRead'
    BY <2>1 DEF AllRead
  <2>. QED BY <2>1, <2>2 DEF CallInv, CallOK
<1>6. ASSUME Await PROVE CallInv'
  BY <1>6, AwaitKeeps
<1>. QED BY <1>1, <1>2, <1>3, <1>4, <1>5, <1>6
         DEF Next, OthersCloseOrInitiate, OthersStage, OthersComplete, OthersRelease,
             OthersPrepareFill, UpdateFeeRecipient

LEMMA CallKept == Spec => []CallInv
<1>1. Init => CallInv
  BY DEF Init, CallInv
<1>. QED BY <1>1, CallStep, PTL DEF Spec

-----------------------------------------------------------------------------
(* The instructions that are built, field by field.                        *)

LEMMA CloseIs ==
  ASSUME NEW c, NEW got, c.method = "close", NEW x, x = Build(c, got)
  PROVE  /\ DOMAIN x = {"method", "signers", "key", "sender", "preparedBy", "peer", "custody",
                        "senderToken", "program"}
         /\ x.method = "close" /\ x.signers = c.signers /\ x.key = c.key
         /\ x.sender = Or(c, "sender", got.staged.sender)
         /\ x.preparedBy = Or(c, "preparedBy", got.staged.preparedBy)
         /\ x.peer = <<"peer", c.chain>> /\ x.custody = <<"staged-custody", c.key>>
         /\ x.senderToken = c.senderToken /\ x.program = TokenProgram
  BY DEF Build, closeStagedOutboundIx, peerAddress, stagedCustodyTokenAddress

OrderFields(x, c, got) ==
  /\ x.key = c.key
  /\ x.preparedBy = Or(c, "preparedBy", got.staged.preparedBy)
  /\ x.refund = Or(c, "refund", got.staged.refund)
  /\ x.peer = <<"peer", Or(c, "chain", got.staged.chain)>>
  /\ x.order = Or(c, "order", <<"prepared-order", c.key>>)

\* x has the fields of both, those of f before those of g.
Merges(x, f, g) ==
  /\ DOMAIN x = DOMAIN f \cup DOMAIN g
  /\ \A a \in DOMAIN f : x[a] = f[a]
  /\ \A a \in DOMAIN g : a \notin DOMAIN f => x[a] = g[a]

OrderNames == {"key", "signers", "preparedBy", "refund", "peer", "order"}

LEMMA OrderAccountsAre ==
  ASSUME NEW c, NEW got, NEW g, g = OrderAccounts(c, got)
  PROVE  DOMAIN g = OrderNames /\ OrderFields(g, c, got)
  BY DEF OrderAccounts, OrderFields, OrderNames, peerAddress, preparedOrderAddress

LEMMA TransferIs ==
  ASSUME NEW c, NEW got, c.method = "initiateTransfer", NEW x, x = Build(c, got)
  PROVE  /\ DOMAIN x = {"method", "custody", "key", "signers", "preparedBy", "refund", "peer", "order"}
         /\ x.method = "initiateTransfer" /\ OrderFields(x, c, got)
         /\ x.custody = Or(c, "custody", <<"staged-custody", c.key>>)
<1>1. PICK f : f = [method |-> "initiateTransfer",
                    custody |-> Or(c, "custody", stagedCustodyTokenAddress(c.key))]
  OBVIOUS
<1>2. Merges(x, f, OrderAccounts(c, got))
  BY <1>1 DEF Build, initiateTransferIx, Merges, ++
<1>3. DOMAIN f = {"method", "custody"} /\ f.method = "initiateTransfer"
      /\ f.custody = Or(c, "custody", <<"staged-custody", c.key>>)
  BY <1>1 DEF stagedCustodyTokenAddress
<1>4. /\ DOMAIN x = DOMAIN f \cup OrderNames
      /\ OrderFields(x, c, got) /\ \A a \in DOMAIN f : x[a] = f[a]
  <2>1. PICK g : g = OrderAccounts(c, got)
    OBVIOUS
  <2>2. DOMAIN g = OrderNames /\ OrderFields(g, c, got) /\ Merges(x, f, g)
    BY <1>2, <2>1, OrderAccountsAre
  <2>3. \A a \in OrderNames : a \notin DOMAIN f /\ x[a] = g[a]
    BY <1>3, <2>2 DEF OrderNames, Merges
  <2>4. OrderFields(x, c, got)
    BY <2>2, <2>3 DEF OrderFields, OrderNames
  <2>. QED BY <2>2, <2>4 DEF Merges
<1>. QED BY <1>3, <1>4 DEF OrderNames

LEMMA SwapIs ==
  ASSUME NEW c, NEW got, c.method = "initiateSwap", NEW x, x = Build(c, got)
  PROVE  /\ DOMAIN x = {"method", "custody", "authority", "mint", "program", "srcSwap", "dstSwap",
                        "key", "signers", "preparedBy", "refund", "peer", "order"}
         /\ x.method = "initiateSwap" /\ OrderFields(x, c, got)
         /\ x.custody = <<"staged-custody", c.key>>
         /\ x.authority = <<"swap-authority", x.order>>
         /\ x.mint = srcMint(c) /\ x.program = Or(c, "program", got.mint.program)
         /\ x.srcSwap = Ata(x.mint, x.authority, x.program)
         /\ x.dstSwap = Ata(Usdc, x.authority, TokenProgram)
<1>1. PICK program, authority :
        /\ program = Or(c, "program", got.mint.program)
        /\ authority = <<"swap-authority", Or(c, "order", <<"prepared-order", c.key>>)>>
  OBVIOUS
<1>2. PICK f :
        f = [method |-> "initiateSwap", custody |-> stagedCustodyTokenAddress(c.key),
             authority |-> authority, mint |-> srcMint(c), program |-> program,
             srcSwap |-> Ata(srcMint(c), authority, program),
             dstSwap |-> Ata(Usdc, authority, TokenProgram)]
  OBVIOUS
<1>3. OrderAccounts(c, got).order = Or(c, "order", <<"prepared-order", c.key>>)
  BY DEF OrderAccounts, preparedOrderAddress
<1>4. Merges(x, f, OrderAccounts(c, got))
  BY <1>1, <1>2, <1>3 DEF Build, initiateSwapExactInIxes, swapAuthorityAddress, Merges, ++
<1>5. /\ DOMAIN f = {"method", "custody", "authority", "mint", "program", "srcSwap", "dstSwap"}
      /\ f.method = "initiateSwap" /\ f.custody = <<"staged-custody", c.key>>
      /\ f.authority = authority /\ f.mint = srcMint(c) /\ f.program = program
      /\ f.srcSwap = Ata(srcMint(c), authority, program)
      /\ f.dstSwap = Ata(Usdc, authority, TokenProgram)
  BY <1>2 DEF stagedCustodyTokenAddress
<1>6. /\ DOMAIN x = DOMAIN f \cup OrderNames
      /\ OrderFields(x, c, got) /\ \A a \in DOMAIN f : x[a] = f[a]
  <2>1. PICK g : g = OrderAccounts(c, got)
    OBVIOUS
  <2>2. DOMAIN g = OrderNames /\ OrderFields(g, c, got) /\ Merges(x, f, g)
    BY <1>4, <2>1, OrderAccountsAre
  <2>3. \A a \in OrderNames : a \notin DOMAIN f /\ x[a] = g[a]
    BY <1>5, <2>2 DEF OrderNames, Merges
  <2>4. OrderFields(x, c, got)
    BY <2>2, <2>3 DEF OrderFields, OrderNames
  <2>. QED BY <2>2, <2>4 DEF Merges
<1>. QED BY <1>1, <1>5, <1>6 DEF OrderFields, OrderNames
\* What the completions have in common, and the swaps among them.
FillFields(x, c, got) ==
  /\ x.fill = c.fill
  /\ x.peer = Or(c, "peer", <<"peer", Or(c, "chain", got.fill.chain)>>)
FillNames == {"fill", "beneficiary", "peer"}

SwapFields(x, authority, mint, program) ==
  /\ x.authority = authority /\ x.mint = mint /\ x.program = program
  /\ x.srcSwap = Ata(Usdc, authority, TokenProgram) /\ x.dstSwap = Ata(mint, authority, program)
SwapNames == {"authority", "mint", "program", "srcSwap", "dstSwap"}

LEMMA FillAccountsAre ==
  ASSUME NEW c, NEW got, NEW g, g = consumeSwapLayerFillComposite(c, got)
  PROVE  DOMAIN g = FillNames /\ FillFields(g, c, got)
  BY DEF consumeSwapLayerFillComposite, FillFields, FillNames, peerAddress

LEMMA SwapAccountsAre ==
  ASSUME NEW authority, NEW mint, NEW program,
         NEW g, g = prepareSwapAccounts(authority, mint, program)
  PROVE  DOMAIN g = SwapNames /\ SwapFields(g, authority, mint, program)
  BY DEF prepareSwapAccounts, SwapFields, SwapNames

LEMMA CompleteTransferRelayIs ==
  ASSUME NEW c, NEW got, c.method = "completeTransferRelay", NEW x, x = Build(c, got)
  PROVE  /\ x.method = "completeTransferRelay" /\ x.signers = c.signers
         /\ x.redeemer = Or(c, "redeemer", c.payer) /\ x.recipient = c.recipient
         /\ x.recipientToken = Or(c, "recipientToken", Ata(Usdc, c.recipient, TokenProgram))
         /\ x.complete = <<"complete", c.fill>>
         /\ x.feeToken = Or(c, "feeToken", got.custodian.feeToken)
         /\ FillFields(x, c, got)
<1>1. PICK f :
        f = [method |-> "completeTransferRelay", signers |-> c.signers, payer |-> c.payer,
             redeemer |-> Or(c, "redeemer", c.payer), recipient |-> c.recipient,
             recipientToken |-> Or(c, "recipientToken", Ata(Usdc, c.recipient, TokenProgram)),
             complete |-> completeTokenAccountKey(c.fill),
             feeToken |-> Or(c, "feeToken", got.custodian.feeToken)]
  OBVIOUS
<1>2. PICK g : g = consumeSwapLayerFillComposite(c, got)
  OBVIOUS
<1>3. Merges(x, f, g)
  BY <1>1, <1>2 DEF Build, completeTransferRelayIx, Merges, ++
<1>4. DOMAIN g = FillNames /\ FillFields(g, c, got)
  BY <1>2, FillAccountsAre
<1>5. /\ DOMAIN f = {"method", "signers", "payer", "redeemer", "recipient", "recipientToken",
                     "complete", "feeToken"}
      /\ f.method = "completeTransferRelay" /\ f.signers = c.signers
      /\ f.redeemer = Or(c, "redeemer", c.payer) /\ f.recipient = c.recipient
      /\ f.recipientToken = Or(c, "recipientToken", Ata(Usdc, c.recipient, TokenProgram))
      /\ f.complete = <<"complete", c.fill>>
      /\ f.feeToken = Or(c, "feeToken", got.custodian.feeToken)
  BY <1>1 DEF completeTokenAccountKey
<1>6. \A a \in FillNames : x[a] = g[a]
  BY <1>3, <1>4, <1>5 DEF Merges, FillNames
<1>7. FillFields(x, c, got)
  BY <1>4, <1>6 DEF FillFields, FillNames
<1>8. \A a \in DOMAIN f : x[a] = f[a]
  BY <1>3 DEF Merges
<1>. QED BY <1>5, <1>7, <1>8

LEMMA CompleteTransferDirectIs ==
  ASSUME NEW c, NEW got, c.method = "completeTransferDirect", NEW x, x = Build(c, got)
  PROVE  /\ x.method = "completeTransferDirect" /\ x.signers = c.signers
         /\ x.redeemer = Or(c, "redeemer", c.payer) /\ x.recipient = c.recipient
         /\ x.recipientToken = Or(c, "recipientToken", Ata(Usdc, c.recipient, TokenProgram))
         /\ FillFields(x, c, got)
<1>1. PICK f :
        f = [method |-> "completeTransferDirect", signers |-> c.signers,
             redeemer |-> Or(c, "redeemer", c.payer), recipient |-> c.recipient,
             recipientToken |-> Or(c, "recipientToken", Ata(Usdc, c.recipient, TokenProgram))]
  OBVIOUS
<1>2. PICK g : g = consumeSwapLayerFillComposite(c, got)
  OBVIOUS
<1>3. Merges(x, f, g)
  BY <1>1, <1>2 DEF Build, completeTransferDirectIx, Merges, ++
<1>4. DOMAIN g = FillNames /\ FillFields(g, c, got)
  BY <1>2, FillAccountsAre
<1>5. /\ DOMAIN f = {"method", "signers", "redeemer", "recipient", "recipientToken"}
      /\ f.method = "completeTransferDirect" /\ f.signers = c.signers
      /\ f.redeemer = Or(c, "redeemer", c.payer) /\ f.recipient = c.recipient
      /\ f.recipientToken = Or(c, "recipientToken", Ata(Usdc, c.recipient, TokenProgram))
  BY <1>1
<1>6. \A a \in FillNames : x[a] = g[a]
  BY <1>3, <1>4, <1>5 DEF Merges, FillNames
<1>7. FillFields(x, c, got)
  BY <1>4, <1>6 DEF FillFields, FillNames
<1>8. \A a \in DOMAIN f : x[a] = f[a]
  BY <1>3 DEF Merges
<1>. QED BY <1>5, <1>7, <1>8

LEMMA CompleteTransferPayloadIs ==
  ASSUME NEW c, NEW got, c.method = "completeTransferPayload", NEW x, x = Build(c, got)
  PROVE  /\ x.method = "completeTransferPayload" /\ x.signers = c.signers
         /\ x.redeemer = Or(c, "redeemer", c.payer)
         /\ x.inbound = <<"staged-inbound", c.fill>> /\ x.custody = <<"staged-custody", x.inbound>>
         /\ FillFields(x, c, got)
<1>1. PICK f :
        f = [method |-> "completeTransferPayload", signers |-> c.signers, payer |-> c.payer,
             redeemer |-> Or(c, "redeemer", c.payer),
             inbound |-> stagedInboundAddress(c.fill),
             custody |-> stagedCustodyTokenAddress(stagedInboundAddress(c.fill))]
  OBVIOUS
<1>2. PICK g : g = consumeSwapLayerFillComposite(c, got)
  OBVIOUS
<1>3. Merges(x, f, g)
  BY <1>1, <1>2 DEF Build, completeTransferPayloadIx, Merges, ++
<1>4. DOMAIN g = FillNames /\ FillFields(g, c, got)
  BY <1>2, FillAccountsAre
<1>5. /\ DOMAIN f = {"method", "signers", "payer", "redeemer", "inbound", "custody"}
      /\ f.method = "completeTransferPayload" /\ f.signers = c.signers
      /\ f.redeemer = Or(c, "redeemer", c.payer)
      /\ f.inbound = <<"staged-inbound", c.fill>> /\ f.custody = <<"staged-custody", f.inbound>>
  BY <1>1 DEF stagedInboundAddress, stagedCustodyTokenAddress
<1>6. \A a \in FillNames : x[a] = g[a]
  BY <1>3, <1>4, <1>5 DEF Merges, FillNames
<1>7. FillFields(x, c, got)
  BY <1>4, <1>6 DEF FillFields, FillNames
<1>8. \A a \in DOMAIN f : x[a] = f[a]
  BY <1>3 DEF Merges
<1>. QED BY <1>5, <1>7, <1>8

LEMMA ReleaseIs ==
  ASSUME NEW c, NEW got, c.method = "release", NEW x, x = Build(c, got)
  PROVE  /\ x.method = "release" /\ x.signers = c.signers /\ x.fill = c.fill
         /\ x.recipient = c.recipient /\ x.dstToken = c.dstToken
         /\ x.custody = <<"staged-custody", <<"staged-inbound", c.fill>>>>
         /\ x.mint = Or(c, "mint", got.token.mint)
         /\ x.program = Or(c, "program", got.token.program)
  BY DEF Build, releaseInboundIx, stagedCustodyTokenAddress, stagedInboundAddress

LEMMA StageIs ==
  ASSUME NEW c, NEW got, c.method = "stage", NEW x, x = Build(c, got)
  PROVE  /\ x.method = "stage" /\ x.key = c.key /\ x.args = c.args /\ x.refund = c.refund
         /\ x.signers = c.signers /\ x.mint = srcMint(c)
         /\ x.program = Or(c, "program", got.mint.program)
         /\ x.sender = Or(c, "sender", IF c.by = "programTransferAuthority" THEN Null ELSE c.payer)
         /\ x.senderToken =
              Or(c, "senderToken",
                 IF c.by = "native" THEN Null ELSE Ata(srcMint(c), x.sender, TokenProgram))
         /\ x.peer = Or(c, "peer", <<"peer", c.args.chain>>)
         /\ x.custody = <<"staged-custody", c.key>>
         /\ IF c.by = "programTransferAuthority" /\ ~Given(c, "authority")
            THEN /\ x.authority = <<"transfer-authority", c.args>>
                 /\ x.approve = createApproveInstruction(x.senderToken, x.authority,
                                                         got.owner.owner, c.args.amountIn)
            ELSE x.authority = Null /\ x.approve = Null
  BY DEF Build, stageOutboundIx, transferAuthority, peerAddress, stagedCustodyTokenAddress

SwapMethods == {"completeSwapDirect", "completeSwapRelay"}

LEMMA CompleteSwapIs ==
  ASSUME NEW c, NEW got, c.method \in SwapMethods, NEW x, x = Build(c, got)
  PROVE  /\ x.method = c.method /\ x.payer = c.payer /\ x.recipient = c.recipient
         /\ x.recipientToken = Or(c, "recipientToken", Ata(x.mint, c.recipient, x.program))
         /\ x.feeToken = Or(c, "feeToken", got.custodian.feeToken)
         /\ SwapFields(x, <<"swap-authority", c.fill>>, dstMint(c), Or(c, "program", got.mint.program))
         /\ FillFields(x, c, got)
<1>1. PICK program : program = Or(c, "program", got.mint.program)
  OBVIOUS
<1>2. PICK f :
        f = [method |-> c.method, signers |-> c.signers, payer |-> c.payer,
             recipient |-> c.recipient,
             recipientToken |-> Or(c, "recipientToken", Ata(dstMint(c), c.recipient, program)),
             feeToken |-> Or(c, "feeToken", got.custodian.feeToken)]
  OBVIOUS
<1>3. PICK g : g = prepareSwapAccounts(<<"swap-authority", c.fill>>, dstMint(c), program)
  OBVIOUS
<1>4. PICK h : h = consumeSwapLayerFillComposite(c, got)
  OBVIOUS
<1>5. x = (f ++ g) ++ h
  BY <1>1, <1>2, <1>3, <1>4 DEF Build, completeSwapIxes, swapAuthorityAddress, SwapMethods
<1>6. PICK y : y = f ++ g
  OBVIOUS
<1>7. Merges(y, f, g) /\ Merges(x, y, h)
  BY <1>5, <1>6 DEF Merges, ++
<1>8. /\ DOMAIN g = SwapNames /\ SwapFields(g, <<"swap-authority", c.fill>>, dstMint(c), program)
      /\ DOMAIN h = FillNames /\ FillFields(h, c, got)
  BY <1>3, <1>4, SwapAccountsAre, FillAccountsAre
<1>9. /\ DOMAIN f = {"method", "signers", "payer", "recipient", "recipientToken", "feeToken"}
      /\ f.method = c.method /\ f.payer = c.payer /\ f.recipient = c.recipient
      /\ f.recipientToken = Or(c, "recipientToken", Ata(dstMint(c), c.recipient, program))
      /\ f.feeToken = Or(c, "feeToken", got.custodian.feeToken)
  BY <1>2
<1>10. /\ \A a \in DOMAIN f : x[a] = f[a]
       /\ \A a \in SwapNames : x[a] = g[a]
       /\ \A a \in FillNames : x[a] = h[a]
  BY <1>7, <1>8, <1>9 DEF Merges, SwapNames, FillNames
<1>11. /\ SwapFields(x, <<"swap-authority", c.fill>>, dstMint(c), program)
       /\ FillFields(x, c, got)
  BY <1>8, <1>10 DEF SwapFields, SwapNames, FillFields, FillNames
<1>. QED BY <1>1, <1>9, <1>10, <1>11 DEF SwapFields

LEMMA CompleteSwapPayloadIs ==
  ASSUME NEW c, NEW got, c.method = "completeSwapPayload", NEW x, x = Build(c, got)
  PROVE  /\ x.method = "completeSwapPayload" /\ x.inbound = <<"staged-inbound", c.fill>>
         /\ x.feeToken = Or(c, "feeToken", got.custodian.feeToken)
         /\ SwapFields(x, x.inbound, dstMint(c), Or(c, "program", got.mint.program))
         /\ FillFields(x, c, got)
<1>1. PICK f :
        f = [method |-> "completeSwapPayload", signers |-> c.signers, payer |-> c.payer,
             inbound |-> <<"staged-inbound", c.fill>>,
             feeToken |-> Or(c, "feeToken", got.custodian.feeToken)]
  OBVIOUS
<1>2. PICK program : program = Or(c, "program", got.mint.program)
  OBVIOUS
<1>3. PICK g : g = prepareSwapAccounts(<<"staged-inbound", c.fill>>, dstMint(c), program)
  OBVIOUS
<1>4. PICK h : h = consumeSwapLayerFillComposite(c, got)
  OBVIOUS
<1>5. x = (f ++ g) ++ h
  BY <1>1, <1>2, <1>3, <1>4 DEF Build, completeSwapPayloadIxes, stagedInboundAddress
<1>6. PICK y : y = f ++ g
  OBVIOUS
<1>7. Merges(y, f, g) /\ Merges(x, y, h)
  BY <1>5, <1>6 DEF Merges, ++
<1>8. /\ DOMAIN g = SwapNames /\ SwapFields(g, <<"staged-inbound", c.fill>>, dstMint(c), program)
      /\ DOMAIN h = FillNames /\ FillFields(h, c, got)
  BY <1>3, <1>4, SwapAccountsAre, FillAccountsAre
<1>9. /\ DOMAIN f = {"method", "signers", "payer", "inbound", "feeToken"}
      /\ f.method = "completeSwapPayload" /\ f.inbound = <<"staged-inbound", c.fill>>
      /\ f.feeToken = Or(c, "feeToken", got.custodian.feeToken)
  BY <1>1
<1>10. /\ \A a \in DOMAIN f : x[a] = f[a]
       /\ \A a \in SwapNames : x[a] = g[a]
       /\ \A a \in FillNames : x[a] = h[a]
  BY <1>7, <1>8, <1>9 DEF Merges, SwapNames, FillNames
<1>11. /\ SwapFields(x, <<"staged-inbound", c.fill>>, dstMint(c), program)
       /\ FillFields(x, c, got)
  BY <1>8, <1>10 DEF SwapFields, SwapNames, FillFields, FillNames
<1>. QED BY <1>2, <1>9, <1>10, <1>11

LEMMA MethodIs ==
  ASSUME NEW c, NEW got, c.method \in KeyMethods \cup FillMethods, NEW x, x = Build(c, got)
  PROVE  x.method = c.method
<1>1. CASE c.method = "stage"
  BY <1>1 DEF Build, stageOutboundIx
<1>2. CASE c.method = "close"
  BY <1>2, CloseIs
<1>3. CASE c.method = "initiateTransfer"
  BY <1>3, TransferIs
<1>4. CASE c.method = "initiateSwap"
  BY <1>4, SwapIs
<1>5. CASE c.method = "completeTransferDirect"
  BY <1>5, CompleteTransferDirectIs
<1>6. CASE c.method = "completeTransferRelay"
  BY <1>6, CompleteTransferRelayIs
<1>7. CASE c.method = "completeTransferPayload"
  BY <1>7, CompleteTransferPayloadIs
<1>8. CASE c.method \in SwapMethods
  BY <1>8, CompleteSwapIs
<1>9. CASE c.method = "completeSwapPayload"
  BY <1>9, CompleteSwapPayloadIs
<1>10. CASE c.method = "release"
  BY <1>10, ReleaseIs
<1>. QED BY <1>1, <1>2, <1>3, <1>4, <1>5, <1>6, <1>7, <1>8, <1>9, <1>10
         DEF KeyMethods, FillMethods, SwapMethods

-----------------------------------------------------------------------------
(* What became stale.                                                      *)

\* What is built from the reads of another time is accepted only where they
\* say what the accounts still say: whatever the caller gave, and whatever
\* others staged, cancelled or changed between an await and the landing
\* (index.ts:506, 702, 774, 862).
THEOREM StaleIsRefused == Spec => []StaleRefused
<1>1. ASSUME CallInv, Built, Accepted(call.ix) PROVE StaleRefused
  <2>1. PICK c, got, x :
          c = call.args /\ got = call.got /\ x = call.ix
    OBVIOUS
  <2>2. /\ c \in Calls /\ x = Build(c, got) /\ Accepted(x)
        /\ DOMAIN got \subseteq {r.kind : r \in Needs(c)}
    BY <1>1, <2>1, CallIs DEF CallInv, CallOK, Built
  <2>3. c.method \in KeyMethods \cup FillMethods
    BY <2>2, CallIs
  <2>4. "staged" \in DOMAIN got => c.method \in {"close", "initiateTransfer", "initiateSwap"}
    BY <2>2, <2>3 DEF Needs, Need, MintNeed, FillNeed, CustodianNeed, OwnerNeed, Read, KeyMethods, FillMethods
  <2>5. "custodian" \in DOMAIN got =>
          c.method \in {"completeTransferRelay", "completeSwapDirect", "completeSwapRelay",
                        "completeSwapPayload"}
    BY <2>2, <2>3 DEF Needs, Need, MintNeed, FillNeed, StagedNeed, OwnerNeed, Read, KeyMethods, FillMethods
  <2>6. ASSUME c.method = "close"
        PROVE  /\ "refund" \notin DOMAIN x
               /\ ~Given(c, "sender") => got.staged.sender = staged[c.key].sender
               /\ ~Given(c, "preparedBy") => got.staged.preparedBy = staged[c.key].preparedBy
    <3>1. /\ "refund" \notin DOMAIN x /\ x.method = "close" /\ x.key = c.key
          /\ x.sender = Or(c, "sender", got.staged.sender)
          /\ x.preparedBy = Or(c, "preparedBy", got.staged.preparedBy)
      BY <2>2, <2>6, CloseIs
    <3>2. x.sender = staged[x.key].sender /\ x.preparedBy = staged[x.key].preparedBy
      BY <2>2, <3>1 DEF Accepted, CloseAccepted
    <3>. QED BY <3>1, <3>2 DEF Or
  <2>7. ASSUME c.method \in {"initiateTransfer", "initiateSwap"}
        PROVE  /\ "sender" \notin DOMAIN x
               /\ ~Given(c, "preparedBy") => got.staged.preparedBy = staged[c.key].preparedBy
               /\ ~Given(c, "refund") => got.staged.refund = staged[c.key].refund
               /\ ~Given(c, "chain") => got.staged.chain = staged[c.key].chain
    <3>1. x.method = c.method /\ OrderFields(x, c, got) /\ "sender" \notin DOMAIN x
      <4>1. CASE c.method = "initiateTransfer"
        <5>1. /\ x.method = "initiateTransfer" /\ OrderFields(x, c, got)
              /\ DOMAIN x = {"method", "custody", "key", "signers", "preparedBy", "refund",
                             "peer", "order"}
          BY <2>2, <4>1, TransferIs
        <5>. QED BY <4>1, <5>1
      <4>2. CASE c.method = "initiateSwap"
        BY <2>2, <4>2, SwapIs
      <4>. QED BY <2>7, <4>1, <4>2
    <3>2. OrderAccepted(x)
      BY <2>2, <2>7, <3>1 DEF Accepted, TransferAccepted, SwapAccepted
    <3>3. /\ x.preparedBy = staged[c.key].preparedBy /\ x.refund = staged[c.key].refund
          /\ x.peer = <<"peer", staged[c.key].chain>>
      BY <3>1, <3>2 DEF OrderAccepted, OrderFields
    <3>. QED BY <3>1, <3>3 DEF OrderFields, Or
  <2>8. ASSUME c.method \in {"completeTransferRelay", "completeSwapDirect", "completeSwapRelay",
                             "completeSwapPayload"}
        PROVE  ~Given(c, "feeToken") => got.custodian.feeToken = feeToken
    <3>1. x.method = c.method /\ x.feeToken = Or(c, "feeToken", got.custodian.feeToken)
      <4>1. CASE c.method = "completeTransferRelay"
        BY <2>2, <4>1, CompleteTransferRelayIs
      <4>2. CASE c.method \in SwapMethods
        BY <2>2, <4>2, CompleteSwapIs
      <4>3. CASE c.method = "completeSwapPayload"
        BY <2>2, <4>3, CompleteSwapPayloadIs
      <4>. QED BY <2>8, <4>1, <4>2, <4>3 DEF SwapMethods
    <3>2. x.feeToken = feeToken
      BY <2>2, <2>8, <3>1 DEF Accepted, SwapOutputAccepted
    <3>. QED BY <3>1, <3>2 DEF Or
  <2>. QED BY <2>1, <2>4, <2>5, <2>6, <2>7, <2>8 DEF StaleRefused
<1>2. CallInv => StaleRefused
  BY <1>1 DEF StaleRefused
<1>. QED BY <1>2, CallKept, PTL

-----------------------------------------------------------------------------
(* What is accepted.                                                       *)

StagedOK ==
  /\ DOMAIN staged = Keys
  /\ \A k \in Keys : staged[k] # None => "chain" \in DOMAIN staged[k] /\ staged[k].chain \in Registered

FillsOK == DOMAIN fills = Fills /\ \A f \in Fills : fills[f] \in Contents \cup {None, Consumed}

\* A payload waits under its fill, in the custody token that is released or
\* in the token account of a swap.
InboundOK ==
  /\ DOMAIN inbound = Fills
  /\ \A f \in Fills : inbound[f] # None =>
       \/ inbound[f].custody = <<"staged-custody", <<"staged-inbound", f>>>>
       \/ inbound[f].custody[1] # "staged-custody"

ChainInv == StagedOK /\ FillsOK /\ InboundOK

LEMMA StagedSet ==
  ASSUME StagedOK, NEW k, NEW s, "chain" \in DOMAIN s, s.chain \in Registered,
         staged' = [staged EXCEPT ![k] = s]
  PROVE  StagedOK'
  BY DEF StagedOK

LEMMA StagedCleared ==
  ASSUME StagedOK, NEW k, staged' = [staged EXCEPT ![k] = None]
  PROVE  StagedOK'
  BY DEF StagedOK

LEMMA FillConsumed == ASSUME FillsOK, NEW f, ConsumeFill(f) PROVE FillsOK'
  BY DEF FillsOK, ConsumeFill

LEMMA InboundSet ==
  ASSUME InboundOK, NEW f, NEW custody, NEW mint, Stored(f, custody, mint),
         custody = <<"staged-custody", <<"staged-inbound", f>>>> \/ custody[1] # "staged-custody"
  PROVE  InboundOK'
<1>1. PICK stored : stored = [custody |-> custody, mint |-> mint, recipient |-> fills[f].recipient]
  OBVIOUS
<1>2. inbound' = [inbound EXCEPT ![f] = stored] /\ stored.custody = custody
  BY <1>1 DEF Stored
<1>. QED BY <1>2 DEF InboundOK

LEMMA LandKeeps == ASSUME ChainInv, CallInv, Land PROVE ChainInv'
<1> SUFFICES ASSUME Accepted(call.ix), Effect(call.ix) PROVE ChainInv'
  BY DEF Land, ChainInv, StagedOK, FillsOK, InboundOK, chain
<1>1. PICK c, got, x : c = call.args /\ got = call.got /\ x = call.ix
  OBVIOUS
<1>2. c \in Calls /\ x = Build(c, got) /\ Accepted(x) /\ Effect(x)
  BY <1>1 DEF CallInv, CallOK, Land
<1>3. x.method = c.method /\ c.method \in KeyMethods \cup FillMethods
  <2>1. c.method \in KeyMethods \cup FillMethods
    BY <1>2, CallIs
  <2>2. x = Build(c, got)
    BY <1>2
  <2>. QED BY <2>1, <2>2, MethodIs
<1>4. CASE c.method = "stage"
  <2>1. x.method = "stage"
    BY <1>3, <1>4
  <2>2. x.args.chain \in Registered
    BY <1>2, <2>1 DEF Accepted, StageAccepted, RegisteredPeer
  <2>3. PICK s : s = [preparedBy |-> x.payer, refund |-> x.refund, chain |-> x.args.chain,
                      sender |-> IF x.sender # Null THEN x.sender ELSE x.senderToken[3],
                      mint |-> x.mint, exactIn |-> x.args.exactIn, dust |-> FALSE]
    OBVIOUS
  <2>4. "chain" \in DOMAIN s /\ s.chain = x.args.chain
    BY <2>3
  <2>5. staged' = [staged EXCEPT ![x.key] = s] /\ UNCHANGED <<fills, inbound>>
    BY <1>2, <2>1, <2>3 DEF Effect
  <2>6. StagedOK'
    BY <2>2, <2>4, <2>5, StagedSet DEF ChainInv
  <2>. QED BY <2>5, <2>6 DEF ChainInv, FillsOK, InboundOK
<1>5. CASE c.method = "close" \/ c.method = "initiateTransfer"
  <2>1. x.method = c.method
    BY <1>3
  <2>2. staged' = [staged EXCEPT ![x.key] = None] /\ UNCHANGED <<fills, inbound>>
    BY <1>2, <1>5, <2>1 DEF Effect
  <2>3. StagedOK'
    BY <2>2, StagedCleared DEF ChainInv
  <2>. QED BY <2>2, <2>3 DEF ChainInv, FillsOK, InboundOK
<1>6. CASE c.method = "initiateSwap"
  <2>1. x.method = "initiateSwap"
    BY <1>3, <1>6
  <2>2. /\ \/ staged' = [staged EXCEPT ![x.key] = None]
           \/ staged' = [staged EXCEPT ![x.key].dust = TRUE]
        /\ UNCHANGED <<fills, inbound>>
    BY <1>2, <2>1 DEF Effect
  <2>3. StagedOK'
    <3>1. CASE staged' = [staged EXCEPT ![x.key] = None]
      BY <3>1, StagedCleared DEF ChainInv
    <3>2. CASE staged' = [staged EXCEPT ![x.key].dust = TRUE] /\ x.key \in Keys
      <4>1. PICK s : s = [staged[x.key] EXCEPT !.dust = TRUE]
        OBVIOUS
      <4>2. "chain" \in DOMAIN s /\ s.chain \in Registered
        <5>1. staged[x.key] # None
          BY <1>2, <2>1 DEF Accepted, SwapAccepted, OrderAccepted
        <5>. QED BY <3>2, <4>1, <5>1 DEF ChainInv, StagedOK
      <4>3. staged' = [staged EXCEPT ![x.key] = s]
        BY <3>2, <4>1
      <4>. QED BY <4>2, <4>3, StagedSet DEF ChainInv
    <3>3. CASE staged' = [staged EXCEPT ![x.key].dust = TRUE] /\ x.key \notin Keys
      BY <3>3 DEF ChainInv, StagedOK
    <3>. QED BY <2>2, <3>1, <3>2, <3>3
  <2>. QED BY <2>2, <2>3 DEF ChainInv, FillsOK, InboundOK
<1>7. CASE c.method = "completeTransferPayload"
  <2>1. /\ x.method = "completeTransferPayload"
        /\ x.custody = <<"staged-custody", <<"staged-inbound", x.fill>>>>
    <3>1. /\ x.method = "completeTransferPayload" /\ FillFields(x, c, got)
          /\ x.inbound = <<"staged-inbound", c.fill>> /\ x.custody = <<"staged-custody", x.inbound>>
      BY <1>2, <1>7, CompleteTransferPayloadIs
    <3>. QED BY <3>1 DEF FillFields
  <2>2. ConsumeFill(x.fill) /\ Stored(x.fill, x.custody, Usdc) /\ UNCHANGED staged
    BY <1>2, <2>1 DEF Effect
  <2>3. FillsOK' /\ InboundOK'
    BY <2>1, <2>2, FillConsumed, InboundSet DEF ChainInv
  <2>. QED BY <2>2, <2>3 DEF ChainInv, StagedOK
<1>8. CASE c.method = "completeSwapPayload"
  <2>1. x.method = "completeSwapPayload" /\ x.dstSwap[1] # "staged-custody"
    <3>1. /\ x.method = "completeSwapPayload"
          /\ SwapFields(x, x.inbound, dstMint(c), Or(c, "program", got.mint.program))
      BY <1>2, <1>8, CompleteSwapPayloadIs
    <3>. QED BY <3>1 DEF SwapFields, Ata
  <2>2. ConsumeFill(x.fill) /\ Stored(x.fill, x.dstSwap, x.mint) /\ UNCHANGED staged
    BY <1>2, <2>1 DEF Effect
  <2>3. FillsOK' /\ InboundOK'
    BY <2>1, <2>2, FillConsumed, InboundSet DEF ChainInv
  <2>. QED BY <2>2, <2>3 DEF ChainInv, StagedOK
<1>9. CASE c.method = "release"
  <2>1. x.method = "release"
    BY <1>3, <1>9
  <2>2. inbound' = [inbound EXCEPT ![x.fill] = None] /\ UNCHANGED <<staged, fills>>
    BY <1>2, <2>1 DEF Effect
  <2>. QED BY <2>2 DEF ChainInv, StagedOK, FillsOK, InboundOK
<1>10. CASE c.method \in {"completeTransferDirect", "completeTransferRelay"} \cup SwapMethods
  <2>1. ConsumeFill(x.fill) /\ UNCHANGED <<staged, inbound>>
    BY <1>2, <1>3, <1>10 DEF Effect, SwapMethods
  <2>2. FillsOK'
    BY <2>1, FillConsumed DEF ChainInv
  <2>. QED BY <2>1, <2>2 DEF ChainInv, StagedOK, InboundOK
<1>. QED BY <1>3, <1>4, <1>5, <1>6, <1>7, <1>8, <1>9, <1>10
         DEF KeyMethods, FillMethods, SwapMethods

LEMMA ChainStep == ASSUME ChainInv, CallInv, [Next]_vars PROVE ChainInv'
<1>1. ASSUME UNCHANGED <<staged, fills, inbound>> PROVE ChainInv'
  BY <1>1 DEF ChainInv, StagedOK, FillsOK, InboundOK
<1>2. ASSUME NEW k \in Keys, NEW s \in Stagings, OthersStage(k, s) PROVE ChainInv'
  <2>1. staged' = [staged EXCEPT ![k] = s] /\ UNCHANGED <<fills, inbound>>
    BY <1>2 DEF OthersStage
  <2>2. "chain" \in DOMAIN s /\ s.chain \in Registered
    BY ClientAssumption DEF StagedOutboundInfo
  <2>3. StagedOK'
    BY <2>1, <2>2, StagedSet DEF ChainInv
  <2>. QED BY <2>1, <2>3 DEF ChainInv, FillsOK, InboundOK
<1>3. ASSUME NEW k \in Keys, OthersCloseOrInitiate(k) PROVE ChainInv'
  <2>1. staged' = [staged EXCEPT ![k] = None] /\ UNCHANGED <<fills, inbound>>
    BY <1>3 DEF OthersCloseOrInitiate
  <2>. QED BY <2>1, StagedCleared DEF ChainInv, FillsOK, InboundOK
<1>4. ASSUME NEW f \in Fills, NEW content \in Contents, OthersPrepareFill(f, content) PROVE ChainInv'
  BY <1>4 DEF OthersPrepareFill, ChainInv, StagedOK, FillsOK, InboundOK
<1>5. ASSUME NEW f \in Fills, OthersComplete(f) PROVE ChainInv'
  <2>1. FillsOK' /\ staged' = staged
    BY <1>5, FillConsumed DEF OthersComplete, ChainInv
  <2>2. InboundOK'
    <3>1. CASE UNCHANGED inbound
      BY <3>1 DEF ChainInv, InboundOK
    <3>2. CASE Stored(f, <<"staged-custody", <<"staged-inbound", f>>>>, Usdc)
      BY <3>2, InboundSet DEF ChainInv
    <3>3. ASSUME NEW mint, Stored(f, Ata(mint, <<"staged-inbound", f>>, ProgramOf[mint]), mint)
          PROVE  InboundOK'
      <4>1. Ata(mint, <<"staged-inbound", f>>, ProgramOf[mint])[1] # "staged-custody"
        BY DEF Ata
      <4>. QED BY <3>3, <4>1, InboundSet DEF ChainInv
    <3>. QED BY <1>5, <3>1, <3>2, <3>3 DEF OthersComplete
  <2>. QED BY <2>1, <2>2 DEF ChainInv, StagedOK
<1>6. ASSUME NEW f \in Fills, OthersRelease(f) PROVE ChainInv'
  BY <1>6 DEF OthersRelease, ChainInv, StagedOK, FillsOK, InboundOK
<1>7. ASSUME Land PROVE ChainInv'
  BY <1>7, LandKeeps
<1>. QED BY <1>1, <1>2, <1>3, <1>4, <1>5, <1>6, <1>7
         DEF Next, vars, chain, Begin, Await, Return, UpdateFeeRecipient

LEMMA ChainKept == Spec => []ChainInv
<1>1. Init => ChainInv
  BY DEF Init, ChainInv, StagedOK, FillsOK, InboundOK
<1>. QED BY <1>1, CallKept, ChainStep, PTL DEF Spec

\* A caller who leaves to the client what the client can fill in.
ReadsFound(c, got) == \A r \in Needs(c) : got[r.kind] = Found(r) /\ Found(r) # None

LEMMA FreshReads == ASSUME CallInv, Built, call.fresh PROVE ReadsFound(call.args, call.got)
<1>1. CallOK /\ call.reads = <<>>
  BY DEF CallInv, CallOK, Built
<1>2. Of(call.reads) = {}
  BY <1>1, NoRead
<1>3. Awaited(call.args) = Needs(call.args)
  BY <1>1, CallIs DEF CallOK
<1>. QED BY <1>1, <1>2, <1>3 DEF CallOK, AllRead, ReadsFound

LEMMA StagedFound ==
  ASSUME NEW c, NEW got, ReadsFound(c, got), NEW k, Read("staged", k) \in Needs(c)
  PROVE  got.staged = staged[k] /\ staged[k] # None
  BY DEF ReadsFound, Found, Read

LEMMA MintFound ==
  ASSUME NEW c, NEW got, ReadsFound(c, got), NEW mint, Read("mint", mint) \in Needs(c)
  PROVE  got.mint.program = ProgramOf[mint]
<1>1. PICK r \in Needs(c) : r = Read("mint", mint)
  OBVIOUS
<1>2. r.kind = "mint" /\ r.key = mint
  BY <1>1 DEF Read
<1>3. PICK read : read = [program |-> ProgramOf[mint]]
  OBVIOUS
<1>4. Found(r) = read
  BY <1>2, <1>3 DEF Found
<1>5. got["mint"] = read /\ read.program = ProgramOf[mint]
  BY <1>2, <1>3, <1>4 DEF ReadsFound
<1>. QED BY <1>5

LEMMA OwnerFound ==
  ASSUME NEW c, NEW got, ReadsFound(c, got), NEW token, Read("owner", token) \in Needs(c),
         token # Null, token[4] = TokenProgram, Exists(token)
  PROVE  got.owner.owner = token[3]
<1>1. PICK r \in Needs(c) : r = Read("owner", token)
  OBVIOUS
<1>2. r.kind = "owner" /\ r.key = token
  BY <1>1 DEF Read
<1>3. PICK read : read = [owner |-> token[3]]
  OBVIOUS
<1>4. Found(r) = read
  BY <1>2, <1>3 DEF Found
<1>5. got["owner"] = read /\ read.owner = token[3]
  BY <1>2, <1>3, <1>4 DEF ReadsFound
<1>. QED BY <1>5

LEMMA CustodianFound ==
  ASSUME NEW c, NEW got, ReadsFound(c, got), Read("custodian", Null) \in Needs(c)
  PROVE  got.custodian.feeToken = feeToken
<1>1. PICK r \in Needs(c) : r = Read("custodian", Null)
  OBVIOUS
<1>2. r.kind = "custodian" /\ r.key = Null
  BY <1>1 DEF Read
<1>3. PICK read : read = [feeToken |-> feeToken]
  OBVIOUS
<1>4. Found(r) = read
  BY <1>2, <1>3 DEF Found
<1>5. got["custodian"] = read /\ read.feeToken = feeToken
  BY <1>2, <1>3, <1>4 DEF ReadsFound
<1>. QED BY <1>5

LEMMA FillFound ==
  ASSUME FillsOK, NEW c, NEW got, ReadsFound(c, got), NEW f \in Fills,
         Read("fill", f) \in Needs(c)
  PROVE  got.fill = fills[f] /\ fills[f] \in Contents
<1>1. /\ fills[f] # Consumed /\ got.fill = fills[f] /\ fills[f] # None
  BY DEF ReadsFound, Found, Read
<1>. QED BY <1>1 DEF FillsOK

LEMMA CloseDefaults ==
  ASSUME StagedOK, NEW c \in Calls, NEW got, c.method = "close", Plain(c), ReadsFound(c, got),
         NEW x, x = Build(c, got)
  PROVE  Accepted(x) <=> Possible(c)
<1>1. ~Given(c, "preparedBy") /\ ~Given(c, "sender")
  BY DEF Plain, Required, Given
<1>2. got.staged = staged[c.key] /\ staged[c.key] # None
  <2>1. Read("staged", c.key) \in Needs(c)
    BY <1>1 DEF Needs, Need
  <2>. QED BY <2>1, StagedFound
<1>3. staged[c.key].chain \in Registered
  BY <1>2, CallsAssumption DEF StagedOK, KeyMethods, FillMethods
<1>4. /\ x.method = "close" /\ x.signers = c.signers /\ x.key = c.key
      /\ x.sender = staged[c.key].sender /\ x.preparedBy = staged[c.key].preparedBy
      /\ x.peer = <<"peer", c.chain>> /\ x.custody = <<"staged-custody", c.key>>
      /\ x.senderToken = c.senderToken /\ x.program = TokenProgram
  <2>1. /\ x.method = "close" /\ x.signers = c.signers /\ x.key = c.key
        /\ x.sender = Or(c, "sender", got.staged.sender)
        /\ x.preparedBy = Or(c, "preparedBy", got.staged.preparedBy)
        /\ x.peer = <<"peer", c.chain>> /\ x.custody = <<"staged-custody", c.key>>
        /\ x.senderToken = c.senderToken /\ x.program = TokenProgram
    BY CloseIs
  <2>. QED BY <1>1, <1>2, <2>1 DEF Or
<1>5. Accepted(x) <=> CloseAccepted(x)
  BY <1>4 DEF Accepted
<1>6. Possible(c) <=> CanClose(c)
  BY DEF Possible
<1>7. CloseAccepted(x) <=> CanClose(c)
  BY <1>2, <1>3, <1>4 DEF CloseAccepted, CanClose, RegisteredPeer
<1>. QED BY <1>5, <1>6, <1>7

LEMMA OrderDefaults ==
  ASSUME StagedOK, NEW c \in Calls, NEW got, c.method \in {"initiateTransfer", "initiateSwap"},
         Plain(c), ReadsFound(c, got), NEW x, OrderFields(x, c, got),
         x.custody = <<"staged-custody", c.key>>
  PROVE  staged[c.key] # None /\ x.key = c.key /\ OrderAccepted(x)
<1>1. ~Given(c, "preparedBy") /\ ~Given(c, "refund") /\ ~Given(c, "chain") /\ ~Given(c, "order")
  BY DEF Plain, Required, Given
<1>2. got.staged = staged[c.key] /\ staged[c.key] # None
  <2>1. Read("staged", c.key) \in Needs(c)
    BY <1>1 DEF Needs, StagedNeed, Need
  <2>. QED BY <2>1, StagedFound
<1>3. staged[c.key].chain \in Registered
  BY <1>2, CallsAssumption DEF StagedOK, KeyMethods, FillMethods
<1>4. /\ x.key = c.key /\ x.preparedBy = staged[c.key].preparedBy
      /\ x.refund = staged[c.key].refund /\ x.peer = <<"peer", staged[c.key].chain>>
      /\ x.order = <<"prepared-order", c.key>>
  BY <1>1, <1>2 DEF OrderFields, Or
<1>. QED BY <1>2, <1>3, <1>4 DEF OrderAccepted, RegisteredPeer

LEMMA TransferDefaults ==
  ASSUME StagedOK, NEW c \in Calls, NEW got, c.method = "initiateTransfer", Plain(c),
         ReadsFound(c, got), NEW x, x = Build(c, got)
  PROVE  Accepted(x) <=> Possible(c)
<1>1. ~Given(c, "custody")
  BY DEF Plain, Required, Given
<1>2. /\ x.method = "initiateTransfer" /\ OrderFields(x, c, got)
      /\ x.custody = <<"staged-custody", c.key>>
  <2>1. /\ x.method = "initiateTransfer" /\ OrderFields(x, c, got)
        /\ x.custody = Or(c, "custody", <<"staged-custody", c.key>>)
    BY TransferIs
  <2>. QED BY <1>1, <2>1 DEF Or
<1>3. staged[c.key] # None /\ x.key = c.key /\ OrderAccepted(x)
  BY <1>2, OrderDefaults
<1>4. Accepted(x) <=> staged[c.key].mint = Usdc
  BY <1>2, <1>3 DEF Accepted, TransferAccepted
<1>5. Possible(c) <=> staged[c.key].mint = Usdc
  BY <1>3 DEF Possible, CanInitiate
<1>. QED BY <1>4, <1>5

LEMMA SwapDefaults ==
  ASSUME StagedOK, NEW c \in Calls, NEW got, c.method = "initiateSwap", Plain(c),
         ReadsFound(c, got), NEW x, x = Build(c, got)
  PROVE  Accepted(x) <=> Possible(c)
<1>1. ~Given(c, "program") /\ got.mint.program = ProgramOf[srcMint(c)]
  <2>1. ~Given(c, "program")
    BY DEF Plain, Required, Given
  <2>2. Read("mint", srcMint(c)) \in Needs(c)
    BY <2>1 DEF Needs, MintNeed, Need
  <2>. QED BY <2>1, <2>2, MintFound
<1>2. /\ x.method = "initiateSwap" /\ OrderFields(x, c, got)
      /\ x.custody = <<"staged-custody", c.key>> /\ x.authority = <<"swap-authority", x.order>>
      /\ x.mint = srcMint(c) /\ x.program = ProgramOf[x.mint]
      /\ x.srcSwap = Ata(x.mint, x.authority, x.program)
      /\ x.dstSwap = Ata(Usdc, x.authority, TokenProgram)
  <2>1. /\ x.method = "initiateSwap" /\ OrderFields(x, c, got)
        /\ x.custody = <<"staged-custody", c.key>> /\ x.authority = <<"swap-authority", x.order>>
        /\ x.mint = srcMint(c) /\ x.program = Or(c, "program", got.mint.program)
        /\ x.srcSwap = Ata(x.mint, x.authority, x.program)
        /\ x.dstSwap = Ata(Usdc, x.authority, TokenProgram)
    BY SwapIs
  <2>. QED BY <1>1, <2>1 DEF Or
<1>3. staged[c.key] # None /\ x.key = c.key /\ OrderAccepted(x)
  BY <1>2, OrderDefaults
<1>4. Accepted(x) <=> SwapAccepted(x)
  BY <1>2 DEF Accepted
<1>5. PICK s : s = staged[c.key]
  OBVIOUS
<1>6. SwapAccepted(x) <=> s.exactIn /\ ~s.dust /\ srcMint(c) = s.mint /\ srcMint(c) # Usdc
  BY <1>2, <1>3, <1>5 DEF SwapAccepted
<1>7. Possible(c) <=> srcMint(c) = s.mint /\ s.mint # Usdc /\ s.exactIn /\ ~s.dust
  BY <1>3, <1>5 DEF Possible, CanInitiate
<1>. QED BY <1>4, <1>6, <1>7
\* The fill of a completion was read, and its peer is the one of its chain.
LEMMA FillDefaults ==
  ASSUME FillsOK, NEW c \in Calls, NEW got, c.method \in FillMethods \ {"release"},
         Plain(c), ReadsFound(c, got), NEW x, FillFields(x, c, got), NEW mode
  PROVE  /\ fills[c.fill] \in Contents /\ x.fill = c.fill
         /\ FillAccepted(x, mode) <=>
              fills[c.fill].mode = mode /\ fills[c.fill].chain \in Registered
<1>1. ~Given(c, "chain") /\ ~Given(c, "peer")
  BY DEF Plain, Required, Given, FillMethods
<1>2. c.fill \in Fills
  BY CallsAssumption DEF KeyMethods, FillMethods
<1>3. Read("fill", c.fill) \in Needs(c)
  BY <1>1 DEF Needs, FillNeed, Need, FillMethods
<1>4. got.fill = fills[c.fill] /\ fills[c.fill] \in Contents
  BY <1>2, <1>3, FillFound
<1>5. x.fill = c.fill /\ x.peer = <<"peer", fills[c.fill].chain>>
  BY <1>1, <1>4 DEF FillFields, Or
<1>. QED BY <1>4, <1>5 DEF FillAccepted, RegisteredPeer

LEMMA CompleteTransferDirectDefaults ==
  ASSUME FillsOK, NEW c \in Calls, NEW got, c.method = "completeTransferDirect",
         Plain(c), ReadsFound(c, got), NEW x, x = Build(c, got)
  PROVE  Accepted(x) <=> Possible(c)
<1>1. ~Given(c, "redeemer") /\ ~Given(c, "recipientToken") /\ c.payer \in c.signers
  BY CallsAssumption DEF Plain, Required, Given
<1>2. PICK i : i = fills[c.fill]
  OBVIOUS
<1>3. /\ x.method = "completeTransferDirect" /\ x.signers = c.signers /\ x.redeemer = c.payer
      /\ x.recipient = c.recipient /\ x.recipientToken = Ata(Usdc, c.recipient, TokenProgram)
      /\ FillFields(x, c, got)
  <2>1. /\ x.method = "completeTransferDirect" /\ x.signers = c.signers
        /\ x.redeemer = Or(c, "redeemer", c.payer) /\ x.recipient = c.recipient
        /\ x.recipientToken = Or(c, "recipientToken", Ata(Usdc, c.recipient, TokenProgram))
        /\ FillFields(x, c, got)
    BY CompleteTransferDirectIs
  <2>. QED BY <1>1, <2>1 DEF Or
<1>4. /\ i \in Contents /\ x.fill = c.fill
      /\ FillAccepted(x, "direct") <=> i.mode = "direct" /\ i.chain \in Registered
  BY <1>2, <1>3, FillDefaults DEF FillMethods
<1>5. PaidInUsdc(x) <=> c.recipient = i.recipient
  BY <1>1, <1>2, <1>3, <1>4 DEF PaidInUsdc
<1>6. RedeemedByRecipient(x) <=> i.output = Usdc \/ c.payer = i.recipient
  BY <1>2, <1>3, <1>4 DEF RedeemedByRecipient
<1>7. Accepted(x) <=> FillAccepted(x, "direct") /\ PaidInUsdc(x) /\ RedeemedByRecipient(x)
  BY <1>3 DEF Accepted
<1>8. Possible(c) <=>
        /\ i.mode = "direct" /\ i.chain \in Registered /\ c.recipient = i.recipient
        /\ i.output = Usdc \/ c.payer = i.recipient
  BY <1>2, <1>4 DEF Possible, CanComplete
<1>. QED BY <1>4, <1>5, <1>6, <1>7, <1>8

LEMMA CompleteTransferRelayDefaults ==
  ASSUME FillsOK, NEW c \in Calls, NEW got, c.method = "completeTransferRelay",
         Plain(c), ReadsFound(c, got), NEW x, x = Build(c, got)
  PROVE  Accepted(x) <=> Possible(c)
<1>1. /\ ~Given(c, "redeemer") /\ ~Given(c, "recipientToken") /\ ~Given(c, "feeToken")
      /\ c.payer \in c.signers
  BY CallsAssumption DEF Plain, Required, Given
<1>2. PICK i : i = fills[c.fill]
  OBVIOUS
<1>3. got.custodian.feeToken = feeToken
  <2>1. Read("custodian", Null) \in Needs(c)
    BY <1>1 DEF Needs, CustodianNeed, Need
  <2>. QED BY <2>1, CustodianFound
<1>4. /\ x.method = "completeTransferRelay" /\ x.signers = c.signers /\ x.redeemer = c.payer
      /\ x.recipient = c.recipient /\ x.recipientToken = Ata(Usdc, c.recipient, TokenProgram)
      /\ x.complete = <<"complete", c.fill>> /\ x.feeToken = feeToken
      /\ FillFields(x, c, got)
  <2>1. /\ x.method = "completeTransferRelay" /\ x.signers = c.signers
        /\ x.redeemer = Or(c, "redeemer", c.payer) /\ x.recipient = c.recipient
        /\ x.recipientToken = Or(c, "recipientToken", Ata(Usdc, c.recipient, TokenProgram))
        /\ x.complete = <<"complete", c.fill>>
        /\ x.feeToken = Or(c, "feeToken", got.custodian.feeToken)
        /\ FillFields(x, c, got)
    BY CompleteTransferRelayIs
  <2>. QED BY <1>1, <1>3, <2>1 DEF Or
<1>5. /\ i \in Contents /\ x.fill = c.fill
      /\ FillAccepted(x, "relay") <=> i.mode = "relay" /\ i.chain \in Registered
  BY <1>2, <1>4, FillDefaults DEF FillMethods
<1>6. PaidInUsdc(x) <=> c.recipient = i.recipient
  BY <1>1, <1>2, <1>4, <1>5 DEF PaidInUsdc
<1>7. RedeemedByRecipient(x) <=> i.output = Usdc \/ c.payer = i.recipient
  BY <1>2, <1>4, <1>5 DEF RedeemedByRecipient
<1>8. Accepted(x) <=>
        FillAccepted(x, "relay") /\ PaidInUsdc(x) /\ (RedeemedByRecipient(x) \/ i.late)
  BY <1>2, <1>4, <1>5 DEF Accepted
<1>9. Possible(c) <=>
        /\ i.mode = "relay" /\ i.chain \in Registered /\ c.recipient = i.recipient
        /\ i.output = Usdc \/ c.payer = i.recipient \/ i.late
  BY <1>2, <1>5 DEF Possible, CanComplete
<1>. QED BY <1>5, <1>6, <1>7, <1>8, <1>9

LEMMA CompleteTransferPayloadDefaults ==
  ASSUME FillsOK, NEW c \in Calls, NEW got, c.method = "completeTransferPayload",
         Plain(c), ReadsFound(c, got), NEW x, x = Build(c, got)
  PROVE  Accepted(x) <=> Possible(c)
<1>1. ~Given(c, "redeemer") /\ c.payer \in c.signers
  BY CallsAssumption DEF Plain, Required, Given
<1>2. PICK i : i = fills[c.fill]
  OBVIOUS
<1>3. /\ x.method = "completeTransferPayload" /\ x.signers = c.signers /\ x.redeemer = c.payer
      /\ x.inbound = <<"staged-inbound", c.fill>> /\ x.custody = <<"staged-custody", x.inbound>>
      /\ FillFields(x, c, got)
  <2>1. /\ x.method = "completeTransferPayload" /\ x.signers = c.signers
        /\ x.redeemer = Or(c, "redeemer", c.payer)
        /\ x.inbound = <<"staged-inbound", c.fill>> /\ x.custody = <<"staged-custody", x.inbound>>
        /\ FillFields(x, c, got)
    BY CompleteTransferPayloadIs
  <2>. QED BY <1>1, <2>1 DEF Or
<1>4. /\ i \in Contents /\ x.fill = c.fill
      /\ FillAccepted(x, "payload") <=> i.mode = "payload" /\ i.chain \in Registered
  BY <1>2, <1>3, FillDefaults DEF FillMethods
<1>5. RedeemedByRecipient(x) <=> i.output = Usdc \/ c.payer = i.recipient
  BY <1>2, <1>3, <1>4 DEF RedeemedByRecipient
<1>6. Accepted(x) <=> FillAccepted(x, "payload") /\ RedeemedByRecipient(x)
  BY <1>1, <1>3, <1>4 DEF Accepted
<1>7. Possible(c) <=>
        /\ i.mode = "payload" /\ i.chain \in Registered
        /\ i.output = Usdc \/ c.payer = i.recipient
  BY <1>2, <1>4 DEF Possible, CanComplete
<1>. QED BY <1>4, <1>5, <1>6, <1>7

\* What the three completions by a swap have in common.
LEMMA SwapOutputDefaults ==
  ASSUME FillsOK, NEW c \in Calls, NEW got,
         c.method \in {"completeSwapDirect", "completeSwapRelay", "completeSwapPayload"},
         Plain(c), ReadsFound(c, got), NEW x, FillFields(x, c, got), NEW authority,
         SwapFields(x, authority, dstMint(c), Or(c, "program", got.mint.program)),
         x.feeToken = Or(c, "feeToken", got.custodian.feeToken)
  PROVE  SwapOutputAccepted(x) <=>
           /\ dstMint(c) # Usdc
           /\ fills[c.fill].output # Usdc => dstMint(c) = fills[c.fill].output
<1>1. ~Given(c, "program") /\ ~Given(c, "feeToken")
  BY DEF Plain, Required, Given
<1>2. got.custodian.feeToken = feeToken /\ got.mint.program = ProgramOf[dstMint(c)]
  <2>1. Read("custodian", Null) \in Needs(c) /\ Read("mint", dstMint(c)) \in Needs(c)
    BY <1>1 DEF Needs, CustodianNeed, MintNeed, Need
  <2>. QED BY <2>1, CustodianFound, MintFound
<1>3. /\ x.feeToken = feeToken /\ x.mint = dstMint(c) /\ x.program = ProgramOf[x.mint]
      /\ x.srcSwap = Ata(Usdc, x.authority, TokenProgram)
      /\ x.dstSwap = Ata(x.mint, x.authority, x.program) /\ x.fill = c.fill
  BY <1>1, <1>2 DEF SwapFields, FillFields, Or
<1>. QED BY <1>3 DEF SwapOutputAccepted

LEMMA CompleteSwapDefaults ==
  ASSUME FillsOK, NEW c \in Calls, NEW got, c.method \in SwapMethods,
         Plain(c), ReadsFound(c, got), NEW x, x = Build(c, got)
  PROVE  Accepted(x) <=> Possible(c)
<1>1. ~Given(c, "recipientToken")
  BY DEF Plain, Required, Given, SwapMethods
<1>2. PICK i, mode :
        i = fills[c.fill] /\ mode = IF c.method = "completeSwapDirect" THEN "direct" ELSE "relay"
  OBVIOUS
<1>3. /\ x.method = c.method /\ x.payer = c.payer /\ x.recipient = c.recipient
      /\ x.recipientToken = Ata(x.mint, c.recipient, x.program)
      /\ x.feeToken = Or(c, "feeToken", got.custodian.feeToken)
      /\ SwapFields(x, <<"swap-authority", c.fill>>, dstMint(c), Or(c, "program", got.mint.program))
      /\ FillFields(x, c, got)
  BY <1>1, CompleteSwapIs DEF Or
<1>4. /\ i \in Contents /\ x.fill = c.fill
      /\ FillAccepted(x, mode) <=> i.mode = mode /\ i.chain \in Registered
  BY <1>2, <1>3, FillDefaults DEF FillMethods, SwapMethods
<1>5. SwapOutputAccepted(x) <=> dstMint(c) # Usdc /\ (i.output # Usdc => dstMint(c) = i.output)
  BY <1>2, <1>3, SwapOutputDefaults DEF SwapMethods
<1>6. x.authority = <<"swap-authority", x.fill>>
  BY <1>3, <1>4 DEF SwapFields
<1>7. Accepted(x) <=>
        /\ FillAccepted(x, mode) /\ SwapOutputAccepted(x) /\ c.recipient = i.recipient
        /\ i.output = Usdc => c.method = "completeSwapDirect" /\ c.payer = i.recipient
  BY <1>2, <1>3, <1>4, <1>6 DEF Accepted, SwapMethods
<1>8. Possible(c) <=>
        /\ i.mode = mode /\ i.chain \in Registered /\ c.recipient = i.recipient
        /\ dstMint(c) # Usdc
        /\ IF i.output = Usdc THEN mode = "direct" /\ c.payer = i.recipient ELSE dstMint(c) = i.output
  BY <1>2, <1>4 DEF Possible, CanComplete, SwapMethods
<1>9. mode = "direct" <=> c.method = "completeSwapDirect"
  BY <1>2
<1>. QED BY <1>4, <1>5, <1>7, <1>8, <1>9

LEMMA CompleteSwapPayloadDefaults ==
  ASSUME FillsOK, NEW c \in Calls, NEW got, c.method = "completeSwapPayload",
         Plain(c), ReadsFound(c, got), NEW x, x = Build(c, got)
  PROVE  Accepted(x) <=> Possible(c)
<1>1. PICK i : i = fills[c.fill]
  OBVIOUS
<1>2. /\ x.method = "completeSwapPayload" /\ x.inbound = <<"staged-inbound", c.fill>>
      /\ x.feeToken = Or(c, "feeToken", got.custodian.feeToken)
      /\ SwapFields(x, x.inbound, dstMint(c), Or(c, "program", got.mint.program))
      /\ FillFields(x, c, got)
  BY CompleteSwapPayloadIs
<1>3. /\ i \in Contents /\ x.fill = c.fill
      /\ FillAccepted(x, "payload") <=> i.mode = "payload" /\ i.chain \in Registered
  BY <1>1, <1>2, FillDefaults DEF FillMethods
<1>4. SwapOutputAccepted(x) <=> dstMint(c) # Usdc /\ (i.output # Usdc => dstMint(c) = i.output)
  BY <1>1, <1>2, SwapOutputDefaults
<1>5. x.inbound = <<"staged-inbound", x.fill>> /\ x.authority = x.inbound
  BY <1>2, <1>3 DEF SwapFields
<1>6. Accepted(x) <=> FillAccepted(x, "payload") /\ SwapOutputAccepted(x) /\ i.output # Usdc
  BY <1>1, <1>2, <1>3, <1>5 DEF Accepted
<1>7. Possible(c) <=>
        /\ i.mode = "payload" /\ i.chain \in Registered /\ dstMint(c) # Usdc
        /\ i.output # Usdc /\ dstMint(c) = i.output
  BY <1>1, <1>2, <1>3 DEF Possible, CanComplete
<1>. QED BY <1>3, <1>4, <1>6, <1>7

LEMMA ReleaseDefaults ==
  ASSUME InboundOK, NEW c \in Calls, NEW got, c.method = "release", Plain(c), ReadsFound(c, got),
         NEW x, x = Build(c, got)
  PROVE  Accepted(x) <=> Possible(c)
<1>1. ~Given(c, "mint") /\ ~Given(c, "program")
  BY DEF Plain, Required, Given
<1>2. Exists(c.dstToken) /\ got.token.mint = c.dstToken[2] /\ got.token.program = c.dstToken[4]
  <2>1. PICK r \in Needs(c) : r = Read("token", c.dstToken)
    BY <1>1 DEF Needs, Need
  <2>2. r.kind = "token" /\ r.key = c.dstToken
    BY <2>1 DEF Read
  <2>3. PICK read : read = [mint |-> c.dstToken[2], program |-> c.dstToken[4]]
    OBVIOUS
  <2>4. Found(r) = IF Exists(c.dstToken) THEN read ELSE None
    BY <2>2, <2>3 DEF Found
  <2>5. got["token"] = Found(r) /\ Found(r) # None
    BY <2>2 DEF ReadsFound
  <2>6. read.mint = c.dstToken[2] /\ read.program = c.dstToken[4]
    BY <2>3
  <2>. QED BY <2>4, <2>5, <2>6
<1>3. /\ x.method = "release" /\ x.signers = c.signers /\ x.fill = c.fill
      /\ x.recipient = c.recipient /\ x.dstToken = c.dstToken
      /\ x.custody = <<"staged-custody", <<"staged-inbound", c.fill>>>>
      /\ x.mint = c.dstToken[2] /\ x.program = ProgramOf[x.mint]
  <2>1. /\ x.method = "release" /\ x.signers = c.signers /\ x.fill = c.fill
        /\ x.recipient = c.recipient /\ x.dstToken = c.dstToken
        /\ x.custody = <<"staged-custody", <<"staged-inbound", c.fill>>>>
        /\ x.mint = Or(c, "mint", got.token.mint)
        /\ x.program = Or(c, "program", got.token.program)
    BY ReleaseIs
  <2>. QED BY <1>1, <1>2, <2>1 DEF Or, Exists
<1>4. PICK i : i = inbound[c.fill]
  OBVIOUS
<1>5. i # None =>
        (x.custody = i.custody <=> i.custody[1] = "staged-custody")
  <2>1. c.fill \in Fills
    BY CallsAssumption DEF KeyMethods, FillMethods
  <2>. QED BY <1>3, <1>4, <2>1 DEF InboundOK
<1>6. Accepted(x) <=>
        /\ i # None /\ c.recipient = i.recipient /\ c.recipient \in c.signers
        /\ x.custody = i.custody /\ c.dstToken[2] = i.mint /\ c.dstToken # Null
  BY <1>2, <1>3, <1>4 DEF Accepted, TokenOf
<1>7. Possible(c) <=>
        /\ i # None /\ c.recipient = i.recipient /\ c.recipient \in c.signers
        /\ c.dstToken[2] = i.mint /\ c.dstToken # Null /\ i.custody[1] = "staged-custody"
  BY <1>2, <1>4 DEF Possible, CanRelease, TokenOf
<1>. QED BY <1>5, <1>6, <1>7

\* Who pays for a staging.
SenderAccepted(x) ==
  IF x.senderToken = Null
  THEN x.mint = Native /\ x.sender \in x.signers /\ x.authority = Null
  ELSE /\ TokenOf(x.senderToken, x.mint)
       /\ \/ x.sender \in x.signers /\ x.authority = Null /\ x.senderToken[3] = x.sender
          \/ Delegated(x)

LEMMA StageDefaults ==
  ASSUME NEW c \in Calls, NEW got, c.method = "stage", ~Throws(c), Plain(c), ReadsFound(c, got),
         NEW x, x = Build(c, got)
  PROVE  Accepted(x) <=> Possible(c)
<1>1. /\ ~Given(c, "program") /\ ~Given(c, "sender") /\ ~Given(c, "peer")
      /\ c.by # "programTransferAuthority" => ~Given(c, "senderToken")
      /\ c.by = "programTransferAuthority" => Given(c, "senderToken")
  BY DEF Plain, Required, Given, Throws
<1>2. /\ c.payer \in c.signers /\ Null \notin c.signers /\ c.args.amountIn \in Nat
      /\ c.by \in {"native", "sender", "programTransferAuthority"}
  BY CallsAssumption
<1>3. PICK m : m = srcMint(c)
  OBVIOUS
<1>4. got.mint.program = ProgramOf[m]
  <2>1. Read("mint", m) \in Needs(c)
    BY <1>1, <1>3 DEF Needs, MintNeed, Need
  <2>. QED BY <2>1, MintFound
<1>5. /\ x.method = "stage" /\ x.key = c.key /\ x.args = c.args /\ x.refund = c.refund
      /\ x.signers = c.signers /\ x.mint = m /\ x.program = ProgramOf[m]
      /\ x.sender = IF c.by = "programTransferAuthority" THEN Null ELSE c.payer
      /\ x.senderToken =
           CASE c.by = "native" -> Null
             [] c.by = "sender" -> Ata(m, c.payer, TokenProgram)
             [] c.by = "programTransferAuthority" -> c.senderToken
      /\ x.peer = <<"peer", c.args.chain>> /\ x.custody = <<"staged-custody", c.key>>
      /\ IF c.by = "programTransferAuthority" /\ ~Given(c, "authority")
         THEN /\ x.authority = <<"transfer-authority", c.args>>
              /\ x.approve = createApproveInstruction(x.senderToken, x.authority,
                                                      got.owner.owner, c.args.amountIn)
         ELSE x.authority = Null /\ x.approve = Null
  <2>1. /\ x.method = "stage" /\ x.key = c.key /\ x.args = c.args /\ x.refund = c.refund
        /\ x.signers = c.signers /\ x.mint = m
        /\ x.program = Or(c, "program", got.mint.program)
        /\ x.sender = Or(c, "sender", IF c.by = "programTransferAuthority" THEN Null ELSE c.payer)
        /\ x.senderToken =
             Or(c, "senderToken", IF c.by = "native" THEN Null ELSE Ata(m, x.sender, TokenProgram))
        /\ x.peer = Or(c, "peer", <<"peer", c.args.chain>>)
        /\ x.custody = <<"staged-custody", c.key>>
        /\ IF c.by = "programTransferAuthority" /\ ~Given(c, "authority")
           THEN /\ x.authority = <<"transfer-authority", c.args>>
                /\ x.approve = createApproveInstruction(x.senderToken, x.authority,
                                                        got.owner.owner, c.args.amountIn)
           ELSE x.authority = Null /\ x.approve = Null
    BY <1>3, StageIs
  <2>2. /\ x.program = ProgramOf[m]
        /\ x.sender = IF c.by = "programTransferAuthority" THEN Null ELSE c.payer
        /\ x.peer = <<"peer", c.args.chain>>
    BY <1>1, <1>4, <2>1 DEF Or
  <2>3. x.senderToken =
          CASE c.by = "native" -> Null
            [] c.by = "sender" -> Ata(m, c.payer, TokenProgram)
            [] c.by = "programTransferAuthority" -> c.senderToken
    BY <1>1, <1>2, <2>1, <2>2 DEF Or
  <2>. QED BY <2>1, <2>2, <2>3
<1>6. Accepted(x) <=>
        /\ staged[c.key] = None /\ StageTerms(c.args, m) /\ c.args.chain \in Registered
        /\ TokenOf(c.refund, Usdc) /\ SenderAccepted(x)
  <2>1. Accepted(x) <=> StageAccepted(x)
    BY <1>5 DEF Accepted
  <2>2. RegisteredPeer(x.peer) <=> c.args.chain \in Registered
    BY <1>5 DEF RegisteredPeer
  <2>3. /\ x.key = c.key /\ x.args = c.args /\ x.refund = c.refund /\ x.mint = m
        /\ x.program = ProgramOf[x.mint] /\ x.peer = <<"peer", x.args.chain>>
        /\ x.custody = <<"staged-custody", x.key>>
    BY <1>5
  <2>4. StageAccepted(x) <=>
          /\ staged[x.key] = None /\ StageTerms(x.args, x.mint) /\ RegisteredPeer(x.peer)
          /\ TokenOf(x.refund, Usdc) /\ SenderAccepted(x)
    BY <2>3, Zenon DEF StageAccepted, SenderAccepted
  <2>. QED BY <2>1, <2>2, <2>3, <2>4
<1>7. CASE c.by = "native"
  <2>1. SenderAccepted(x) <=> m = Native
    BY <1>2, <1>5, <1>7 DEF SenderAccepted
  <2>. QED BY <1>3, <1>6, <1>7, <2>1 DEF Possible, CanStage
<1>8. CASE c.by = "sender"
  <2>1. x.senderToken # Null /\ x.authority = Null /\ x.approve = Null
    <3>1. m = IF "mint" \in DOMAIN c THEN c.mint ELSE Usdc
      BY <1>3, <1>8 DEF srcMint, Or, Given
    <3>. QED BY <1>5, <1>8, <3>1, AddressesAssumption
  <2>2. /\ x.senderToken[2] = m /\ x.senderToken[3] = c.payer
        /\ x.senderToken[4] = TokenProgram
    BY <1>5, <1>8 DEF Ata
  <2>3. SenderAccepted(x) <=> ProgramOf[m] = TokenProgram
    BY <1>2, <1>5, <1>8, <2>1, <2>2 DEF SenderAccepted, TokenOf, Exists, Delegated
  <2>. QED BY <1>3, <1>6, <1>8, <2>3 DEF Possible, CanStage
<1>9. CASE c.by = "programTransferAuthority"
  <2>1. /\ x.sender = Null /\ x.senderToken = c.senderToken /\ x.sender \notin x.signers
    BY <1>2, <1>5, <1>9
  <2>2. SenderAccepted(x) <=> TokenOf(c.senderToken, m) /\ Delegated(x)
    BY <1>5, <2>1 DEF SenderAccepted, TokenOf
  <2>3. CASE Given(c, "authority")
    <3>1. ~Delegated(x)
      BY <1>5, <2>3 DEF Delegated
    <3>. QED BY <1>3, <1>6, <1>9, <2>2, <2>3, <3>1 DEF Possible, CanStage
  <2>4. CASE ~Given(c, "authority")
    <3>1. PICK token, delegate, owner, approval :
            /\ token = c.senderToken /\ delegate = transferAuthority(c.args)
            /\ owner = got.owner.owner
            /\ approval = createApproveInstruction(token, delegate, owner, c.args.amountIn)
      OBVIOUS
    <3>2. x.senderToken = token /\ x.authority = delegate /\ x.approve = approval
      BY <1>5, <1>9, <2>1, <2>4, <3>1 DEF transferAuthority
    <3>3. /\ approval.token = token /\ approval.program = TokenProgram /\ approval.owner = owner
          /\ approval.delegate = delegate /\ approval.amount = c.args.amountIn
      BY <3>1 DEF createApproveInstruction
    <3>4. Delegated(x) <=>
            /\ approval # Null /\ TokenProgram = ProgramOf[m]
            /\ owner = token[3] /\ owner \in c.signers
            /\ c.args.amountIn = TransferAmount(c.args, m)
      BY <1>5, <2>1, <3>1, <3>2, <3>3 DEF Delegated, transferAuthority
    <3>5. ASSUME TokenOf(token, m), ProgramOf[m] = TokenProgram
          PROVE  owner = token[3] /\ approval # Null
      <4>1. token # Null /\ token[4] = TokenProgram /\ Exists(token)
        BY <3>5 DEF TokenOf, Exists
      <4>2. Read("owner", token) \in Needs(c)
        BY <1>9, <2>4, <3>1 DEF Needs, OwnerNeed, Need
      <4>3. owner = token[3]
        BY <3>1, <4>1, <4>2, OwnerFound
      <4>4. "senderToken" \in DOMAIN c
        BY <1>1, <1>9 DEF Given
      <4>5. createApproveInstruction(c.senderToken, transferAuthority(c.args), c.senderToken[3],
                                     c.args.amountIn) # Null
        BY <4>4, AddressesAssumption
      <4>. QED BY <3>1, <4>3, <4>5
    <3>6. c.args.amountIn = TransferAmount(c.args, m) <=>
            ~(c.args.redeem = "relay" /\ m = Usdc /\ ~c.args.exactIn)
      BY <1>2, ClientAssumption DEF TransferAmount
    <3>7. Possible(c) <=>
            /\ staged[c.key] = None /\ StageTerms(c.args, m) /\ c.args.chain \in Registered
            /\ TokenOf(c.refund, Usdc) /\ TokenOf(token, m) /\ ProgramOf[m] = TokenProgram
            /\ token[3] \in c.signers /\ ~(c.args.redeem = "relay" /\ m = Usdc /\ ~c.args.exactIn)
      BY <1>3, <1>9, <2>4, <3>1 DEF Possible, CanStage
    <3>. QED BY <1>6, <2>2, <3>1, <3>4, <3>5, <3>6, <3>7
  <2>. QED BY <2>3, <2>4
<1>. QED BY <1>2, <1>7, <1>8, <1>9

\* Whoever leaves every optional account to the client gets an instruction
\* that the program accepts exactly when the transfer can be asked for at
\* all, whatever the call, the mints and the accounts on the chain, as long
\* as nobody changed them between the first await and the landing.
THEOREM DefaultsAreAccepted == Spec => []DefaultsAccepted
<1>1. ASSUME ChainInv, CallInv, Built, call.fresh, Plain(call.args)
      PROVE  Accepted(call.ix) <=> Possible(call.args)
  <2>1. PICK c, got, x : c = call.args /\ got = call.got /\ x = call.ix
    OBVIOUS
  <2>2. /\ c \in Calls /\ x = Build(c, got) /\ ~Throws(c)
        /\ StagedOK /\ FillsOK /\ InboundOK
    BY <1>1, <2>1 DEF CallInv, CallOK, Built, ChainInv
  <2>3. Plain(c) /\ ReadsFound(c, got)
    BY <1>1, <2>1, FreshReads
  <2>4. c.method \in KeyMethods \cup FillMethods
    BY <2>2, CallIs
  <2>5. CASE c.method = "stage"
    BY <2>1, <2>2, <2>3, <2>5, StageDefaults
  <2>6. CASE c.method = "close"
    BY <2>1, <2>2, <2>3, <2>6, CloseDefaults
  <2>7. CASE c.method = "initiateTransfer"
    BY <2>1, <2>2, <2>3, <2>7, TransferDefaults
  <2>8. CASE c.method = "initiateSwap"
    BY <2>1, <2>2, <2>3, <2>8, SwapDefaults
  <2>9. CASE c.method = "completeTransferDirect"
    BY <2>1, <2>2, <2>3, <2>9, CompleteTransferDirectDefaults
  <2>10. CASE c.method = "completeTransferRelay"
    BY <2>1, <2>2, <2>3, <2>10, CompleteTransferRelayDefaults
  <2>11. CASE c.method = "completeTransferPayload"
    BY <2>1, <2>2, <2>3, <2>11, CompleteTransferPayloadDefaults
  <2>12. CASE c.method \in SwapMethods
    BY <2>1, <2>2, <2>3, <2>12, CompleteSwapDefaults
  <2>13. CASE c.method = "completeSwapPayload"
    BY <2>1, <2>2, <2>3, <2>13, CompleteSwapPayloadDefaults
  <2>14. CASE c.method = "release"
    BY <2>1, <2>2, <2>3, <2>14, ReleaseDefaults
  <2>. QED BY <2>4, <2>5, <2>6, <2>7, <2>8, <2>9, <2>10, <2>11, <2>12, <2>13, <2>14
           DEF KeyMethods, FillMethods, SwapMethods
<1>2. ChainInv /\ CallInv => DefaultsAccepted
  BY <1>1 DEF DefaultsAccepted
<1>. QED BY <1>2, ChainKept, CallKept, PTL
=============================================================================
