-------------------------- MODULE MCSolanaClient --------------------------
EXTENDS SolanaClient, TLC

CONSTANTS u1, u2, pda, usdc, wsol, t22, spl, token2022, c1, c2, k1, f1

MCMints == {usdc, wsol, t22}
MCProgramOf == [m \in MCMints |-> IF m = t22 THEN token2022 ELSE spl]
TokenAt(mint, owner) == Ata(mint, owner, MCProgramOf[mint])

Fill(ch, mode, output, recipient, late) ==
  [chain |-> ch, mode |-> mode, output |-> output, recipient |-> recipient, late |-> late]
MCContents ==
  { Fill(c1, "direct", usdc, u1, FALSE), Fill(c1, "direct", wsol, pda, FALSE),
    Fill(c1, "relay", wsol, u1, TRUE), Fill(c1, "relay", t22, u1, FALSE),
    Fill(c1, "relay", usdc, pda, FALSE),
    Fill(c1, "payload", t22, u1, FALSE), Fill(c2, "payload", usdc, u1, FALSE) }
MCFeeTokens == {TokenAt(usdc, u1), TokenAt(usdc, u2)}

Staging(who, ch, mint) ==
  [preparedBy |-> who, sender |-> who, refund |-> TokenAt(usdc, who), chain |-> ch,
   mint |-> mint, exactIn |-> TRUE, dust |-> FALSE]
MCStagings == {Staging(u, c1, m) : u \in {u1, u2}, m \in {usdc, wsol}} \union
  {Staging(u1, c1, t22), [Staging(u1, c1, usdc) EXCEPT !.preparedBy = u2]}

Args(ch, redeem, exactIn) ==
  [amountIn |-> 2, minOut |-> 2, maxFee |-> 1, exactIn |-> exactIn, chain |-> ch, redeem |-> redeem]
StageCall(by, ch, redeem, exactIn) ==
  [method |-> "stage", payer |-> u1, signers |-> {u1}, key |-> k1, by |-> by,
   args |-> Args(ch, redeem, exactIn), refund |-> TokenAt(usdc, u1)]
StageCalls ==
  {StageCall("sender", ch, redeem, x) : ch \in {c1, c2}, redeem \in {"direct", "relay"}, x \in BOOLEAN}
  \union {StageCall("native", c1, "relay", x) : x \in BOOLEAN}
  \union {[mint |-> t22] @@ StageCall("sender", c1, "direct", TRUE)}
  \union {[senderToken |-> TokenAt(m, u1), mint |-> m] @@
             StageCall("programTransferAuthority", c1, redeem, x) :
             m \in {usdc, t22}, redeem \in {"direct", "relay"}, x \in BOOLEAN}
  \union {[senderToken |-> token] @@ StageCall("programTransferAuthority", c1, "direct", TRUE) :
             token \in {TokenAt(usdc, u2), Ata(t22, u1, spl)}}
  \union {[senderToken |-> TokenAt(usdc, u1), authority |-> u2] @@
             StageCall("programTransferAuthority", c1, "direct", TRUE)}

KeyCall(method) == [method |-> method, payer |-> u1, signers |-> {u1}, key |-> k1]
KeyCalls ==
  {[chain |-> c1, senderToken |-> t] @@ KeyCall("close") : t \in {Null, TokenAt(usdc, u1), TokenAt(t22, u1)}}
  \union {[chain |-> c1, senderToken |-> TokenAt(usdc, u1), preparedBy |-> u1] @@ KeyCall("close")}
  \union {KeyCall("initiateTransfer"), [chain |-> c1] @@ KeyCall("initiateTransfer"),
          [chain |-> c1, refund |-> TokenAt(usdc, u1), preparedBy |-> u2] @@ KeyCall("initiateTransfer")}
  \union {KeyCall("initiateSwap"), [mint |-> t22] @@ KeyCall("initiateSwap"),
          [mint |-> t22, program |-> spl] @@ KeyCall("initiateSwap")}

FillCall(method, payer) ==
  [method |-> method, payer |-> payer, signers |-> {payer, u1}, fill |-> f1]
To(who) == [recipient |-> who]
FillCalls ==
  {FillCall("completeTransferDirect", u) @@ To(w) : u \in {u1, u2}, w \in {u1, pda}}
  \union {FillCall("completeTransferRelay", u) @@ To(w) : u \in {u1, u2}, w \in {u1, pda}}
  \union {FillCall("completeTransferRelay", u2) @@ To(pda) @@ [recipientToken |-> TokenAt(usdc, pda)]}
  \union {FillCall("completeTransferPayload", u) : u \in {u1, u2}}
  \union {FillCall("completeTransferPayload", u2) @@ [redeemer |-> u1, chain |-> c1]}
  \union {FillCall(m, u) @@ To(w) :
             m \in {"completeSwapDirect", "completeSwapRelay"}, u \in {u1, u2}, w \in {u1, pda}}
  \union {FillCall("completeSwapRelay", u2) @@ To(u1) @@ [mint |-> t22]}
  \union {FillCall("completeSwapDirect", u1) @@ To(u1) @@ [mint |-> usdc]}
  \union {FillCall("completeSwapPayload", u2) @@ [mint |-> m] : m \in {t22, wsol}}
  \union {FillCall("release", u1) @@ To(u1) @@ [dstToken |-> TokenAt(m, u1)] : m \in {usdc, t22}}
MCCalls == StageCalls \union KeyCalls \union FillCalls
=============================================================================
