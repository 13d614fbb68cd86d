--------------------------- MODULE StagedTransfer ---------------------------
(***************************************************************************)
(* What the program promises of an outbound transfer: once it is asked for *)
(* it becomes one market order that honours what was asked, or it is       *)
(* cancelled, and it never becomes anything else afterwards.  Accounts,    *)
(* signers, fees, swaps and dust are how the program keeps the promise.    *)
(***************************************************************************)
EXTENDS Naturals, Sequences

CONSTANTS
  Honours(_, _),   \* Honours(order, request)
  Cancelled

VARIABLES
  asked,     \* the requests, in the order in which they were made
  outcome    \* for each of them the orders made of it, or Cancelled

Waiting == <<>>

Init == asked = <<>> /\ outcome = <<>>

Ask ==
  /\ Len(asked') = Len(asked) + 1
  /\ SubSeq(asked', 1, Len(asked)) = asked
  /\ outcome' = Append(outcome, Waiting)

Becomes(i, end) ==
  /\ outcome' = [outcome EXCEPT ![i] = end]
  /\ UNCHANGED asked

Cancel(i) == outcome[i] = Waiting /\ Becomes(i, Cancelled)

MakeOrder(i) ==
  LET end == outcome'[i] IN
  /\ outcome[i] = Waiting
  /\ end # Cancelled /\ Len(end) = 1
  /\ Honours(end[1], asked[i])
  /\ Becomes(i, end)

Next == Ask \/ \E i \in DOMAIN outcome : Cancel(i) \/ MakeOrder(i)

Spec == Init /\ [][Next]_<<asked, outcome>>
=============================================================================
