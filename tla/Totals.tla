------------------------------- MODULE Totals -------------------------------
(***************************************************************************)
(* What the accounts of a ledger hold together: the number of units in     *)
(* them, each unit being an account and a number up to its balance.        *)
(* Counting needs no recursion over the accounts.                          *)
(***************************************************************************)
EXTENDS Integers, FiniteSets

Units(balance) == UNION {{x} \X (1 .. balance[x]) : x \in DOMAIN balance}
Total(balance) == Cardinality(Units(balance))
=============================================================================
