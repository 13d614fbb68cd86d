--------------------------- MODULE MCEvmGovernance ---------------------------
EXTENDS EvmGovernance
CONSTANTS o, a, c1, c2, p1, p2, i1, i2

(* Parameters that pass checkedWrap and parameters that do not.              *)
SomeEncodings == {[baseFee |-> 1, gasPriceMargin |-> 0], [baseFee |-> 0, gasPriceMargin |-> Bad]}
=============================================================================
