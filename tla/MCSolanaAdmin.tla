--------------------------- MODULE MCSolanaAdmin ---------------------------
EXTENDS SolanaAdmin
CONSTANTS k1, k2, k3, c0, c1, sol, a1, a2, zeroParams, q1, q2
=============================================================================
