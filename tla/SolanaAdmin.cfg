SPECIFICATION Spec
CONSTANTS
  k1 = k1
  k2 = k2
  k3 = k3
  c0 = c0
  c1 = c1
  sol = sol
  a1 = a1
  a2 = a2
  zeroParams = zeroParams
  q1 = q1
  q2 = q2
  Keys = {k1, k2, k3}
  ZeroKey = ZeroKey
  Deployer = k1
  OffCurve = {k3}
  Chains = {c0, c1, sol}
  NoChain = c0
  Solana = sol
  Addresses = {a1, a2}
  ZeroAddress = ZeroAddress
  Params = {zeroParams, q1, q2}
  ValidParams = {q1, q2}
  None = None
INVARIANTS
  RequestIsOwners
  OwnedByNamed
PROPERTIES
  PeerMovedByOwner
CHECK_DEADLOCK FALSE
