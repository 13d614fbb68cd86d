SPECIFICATION Spec
CONSTANTS
  o = o
  a = a
  c1 = c1
  c2 = c2
  p1 = p1
  p2 = p2
  i1 = i1
  i2 = i2
  Keys = {o, a}
  Zero = Zero
  Owner0 = o
  Assistant0 = a
  FeeUpdater0 = a
  FeeRecipient0 = o
  Chains = {c1, c2}
  NoChain = NoChain
  Peers = {p1}
  NoPeer = NoPeer
  Fields = {"baseFee", "gasPriceMargin"}
  Margins = {"gasPriceMargin"}
  Values = {0, 1}
  Bad = Bad
  Encodings <- SomeEncodings
  Zeroed = 0
  Implementations = {i1, i2}
  MaxBatch = 2
  MaxUpdates = 3
  MaxDepth = 2
  MaxBatches = 3
INVARIANT
  OwnerCommandsByOwner
CHECK_DEADLOCK FALSE
