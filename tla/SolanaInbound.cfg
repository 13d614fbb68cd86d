SPECIFICATION FairSpec
CONSTANTS
  r1 = r1
  u1 = u1
  c1 = c1
  p1 = p1
  p2 = p2
  Users = {r1, u1}
  FeeRecipient = FeeRecipient
  Jupiter = Jupiter
  Fills = {f1}
  Incoming <- AnyFill
  Chains = {c1}
  Addresses = {p1, p2}
  PeerAccounts <- MovingPeer
  None = None
  Consumed = Consumed
  Funds = 2
  MaxOut = 2
  MaxClock = 3
INVARIANTS
  TypeOK
  Conservation
  SwapHonoured
  RecipientCanRedeem
PROPERTIES
  ConsumedFillPaysOut
  RelayCompletes
CHECK_DEADLOCK FALSE
