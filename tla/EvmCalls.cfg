SPECIFICATION Spec
CONSTANTS
  u1 = u1
  u2 = u2
  p1 = p1
  Users = {u1, u2}
  This = This
  FeeRecipient = FeeRecipient
  Fills = {f1, f2}
  Incoming <- PlainFills
  Requests <- PlainRequests
  Overrides <- PlainOverrides
  Peers = {p1}
  NoPeer = NoPeer
  Quotes = {1, 2}
  Disabled = Disabled
  None = None
  Redeemed = Redeemed
  MessageFee = 1
  Funds = 3
  MaxDepth = 2
  MaxOut = 2
  MaxOrders = 1
  MaxClock = 2
  MaxGifts = 1
SYMMETRY Symmetry
CONSTRAINT Regimes
INVARIANTS
  FillPaid
  RecipientCanRedeem
  OrderHonoured
  KeepsNothing
  Backed
CHECK_DEADLOCK FALSE
