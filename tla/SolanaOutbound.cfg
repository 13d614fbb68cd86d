SPECIFICATION Spec
CONSTANTS
  u1 = u1
  u2 = u2
  c1 = c1
  c2 = c2
  a1 = a1
  Users = {u1, u2}
  Jupiter = Jupiter
  Keys = {k1}
  Chains = {c1, c2}
  ZeroAddress = ZeroAddress
  Addresses = {a1, ZeroAddress}
  Quotes = {1, 2}
  NoQuote = NoQuote
  NoMin = NoMin
  Requests <- AllRequests
  Approvals <- PartyApprovals
  Nobody = Nobody
  None = None
  Cancelled = Cancelled
  Funds = 3
  MaxStagings = 2
CONSTRAINT Regimes
INVARIANTS
  TypeOK
  RentReturned
  OrderHonoursRequest
  FeeCovered
  AmountHonoured
PROPERTIES
  EndsPaid
  DelegationSpentWhole
  KeepsPromise
CHECK_DEADLOCK FALSE
