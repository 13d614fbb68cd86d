SPECIFICATION Spec
CONSTANTS
  u1 = u1
  u2 = u2
  c1 = c1
  c2 = c2
  a1 = a1
  Users = {u1}
  Jupiter = Jupiter
  Keys = {k1}
  Chains = {c1, c2}
  ZeroAddress = ZeroAddress
  Addresses = {a1, ZeroAddress}
  Quotes = {1, 2}
  NoQuote = NoQuote
  NoMin = NoMin
  Requests <- TermRequests
  Approvals = {}
  Nobody = Nobody
  None = None
  Cancelled = Cancelled
  Funds = 3
  MaxStagings = 1
INVARIANTS
  Cancellable
CHECK_DEADLOCK FALSE
