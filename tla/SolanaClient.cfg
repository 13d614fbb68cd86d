SPECIFICATION Spec
CONSTANTS
  u1 = u1
  u2 = u2
  pda = pda
  usdc = usdc
  wsol = wsol
  t22 = t22
  spl = spl
  token2022 = token2022
  c1 = c1
  c2 = c2
  k1 = k1
  Keys = {k1}
  f1 = f1
  Fills = {f1}
  Contents <- MCContents
  Registered = {c1}
  Usdc = usdc
  Native = wsol
  Mints <- MCMints
  ProgramOf <- MCProgramOf
  TokenProgram = spl
  OffCurve = {pda}
  Stagings <- MCStagings
  FeeTokens <- MCFeeTokens
  Quote = 1
  Calls <- MCCalls
  Null = Null
  None = None
  Idle = Idle
  Consumed = Consumed
INVARIANTS
  DefaultsAccepted
  StaleRefused
CHECK_DEADLOCK FALSE
