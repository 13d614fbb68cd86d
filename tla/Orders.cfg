SPECIFICATION OrdersSpec
CONSTANTS
  s1 = s1
  s2 = s2
  Shells = {s1, s2}
  Commands <- MCCommands
  ChainIds <- MCChainIds
  Chains <- loadChains
  Lists <- MCLists
  MaxContracts = 5
  AddressOf <- UniversalAddress
  NoPeer <- Zero32
  InitialOwner <- ConstructedOwner
  Encodes <- BatchEncodes
  Govern <- batchGovernanceCommands
  EncodesFees <- FeesEncode
  Initiates <- TestInitiates
  Configs <- MCConfigs
  Signer <- MCSigner
  FromChain = 10003
  ToChain = 6
  SendAmount = 1000
  Orders <- MCOrders
  MaxRuns = 2
  OrderRuns = 1
  MaxFaults = 1
  ParamSets <- MCParamSets
  Sales <- MCSales
  Routes <- MCRoutes
  RouteOpts <- MCRouteOpts
  TokenProgramOf <- MCTokenProgramOf
  Sender <- MCSender
  MaxUpdates = 1
  InitialParams <- Usual
INVARIANTS PeersTogether ConfiguredWhenDone FeesAsConfigured OrderReadAsAsked SolanaOrderAsAsked RouteKept
SYMMETRY MCSymmetry
CHECK_DEADLOCK FALSE
