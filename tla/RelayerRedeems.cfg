SPECIFICATION FairSpec
CONSTANTS
  eth = eth
  avax = avax
  o1 = o1
  o2 = o2
  o3 = o3
  o4 = o4
  o5 = o5
  NoChain = NoChain
  Chains = {eth, avax}
  Orders = {o1}
  From <- MCFrom
  To <- MCTo
  Kind <- MCKind
  Dropoff <- MCDropoff
  Words <- NoWord
  Configs <- FullConfigs
  MaxRounds = 2
  MaxFaults = 0
PROPERTIES RedeemsWhatItHears
CHECK_DEADLOCK FALSE
