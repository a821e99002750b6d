CONSTANTS
  a1 = a1
  a2 = a2
  a3 = a3
  Addr = {a1, a2}
  Prof = {"A2DP", "DID"}
  Timeout = {0, 1, 2}
  QueueMax = 2
  BondList <- Bonds
  BondPlan <- A2dpPlan
  Lea = {}
  MaxLink = 2
  Sass = TRUE
  LinkbackTimeout = 1
  LossTimeout = 1
  Inputs = {"busy"}
  Budget = 1
SPECIFICATION FairSpec
PROPERTIES SessionEnds
CHECK_DEADLOCK FALSE
