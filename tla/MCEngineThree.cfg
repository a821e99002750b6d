CONSTANTS
  a1 = a1
  a2 = a2
  a3 = a3
  Addr = {a1, a2, a3}
  Prof = {"A2DP", "AVRCP", "HFP", "DID"}
  Timeout = {0, 1, 2}
  QueueMax = 3
  BondList <- ThreeBonds
  BondPlan <- MixedPlan
  Lea = {}
  MaxLink = 2
  Sass = TRUE
  LinkbackTimeout = 1
  LossTimeout = 1
  Inputs = {"loss","leave","security","disconnect"}
  Budget = 2
SPECIFICATION Spec
INVARIANTS CloseAwaitsProfile CloseIsDriven SearchIsCurrent PagesOnlyActive PagingIsTimed
CHECK_DEADLOCK FALSE
