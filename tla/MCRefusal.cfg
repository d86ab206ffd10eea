CONSTANTS
  Main = Main
  l1 = l1
  l2 = l2
  p = p
  q = q
  NoPlan = NoPlan
  Plans <- TwoPlans
  LoopSeq <- Loops2
  Own <- OwnPlan
  Inner <- NestedPlan
  Lowered <- AnyLowered
  BadSets <- PathsBad
  HostSites <- MCHostSites
  SpecEnabled = TRUE
  MaxRuns = 2
SPECIFICATION Spec
INVARIANT
  RefusalRetiresNothing
CHECK_DEADLOCK FALSE
