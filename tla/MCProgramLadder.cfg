CONSTANTS
  Main = Main
  l1 = l1
  l2 = l2
  p = p
  q = q
  NoPlan = NoPlan
  Plans <- TwoPlans
  LoopSeq <- Loops2
  Own <- OwnPlan
  Inner <- NestedPlan
  Lowered <- AnyLowered
  BadSets <- PathsBad
  HostSites <- MCHostSites
  SpecEnabled = TRUE
  MaxRuns = 2
SPECIFICATION FairSpec
INVARIANTS
  RetiredStayOut
  NoWedge
  ReturnedProven
  ValidatedBuilds
  RefusalKeepsBuilds
  
  Heals
PROPERTY
  EveryRunEnds
CHECK_DEADLOCK FALSE
