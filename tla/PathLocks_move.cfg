CONSTANTS
  Ops = {o1, o2, o3}
  Paths <- DeepPaths
  Parent <- DeepParent
  Rank <- DeepRank
  MaxRank = 4
  Plans <- MovePlans
SPECIFICATION FairSpec
INVARIANTS MutualExclusion NoLostWakeup NoWaitCycle
PROPERTIES NoOvertaking EveryWaiterServed ImplementsExclusion
