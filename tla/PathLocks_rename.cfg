CONSTANTS
  Ops = {o1, o2}
  Paths <- MCPaths
  Parent <- MCParent
  Rank <- MCRank
  MaxRank = 4
  Plans <- RenamePlans
SPECIFICATION Spec
INVARIANT NoWaitCycle
