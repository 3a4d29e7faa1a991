CONSTANTS
  hA = hA
  hB = hB
  top = top
  sub = sub
  low = low
  Hosts = {hA, hB}
  NoHost = noHost
  Paths = {top, sub, low}
  Blank = blank
  Junk = junk
  Kind <- Kinds
  Size <- Sizes
  Fine <- FineRank
  Coarse <- CoarseRank
  Root <- Roots
  Up <- Tree
  HistoryLimit = 2
  Tasks = {t1, t2}
  Typed = {sub, junk}
  MaxInputs = 3
  MaxFaults = 1
  Disposes = TRUE
SPECIFICATION Spec
CHECK_DEADLOCK FALSE
INVARIANTS PanelInStep   RowsInOrder
PROPERTIES NeverBlank
