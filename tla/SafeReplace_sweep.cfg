CONSTANTS
  s1 = s1
  s2 = s2
  c1 = c1
  c2 = c2
  Savers = {s1}
  Sessions = {c1, c2}
  Target = "file"
  Temp <- TempNames
  Back <- BackNames
  Original = original
  None = None
  Servers <- PlainServer
  Homes = {TRUE}
  Refusals = TRUE
  Timeouts = FALSE
  Drops = TRUE
  Overlap = FALSE
SPECIFICATION Spec
CHECK_DEADLOCK FALSE
PROPERTY SweepSparesTheLast
