CONSTANTS
  s1 = s1
  s2 = s2
  c1 = c1
  c2 = c2
  Savers = {s1, s2}
  Sessions = {c1, c2}
  Target = "file"
  Temp <- TempNames
  Back <- BackNames
  Original = original
  None = None
  Servers <- AnyServer
  Homes = {TRUE, FALSE}
  Refusals = TRUE
  Timeouts = TRUE
  Drops = TRUE
  Overlap = FALSE
SPECIFICATION Spec
CHECK_DEADLOCK FALSE
PROPERTIES NeverHalf NothingLost  SavedIsThere ImplementsFile
