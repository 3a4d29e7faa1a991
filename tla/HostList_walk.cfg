CONSTANTS
  user = user
  system = system
  x = x
  y = y
  link = link
  A = A
  B = B
  star = star
  NoFile = noFile
  Files = {user, system, x, y, link}
  Real <- Canonical
  Roots <- BothRoots
  Words = {A, B, star}
  Concrete = {A, B}
  Contents <- Configurations
  Matches <- Patterns
  Order <- Sorted
  MaxDepth = 2
  Loads = {l1, l2}
  MaxEdits = 1
SPECIFICATION ListFairSpec
CHECK_DEADLOCK FALSE
 
PROPERTIES LoadEnds
