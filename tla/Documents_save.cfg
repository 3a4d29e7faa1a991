CONSTANTS
  w1 = w1
  w2 = w2
  d1 = d1
  d2 = d2
  file1 = file1
  t1 = t1
  t2 = t2
  Windows = {w1, w2}
  Docs = {d1}
  Paths = {file1}
  PathOf <- OneFile
  Tasks = {t1, t2}
  MaxVersions = 3
  Nobody = nobody
  Others = TRUE
  Forgets = TRUE
  Discards = TRUE
SPECIFICATION Spec
CHECK_DEADLOCK FALSE
SYMMETRY Symmetric
PROPERTIES ReadIsOneVersion OverwritesAreAgreed
