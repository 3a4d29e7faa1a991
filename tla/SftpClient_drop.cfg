CONSTANTS
  open = open
  stat = stat
  read = read
  close = close
  limits = limits
  None = None
  Users = {open, stat, read}
  Openers <- OneOpener
  Closers = {close}
  CloseOf <- TheClose
  Limits = limits
  Signalled = {open}
  Window = 1
  MaxId = 4
SPECIFICATION FairSpec
CHECK_DEADLOCK FALSE
PROPERTY EveryRequestSettles
