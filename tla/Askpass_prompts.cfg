CONSTANTS
  Helpers = {h1, h2}
  Ports = {7}
  Prompts = {"confirm", "plain"}
  Hints = {"text", "none"}
  Answers = {"short", "long"}
  Long = {"long"}
  Sizes = {2, 3}
  MaxRequest = 2
  MaxAttempts = 2
SPECIFICATION FairSpec
CHECK_DEADLOCK FALSE
INVARIANTS OnlyItsOwnAsk OnlyTheAnswer TakenIfSent 
PROPERTIES EveryHelperEnds
