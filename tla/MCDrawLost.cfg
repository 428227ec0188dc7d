SPECIFICATION FairSpec
CONSTANTS
  Registers = {1}
  Values = {0, 1}
  Methods <- MCMethods
  MaxCommits = 2
PROPERTIES CommittedDrawn
CHECK_DEADLOCK FALSE
