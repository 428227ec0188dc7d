SPECIFICATION FairSpec
CONSTANTS
  Registers = {1}
  Values = {0, 1}
  Methods <- MCMethods
  MaxCommits = 3
INVARIANTS FetchFindsInstruction
PROPERTIES PaintedAsCommitted DrawnWhenAwake DrawingEnds
CHECK_DEADLOCK FALSE
