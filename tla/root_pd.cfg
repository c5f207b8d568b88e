CONSTANTS
  MaxThreads = 2
  Timeouts = TRUE
SPECIFICATION Spec
INVARIANTS TypeOK HeldOnce OthersAnswered
PROPERTIES BlockEndsByRelease 
