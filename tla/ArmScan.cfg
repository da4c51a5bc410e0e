\* All seven sequences of the program, with two polls after each.
SPECIFICATION ScanFairSpec
CONSTANTS
  Polls = 2
INVARIANTS VerdictComplete FoundIsRecent
PROPERTIES Ends
\* the program exits
CHECK_DEADLOCK FALSE
