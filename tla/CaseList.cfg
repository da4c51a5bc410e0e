\* Three bytes and polls of two, one less than a backlog of all of them.
SPECIFICATION Spec
CONSTANTS
  Repeats = 2
  PollSize = 2
  MaxBytes = 3
INVARIANTS SentAsNamed ShownIsRecent
PROPERTIES ComesToItsEnd
\* the program exits
CHECK_DEADLOCK FALSE
