\* Three reads and packets, so that several abandoned reads can meet a later
\* one; two endpoints in either order; two control transfers of the table.
SPECIFICATION ToolSpec
CONSTANTS
  Iterations = 3
  MaxPackets = 3
  MaxPipes = 2
  Controls = 2
INVARIANTS HandlesInUse StatusTells EndpointTrue ShownIsOwn LossIsReported
PROPERTIES IsAFeed
\* the program exits
CHECK_DEADLOCK FALSE
