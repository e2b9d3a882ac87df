SPECIFICATION FairSpec
CONSTANTS
  r1 = r1
  Loops <- TwoLoops
  Requests = {r1}
  ShutdownTimeout = 2
  Grace = 1
  MaxBackoff = 3
\* The process exits.
CHECK_DEADLOCK FALSE
INVARIANTS TypeOK OnlyTheLateLoseThePool
PROPERTIES StopEnds LoopsComeBack
