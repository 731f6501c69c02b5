SPECIFICATION TwoAskSpec
CONSTANTS
  keepalive = keepalive
  later = later
  autofix = autofix
  first = first
  second = second
  Dispatches <- MCDispatches
  Runs <- MCRuns
  RunOf <- MCRunOf
  Recorders <- MCRecorders
  MaxHead = 2
  RetryLimit = 1
  StaleAfter = 0
  Cooldown = 1
  Past = Past
  None = None
INVARIANTS
  TypeOK
  OneRetryEach
PROPERTIES
  NewerOwnerKept
  ReplacedOnlyWhenRaced
  Wakes
