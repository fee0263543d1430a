SPECIFICATION Spec
CONSTANTS
  NTHREADS = 2
  Fn = {"start", "stop", "setperiod", "cancel"}
  MaxRounds = 2
  MaxTotal = 2
\* The handler may hang on the mutex or in a join, or the process may die.
CHECK_DEADLOCK FALSE
INVARIANTS
  TypeOK
  QuietWhenStopped
  TbufListsWorkers
  CountNeverExceeds
