SPECIFICATION Spec
CONSTANTS
  NTHREADS = 2
  Fn = {"start", "stop"}
  MaxRounds = 1
  MaxTotal = 2
CHECK_DEADLOCK FALSE
PROPERTY StopAnswers
