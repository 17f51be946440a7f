\* A crash handler process that dies.
CONSTANTS
  Enabled = {"crashpad"}
  Reporters = {}
  RetryCount = 2
  CanBreak = {}
  MayDie = TRUE
  MayFail = FALSE
SPECIFICATION FairSpec
PROPERTIES DeadHandlerIsReported
\* The process ends.
CHECK_DEADLOCK FALSE
