\* All services, status requests while main() still starts, one that breaks and
\* recovers, a crash handler that dies, starts that fail.
CONSTANTS
  Enabled = {"crashpad", "monitor", "zeromq", "telnet"}
  Reporters = {"zeromq"}
  RetryCount = 1
  CanBreak = {"monitor"}
  MayDie = TRUE
  MayFail = TRUE
SPECIFICATION FairSpec
INVARIANTS Inductive NoReallocationUnderReader OnlySessionsOutlive
PROPERTIES BrokenIsReported LiveIsReported
\* The process ends.
CHECK_DEADLOCK FALSE
