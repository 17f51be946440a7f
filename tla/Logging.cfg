\* Four messages and the last one, at levels that are not sent, go to Loki only,
\* and go to both; a release build, with every option of the command line.
CONSTANTS
  LokiAvailable = TRUE
  SentryAvailable = TRUE
  BuildLevel = "warn"
  Verbosity = {"info", "debug", "trace"}
  Levels = {"trace", "debug", "critical"}
  MaxMessages = 4
SPECIFICATION Spec
INVARIANTS OnceAndInOrder OnlyLateOnesStay
\* The logger goes away.
CHECK_DEADLOCK FALSE
