\* Five kinds of sessions: plain streams, editing, arrows, lines, no callbacks.
CONSTANTS
  Settings <- AllSettings
  HistoryLimit = 2
  Commands <- ABCommands
  Known <- KnownLines
  Help <- HelpLine
  Quit <- QuitLine
SPECIFICATION Spec
INVARIANTS TypedText HistoryIsRecent UpsWalkBack TotalsAddUp
\* A session ends when its client does.
CHECK_DEADLOCK FALSE
