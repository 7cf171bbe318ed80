SPECIFICATION Spec
CONSTANTS
  exe = exe
  upd = upd
  man = man
  Files <- MCFiles
  Exe = exe
  Upd = upd
  Man = man
  MaxVersion = 3
  Manifest <- MCManifest
  Guess <- MCGuess
  Lists = {"complete", "malformed", "failed"}
  Truncated = FALSE
  Skippable = {2}
  MaxEvents = 4
INVARIANTS TypeOK BrokenIsFlagged OldKept
PROPERTIES SuccessMeansInstalled
CHECK_DEADLOCK FALSE
