\* main and three handlers; a lock count that overflows at its fourth lock.
SPECIFICATION Spec
CONSTANTS
  MaxPriority = 3
  Pwms = {p1, p2}
  Tickers = {t1, t2}
  LowPower = {t2}
  Unset = {t2}
  CopyWritten = FALSE
  CountRange = 4
  MaxHeld = 8
INVARIANTS TypeOK NoDeepSleepWhileHeld DeepSleepRestored Accounted NeverBelowZero
\* error() stops the program.
CHECK_DEADLOCK FALSE
