SPECIFICATION JobsSpec
CONSTANTS
  Jobs = {j1, j2}
  max_backups = 1
  MaxCommands = 2
  Nobody = Nobody
  Entries <- MCEntries
  Broken <- MCBroken
  job <- Suffix
  Chars <- MCChars
  Decimal <- MCDecimal
  Room = 7
  Batch = 2
  NoEntry = NoEntry
  Elsewhere = Elsewhere
INVARIANTS JobsTypeOK ChildrenBounded EachOnce BackupsApart
PROPERTIES BackupsProceed EveryFileRun
CHECK_DEADLOCK FALSE
