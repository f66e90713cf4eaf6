\* One update at a time, nobody kills an updater, and sqlite3 cannot copy the database once.
SPECIFICATION SelfUpdateSpec
CONSTANTS
  MaxRelease = 3
  MaxUpFailures = 0
  MaxSnapshotFails = 1
  MaxKills = 0
  UpOverlapping = FALSE
INVARIANTS ReleaseWhole
CHECK_DEADLOCK FALSE
