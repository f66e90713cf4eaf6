\* Old tables with applications whose ids are also free ids of platforms; one start.
SPECIFICATION MigrationsSpec
CONSTANTS
  LegacySites = {1, 2}
  LegacyApps = {1, 3}
  NewSites = {2, 4}
  NoTable = NoTable
  MaxStarts = 1
INVARIANTS BindingsFollow
CHECK_DEADLOCK FALSE
