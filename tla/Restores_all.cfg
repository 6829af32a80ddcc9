CONSTANTS
  Entries <- MCEntries
  Database = 2
  Credentials = 4
  Archives <- MCArchives
  MaxRestores = 2
  MaxCrashes = 2
  MaxTools = 1
  Large = {3}
  MaxLives = 3
  MaxBuilds = 2
  Kept = 3
  MaxActs = 3
SPECIFICATION RestoresSpec
INVARIANTS BothCopiesKept
PROPERTIES KeepsPromise RestoreSettles RestoresAreReviewed
CHECK_DEADLOCK FALSE
