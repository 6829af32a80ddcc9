--------------------------- MODULE MCRestores --------------------------------
\* addons, codex.db, its write-ahead log, and credentials, by name.
EXTENDS Restores

MCEntries == 1..4
\* With add-ons, or a database alone; an archive holds no log.
MCArchives == {{1, 2}, {2}}
================================================================================
