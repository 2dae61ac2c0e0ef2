\* Three messages and a page of one, so that an older page exists; one rebuild of
\* the mailbox, one failing pass or restart.
CONSTANTS
  MaxMsg = 3
  MaxEpoch = 2
  Limit = 1
  MaxStops = 1
SPECIFICATION Spec
INVARIANTS
  RowsMatchServer
  NoGapBetweenRows
  OldMailIsSilent
PROPERTIES
  NotifiedAtMostOnce
  RemovedStaysRemoved
  StoreSettles
  ImplementsCache
