\* Ticks: FullResync 3, Reissue 2, Poll 1 keep the order 25 min > 5 min > 60 s,
\* and make a re-issue, a wait capped by the deadline and a short poll happen.
CONSTANTS
  MaxUid = 2
  MaxDrops = 1
  FullResync = 3
  Reissue = 2
  Poll = 1
  MaxResyncs = 1
  FolderLists <- MCFolderLists
SPECIFICATION Spec
INVARIANTS
  AnnouncedMailIsPending
  CacheHasNoGap
  WaitEndsByDeadline
  ReportedStateIsTrue
PROPERTIES
  MailIsEventuallyCached
  CancelledLoopExits
  ImplementsCache
