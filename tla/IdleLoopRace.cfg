\* The claim of the sync.go header, on the instance of IdleLoop.cfg without
\* connection failures.
CONSTANTS
  MaxUid = 2
  MaxDrops = 0
  FullResync = 3
  Reissue = 2
  Poll = 1
  MaxResyncs = 1
  FolderLists <- MCFolderLists
SPECIFICATION Spec
INVARIANT NoAnnouncedMailStranded
