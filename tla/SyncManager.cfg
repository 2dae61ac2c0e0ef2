\* Three callers (two commands and the tray) on two accounts, two starts (the theorems cover the rest).
CONSTANTS
  Account = {a1, a2}
  Caller = {ui, tray, quit}
  NoAccount = NoAccount
  Nobody = Nobody
  MaxStarts = 2
SPECIFICATION Spec
INVARIANTS
  UntrackedLoopIsCancelled
  OverlapOnlyAfterTimeout
  TrackedLoopIsLive
PROPERTIES
  CallsReturn
  ImplementsRegistry
