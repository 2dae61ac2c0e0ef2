\* Two commands at once on an IMAP account and two ids of one Gmail address, from any
\* consistent start; one failing statement, timed-out join or end of the process.
CONSTANTS
  Imap = {i1}
  Gmail = {g1, g2}
  Caller = {c1, c2}
  MaxCalls = 2
  MaxFaults = 1
  NoAccount = NoAccount
  NoCaller = NoCaller
SPECIFICATION Spec
CHECK_DEADLOCK FALSE
INVARIANTS
  ListedHasSecret
  UnlistedHasNothing
PROPERTIES
  ListedAccountsSync
