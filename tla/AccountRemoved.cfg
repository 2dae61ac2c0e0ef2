\* One Gmail account, two commands, no failure.
CONSTANTS
  Imap = {}
  Gmail = {g1}
  Caller = {c1, c2}
  MaxCalls = 2
  MaxFaults = 0
  NoAccount = NoAccount
  NoCaller = NoCaller
SPECIFICATION Spec
CHECK_DEADLOCK FALSE
INVARIANTS
  RemovedIsGone
