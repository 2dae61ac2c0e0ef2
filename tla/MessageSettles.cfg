\* Liveness.  One caller beside the sync goroutine, two messages.
CONSTANTS
  Caller = {c1}
  MaxMsg = 2
  MaxEvents = 2
  Servers <- OldOrNew
  Headers <- Shared
  NoLoc = NoLoc
  NoMsg = NoMsg
SPECIFICATION Spec
PROPERTIES
  CountsSettle
  MailReappears
