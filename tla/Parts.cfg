\* Each part for itself.  Two loops show notifications, one at a time or two in a
\* pass, beside another program, and the daemon may be restarted once.
CONSTANTS
  Part = {"notifier", "theme", "downloads", "outbox", "discovery", "shipments", "checksums", "body"}
  Nothing = Nothing
  Loop = {"work", "home"}
  Other = "other"
  Batches = {2, 4}
  MaxShown = 3
  MaxRestarts = 1
  Version = {0, 1, 2}
  MaxWrites = 3
  Call = {1, 2}
  Attachment = {"report", "copy", "scan"}
  RawName <- MCRawName
  Fallback <- MCFallback
  MaxSuffix = 2
  Foreign = "foreign"
  Partial = "partial"
  MaxForeign = 2
  Address = {"good", "bad"}
  BadOnes = {"bad"}
  MaxTries = 3
  Document <- MCDocument
  Page <- Html
  MxAnswer <- MCMxAnswer
  MaxPublishers = 2
  Delay = {0, 4, 5}
  NoConfig = NoConfig
  Parcel = {"p", "q"}
  Message <- MCMessage
  Scheme = {"ups", "usps", "s10"}
  Serial <- MCSerial
  Leaves <- MCLeaves
  MaxParts = 5
  MaxDepth = 4
  Budget = 1
SPECIFICATION Spec
INVARIANTS
  ClickActivates
  ThemeSettles
  SavedIsThere
  SentAsReported
  BestAnswerWins
  ShipmentsAreTheMessages
  TypoIsCaught
  ReaderFindsEverything
CHECK_DEADLOCK FALSE
