\* Three deeds of the user, three calls in flight, two events.
CONSTANTS
  Folder = {"inbox", "other"}
  Inboxes = {"inbox"}
  MaxMsg = 4
  Home <- MCHome
  Hits = {1, 2}
  First = {1, 2, 3}
  PageLimit = 1
  MaxCalls = 3
  MaxEvents = 2
  MaxUser = 3
  Unified = "unified"
  NoMsg = NoMsg
SPECIFICATION Spec
INVARIANTS
  ViewShowsItsOwn
  ListIsTheView
  ReaderShowsSelection
CHECK_DEADLOCK FALSE
