\* Safety.  Two callers, two messages of the inbox or the two copies of one Gmail
\* message; of commands, aborted commands and foreign changes, two in all.
CONSTANTS
  Caller = {c1, c2}
  MaxMsg = 2
  MaxEvents = 2
  Servers <- OneOrNone
  Headers <- SharedOrNone
  NoLoc = NoLoc
  NoMsg = NoMsg
SPECIFICATION Spec
SYMMETRY Symmetry
INVARIANTS
  BodyIsTheRowsOwn
  SeenAgrees
PROPERTIES
  ActsOnTheChosen
  RowOutlivesMessage
  ImplementsCache
