\* The claim of TERMINOLOGY.md about a sync after cache invalidation, with no
\* failing pass and no restart: two messages and one rebuild are enough.
CONSTANTS
  MaxMsg = 2
  MaxEpoch = 2
  Limit = 1
  MaxStops = 0
SPECIFICATION Spec
INVARIANT RebuildStaysSilent
