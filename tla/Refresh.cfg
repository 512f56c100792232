\* Two provider groups, one at a time or both at once; a client that may go
\* away and a commit of somebody else.
SPECIFICATION RefreshSpec
CONSTANTS
  Entry = {"a", "b", "c"}
  Entries <- MCEntries
  Outdated = {"a"}
  Limits = {1, 2}
  MaxCommits = 1
CHECK_DEADLOCK FALSE
INVARIANTS
  SuccessIsWhole
  ProvidersContained
PROPERTIES
  CancelledRunEnds
