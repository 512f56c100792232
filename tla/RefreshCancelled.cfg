\* What a cancelled run leaves: a provider process (NoOrphans), an audit row that
\* stays running (RowFinished).  TLC stops at the first it finds: leave one out
\* to see the other.
SPECIFICATION RefreshSpec
CONSTANTS
  Entry = {"a", "b", "c"}
  Entries <- MCEntries
  Outdated = {"a"}
  Limits = {1, 2}
  MaxCommits = 1
CHECK_DEADLOCK FALSE
INVARIANTS NoOrphans RowFinished
