SPECIFICATION FairSpec
CONSTANTS
  Slots = {1, 2}
  Goal = 2
  Folders = {"a", "b", "c", "d", "e", "f"}
  None = "none"
  MaxFails = 2
\* The script ends.
CHECK_DEADLOCK FALSE
INVARIANTS TypeOK CountedKept KeptBounded PoolBusy FoldersOwned
PROPERTIES EndsUnlessHung
