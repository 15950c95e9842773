SPECIFICATION FairSpec
CONSTANTS
  Walks <- AllWalks
\* A walk ends.
CHECK_DEADLOCK FALSE
INVARIANTS TypeOK OnlyWhatIsBefore AllThatIsBefore JoinedOnce TailsFinish
PROPERTIES WalkEnds
