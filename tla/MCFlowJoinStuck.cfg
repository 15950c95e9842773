SPECIFICATION FairSpec
CONSTANTS
  Walks <- CrossedWalks
\* A walk ends.
CHECK_DEADLOCK FALSE
INVARIANTS SplitsFinish
