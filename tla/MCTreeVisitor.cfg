SPECIFICATION FairSpec
CONSTANTS
  a = a
  b = b
  Visits <- MCVisits
  Label = {a, b}
  Again = {b}
  MaxEdits = 2
\* A walk ends.
CHECK_DEADLOCK FALSE
INVARIANTS TypeOK MarkedIffOnStack ResultsSettled UntouchedKept NoLoopFound
PROPERTIES ResultsStand WalkEnds
