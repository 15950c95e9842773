SPECIFICATION FairSpec
CONSTANTS
  outer = outer
  group = group
  loop = loop
  catchFirst = catchFirst
  catchInner = catchInner
  work = work
  check = check
  tail = tail
  t1 = t1
  t2 = t2
  Managers <- DeepManagers
  Leaves <- MCLeaves
  Root = outer
  Passes <- DeepPasses
  Parent <- DeepParent
  Inside <- DeepInside
  Kind <- DeepKind
  Repeats <- DeepRepeats
  Stop <- DeepStop
  Handlers <- MCHandlers
  Triggers = {t1, t2}
  Takes <- DeepTakes
  Program = {p1, p2}
  Null = Null
  NotYet = NotYet
  MaxErrors = 1
  MaxThrows = 2
\* A compilation ends: it returns, aborts on a trigger nobody takes, or crashes.
CHECK_DEADLOCK FALSE

PROPERTIES TriggerCaughtByNearest ImplementsPromise
