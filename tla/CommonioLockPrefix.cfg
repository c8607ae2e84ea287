SPECIFICATION FairSpec
CONSTANTS
  Procs = {p1, p2, p3}
  Files = {f1}
  SetName = {p1, p2, p3}
  Mortal = {p3}
  LockTries = 2
  None = None
  Garbage = Garbage
INVARIANTS TmpRemoved
PROPERTIES GrantOwnsLock AttemptEnds
