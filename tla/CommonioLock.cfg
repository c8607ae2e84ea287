SPECIFICATION FairSpec
CONSTANTS
  Procs = {p1, p2}
  Files = {f1, f2}
  SetName = {}
  Mortal = {p1, p2}
  LockTries = 1
  None = None
  Garbage = Garbage
INVARIANTS TypeOK MutualExclusion HolderOwnsLockFile LckpwdfNotLeftBehind
PROPERTIES ImplementsLock
