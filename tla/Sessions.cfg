SPECIFICATION Spec
CONSTANTS
  Procs = {p1, p2}
  Sites <- AllSites
  Secrets = {"r", "s", "g"}
  Groups <- AllGroups
  GShadow <- AllGShadow
  Covers <- AllCovers
  ThisHost = "here"
  Moments <- AllMoments
  MaxJobs = 2
  MaxUid = 2
  Today = 1
  LongMax = 7
  ShortMax = 3
  Name <- LineNames
  LineId <- LineIds
  NoLimit = NoLimit
  OutOfRange = OutOfRange
  Unreadable = Unreadable
  None = None
INVARIANTS RulesExact SessionsEarned UtmpShowsSessions
PROPERTIES LockedOut
CHECK_DEADLOCK FALSE
