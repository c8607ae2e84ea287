SPECIFICATION FairSpec
CONSTANTS
  Procs = {p1, p2}
  Names = {"a", "b", "g"}
  Ids = {1, 2, 3, 4, 5, 6}
  IdMin = 3
  IdMax = 6
  SysIdMin = 1
  SysIdMax = 2
  Reserved = {5}
  Jobs <- AllJobs
  MaxJobs = 2
  Passwd0 <- Passwd
  Group0 <- Groups
  None = None
  Closed = Closed
  Unset = Unset
INVARIANTS TypeOK NoLostUpdate FilesAgree UidsUnique NothingHeldAtExit
PROPERTY ToolEnds
CHECK_DEADLOCK FALSE
