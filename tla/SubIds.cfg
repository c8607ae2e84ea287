SPECIFICATION Spec
CONSTANTS
  Procs = {p1, p2}
  Jobs <- AllJobs
  MaxJobs = 2
  Configs <- AllConfigs
  Passwd0 <- Users
  SubStarts <- AllStarts
  NumberOf <- UidOf
  MaxId = 9
  UidMin = 1
  UidMax = 3
  SubIdMin = 2
  SubIdMax = 7
  SubIdCount = 2
  None = None
  Closed = Closed
  Absent = Absent
  Unset = Unset
INVARIANTS LookupsExact NobodyShares
PROPERTIES EditsExact MapsOwned
CHECK_DEADLOCK FALSE
