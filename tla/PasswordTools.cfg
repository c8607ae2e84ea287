SPECIFICATION Spec
CONSTANTS
  Procs = {p1, p2}
  Root = Root
  ListedShells = {"sh", "ksh"}
  Jobs <- AllJobs
  MaxJobs = 2
  GecosFields = {"full", "room"}
  UserFields = {"room"}
  Starts <- AllStarts
  Names = {"u", "g", "z"}
  Hashes = {"", "x", "h0", "h1", "h2", "h3"}
  Today = 10
  LongMax = 15
  None = None
  Closed = Closed
  Unset = Unset
  Absent = Absent
INVARIANTS NothingAskedIsLost NothingHeldAtExit
PROPERTIES BarredStays CheckersRepair
CHECK_DEADLOCK FALSE
