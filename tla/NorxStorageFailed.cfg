SPECIFICATION Spec
CONSTANTS
  Services = {userdb}
  Updates = {u1, u2}
  Oversize = {}
  FirstBoot = FALSE
  None = None
  Free = Free
  Missing = Missing
  Junk = Junk
  Newer = Newer
INVARIANTS FailedLeavesCommitted
