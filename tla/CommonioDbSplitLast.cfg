SPECIFICATION Spec
CONSTANTS
  Names = {1, 2}
  m1 = m1
  m2 = m2
  Members = {m1, m2}
  MaxCells = 5
  MaxAppend = 2
  MemberSets <- TwoSets
  Configurations <- SplitLast
  Missing = Missing
  Torn = Torn
  Absent = Absent
  Closed = Closed
INVARIANTS ListIsSession
