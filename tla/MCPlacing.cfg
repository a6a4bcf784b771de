SPECIFICATION Spec
CONSTANTS
  p1 = p1 p2 = p2 a = a b = b x = x
  Paths = {p1, p2}
  Upstream = {a, b}
  Own = {x}
  Size <- Sizes
  Projects <- AllProjects
  Gaps = TRUE
  Absent = Absent Nothing = Nothing None = None Torn = Torn
CHECK_DEADLOCK FALSE
INVARIANTS NamesAreWhole StateVouches SettledInSync
PROPERTIES EditsKept
