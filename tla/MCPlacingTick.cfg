SPECIFICATION Spec
CONSTANTS
  p1 = p1 p2 = p2 a = a b = b x = x
  Paths = {p1, p2}
  Upstream = {a, b}
  Own = {x}
  Size <- Sizes
  Projects <- AllProjects
  Gaps = FALSE
  Absent = Absent Nothing = Nothing None = None Torn = Torn
CHECK_DEADLOCK FALSE
INVARIANT EditsNoticed
