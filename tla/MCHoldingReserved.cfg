SPECIFICATION HereSpec
CONSTANTS
  p1 = p1 p2 = p2 p3 = p3 p4 = p4 t1 = t1 t2 = t2 u1 = u1 d1 = d1 d2 = d2 i1 = i1 i2 = i2 i3 = i3 i4 = i4
  windows = windows linux = linux
  Procs = {p1, p2, p3, p4}
  OsOf <- TwoSystems
  LockingOses = {windows, linux}
  Hardlinks = FALSE
  Stalls = FALSE
  Deletes = FALSE
  None = None
  Main = Main
  Pending = Pending
INVARIANT OneHolder
