SPECIFICATION FairSpec
CONSTANTS
  t1 = t1 t2 = t2 u1 = u1 u2 = u2 d1 = d1 d2 = d2 i1 = i1 i2 = i2 i3 = i3 i4 = i4
  Tasks = {t1, t2}
  Main = Main
  Urls = {u1}
  Digests = {d1, d2}
  Inodes = {i1, i2, i3, i4}
  None = None
  Pending = Pending
  UrlOf <- SameLink
  Expect <- PinFirst
  Resumed = {t1}
  Earlier <- EarlierOne
  EarlierLoss = FALSE
  Group = 2
  Apart = FALSE
INVARIANT NamedIntact
