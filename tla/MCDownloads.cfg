SPECIFICATION HereSpec
CONSTANTS
  t1 = t1 t2 = t2 u1 = u1 u2 = u2 d1 = d1 d2 = d2 i1 = i1 i2 = i2 i3 = i3 i4 = i4
  r1 = r1 r2 = r2 v1 = v1 v2 = v2 mixed = mixed
  Tasks = {t1, t2}
  Main = Main
  Urls = {u1, u2}
  Digests = {d1, d2}
  Inodes = {i1, i2, i3, i4}
  None = None
  Pending = Pending
  UrlOf <- TwoLinks
  Expect <- PinFirst
  Resumed = {t1}
  Earlier <- EarlierTwo
  EarlierLoss = FALSE
  Group = 2
  Apart = TRUE
  Runs = {r1, r2}
  Links = {"link", "listed"}
  First = "link"
  Serve <- Served
  Versions = {v1, v2}
  Mixed = mixed
  Md5 <- Sums
  Size <- Sizes
  Jobs <- AllJobs
  Changes = 1
  Downloads = 3
  Diversions = 1
  Attempts = 2
  Machines = {r1, r2}
  Versioned = {"record"}
  Raw = {"link", "kaggle"}
  Content <- Contents
  Given = "a.zip"
  Zipped <- ZipOf
  Zips = {"Z"}
  Archives = {"a.zip", "b.zip"}
  Tree <- TreeOf
  ContentMd5 <- Its
  ContentSize <- One
  Selects <- Patterns
  Moves = 2
  Relocks = 2
  Requests <- Commands
  NameOf <- ListedNames
  Offers <- Serving
  StemOf <- Stems
  Members <- Unzipped
  FolderOf <- FoldersOf
  Numbered <- Seconds
  Folded <- Lower
  Leads <- LinkTo
  IgnoresCase = TRUE
  Reachable <- Edited
  Mine = "mine"
  MostIncidents = 1
SYMMETRY Interchangeable
INVARIANTS NamedIntact WaitingKeepsItsBytes RightBytes DoneStays
PROPERTIES ImplementsStore PinsStayTrue NothingLost
