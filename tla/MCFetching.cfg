SPECIFICATION HereSpec
CONSTANTS
  c1 = c1 c2 = c2 g1 = g1 f1 = f1 f2 = f2 f3 = f3
  k1 = k1 k2 = k2 osf = osf zenodo = zenodo kaggle = kaggle h1 = h1 h2 = h2
  ToolFiles <- AllTools Netrc = "netrc" Exports <- AllExports
  Tokens = {k1, k2} Accepted = {k1} OwnStore = {osf, zenodo}
  Claimers = {c1, c2}
  Sweepers = {g1}
  Files = {f1, f2, f3}
  None = None
  GcLock = FALSE
  Links <- AllLinks
  Credentials <- AllCredentials
  Unsendable = {"broken"}
  Literal = {"ip"}
  Resolves <- AllNames
  Unknown = {"gone"}
  Written <- AllWritten
  Proxy = "gate"
  Direct = {"lab", "gate"}
  Redirects = 2
  Attempts = 2
  Limited = 1
  Downloads = {f1, f2} FileSizes <- Lengths ToldFiles = {f1} AskAbove = 1 MostTries = 2
INVARIANTS OneOwner NothingAstray AsksOnceBeforeLarge
PROPERTIES OwnedBytesStay EveryWaitEnds KeysFollow
