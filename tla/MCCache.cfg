SPECIFICATION Spec
CONSTANTS
  r1 = r1 r2 = r2 gc = gc f1 = f1 f2 = f2 s1 = s1 d1 = d1 d2 = d2
  Sharers = {r1, r2} Owner = r1 Dropper = gc LastTime = 1
  GoodTree = GoodTree ChangedTree = ChangedTree RefusedTree = RefusedTree MostParts = 2
  Volumes <- AllVolumes Orders = {1, 2, 3} Drives <- AllDrives Cases <- AllCases Nobody = Nobody
  KindsOf <- Kinds FileSize = 4 BufferSize = 2 BatchSize = 2 QueueSize = 2
  Downloads = {f1, f2} Joining = {s1}
  Datasets = {d1, d2} Asked <- AllAsks AtFirst <- AllHeads LastVersion = 2 Clashing = {2} MostIncidents = 1
  Spellings <- AllSpellings Nfc <- AllNfc Fold <- AllFolds Unsafe = {"x"} MostEntries = 3 MostBytes = 3
  MostNames = 8 Ratio = 1 RatioFloor = 2 HeadersCap = 2 Compressed = 2
  ListedVersions <- AllSnapshots ListedFirst <- AllHolds ListedLater <- AllEntries
  Hole = Hole Partial = Partial Absent = Absent None = None
INVARIANTS DamageIsNoticed UnpackedIsWhole HashedAsWritten RequestsGoOn ListsTheVersion UnpacksWithinLimits LinkedOrTold
PROPERTIES ObjectsStaySealed GcKeepsWhatIsNeeded SuccessInSync LockMovesWhenAsked FailedAddUndone
CHECK_DEADLOCK FALSE
