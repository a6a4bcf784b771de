SPECIFICATION EitherSpec
CONSTANTS
  v1 = v1 v2 = v2
  Plain = Plain Unknown = Unknown Many = Many Deep = Deep Bad = Bad Broken = Broken Later = Later Unset = Unset
  WrittenLocks <- HeldLocks TypedLines <- Lines
  Versions = {v1, v2}
  Links <- AllLinks
  MostStreams = 3
  Piece = 1
  MostFailures = 2
  None = None
  Hole = Hole
INVARIANTS OneVersion SharesHold BlamedRightly PlansWhatFits ReadsAsMeant
PROPERTY EveryDownloadEnds
