SPECIFICATION EitherSpec
CONSTANTS
  v1 = v1 v2 = v2
  Plain = Plain Unknown = Unknown Many = Many Deep = Deep Bad = Bad Broken = Broken Later = Later Unset = Unset
  WrittenLocks <- HeldLocks TypedLines <- Lines
  Versions = {v1, v2}
  Links <- StalledLink
  MostStreams = 2
  Piece = 1
  MostFailures = 2
  None = None
  Hole = Hole
INVARIANT OneVersion
