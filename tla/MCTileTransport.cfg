\* A link that congests and recovers, stale frames, a full encoded queue, tiles switched off and on, the viewer back again.
SPECIFICATION UndamagedSpec
CONSTANTS
  NumTiles = 2
  Content = {a, b}
  Sizes = {s1}
  Unsent = Unsent
  NoSize = NoSize
  NoImage = NoImage
  RawCap = 2
  KeepRaw = 0
  EncodedCap = 1
  TileCap = 1
  BudgetMin = 1
  BudgetMax = 2
  Links = {"congested", "healthy"}
  FastEncoder = TRUE
  FastLink = TRUE
  FastRepair = FALSE
  FastViewer = TRUE
  Damage = {}
  MaySwitch = TRUE
INVARIANTS ChangesAreKnown SkippedTilesAreCorrect
VIEW Uncached
SYMMETRY AnyContent
CHECK_DEADLOCK FALSE
