SPECIFICATION MCSpec
CONSTANTS
  Pages = {p1, p2}
  NoRepo = NoRepo
  Setups <- MCSetups
  MaxInits = 2
  MaxFaults = 1
  Frames = {"text", "input", "output", "mergedText", "hidden"}
  GcSlack = 1
  MaxEntries = 4
  MaxRuns = 1
  MaxChunks = 1
  Docs <- MCDocs
  Words = {"x", "y"}
  CommandSets <- MCCommandSets
  MaxResults = 2
  MaxMentions = 2
  Tabs = {t1, t2}
  SessionIds = {"s1", "s2", "s3"}
  Configs <- MCConfigs
  CAP = 2
  MaxTouches = 4
INVARIANTS
  AppSafe
SYMMETRY Symmetric
CHECK_DEADLOCK FALSE
