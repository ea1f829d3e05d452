SPECIFICATION MCSpec
CONSTANTS
  Starters = {"s1", "s2"}
  Enders = {"e1", "e2"}
  Texts <- AllTexts
  MaxJudged = 1
INVARIANTS
  ProcessSafe
  FramesKept
PROPERTIES
  CallsSettle
CHECK_DEADLOCK FALSE
