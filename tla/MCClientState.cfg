\* Traffic is explored profile by profile (MCProfiles); every number is a bound.
SPECIFICATION Spec
CONSTANTS
  t1 = t1  t2 = t2  u1 = u1  u2 = u2  m1 = m1  m2 = m2
  NoTool = NoTool  NoMsg = NoMsg
  TaskIds = {t1, t2}
  ToolOf <- MCToolOf
  TasksCap = 1
  OrphanTtl = 1
  MsgIds = {m1, m2}
  Blocks = {0}
  BlockKinds = {"text", "tool_use"}
  BashTexts <- MCBashTexts
  HooksCap = 2
  Profiles <- MCProfiles
  MaxChild = 2
  MaxNow = 1
  MaxAgentFrames = 3
  MaxArrivals = 5
  MaxIssued = 2
  MaxRequests = 2
  MaxHooks = 3
  MaxChunks = 1
INVARIANTS
  TypeOK
  SubAgentFramesSafe
  TimelineSafe
  PermissionsSafe
  ShellSafe
PROPERTIES
  StepsSafe
CHECK_DEADLOCK FALSE
