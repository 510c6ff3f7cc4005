SPECIFICATION Spec
CONSTANTS
  Codex = codexTool  ClaudeCode = claudeTool
  codexTool = codexTool  claudeTool = claudeTool  sess = sess
  r1 = r1  r2 = r2  h1 = h1  h2 = h2  s1 = s1  d1 = d1  d2 = d2
  w1 = w1  w2 = w2  c1 = c1
  None = None  NoCandidate = NoCandidate
  SessionIds = {sess}
  ApprovalKeys <- Keys  InputKeys = {}  OtherKeys = {}
  ActiveMissedThreshold = 2
  Tools = {codexTool}
  Requests = {r1, r2}  RequestInfo <- RelayInfos  Fingerprints <- BothFingerprints
  Hooks = {h1}  Relays = {s1}  RequestOf <- RelayRequestOf
  Deciders = {d1, d2}  DecisionOf <- RelayDecisionOf
  Watchers = {w1}  ReportOf <- RelayReportOf
  UiCommands = {}
  ProxyStaleAfter = 0  RecentEmissionTtl = 1  ActiveTtl = 2  InactiveTtl = 1
  WatcherApprovalDelay = 1  MaxTime = 1
INVARIANTS DecidedReachesCodex
CHECK_DEADLOCK FALSE
