\* Commands fail, reads end and the bounded changes run out: CHECK_DEADLOCK is off.
SPECIFICATION PartsSpec
CONSTANTS
  Dirs = {"main", "in", "beside"}
  Around <- MCAround
  Nowhere = Nowhere
  Commands = {c1, c2}
  Names = {1}
  BaseName <- MCNames
  Unnamed = Unnamed
  MaxSessions = 2
  MaxEvents = 3
  InitialDisks <- MCDisks
  InitialRegistries <- MCRegistries
  Requests = {r1, r2}
  Workspaces = {w1, w2}
  WorkspaceOf <- MCWorkspaceOf
  Nothing = Nothing
  Roots = {w1, w2}
  Versions = {1, 2, 3}
  Content <- MCContent
  Scopes <- MCScopes
  MaxMoves = 2
  PageRows = {1, 2}
  EndLines = {3}
  PageBytes = {2, 3}
  BulkBytes = {12, 14, 19}
  BulkFiles = 3
  Owners = {w1, w2}
  Promisors = {w2}
  Gone = Gone
  AnyWorkspace = AnyWorkspace
  NotFound = NotFound
  TextBytes = 4
  AnswerBytes = 6
  ScanRows = 4
  SearchBytes = 6
  HardLines = 2
  WalkSlack = 1
  BatchRows = 2
  Envelope = 2
  Overhead = 1
  Refusal = 2
  Slack = 1
  Least = 1
SYMMETRY MCSymmetry
CONSTRAINTS
  RemoteCallsAlone
  OneSource
INVARIANTS
  SessionsAreAccounted
  TargetsFit
  PagesFit
  EndedReadIsComplete
  AnswerFits
  EveryPageBrings
  StatusIsCurrent
  ApprovalsAreSettled
CHECK_DEADLOCK FALSE
