SPECIFICATION Spec
CONSTANTS
  Codes = {c1, c2}
  Clients = {web, cli}
  Requests = {x1, x2}
  Scopes = {"read", "admin"}
  Connections = {"orders", "stock"}
  Names = {"agent", "robot"}
  NoKey = NoKey
  Configs <- MCConfigs
  NoRecord = NoRecord
  NoCode = NoCode
  TicksPerSecond = 2
  CodeTTL = 1
  AccessTTL = 3
  RefreshTTL = 4
  MaxTime = 4
  MaxTokens = 3
INVARIANTS
  TypeOK
  WithinConsent
  LifetimeKept
  RightsFollowConfig
PROPERTIES
  SingleUse
SYMMETRY Symmetry
CHECK_DEADLOCK FALSE
