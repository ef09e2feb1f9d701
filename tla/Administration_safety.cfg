SPECIFICATION AdministrationSpec
CONSTANTS
  Parts = {"ops", "restore", "backups", "admin", "access", "analytics", "egress", "database", "mcp"}
  ChatNames = {"c1", "c2"}
  Texts = {"x", "y"}
  Starts <- OnlyFilled
  MaxRows = 2
  MaxCalls = 2
  SectionChoices <- OneOrAll
  MaxSaved = 3
  Hosts = {"api", "worker"}
  Configurations = {1, 2}
  MaxBackups = 2
  MaxDue = 2
  MaxTroubles = 1
  Browsers = {b1, b2}
  RpHosts = {"h1"}
  Passkeys = {"k1"}
  Counting = {"k1"}
  AdminNames = {"admin"}
  Passwords = {"x"}
  SessionLife = 1
  ChallengeLife = 1
  MaxRotations = 2
  MaxCeremonies = 3
  MaxHour = 1
  MaxFileLosses = 1
  Requests = {q1, q2}
  Grants <- AllOrReading
  MaxTokens = 1
  MaxArrivals = 3
  AskedAreas = {"session", "tokens", "mcp", "config"}
  Targets = {1, 2}
  MaxRuns = 2
  MaxBusFailures = 1
  MaxJobLosses = 1
  EgressCalls = {e1, e2}
  Providers = {"openvpn"}
  MaxEgressCalls = 2
  MaxTunnelChanges = 2
  MaxPatches = 2
  MaxUploads = 1
  Writers = {w1}
  MaxItems = 2
  MaxSettingsPatches = 3
  MaxImports = 1
  MaxStarts = 1
  McpCalls = {m1, m2}
  Places = {"d1"}
  HistoryRows = {"h1", "h2"}
  MaxMcpCalls = 2
  MaxFailures = 1
  MaxMcpEdits = 1
  Chats = {"c1", "c2"}
  NoChat = "none"
  Titles = {"t1", "t2"}
  NoTitle = "none"
  Askers = {a1, a2}
  MaxDests = 2
  Feed <- Renamed
  MaxRecs = 2
  MaxEdits = 2
CHECK_DEADLOCK FALSE
INVARIANTS
  AdministrationTypeOK
  RecommendationsExplained
  
  BackupRunsExplained
  SessionsEndWithTheirCredentials
  PasskeyAnswersServeOnce
  
  RefreshRunsExplained
  
  NothingLostUnexplained
  ProcessesAgree
  
PROPERTIES
  DestinationsKeepTheirChat
  
