CONSTANTS
  TraceFields <- TwoFields
  Versions <- ThreeBuilds
  ShownFields <- ShownBy
  Raws <- SomeRaws
  Grants = {"acme", "platform"}
  MaxEntries = 3
  Window = 2
  MaxReads = 1
  AgentTools <- SomeTools
  AgentConfigs <- SomeConfigs
  MaxBatch = 1
  MaxTries = 2
  MaxWait = 2
  AnswerCost = 1
  MemoryRuns = {"first", "fork", "other"}
  RunOrg <- OwnerOf
  Account <- Mailboxes
  Renders <- Rendered
  Source <- ForkOf
  Verdicts <- RunVerdicts
  Configured = TRUE
  Keyed = TRUE
  Instances <- TwoRuns
  Workflow <- Triage
  Mounts = {"/"}
  Levels = {"error_rate"}
  MaxTime = 4
  MaxChanges = 3
  Files <- SomeFiles
  Production = TRUE
  MaxRuns = 3
  MaxEvents = 3
  MaxBoots = 2
  Users = {"ann", "root"}
  Home <- HomeOf
  Admins = {"root"}
  OrgAdmins = {"ann"}
  Shapes = {"chain"}
  Names = {"w"}
  Clients = {"c1", "c2"}
  MaxInstances = 2
  MaxCalls = 2
  MaxCrashes = 1
  Movers <- FileMovers
  Beside <- FileRuns
  MoverConfig <- FileConfigs
  MoverDisk <- FileDisk
  MoverCategories <- FileCategories
  MoverMembers <- FileMembers
  MoverBudgets <- FileBudgets
  PageSteps = {"narrow", "wide"}
  Hosts = {"on", "off"}
  Restricted = {"narrow"}
  AllowedHosts <- NarrowHosts
  MaxPages = 3
  MaxToolCalls = 1
  MaxHops = 1
  FunctionCalls <- EveryCall
  TraceAssets <- EveryDocument
  MaxArity = 2
  SizePowers = {1, 10, 100, 1000}
  TraceKeys <- AnyKey
  Nobody = "nobody"
  MaxFaults = 1
SPECIFICATION Spec
CHECK_DEADLOCK FALSE
INVARIANTS   OutputsAreAccountedFor RawReadsAreGoverned  ActionsAreBounded CompletedIsEarned MemoryIsAccountedFor    BrowserIsGoverned
