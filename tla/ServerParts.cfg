SPECIFICATION Spec
CONSTANTS
  Parts = {"viscosity", "lots", "scan", "sessions", "login", "codes", "roster", "race"}
  Accounts = {"a"}
  Workers = {"w"}
  Screens = {"s"}
  Idle = 1
  WorkerIdle = 1
  MaxTime = 3
  MaxTokens = 2
  MaxSent = 2
  Pages = {"s", "t"}
  MaxFailed = 3
  Window = 2
  Lockout = 1
  SessionIdle = 1
  MaxSteps = 4
  MaxIssued = 1
  Lots = {1}
  Typo = 0
  Totals = {1, 2}
  SecondIds = {1, 2}
  Requests = {1, 2}
  ScanLimit = 1
  Materials = {"m", "n"}
  Codes = {"c"}
  Products = {"p"}
  Lines = {1, 2}
  Names <- TwoNames
  ProductName <- NameOfA
  Erp <- NothingImported
  Spells <- BReadsAsC
  RMForm = {"c"}
  ERPForm = {"c"}
  Records = {"a", "t"}
  Tests = {"t"}
  Values = {1, 2}
  MaxDay = 2
  WorkerNames = {"kim", "lee"}
  BlendScreens = {"s"}
  RosterRequests = {1, 2}
  AdminAccount = TRUE
  MaxWorkers = 3
  MaxRecords = 1
  NoName = NoName
INVARIANTS SessionsEnd LotsAreTraced LoginIsFair RosterIsKept
PROPERTIES ReadingsAreKept CodesAreUnique
CHECK_DEADLOCK FALSE
