SPECIFICATION PartsSpec
CONSTANTS
  Parts = {"spellings"}
  r1 = r1
  r2 = r2
  Requests = {r1, r2}
  NoLeader = NoLeader
  TokenTTL = 2
  MaxPolls = 3
  MaxEdits = 1
  MaxTokens = 2
  Tickers = {"AAPL"}
  Numbers = {700, 8233, 82333}
  NoWord = NoWord
  MaxKeyEdits = 2
  Tables <- MCTables
  Answers <- MCAnswers
  MatchDays = 0
  Now = 3
  MaxJobs = 2
  MaxSyncs = 1
  NSymbols = 3
  Window = 2
  MaxCalls = 2
  Retries = 1
  Breaker = 2
  CallTimes <- Times
  OldRows <- MCOldRows
  SnapshotKeys = {1, 2}
  Figures = {1, 2}
  Currencies = {"USD", "CNY"}
  NoFigure = NoFigure
  MaxMerges = 2
  MaxWrites = 1
  Pipeline <- MCPipeline
  StaleAfter = 1
  Days = 2
  Markets = 1
  DERIVED_TABLES = {"earnings_institution_ratings"}
  MaxAudited = 4
CHECK_DEADLOCK FALSE
PROPERTY CurrencyTravels
