SPECIFICATION FairSpec
CONSTANTS
  pA = pA
  pB = pB
  claude = claude
  codex = codex
  ticker = ticker
  request = request
  Projects <- OneProject
  Providers <- OneProvider
  Claude = claude
  Tickers <- TheTicker
  Requests <- TheRequest
  NoProvider = NoProvider
  NoProject = NoProject
  MaxBatchSize = 2
  MaxLines = 3
  MaxRead = 2
  MaxLostReplies = 1
INVARIANTS
  TypeOK
  OwnedOnce
  NoResend
  
PROPERTIES Drains 
