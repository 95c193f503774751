SPECIFICATION Spec
CONSTANTS
  pA = pA
  pB = pB
  claude = claude
  codex = codex
  ticker = ticker
  request = request
  Projects <- TwoProjects
  Providers <- OneProvider
  Claude = claude
  Tickers <- TheTicker
  Requests <- NoRequest
  NoProvider = NoProvider
  NoProject = NoProject
  MaxBatchSize = 3
  MaxLines = 3
  MaxRead = 3
  MaxLostReplies = 1
SYMMETRY ProjectSymmetry
INVARIANTS
  InOrder
  RightProject
