CONSTANTS
  c1 = c1
  c2 = c2
  u1 = u1
  u2 = u2
  u3 = u3
  TCalls = {c1, c2}
  ACalls = {c1, c2}
  GCalls = {c1, c2}
  SCalls = {c1, c2}
  RCalls = {c1, c2}
  BCalls = {c1, c2}
  HCalls = {c1, c2}
  Users = {u1, u2, u3}
  Ranked = {u1, u2, u3}
  Nobody = nobody
  Nothing = nothing
  Setups <- MCSetups
  Fees = {1}
  Oversize = 4
  MaxScore = 2
  MayOverlap <- MCMayOverlap
  Scopes <- MCScopes
  MaxActive = 1
  MaxAttempts = 2
  Tables <- MCTables
  Pays <- MCPays
  Stakes = {1, 2}
  MaxHits = 1
  MaxRounds = 2
  Fixtures <- MCFixtures
  Feeds <- MCFeeds
  Books <- MCBooks
  MaxPayout = 6
  MaxSlips = 2
  Kinds = {"CASH", "BONUS", "BADGE"}
  Wagers = {0, 1}
  MaxClaims = 1
  MaxBonuses = 1
  Scores = {1, 2}
  MaxRuntimes = 3
SPECIFICATION ServicesSpec
SYMMETRY MCSymmetry
INVARIANT CancellationRefunds
CHECK_DEADLOCK FALSE
