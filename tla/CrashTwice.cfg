CHECK_DEADLOCK FALSE
CONSTANTS
  Players = {p1}
  Bust = bust
  Bets <- MCBets
  Multipliers = {2}
  CrashPoint <- MCCrashPoint
  MaxResults = 2
SPECIFICATION Spec
INVARIANT RoundResolvedOnce
