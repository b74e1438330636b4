CHECK_DEADLOCK FALSE
CONSTANTS
  Players = {p1}
  Bust = bust
  Bets <- MCBets
  Multipliers = {2, 3}
  CrashPoint <- MCCrashPoint
  MaxResults = 3
SPECIFICATION SocketSpec
PROPERTY RoundEnds
