SPECIFICATION MCSpec
CONSTANTS
  Wallets = {w1, w2}
  Keys = {k1}
  NoKey = nokey
  Amounts = {1, 2}
  MaxReservations = 3
  MaxDeposited = 4
INVARIANTS
  TypeOK
  isConserved
  LockedIsReserved
\* A player who lost all the money the bound lets in has nothing left to do.
CHECK_DEADLOCK FALSE
