SPECIFICATION MCSpec
CONSTANTS
  Users = {u1}
  Types = {main, bonus}
  MAIN = main
  House = house
  Keys = {k1}
  NoKey = nokey
  Refs = {r1, r2}
  NoRef = noref
  Amounts = {1, 2}
  MaxTxns = 5
INVARIANTS
  TypeOK
  SettledOnce
  LedgerExplainsBalance
  BooksBalance
  StatementEndsAtTotal
PROPERTIES
  RecordedForGood
  ImplementsCore
SYMMETRY RoundSymmetry
