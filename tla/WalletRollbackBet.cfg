SPECIFICATION MCSpec
CONSTANTS
  Users = {u1}
  Types = {main, bonus}
  MAIN = main
  House = house
  Keys = {k1}
  NoKey = nokey
  Refs = {r1}
  NoRef = noref
  Amounts = {1, 2}
  MaxTxns = 5
INVARIANT
  RollbackReturnsStake
