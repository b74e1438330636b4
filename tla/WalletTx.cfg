SPECIFICATION MCSpec
CONSTANTS
  u1 = u1
  bonus = bonus
  r1 = r1
  r2 = r2
  r3 = r3
  k1 = k1
  k2 = k2
  Users = {u1}
  Types = {main, bonus}
  MAIN = main
  House = house
  Keys = {k1, k2}
  NoKey = nokey
  Refs = {r1, r2, r3}
  NoRef = noref
  Amounts = {1, 2, 3}
  Procs = {p1, p2}
  NoProc = noproc
  Requests <- MCRequests
  IdOrder <- MCIdOrder
  MaxRetries = 2
  MaxTxns = 5
INVARIANTS
  TxTypeOK
  NoCircularWait
  DuplicatesAgree
  DoneIsRecorded
PROPERTIES
  ImplementsEngine
  RequestsEnd
