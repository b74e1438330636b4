------------------------------ MODULE Balance ------------------------------
(* The balance algebra of packages/wallet-core/src/balance.ts.  Amounts are  *)
(* counted in the smallest money unit.  An operation the code makes throw is *)
(* one whose Can... guard is false.  Left out: `pending`, which no caller in *)
(* the repository moves, and `version`, which the database row keeps (see    *)
(* WalletTx).                                                                *)
EXTENDS Naturals

BalanceState == [available : Nat, locked : Nat]

emptyBalance == [available |-> 0, locked |-> 0]

total(s) == s.available + s.locked

credit(s, amount) == [s EXCEPT !.available = @ + amount]

(* Mutant: the overdraft check counts locked money as spendable.             *)
CanDebitOfTotal(s, amount) == amount <= total(s)

CanDebit(s, amount) == amount <= s.available

debit(s, amount) == [s EXCEPT !.available = @ - amount]

(* Reserving moves a stake from available to locked.                         *)
CanReserve(s, amount) == amount <= s.available

reserve(s, amount) ==
  [available |-> s.available - amount, locked |-> s.locked + amount]

(* Committing consumes a locked stake; releasing returns it to available.    *)
CanSettle(s, amount) == amount <= s.locked

(* Mutant: the stake is taken from available and stays locked.               *)
commitFromAvailable(s, amount) == [s EXCEPT !.available = @ - amount]

commitReserved(s, amount) == [s EXCEPT !.locked = @ - amount]

releaseReserved(s, amount) ==
  [available |-> s.available + amount, locked |-> s.locked - amount]
=============================================================================
