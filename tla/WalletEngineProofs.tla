------------------------- MODULE WalletEngineProofs -------------------------
(* Proofs about WalletEngine, for any players, wallet types, keys and        *)
(* amounts.                                                                  *)
EXTENDS WalletEngine, SequenceTheorems, SumProofs

(* What appending one or two rows to a table does to its type and entries.   *)
LEMMA OneRow ==
  ASSUME NEW S, NEW s \in Seq(S), NEW e
  PROVE  /\ e \in S => Append(s, e) \in Seq(S)
         /\ DOMAIN s = 1 .. Len(s)
         /\ Len(s) \in Nat
         /\ Len(Append(s, e)) = Len(s) + 1
         /\ DOMAIN Append(s, e) = DOMAIN s \cup {Len(s) + 1}
         /\ \A i \in DOMAIN s : Append(s, e)[i] = s[i]
         /\ Append(s, e)[Len(s) + 1] = e
         /\ s \o <<e>> = Append(s, e)
<1>1. s \in Seq(S \cup {e})
  OBVIOUS
<1> QED
  BY <1>1

(* The same of two rows.                                                    *)
LEMMA TwoRows ==
  ASSUME NEW S, NEW s \in Seq(S), NEW d, NEW e
  PROVE  /\ d \in S /\ e \in S => s \o <<d, e>> \in Seq(S)
         /\ DOMAIN s = 1 .. Len(s)
         /\ Len(s) \in Nat
         /\ Len(s \o <<d, e>>) = Len(s) + 2
         /\ DOMAIN (s \o <<d, e>>) = DOMAIN s \cup {Len(s) + 1, Len(s) + 2}
         /\ \A i \in DOMAIN s : (s \o <<d, e>>)[i] = s[i]
         /\ (s \o <<d, e>>)[Len(s) + 1] = d
         /\ (s \o <<d, e>>)[Len(s) + 2] = e
<1>1. s \in Seq(S \cup {d, e}) /\ <<d, e>> \in Seq(S \cup {d, e})
  OBVIOUS
<1> QED
  BY <1>1

(* The balance operations keep both parts natural and move the total by the  *)
(* amount they should.                                                       *)
LEMMA BalanceMoves ==
  ASSUME NEW s \in BalanceState, NEW a \in Nat
  PROVE  /\ credit(s, a) \in BalanceState
         /\ total(credit(s, a)) = total(s) + a
         /\ CanDebit(s, a) => /\ debit(s, a) \in BalanceState
                              /\ total(debit(s, a)) = total(s) - a
         /\ CanReserve(s, a) => /\ reserve(s, a) \in BalanceState
                                /\ total(reserve(s, a)) = total(s)
         /\ CanSettle(s, a) => /\ commitReserved(s, a) \in BalanceState
                               /\ total(commitReserved(s, a)) = total(s) - a
                               /\ releaseReserved(s, a) \in BalanceState
                               /\ total(releaseReserved(s, a)) = total(s)
<1>1. s.available \in Nat /\ s.locked \in Nat
  BY DEF BalanceState
<1>2. /\ credit(s, a) \in BalanceState
      /\ total(credit(s, a)) = total(s) + a
  BY <1>1 DEF BalanceState, credit, total
<1>3. CanDebit(s, a) => /\ debit(s, a) \in BalanceState
                        /\ total(debit(s, a)) = total(s) - a
  BY <1>1 DEF BalanceState, CanDebit, debit, total
<1>4. CanReserve(s, a) => /\ reserve(s, a) \in BalanceState
                          /\ total(reserve(s, a)) = total(s)
  BY <1>1 DEF BalanceState, CanReserve, reserve, total
<1>5. CanSettle(s, a) => /\ commitReserved(s, a) \in BalanceState
                         /\ total(commitReserved(s, a)) = total(s) - a
  BY <1>1 DEF BalanceState, CanSettle, commitReserved, total
<1>6. CanSettle(s, a) => /\ releaseReserved(s, a) \in BalanceState
                         /\ total(releaseReserved(s, a)) = total(s)
  BY <1>1 DEF BalanceState, CanSettle, releaseReserved, total
<1> QED
  BY <1>2, <1>3, <1>4, <1>5, <1>6

(* What a balance is worth is a natural number.                              *)
LEMMA TotalIsNat == \A s \in BalanceState : total(s) \in Nat
  BY DEF BalanceState, total

(* The row of a typed movement is a row of wallet_transaction.               *)
LEMMA RowTyped ==
  ASSUME NEW w \in Wallets, NEW type \in TypeCodes, NEW a \in Amounts,
         NEW s \in BalanceState, NEW t \in BalanceState,
         NEW key \in Keys \cup {NoKey}, NEW ref \in Reference, NEW rel \in Nat
  PROVE  Row(w, type, a, s, t, key, ref, rel) \in Txn
  BY TotalIsNat DEF Row, Txn

(* A ledger posting keeps the books typed.                                   *)
LEMMA PostTyped ==
  ASSUME NEW b \in [Accounts -> [play : Int, cash : Int]],
         NEW from \in Accounts, NEW to \in Accounts, NEW a \in Nat
  PROVE  /\ postPlay(b, from, to, a) \in [Accounts -> [play : Int, cash : Int]]
         /\ postCash(b, from, to, a) \in [Accounts -> [play : Int, cash : Int]]
  BY DEF postPlay, postCash
-----------------------------------------------------------------------------
(* Every step keeps every table typed: in particular no balance ever becomes *)
(* negative, whatever a rollback or a settlement takes.                      *)
THEOREM TypeCorrect == Spec => []TypeOK
<1> USE WalletEngineAssumption
<1>1. Init => TypeOK
  BY DEF Init, TypeOK, emptyBalance, BalanceState
<1>2. TypeOK /\ [Next]_vars => TypeOK'
  <2> SUFFICES ASSUME TypeOK, [Next]_vars
               PROVE  TypeOK'
    OBVIOUS
  <2>t. /\ \A a \in Amounts : a \in Nat
        /\ AutoRef \in Reference
        /\ Wallets \subseteq Accounts
        /\ House \in Accounts
        /\ \A w \in Wallets : balance[w] \in BalanceState
        /\ Len(txns) \in Nat
        /\ \A u \in Users, t \in Types : <<u, t>> \in Wallets
        /\ TypeCodes = {"CREDIT", "DEBIT", "RESERVE", "GAME_BET", "GAME_WIN",
                        "RESERVE_RELEASE", "TRANSFER_OUT", "TRANSFER_IN", "ROLLBACK"}
    <3>1. AutoRef \in Reference
      BY DEF AutoRef, Reference
    <3>2. \A u \in Users, t \in Types : <<u, t>> \in Wallets
      BY DEF Wallets
    <3>3. Wallets \subseteq Accounts /\ House \in Accounts
      BY DEF Accounts
    <3>4. Len(txns) \in Nat /\ \A w \in Wallets : balance[w] \in BalanceState
      BY DEF TypeOK
    <3> QED
      BY <3>1, <3>2, <3>3, <3>4 DEF TypeCodes
  <2>1. ASSUME NEW w \in Wallets, NEW a \in Amounts, NEW k \in Keys \cup {NoKey},
               Credit(w, a, k)
        PROVE  TypeOK'
    <3> DEFINE next == credit(balance[w], a)
    <3>1. next \in BalanceState
      BY <2>t, BalanceMoves
    <3>2. Row(w, "CREDIT", a, balance[w], next, k, AutoRef, 0) \in Txn
      BY <2>t, <3>1, RowTyped
    <3>3. postCash(books, House, w, a) \in [Accounts -> [play : Int, cash : Int]]
      BY <2>t, PostTyped DEF TypeOK
    <3>4. txns' \in Seq(Txn)
      BY <2>1, <3>2, OneRow DEF TypeOK, Credit
    <3> QED
      BY <2>1, <3>1, <3>3, <3>4 DEF TypeOK, Credit
  <2>2. ASSUME NEW w \in Wallets, NEW a \in Amounts, NEW k \in Keys \cup {NoKey},
               Debit(w, a, k)
        PROVE  TypeOK'
    <3> DEFINE next == debit(balance[w], a)
    <3>1. next \in BalanceState
      BY <2>2, <2>t, BalanceMoves DEF Debit
    <3>2. Row(w, "DEBIT", a, balance[w], next, k, AutoRef, 0) \in Txn
      BY <2>t, <3>1, RowTyped
    <3>3. postCash(books, w, House, a) \in [Accounts -> [play : Int, cash : Int]]
      BY <2>t, PostTyped DEF TypeOK
    <3>4. txns' \in Seq(Txn)
      BY <2>2, <3>2, OneRow DEF TypeOK, Debit
    <3> QED
      BY <2>2, <3>1, <3>3, <3>4 DEF TypeOK, Debit
  <2>3. ASSUME NEW u \in Users, NEW a \in Amounts, NEW ref \in Refs,
               NEW k \in Keys \cup {NoKey}, Reserve(u, a, ref, k)
        PROVE  TypeOK'
    <3> DEFINE w == <<u, MAIN>>
               next == reserve(balance[w], a)
               fund == [wallet |-> w, amount |-> a, reason |-> ref, status |-> "LOCKED"]
    <3>1. w \in Wallets /\ next \in BalanceState
      BY <2>3, <2>t, BalanceMoves DEF Reserve
    <3>2. <<"stake", ref>> \in Reference
      BY DEF Reference
    <3>3. Row(w, "RESERVE", a, balance[w], next, k, <<"stake", ref>>, 0) \in Txn
      BY <2>t, <3>1, <3>2, RowTyped
    <3>4. fund \in LockedFund
      BY <3>1 DEF LockedFund
    <3> QED
      BY <2>3, <2>t, <3>1, <3>3, <3>4, OneRow DEF TypeOK, Reserve
  <2>4. ASSUME NEW i \in DOMAIN lockedFunds, NEW win \in Amounts \cup {0},
               NEW k \in Keys \cup {NoKey}, CommitReservation(i, win, k)
        PROVE  TypeOK'
    <3> DEFINE r     == lockedFunds[i]
               w     == r.wallet
               spent == commitReserved(balance[w], r.amount)
               next  == IF win > 0 THEN credit(spent, win) ELSE spent
               bet   == Row(w, "GAME_BET", r.amount, balance[w], next, k,
                            <<"bet", r.reason>>, 0)
               win0  == Row(w, "GAME_WIN", win, next, next, NoKey,
                            <<"win", r.reason>>, 0)
               won   == [win0 EXCEPT !.before = r.amount]
               paid  == postPlay(books, w, House, r.amount)
    <3>0. r \in LockedFund
      BY DEF TypeOK
    <3>1. /\ w \in Wallets
          /\ r.amount \in Amounts
          /\ <<"bet", r.reason>> \in Reference
          /\ <<"win", r.reason>> \in Reference
      BY <3>0 DEF LockedFund, Reference
    <3>2. spent \in BalanceState /\ next \in BalanceState
      BY <2>4, <2>t, <3>1, BalanceMoves DEF CommitReservation
    <3>3. bet \in Txn
      BY <2>t, <3>1, <3>2, RowTyped
    <3>4. win > 0 => won \in Txn
      <4>1. SUFFICES ASSUME win > 0 PROVE won \in Txn
        OBVIOUS
      <4>2. win0 \in Txn
        BY <4>1, <2>t, <3>1, <3>2, RowTyped
      <4> QED
        BY <4>2, <2>t, <3>1 DEF Txn
    <3>5. /\ paid \in [Accounts -> [play : Int, cash : Int]]
          /\ win > 0 =>
               postPlay(paid, House, w, win) \in [Accounts -> [play : Int, cash : Int]]
      BY <2>t, <3>1, PostTyped DEF TypeOK
    <3>6. txns' \in Seq(Txn)
      <4>1. CASE win > 0
        BY <4>1, <2>4, <3>3, <3>4, TwoRows DEF TypeOK, CommitReservation
      <4>2. CASE ~(win > 0)
        BY <4>2, <2>4, <3>3, OneRow DEF TypeOK, CommitReservation
      <4> QED
        BY <4>1, <4>2
    <3>7. lockedFunds' \in Seq(LockedFund)
      <4>1. [r EXCEPT !.status = "RELEASED"] \in LockedFund
        BY <3>0 DEF LockedFund
      <4> QED
        BY <4>1, <2>4 DEF TypeOK, CommitReservation, Resolved
    <3>8. balance' \in [Wallets -> BalanceState]
      BY <2>4, <3>1, <3>2 DEF TypeOK, CommitReservation
    <3>9. books' \in [Accounts -> [play : Int, cash : Int]]
      BY <2>4, <3>5 DEF CommitReservation
    <3> QED
      BY <2>4, <3>6, <3>7, <3>8, <3>9 DEF TypeOK, CommitReservation
  <2>5. ASSUME NEW i \in DOMAIN lockedFunds, NEW k \in Keys \cup {NoKey},
               ReleaseReservation(i, k)
        PROVE  TypeOK'
    <3> DEFINE r    == lockedFunds[i]
               w    == r.wallet
               next == releaseReserved(balance[w], r.amount)
    <3>0. r \in LockedFund
      BY DEF TypeOK
    <3>1. /\ w \in Wallets
          /\ r.amount \in Amounts
          /\ <<"release", r.reason>> \in Reference
      BY <3>0 DEF LockedFund, Reference
    <3>2. next \in BalanceState
      BY <2>5, <2>t, <3>1, BalanceMoves DEF ReleaseReservation
    <3>3. Row(w, "RESERVE_RELEASE", r.amount, balance[w], next, k,
              <<"release", r.reason>>, 0) \in Txn
      BY <2>t, <3>1, <3>2, RowTyped
    <3>4. [r EXCEPT !.status = "RELEASED"] \in LockedFund
      BY <3>0 DEF LockedFund
    <3>5. lockedFunds' \in Seq(LockedFund)
      BY <2>5, <3>4 DEF TypeOK, ReleaseReservation, Resolved
    <3> QED
      BY <2>5, <3>1, <3>2, <3>3, <3>5, OneRow DEF TypeOK, ReleaseReservation
  <2>6. ASSUME NEW u \in Users, NEW f \in Types, NEW t \in Types, NEW a \in Amounts,
               NEW k \in Keys \cup {NoKey}, Transfer(u, f, t, a, k)
        PROVE  TypeOK'
    <3> DEFINE from == <<u, f>>
               to   == <<u, t>>
               nextFrom == debit(balance[from], a)
               nextTo   == credit(balance[to], a)
               out == Row(from, "TRANSFER_OUT", a, balance[from], nextFrom, k, AutoRef, 0)
               in  == Row(to, "TRANSFER_IN", a, balance[to], nextTo, NoKey, AutoRef,
                          Len(txns) + 1)
    <3>1. from \in Wallets /\ to \in Wallets
      BY <2>t
    <3>2. nextFrom \in BalanceState /\ nextTo \in BalanceState
      BY <2>6, <2>t, <3>1, BalanceMoves DEF Transfer
    <3>3. out \in Txn /\ in \in Txn
      <4>1. out \in Txn
        BY <2>t, <3>1, <3>2, RowTyped
      <4>2. Len(txns) + 1 \in Nat
        BY <2>t
      <4>3. in \in Txn
        BY <2>t, <4>2, <3>1, <3>2, RowTyped
      <4> QED
        BY <4>1, <4>3
    <3>4. postCash(books, from, to, a) \in [Accounts -> [play : Int, cash : Int]]
      BY <2>t, <3>1, PostTyped DEF TypeOK
    <3>5. txns' \in Seq(Txn)
      <4>1. txns' = txns \o <<out, in>>
        BY <2>6 DEF Transfer
      <4> HIDE DEF out, in
      <4> QED
        BY <4>1, <3>3, TwoRows DEF TypeOK
    <3> QED
      BY <2>6, <3>1, <3>2, <3>4, <3>5 DEF TypeOK, Transfer
  <2>7. ASSUME NEW i \in DOMAIN txns, NEW k \in Keys \cup {NoKey}, Rollback(i, k)
        PROVE  TypeOK'
    <3> DEFINE t    == txns[i]
               w    == t.wallet
               next == IF wasDebit(t) THEN credit(balance[w], t.amount)
                                      ELSE debit(balance[w], t.amount)
    <3>1. t \in Txn /\ i \in Nat
      BY DEF TypeOK
    <3>2. w \in Wallets /\ t.amount \in Amounts
      BY <3>1 DEF Txn
    <3>3. next \in BalanceState
      BY <2>7, <2>t, <3>2, BalanceMoves DEF Rollback
    <3>4. Row(w, "ROLLBACK", t.amount, balance[w], next, k, AutoRef, i) \in Txn
      BY <2>t, <3>1, <3>2, <3>3, RowTyped
    <3>5. txns' \in Seq(Txn)
      BY <2>7, <3>4, OneRow DEF TypeOK, Rollback
    <3> QED
      BY <2>7, <3>2, <3>3, <3>5 DEF TypeOK, Rollback
  <2>8. ASSUME NEW w \in Wallets, NEW to \in {"ACTIVE", "FROZEN"}, SetStatus(w, to)
        PROVE  TypeOK'
    BY <2>8 DEF TypeOK, SetStatus
  <2>9. CASE UNCHANGED vars
    BY <2>9 DEF TypeOK, vars
  <2> QED
    BY <2>1, <2>2, <2>3, <2>4, <2>5, <2>6, <2>7, <2>8, <2>9 DEF Next, PlayNext, Correction
<1> QED
  BY <1>1, <1>2, PTL DEF Spec
-----------------------------------------------------------------------------
(* Rows are only appended: what each operation does to wallet_transaction.   *)
LEMMA RowsStay ==
  ASSUME TypeOK, [Next]_vars
  PROVE  /\ Len(txns) <= Len(txns')
         /\ DOMAIN txns \subseteq DOMAIN txns'
         /\ \A i \in DOMAIN txns : txns'[i] = txns[i]
<1> USE DEF TypeOK
<1>1. ASSUME NEW e, txns' = Append(txns, e)
      PROVE  /\ Len(txns) <= Len(txns')
             /\ DOMAIN txns \subseteq DOMAIN txns'
             /\ \A i \in DOMAIN txns : txns'[i] = txns[i]
  BY <1>1, OneRow
<1>2. ASSUME NEW d, NEW e, txns' = txns \o <<d, e>>
      PROVE  /\ Len(txns) <= Len(txns')
             /\ DOMAIN txns \subseteq DOMAIN txns'
             /\ \A i \in DOMAIN txns : txns'[i] = txns[i]
  BY <1>2, TwoRows
<1>3. ASSUME NEW w \in Wallets, NEW a \in Amounts, NEW k \in Keys \cup {NoKey},
             Credit(w, a, k) \/ Debit(w, a, k)
      PROVE  \E e : txns' = Append(txns, e)
  BY <1>3 DEF Credit, Debit
<1>4. ASSUME NEW u \in Users, NEW a \in Amounts, NEW ref \in Refs,
             NEW k \in Keys \cup {NoKey}, Reserve(u, a, ref, k)
      PROVE  \E e : txns' = Append(txns, e)
  BY <1>4 DEF Reserve
<1>5. ASSUME NEW i \in DOMAIN lockedFunds, NEW win \in Amounts \cup {0},
             NEW k \in Keys \cup {NoKey}, CommitReservation(i, win, k)
      PROVE  \/ \E e : txns' = Append(txns, e)
             \/ \E d, e : txns' = txns \o <<d, e>>
  <2>1. \/ \E d, e : txns' = txns \o <<d, e>>
        \/ \E e : txns' = txns \o <<e>>
    BY <1>5 DEF CommitReservation
  <2>2. \A e : txns \o <<e>> = Append(txns, e)
    BY OneRow
  <2> QED
    BY <2>1, <2>2
<1>6. ASSUME NEW i \in DOMAIN lockedFunds, NEW k \in Keys \cup {NoKey},
             ReleaseReservation(i, k)
      PROVE  \E e : txns' = Append(txns, e)
  BY <1>6 DEF ReleaseReservation
<1>7. ASSUME NEW u \in Users, NEW f \in Types, NEW t \in Types, NEW a \in Amounts,
             NEW k \in Keys \cup {NoKey}, Transfer(u, f, t, a, k)
      PROVE  \E d, e : txns' = txns \o <<d, e>>
  BY <1>7 DEF Transfer
<1>8. ASSUME NEW i \in DOMAIN txns, NEW k \in Keys \cup {NoKey}, Rollback(i, k)
      PROVE  \E e : txns' = Append(txns, e)
  BY <1>8 DEF Rollback
<1>9. ASSUME NEW w \in Wallets, NEW to \in {"ACTIVE", "FROZEN"}, SetStatus(w, to)
      PROVE  txns' = txns
  BY <1>9 DEF SetStatus
<1>10. \/ \E e : txns' = Append(txns, e)
       \/ \E d, e : txns' = txns \o <<d, e>>
       \/ txns' = txns
  BY <1>3, <1>4, <1>5, <1>6, <1>7, <1>8, <1>9 DEF Next, PlayNext, Correction, vars
<1>11. CASE \E e : txns' = Append(txns, e)
  BY <1>1, <1>11
<1>12. CASE \E d, e : txns' = txns \o <<d, e>>
  BY <1>2, <1>12
<1>13. CASE txns' = txns
  BY <1>13
<1> QED
  BY <1>10, <1>11, <1>12, <1>13
-----------------------------------------------------------------------------
netOf(b, a) == b[a].play + b[a].cash

(* Posting p of b moves a between two accounts, and touches no other.        *)
Moved(p, b, from, to, a) ==
  /\ p \in [Accounts -> [play : Int, cash : Int]]
  /\ netOf(p, from) = netOf(b, from) - a
  /\ netOf(p, to) = netOf(b, to) + a
  /\ \A c \in Accounts \ {from, to} : netOf(p, c) = netOf(b, c)

(* A posting moves its amount from one account to the other, and no more.    *)
LEMMA PostMoves ==
  ASSUME NEW b \in [Accounts -> [play : Int, cash : Int]],
         NEW from \in Accounts, NEW to \in Accounts, from # to, NEW a \in Nat
  PROVE  /\ Moved(postPlay(b, from, to, a), b, from, to, a)
         /\ Moved(postCash(b, from, to, a), b, from, to, a)
  BY DEF postPlay, postCash, netOf, Moved

(* The rows that exempt a wallet, once written, stay.                        *)
LEMMA RollbackSticks ==
  ASSUME TypeOK, [Next]_vars, NEW w \in Wallets, RolledBack(w)
  PROVE  RolledBack(w)'
  BY RowsStay DEF RolledBack

LedgerInv == TypeOK /\ LedgerExplainsBalance

(* Every step of the engine keeps balances and ledger together.              *)
LEMMA LedgerStep == LedgerInv /\ TypeOK' /\ [Next]_vars => LedgerExplainsBalance'
<1> USE WalletEngineAssumption
<1> SUFFICES ASSUME LedgerInv, TypeOK', [Next]_vars,
                    NEW v \in Wallets, ~RolledBack(v)'
             PROVE  total(balance'[v]) = netOf(books', v)
  BY DEF LedgerExplainsBalance, net, netOf
<1>a. /\ TypeOK
      /\ total(balance[v]) = netOf(books, v)
  BY RollbackSticks DEF LedgerInv, LedgerExplainsBalance, net, netOf
<1>b. /\ \A a \in Amounts : a \in Nat
      /\ \A w \in Wallets : w \in Accounts /\ w # House
      /\ House \in Accounts
      /\ \A w \in Wallets : balance[w] \in BalanceState
      /\ \A u \in Users, t \in Types : <<u, t>> \in Wallets
      /\ books \in [Accounts -> [play : Int, cash : Int]]
      /\ \A a \in Accounts : netOf(books, a) \in Int
      /\ \A i \in DOMAIN lockedFunds :
            lockedFunds[i].wallet \in Wallets /\ lockedFunds[i].amount \in Amounts
      /\ \A i \in DOMAIN txns :
            txns[i].wallet \in Wallets /\ txns[i].amount \in Amounts
  <2>1. \A u \in Users, t \in Types : <<u, t>> \in Wallets
    BY DEF Wallets
  <2>2. \A i \in DOMAIN lockedFunds : lockedFunds[i] \in LockedFund
    BY <1>a DEF TypeOK
  <2>3. \A i \in DOMAIN txns : txns[i] \in Txn
    BY <1>a DEF TypeOK
  <2>4. \A a \in Accounts : netOf(books, a) \in Int
    BY <1>a DEF TypeOK, netOf
  <2> QED
    BY <1>a, <2>1, <2>2, <2>3, <2>4 DEF TypeOK, Accounts, LockedFund, Txn
<1>1. ASSUME NEW w \in Wallets, NEW a \in Amounts, NEW k \in Keys \cup {NoKey},
             Credit(w, a, k)
      PROVE  total(balance'[v]) = netOf(books', v)
  <2>1. /\ balance' = [balance EXCEPT ![w] = credit(balance[w], a)]
        /\ books' = postCash(books, House, w, a)
    BY <1>1 DEF Credit
  <2>2. total(credit(balance[w], a)) = total(balance[w]) + a
    BY <1>b, BalanceMoves
  <2>3. /\ netOf(books', w) = netOf(books, w) + a
        /\ \A c \in Accounts \ {House, w} : netOf(books', c) = netOf(books, c)
    <3>1. /\ books \in [Accounts -> [play : Int, cash : Int]]
          /\ w \in Accounts /\ House \in Accounts /\ w # House /\ a \in Nat
      BY <1>b
    <3>2. Moved(books', books, House, w, a)
      BY <2>1, <3>1, PostMoves
    <3> QED
      BY <3>2 DEF Moved
  <2> QED
    BY <1>a, <1>b, <2>1, <2>2, <2>3 DEF TypeOK
<1>2. ASSUME NEW w \in Wallets, NEW a \in Amounts, NEW k \in Keys \cup {NoKey},
             Debit(w, a, k)
      PROVE  total(balance'[v]) = netOf(books', v)
  <2>1. /\ balance' = [balance EXCEPT ![w] = debit(balance[w], a)]
        /\ books' = postCash(books, w, House, a)
    BY <1>2 DEF Debit
  <2>2. total(debit(balance[w], a)) = total(balance[w]) - a
    BY <1>2, <1>b, BalanceMoves DEF Debit
  <2>3. /\ netOf(books', w) = netOf(books, w) - a
        /\ \A c \in Accounts \ {House, w} : netOf(books', c) = netOf(books, c)
    <3>1. /\ books \in [Accounts -> [play : Int, cash : Int]]
          /\ w \in Accounts /\ House \in Accounts /\ w # House /\ a \in Nat
      BY <1>b
    <3>2. Moved(books', books, w, House, a)
      BY <2>1, <3>1, PostMoves
    <3> QED
      BY <3>2 DEF Moved
  <2> QED
    BY <1>a, <1>b, <2>1, <2>2, <2>3 DEF TypeOK
<1>3. ASSUME NEW u \in Users, NEW a \in Amounts, NEW ref \in Refs,
             NEW k \in Keys \cup {NoKey}, Reserve(u, a, ref, k)
      PROVE  total(balance'[v]) = netOf(books', v)
  <2> DEFINE w == <<u, MAIN>>
  <2>0. w \in Wallets
    BY <1>b
  <2>1. /\ balance' = [balance EXCEPT ![w] = reserve(balance[w], a)]
        /\ books' = books
        /\ CanReserve(balance[w], a)
    BY <1>3 DEF Reserve
  <2>2. total(reserve(balance[w], a)) = total(balance[w])
    BY <2>0, <2>1, <1>b, BalanceMoves
  <2> QED
    BY <1>a, <2>0, <2>1, <2>2 DEF TypeOK
<1>4. ASSUME NEW i \in DOMAIN lockedFunds, NEW win \in Amounts \cup {0},
             NEW k \in Keys \cup {NoKey}, CommitReservation(i, win, k)
      PROVE  total(balance'[v]) = netOf(books', v)
  <2> DEFINE r     == lockedFunds[i]
             w     == r.wallet
             spent == commitReserved(balance[w], r.amount)
             paid  == postPlay(books, w, House, r.amount)
  <2>0. w \in Wallets /\ r.amount \in Nat
    BY <1>b
  <2>1. spent \in BalanceState /\ total(spent) = total(balance[w]) - r.amount
    BY <1>4, <2>0, <1>b, BalanceMoves DEF CommitReservation
  <2>2. /\ paid \in [Accounts -> [play : Int, cash : Int]]
        /\ netOf(paid, w) = netOf(books, w) - r.amount
        /\ \A c \in Accounts \ {w, House} : netOf(paid, c) = netOf(books, c)
    <3>1. /\ books \in [Accounts -> [play : Int, cash : Int]]
          /\ w \in Accounts /\ House \in Accounts /\ w # House
      BY <1>b, <2>0
    <3>2. Moved(paid, books, w, House, r.amount)
      BY <2>0, <3>1, PostMoves
    <3> QED
      BY <3>2 DEF Moved
  <2>3. CASE win > 0
    <3>0. win \in Nat
      BY <2>3, <1>b
    <3>1. /\ balance' = [balance EXCEPT ![w] = credit(spent, win)]
          /\ books' = postPlay(paid, House, w, win)
      BY <2>3, <1>4 DEF CommitReservation
    <3>2. total(credit(spent, win)) = total(spent) + win
      BY <3>0, <2>1, BalanceMoves
    <3>3. /\ netOf(books', w) = netOf(paid, w) + win
          /\ \A c \in Accounts \ {House, w} : netOf(books', c) = netOf(paid, c)
      <4>1. w \in Accounts /\ House \in Accounts /\ w # House
        BY <1>b, <2>0
      <4> HIDE DEF paid
      <4>2. Moved(books', paid, House, w, win)
        BY <3>0, <3>1, <2>2, <4>1, PostMoves
      <4> QED
        BY <4>2 DEF Moved
    <3>4. CASE v = w
      BY <3>4, <3>0, <3>1, <3>2, <3>3, <2>0, <2>1, <2>2, <1>a, <1>b DEF TypeOK
    <3>5. CASE v # w
      BY <3>5, <3>1, <3>3, <2>0, <2>2, <1>a, <1>b DEF TypeOK
    <3> QED
      BY <3>4, <3>5
  <2>4. CASE ~(win > 0)
    <3>1. balance' = [balance EXCEPT ![w] = spent] /\ books' = paid
      BY <2>4, <1>4 DEF CommitReservation
    <3> QED
      BY <3>1, <2>0, <2>1, <2>2, <1>a, <1>b DEF TypeOK
  <2> QED
    BY <2>3, <2>4
<1>5. ASSUME NEW i \in DOMAIN lockedFunds, NEW k \in Keys \cup {NoKey},
             ReleaseReservation(i, k)
      PROVE  total(balance'[v]) = netOf(books', v)
  <2> DEFINE r == lockedFunds[i]
             w == r.wallet
  <2>0. w \in Wallets /\ r.amount \in Nat
    BY <1>b
  <2>1. /\ balance' = [balance EXCEPT ![w] = releaseReserved(balance[w], r.amount)]
        /\ books' = books
        /\ CanSettle(balance[w], r.amount)
    BY <1>5 DEF ReleaseReservation
  <2>2. total(releaseReserved(balance[w], r.amount)) = total(balance[w])
    BY <2>0, <2>1, <1>b, BalanceMoves
  <2> QED
    BY <1>a, <2>0, <2>1, <2>2 DEF TypeOK
<1>6. ASSUME NEW u \in Users, NEW f \in Types, NEW t \in Types, NEW a \in Amounts,
             NEW k \in Keys \cup {NoKey}, Transfer(u, f, t, a, k)
      PROVE  total(balance'[v]) = netOf(books', v)
  <2> DEFINE from == <<u, f>>
             to   == <<u, t>>
  <2>0. from \in Wallets /\ to \in Wallets
    BY <1>b
  <2>1. /\ from # to
        /\ CanDebit(balance[from], a)
        /\ balance' = [balance EXCEPT ![from] = debit(balance[from], a),
                                      ![to] = credit(balance[to], a)]
        /\ books' = postCash(books, from, to, a)
    BY <1>6 DEF Transfer
  <2>2. /\ total(debit(balance[from], a)) = total(balance[from]) - a
        /\ total(credit(balance[to], a)) = total(balance[to]) + a
    BY <2>0, <2>1, <1>b, BalanceMoves
  <2>3. /\ netOf(books', from) = netOf(books, from) - a
        /\ netOf(books', to) = netOf(books, to) + a
        /\ \A c \in Accounts \ {from, to} : netOf(books', c) = netOf(books, c)
    <3>1. from \in Accounts /\ to \in Accounts
      BY <2>0, <1>b
    <3> HIDE DEF from, to
    <3>2. Moved(books', books, from, to, a)
      BY <2>1, <3>1, <1>b, PostMoves
    <3> QED
      BY <3>2 DEF Moved
  <2> HIDE DEF from, to
  <2> QED
    BY <1>a, <1>b, <2>0, <2>1, <2>2, <2>3 DEF TypeOK
<1>7. ASSUME NEW i \in DOMAIN txns, NEW k \in Keys \cup {NoKey}, Rollback(i, k)
      PROVE  total(balance'[v]) = netOf(books', v)
  <2> DEFINE w == txns[i].wallet
  <2>1. /\ books' = books
        /\ \A x \in Wallets : x # w => balance'[x] = balance[x]
    BY <1>7, <1>a DEF Rollback, TypeOK
  <2>2. v # w
    <3> SUFFICES ASSUME v = w PROVE FALSE
      OBVIOUS
    <3>1. PICK e : txns' = Append(txns, e) /\ e.wallet = w /\ e.type = "ROLLBACK"
      BY <1>7 DEF Rollback, Row
    <3>2. RolledBack(v)'
      BY <3>1, <1>a, OneRow DEF RolledBack, TypeOK
    <3> QED
      BY <3>2
  <2> QED
    BY <2>1, <2>2, <1>a
<1>8. ASSUME NEW w \in Wallets, NEW to \in {"ACTIVE", "FROZEN"}, SetStatus(w, to)
      PROVE  total(balance'[v]) = netOf(books', v)
  BY <1>8, <1>a DEF SetStatus
<1>9. CASE UNCHANGED vars
  BY <1>9, <1>a DEF vars
<1> QED
  BY <1>1, <1>2, <1>3, <1>4, <1>5, <1>6, <1>7, <1>8, <1>9 DEF Next, PlayNext, Correction

(* Every wallet no rollback touched is explained by its ledger entries.      *)
THEOREM LedgerCorrect == Spec => []LedgerExplainsBalance
<1> USE WalletEngineAssumption
<1>1. Init => LedgerExplainsBalance
  BY DEF Init, LedgerExplainsBalance, net, total, emptyBalance, Accounts
<1>2. LedgerExplainsBalance /\ TypeOK /\ TypeOK' /\ [Next]_vars => LedgerExplainsBalance'
  BY LedgerStep DEF LedgerInv
<1> QED
  BY <1>1, <1>2, TypeCorrect, PTL DEF Spec
-----------------------------------------------------------------------------
(* What SettledOnce leaves out to be inductive: a reservation's stake row    *)
(* keeps its reference from being reserved again, and a round is resolved    *)
(* only if it was reserved.                                                  *)
StakeRecorded ==
  \A i \in DOMAIN lockedFunds : \E j \in DOMAIN txns :
    txns[j].reference = <<"stake", lockedFunds[i].reason>>

RoundReserved ==
  \A j \in DOMAIN txns, ref \in Refs :
    Resolves(j, ref) => \E i \in DOMAIN lockedFunds : lockedFunds[i].reason = ref

SettleInv == SettledOnce /\ StakeRecorded /\ RoundReserved

(* Rows of other references and untouched reservations keep it.              *)
LEMMA SettleUnmoved ==
  ASSUME TypeOK, SettleInv, [Next]_vars, lockedFunds' = lockedFunds,
         \A j \in DOMAIN txns' \ DOMAIN txns : txns'[j].reference = AutoRef
  PROVE  SettleInv'
<1>1. /\ DOMAIN txns \subseteq DOMAIN txns'
      /\ \A i \in DOMAIN txns : txns'[i] = txns[i]
  BY RowsStay
<1>2. \A j \in DOMAIN txns', kind \in {"bet", "release", "win"}, ref \in Refs :
        txns'[j].reference = <<kind, ref>> => j \in DOMAIN txns
  BY WalletEngineAssumption DEF AutoRef
<1>3. \A i \in DOMAIN lockedFunds : lockedFunds[i].reason \in Refs
  <2>1. \A i \in DOMAIN lockedFunds : lockedFunds[i] \in LockedFund
    BY DEF TypeOK
  <2> QED
    BY <2>1 DEF LockedFund
<1>4. \A j \in DOMAIN txns', ref \in Refs :
        Resolves(j, ref)' => j \in DOMAIN txns /\ Resolves(j, ref)
  BY <1>1, <1>2 DEF Resolves
<1>5. \A j \in DOMAIN txns, ref \in Refs : Resolves(j, ref) => Resolves(j, ref)'
  BY <1>1 DEF Resolves
<1>6. StakeRecorded'
  BY <1>1 DEF StakeRecorded, SettleInv
<1>7. RoundReserved'
  BY <1>4 DEF RoundReserved, SettleInv
<1>8. OpenIsUnresolved' /\ RoundsApart'
  BY <1>3, <1>4 DEF OpenIsUnresolved, RoundsApart, SettledOnce, SettleInv
<1>9. ClosedByOneRow'
  BY <1>1, <1>3, <1>4, <1>5 DEF ClosedByOneRow, SettledOnce, SettleInv
<1>10. WonIsBet'
  BY <1>1, <1>2 DEF WonIsBet, SettledOnce, SettleInv
<1> QED
  BY <1>6, <1>7, <1>8, <1>9, <1>10 DEF SettleInv, SettledOnce

(* A settlement resolves reservation i by one row, which a win may follow.   *)
LEMMA SettleResolved ==
  ASSUME TypeOK, SettleInv, [Next]_vars,
         NEW i \in DOMAIN lockedFunds, lockedFunds[i].status = "LOCKED",
         lockedFunds' = Resolved(i),
         NEW ref, ref = lockedFunds[i].reason,
         NEW j0 \in DOMAIN txns' \ DOMAIN txns, NEW kind \in {"bet", "release"},
         txns'[j0].reference = <<kind, ref>>,
         \A j \in DOMAIN txns' \ DOMAIN txns :
           j # j0 => txns'[j].reference = <<"win", ref>> /\ kind = "bet"
  PROVE  SettleInv'
<1>1. /\ DOMAIN txns \subseteq DOMAIN txns'
      /\ \A j \in DOMAIN txns : txns'[j] = txns[j]
  BY RowsStay
<1>2. /\ DOMAIN lockedFunds' = DOMAIN lockedFunds
      /\ \A j \in DOMAIN lockedFunds :
            /\ lockedFunds'[j].reason = lockedFunds[j].reason
            /\ j # i => lockedFunds'[j] = lockedFunds[j]
      /\ lockedFunds'[i].status = "RELEASED"
  <2>1. \A j \in DOMAIN lockedFunds : lockedFunds[j] \in LockedFund
    BY DEF TypeOK
  <2> QED
    BY <2>1 DEF Resolved, LockedFund
<1>3. \A j \in DOMAIN lockedFunds : lockedFunds[j].reason \in Refs
  <2>1. \A j \in DOMAIN lockedFunds : lockedFunds[j] \in LockedFund
    BY DEF TypeOK
  <2> QED
    BY <2>1 DEF LockedFund
<1>4. \A j \in DOMAIN lockedFunds : j # i => lockedFunds[j].reason # ref
  BY DEF SettleInv, SettledOnce, RoundsApart
<1>5. \A other : \A j \in DOMAIN txns' :
        Resolves(j, other)' <=>
          \/ j \in DOMAIN txns /\ Resolves(j, other)
          \/ j = j0 /\ other = ref
  BY <1>1 DEF Resolves
<1>6. \A j \in DOMAIN txns : ~Resolves(j, ref)
  BY DEF SettleInv, SettledOnce, OpenIsUnresolved
<1>7. OpenIsUnresolved'
  BY <1>2, <1>3, <1>4, <1>5 DEF OpenIsUnresolved, SettleInv, SettledOnce
<1>8. ClosedByOneRow'
  <2> SUFFICES ASSUME NEW n \in DOMAIN lockedFunds', lockedFunds'[n].status = "RELEASED"
               PROVE  \E j \in DOMAIN txns' :
                        /\ Resolves(j, lockedFunds[n].reason)'
                        /\ \A k \in DOMAIN txns' :
                             Resolves(k, lockedFunds[n].reason)' => k = j
    BY DEF ClosedByOneRow
  <2>0. lockedFunds'[n].reason = lockedFunds[n].reason
    BY <1>2
  <2>1. CASE n = i
    BY <2>0, <2>1, <1>5, <1>6 DEF Resolves
  <2>2. CASE n # i
    <3>1. /\ lockedFunds'[n] = lockedFunds[n]
          /\ lockedFunds[n].reason # ref
      BY <2>2, <1>2, <1>4
    <3>2. PICK j \in DOMAIN txns :
            /\ Resolves(j, lockedFunds[n].reason)
            /\ \A k \in DOMAIN txns : Resolves(k, lockedFunds[n].reason) => k = j
      BY <3>1, <1>2 DEF ClosedByOneRow, SettleInv, SettledOnce
    <3> QED
      BY <2>0, <3>1, <3>2, <1>1, <1>5 DEF Resolves
  <2> QED
    BY <2>1, <2>2
<1>9. RoundsApart'
  BY <1>2 DEF RoundsApart, SettleInv, SettledOnce
<1>10. WonIsBet'
  <2> SUFFICES ASSUME NEW j \in DOMAIN txns', NEW other \in Refs,
                      txns'[j].reference = <<"win", other>>
               PROVE  \E k \in DOMAIN txns' : txns'[k].reference = <<"bet", other>>
    BY DEF WonIsBet
  <2>1. CASE j \in DOMAIN txns
    BY <2>1, <1>1 DEF WonIsBet, SettleInv, SettledOnce
  <2>2. CASE j \notin DOMAIN txns
    BY <2>2
  <2> QED
    BY <2>1, <2>2
<1>11. StakeRecorded'
  <2>1. \A n \in DOMAIN lockedFunds : \E j \in DOMAIN txns' :
          txns'[j].reference = <<"stake", lockedFunds[n].reason>>
    BY <1>1 DEF StakeRecorded, SettleInv
  <2>2. \A n \in DOMAIN lockedFunds' :
          n \in DOMAIN lockedFunds /\ lockedFunds'[n].reason = lockedFunds[n].reason
    BY <1>2
  <2> QED
    BY <2>1, <2>2 DEF StakeRecorded
<1>12. RoundReserved'
  BY <1>2, <1>5 DEF RoundReserved, SettleInv
<1> QED
  BY <1>7, <1>8, <1>9, <1>10, <1>11, <1>12 DEF SettleInv, SettledOnce

(* The reference a row is given is the one it carries.                       *)
LEMMA RowReference ==
  \A w, type, a, s, t, key, ref, rel, b :
    /\ Row(w, type, a, s, t, key, ref, rel).reference = ref
    /\ [Row(w, type, a, s, t, key, ref, rel) EXCEPT !.before = b].reference = ref
  BY DEF Row

(* Every step of the engine keeps rounds settled once.                       *)
LEMMA SettleStep == TypeOK /\ SettleInv /\ [Next]_vars => SettleInv'
<1> SUFFICES ASSUME TypeOK, SettleInv, [Next]_vars
             PROVE  SettleInv'
  OBVIOUS
<1> USE DEF TypeOK
<1>1. ASSUME NEW w \in Wallets, NEW a \in Amounts, NEW k \in Keys \cup {NoKey},
             Credit(w, a, k) \/ Debit(w, a, k)
      PROVE  SettleInv'
  <2>1. /\ lockedFunds' = lockedFunds
        /\ \E e : txns' = Append(txns, e) /\ e.reference = AutoRef
    BY <1>1 DEF Credit, Debit, Row
  <2> QED
    BY <2>1, OneRow, SettleUnmoved
<1>2. ASSUME NEW u \in Users, NEW a \in Amounts, NEW ref \in Refs,
             NEW k \in Keys \cup {NoKey}, Reserve(u, a, ref, k)
      PROVE  SettleInv'
  <2> DEFINE new == Len(txns) + 1
             n0  == Len(lockedFunds) + 1
  <2>1. /\ \A j \in DOMAIN txns : txns[j].reference # <<"stake", ref>>
        /\ \E e : txns' = Append(txns, e) /\ e.reference = <<"stake", ref>>
        /\ \E e : /\ lockedFunds' = Append(lockedFunds, e)
                  /\ e.reason = ref
                  /\ e.status = "LOCKED"
    <3>1. /\ ReferenceFree(<<"stake", ref>>)
          /\ \E e : txns' = Append(txns, e) /\ e.reference = <<"stake", ref>>
      BY <1>2, RowReference DEF Reserve
    <3> DEFINE fund == [wallet |-> <<u, MAIN>>, amount |-> a, reason |-> ref,
                        status |-> "LOCKED"]
    <3>2. lockedFunds' = Append(lockedFunds, fund)
      BY <1>2 DEF Reserve
    <3>3. fund.reason = ref /\ fund.status = "LOCKED"
      OBVIOUS
    <3> HIDE DEF fund
    <3> QED
      BY <3>1, <3>2, <3>3 DEF ReferenceFree, AutoRef
  <2>2. /\ DOMAIN txns' = DOMAIN txns \cup {new}
        /\ \A j \in DOMAIN txns : txns'[j] = txns[j]
        /\ txns'[new].reference = <<"stake", ref>>
    BY <2>1, OneRow
  <2>3. /\ DOMAIN lockedFunds' = DOMAIN lockedFunds \cup {n0}
        /\ \A n \in DOMAIN lockedFunds : lockedFunds'[n] = lockedFunds[n]
        /\ lockedFunds'[n0].reason = ref
        /\ lockedFunds'[n0].status = "LOCKED"
    BY <2>1, OneRow
  <2>4. \A other : \A j \in DOMAIN txns' :
          Resolves(j, other)' <=> j \in DOMAIN txns /\ Resolves(j, other)
    BY <2>2 DEF Resolves
  <2>5. \A n \in DOMAIN lockedFunds : lockedFunds[n].reason # ref
    BY <2>1 DEF StakeRecorded, SettleInv
  <2>6. \A j \in DOMAIN txns : ~Resolves(j, ref)
    BY <2>5 DEF RoundReserved, SettleInv
  <2> HIDE DEF TypeOK, new, n0
  <2>7. OpenIsUnresolved'
    BY <2>3, <2>4, <2>6 DEF OpenIsUnresolved, SettleInv, SettledOnce
  <2>8. ClosedByOneRow'
    BY <2>2, <2>3, <2>4 DEF ClosedByOneRow, SettleInv, SettledOnce
  <2>9. RoundsApart'
    BY <2>3, <2>5 DEF RoundsApart, SettleInv, SettledOnce
  <2>10. WonIsBet'
    BY <2>2 DEF WonIsBet, SettleInv, SettledOnce
  <2>11. StakeRecorded'
    BY <2>2, <2>3 DEF StakeRecorded, SettleInv
  <2>12. RoundReserved'
    BY <2>3, <2>4 DEF RoundReserved, SettleInv
  <2> QED
    BY <2>7, <2>8, <2>9, <2>10, <2>11, <2>12 DEF SettleInv, SettledOnce
<1>3. ASSUME NEW i \in DOMAIN lockedFunds, NEW win \in Amounts \cup {0},
             NEW k \in Keys \cup {NoKey}, CommitReservation(i, win, k)
      PROVE  SettleInv'
  <2> DEFINE ref == lockedFunds[i].reason
             j0  == Len(txns) + 1
  <2>1. lockedFunds[i].status = "LOCKED" /\ lockedFunds' = Resolved(i)
    BY <1>3 DEF CommitReservation
  <2>2. \/ \E d, e : /\ txns' = txns \o <<d, e>>
                     /\ d.reference = <<"bet", ref>>
                     /\ e.reference = <<"win", ref>>
        \/ \E d : txns' = txns \o <<d>> /\ d.reference = <<"bet", ref>>
    <3> DEFINE r     == lockedFunds[i]
               spent == commitReserved(balance[r.wallet], r.amount)
               next  == IF win > 0 THEN credit(spent, win) ELSE spent
               bet   == Row(r.wallet, "GAME_BET", r.amount, balance[r.wallet], next,
                            k, <<"bet", ref>>, 0)
               won   == [Row(r.wallet, "GAME_WIN", win, next, next, NoKey,
                             <<"win", ref>>, 0) EXCEPT !.before = r.amount]
    <3>1. txns' = txns \o <<bet, won>> \/ txns' = txns \o <<bet>>
      BY <1>3 DEF CommitReservation
    <3>2. bet.reference = <<"bet", ref>> /\ won.reference = <<"win", ref>>
      BY RowReference
    <3> HIDE DEF bet, won
    <3> QED
      BY <3>1, <3>2
  <2>3. /\ j0 \in DOMAIN txns' \ DOMAIN txns
        /\ txns'[j0].reference = <<"bet", ref>>
        /\ \A j \in DOMAIN txns' \ DOMAIN txns :
             j # j0 => txns'[j].reference = <<"win", ref>>
    <3>1. CASE \E d, e : /\ txns' = txns \o <<d, e>>
                         /\ d.reference = <<"bet", ref>>
                         /\ e.reference = <<"win", ref>>
      BY <3>1, TwoRows
    <3>2. CASE \E d : txns' = txns \o <<d>> /\ d.reference = <<"bet", ref>>
      BY <3>2, OneRow
    <3> QED
      BY <2>2, <3>1, <3>2
  <2> HIDE DEF ref, j0
  <2>4. ref = lockedFunds[i].reason
    BY DEF ref
  <2> QED
    BY <2>1, <2>3, <2>4, SettleResolved
<1>4. ASSUME NEW i \in DOMAIN lockedFunds, NEW k \in Keys \cup {NoKey},
             ReleaseReservation(i, k)
      PROVE  SettleInv'
  <2> DEFINE ref == lockedFunds[i].reason
             j0  == Len(txns) + 1
  <2>1. /\ lockedFunds[i].status = "LOCKED"
        /\ lockedFunds' = Resolved(i)
        /\ \E d : txns' = Append(txns, d) /\ d.reference = <<"release", ref>>
    BY <1>4 DEF ReleaseReservation, Row
  <2>2. /\ j0 \in DOMAIN txns' \ DOMAIN txns
        /\ txns'[j0].reference = <<"release", ref>>
        /\ \A j \in DOMAIN txns' \ DOMAIN txns : j = j0
    BY <2>1, OneRow
  <2> HIDE DEF ref, j0
  <2>3. ref = lockedFunds[i].reason
    BY DEF ref
  <2> QED
    BY <2>1, <2>2, <2>3, SettleResolved
<1>5. ASSUME NEW u \in Users, NEW f \in Types, NEW t \in Types, NEW a \in Amounts,
             NEW k \in Keys \cup {NoKey}, Transfer(u, f, t, a, k)
      PROVE  SettleInv'
  <2>1. /\ lockedFunds' = lockedFunds
        /\ \E d, e : /\ txns' = txns \o <<d, e>>
                     /\ d.reference = AutoRef
                     /\ e.reference = AutoRef
    <3> DEFINE from == <<u, f>>
               to   == <<u, t>>
               out  == Row(from, "TRANSFER_OUT", a, balance[from],
                           debit(balance[from], a), k, AutoRef, 0)
               in   == Row(to, "TRANSFER_IN", a, balance[to],
                           credit(balance[to], a), NoKey, AutoRef, Len(txns) + 1)
    <3>1. lockedFunds' = lockedFunds /\ txns' = txns \o <<out, in>>
      BY <1>5 DEF Transfer
    <3>2. out.reference = AutoRef /\ in.reference = AutoRef
      BY RowReference
    <3> HIDE DEF out, in
    <3> QED
      BY <3>1, <3>2
  <2> QED
    BY <2>1, TwoRows, SettleUnmoved
<1>6. ASSUME NEW i \in DOMAIN txns, NEW k \in Keys \cup {NoKey}, Rollback(i, k)
      PROVE  SettleInv'
  <2>1. /\ lockedFunds' = lockedFunds
        /\ \E e : txns' = Append(txns, e) /\ e.reference = AutoRef
    BY <1>6, SMTT(30) DEF Rollback, Row
  <2> QED
    BY <2>1, OneRow, SettleUnmoved
<1>7. ASSUME NEW w \in Wallets, NEW to \in {"ACTIVE", "FROZEN"}, SetStatus(w, to)
      PROVE  SettleInv'
  BY <1>7, SettleUnmoved DEF SetStatus
<1>8. CASE UNCHANGED vars
  BY <1>8, SettleUnmoved DEF vars
<1> QED
  BY <1>1, <1>2, <1>3, <1>4, <1>5, <1>6, <1>7, <1>8 DEF Next, PlayNext, Correction

(* No reservation is ever settled twice, or settled and cancelled.           *)
THEOREM SettlementCorrect == Spec => []SettledOnce
<1>1. Init => SettleInv
  BY DEF Init, SettleInv, SettledOnce, OpenIsUnresolved, ClosedByOneRow,
         RoundsApart, WonIsBet, StakeRecorded, RoundReserved
<1>2. SettleInv => SettledOnce
  BY DEF SettleInv
<1> QED
  BY <1>1, <1>2, SettleStep, TypeCorrect, PTL DEF Spec
-----------------------------------------------------------------------------
(* The wallet a row is written for is the one it carries.                    *)
LEMMA RowWallet ==
  \A w, type, a, s, t, key, ref, rel, b :
    /\ Row(w, type, a, s, t, key, ref, rel).wallet = w
    /\ [Row(w, type, a, s, t, key, ref, rel) EXCEPT !.before = b].wallet = w
  BY DEF Row

NewRowOf(w) == \E j \in DOMAIN txns' \ DOMAIN txns : txns'[j].wallet = w

(* A step that appends a row of the wallet it moves is recorded ...          *)
LEMMA FirstRow ==
  ASSUME TypeOK, NEW w, NEW d, d.wallet = w,
         \/ txns' = Append(txns, d)
         \/ txns' = txns \o <<d>>
         \/ \E e : txns' = txns \o <<d, e>>
  PROVE  NewRowOf(w)
<1>1. txns \in Seq(Txn)
  BY DEF TypeOK
<1>2. ASSUME txns' = Append(txns, d)
      PROVE  NewRowOf(w)
  BY <1>1, <1>2, OneRow DEF NewRowOf
<1>3. txns \o <<d>> = Append(txns, d)
  BY <1>1, OneRow
<1>4. CASE \E e : txns' = txns \o <<d, e>>
  <2>1. PICK e : txns' = txns \o <<d, e>>
    BY <1>4
  <2>2. /\ Len(txns) + 1 \in DOMAIN txns' \ DOMAIN txns
        /\ txns'[Len(txns) + 1] = d
    BY <1>1, <2>1, TwoRows
  <2> QED
    BY <2>2 DEF NewRowOf
<1> QED
  BY <1>2, <1>3, <1>4

(* ... also when that row is the second of two.                              *)
LEMMA SecondRow ==
  ASSUME TypeOK, NEW w, NEW d, NEW e, e.wallet = w, txns' = txns \o <<d, e>>
  PROVE  NewRowOf(w)
<1>1. txns \in Seq(Txn)
  BY DEF TypeOK
<1>2. Len(txns) + 2 \in DOMAIN txns' \ DOMAIN txns /\ txns'[Len(txns) + 2] = e
  BY <1>1, TwoRows
<1> QED
  BY <1>2 DEF NewRowOf

(* A step that moves wallet w's balance writes a row of w, and a resolved    *)
(* reservation is not touched again.                                         *)
LEMMA RecordedStep ==
  ASSUME TypeOK, [Next]_vars
  PROVE  /\ \A w \in Wallets : balance'[w] # balance[w] => NewRowOf(w)
         /\ \A i \in DOMAIN lockedFunds :
              lockedFunds[i].status = "RELEASED" => lockedFunds'[i] = lockedFunds[i]
<1> DEFINE Goal ==
      /\ \A w \in Wallets : balance'[w] # balance[w] => NewRowOf(w)
      /\ \A i \in DOMAIN lockedFunds :
           lockedFunds[i].status = "RELEASED" => lockedFunds'[i] = lockedFunds[i]
<1>a. /\ balance \in [Wallets -> BalanceState]
      /\ \A u \in Users, t \in Types : <<u, t>> \in Wallets
  BY DEF TypeOK, Wallets
<1>1. ASSUME NEW w \in Wallets, NEW a \in Amounts, NEW k \in Keys \cup {NoKey},
             Credit(w, a, k)
      PROVE  Goal
  <2> DEFINE d == Row(w, "CREDIT", a, balance[w], credit(balance[w], a), k, AutoRef, 0)
  <2>1. /\ txns' = Append(txns, d)
        /\ balance' = [balance EXCEPT ![w] = credit(balance[w], a)]
        /\ lockedFunds' = lockedFunds
    BY <1>1 DEF Credit
  <2>2. d.wallet = w
    BY RowWallet
  <2> HIDE DEF d
  <2>3. NewRowOf(w)
    BY <2>1, <2>2, FirstRow
  <2> QED
    BY <1>a, <2>1, <2>3
<1>2. ASSUME NEW w \in Wallets, NEW a \in Amounts, NEW k \in Keys \cup {NoKey},
             Debit(w, a, k)
      PROVE  Goal
  <2> DEFINE d == Row(w, "DEBIT", a, balance[w], debit(balance[w], a), k, AutoRef, 0)
  <2>1. /\ txns' = Append(txns, d)
        /\ balance' = [balance EXCEPT ![w] = debit(balance[w], a)]
        /\ lockedFunds' = lockedFunds
    BY <1>2 DEF Debit
  <2>2. d.wallet = w
    BY RowWallet
  <2> HIDE DEF d
  <2>3. NewRowOf(w)
    BY <2>1, <2>2, FirstRow
  <2> QED
    BY <1>a, <2>1, <2>3
<1>3. ASSUME NEW u \in Users, NEW a \in Amounts, NEW ref \in Refs,
             NEW k \in Keys \cup {NoKey}, Reserve(u, a, ref, k)
      PROVE  Goal
  <2> DEFINE w == <<u, MAIN>>
             d == Row(w, "RESERVE", a, balance[w], reserve(balance[w], a), k,
                      <<"stake", ref>>, 0)
  <2>1. /\ txns' = Append(txns, d)
        /\ balance' = [balance EXCEPT ![w] = reserve(balance[w], a)]
        /\ \E e : lockedFunds' = Append(lockedFunds, e)
    BY <1>3 DEF Reserve
  <2>2. d.wallet = w
    BY RowWallet
  <2>3. \A i \in DOMAIN lockedFunds : lockedFunds'[i] = lockedFunds[i]
    BY <2>1, OneRow DEF TypeOK
  <2> HIDE DEF d, w
  <2>4. NewRowOf(w)
    BY <2>1, <2>2, FirstRow
  <2> QED
    BY <1>a, <2>1, <2>3, <2>4
<1>4. ASSUME NEW i \in DOMAIN lockedFunds, NEW win \in Amounts \cup {0},
             NEW k \in Keys \cup {NoKey}, CommitReservation(i, win, k)
      PROVE  Goal
  <2> DEFINE r     == lockedFunds[i]
             w     == r.wallet
             spent == commitReserved(balance[w], r.amount)
             next  == IF win > 0 THEN credit(spent, win) ELSE spent
             bet   == Row(w, "GAME_BET", r.amount, balance[w], next, k,
                          <<"bet", r.reason>>, 0)
             won   == [Row(w, "GAME_WIN", win, next, next, NoKey,
                           <<"win", r.reason>>, 0) EXCEPT !.before = r.amount]
  <2>1. txns' = txns \o <<bet, won>> \/ txns' = txns \o <<bet>>
    BY <1>4 DEF CommitReservation
  <2>2. bet.wallet = w
    BY RowWallet
  <2>3. /\ balance' = [balance EXCEPT ![w] = next]
        /\ r.status = "LOCKED"
        /\ lockedFunds' = Resolved(i)
    BY <1>4 DEF CommitReservation
  <2> HIDE DEF bet, won, next
  <2>4. NewRowOf(w)
    BY <2>1, <2>2, FirstRow
  <2>5. \A n \in DOMAIN lockedFunds : n # i => lockedFunds'[n] = lockedFunds[n]
    BY <2>3 DEF Resolved, TypeOK
  <2> QED
    BY <1>a, <2>3, <2>4, <2>5
<1>5. ASSUME NEW i \in DOMAIN lockedFunds, NEW k \in Keys \cup {NoKey},
             ReleaseReservation(i, k)
      PROVE  Goal
  <2> DEFINE r    == lockedFunds[i]
             w    == r.wallet
             next == releaseReserved(balance[w], r.amount)
             d    == Row(w, "RESERVE_RELEASE", r.amount, balance[w], next, k,
                         <<"release", r.reason>>, 0)
  <2>1. /\ txns' = Append(txns, d)
        /\ balance' = [balance EXCEPT ![w] = next]
        /\ r.status = "LOCKED"
        /\ lockedFunds' = Resolved(i)
    BY <1>5 DEF ReleaseReservation
  <2>2. d.wallet = w
    BY RowWallet
  <2> HIDE DEF d, next
  <2>3. NewRowOf(w)
    BY <2>1, <2>2, FirstRow
  <2>4. \A n \in DOMAIN lockedFunds : n # i => lockedFunds'[n] = lockedFunds[n]
    BY <2>1 DEF Resolved, TypeOK
  <2> QED
    BY <1>a, <2>1, <2>3, <2>4
<1>6. ASSUME NEW u \in Users, NEW f \in Types, NEW t \in Types, NEW a \in Amounts,
             NEW k \in Keys \cup {NoKey}, Transfer(u, f, t, a, k)
      PROVE  Goal
  <2> DEFINE from == <<u, f>>
             to   == <<u, t>>
             out  == Row(from, "TRANSFER_OUT", a, balance[from],
                         debit(balance[from], a), k, AutoRef, 0)
             in   == Row(to, "TRANSFER_IN", a, balance[to],
                         credit(balance[to], a), NoKey, AutoRef, Len(txns) + 1)
  <2>1. /\ lockedFunds' = lockedFunds
        /\ txns' = txns \o <<out, in>>
        /\ balance' = [balance EXCEPT ![from] = debit(balance[from], a),
                                      ![to] = credit(balance[to], a)]
    BY <1>6 DEF Transfer
  <2>2. out.wallet = from /\ in.wallet = to
    BY RowWallet
  <2> HIDE DEF out, in, from, to
  <2>3. NewRowOf(from) /\ NewRowOf(to)
    BY <2>1, <2>2, FirstRow, SecondRow
  <2> QED
    BY <1>a, <2>1, <2>3
<1>7. ASSUME NEW i \in DOMAIN txns, NEW k \in Keys \cup {NoKey}, Rollback(i, k)
      PROVE  Goal
  <2> DEFINE t    == txns[i]
             w    == t.wallet
             next == IF wasDebit(t) THEN credit(balance[w], t.amount)
                                    ELSE debit(balance[w], t.amount)
             d    == Row(w, "ROLLBACK", t.amount, balance[w], next, k, AutoRef, i)
  <2>1. /\ txns' = Append(txns, d)
        /\ balance' = [balance EXCEPT ![w] = next]
        /\ lockedFunds' = lockedFunds
    BY <1>7 DEF Rollback
  <2>2. d.wallet = w
    BY RowWallet
  <2> HIDE DEF d, next
  <2>3. NewRowOf(w)
    BY <2>1, <2>2, FirstRow
  <2> QED
    BY <1>a, <2>1, <2>3
<1>8. ASSUME NEW w \in Wallets, NEW to \in {"ACTIVE", "FROZEN"}, SetStatus(w, to)
      PROVE  Goal
  BY <1>8 DEF SetStatus
<1>9. CASE UNCHANGED vars
  BY <1>9 DEF vars
<1> QED
  BY <1>1, <1>2, <1>3, <1>4, <1>5, <1>6, <1>7, <1>8, <1>9 DEF Next, PlayNext, Correction

(* Every movement of money leaves a row of its wallet, for good.             *)
THEOREM RecordsCorrect == Spec => RecordedForGood
<1>1. TypeOK /\ [Next]_vars =>
        [/\ Len(txns) <= Len(txns')
         /\ \A i \in DOMAIN txns : txns'[i] = txns[i]
         /\ \A w \in Wallets : balance'[w] # balance[w] =>
              \E i \in DOMAIN txns' \ DOMAIN txns : txns'[i].wallet = w
         /\ \A i \in DOMAIN lockedFunds :
              lockedFunds[i].status = "RELEASED" => lockedFunds'[i] = lockedFunds[i]
        ]_vars
  BY RowsStay, RecordedStep DEF NewRowOf
<1> QED
  BY <1>1, TypeCorrect, PTL DEF Spec, RecordedForGood
-----------------------------------------------------------------------------
(* There are finitely many accounts.                                         *)
LEMMA AccountsFinite == IsFiniteSet(Accounts)
<1>1. IsFiniteSet(Wallets)
  BY WalletEngineFinite, FS_Product DEF Wallets
<1> QED
  BY <1>1, FS_AddElement DEF Accounts

(* What goes from one term of a sum to another leaves the sum as it was.     *)
LEMMA SumMoved ==
  ASSUME NEW S, IsFiniteSet(S), NEW f \in [S -> Int], NEW g \in [S -> Int],
         NEW from \in S, NEW to \in S, from # to, NEW a \in Int,
         g[from] = f[from] - a, g[to] = f[to] + a,
         \A x \in S \ {from, to} : g[x] = f[x]
  PROVE  SumFunctionOnSet(g, S) = SumFunctionOnSet(f, S)
<1> DEFINE h == [f EXCEPT ![from] = f[from] - a]
<1>1. /\ h \in [S -> Int] /\ h[from] = f[from] - a
      /\ \A x \in S : x # from => h[x] = f[x]
  OBVIOUS
<1> HIDE DEF h
<1>2. \A x \in S : x # to => g[x] = h[x]
  BY <1>1
<1>3. g[to] - h[to] = a /\ h[from] - f[from] = -a
  <2>1. f[to] \in Int /\ f[from] \in Int /\ h[to] = f[to]
    BY <1>1
  <2> QED
    BY <1>1, <2>1
<1>4. /\ SumFunctionOnSet(h, S) = SumFunctionOnSet(f, S) + (h[from] - f[from])
      /\ SumFunctionOnSet(f, S) \in Int
  <2>1. \A x \in S : f[x] \in Int /\ h[x] \in Int
    BY <1>1
  <2> QED
    BY <1>1, <2>1, SumChange
<1>5. SumFunctionOnSet(g, S) = SumFunctionOnSet(h, S) + (g[to] - h[to])
  <2>1. \A x \in S : g[x] \in Int /\ h[x] \in Int
    BY <1>1
  <2> QED
    BY <1>1, <1>2, <2>1, SumChange
<1> HIDE DEF h
<1> QED
  BY <1>3, <1>4, <1>5

(* The two headings of the books b.                                          *)
PlayOf(b) == [a \in Accounts |-> b[a].play]

CashOf(b) == [a \in Accounts |-> b[a].cash]

Balanced(b) == /\ b \in [Accounts -> [play : Int, cash : Int]]
               /\ SumFunctionOnSet(PlayOf(b), Accounts) = 0
               /\ SumFunctionOnSet(CashOf(b), Accounts) = 0

(* A posting moves the same amount out of one account and into another.      *)
LEMMA PostBalanced ==
  ASSUME NEW b, Balanced(b), NEW from \in Accounts, NEW to \in Accounts, from # to,
         NEW a \in Nat
  PROVE  Balanced(postPlay(b, from, to, a)) /\ Balanced(postCash(b, from, to, a))
<1>0. b \in [Accounts -> [play : Int, cash : Int]]
  BY DEF Balanced
<1>1. ASSUME NEW f, NEW g, f \in [Accounts -> Int], g \in [Accounts -> Int],
             g[from] = f[from] - a, g[to] = f[to] + a,
             \A x \in Accounts \ {from, to} : g[x] = f[x]
      PROVE  SumFunctionOnSet(g, Accounts) = SumFunctionOnSet(f, Accounts)
  BY <1>1, AccountsFinite, SumMoved
<1>2. Balanced(postPlay(b, from, to, a))
  <2> DEFINE next == postPlay(b, from, to, a)
  <2>1. /\ next \in [Accounts -> [play : Int, cash : Int]]
        /\ next[from].play = b[from].play - a
        /\ next[to].play = b[to].play + a
        /\ \A x \in Accounts \ {from, to} : next[x].play = b[x].play
        /\ \A x \in Accounts : next[x].cash = b[x].cash
    <3>1. next \in [Accounts -> [play : Int, cash : Int]]
      BY <1>0, PostTyped
    <3>2. \A x \in Accounts : b[x].play \in Int /\ b[x].cash \in Int
      BY <1>0
    <3> QED
      BY <1>0, <3>1, <3>2 DEF postPlay
  <2> HIDE DEF next
  <2>2. CashOf(next) = CashOf(b)
    BY <2>1 DEF CashOf
  <2>3. /\ PlayOf(b) \in [Accounts -> Int] /\ PlayOf(next) \in [Accounts -> Int]
        /\ PlayOf(next)[from] = PlayOf(b)[from] - a
        /\ PlayOf(next)[to] = PlayOf(b)[to] + a
        /\ \A x \in Accounts \ {from, to} : PlayOf(next)[x] = PlayOf(b)[x]
    BY <1>0, <2>1 DEF PlayOf
  <2>4. SumFunctionOnSet(PlayOf(next), Accounts) = SumFunctionOnSet(PlayOf(b), Accounts)
    BY <1>1, <2>3
  <2> QED
    <3>1. Balanced(next)
      BY <2>1, <2>2, <2>4 DEF Balanced
    <3> QED
      BY <3>1 DEF next
<1>3. Balanced(postCash(b, from, to, a))
  <2> DEFINE next == postCash(b, from, to, a)
  <2>1. /\ next \in [Accounts -> [play : Int, cash : Int]]
        /\ next[from].cash = b[from].cash - a
        /\ next[to].cash = b[to].cash + a
        /\ \A x \in Accounts \ {from, to} : next[x].cash = b[x].cash
        /\ \A x \in Accounts : next[x].play = b[x].play
    <3>1. next \in [Accounts -> [play : Int, cash : Int]]
      BY <1>0, PostTyped
    <3>2. \A x \in Accounts : b[x].play \in Int /\ b[x].cash \in Int
      BY <1>0
    <3> QED
      BY <1>0, <3>1, <3>2 DEF postCash
  <2> HIDE DEF next
  <2>2. PlayOf(next) = PlayOf(b)
    BY <2>1 DEF PlayOf
  <2>3. /\ CashOf(b) \in [Accounts -> Int] /\ CashOf(next) \in [Accounts -> Int]
        /\ CashOf(next)[from] = CashOf(b)[from] - a
        /\ CashOf(next)[to] = CashOf(b)[to] + a
        /\ \A x \in Accounts \ {from, to} : CashOf(next)[x] = CashOf(b)[x]
    BY <1>0, <2>1 DEF CashOf
  <2>4. SumFunctionOnSet(CashOf(next), Accounts) = SumFunctionOnSet(CashOf(b), Accounts)
    BY <1>1, <2>3
  <2> QED
    <3>1. Balanced(next)
      BY <2>1, <2>2, <2>4 DEF Balanced
    <3> QED
      BY <3>1 DEF next
<1> QED
  BY <1>2, <1>3

(* Whatever is posted is posted under one heading against another account.   *)
LEMMA BooksStep == TypeOK /\ BooksBalance /\ [Next]_vars => BooksBalance'
<1> SUFFICES ASSUME TypeOK, BooksBalance, [Next]_vars
             PROVE  Balanced(books')
  BY DEF BooksBalance, Balanced, PlayOf, CashOf
<1>0. Balanced(books)
  BY DEF TypeOK, BooksBalance, Balanced, PlayOf, CashOf
<1>t. /\ \A a \in Amounts : a \in Nat
      /\ Wallets \subseteq Accounts
      /\ House \in Accounts
      /\ \A w \in Wallets : w # House
      /\ \A u \in Users, t \in Types : <<u, t>> \in Accounts
      /\ \A i \in DOMAIN lockedFunds :
           lockedFunds[i].wallet \in Wallets /\ lockedFunds[i].amount \in Nat
  <2>1. \A i \in DOMAIN lockedFunds : lockedFunds[i] \in LockedFund
    BY DEF TypeOK
  <2> QED
    BY <2>1, WalletEngineAssumption DEF LockedFund, Accounts, Wallets
<1>1. ASSUME NEW w \in Wallets, NEW a \in Amounts, NEW k \in Keys \cup {NoKey},
             Credit(w, a, k) \/ Debit(w, a, k)
      PROVE  Balanced(books')
  BY <1>0, <1>1, <1>t, PostBalanced DEF Credit, Debit
<1>2. ASSUME NEW u \in Users, NEW a \in Amounts, NEW k \in Keys \cup {NoKey},
             NEW ref \in Refs, Reserve(u, a, ref, k)
      PROVE  Balanced(books')
  BY <1>0, <1>2 DEF Reserve
<1>3. ASSUME NEW u \in Users, NEW a \in Amounts, NEW k \in Keys \cup {NoKey},
             NEW f \in Types, NEW t \in Types, Transfer(u, f, t, a, k)
      PROVE  Balanced(books')
  <2>1. books' = postCash(books, <<u, f>>, <<u, t>>, a) /\ <<u, f>> # <<u, t>>
    BY <1>3 DEF Transfer
  <2> QED
    BY <1>0, <1>t, <2>1, PostBalanced
<1>4. ASSUME NEW i \in DOMAIN lockedFunds, NEW k \in Keys \cup {NoKey},
             NEW win \in Amounts \cup {0}, CommitReservation(i, win, k)
      PROVE  Balanced(books')
  <2> DEFINE w    == lockedFunds[i].wallet
             paid == postPlay(books, w, House, lockedFunds[i].amount)
  <2>1. books' = IF win > 0 THEN postPlay(paid, House, w, win) ELSE paid
    BY <1>4 DEF CommitReservation
  <2>2. w \in Accounts /\ w # House /\ win \in Nat /\ lockedFunds[i].amount \in Nat
    BY <1>t
  <2>3. Balanced(paid)
    BY <1>0, <1>t, <2>2, PostBalanced
  <2> HIDE DEF w, paid
  <2>4. Balanced(postPlay(paid, House, w, win))
    BY <1>t, <2>2, <2>3, PostBalanced
  <2> QED
    BY <2>1, <2>3, <2>4
<1>5. ASSUME NEW i \in DOMAIN lockedFunds, NEW k \in Keys \cup {NoKey},
             ReleaseReservation(i, k)
      PROVE  Balanced(books')
  BY <1>0, <1>5 DEF ReleaseReservation
<1>6. ASSUME Correction
      PROVE  Balanced(books')
  BY <1>0, <1>6 DEF Correction, Rollback
<1>7. ASSUME NEW w \in Wallets, NEW to \in {"ACTIVE", "FROZEN"}, SetStatus(w, to)
      PROVE  Balanced(books')
  BY <1>0, <1>7 DEF SetStatus
<1>8. ASSUME UNCHANGED vars
      PROVE  Balanced(books')
  BY <1>0, <1>8 DEF vars
<1> QED
  BY <1>1, <1>2, <1>3, <1>4, <1>5, <1>6, <1>7, <1>8 DEF Next, PlayNext

(* The trial balance is nil under either heading, whatever was bet, paid,    *)
(* moved and corrected: reconcile() never finds debits off credits.          *)
THEOREM BooksCorrect == Spec => []BooksBalance
<1>1. Init => BooksBalance
  <2> SUFFICES ASSUME Init
               PROVE  BooksBalance
    OBVIOUS
  <2>1. \A a \in Accounts : books[a].play = 0 /\ books[a].cash = 0
    BY DEF Init
  <2> QED
    BY <2>1, AccountsFinite, SumOfZeros DEF BooksBalance
<1> QED
  BY <1>1, BooksStep, TypeCorrect, PTL DEF Spec
-----------------------------------------------------------------------------
(* The statement ends at the balance, and the transactions are the           *)
(* operations of the in-memory ledger.                                       *)
(* A movement: what a step does to one wallet and the rows it leaves there.  *)
Moves(w, next) ==
  /\ balance' = [balance EXCEPT ![w] = next]
  /\ \E d, e : /\ {d.wallet, e.wallet} = {w}
               /\ {d.after, e.after} = {total(next)}
               /\ txns' = Append(txns, d) \/ txns' = txns \o <<d, e>>

(* A transfer moves two wallets and leaves a row of each.                    *)
MovesBoth(v, w, nextV, nextW) ==
  /\ v # w
  /\ balance' = [balance EXCEPT ![v] = nextV, ![w] = nextW]
  /\ \E d, e : /\ d.wallet = v /\ d.after = total(nextV)
               /\ e.wallet = w /\ e.after = total(nextW)
               /\ txns' = txns \o <<d, e>>

(* The row of a movement carries its wallet and the total it leaves.         *)
LEMMA RowEnds ==
  \A w, type, a, s, t, key, ref, rel, b :
    /\ Row(w, type, a, s, t, key, ref, rel).wallet = w
    /\ Row(w, type, a, s, t, key, ref, rel).after = total(t)
    /\ [Row(w, type, a, s, t, key, ref, rel) EXCEPT !.before = b].wallet = w
    /\ [Row(w, type, a, s, t, key, ref, rel) EXCEPT !.before = b].after = total(t)
  BY DEF Row

(* Every step of the engine is a movement, a transfer, or moves nothing.     *)
LEMMA StepShape ==
  ASSUME TypeOK, [Next]_vars
  PROVE  \/ UNCHANGED <<balance, txns>>
         \/ \E w \in Wallets : \E next : Moves(w, next)
         \/ \E v, w \in Wallets : \E nextV, nextW : MovesBoth(v, w, nextV, nextW)
<1> DEFINE Goal ==
      \/ UNCHANGED <<balance, txns>>
      \/ \E w \in Wallets : \E next : Moves(w, next)
      \/ \E v, w \in Wallets : \E nextV, nextW : MovesBoth(v, w, nextV, nextW)
<1>a. /\ \A u \in Users, t \in Types : <<u, t>> \in Wallets
      /\ MAIN \in Types
      /\ \A i \in DOMAIN lockedFunds : lockedFunds[i].wallet \in Wallets
      /\ \A i \in DOMAIN txns : txns[i].wallet \in Wallets
  <2>1. /\ \A i \in DOMAIN lockedFunds : lockedFunds[i] \in LockedFund
        /\ \A i \in DOMAIN txns : txns[i] \in Txn
    BY DEF TypeOK
  <2> QED
    BY <2>1, WalletEngineAssumption DEF LockedFund, Txn, Wallets
<1>b. ASSUME NEW w \in Wallets, NEW next, NEW d,
             balance' = [balance EXCEPT ![w] = next],
             d.wallet = w, d.after = total(next), txns' = Append(txns, d)
      PROVE  Goal
  <2>1. {d.wallet, d.wallet} = {w} /\ {d.after, d.after} = {total(next)}
    BY <1>b
  <2>2. Moves(w, next)
    BY <1>b, <2>1 DEF Moves
  <2> QED
    BY <2>2
<1>1. ASSUME NEW w \in Wallets, NEW a \in Amounts, NEW k \in Keys \cup {NoKey},
             Credit(w, a, k)
      PROVE  Goal
  <2> DEFINE next == credit(balance[w], a)
             d    == Row(w, "CREDIT", a, balance[w], next, k, AutoRef, 0)
  <2>1. balance' = [balance EXCEPT ![w] = next] /\ txns' = Append(txns, d)
    BY <1>1 DEF Credit
  <2>2. d.wallet = w /\ d.after = total(next)
    BY RowEnds
  <2> HIDE DEF d, next
  <2> QED
    BY <2>1, <2>2, <1>b
<1>2. ASSUME NEW w \in Wallets, NEW a \in Amounts, NEW k \in Keys \cup {NoKey},
             Debit(w, a, k)
      PROVE  Goal
  <2> DEFINE next == debit(balance[w], a)
             d    == Row(w, "DEBIT", a, balance[w], next, k, AutoRef, 0)
  <2>1. balance' = [balance EXCEPT ![w] = next] /\ txns' = Append(txns, d)
    BY <1>2 DEF Debit
  <2>2. d.wallet = w /\ d.after = total(next)
    BY RowEnds
  <2> HIDE DEF d, next
  <2> QED
    BY <2>1, <2>2, <1>b
<1>3. ASSUME NEW u \in Users, NEW a \in Amounts, NEW ref \in Refs,
             NEW k \in Keys \cup {NoKey}, Reserve(u, a, ref, k)
      PROVE  Goal
  <2> DEFINE w    == <<u, MAIN>>
             next == reserve(balance[w], a)
             d    == Row(w, "RESERVE", a, balance[w], next, k, <<"stake", ref>>, 0)
  <2>1. balance' = [balance EXCEPT ![w] = next] /\ txns' = Append(txns, d)
    BY <1>3 DEF Reserve
  <2>2. w \in Wallets
    BY <1>a
  <2>3. d.wallet = w /\ d.after = total(next)
    BY RowEnds
  <2> HIDE DEF d, next, w
  <2> QED
    BY <2>1, <2>2, <2>3, <1>b
<1>4. ASSUME NEW i \in DOMAIN lockedFunds, NEW win \in Amounts \cup {0},
             NEW k \in Keys \cup {NoKey}, CommitReservation(i, win, k)
      PROVE  Goal
  <2> DEFINE r     == lockedFunds[i]
             w     == r.wallet
             spent == commitReserved(balance[w], r.amount)
             next  == IF win > 0 THEN credit(spent, win) ELSE spent
             bet   == Row(w, "GAME_BET", r.amount, balance[w], next, k,
                          <<"bet", r.reason>>, 0)
             won   == [Row(w, "GAME_WIN", win, next, next, NoKey,
                           <<"win", r.reason>>, 0) EXCEPT !.before = r.amount]
  <2>1. /\ balance' = [balance EXCEPT ![w] = next]
        /\ txns' = txns \o <<bet, won>> \/ txns' = txns \o <<bet>>
    BY <1>4 DEF CommitReservation
  <2>2. /\ bet.wallet = w /\ bet.after = total(next)
        /\ won.wallet = w /\ won.after = total(next)
    BY RowEnds
  <2>3. w \in Wallets
    BY <1>a
  <2> HIDE DEF bet, won, next, w
  <2>4. txns \o <<bet>> = Append(txns, bet)
    BY OneRow DEF TypeOK
  <2>5. {bet.wallet, won.wallet} = {w} /\ {bet.after, won.after} = {total(next)}
    BY <2>2
  <2>6. Moves(w, next)
    BY <2>1, <2>4, <2>5 DEF Moves
  <2> QED
    BY <2>3, <2>6
<1>5. ASSUME NEW i \in DOMAIN lockedFunds, NEW k \in Keys \cup {NoKey},
             ReleaseReservation(i, k)
      PROVE  Goal
  <2> DEFINE r == lockedFunds[i]
             w == r.wallet
             next == releaseReserved(balance[w], r.amount)
             d    == Row(w, "RESERVE_RELEASE", r.amount, balance[w], next, k,
                         <<"release", r.reason>>, 0)
  <2>1. balance' = [balance EXCEPT ![w] = next] /\ txns' = Append(txns, d)
    BY <1>5 DEF ReleaseReservation
  <2>2. w \in Wallets
    BY <1>a
  <2>3. d.wallet = w /\ d.after = total(next)
    BY RowEnds
  <2> HIDE DEF d, next, w, r
  <2> QED
    BY <2>1, <2>2, <2>3, <1>b
<1>6. ASSUME NEW u \in Users, NEW f \in Types, NEW t \in Types, NEW a \in Amounts,
             NEW k \in Keys \cup {NoKey}, Transfer(u, f, t, a, k)
      PROVE  Goal
  <2> DEFINE from == <<u, f>>
             to   == <<u, t>>
             out  == Row(from, "TRANSFER_OUT", a, balance[from],
                         debit(balance[from], a), k, AutoRef, 0)
             in   == Row(to, "TRANSFER_IN", a, balance[to],
                         credit(balance[to], a), NoKey, AutoRef, Len(txns) + 1)
  <2>1. /\ txns' = txns \o <<out, in>>
        /\ balance' = [balance EXCEPT ![from] = debit(balance[from], a),
                                      ![to] = credit(balance[to], a)]
        /\ f # t
    BY <1>6 DEF Transfer
  <2>2. from \in Wallets /\ to \in Wallets /\ from # to
    BY <1>a, <2>1
  <2>3. /\ out.wallet = from /\ out.after = total(debit(balance[from], a))
        /\ in.wallet = to /\ in.after = total(credit(balance[to], a))
    BY RowEnds
  <2> HIDE DEF out, in, from, to
  <2>4. MovesBoth(from, to, debit(balance[from], a), credit(balance[to], a))
    BY <2>1, <2>2, <2>3 DEF MovesBoth
  <2> QED
    BY <2>2, <2>4
<1>7. ASSUME NEW i \in DOMAIN txns, NEW k \in Keys \cup {NoKey}, Rollback(i, k)
      PROVE  Goal
  <2> DEFINE t    == txns[i]
             w    == t.wallet
             next == IF wasDebit(t) THEN credit(balance[w], t.amount)
                                    ELSE debit(balance[w], t.amount)
             d    == Row(w, "ROLLBACK", t.amount, balance[w], next, k, AutoRef, i)
  <2>1. balance' = [balance EXCEPT ![w] = next] /\ txns' = Append(txns, d)
    BY <1>7 DEF Rollback
  <2>2. w \in Wallets
    BY <1>a
  <2>3. d.wallet = w /\ d.after = total(next)
    BY RowEnds
  <2> HIDE DEF d, next, w, t
  <2> QED
    BY <2>1, <2>2, <2>3, <1>b
<1>8. ASSUME NEW w \in Wallets, NEW to \in {"ACTIVE", "FROZEN"}, SetStatus(w, to)
      PROVE  Goal
  BY <1>8 DEF SetStatus
<1>9. CASE UNCHANGED vars
  BY <1>9 DEF vars
<1> QED
  BY <1>1, <1>2, <1>3, <1>4, <1>5, <1>6, <1>7, <1>8, <1>9 DEF Next, PlayNext, Correction
-----------------------------------------------------------------------------
(* Every step leaves the latest row of each wallet at its total.             *)
LEMMA StatementStep == TypeOK /\ StatementEndsAtTotal /\ [Next]_vars => StatementEndsAtTotal'
<1> SUFFICES ASSUME TypeOK, StatementEndsAtTotal, [Next]_vars
             PROVE  StatementEndsAtTotal'
  OBVIOUS
<1>a. /\ txns \in Seq(Txn)
      /\ balance \in [Wallets -> BalanceState]
      /\ \A i \in DOMAIN txns : txns[i].wallet \in Wallets
      /\ DOMAIN txns = 1 .. Len(txns) /\ Len(txns) \in Nat
  <2>1. \A i \in DOMAIN txns : txns[i] \in Txn
    BY DEF TypeOK
  <2> QED
    BY <2>1 DEF TypeOK, Txn
<1>b. \A i \in DOMAIN txns :
        (\A j \in DOMAIN txns : txns[j].wallet = txns[i].wallet => j <= i)
          => txns[i].after = total(balance[txns[i].wallet])
  BY DEF StatementEndsAtTotal
<1> DEFINE Latest(i) == \A j \in DOMAIN txns' : txns'[j].wallet = txns'[i].wallet => j <= i
           Ends(i)   == txns'[i].after = total(balance'[txns'[i].wallet])
<1>1. CASE UNCHANGED <<balance, txns>>
  BY <1>1 DEF StatementEndsAtTotal
<1>2. ASSUME NEW w \in Wallets, NEW next, Moves(w, next)
      PROVE  \A i \in DOMAIN txns' : Latest(i) => Ends(i)
  <2>1. PICK d, e : /\ {d.wallet, e.wallet} = {w}
                    /\ {d.after, e.after} = {total(next)}
                    /\ txns' = Append(txns, d) \/ txns' = txns \o <<d, e>>
    BY <1>2 DEF Moves
  <2>2. /\ balance'[w] = next
        /\ \A v \in Wallets : v # w => balance'[v] = balance[v]
    BY <1>2, <1>a DEF Moves
  <2>3. /\ \A i \in DOMAIN txns : i \in DOMAIN txns' /\ txns'[i] = txns[i]
        /\ \A i \in DOMAIN txns' \ DOMAIN txns :
             txns'[i].wallet = w /\ txns'[i].after = total(next)
        /\ \E j \in DOMAIN txns' \ DOMAIN txns : txns'[j].wallet = w
        /\ \A j \in DOMAIN txns' \ DOMAIN txns, i \in DOMAIN txns : ~(j <= i)
    <3>1. d.wallet = w /\ e.wallet = w /\ d.after = total(next) /\ e.after = total(next)
      BY <2>1
    <3>2. CASE txns' = Append(txns, d)
      BY <1>a, <3>1, <3>2, OneRow
    <3>3. CASE txns' = txns \o <<d, e>>
      <4>1. /\ DOMAIN txns' = DOMAIN txns \cup {Len(txns) + 1, Len(txns) + 2}
            /\ \A i \in DOMAIN txns : txns'[i] = txns[i]
            /\ txns'[Len(txns) + 1] = d /\ txns'[Len(txns) + 2] = e
        BY <1>a, <3>3, TwoRows
      <4> QED
        BY <1>a, <3>1, <4>1
    <3> QED
      BY <2>1, <3>2, <3>3
  <2>4. ASSUME NEW i \in DOMAIN txns', Latest(i)
        PROVE  Ends(i)
    <3>1. CASE i \in DOMAIN txns
      <4>1. txns[i].wallet # w
        BY <2>3, <2>4, <3>1, <1>a
      <4>2. \A j \in DOMAIN txns : txns[j].wallet = txns[i].wallet => j <= i
        BY <2>3, <2>4, <3>1
      <4> QED
        BY <1>a, <1>b, <2>2, <2>3, <3>1, <4>1, <4>2
    <3>2. CASE i \notin DOMAIN txns
      BY <2>2, <2>3, <3>2
    <3> QED
      BY <3>1, <3>2
  <2> QED
    BY <2>4
<1>3. ASSUME NEW v \in Wallets, NEW w \in Wallets, NEW nextV, NEW nextW,
             MovesBoth(v, w, nextV, nextW)
      PROVE  \A i \in DOMAIN txns' : Latest(i) => Ends(i)
  <2>1. PICK d, e : /\ d.wallet = v /\ d.after = total(nextV)
                    /\ e.wallet = w /\ e.after = total(nextW)
                    /\ txns' = txns \o <<d, e>>
    BY <1>3 DEF MovesBoth
  <2>2. /\ balance'[v] = nextV /\ balance'[w] = nextW
        /\ \A u \in Wallets \ {v, w} : balance'[u] = balance[u]
    BY <1>3, <1>a DEF MovesBoth
  <2>3. /\ \A i \in DOMAIN txns : i \in DOMAIN txns' /\ txns'[i] = txns[i]
        /\ \A i \in DOMAIN txns' \ DOMAIN txns :
             \/ txns'[i].wallet = v /\ txns'[i].after = total(nextV)
             \/ txns'[i].wallet = w /\ txns'[i].after = total(nextW)
        /\ \E j \in DOMAIN txns' \ DOMAIN txns : txns'[j].wallet = v
        /\ \E j \in DOMAIN txns' \ DOMAIN txns : txns'[j].wallet = w
        /\ \A j \in DOMAIN txns' \ DOMAIN txns, i \in DOMAIN txns : ~(j <= i)
    <3>1. /\ DOMAIN txns' = DOMAIN txns \cup {Len(txns) + 1, Len(txns) + 2}
          /\ \A i \in DOMAIN txns : txns'[i] = txns[i]
          /\ txns'[Len(txns) + 1] = d /\ txns'[Len(txns) + 2] = e
      BY <1>a, <2>1, TwoRows
    <3>2. DOMAIN txns' \ DOMAIN txns = {Len(txns) + 1, Len(txns) + 2}
      BY <1>a, <3>1
    <3>3. /\ \A j \in {Len(txns) + 1, Len(txns) + 2}, i \in DOMAIN txns : ~(j <= i)
          /\ {Len(txns) + 1, Len(txns) + 2} = DOMAIN txns' \ DOMAIN txns
      BY <1>a, <3>2
    <3> QED
      BY <2>1, <3>1, <3>2, <3>3
  <2>4. ASSUME NEW i \in DOMAIN txns', Latest(i)
        PROVE  Ends(i)
    <3>1. CASE i \in DOMAIN txns
      <4>1. txns[i].wallet \notin {v, w}
        BY <2>3, <2>4, <3>1, <1>a
      <4>2. \A j \in DOMAIN txns : txns[j].wallet = txns[i].wallet => j <= i
        BY <2>3, <2>4, <3>1
      <4> QED
        BY <1>a, <1>b, <2>2, <2>3, <3>1, <4>1, <4>2
    <3>2. CASE i \notin DOMAIN txns
      BY <2>2, <2>3, <3>2
    <3> QED
      BY <3>1, <3>2
  <2> QED
    BY <2>4
<1>4. CASE \A i \in DOMAIN txns' : Latest(i) => Ends(i)
  BY <1>4 DEF StatementEndsAtTotal
<1> HIDE DEF Latest, Ends
<1> QED
  BY <1>1, <1>2, <1>3, <1>4, StepShape

(* A wallet's statement always ends at its balance.                          *)
THEOREM StatementCorrect == Spec => []StatementEndsAtTotal
<1>1. Init => StatementEndsAtTotal
  BY DEF Init, StatementEndsAtTotal
<1> QED
  BY <1>1, StatementStep, TypeCorrect, PTL DEF Spec
-----------------------------------------------------------------------------
(* What the tables look like to the in-memory ledger (Core).                 *)
SystemOf(b) == [house |-> b[House].play, external |-> b[House].cash]

SeenAll(rows, funds) == [i \in DOMAIN funds |-> AsReservation(rows, funds[i])]

(* The algebra of balances is that of the ledger.                            *)
LEMMA SameAlgebra ==
  \A s, a :
    /\ Core!credit(s, a) = credit(s, a)
    /\ Core!debit(s, a) = debit(s, a)
    /\ Core!reserve(s, a) = reserve(s, a)
    /\ Core!commitReserved(s, a) = commitReserved(s, a)
    /\ Core!releaseReserved(s, a) = releaseReserved(s, a)
    /\ Core!CanDebit(s, a) <=> CanDebit(s, a)
    /\ Core!CanReserve(s, a) <=> CanReserve(s, a)
    /\ Core!CanSettle(s, a) <=> CanSettle(s, a)
  BY DEF Core!credit, Core!debit, Core!reserve, Core!commitReserved,
         Core!releaseReserved, Core!CanDebit, Core!CanReserve, Core!CanSettle,
         credit, debit, reserve, commitReserved, releaseReserved, CanDebit,
         CanReserve, CanSettle

(* The empty tables are the empty ledger.                                    *)
LEMMA CoreInit == Init => Core!Init
<1> SUFFICES ASSUME Init
             PROVE  Core!Init
  OBVIOUS
<1>1. /\ balance = [w \in Wallets |-> Core!emptyBalance]
      /\ Wallets \in SUBSET Wallets
  BY DEF Init, emptyBalance, Core!emptyBalance
<1>2. coreSystem = [house |-> 0, external |-> 0]
  BY DEF Init, coreSystem, SystemOf, Accounts
<1>3. coreReservations = <<>>
  BY DEF Init, coreReservations
<1>4. coreProcessed = {}
  BY DEF Init, coreProcessed
<1> QED
  BY <1>1, <1>2, <1>3, <1>4 DEF Core!Init

(* A step that adds rows under one key uses that key, and no other, up.      *)
LEMMA KeyUsed ==
  ASSUME NEW key \in Keys \cup {NoKey}, KeyFree(key),
         DOMAIN txns \subseteq DOMAIN txns',
         \A i \in DOMAIN txns : txns'[i] = txns[i],
         \A i \in DOMAIN txns' \ DOMAIN txns : txns'[i].key \in {key, NoKey},
         \E i \in DOMAIN txns' \ DOMAIN txns : txns'[i].key = key
  PROVE  Core!Idempotent(key)
<1>1. key \notin coreProcessed
  BY DEF KeyFree, coreProcessed
<1>2. coreProcessed' = coreProcessed \cup ({key} \ {NoKey})
  BY DEF coreProcessed
<1> QED
  BY <1>1, <1>2 DEF Core!Idempotent, coreProcessed

(* As long as no bet is recorded for it, a reservation looks as before.      *)
LEMMA SeenStays ==
  ASSUME NEW rows, NEW more, NEW r,
         DOMAIN rows \subseteq DOMAIN more,
         \A i \in DOMAIN rows : more[i] = rows[i],
         \A j \in DOMAIN more \ DOMAIN rows : more[j].reference # <<"bet", r.reason>>
  PROVE  AsReservation(more, r) = AsReservation(rows, r)
<1>1. (\E i \in DOMAIN more : more[i].reference = <<"bet", r.reason>>)
        <=> (\E i \in DOMAIN rows : rows[i].reference = <<"bet", r.reason>>)
  OBVIOUS
<1> QED
  BY <1>1 DEF AsReservation, Outcome

(* Rows that are no bets change nothing in the reservations.                 *)
LEMMA ReservationsStay ==
  ASSUME DOMAIN txns \subseteq DOMAIN txns',
         \A i \in DOMAIN txns : txns'[i] = txns[i],
         lockedFunds' = lockedFunds,
         \A ref : \A j \in DOMAIN txns' \ DOMAIN txns : txns'[j].reference # <<"bet", ref>>
  PROVE  coreReservations' = coreReservations
<1>1. \A i \in DOMAIN lockedFunds : AsReservation(txns', lockedFunds[i]) = AsReservation(txns, lockedFunds[i])
  BY SeenStays
<1>2. SeenAll(txns', lockedFunds) = SeenAll(txns, lockedFunds)
  BY <1>1 DEF SeenAll
<1> QED
  BY <1>2 DEF coreReservations, SeenAll

(* The key and the reference of a row are those it was given.                *)
LEMMA RowNames ==
  \A w, type, a, s, t, key, ref, rel, b :
    /\ Row(w, type, a, s, t, key, ref, rel).key = key
    /\ Row(w, type, a, s, t, key, ref, rel).reference = ref
    /\ [Row(w, type, a, s, t, key, ref, rel) EXCEPT !.before = b].key = key
    /\ [Row(w, type, a, s, t, key, ref, rel) EXCEPT !.before = b].reference = ref
  BY DEF Row

(* One row under a key, of a movement that is no bet.                        *)
LEMMA OneKeyedRow ==
  ASSUME TypeOK, NEW key \in Keys \cup {NoKey}, KeyFree(key), NEW d,
         txns' = Append(txns, d), d.key = key
  PROVE  /\ Core!Idempotent(key)
         /\ DOMAIN txns \subseteq DOMAIN txns'
         /\ \A i \in DOMAIN txns : txns'[i] = txns[i]
         /\ DOMAIN txns' \ DOMAIN txns = {Len(txns) + 1}
         /\ txns'[Len(txns) + 1] = d
<1>1. /\ DOMAIN txns = 1 .. Len(txns) /\ Len(txns) \in Nat
      /\ DOMAIN txns' = DOMAIN txns \cup {Len(txns) + 1}
      /\ \A i \in DOMAIN txns : txns'[i] = txns[i]
      /\ txns'[Len(txns) + 1] = d
  BY OneRow DEF TypeOK
<1>2. DOMAIN txns' \ DOMAIN txns = {Len(txns) + 1}
  BY <1>1
<1> QED
  BY <1>1, <1>2, KeyUsed

(* Two rows, the second one without a key.                                   *)
LEMMA TwoKeyedRows ==
  ASSUME TypeOK, NEW key \in Keys \cup {NoKey}, KeyFree(key),
         \E d, e : txns' = txns \o <<d, e>> /\ d.key = key /\ e.key = NoKey
  PROVE  Core!Idempotent(key)
<1>1. PICK d, e : txns' = txns \o <<d, e>> /\ d.key = key /\ e.key = NoKey
  OBVIOUS
<1>2. /\ DOMAIN txns = 1 .. Len(txns) /\ Len(txns) \in Nat
      /\ DOMAIN txns' = DOMAIN txns \cup {Len(txns) + 1, Len(txns) + 2}
      /\ \A i \in DOMAIN txns : txns'[i] = txns[i]
      /\ txns'[Len(txns) + 1] = d /\ txns'[Len(txns) + 2] = e
  BY <1>1, TwoRows DEF TypeOK
<1>3. DOMAIN txns' \ DOMAIN txns = {Len(txns) + 1, Len(txns) + 2}
  BY <1>2
<1> QED
  BY <1>1, <1>2, <1>3, KeyUsed

(* Where the two rows are.                                                   *)
LEMMA TwoNewRows ==
  ASSUME TypeOK, NEW d, NEW e, txns' = txns \o <<d, e>>
  PROVE  /\ DOMAIN txns \subseteq DOMAIN txns'
         /\ \A i \in DOMAIN txns : txns'[i] = txns[i]
         /\ \A i \in DOMAIN txns' \ DOMAIN txns : txns'[i] \in {d, e}
         /\ \E i \in DOMAIN txns' \ DOMAIN txns : txns'[i] = d
<1>1. /\ DOMAIN txns = 1 .. Len(txns) /\ Len(txns) \in Nat
      /\ DOMAIN txns' = DOMAIN txns \cup {Len(txns) + 1, Len(txns) + 2}
      /\ \A i \in DOMAIN txns : txns'[i] = txns[i]
      /\ txns'[Len(txns) + 1] = d /\ txns'[Len(txns) + 2] = e
  BY TwoRows DEF TypeOK
<1> QED
  BY <1>1
-----------------------------------------------------------------------------
(* A posting between a wallet and the house is one with the outside world or *)
(* with the house of the ledger; one between two wallets is with neither.    *)
LEMMA PostSystem ==
  ASSUME NEW b \in [Accounts -> [play : Int, cash : Int]], NEW w \in Wallets, NEW a \in Nat
  PROVE  /\ SystemOf(postCash(b, House, w, a)) = [SystemOf(b) EXCEPT !.external = @ - a]
         /\ SystemOf(postCash(b, w, House, a)) = [SystemOf(b) EXCEPT !.external = @ + a]
         /\ SystemOf(postPlay(b, House, w, a)) = [SystemOf(b) EXCEPT !.house = @ - a]
         /\ SystemOf(postPlay(b, w, House, a)) = [SystemOf(b) EXCEPT !.house = @ + a]
         /\ \A v \in Wallets : SystemOf(postCash(b, v, w, a)) = SystemOf(b)
<1>1. House \in Accounts /\ House \notin Wallets /\ Wallets \subseteq Accounts
  BY WalletEngineAssumption DEF Accounts
<1>2. /\ postCash(b, House, w, a)[House] = [b[House] EXCEPT !.cash = @ - a]
      /\ postCash(b, w, House, a)[House] = [b[House] EXCEPT !.cash = @ + a]
      /\ postPlay(b, House, w, a)[House] = [b[House] EXCEPT !.play = @ - a]
      /\ postPlay(b, w, House, a)[House] = [b[House] EXCEPT !.play = @ + a]
      /\ \A v \in Wallets : postCash(b, v, w, a)[House] = b[House]
  BY <1>1 DEF postCash, postPlay
<1>3. b[House] \in [play : Int, cash : Int]
  BY <1>1
<1> QED
  BY <1>2, <1>3 DEF SystemOf

(* A credit is the ledger's credit ...                                       *)
LEMMA CreditRefines ==
  ASSUME TypeOK, NEW w \in Wallets, NEW a \in Amounts, NEW k \in Keys \cup {NoKey},
         Credit(w, a, k)
  PROVE  Core!Credit(w, a, k)
<1> DEFINE d == Row(w, "CREDIT", a, balance[w], credit(balance[w], a), k, AutoRef, 0)
<1>1. /\ KeyFree(k)
      /\ txns' = Append(txns, d)
      /\ balance' = [balance EXCEPT ![w] = credit(balance[w], a)]
      /\ books' = postCash(books, House, w, a)
      /\ lockedFunds' = lockedFunds
  BY DEF Credit
<1>2. d.key = k /\ d.reference = AutoRef
  BY RowNames
<1> HIDE DEF d
<1>3. Core!Idempotent(k)
  BY <1>1, <1>2, OneKeyedRow
<1>4. coreReservations' = coreReservations
  BY <1>1, <1>2, OneKeyedRow, ReservationsStay DEF AutoRef
<1>5. coreSystem' = [coreSystem EXCEPT !.external = @ - a]
  <2>1. a \in Nat /\ books \in [Accounts -> [play : Int, cash : Int]]
    BY WalletEngineAssumption DEF TypeOK
  <2>2. SystemOf(postCash(books, House, w, a)) = [SystemOf(books) EXCEPT !.external = @ - a]
    BY <2>1, PostSystem
  <2> QED
    BY <1>1, <2>2 DEF coreSystem, SystemOf
<1>6. balance' = [balance EXCEPT ![w] = Core!credit(@, a)]
  BY <1>1, SameAlgebra
<1> QED
  BY <1>3, <1>4, <1>5, <1>6 DEF Core!Credit

(* ... a debit its debit ...                                                 *)
LEMMA DebitRefines ==
  ASSUME TypeOK, NEW w \in Wallets, NEW a \in Amounts, NEW k \in Keys \cup {NoKey},
         Debit(w, a, k)
  PROVE  Core!Debit(w, a, k)
<1> DEFINE d == Row(w, "DEBIT", a, balance[w], debit(balance[w], a), k, AutoRef, 0)
<1>1. /\ KeyFree(k)
      /\ CanDebit(balance[w], a)
      /\ txns' = Append(txns, d)
      /\ balance' = [balance EXCEPT ![w] = debit(balance[w], a)]
      /\ books' = postCash(books, w, House, a)
      /\ lockedFunds' = lockedFunds
  BY DEF Debit
<1>2. d.key = k /\ d.reference = AutoRef
  BY RowNames
<1> HIDE DEF d
<1>3. Core!Idempotent(k)
  BY <1>1, <1>2, OneKeyedRow
<1>4. coreReservations' = coreReservations
  BY <1>1, <1>2, OneKeyedRow, ReservationsStay DEF AutoRef
<1>5. coreSystem' = [coreSystem EXCEPT !.external = @ + a]
  <2>1. a \in Nat /\ books \in [Accounts -> [play : Int, cash : Int]]
    BY WalletEngineAssumption DEF TypeOK
  <2>2. SystemOf(postCash(books, w, House, a)) = [SystemOf(books) EXCEPT !.external = @ + a]
    BY <2>1, PostSystem
  <2> QED
    BY <1>1, <2>2 DEF coreSystem, SystemOf
<1>6. /\ balance' = [balance EXCEPT ![w] = Core!debit(@, a)]
      /\ Core!CanDebit(balance[w], a)
  BY <1>1, SameAlgebra
<1> QED
  BY <1>3, <1>4, <1>5, <1>6 DEF Core!Debit

(* A function on one number more is the sequence with one value more.        *)
LEMMA AppendsValue ==
  ASSUME NEW n \in Nat, NEW S, NEW f \in [1 .. n -> S], NEW g \in [1 .. n + 1 -> S],
         \A i \in 1 .. n : g[i] = f[i]
  PROVE  g = Append(f, g[n + 1])
<1> DEFINE e == g[n + 1]
<1>1. e \in S
  OBVIOUS
<1> HIDE DEF e
<1>2. f \in Seq(S) /\ Len(f) = n
  BY <1>1, SeqDef
<1>3. g \in Seq(S) /\ Len(g) = n + 1
  <2>1. n + 1 \in Nat
    OBVIOUS
  <2> QED
    BY <2>1, SeqDef
<1>4. /\ Append(f, e) \in Seq(S)
      /\ Len(Append(f, e)) = n + 1
      /\ \A i \in 1 .. n : Append(f, e)[i] = f[i]
      /\ Append(f, e)[n + 1] = e
  BY <1>1, <1>2, AppendProperties
<1>5. ASSUME NEW i \in 1 .. n + 1
      PROVE  g[i] = Append(f, e)[i]
  <2>1. i \in 1 .. n \/ i = n + 1
    OBVIOUS
  <2> QED
    BY <1>4, <2>1 DEF e
<1>6. g = Append(f, e)
  BY <1>2, <1>3, <1>4, <1>5, SeqEqual
<1> QED
  BY <1>6 DEF e

(* ... a reservation its reservation ...                                     *)
LEMMA ReserveRefines ==
  ASSUME TypeOK, NEW u \in Users, NEW a \in Amounts, NEW ref \in Refs,
         NEW k \in Keys \cup {NoKey}, Reserve(u, a, ref, k)
  PROVE  Core!Reserve(<<u, MAIN>>, a, k)
<1> DEFINE w    == <<u, MAIN>>
           d    == Row(w, "RESERVE", a, balance[w], reserve(balance[w], a), k,
                       <<"stake", ref>>, 0)
           fund == [wallet |-> w, amount |-> a, reason |-> ref, status |-> "LOCKED"]
<1>1. /\ KeyFree(k)
      /\ CanReserve(balance[w], a)
      /\ txns' = Append(txns, d)
      /\ balance' = [balance EXCEPT ![w] = reserve(balance[w], a)]
      /\ lockedFunds' = Append(lockedFunds, fund)
      /\ books' = books
  BY DEF Reserve
<1>2. d.key = k /\ d.reference = <<"stake", ref>>
  BY RowNames
<1>3. fund.wallet = w /\ fund.amount = a /\ fund.status = "LOCKED"
  OBVIOUS
<1>4. w \in Wallets
  BY WalletEngineAssumption DEF Wallets
<1> HIDE DEF d, fund
<1>5. Core!Idempotent(k)
  BY <1>1, <1>2, OneKeyedRow
<1>6. coreReservations' =
        Append(coreReservations, [wallet |-> w, amount |-> a, status |-> "RESERVED"])
  <2> DEFINE n   == Len(lockedFunds)
             new == [wallet |-> w, amount |-> a, status |-> "RESERVED"]
  <2>1. /\ n \in Nat
        /\ DOMAIN lockedFunds = 1 .. n
        /\ DOMAIN lockedFunds' = 1 .. n + 1
        /\ \A i \in 1 .. n : lockedFunds'[i] = lockedFunds[i]
        /\ lockedFunds'[n + 1] = fund
    BY <1>1, OneRow DEF TypeOK
  <2>2. /\ DOMAIN txns \subseteq DOMAIN txns'
        /\ \A i \in DOMAIN txns : txns'[i] = txns[i]
        /\ \A j \in DOMAIN txns' \ DOMAIN txns : txns'[j].reference = <<"stake", ref>>
    BY <1>1, <1>2, OneKeyedRow
  <2>3. ASSUME NEW r
        PROVE  AsReservation(txns', r) = AsReservation(txns, r)
    <3>1. \A j \in DOMAIN txns' \ DOMAIN txns : txns'[j].reference # <<"bet", r.reason>>
      BY <2>2
    <3> QED
      BY <2>2, <3>1, SeenStays
  <2>4. AsReservation(txns', fund) = new
    BY <1>3 DEF AsReservation, Outcome
  <2>5. SeenAll(txns', lockedFunds') = Append(SeenAll(txns, lockedFunds), new)
    <3> DEFINE before == SeenAll(txns, lockedFunds)
               after  == SeenAll(txns', lockedFunds')
    <3>1. /\ before = [i \in 1 .. n |-> AsReservation(txns, lockedFunds[i])]
          /\ after = [i \in 1 .. n + 1 |-> AsReservation(txns', lockedFunds'[i])]
      BY <2>1 DEF SeenAll
    <3>2. n + 1 \in 1 .. n + 1 /\ \A i \in 1 .. n : i \in 1 .. n + 1
      BY <2>1
    <3>3. PICK S : before \in [1 .. n -> S] /\ after \in [1 .. n + 1 -> S]
      <4> DEFINE S == {AsReservation(txns, lockedFunds[i]) : i \in 1 .. n}
                        \cup {AsReservation(txns', lockedFunds'[i]) : i \in 1 .. n + 1}
      <4>1. before \in [1 .. n -> S] /\ after \in [1 .. n + 1 -> S]
        BY <3>1
      <4> QED
        BY <4>1
    <3>4. \A i \in 1 .. n : after[i] = before[i]
      BY <2>1, <2>3, <3>1, <3>2
    <3>5. after[n + 1] = new
      BY <2>1, <2>4, <3>1, <3>2
    <3>6. n \in Nat
      BY <2>1
    <3> HIDE DEF before, after, new, n
    <3>7. after = Append(before, new)
      BY <3>6, <3>3, <3>4, <3>5, AppendsValue
    <3> QED
      BY <3>7 DEF before, after
  <2> QED
    BY <2>5 DEF coreReservations, SeenAll
<1>7. /\ balance' = [balance EXCEPT ![w] = Core!reserve(@, a)]
      /\ Core!CanReserve(balance[w], a)
  BY <1>1, SameAlgebra
<1>8. coreSystem' = coreSystem
  BY <1>1 DEF coreSystem, SystemOf
<1> HIDE DEF w
<1>9. Core!Reserve(w, a, k)
  BY <1>4, <1>5, <1>6, <1>7, <1>8 DEF Core!Reserve
<1> QED
  BY <1>9 DEF w

(* Resolving a LOCKED row under a bet or a release resolves that reservation *)
(* of the ledger and no other: no bet was recorded for it before, and no     *)
(* other row stands for the same round.                                      *)
LEMMA ResolvedView ==
  ASSUME TypeOK, SettleInv, NEW i \in DOMAIN lockedFunds,
         lockedFunds[i].status = "LOCKED", lockedFunds' = Resolved(i),
         DOMAIN txns \subseteq DOMAIN txns',
         \A j \in DOMAIN txns : txns'[j] = txns[j],
         NEW leg \in {"bet", "release"},
         \A j \in DOMAIN txns' \ DOMAIN txns :
           txns'[j].reference \in {<<leg, lockedFunds[i].reason>>,
                                   <<"win", lockedFunds[i].reason>>},
         \E j \in DOMAIN txns' \ DOMAIN txns :
           txns'[j].reference = <<leg, lockedFunds[i].reason>>
  PROVE  coreReservations' =
           [coreReservations EXCEPT ![i].status =
              IF leg = "bet" THEN "COMMITTED" ELSE "RELEASED"]
<1> DEFINE ref == lockedFunds[i].reason
<1>1. /\ DOMAIN lockedFunds' = DOMAIN lockedFunds
      /\ lockedFunds'[i] = [lockedFunds[i] EXCEPT !.status = "RELEASED"]
      /\ \A n \in DOMAIN lockedFunds : n # i => lockedFunds'[n] = lockedFunds[n]
  BY DEF TypeOK, Resolved
<1>2. lockedFunds[i] \in LockedFund
  BY DEF TypeOK
<1>3. /\ lockedFunds'[i].wallet = lockedFunds[i].wallet
      /\ lockedFunds'[i].amount = lockedFunds[i].amount
      /\ lockedFunds'[i].reason = ref
      /\ lockedFunds'[i].status = "RELEASED"
  BY <1>1, <1>2 DEF LockedFund
<1>4. \A j \in DOMAIN txns : txns[j].reference # <<"bet", ref>>
  BY DEF SettleInv, SettledOnce, OpenIsUnresolved, Resolves
<1>5. (\E j \in DOMAIN txns' : txns'[j].reference = <<"bet", ref>>) <=> leg = "bet"
  BY <1>4
<1>6. AsReservation(txns', lockedFunds'[i]) =
        [AsReservation(txns, lockedFunds[i]) EXCEPT !.status =
           IF leg = "bet" THEN "COMMITTED" ELSE "RELEASED"]
  BY <1>3, <1>5 DEF AsReservation, Outcome
<1>7. ASSUME NEW n \in DOMAIN lockedFunds, n # i
      PROVE  AsReservation(txns', lockedFunds'[n]) = AsReservation(txns, lockedFunds[n])
  <2>1. lockedFunds[n].reason # ref
    BY <1>7 DEF SettleInv, SettledOnce, RoundsApart
  <2>2. \A j \in DOMAIN txns' \ DOMAIN txns :
          txns'[j].reference # <<"bet", lockedFunds[n].reason>>
    BY <2>1
  <2> QED
    BY <1>1, <1>7, <2>2, SeenStays
<1> DEFINE rs == SeenAll(txns, lockedFunds)
           st == IF leg = "bet" THEN "COMMITTED" ELSE "RELEASED"
<1>8. SeenAll(txns', lockedFunds') = [rs EXCEPT ![i].status = st]
  BY <1>1, <1>6, <1>7 DEF SeenAll
<1> QED
  BY <1>8 DEF SeenAll, coreReservations

(* What the ledger sees of a reservation.                                    *)
LEMMA ViewOf ==
  ASSUME NEW i \in DOMAIN lockedFunds
  PROVE  /\ i \in DOMAIN coreReservations
         /\ coreReservations[i].wallet = lockedFunds[i].wallet
         /\ coreReservations[i].amount = lockedFunds[i].amount
         /\ lockedFunds[i].status = "LOCKED" => coreReservations[i].status = "RESERVED"
<1>1. coreReservations[i] = AsReservation(txns, lockedFunds[i])
  BY DEF coreReservations
<1> QED
  BY <1>1 DEF AsReservation, Outcome, coreReservations

(* ... a settlement its commit ...                                           *)
LEMMA CommitRefines ==
  ASSUME TypeOK, SettleInv, NEW i \in DOMAIN lockedFunds, NEW win \in Amounts \cup {0},
         NEW k \in Keys \cup {NoKey}, CommitReservation(i, win, k)
  PROVE  Core!Commit(i, win, k)
<1> DEFINE r     == lockedFunds[i]
           w     == r.wallet
           ref   == r.reason
           spent == commitReserved(balance[w], r.amount)
           next  == IF win > 0 THEN credit(spent, win) ELSE spent
           bet   == Row(w, "GAME_BET", r.amount, balance[w], next, k,
                        <<"bet", ref>>, 0)
           won   == [Row(w, "GAME_WIN", win, next, next, NoKey,
                         <<"win", ref>>, 0) EXCEPT !.before = r.amount]
           paid  == postPlay(books, w, House, r.amount)
<1>1. /\ r.status = "LOCKED"
      /\ KeyFree(k)
      /\ CanSettle(balance[w], r.amount)
      /\ balance' = [balance EXCEPT ![w] = next]
      /\ lockedFunds' = Resolved(i)
      /\ txns' = txns \o (IF win > 0 THEN <<bet, won>> ELSE <<bet>>)
      /\ books' = IF win > 0 THEN postPlay(paid, House, w, win) ELSE paid
  BY DEF CommitReservation
<1>2. /\ bet.key = k /\ bet.reference = <<"bet", ref>>
      /\ won.key = NoKey /\ won.reference = <<"win", ref>>
  BY RowNames
<1>3. r \in LockedFund /\ w \in Wallets /\ r.amount \in Nat /\ win \in Nat
  <2>1. r \in LockedFund
    BY DEF TypeOK
  <2>2. w \in Wallets /\ r.amount \in Amounts
    BY <2>1 DEF LockedFund
  <2>3. \A a \in Amounts : a \in Nat
    BY WalletEngineAssumption
  <2> QED
    BY <2>1, <2>2, <2>3
<1> HIDE DEF bet, won
<1>4. /\ Core!Idempotent(k)
      /\ DOMAIN txns \subseteq DOMAIN txns'
      /\ \A j \in DOMAIN txns : txns'[j] = txns[j]
      /\ \A j \in DOMAIN txns' \ DOMAIN txns :
           txns'[j].reference \in {<<"bet", ref>>, <<"win", ref>>}
      /\ \E j \in DOMAIN txns' \ DOMAIN txns : txns'[j].reference = <<"bet", ref>>
  <2>1. CASE win > 0
    <3>1. txns' = txns \o <<bet, won>>
      BY <1>1, <2>1
    <3>2. Core!Idempotent(k)
      BY <1>1, <1>2, <3>1, TwoKeyedRows
    <3>3. /\ DOMAIN txns \subseteq DOMAIN txns'
          /\ \A j \in DOMAIN txns : txns'[j] = txns[j]
          /\ \A j \in DOMAIN txns' \ DOMAIN txns : txns'[j] \in {bet, won}
          /\ \E j \in DOMAIN txns' \ DOMAIN txns : txns'[j] = bet
      BY <3>1, TwoNewRows
    <3> QED
      BY <1>2, <3>2, <3>3
  <2>2. CASE ~(win > 0)
    <3>1. txns' = Append(txns, bet)
      BY <1>1, <2>2, OneRow DEF TypeOK
    <3> QED
      BY <1>1, <1>2, <3>1, OneKeyedRow
  <2> QED
    BY <2>1, <2>2
<1>5. coreReservations' = [coreReservations EXCEPT ![i].status = "COMMITTED"]
  BY <1>1, <1>4, ResolvedView
<1>6. coreSystem' = [coreSystem EXCEPT !.house = @ + r.amount - win]
  <2>1. books \in [Accounts -> [play : Int, cash : Int]]
    BY DEF TypeOK
  <2>2. SystemOf(paid) = [SystemOf(books) EXCEPT !.house = @ + r.amount]
    BY <1>3, <2>1, PostSystem
  <2>3. paid \in [Accounts -> [play : Int, cash : Int]]
    BY <1>3, <2>1, PostTyped, WalletEngineAssumption DEF Accounts
  <2>4. SystemOf(postPlay(paid, House, w, win)) = [SystemOf(paid) EXCEPT !.house = @ - win]
    BY <1>3, <2>3, PostSystem
  <2> DEFINE x == books[House].play
             y == books[House].cash
  <2>5. SystemOf(books) = [house |-> x, external |-> y] /\ x \in Int
    <3>1. House \in Accounts
      BY DEF Accounts
    <3>2. books[House] \in [play : Int, cash : Int]
      BY <2>1, <3>1
    <3> QED
      BY <3>2 DEF SystemOf
  <2> HIDE DEF x, y, paid
  <2>6. SystemOf(paid) = [house |-> x + r.amount, external |-> y]
    BY <2>2, <2>5
  <2>7. SystemOf(postPlay(paid, House, w, win)) =
          [house |-> x + r.amount - win, external |-> y]
    <3>1. (x + r.amount) - win = x + r.amount - win
      BY <1>3, <2>5
    <3>2. SystemOf(postPlay(paid, House, w, win)) =
            [house |-> (x + r.amount) - win, external |-> y]
      BY <2>4, <2>6
    <3> QED
      BY <3>1, <3>2
  <2>8. SystemOf(books') = [house |-> x + r.amount - win, external |-> y]
    <3>1. CASE win > 0
      BY <1>1, <2>7, <3>1
    <3>2. CASE ~(win > 0)
      <4>1. win = 0
        BY <1>3, <3>2
      <4> QED
        BY <1>1, <1>3, <2>6, <3>2, <4>1
    <3> QED
      BY <3>1, <3>2
  <2>9. SystemOf(books') = [SystemOf(books) EXCEPT !.house = @ + r.amount - win]
    BY <2>5, <2>8
  <2> QED
    BY <2>9 DEF coreSystem, SystemOf
<1>7. /\ balance' = [balance EXCEPT ![w] = Core!AfterCommit(@, r.amount, win)]
      /\ Core!CanSettle(balance[w], r.amount)
  BY <1>1, SameAlgebra DEF Core!AfterCommit
<1> HIDE DEF next, spent, w, paid
<1>8. /\ coreReservations[i].wallet = w
      /\ coreReservations[i].amount = r.amount
      /\ coreReservations[i].status = "RESERVED"
  BY <1>1, ViewOf DEF w
<1> HIDE DEF r
<1> QED
  BY <1>4, <1>5, <1>6, <1>7, <1>8 DEF Core!Commit

(* ... a cancellation its release ...                                        *)
LEMMA ReleaseRefines ==
  ASSUME TypeOK, SettleInv, NEW i \in DOMAIN lockedFunds,
         NEW k \in Keys \cup {NoKey}, ReleaseReservation(i, k)
  PROVE  Core!Release(i, k)
<1> DEFINE r    == lockedFunds[i]
           w    == r.wallet
           next == releaseReserved(balance[w], r.amount)
           d    == Row(w, "RESERVE_RELEASE", r.amount, balance[w], next, k,
                       <<"release", r.reason>>, 0)
<1>1. /\ r.status = "LOCKED"
      /\ KeyFree(k)
      /\ CanSettle(balance[w], r.amount)
      /\ balance' = [balance EXCEPT ![w] = next]
      /\ lockedFunds' = Resolved(i)
      /\ txns' = Append(txns, d)
      /\ books' = books
  BY DEF ReleaseReservation
<1>2. d.key = k /\ d.reference = <<"release", r.reason>>
  BY RowNames
<1> HIDE DEF d
<1>3. /\ Core!Idempotent(k)
      /\ DOMAIN txns \subseteq DOMAIN txns'
      /\ \A j \in DOMAIN txns : txns'[j] = txns[j]
      /\ \A j \in DOMAIN txns' \ DOMAIN txns : txns'[j].reference = <<"release", r.reason>>
      /\ \E j \in DOMAIN txns' \ DOMAIN txns : txns'[j].reference = <<"release", r.reason>>
  BY <1>1, <1>2, OneKeyedRow
<1>4. coreReservations' = [coreReservations EXCEPT ![i].status = "RELEASED"]
  BY <1>1, <1>3, ResolvedView
<1>5. coreSystem' = coreSystem
  BY <1>1 DEF coreSystem
<1>6. /\ balance' = [balance EXCEPT ![w] = Core!releaseReserved(@, r.amount)]
      /\ Core!CanSettle(balance[w], r.amount)
  BY <1>1, SameAlgebra
<1> HIDE DEF next, w
<1>7. /\ coreReservations[i].wallet = w
      /\ coreReservations[i].amount = r.amount
      /\ coreReservations[i].status = "RESERVED"
  BY <1>1, ViewOf DEF w
<1> HIDE DEF r
<1> QED
  BY <1>3, <1>4, <1>5, <1>6, <1>7 DEF Core!Release

(* ... and a transfer its transfer.                                          *)
LEMMA TransferRefines ==
  ASSUME TypeOK, NEW u \in Users, NEW f \in Types, NEW t \in Types, NEW a \in Amounts,
         NEW k \in Keys \cup {NoKey}, Transfer(u, f, t, a, k)
  PROVE  Core!Transfer(<<u, f>>, <<u, t>>, a, k)
<1> DEFINE from == <<u, f>>
           to   == <<u, t>>
           out  == Row(from, "TRANSFER_OUT", a, balance[from],
                       debit(balance[from], a), k, AutoRef, 0)
           in   == Row(to, "TRANSFER_IN", a, balance[to],
                       credit(balance[to], a), NoKey, AutoRef, Len(txns) + 1)
<1>1. /\ f # t
      /\ KeyFree(k)
      /\ CanDebit(balance[from], a)
      /\ txns' = txns \o <<out, in>>
      /\ balance' = [balance EXCEPT ![from] = debit(balance[from], a),
                                    ![to] = credit(balance[to], a)]
      /\ books' = postCash(books, from, to, a)
      /\ lockedFunds' = lockedFunds
  BY DEF Transfer
<1>2. /\ out.key = k /\ out.reference = AutoRef
      /\ in.key = NoKey /\ in.reference = AutoRef
  BY RowNames
<1>3. from # to /\ from \in Wallets /\ to \in Wallets
  BY <1>1 DEF Wallets
<1> HIDE DEF out, in, from, to
<1>4. /\ Core!Idempotent(k)
      /\ DOMAIN txns \subseteq DOMAIN txns'
      /\ \A j \in DOMAIN txns : txns'[j] = txns[j]
      /\ \A j \in DOMAIN txns' \ DOMAIN txns : txns'[j].reference = AutoRef
  <2>1. Core!Idempotent(k)
    BY <1>1, <1>2, TwoKeyedRows
  <2>2. /\ DOMAIN txns \subseteq DOMAIN txns'
        /\ \A j \in DOMAIN txns : txns'[j] = txns[j]
        /\ \A j \in DOMAIN txns' \ DOMAIN txns : txns'[j] \in {out, in}
    BY <1>1, TwoNewRows
  <2> QED
    BY <1>2, <2>1, <2>2
<1>5. coreReservations' = coreReservations
  BY <1>1, <1>4, ReservationsStay DEF AutoRef
<1>6. coreSystem' = coreSystem
  <2>1. a \in Nat /\ books \in [Accounts -> [play : Int, cash : Int]]
    BY WalletEngineAssumption DEF TypeOK
  <2>2. SystemOf(postCash(books, from, to, a)) = SystemOf(books)
    BY <1>3, <2>1, PostSystem
  <2> QED
    BY <1>1, <2>2 DEF coreSystem, SystemOf
<1>7. /\ balance' = [balance EXCEPT ![from] = Core!debit(@, a), ![to] = Core!credit(@, a)]
      /\ Core!CanDebit(balance[from], a)
  BY <1>1, <1>3, SameAlgebra
<1>8. Core!Transfer(from, to, a, k)
  BY <1>3, <1>4, <1>5, <1>6, <1>7 DEF Core!Transfer
<1> QED
  BY <1>8 DEF from, to

(* A correction of the administrator leaves reservations and locked money    *)
(* alone.                                                                    *)
LEMMA RollbackApart ==
  ASSUME TypeOK, NEW i \in DOMAIN txns, NEW k \in Keys \cup {NoKey}, Rollback(i, k)
  PROVE  /\ lockedFunds' = lockedFunds
         /\ \A w \in Wallets : balance'[w].locked = balance[w].locked
<1> DEFINE t    == txns[i]
           next == IF wasDebit(t) THEN credit(balance[t.wallet], t.amount)
                                  ELSE debit(balance[t.wallet], t.amount)
<1>1. balance' = [balance EXCEPT ![t.wallet] = next] /\ lockedFunds' = lockedFunds
  BY DEF Rollback
<1>2. t.wallet \in Wallets /\ balance \in [Wallets -> BalanceState]
  <2>1. t \in Txn
    BY DEF TypeOK
  <2> QED
    BY <2>1 DEF Txn, TypeOK
<1>3. next.locked = balance[t.wallet].locked
  BY <1>2 DEF credit, debit, BalanceState
<1> HIDE DEF next
<1> QED
  BY <1>1, <1>2, <1>3
-----------------------------------------------------------------------------
(* Every transaction of the engine is one operation of the ledger, leaves    *)
(* what the ledger sees alone, or is the administrator's correction.         *)
LEMMA RefinementStep ==
  ASSUME TypeOK, SettleInv, [Next]_vars
  PROVE  Core!vars' # Core!vars =>
           \/ Core!Next
           \/ /\ Correction
              /\ lockedFunds' = lockedFunds
              /\ \A w \in Wallets : balance'[w].locked = balance[w].locked
<1> DEFINE Goal ==
      \/ Core!vars' = Core!vars
      \/ Core!Next
      \/ /\ Correction
         /\ lockedFunds' = lockedFunds
         /\ \A w \in Wallets : balance'[w].locked = balance[w].locked
<1>1. ASSUME NEW w \in Wallets, NEW a \in Amounts, NEW k \in Keys \cup {NoKey},
             Credit(w, a, k)
      PROVE  Goal
  <2>1. Core!Credit(w, a, k)
    BY <1>1, CreditRefines
  <2> QED
    BY <2>1 DEF Core!Next
<1>2. ASSUME NEW w \in Wallets, NEW a \in Amounts, NEW k \in Keys \cup {NoKey},
             Debit(w, a, k)
      PROVE  Goal
  <2>1. Core!Debit(w, a, k)
    BY <1>2, DebitRefines
  <2> QED
    BY <2>1 DEF Core!Next
<1>3. ASSUME NEW u \in Users, NEW a \in Amounts, NEW ref \in Refs,
             NEW k \in Keys \cup {NoKey}, Reserve(u, a, ref, k)
      PROVE  Goal
  <2>1. Core!Reserve(<<u, MAIN>>, a, k)
    BY <1>3, ReserveRefines
  <2>2. <<u, MAIN>> \in Wallets
    BY WalletEngineAssumption DEF Wallets
  <2> QED
    BY <2>1, <2>2 DEF Core!Next
<1>4. ASSUME NEW i \in DOMAIN lockedFunds, NEW win \in Amounts \cup {0},
             NEW k \in Keys \cup {NoKey}, CommitReservation(i, win, k)
      PROVE  Goal
  <2>1. Core!Commit(i, win, k) /\ i \in DOMAIN coreReservations
    BY <1>4, CommitRefines, ViewOf
  <2> QED
    BY <2>1 DEF Core!Next
<1>5. ASSUME NEW i \in DOMAIN lockedFunds, NEW k \in Keys \cup {NoKey},
             ReleaseReservation(i, k)
      PROVE  Goal
  <2>1. Core!Release(i, k) /\ i \in DOMAIN coreReservations
    BY <1>5, ReleaseRefines, ViewOf
  <2> QED
    BY <2>1 DEF Core!Next
<1>6. ASSUME NEW u \in Users, NEW f \in Types, NEW t \in Types, NEW a \in Amounts,
             NEW k \in Keys \cup {NoKey}, Transfer(u, f, t, a, k)
      PROVE  Goal
  <2>1. Core!Transfer(<<u, f>>, <<u, t>>, a, k)
    BY <1>6, TransferRefines
  <2>2. <<u, f>> \in Wallets /\ <<u, t>> \in Wallets
    BY DEF Wallets
  <2> QED
    BY <2>1, <2>2 DEF Core!Next
<1>7. ASSUME NEW i \in DOMAIN txns, NEW k \in Keys \cup {NoKey}, Rollback(i, k)
      PROVE  Goal
  BY <1>7, RollbackApart DEF Correction
<1>8. ASSUME NEW w \in Wallets, NEW to \in {"ACTIVE", "FROZEN"}, SetStatus(w, to)
      PROVE  Goal
  BY <1>8 DEF SetStatus, Core!vars, coreSystem, coreReservations, coreProcessed
<1>9. ASSUME UNCHANGED vars
      PROVE  Goal
  BY <1>9 DEF vars, Core!vars, coreSystem, coreReservations, coreProcessed
<1> HIDE DEF Goal
<1>10. Goal
  BY <1>1, <1>2, <1>3, <1>4, <1>5, <1>6, <1>7, <1>8, <1>9
     DEF Next, PlayNext, Correction
<1> USE DEF Goal
<1> QED
  BY <1>10

(* The backend's wallet engine implements the in-memory ledger: all but the  *)
(* administrator's correction is one of its operations, and a correction     *)
(* leaves what is reserved and locked alone.                                 *)
THEOREM RefinesCore == Spec => ImplementsCore
<1>1. TypeOK /\ SettleInv /\ [Next]_vars =>
        [Core!vars' # Core!vars =>
           \/ Core!Next
           \/ /\ Correction
              /\ lockedFunds' = lockedFunds
              /\ \A w \in Wallets : balance'[w].locked = balance[w].locked]_vars
  BY RefinementStep
<1>2. Init => SettleInv
  BY DEF Init, SettleInv, SettledOnce, OpenIsUnresolved, ClosedByOneRow,
         RoundsApart, WonIsBet, StakeRecorded, RoundReserved
<1> QED
  BY <1>1, <1>2, CoreInit, SettleStep, TypeCorrect, PTL DEF Spec, ImplementsCore
=============================================================================
