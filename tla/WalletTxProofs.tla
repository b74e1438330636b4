--------------------------- MODULE WalletTxProofs ---------------------------
(* Proofs about WalletTx, for any number of requests in flight, any wallets, *)
(* keys and amounts, and any bound on the retries.                           *)
EXTENDS WalletTx, WalletEngineProofs

(* The fields of a request, by operation.                                    *)
LEMMA RequestFields ==
  ASSUME NEW r \in Requests
  PROVE  /\ r.op \in {"credit", "debit", "reserve", "commit", "release", "transfer", "rollback"}
         /\ r.key \in Keys \cup {NoKey}
         /\ r.op \in {"credit", "debit"} => r.wallet \in Wallets /\ r.amount \in Amounts
         /\ r.op = "reserve" => /\ r.wallet \in Users \X {MAIN}
                                /\ r.amount \in Amounts /\ r.ref \in Refs
         /\ r.op = "commit" => r.fund \in Nat /\ r.win \in Amounts \cup {0}
         /\ r.op = "release" => r.fund \in Nat
         /\ r.op = "transfer" => /\ r.from \in Wallets /\ r.to \in Wallets
                                 /\ r.from[1] = r.to[1]
                                 /\ r.amount \in Amounts
         /\ r.op = "rollback" => r.row \in Nat
<1>1. r \in Request
  BY WalletTxAssumption
<1>2. CASE r \in [op : {"credit", "debit"}, wallet : Wallets, amount : Amounts, key : MayKey]
  BY <1>2 DEF MayKey
<1>3. CASE r \in [op : {"reserve"}, wallet : Users \X {MAIN}, amount : Amounts, ref : Refs, key : MayKey]
  BY <1>3 DEF MayKey
<1>4. CASE r \in [op : {"commit"}, fund : Nat, win : Amounts \cup {0}, key : MayKey]
  BY <1>4 DEF MayKey
<1>5. CASE r \in [op : {"release"}, fund : Nat, key : MayKey]
  BY <1>5 DEF MayKey
<1>6. CASE r \in {t \in [op : {"transfer"}, from : Wallets, to : Wallets,
                         amount : Amounts, key : MayKey] : t.from[1] = t.to[1]}
  BY <1>6 DEF MayKey
<1>7. CASE r \in [op : {"rollback"}, row : Nat, key : MayKey]
  BY <1>7 DEF MayKey
<1> QED
  BY <1>1, <1>2, <1>3, <1>4, <1>5, <1>6, <1>7 DEF Request

(* A request locks at most two wallets.                                      *)
LEMMA LockSeqTyped ==
  /\ \A r \in Requests : LockSeq(r) \in Seq(Wallets) /\ Len(LockSeq(r)) \in 0 .. 2
  /\ LockSeq(NoRequest) = <<>>
<1>1. LockSeq(NoRequest) = <<>>
  BY DEF LockSeq, NoRequest
<1>2. ASSUME NEW r \in Requests
      PROVE  LockSeq(r) \in Seq(Wallets) /\ Len(LockSeq(r)) \in 0 .. 2
  <2>1. CASE r.op = "transfer"
    <3>1. r.from \in Wallets /\ r.to \in Wallets
      BY <2>1, RequestFields DEF Wallets
    <3>2. LockSeq(r) = inOrder(r.from, r.to)
      BY <2>1 DEF LockSeq
    <3> QED
      BY <3>1, <3>2 DEF inOrder
  <2>2. CASE r.op \in {"credit", "debit", "reserve"}
    <3>1. r.wallet \in Wallets
      BY <2>2, RequestFields, WalletEngineAssumption DEF Wallets
    <3>2. LockSeq(r) = <<r.wallet>>
      BY <2>2 DEF LockSeq
    <3> QED
      BY <3>1, <3>2
  <2>3. CASE r.op \notin {"credit", "debit", "reserve", "transfer"}
    <3>1. LockSeq(r) = <<>>
      BY <2>3 DEF LockSeq
    <3> QED
      BY <3>1
  <2> QED
    BY <2>1, <2>2, <2>3
<1> QED
  BY <1>1, <1>2

LEMMA FrontTyped ==
  ASSUME NEW S, NEW s \in Seq(S)
  PROVE  Front(s) \in Seq(S)
<1>1. Len(s) \in Nat /\ \A i \in 1 .. Len(s) - 1 : s[i] \in S
  BY LenProperties
<1> QED
  BY <1>1, SubSeqProperties DEF Front
-----------------------------------------------------------------------------
(* What a transaction read still stands, as far as it was not overtaken: the *)
(* rows are still there, a reservation is still as it was unless the version *)
(* of its wallet moved, and so is a balance.                                 *)
RowsStand(s) == \A i \in DOMAIN s.txns : i \in DOMAIN txns /\ txns[i] = s.txns[i]

FundsStand(s) ==
  \A i \in DOMAIN s.lockedFunds :
    /\ i \in DOMAIN lockedFunds
    /\ lockedFunds[i].wallet = s.lockedFunds[i].wallet
    /\ lockedFunds[i].amount = s.lockedFunds[i].amount
    /\ lockedFunds[i].reason = s.lockedFunds[i].reason
    /\ \/ lockedFunds[i].status = s.lockedFunds[i].status
       \/ s.version[lockedFunds[i].wallet] < version[lockedFunds[i].wallet]

BalancesStand(s) ==
  \A w \in Wallets : /\ s.version[w] <= version[w]
                     /\ s.version[w] = version[w] => s.balance[w] = balance[w]

Stands(s) == RowsStand(s) /\ FundsStand(s) /\ BalancesStand(s)

ReadsStand == \A p \in Procs : pc[p] = "body" => snap[p].taken /\ Stands(snap[p])

(* What a transaction that commits does to the tables: it writes balances,   *)
(* none of them overtaken, and one or two rows, the first under the key of   *)
(* its request, and resolves no reservation but of a wallet it writes.       *)
FundsMoved(W) ==
  \/ lockedFunds' = lockedFunds
  \/ \E f \in LockedFund : lockedFunds' = Append(lockedFunds, f)
  \/ \E i \in DOMAIN lockedFunds : lockedFunds[i].wallet \in W /\ lockedFunds' = Resolved(i)

RowsMade(r, rows) ==
  \/ \E a \in Txn : rows = <<a>> /\ a.key = r.key
  \/ \E a, b \in Txn : /\ rows = <<a, b>>
                       /\ a.key = r.key /\ b.key = NoKey
                       /\ b.reference = AutoRef \/ b.reference # a.reference

Posts(p, next, rows) ==
  /\ pc[p] = "body"
  /\ DOMAIN next \subseteq Wallets
  /\ \A w \in DOMAIN next : next[w] \in BalanceState
  /\ Write(p, next, rows)
  /\ RowsMade(req[p], rows)
  /\ req[p].op = "commit" =>
       /\ req[p].fund \in DOMAIN lockedFunds
       /\ rows[1].reference = <<"bet", lockedFunds[req[p].fund].reason>>
  /\ FundsMoved(DOMAIN next)
  /\ books' \in [Accounts -> [play : Int, cash : Int]]

Commits(p) == \E next, rows : Posts(p, next, rows)

(* In the body, everything that is read is typed.                            *)
LEMMA ReadTyped ==
  ASSUME TxTypeOK, ReadsStand, NEW p \in Procs, pc[p] = "body"
  PROVE  /\ snap[p] \in Snapshot /\ Stands(snap[p])
         /\ req[p] \in Requests
         /\ \A w \in Wallets : ReadWallet(p).balance[w] \in BalanceState
         /\ \A w \in Wallets : NotOvertaken(p, w) => ReadWallet(p).balance[w] = balance[w]
         /\ \A i \in DOMAIN snap[p].txns : /\ i \in DOMAIN txns /\ txns[i] = snap[p].txns[i]
                                           /\ snap[p].txns[i] \in Txn
<1>1. snap[p] \in Snapshot /\ Stands(snap[p]) /\ req[p] \in Requests
  BY DEF TxTypeOK, ReadsStand, NoSnap
<1>2. /\ snap[p].balance \in [Wallets -> BalanceState]
      /\ snap[p].txns \in Seq(Txn)
  BY <1>1 DEF Snapshot
<1>3. \A w \in Wallets : ReadWallet(p).balance[w] \in BalanceState
  BY <1>2 DEF ReadWallet
<1>4. \A w \in Wallets : NotOvertaken(p, w) => ReadWallet(p).balance[w] = balance[w]
  BY <1>1 DEF Stands, BalancesStand, NotOvertaken, ReadWallet
<1>5. \A i \in DOMAIN snap[p].txns : /\ i \in DOMAIN txns /\ txns[i] = snap[p].txns[i]
                                     /\ snap[p].txns[i] \in Txn
  BY <1>1, <1>2 DEF Stands, RowsStand
<1> QED
  BY <1>1, <1>3, <1>4, <1>5

(* A reservation that was read is the one in the table, if its wallet was    *)
(* not overtaken.                                                            *)
LEMMA FundRead ==
  ASSUME TxTypeOK, ReadsStand, NEW p \in Procs, pc[p] = "body",
         NEW i \in DOMAIN snap[p].lockedFunds
  PROVE  /\ ReadFund(p, i) \in LockedFund
         /\ i \in DOMAIN lockedFunds
         /\ lockedFunds[i].reason = ReadFund(p, i).reason
         /\ NotOvertaken(p, ReadFund(p, i).wallet) => lockedFunds[i] = ReadFund(p, i)
<1>1. /\ snap[p] \in Snapshot /\ FundsStand(snap[p])
  BY ReadTyped DEF Stands
<1>2. snap[p].lockedFunds \in Seq(LockedFund) /\ snap[p].version \in [Wallets -> Nat]
  BY <1>1 DEF Snapshot
<1>3. ReadFund(p, i) \in LockedFund
  BY <1>2 DEF ReadFund
<1>4. /\ i \in DOMAIN lockedFunds
      /\ lockedFunds[i].wallet = ReadFund(p, i).wallet
      /\ lockedFunds[i].amount = ReadFund(p, i).amount
      /\ lockedFunds[i].reason = ReadFund(p, i).reason
      /\ \/ lockedFunds[i].status = ReadFund(p, i).status
         \/ snap[p].version[ReadFund(p, i).wallet] < version[ReadFund(p, i).wallet]
  BY <1>1 DEF FundsStand, ReadFund
<1>5. lockedFunds[i] \in LockedFund /\ version \in [Wallets -> Nat]
  BY <1>4 DEF TxTypeOK, TypeOK
<1>6. ASSUME NotOvertaken(p, ReadFund(p, i).wallet)
      PROVE  lockedFunds[i] = ReadFund(p, i)
  <2>1. ReadFund(p, i).wallet \in Wallets
    BY <1>3 DEF LockedFund
  <2>2. snap[p].version[ReadFund(p, i).wallet] = version[ReadFund(p, i).wallet]
    BY <1>6 DEF NotOvertaken, ReadWallet
  <2>3. lockedFunds[i].status = ReadFund(p, i).status
    BY <1>2, <1>4, <1>5, <2>1, <2>2
  <2> QED
    BY <1>3, <1>4, <1>5, <2>3 DEF LockedFund
<1> QED
  BY <1>3, <1>4, <1>6
-----------------------------------------------------------------------------
(* What the writing of one balance and one row comes to.                     *)
Wrote(w, t, a) ==
  /\ balance' = [balance EXCEPT ![w] = t]
  /\ txns' = Append(txns, a)
  /\ status' = status

LEMMA OneWritten ==
  ASSUME TxTypeOK, NEW p \in Procs, NEW w \in Wallets, NEW t, NEW a,
         Write(p, Only(w, t), <<a>>)
  PROVE  /\ NotOvertaken(p, w)
         /\ KeyFree(a.key) /\ ReferenceFree(a.reference)
         /\ Wrote(w, t, a)
<1>1. DOMAIN Only(w, t) = {w} /\ Only(w, t)[w] = t
  BY DEF Only
<1>2. NotOvertaken(p, w)
  BY <1>1 DEF Write
<1>3. KeyFree(a.key) /\ ReferenceFree(a.reference)
  <2>1. 1 \in DOMAIN <<a>> /\ <<a>>[1] = a
    OBVIOUS
  <2> QED
    BY <2>1 DEF Write
<1>4. balance' = [balance EXCEPT ![w] = t]
  <2>1. balance' = [v \in Wallets |-> IF v \in {w} THEN Only(w, t)[v] ELSE balance[v]]
    BY <1>1 DEF Write
  <2> QED
    BY <1>1, <2>1 DEF TxTypeOK, TypeOK
<1>5. txns' = Append(txns, a)
  BY OneRow DEF Write, TxTypeOK, TypeOK
<1>6. status' = status
  BY DEF Write
<1> QED
  BY <1>2, <1>3, <1>4, <1>5, <1>6 DEF Wrote

LEMMA OnePosted ==
  ASSUME TxTypeOK, NEW p \in Procs, pc[p] = "body", NEW w \in Wallets,
         NEW t \in BalanceState, NEW a \in Txn,
         Write(p, Only(w, t), <<a>>), a.key = req[p].key,
         req[p].op # "commit", FundsMoved({w}),
         books' \in [Accounts -> [play : Int, cash : Int]]
  PROVE  Commits(p)
<1>1. DOMAIN Only(w, t) = {w} /\ \A v \in {w} : Only(w, t)[v] = t
  BY DEF Only
<1>2. RowsMade(req[p], <<a>>)
  BY DEF RowsMade
<1>3. Posts(p, Only(w, t), <<a>>)
  BY <1>1, <1>2 DEF Posts
<1> QED
  BY <1>3 DEF Commits

LEMMA CreditPosts ==
  ASSUME TxTypeOK, ReadsStand, NEW p \in Procs, TxCredit(p)
  PROVE  Commits(p) /\ (Next \/ OverFreeze)
<1>1. PICK r, w, s, t, a :
        /\ r = req[p] /\ w = r.wallet /\ s = ReadWallet(p).balance[w]
        /\ t = credit(s, r.amount)
        /\ a = Row(w, "CREDIT", r.amount, s, t, r.key, AutoRef, 0)
  OBVIOUS
<1>2. pc[p] = "body" /\ r.op = "credit" /\ snap[p].status[w] = "ACTIVE"
  BY <1>1 DEF TxCredit, Body
<1>3. /\ r \in Requests /\ w \in Wallets /\ r.amount \in Amounts /\ r.key \in Keys \cup {NoKey}
      /\ r.amount \in Nat
  BY <1>1, <1>2, ReadTyped, RequestFields, WalletEngineAssumption
<1>4. Write(p, Only(w, t), <<a>>)
  BY <1>1 DEF TxCredit
<1>5. /\ books' = postCash(books, House, w, r.amount)
      /\ lockedFunds' = lockedFunds
  BY <1>1 DEF TxCredit
<1>6. /\ NotOvertaken(p, w) /\ KeyFree(a.key)
      /\ balance' = [balance EXCEPT ![w] = t]
      /\ txns' = Append(txns, a)
      /\ status' = status
  <2>1. NotOvertaken(p, w) /\ KeyFree(a.key) /\ Wrote(w, t, a)
    BY <1>3, <1>4, OneWritten
  <2> QED
    BY <2>1 DEF Wrote
<1>7. s = balance[w] /\ s \in BalanceState
  BY <1>1, <1>2, <1>3, <1>6, ReadTyped
<1>8. t \in BalanceState
  BY <1>1, <1>3, <1>4, <1>7, BalanceMoves
<1>9. a \in Txn /\ a.key = r.key
  <2>1. AutoRef \in Reference /\ "CREDIT" \in TypeCodes /\ 0 \in Nat
    BY DEF AutoRef, Reference, TypeCodes
  <2>2. a \in Txn
    BY <1>1, <1>3, <1>7, <1>8, <2>1, RowTyped
  <2> QED
    BY <1>1, <2>2 DEF Row
<1>10. books' \in [Accounts -> [play : Int, cash : Int]]
  BY <1>3, <1>5, PostTyped DEF Accounts, TxTypeOK, TypeOK
<1>11. Commits(p)
  BY <1>1, <1>2, <1>3, <1>4, <1>5, <1>8, <1>9, <1>10, OnePosted DEF FundsMoved
<1>12. CASE status[w] = "ACTIVE"
  <2>1. Credit(w, r.amount, r.key)
    BY <1>1, <1>4, <1>5, <1>6, <1>7, <1>9, <1>12 DEF Credit
  <2> QED
    BY <1>3, <1>11, <2>1 DEF Next, PlayNext
<1>13. CASE status[w] # "ACTIVE"
  <2>1. status[w] = "FROZEN"
    BY <1>3, <1>13 DEF TxTypeOK, TypeOK
  <2>2. balance' = [balance EXCEPT ![w] = IF r.op = "credit" THEN credit(@, r.amount)
                                                            ELSE debit(@, r.amount)]
    BY <1>1, <1>2, <1>6, <1>7
  <2>3. OverFreeze
    BY <1>1, <1>2, <1>5, <1>6, <2>1, <2>2 DEF OverFreeze
  <2> QED
    BY <1>11, <2>3
<1> QED
  BY <1>12, <1>13

LEMMA DebitPosts ==
  ASSUME TxTypeOK, ReadsStand, NEW p \in Procs, TxDebit(p)
  PROVE  Commits(p) /\ (Next \/ OverFreeze)
<1>1. PICK r, w, s, t, a :
        /\ r = req[p] /\ w = r.wallet /\ s = ReadWallet(p).balance[w]
        /\ t = debit(s, r.amount)
        /\ a = Row(w, "DEBIT", r.amount, s, t, r.key, AutoRef, 0)
  OBVIOUS
<1>2. pc[p] = "body" /\ r.op = "debit" /\ snap[p].status[w] = "ACTIVE"
  BY <1>1 DEF TxDebit, Body
<1>3. /\ r \in Requests /\ w \in Wallets /\ r.amount \in Amounts /\ r.key \in Keys \cup {NoKey}
      /\ r.amount \in Nat
  BY <1>1, <1>2, ReadTyped, RequestFields, WalletEngineAssumption
<1>4. CanDebit(s, r.amount) /\ Write(p, Only(w, t), <<a>>)
  BY <1>1 DEF TxDebit
<1>5. /\ books' = postCash(books, w, House, r.amount)
      /\ lockedFunds' = lockedFunds
  BY <1>1 DEF TxDebit
<1>6. /\ NotOvertaken(p, w) /\ KeyFree(a.key)
      /\ balance' = [balance EXCEPT ![w] = t]
      /\ txns' = Append(txns, a)
      /\ status' = status
  <2>1. NotOvertaken(p, w) /\ KeyFree(a.key) /\ Wrote(w, t, a)
    BY <1>3, <1>4, OneWritten
  <2> QED
    BY <2>1 DEF Wrote
<1>7. s = balance[w] /\ s \in BalanceState
  BY <1>1, <1>2, <1>3, <1>6, ReadTyped
<1>8. t \in BalanceState
  BY <1>1, <1>3, <1>4, <1>7, BalanceMoves
<1>9. a \in Txn /\ a.key = r.key
  <2>1. AutoRef \in Reference /\ "DEBIT" \in TypeCodes /\ 0 \in Nat
    BY DEF AutoRef, Reference, TypeCodes
  <2>2. a \in Txn
    BY <1>1, <1>3, <1>7, <1>8, <2>1, RowTyped
  <2> QED
    BY <1>1, <2>2 DEF Row
<1>10. books' \in [Accounts -> [play : Int, cash : Int]]
  BY <1>3, <1>5, PostTyped DEF Accounts, TxTypeOK, TypeOK
<1>11. Commits(p)
  BY <1>1, <1>2, <1>3, <1>4, <1>5, <1>8, <1>9, <1>10, OnePosted DEF FundsMoved
<1>12. CASE status[w] = "ACTIVE"
  <2>1. Debit(w, r.amount, r.key)
    BY <1>1, <1>4, <1>5, <1>6, <1>7, <1>9, <1>12 DEF Debit
  <2> QED
    BY <1>3, <1>11, <2>1 DEF Next, PlayNext
<1>13. CASE status[w] # "ACTIVE"
  <2>1. status[w] = "FROZEN"
    BY <1>3, <1>13 DEF TxTypeOK, TypeOK
  <2>2. balance' = [balance EXCEPT ![w] = IF r.op = "credit" THEN credit(@, r.amount)
                                                            ELSE debit(@, r.amount)]
    BY <1>1, <1>2, <1>6, <1>7
  <2>3. OverFreeze
    BY <1>1, <1>2, <1>5, <1>6, <2>1, <2>2 DEF OverFreeze
  <2> QED
    BY <1>11, <2>3
<1> QED
  BY <1>12, <1>13
LEMMA ReservePosts ==
  ASSUME TxTypeOK, ReadsStand, NEW p \in Procs, TxReserve(p)
  PROVE  Commits(p) /\ Next
<1>1. PICK r, w, s, t, a, f :
        /\ r = req[p] /\ w = r.wallet /\ s = ReadWallet(p).balance[w]
        /\ t = reserve(s, r.amount)
        /\ a = Row(w, "RESERVE", r.amount, s, t, r.key, <<"stake", r.ref>>, 0)
        /\ f = [wallet |-> w, amount |-> r.amount, reason |-> r.ref, status |-> "LOCKED"]
  OBVIOUS
<1>2. pc[p] = "body" /\ r.op = "reserve"
  BY <1>1 DEF TxReserve, Body
<1>3. /\ r \in Requests /\ w \in Users \X {MAIN} /\ w \in Wallets
      /\ r.amount \in Amounts /\ r.amount \in Nat
      /\ r.key \in Keys \cup {NoKey} /\ r.ref \in Refs
  BY <1>1, <1>2, ReadTyped, RequestFields, WalletEngineAssumption DEF Wallets
<1>4. CanReserve(s, r.amount) /\ Write(p, Only(w, t), <<a>>)
  BY <1>1 DEF TxReserve
<1>5. books' = books /\ lockedFunds' = Append(lockedFunds, f)
  BY <1>1 DEF TxReserve
<1>6. /\ NotOvertaken(p, w) /\ KeyFree(a.key) /\ ReferenceFree(a.reference)
      /\ balance' = [balance EXCEPT ![w] = t]
      /\ txns' = Append(txns, a)
      /\ status' = status
  <2>1. /\ NotOvertaken(p, w) /\ KeyFree(a.key) /\ ReferenceFree(a.reference)
        /\ Wrote(w, t, a)
    BY <1>3, <1>4, OneWritten
  <2> QED
    BY <2>1 DEF Wrote
<1>7. s = balance[w] /\ s \in BalanceState
  BY <1>1, <1>2, <1>3, <1>6, ReadTyped
<1>8. t \in BalanceState
  BY <1>1, <1>3, <1>4, <1>7, BalanceMoves
<1>9. a \in Txn /\ a.key = r.key /\ a.reference = <<"stake", r.ref>> /\ f \in LockedFund
  <2>1. <<"stake", r.ref>> \in Reference /\ "RESERVE" \in TypeCodes /\ 0 \in Nat
    BY <1>3 DEF Reference, TypeCodes
  <2>2. a \in Txn
    BY <1>1, <1>3, <1>7, <1>8, <2>1, RowTyped
  <2>3. a.key = r.key /\ a.reference = <<"stake", r.ref>>
    BY <1>1 DEF Row
  <2>4. f \in LockedFund
    BY <1>1, <1>3 DEF LockedFund
  <2> QED
    BY <2>2, <2>3, <2>4
<1>10. books' \in [Accounts -> [play : Int, cash : Int]]
  BY <1>5 DEF TxTypeOK, TypeOK
<1>11. Commits(p)
  BY <1>1, <1>2, <1>3, <1>4, <1>5, <1>8, <1>9, <1>10, OnePosted DEF FundsMoved
<1>12. PICK u \in Users : w = <<u, MAIN>>
  BY <1>3
<1>13. Reserve(u, r.amount, r.ref, r.key)
  BY <1>1, <1>4, <1>5, <1>6, <1>7, <1>9, <1>12 DEF Reserve
<1> QED
  BY <1>3, <1>11, <1>13 DEF Next, PlayNext

LEMMA ReleasePosts ==
  ASSUME TxTypeOK, ReadsStand, NEW p \in Procs, TxRelease(p)
  PROVE  Commits(p) /\ Next
<1>1. PICK r, f, w, s, t, a :
        /\ r = req[p] /\ f = ReadFund(p, r.fund) /\ w = f.wallet
        /\ s = ReadWallet(p).balance[w]
        /\ t = releaseReserved(s, f.amount)
        /\ a = Row(w, "RESERVE_RELEASE", f.amount, s, t, r.key, <<"release", f.reason>>, 0)
  OBVIOUS
<1>2. pc[p] = "body" /\ r.op = "release" /\ r.fund \in DOMAIN snap[p].lockedFunds
  BY <1>1 DEF TxRelease, Body
<1>3. /\ r \in Requests /\ r.key \in Keys \cup {NoKey}
      /\ f \in LockedFund /\ r.fund \in DOMAIN lockedFunds
      /\ w \in Wallets /\ f.amount \in Amounts /\ f.amount \in Nat /\ f.reason \in Refs
  <2>1. f \in LockedFund /\ r.fund \in DOMAIN lockedFunds
    BY <1>1, <1>2, FundRead
  <2>2. r \in Requests /\ r.key \in Keys \cup {NoKey}
    BY <1>1, <1>2, ReadTyped, RequestFields
  <2> QED
    BY <1>1, <2>1, <2>2, WalletEngineAssumption DEF LockedFund
<1>4. /\ f.status = "LOCKED" /\ CanSettle(s, f.amount)
      /\ Write(p, Only(w, t), <<a>>)
  BY <1>1 DEF TxRelease
<1>5. books' = books /\ lockedFunds' = Resolved(r.fund)
  BY <1>1 DEF TxRelease
<1>6. /\ NotOvertaken(p, w) /\ KeyFree(a.key) /\ ReferenceFree(a.reference)
      /\ balance' = [balance EXCEPT ![w] = t]
      /\ txns' = Append(txns, a)
      /\ status' = status
  <2>1. /\ NotOvertaken(p, w) /\ KeyFree(a.key) /\ ReferenceFree(a.reference)
        /\ Wrote(w, t, a)
    BY <1>3, <1>4, OneWritten
  <2> QED
    BY <2>1 DEF Wrote
<1>7. s = balance[w] /\ s \in BalanceState /\ lockedFunds[r.fund] = f
  BY <1>1, <1>2, <1>3, <1>6, ReadTyped, FundRead
<1>8. t \in BalanceState
  BY <1>1, <1>3, <1>4, <1>7, BalanceMoves
<1>9. a \in Txn /\ a.key = r.key /\ a.reference = <<"release", f.reason>>
  <2>1. <<"release", f.reason>> \in Reference /\ "RESERVE_RELEASE" \in TypeCodes /\ 0 \in Nat
    BY <1>3 DEF Reference, TypeCodes
  <2>2. a \in Txn
    BY <1>1, <1>3, <1>7, <1>8, <2>1, RowTyped
  <2> QED
    BY <1>1, <2>2 DEF Row
<1>10. books' \in [Accounts -> [play : Int, cash : Int]]
  BY <1>5 DEF TxTypeOK, TypeOK
<1>11. FundsMoved({w})
  BY <1>1, <1>3, <1>5, <1>7 DEF FundsMoved
<1>12. Commits(p)
  BY <1>1, <1>2, <1>3, <1>4, <1>8, <1>9, <1>10, <1>11, OnePosted
<1>13. ReleaseReservation(r.fund, r.key)
  BY <1>1, <1>4, <1>5, <1>6, <1>7, <1>9 DEF ReleaseReservation
<1> QED
  BY <1>3, <1>12, <1>13 DEF Next, PlayNext

LEMMA RollbackPosts ==
  ASSUME TxTypeOK, ReadsStand, NEW p \in Procs, TxRollback(p)
  PROVE  Commits(p) /\ Next
<1>1. PICK r, o, w, s, t, a :
        /\ r = req[p] /\ o = snap[p].txns[r.row] /\ w = o.wallet
        /\ s = ReadWallet(p).balance[w]
        /\ t = IF wasDebit(o) THEN credit(s, o.amount) ELSE debit(s, o.amount)
        /\ a = Row(w, "ROLLBACK", o.amount, s, t, r.key, AutoRef, r.row)
  OBVIOUS
<1>2. pc[p] = "body" /\ r.op = "rollback" /\ r.row \in DOMAIN snap[p].txns
  BY <1>1 DEF TxRollback, Body
<1>3. /\ r \in Requests /\ r.key \in Keys \cup {NoKey} /\ r.row \in Nat
      /\ o \in Txn /\ r.row \in DOMAIN txns /\ txns[r.row] = o
      /\ w \in Wallets /\ o.amount \in Amounts /\ o.amount \in Nat
  <2>1. o \in Txn /\ r.row \in DOMAIN txns /\ txns[r.row] = o
    BY <1>1, <1>2, ReadTyped
  <2>2. r \in Requests /\ r.key \in Keys \cup {NoKey} /\ r.row \in Nat
    BY <1>1, <1>2, ReadTyped, RequestFields
  <2> QED
    BY <1>1, <2>1, <2>2, WalletEngineAssumption DEF Txn
<1>4. /\ wasDebit(o) \/ CanDebit(s, o.amount)
      /\ Write(p, Only(w, t), <<a>>)
  BY <1>1 DEF TxRollback
<1>5. books' = books /\ lockedFunds' = lockedFunds
  BY DEF TxRollback
<1>6. /\ NotOvertaken(p, w) /\ KeyFree(a.key)
      /\ balance' = [balance EXCEPT ![w] = t]
      /\ txns' = Append(txns, a)
      /\ status' = status
  <2>1. NotOvertaken(p, w) /\ KeyFree(a.key) /\ Wrote(w, t, a)
    BY <1>3, <1>4, OneWritten
  <2> QED
    BY <2>1 DEF Wrote
<1>7. s = balance[w] /\ s \in BalanceState
  BY <1>1, <1>2, <1>3, <1>6, ReadTyped
<1>8. t \in BalanceState
  BY <1>1, <1>3, <1>4, <1>7, BalanceMoves
<1>9. a \in Txn /\ a.key = r.key
  <2>1. AutoRef \in Reference /\ "ROLLBACK" \in TypeCodes
    BY DEF AutoRef, Reference, TypeCodes
  <2>2. a \in Txn
    BY <1>1, <1>3, <1>7, <1>8, <2>1, RowTyped
  <2> QED
    BY <1>1, <2>2 DEF Row
<1>10. books' \in [Accounts -> [play : Int, cash : Int]]
  BY <1>5 DEF TxTypeOK, TypeOK
<1>11. Commits(p)
  BY <1>1, <1>2, <1>3, <1>4, <1>5, <1>8, <1>9, <1>10, OnePosted DEF FundsMoved
<1>12. Rollback(r.row, r.key)
  BY <1>1, <1>3, <1>4, <1>5, <1>6, <1>7, <1>9 DEF Rollback
<1> QED
  BY <1>3, <1>11, <1>12 DEF Next, Correction

(* The same of two rows.                                                     *)
LEMMA TwoWritten ==
  ASSUME TxTypeOK, NEW p \in Procs, NEW next, NEW a, NEW b,
         Write(p, next, <<a, b>>)
  PROVE  /\ KeyFree(a.key) /\ ReferenceFree(a.reference)
         /\ KeyFree(b.key) /\ ReferenceFree(b.reference)
<1>1. /\ 1 \in DOMAIN <<a, b>> /\ <<a, b>>[1] = a
      /\ 2 \in DOMAIN <<a, b>> /\ <<a, b>>[2] = b
  OBVIOUS
<1> QED
  BY <1>1 DEF Write

LEMMA TransferPosts ==
  ASSUME TxTypeOK, ReadsStand, NEW p \in Procs, TxTransfer(p)
  PROVE  Commits(p) /\ Next
<1>1. PICK r, v, w, s, t, s2, t2, a, b, next :
        /\ r = req[p] /\ v = r.from /\ w = r.to
        /\ s = ReadWallet(p).balance[v] /\ t = ReadWallet(p).balance[w]
        /\ s2 = debit(s, r.amount) /\ t2 = credit(t, r.amount)
        /\ a = Row(v, "TRANSFER_OUT", r.amount, s, s2, r.key, AutoRef, 0)
        /\ b = Row(w, "TRANSFER_IN", r.amount, t, t2, NoKey, AutoRef, Len(txns) + 1)
        /\ next = [x \in {v, w} |-> IF x = v THEN s2 ELSE t2]
  OBVIOUS
<1>2. pc[p] = "body" /\ r.op = "transfer" /\ v # w
  BY <1>1 DEF TxTransfer, Body
<1>3. /\ r \in Requests /\ r.key \in Keys \cup {NoKey}
      /\ v \in Wallets /\ w \in Wallets /\ v[1] = w[1]
      /\ r.amount \in Amounts /\ r.amount \in Nat
  BY <1>1, <1>2, ReadTyped, RequestFields, WalletEngineAssumption
<1>4. CanDebit(s, r.amount) /\ Write(p, next, <<a, b>>)
  BY <1>1 DEF TxTransfer
<1>5. books' = postCash(books, v, w, r.amount) /\ lockedFunds' = lockedFunds
  BY <1>1 DEF TxTransfer
<1>6. /\ DOMAIN next = {v, w} /\ next[v] = s2 /\ next[w] = t2
      /\ NotOvertaken(p, v) /\ NotOvertaken(p, w)
      /\ txns' = txns \o <<a, b>> /\ status' = status
      /\ KeyFree(a.key)
  <2>1. DOMAIN next = {v, w} /\ next[v] = s2 /\ next[w] = t2
    BY <1>1, <1>2
  <2>2. KeyFree(a.key)
    BY <1>4, TwoWritten
  <2> QED
    BY <1>4, <2>1, <2>2 DEF Write
<1>7. balance' = [balance EXCEPT ![v] = s2, ![w] = t2]
  <2>1. balance' = [x \in Wallets |-> IF x \in {v, w} THEN next[x] ELSE balance[x]]
    BY <1>4, <1>6 DEF Write
  <2>2. balance \in [Wallets -> BalanceState]
    BY DEF TxTypeOK, TypeOK
  <2> QED
    BY <1>2, <1>3, <1>6, <2>1, <2>2
<1>8. s = balance[v] /\ t = balance[w] /\ s \in BalanceState /\ t \in BalanceState
  BY <1>1, <1>2, <1>3, <1>6, ReadTyped
<1>9. s2 \in BalanceState /\ t2 \in BalanceState
  BY <1>1, <1>3, <1>4, <1>8, BalanceMoves
<1>10. /\ a \in Txn /\ a.key = r.key
       /\ b \in Txn /\ b.key = NoKey /\ b.reference = AutoRef
  <2>1. /\ AutoRef \in Reference /\ "TRANSFER_OUT" \in TypeCodes /\ "TRANSFER_IN" \in TypeCodes
        /\ 0 \in Nat /\ Len(txns) + 1 \in Nat
    BY DEF AutoRef, Reference, TypeCodes, TxTypeOK, TypeOK
  <2>2. a \in Txn
    BY <1>1, <1>3, <1>8, <1>9, <2>1, RowTyped
  <2>3. b \in Txn
    BY <1>1, <1>3, <1>8, <1>9, <2>1, RowTyped
  <2> QED
    BY <1>1, <2>2, <2>3 DEF Row
<1>11. books' \in [Accounts -> [play : Int, cash : Int]]
  BY <1>3, <1>5, PostTyped DEF Accounts, TxTypeOK, TypeOK
<1>12. Commits(p)
  <2>1. RowsMade(r, <<a, b>>)
    BY <1>10 DEF RowsMade
  <2>2. FundsMoved(DOMAIN next)
    BY <1>5 DEF FundsMoved
  <2>3. \A x \in DOMAIN next : next[x] \in BalanceState
    BY <1>6, <1>9
  <2>4. Posts(p, next, <<a, b>>)
    BY <1>1, <1>2, <1>3, <1>4, <1>6, <1>11, <2>1, <2>2, <2>3 DEF Posts
  <2> QED
    BY <2>4 DEF Commits
<1>13. PICK u \in Users, x \in Types, y \in Types : v = <<u, x>> /\ w = <<u, y>>
  BY <1>3 DEF Wallets
<1>14. x # y /\ KeyFree(r.key)
  BY <1>2, <1>6, <1>10, <1>13
<1>15. Transfer(u, x, y, r.amount, r.key)
  BY <1>1, <1>4, <1>5, <1>6, <1>7, <1>8, <1>13, <1>14 DEF Transfer
<1> QED
  BY <1>3, <1>12, <1>15 DEF Next, PlayNext

LEMMA CommitPosts ==
  ASSUME TxTypeOK, ReadsStand, NEW p \in Procs, TxCommit(p)
  PROVE  Commits(p) /\ Next
<1>1. PICK r, f, w, s, t, u, a, b, rows, taken :
        /\ r = req[p] /\ f = ReadFund(p, r.fund) /\ w = f.wallet
        /\ s = ReadWallet(p).balance[w]
        /\ t = commitReserved(s, f.amount)
        /\ u = IF r.win > 0 THEN credit(t, r.win) ELSE t
        /\ a = Row(w, "GAME_BET", f.amount, s, u, r.key, <<"bet", f.reason>>, 0)
        /\ b = [wallet |-> w, type |-> "GAME_WIN", amount |-> r.win,
                before |-> f.amount, after |-> total(u), key |-> NoKey,
                reference |-> <<"win", f.reason>>, related |-> 0]
        /\ rows = IF r.win > 0 THEN <<a, b>> ELSE <<a>>
        /\ taken = postPlay(books, w, House, f.amount)
  OBVIOUS
<1>2. pc[p] = "body" /\ r.op = "commit" /\ r.fund \in DOMAIN snap[p].lockedFunds
  BY <1>1 DEF TxCommit, Body
<1>3. /\ r \in Requests /\ r.key \in Keys \cup {NoKey} /\ r.win \in Amounts \cup {0}
      /\ f \in LockedFund /\ r.fund \in DOMAIN lockedFunds /\ lockedFunds[r.fund].reason = f.reason
      /\ w \in Wallets /\ f.amount \in Amounts /\ f.amount \in Nat /\ f.reason \in Refs
      /\ r.win \in Nat /\ (r.win > 0 => r.win \in Amounts)
  <2>1. f \in LockedFund /\ r.fund \in DOMAIN lockedFunds /\ lockedFunds[r.fund].reason = f.reason
    BY <1>1, <1>2, FundRead
  <2>2. r \in Requests /\ r.key \in Keys \cup {NoKey} /\ r.win \in Amounts \cup {0}
    BY <1>1, <1>2, ReadTyped, RequestFields
  <2>3. r.win \in Nat /\ (r.win > 0 => r.win \in Amounts)
    <3>1. CASE r.win = 0
      BY <3>1
    <3>2. CASE r.win \in Amounts
      BY <3>2, WalletEngineAssumption
    <3> QED
      BY <2>2, <3>1, <3>2
  <2>4. w \in Wallets /\ f.amount \in Amounts /\ f.amount \in Nat /\ f.reason \in Refs
    BY <1>1, <2>1, WalletEngineAssumption DEF LockedFund
  <2> QED
    BY <2>1, <2>2, <2>3, <2>4
<1>4. /\ f.status = "LOCKED" /\ CanSettle(s, f.amount)
      /\ Write(p, Only(w, u), rows)
  BY <1>1 DEF TxCommit
<1>5. /\ lockedFunds' = Resolved(r.fund)
      /\ books' = IF r.win > 0 THEN postPlay(taken, House, w, r.win) ELSE taken
  BY <1>1 DEF TxCommit
<1>6. /\ DOMAIN Only(w, u) = {w} /\ Only(w, u)[w] = u
      /\ NotOvertaken(p, w)
      /\ balance' = [balance EXCEPT ![w] = u]
      /\ txns' = txns \o rows /\ status' = status
  <2>1. DOMAIN Only(w, u) = {w} /\ Only(w, u)[w] = u
    BY DEF Only
  <2>2. balance' = [x \in Wallets |-> IF x \in {w} THEN Only(w, u)[x] ELSE balance[x]]
    BY <1>4, <2>1 DEF Write
  <2>3. balance \in [Wallets -> BalanceState]
    BY DEF TxTypeOK, TypeOK
  <2>4. balance' = [balance EXCEPT ![w] = u]
    BY <2>1, <2>2, <2>3
  <2> QED
    BY <1>4, <2>1, <2>4 DEF Write
<1>7. s = balance[w] /\ s \in BalanceState /\ lockedFunds[r.fund] = f
  BY <1>1, <1>2, <1>3, <1>6, ReadTyped, FundRead
<1>8. t \in BalanceState /\ u \in BalanceState
  BY <1>1, <1>3, <1>4, <1>7, BalanceMoves
<1>9. /\ a \in Txn /\ a.key = r.key /\ a.reference = <<"bet", f.reason>>
      /\ b.key = NoKey /\ b.reference = <<"win", f.reason>>
      /\ (r.win > 0 => b \in Txn)
  <2>1. /\ <<"bet", f.reason>> \in Reference /\ <<"win", f.reason>> \in Reference
        /\ "GAME_BET" \in TypeCodes /\ "GAME_WIN" \in TypeCodes /\ 0 \in Nat
    BY <1>3 DEF Reference, TypeCodes
  <2>2. a \in Txn
    BY <1>1, <1>3, <1>7, <1>8, <2>1, RowTyped
  <2>3. ASSUME r.win > 0 PROVE b \in Txn
    <3>1. total(u) \in Nat
      BY <1>8, TotalIsNat
    <3> QED
      BY <1>1, <1>3, <2>1, <2>3, <3>1 DEF Txn
  <2> QED
    BY <1>1, <2>2, <2>3 DEF Row
<1>10. /\ KeyFree(r.key) /\ ReferenceFree(<<"bet", f.reason>>)
       /\ r.win > 0 => ReferenceFree(<<"win", f.reason>>)
  <2>1. CASE r.win > 0
    <3>1. Write(p, Only(w, u), <<a, b>>)
      BY <1>1, <1>4, <2>1
    <3>2. /\ KeyFree(a.key) /\ ReferenceFree(a.reference)
          /\ ReferenceFree(b.reference)
      BY <3>1, TwoWritten
    <3> QED
      BY <1>9, <3>2
  <2>2. CASE ~(r.win > 0)
    <3>1. Write(p, Only(w, u), <<a>>)
      BY <1>1, <1>4, <2>2
    <3>2. KeyFree(a.key) /\ ReferenceFree(a.reference)
      BY <1>3, <3>1, OneWritten
    <3> QED
      BY <1>9, <2>2, <3>2
  <2> QED
    BY <2>1, <2>2
<1>11. books' \in [Accounts -> [play : Int, cash : Int]]
  <2>1. House \in Accounts /\ w \in Accounts /\ books \in [Accounts -> [play : Int, cash : Int]]
    BY <1>3 DEF Accounts, TxTypeOK, TypeOK
  <2>2. taken \in [Accounts -> [play : Int, cash : Int]]
    BY <1>1, <1>3, <2>1, PostTyped
  <2>3. postPlay(taken, House, w, r.win) \in [Accounts -> [play : Int, cash : Int]]
    BY <1>3, <2>1, <2>2, PostTyped
  <2> QED
    BY <1>5, <2>2, <2>3
<1>12. Commits(p)
  <2>1. RowsMade(r, rows) /\ rows[1] = a
    <3>1. CASE r.win > 0
      <4>1. rows = <<a, b>> /\ rows[1] = a
        BY <1>1, <3>1
      <4>2. b \in Txn /\ b.reference # a.reference
        BY <1>9, <3>1
      <4> QED
        BY <1>9, <4>1, <4>2 DEF RowsMade
    <3>2. CASE ~(r.win > 0)
      BY <1>1, <1>9, <3>2 DEF RowsMade
    <3> QED
      BY <3>1, <3>2
  <2>2. FundsMoved(DOMAIN Only(w, u))
    BY <1>1, <1>3, <1>5, <1>6, <1>7 DEF FundsMoved
  <2>3. \A x \in DOMAIN Only(w, u) : Only(w, u)[x] \in BalanceState
    BY <1>6, <1>8
  <2>4. rows[1].reference = <<"bet", lockedFunds[r.fund].reason>>
    BY <1>3, <1>9, <2>1
  <2>5. Posts(p, Only(w, u), rows)
    BY <1>1, <1>2, <1>3, <1>4, <1>6, <1>11, <2>1, <2>2, <2>3, <2>4 DEF Posts
  <2> QED
    BY <2>5 DEF Commits
<1>13. CommitReservation(r.fund, r.win, r.key)
  <2>1. b = [Row(w, "GAME_WIN", r.win, u, u, NoKey, <<"win", f.reason>>, 0) EXCEPT !.before = f.amount]
    <3>1. b = [wallet |-> w, type |-> "GAME_WIN", amount |-> r.win,
               before |-> f.amount, after |-> total(u), key |-> NoKey,
               reference |-> <<"win", f.reason>>, related |-> 0]
      BY <1>1
    <3> QED
      BY <3>1 DEF Row
  <2>2. /\ lockedFunds[r.fund] = f /\ f.wallet = w /\ balance[w] = s
        /\ t = commitReserved(s, f.amount)
        /\ u = IF r.win > 0 THEN credit(t, r.win) ELSE t
    BY <1>1, <1>7
  <2>3. txns' = txns \o (IF r.win > 0 THEN <<a, b>> ELSE <<a>>)
    BY <1>1, <1>6
  <2>4. books' = IF r.win > 0 THEN postPlay(postPlay(books, w, House, f.amount), House, w, r.win)
                 ELSE postPlay(books, w, House, f.amount)
    BY <1>1, <1>5
  <2>5. a = Row(w, "GAME_BET", f.amount, s, u, r.key, <<"bet", f.reason>>, 0)
    BY <1>1
  <2> QED
    BY <1>4, <1>5, <1>6, <1>10, <2>1, <2>2, <2>3, <2>4, <2>5 DEF CommitReservation
<1> QED
  BY <1>3, <1>12, <1>13 DEF Next, PlayNext
-----------------------------------------------------------------------------
(* The steps that leave the tables alone.                                    *)
Quiet(p) ==
  \/ \E r \in Requests : Submit(p, r)
  \/ Acquire(p) \/ GiveUp(p) \/ Begin(p) \/ Abort(p)
  \/ Replay(p) \/ TxCommitted(p) \/ TxReleased(p) \/ Refused(p)
  \/ Unlock(p) \/ Del(p) \/ Crash(p)

LEMMA QuietTables ==
  ASSUME NEW p \in Procs, Quiet(p)
  PROVE  UNCHANGED <<tables, version>>
<1>1. CASE \E r \in Requests : Submit(p, r)
  BY <1>1 DEF Submit
<1>2. CASE Acquire(p) \/ GiveUp(p) \/ Begin(p) \/ Abort(p)
  BY <1>2 DEF Acquire, GiveUp, Begin, Abort
<1>3. CASE Replay(p) \/ TxCommitted(p) \/ TxReleased(p) \/ Refused(p)
  BY <1>3 DEF Replay, TxCommitted, TxReleased, Refused, Answer
<1>4. CASE Unlock(p) \/ Del(p) \/ Crash(p)
  BY <1>4 DEF Unlock, Del, Crash
<1> QED
  BY <1>1, <1>2, <1>3, <1>4 DEF Quiet

LEMMA TxCases ==
  ASSUME TxTypeOK, ReadsStand, TxNext
  PROVE  \/ \E p \in Procs : Quiet(p)
         \/ \E p \in Procs : Commits(p) /\ (Next \/ OverFreeze)
         \/ \E w \in Wallets : Expire(w)
         \/ \E w \in Wallets, to \in {"ACTIVE", "FROZEN"} : TxSetStatus(w, to)
<1>1. ASSUME NEW p \in Procs, Serve(p)
      PROVE  Quiet(p) \/ (Commits(p) /\ (Next \/ OverFreeze))
  <2>1. CASE Quiet(p)
    BY <2>1
  <2>2. CASE \/ TxCredit(p) \/ TxDebit(p) \/ TxReserve(p) \/ TxCommit(p)
             \/ TxRelease(p) \/ TxTransfer(p) \/ TxRollback(p)
    BY <2>2, CreditPosts, DebitPosts, ReservePosts, CommitPosts, ReleasePosts,
       TransferPosts, RollbackPosts
  <2> QED
    BY <1>1, <2>1, <2>2 DEF Serve, Quiet
<1> QED
  BY <1>1 DEF TxNext, Quiet

(* Rows are appended.                                                        *)
Appended(rows) ==
  /\ Len(rows) \in {1, 2} /\ Len(txns) \in Nat
  /\ \A i \in 1 .. Len(rows) :
       Len(txns) + i \in DOMAIN txns' /\ txns'[Len(txns) + i] = rows[i]
  /\ \A j \in DOMAIN txns' :
       j \in DOMAIN txns \/ \E i \in 1 .. Len(rows) : j = Len(txns) + i

(* What a commit leaves of the tables, ...                                   *)
LEMMA CommitTables ==
  ASSUME TxTypeOK, NEW p \in Procs, NEW next, NEW rows, Posts(p, next, rows)
  PROVE  /\ DOMAIN next \subseteq Wallets
         /\ rows \in Seq(Txn) /\ Len(rows) \in {1, 2}
         /\ \A w \in Wallets : balance'[w] = IF w \in DOMAIN next THEN next[w] ELSE balance[w]
         /\ \A w \in Wallets :
              version'[w] = IF w \in DOMAIN next THEN version[w] + 1 ELSE version[w]
         /\ \A i \in DOMAIN txns : i \in DOMAIN txns' /\ txns'[i] = txns[i]
         /\ Appended(rows)
         /\ txns' \in Seq(Txn)
<1>1. Write(p, next, rows) /\ RowsMade(req[p], rows) /\ DOMAIN next \subseteq Wallets
  BY DEF Posts
<1>2. rows \in Seq(Txn) /\ Len(rows) \in {1, 2}
  <2>1. CASE \E a \in Txn : rows = <<a>>
    BY <2>1
  <2>2. CASE \E a, b \in Txn : rows = <<a, b>>
    BY <2>2
  <2> QED
    BY <1>1, <2>1, <2>2 DEF RowsMade
<1>3. /\ \A w \in Wallets : balance'[w] = IF w \in DOMAIN next THEN next[w] ELSE balance[w]
      /\ \A w \in Wallets :
           version'[w] = IF w \in DOMAIN next THEN version[w] + 1 ELSE version[w]
  BY <1>1 DEF Write
<1>4. txns \in Seq(Txn) /\ txns' = txns \o rows
  BY <1>1 DEF Write, TxTypeOK, TypeOK
<1>5. /\ txns' \in Seq(Txn)
      /\ Len(txns) \in Nat /\ Len(txns') = Len(txns) + Len(rows)
      /\ DOMAIN txns = 1 .. Len(txns) /\ DOMAIN txns' = 1 .. Len(txns')
      /\ \A i \in 1 .. Len(txns) + Len(rows) :
           txns'[i] = IF i <= Len(txns) THEN txns[i] ELSE rows[i - Len(txns)]
  BY <1>2, <1>4, ConcatProperties, LenProperties
<1>6. \A i \in DOMAIN txns : i \in DOMAIN txns' /\ txns'[i] = txns[i]
  BY <1>2, <1>5
<1>7. Appended(rows)
  <2>1. \A i \in 1 .. Len(rows) :
          Len(txns) + i \in DOMAIN txns' /\ txns'[Len(txns) + i] = rows[i]
    BY <1>2, <1>5
  <2>2. ASSUME NEW j \in DOMAIN txns', j \notin DOMAIN txns
        PROVE  \E i \in 1 .. Len(rows) : j = Len(txns) + i
    <3>1. j - Len(txns) \in 1 .. Len(rows) /\ j = Len(txns) + (j - Len(txns))
      BY <1>2, <1>5, <2>2
    <3> QED
      BY <3>1
  <2> QED
    BY <1>2, <1>5, <2>1, <2>2 DEF Appended
<1> QED
  BY <1>1, <1>2, <1>3, <1>5, <1>6, <1>7

(* ... and of the reservations.                                              *)
LEMMA CommitFunds ==
  ASSUME TxTypeOK, NEW W \in SUBSET Wallets, FundsMoved(W)
  PROVE  /\ lockedFunds' \in Seq(LockedFund)
         /\ \A i \in DOMAIN lockedFunds :
              /\ i \in DOMAIN lockedFunds'
              /\ lockedFunds'[i].wallet = lockedFunds[i].wallet
              /\ lockedFunds'[i].amount = lockedFunds[i].amount
              /\ lockedFunds'[i].reason = lockedFunds[i].reason
              /\ \/ lockedFunds'[i].status = lockedFunds[i].status
                 \/ lockedFunds[i].wallet \in W
<1>1. /\ lockedFunds \in Seq(LockedFund)
      /\ DOMAIN lockedFunds = 1 .. Len(lockedFunds) /\ Len(lockedFunds) \in Nat
      /\ \A i \in DOMAIN lockedFunds : lockedFunds[i] \in LockedFund
  BY LenProperties DEF TxTypeOK, TypeOK
<1>2. CASE lockedFunds' = lockedFunds
  BY <1>1, <1>2
<1>3. CASE \E f \in LockedFund : lockedFunds' = Append(lockedFunds, f)
  <2>1. PICK f \in LockedFund : lockedFunds' = Append(lockedFunds, f)
    BY <1>3
  <2>2. /\ lockedFunds' \in Seq(LockedFund)
        /\ DOMAIN lockedFunds' = DOMAIN lockedFunds \cup {Len(lockedFunds) + 1}
        /\ \A i \in DOMAIN lockedFunds : lockedFunds'[i] = lockedFunds[i]
    BY <1>1, <2>1, OneRow
  <2> QED
    BY <1>1, <2>2
<1>4. CASE \E j \in DOMAIN lockedFunds : lockedFunds[j].wallet \in W /\ lockedFunds' = Resolved(j)
  <2>1. PICK j \in DOMAIN lockedFunds : lockedFunds[j].wallet \in W /\ lockedFunds' = Resolved(j)
    BY <1>4
  <2>2. PICK g : g = [lockedFunds[j] EXCEPT !.status = "RELEASED"]
    OBVIOUS
  <2>3. /\ g \in LockedFund /\ g.wallet = lockedFunds[j].wallet
        /\ g.amount = lockedFunds[j].amount /\ g.reason = lockedFunds[j].reason
    BY <1>1, <2>2 DEF LockedFund
  <2>4. lockedFunds' = [lockedFunds EXCEPT ![j] = g]
    BY <2>1, <2>2 DEF Resolved
  <2>5. /\ lockedFunds' \in Seq(LockedFund)
        /\ DOMAIN lockedFunds' = DOMAIN lockedFunds
        /\ \A i \in DOMAIN lockedFunds : lockedFunds'[i] = IF i = j THEN g ELSE lockedFunds[i]
    BY <1>1, <2>3, <2>4
  <2> QED
    BY <1>1, <2>1, <2>3, <2>5
<1> QED
  BY <1>2, <1>3, <1>4 DEF FundsMoved

(* Reads stand on while others commit.                                       *)
LEMMA StandOn ==
  ASSUME TxTypeOK, NEW p \in Procs, Commits(p), NEW s \in Snapshot, Stands(s)
  PROVE  Stands(s)'
<1>1. PICK next, rows : Posts(p, next, rows)
  BY DEF Commits
<1>2. DOMAIN next \subseteq Wallets /\ FundsMoved(DOMAIN next)
  BY <1>1 DEF Posts
<1>3. /\ \A w \in Wallets : balance'[w] = IF w \in DOMAIN next THEN next[w] ELSE balance[w]
      /\ \A w \in Wallets :
           version'[w] = IF w \in DOMAIN next THEN version[w] + 1 ELSE version[w]
      /\ \A i \in DOMAIN txns : i \in DOMAIN txns' /\ txns'[i] = txns[i]
  BY <1>1, CommitTables
<1>4. \A w \in Wallets : version[w] \in Nat /\ s.version[w] \in Nat
  BY DEF TxTypeOK, Snapshot
<1>5. RowsStand(s)'
  BY <1>3 DEF Stands, RowsStand
<1>6. BalancesStand(s)'
  BY <1>3, <1>4 DEF Stands, BalancesStand
<1>7. FundsStand(s)'
  <2> SUFFICES ASSUME NEW i \in DOMAIN s.lockedFunds
               PROVE  /\ i \in DOMAIN lockedFunds'
                      /\ lockedFunds'[i].wallet = s.lockedFunds[i].wallet
                      /\ lockedFunds'[i].amount = s.lockedFunds[i].amount
                      /\ lockedFunds'[i].reason = s.lockedFunds[i].reason
                      /\ \/ lockedFunds'[i].status = s.lockedFunds[i].status
                         \/ s.version[lockedFunds'[i].wallet] < version'[lockedFunds'[i].wallet]
    BY DEF FundsStand
  <2>1. /\ i \in DOMAIN lockedFunds
        /\ lockedFunds[i].wallet = s.lockedFunds[i].wallet
        /\ lockedFunds[i].amount = s.lockedFunds[i].amount
        /\ lockedFunds[i].reason = s.lockedFunds[i].reason
        /\ \/ lockedFunds[i].status = s.lockedFunds[i].status
           \/ s.version[lockedFunds[i].wallet] < version[lockedFunds[i].wallet]
    BY DEF Stands, FundsStand
  <2>2. /\ i \in DOMAIN lockedFunds'
        /\ lockedFunds'[i].wallet = lockedFunds[i].wallet
        /\ lockedFunds'[i].amount = lockedFunds[i].amount
        /\ lockedFunds'[i].reason = lockedFunds[i].reason
        /\ \/ lockedFunds'[i].status = lockedFunds[i].status
           \/ lockedFunds[i].wallet \in DOMAIN next
    BY <1>2, <2>1, CommitFunds
  <2>3. lockedFunds[i].wallet \in Wallets
    <3>1. lockedFunds[i] \in LockedFund
      BY <2>1 DEF TxTypeOK, TypeOK
    <3> QED
      BY <3>1 DEF LockedFund
  <2>4. PICK w \in Wallets : w = lockedFunds[i].wallet
    BY <2>3
  <2>5. s.version[w] <= version[w]
    BY DEF Stands, BalancesStand
  <2>6. \/ lockedFunds'[i].status = s.lockedFunds[i].status
        \/ s.version[w] < version'[w]
    BY <1>3, <1>4, <2>1, <2>2, <2>4, <2>5
  <2> QED
    BY <2>1, <2>2, <2>4, <2>6
<1> QED
  BY <1>5, <1>6, <1>7 DEF Stands
-----------------------------------------------------------------------------
(* A request that may still be tried has an attempt left.                    *)
AttemptsLeft == \A p \in Procs : pc[p] \in {"lock", "begin", "body"} => attempt[p] < MaxRetries

(* The variables of the processes are typed.                                 *)
ProcsTyped ==
  /\ locks \in [Wallets -> Procs \cup {NoProc}]
  /\ pc \in [Procs -> {"idle", "lock", "begin", "body", "unlock", "del"}]
  /\ req \in [Procs -> Requests \cup {NoRequest}]
  /\ held \in [Procs -> Seq(Wallets)]
  /\ attempt \in [Procs -> 0 .. MaxRetries]
  /\ snap \in [Procs -> Snapshot \cup {NoSnap}]
  /\ \A p \in Procs : pc[p] # "idle" => req[p] \in Requests
  /\ answer \in [Procs ->
       [kind : {"pending", "done", "refused", "conflict"}, row : Nat]]

(* A waiting request holds the first of its locks, in order; an idle process *)
(* holds none.                                                               *)
HeldInOrder ==
  \A p \in Procs :
    /\ pc[p] = "idle" => held[p] = <<>>
    /\ pc[p] = "lock" => /\ Len(held[p]) <= Len(LockSeq(req[p]))
                         /\ \A i \in 1 .. Len(held[p]) : held[p][i] = LockSeq(req[p])[i]

LEMMA FinishTyped ==
  ASSUME ProcsTyped, AttemptsLeft, NEW p \in Procs, pc[p] = "body",
         NEW kind \in {"done", "refused"}, NEW i \in Nat,
         Finish(p, kind, i), locks' = locks
  PROVE  ProcsTyped' /\ AttemptsLeft'
<1>1. [kind |-> kind, row |-> i] \in
        [kind : {"pending", "done", "refused", "conflict"}, row : Nat]
  OBVIOUS
<1>2. NoSnap \in Snapshot \cup {NoSnap}
  OBVIOUS
<1>3. PICK e, n : e = [kind |-> kind, row |-> i] /\ n = NoSnap
  OBVIOUS
<1>4. /\ answer' = [answer EXCEPT ![p] = e] /\ snap' = [snap EXCEPT ![p] = n]
      /\ pc' = [pc EXCEPT ![p] = "unlock"] /\ UNCHANGED <<req, held, attempt>>
  BY <1>3 DEF Finish, Goto
<1> QED
  BY <1>1, <1>2, <1>3, <1>4 DEF ProcsTyped, AttemptsLeft

(* Whatever a process does on its own, its variables stay typed.             *)
LEMMA QuietTyped ==
  ASSUME TxTypeOK, ReadsStand, ProcsTyped, AttemptsLeft, HeldInOrder,
         NEW p \in Procs, Quiet(p)
  PROVE  ProcsTyped' /\ AttemptsLeft'
<1> DEFINE Answer_ == [kind : {"pending", "done", "refused", "conflict"}, row : Nat]
<1>a. Pending \in Answer_ /\ [kind |-> "conflict", row |-> 0] \in Answer_
  BY DEF Pending
<1>b. MaxRetries \in Nat \ {0} /\ \A q \in Procs : attempt[q] \in Nat
  BY WalletTxAssumption DEF ProcsTyped
<1> HIDE DEF Answer_
<1>1. ASSUME NEW r \in Requests, Submit(p, r) PROVE ProcsTyped' /\ AttemptsLeft'
  BY <1>1, <1>a, <1>b DEF Submit, Goto, ProcsTyped, AttemptsLeft, procVars, Answer_
<1>2. CASE Acquire(p)
  <2>1. pc[p] = "lock" /\ UNCHANGED <<req, attempt, snap, answer>> /\ req[p] \in Requests
    BY <1>2 DEF Acquire, ProcsTyped
  <2>2. CASE Len(held[p]) = Len(LockSeq(req[p]))
    <3>1. pc' = [pc EXCEPT ![p] = "begin"] /\ UNCHANGED <<locks, held>>
      BY <1>2, <2>2 DEF Acquire, Goto
    <3> QED
      BY <2>1, <3>1 DEF ProcsTyped, AttemptsLeft
  <2>3. CASE Len(held[p]) # Len(LockSeq(req[p]))
    <3>1. PICK w : w = LockSeq(req[p])[Len(held[p]) + 1]
      OBVIOUS
    <3>2. /\ locks[w] = NoProc /\ locks' = [locks EXCEPT ![w] = p]
          /\ held' = [held EXCEPT ![p] = Append(@, w)] /\ UNCHANGED pc
      BY <1>2, <2>3, <3>1 DEF Acquire
    <3>3. /\ LockSeq(req[p]) \in Seq(Wallets) /\ held[p] \in Seq(Wallets)
          /\ Len(held[p]) <= Len(LockSeq(req[p]))
      BY <2>1, LockSeqTyped DEF HeldInOrder, ProcsTyped
    <3>4. w \in Wallets
      BY <2>3, <3>1, <3>3
    <3>5. Append(held[p], w) \in Seq(Wallets)
      BY <3>3, <3>4
    <3> QED
      BY <2>1, <3>2, <3>4, <3>5 DEF ProcsTyped, AttemptsLeft
  <2> QED
    BY <2>2, <2>3
<1>3. CASE GiveUp(p)
  BY <1>3, <1>a DEF GiveUp, Waiting, Goto, ProcsTyped, AttemptsLeft, Answer_
<1>4. CASE Begin(p)
  <2>1. PICK s : s = Tables
    OBVIOUS
  <2>2. s \in Snapshot
    BY <2>1 DEF Tables, Snapshot, TxTypeOK, TypeOK
  <2>3. /\ pc[p] = "begin" /\ snap' = [snap EXCEPT ![p] = s]
        /\ pc' = [pc EXCEPT ![p] = "body"] /\ UNCHANGED <<locks, req, held, attempt, answer>>
    BY <1>4, <2>1 DEF Begin, Goto
  <2> QED
    BY <2>2, <2>3 DEF ProcsTyped, AttemptsLeft
<1>5. CASE Abort(p)
  <2>1. PICK n, e : n = NoSnap /\ e = [kind |-> "conflict", row |-> 0]
    OBVIOUS
  <2>2. /\ pc[p] = "body" /\ UNCHANGED <<locks, req, held>>
        /\ attempt' = [attempt EXCEPT ![p] = attempt[p] + 1]
        /\ snap' = [snap EXCEPT ![p] = n]
    BY <1>5, <2>1 DEF Abort, CountAttempt
  <2>3. attempt[p] + 1 \in 0 .. MaxRetries
    BY <1>b, <2>2 DEF AttemptsLeft
  <2>4. CASE attempt[p] + 1 < MaxRetries
    <3>1. pc' = [pc EXCEPT ![p] = "begin"] /\ UNCHANGED answer
      BY <1>5, <2>4 DEF Abort, RetryLeft, Goto
    <3> QED
      BY <2>1, <2>2, <2>3, <2>4, <3>1 DEF ProcsTyped, AttemptsLeft
  <2>5. CASE ~(attempt[p] + 1 < MaxRetries)
    <3>1. pc' = [pc EXCEPT ![p] = "unlock"] /\ answer' = [answer EXCEPT ![p] = e]
      BY <1>5, <2>1, <2>5 DEF Abort, RetryLeft, Goto
    <3> QED
      BY <1>a, <2>1, <2>2, <2>3, <3>1 DEF ProcsTyped, AttemptsLeft, Answer_
  <2> QED
    BY <2>4, <2>5
<1>6. CASE Replay(p) \/ TxCommitted(p)
  <2>1. /\ pc[p] = "body" /\ locks' = locks
        /\ \E i \in DOMAIN snap[p].txns : Finish(p, "done", i)
    BY <1>6 DEF Replay, TxCommitted, Body, Answer, RowsWithKey
  <2>2. \A i \in DOMAIN snap[p].txns : i \in Nat
    <3>1. snap[p].txns \in Seq(Txn)
      BY <2>1, ReadTyped DEF Snapshot
    <3> QED
      BY <3>1
  <2> QED
    BY <2>1, <2>2, FinishTyped
<1>7. CASE TxReleased(p) \/ Refused(p)
  <2>1. /\ pc[p] = "body" /\ locks' = locks
        /\ \E kind \in {"done", "refused"} : Finish(p, kind, 0)
    BY <1>7 DEF TxReleased, Refused, Body, Answer
  <2> QED
    BY <2>1, FinishTyped
<1>8. CASE Unlock(p)
  <2>1. pc[p] = "unlock" /\ UNCHANGED <<locks, req, attempt, snap, answer>>
    BY <1>8 DEF Unlock
  <2>2. CASE UNCHANGED held /\ \E step \in {"idle", "del"} : Goto(p, step)
    BY <2>1, <2>2 DEF Goto, ProcsTyped, AttemptsLeft
  <2>3. CASE held' = [held EXCEPT ![p] = Front(@)] /\ UNCHANGED pc
    <3>1. Front(held[p]) \in Seq(Wallets)
      BY FrontTyped DEF ProcsTyped
    <3> QED
      BY <2>1, <2>3, <3>1 DEF ProcsTyped, AttemptsLeft
  <2> QED
    BY <1>8, <2>2, <2>3 DEF Unlock
<1>9. CASE Del(p)
  <2>1. Front(held[p]) \in Seq(Wallets)
    BY FrontTyped DEF ProcsTyped
  <2>2. PICK w, h : w = Last(held[p]) /\ h = Front(held[p])
    OBVIOUS
  <2>3. /\ pc[p] = "del" /\ UNCHANGED <<req, attempt, snap, answer>>
        /\ locks' = [locks EXCEPT ![w] = NoProc]
        /\ held' = [held EXCEPT ![p] = h] /\ pc' = [pc EXCEPT ![p] = "unlock"]
    BY <1>9, <2>2 DEF Del, Goto
  <2> QED
    BY <2>1, <2>2, <2>3 DEF ProcsTyped, AttemptsLeft
<1>10. CASE Crash(p)
  <2>1. PICK n : n = NoSnap
    OBVIOUS
  <2>2. /\ UNCHANGED <<locks, req, attempt, answer>> /\ pc' = [pc EXCEPT ![p] = "idle"]
        /\ held' = [held EXCEPT ![p] = <<>>] /\ snap' = [snap EXCEPT ![p] = n]
    BY <1>10, <2>1 DEF Crash, Goto
  <2> QED
    BY <2>1, <2>2 DEF ProcsTyped, AttemptsLeft
<1> QED
  BY <1>1, <1>2, <1>3, <1>4, <1>5, <1>6, <1>7, <1>8, <1>9, <1>10 DEF Quiet

(* The locks are taken in order.                                             *)
LEMMA HeldStep ==
  ASSUME TxTypeOK, ProcsTyped, HeldInOrder, NEW p \in Procs, Quiet(p)
  PROVE  HeldInOrder'
<1>1. CASE \E r \in Requests : Submit(p, r)
  <2>1. PICK r \in Requests : Submit(p, r)
    BY <1>1
  <2>2. /\ pc[p] = "idle" /\ pc' = [pc EXCEPT ![p] = "lock"]
        /\ req' = [req EXCEPT ![p] = r] /\ held' = held
    BY <2>1 DEF Submit, Goto
  <2>3. held[p] = <<>> /\ Len(LockSeq(r)) \in Nat
    BY <2>2, LockSeqTyped DEF HeldInOrder
  <2> QED
    BY <2>2, <2>3 DEF HeldInOrder, ProcsTyped
<1>2. CASE Acquire(p)
  <2>1. pc[p] = "lock" /\ req' = req /\ req[p] \in Requests
    BY <1>2 DEF Acquire, ProcsTyped
  <2>2. CASE Len(held[p]) = Len(LockSeq(req[p]))
    <3>1. pc' = [pc EXCEPT ![p] = "begin"] /\ held' = held
      BY <1>2, <2>2 DEF Acquire, Goto
    <3> QED
      BY <2>1, <3>1 DEF HeldInOrder, ProcsTyped
  <2>3. CASE Len(held[p]) # Len(LockSeq(req[p]))
    <3>1. PICK h, todo : h = held[p] /\ todo = LockSeq(req[p])
      OBVIOUS
    <3>2. held' = [held EXCEPT ![p] = Append(h, todo[Len(h) + 1])] /\ pc' = pc
      BY <1>2, <2>3, <3>1 DEF Acquire
    <3>3. /\ todo \in Seq(Wallets) /\ h \in Seq(Wallets)
          /\ Len(h) < Len(todo) /\ \A i \in 1 .. Len(h) : h[i] = todo[i]
      BY <2>1, <2>3, <3>1, LockSeqTyped DEF HeldInOrder, ProcsTyped
    <3>4. PICK k : k = Append(h, todo[Len(h) + 1])
      OBVIOUS
    <3>5. Len(k) <= Len(todo) /\ \A i \in 1 .. Len(k) : k[i] = todo[i]
      BY <3>3, <3>4
    <3>6. held' = [held EXCEPT ![p] = k]
      BY <3>2, <3>4
    <3> QED
      BY <2>1, <3>1, <3>2, <3>5, <3>6 DEF HeldInOrder, ProcsTyped
  <2> QED
    BY <2>2, <2>3
<1>3. CASE GiveUp(p) \/ Begin(p) \/ Abort(p)
  <2>1. /\ \E step \in {"unlock", "begin", "body"} : pc' = [pc EXCEPT ![p] = step]
        /\ UNCHANGED <<req, held>>
    BY <1>3 DEF GiveUp, Begin, Abort, Goto
  <2> QED
    BY <2>1 DEF HeldInOrder, ProcsTyped
<1>4. CASE Replay(p) \/ TxCommitted(p) \/ TxReleased(p) \/ Refused(p)
  <2>1. pc' = [pc EXCEPT ![p] = "unlock"] /\ UNCHANGED <<req, held>>
    BY <1>4 DEF Replay, TxCommitted, TxReleased, Refused, Answer, Finish, Goto
  <2> QED
    BY <2>1 DEF HeldInOrder, ProcsTyped
<1>5. CASE Unlock(p)
  <2>1. pc[p] = "unlock" /\ req' = req
    BY <1>5 DEF Unlock
  <2>2. CASE held[p] = <<>>
    BY <1>5, <2>1, <2>2 DEF Unlock, Goto, HeldInOrder, ProcsTyped
  <2>3. CASE held[p] # <<>> /\ locks[Last(held[p])] = p
    BY <1>5, <2>1, <2>3 DEF Unlock, Goto, HeldInOrder, ProcsTyped
  <2>4. CASE held[p] # <<>> /\ locks[Last(held[p])] # p
    BY <1>5, <2>1, <2>4 DEF Unlock, HeldInOrder, ProcsTyped
  <2> QED
    BY <2>2, <2>3, <2>4
<1>6. CASE Del(p)
  BY <1>6 DEF Del, Goto, HeldInOrder, ProcsTyped
<1>7. CASE Crash(p)
  BY <1>7 DEF Crash, Goto, HeldInOrder, ProcsTyped
<1> QED
  BY <1>1, <1>2, <1>3, <1>4, <1>5, <1>6, <1>7 DEF Quiet

(* A commit on the side of its process.                                      *)
LEMMA CommitProcs ==
  ASSUME TxTypeOK, ProcsTyped, AttemptsLeft, HeldInOrder, NEW p \in Procs, Commits(p)
  PROVE  ProcsTyped' /\ AttemptsLeft' /\ HeldInOrder'
<1>1. pc[p] = "body" /\ Finish(p, "done", Len(txns) + 1) /\ locks' = locks
  BY DEF Commits, Posts, Write
<1>2. Len(txns) + 1 \in Nat
  BY DEF TxTypeOK, TypeOK
<1>3. ProcsTyped' /\ AttemptsLeft'
  BY <1>1, <1>2, FinishTyped
<1>4. pc' = [pc EXCEPT ![p] = "unlock"] /\ UNCHANGED <<req, held>>
  BY <1>1 DEF Finish, Goto
<1>5. HeldInOrder'
  BY <1>4 DEF HeldInOrder, ProcsTyped
<1> QED
  BY <1>3, <1>5

(* A commit on the side of the tables.                                       *)
LEMMA CommitTyped ==
  ASSUME TxTypeOK, NEW p \in Procs, Commits(p)
  PROVE  TypeOK' /\ (version \in [Wallets -> Nat])'
<1>1. PICK next, rows : Posts(p, next, rows)
  BY DEF Commits
<1>2. /\ Write(p, next, rows) /\ FundsMoved(DOMAIN next)
      /\ DOMAIN next \subseteq Wallets
      /\ \A w \in DOMAIN next : next[w] \in BalanceState
      /\ books' \in [Accounts -> [play : Int, cash : Int]]
  BY <1>1 DEF Posts
<1>3. txns' \in Seq(Txn)
  BY <1>1, CommitTables
<1>4. lockedFunds' \in Seq(LockedFund)
  BY <1>2, CommitFunds
<1>5. balance' \in [Wallets -> BalanceState] /\ version' \in [Wallets -> Nat]
  BY <1>2 DEF Write, TxTypeOK, TypeOK
<1>6. status' \in [Wallets -> {"ACTIVE", "FROZEN"}]
  BY <1>2 DEF Write, TxTypeOK, TypeOK
<1> QED
  BY <1>2, <1>3, <1>4, <1>5, <1>6 DEF TypeOK
-----------------------------------------------------------------------------
(* The inductive invariant of the concurrent engine.                         *)
TxInv == TxTypeOK /\ ReadsStand /\ AttemptsLeft /\ HeldInOrder

LEMMA TypesSplit == TxTypeOK <=> TypeOK /\ version \in [Wallets -> Nat] /\ ProcsTyped
  BY DEF TxTypeOK, ProcsTyped

LEMMA TxInvInit == TxInit => TxInv
<1> SUFFICES ASSUME TxInit PROVE TxInv
  OBVIOUS
<1>1. TypeOK
  BY DEF TxInit, Init, TypeOK, emptyBalance, BalanceState
<1>2. version \in [Wallets -> Nat] /\ ProcsTyped
  BY WalletTxAssumption DEF TxInit, TxStart, ProcsTyped, Pending
<1>3. ReadsStand /\ AttemptsLeft /\ HeldInOrder
  BY WalletTxAssumption DEF TxInit, TxStart, ReadsStand, AttemptsLeft, HeldInOrder
<1> QED
  BY <1>1, <1>2, <1>3, TypesSplit DEF TxInv

LEMMA ReadsStep ==
  ASSUME TxInv, NEW p \in Procs, Quiet(p)
  PROVE  ReadsStand'
<1> SUFFICES ASSUME NEW q \in Procs, pc'[q] = "body"
             PROVE  snap'[q].taken /\ Stands(snap[q])'
  BY DEF ReadsStand
<1>1. UNCHANGED <<tables, version>>
  BY QuietTables
<1>2. TxTypeOK /\ ReadsStand /\ ProcsTyped
  BY TypesSplit DEF TxInv
<1>3. CASE Begin(p) /\ q = p
  <2>1. PICK s : s = Tables
    OBVIOUS
  <2>2. snap' = [snap EXCEPT ![p] = s]
    BY <1>3, <2>1 DEF Begin
  <2>3. snap'[q] = s
    BY <1>2, <1>3, <2>2 DEF ProcsTyped
  <2>4. s.taken /\ Stands(s)
    <3>1. version \in [Wallets -> Nat]
      BY <1>2 DEF TxTypeOK
    <3> QED
      BY <2>1, <3>1 DEF Tables, Stands, RowsStand, FundsStand, BalancesStand
  <2>5. Stands(s)'
    BY <1>1, <2>4 DEF tables, Stands, RowsStand, FundsStand, BalancesStand
  <2> QED
    BY <2>3, <2>4, <2>5
<1>4. CASE ~(Begin(p) /\ q = p)
  <2>1. pc[q] = "body" /\ snap'[q] = snap[q]
    <3>1. CASE q # p
      BY <1>2, <3>1 DEF Quiet, Submit, Acquire, GiveUp, Begin, Abort, Replay, TxCommitted,
         TxReleased, Refused, Unlock, Del, Crash, Answer, Finish, Goto, ProcsTyped, procVars
    <3>2. CASE q = p /\ ~Begin(p)
      BY <1>2, <3>2 DEF Quiet, Submit, Acquire, GiveUp, Abort, Replay, TxCommitted,
         TxReleased, Refused, Unlock, Del, Crash, Answer, Finish, Goto, ProcsTyped, procVars, Body
    <3> QED
      BY <1>4, <3>1, <3>2
  <2>2. PICK s : s = snap[q]
    OBVIOUS
  <2>3. s.taken /\ Stands(s)
    BY <1>2, <2>1, <2>2 DEF ReadsStand
  <2>4. Stands(s)'
    BY <1>1, <2>3 DEF tables, Stands, RowsStand, FundsStand, BalancesStand
  <2> QED
    BY <2>1, <2>2, <2>3, <2>4
<1> QED
  BY <1>3, <1>4

LEMMA TxInvStep == TxInv /\ [TxNext]_txVars => TxInv'
<1> SUFFICES ASSUME TxInv, [TxNext]_txVars
             PROVE  TxInv'
  OBVIOUS
<1>1. /\ TxTypeOK /\ ReadsStand /\ AttemptsLeft /\ HeldInOrder
      /\ TypeOK /\ version \in [Wallets -> Nat] /\ ProcsTyped
  BY TypesSplit DEF TxInv
<1>2. ASSUME NEW p \in Procs, Quiet(p)
      PROVE  TxInv'
  <2>1. TypeOK' /\ (version \in [Wallets -> Nat])'
    BY <1>1, <1>2, QuietTables DEF tables, TypeOK
  <2>2. ProcsTyped' /\ AttemptsLeft'
    BY <1>1, <1>2, QuietTyped
  <2>3. HeldInOrder' /\ ReadsStand'
    BY <1>1, <1>2, HeldStep, ReadsStep
  <2> QED
    BY <2>1, <2>2, <2>3 DEF TxInv, TxTypeOK, ProcsTyped
<1>3. ASSUME NEW p \in Procs, Commits(p)
      PROVE  TxInv'
  <2>1. TypeOK' /\ (version \in [Wallets -> Nat])'
    BY <1>1, <1>3, CommitTyped
  <2>2. ProcsTyped' /\ AttemptsLeft' /\ HeldInOrder'
    BY <1>1, <1>3, CommitProcs
  <2>3. ReadsStand'
    <3> SUFFICES ASSUME NEW q \in Procs, pc'[q] = "body"
                 PROVE  snap'[q].taken /\ Stands(snap[q])'
      BY DEF ReadsStand
    <3>1. /\ pc' = [pc EXCEPT ![p] = "unlock"] /\ snap' = [snap EXCEPT ![p] = NoSnap]
      BY <1>3 DEF Commits, Posts, Write, Finish, Goto
    <3>2. q # p /\ pc[q] = "body" /\ snap'[q] = snap[q]
      BY <1>1, <3>1 DEF ProcsTyped
    <3>3. PICK s : s = snap[q]
      OBVIOUS
    <3>4. s \in Snapshot /\ s.taken /\ Stands(s)
      BY <1>1, <3>2, <3>3, ReadTyped DEF ReadsStand
    <3>5. Stands(s)'
      BY <1>1, <1>3, <3>4, StandOn
    <3> QED
      BY <3>2, <3>3, <3>4, <3>5
  <2> QED
    BY <2>1, <2>2, <2>3 DEF TxInv, TxTypeOK, ProcsTyped
<1>4. ASSUME UNCHANGED <<balance, lockedFunds, txns, books, version>>,
             (status \in [Wallets -> {"ACTIVE", "FROZEN"}])',
             (locks \in [Wallets -> Procs \cup {NoProc}])', UNCHANGED procVars
      PROVE  TxInv'
  <2>1. TypeOK'
    BY <1>1, <1>4 DEF TypeOK
  <2>2. ProcsTyped' /\ AttemptsLeft' /\ HeldInOrder'
    BY <1>1, <1>4 DEF procVars, ProcsTyped, AttemptsLeft, HeldInOrder
  <2>3. ReadsStand'
    BY <1>1, <1>4 DEF procVars, ReadsStand, Stands, RowsStand, FundsStand, BalancesStand
  <2> QED
    BY <1>1, <1>4, <2>1, <2>2, <2>3 DEF TxInv, TxTypeOK, ProcsTyped
<1>5. ASSUME NEW w \in Wallets, Expire(w)
      PROVE  TxInv'
  BY <1>1, <1>4, <1>5 DEF Expire, tables, TypeOK, ProcsTyped
<1>6. ASSUME NEW w \in Wallets, NEW to \in {"ACTIVE", "FROZEN"}, TxSetStatus(w, to)
      PROVE  TxInv'
  BY <1>1, <1>4, <1>6 DEF TxSetStatus, SetStatus, TypeOK, ProcsTyped
<1>7. CASE UNCHANGED txVars
  BY <1>1, <1>4, <1>7 DEF txVars, tables, TypeOK, ProcsTyped
<1> QED
  BY <1>1, <1>2, <1>3, <1>5, <1>6, <1>7, TxCases

LEMMA TxInvariant == TxSpec => []TxInv
<1>1. TxSpec => TxInit /\ [][TxNext]_txVars
  BY PTL DEF TxSpec
<1> QED
  BY <1>1, TxInvInit, TxInvStep, PTL

(* Every table, lock and process is always typed, whatever requests race,    *)
(* abort, retry and crash; no request is tried more than MaxRetries times    *)
(* (wallet-engine.service.ts run()).                                         *)
THEOREM TxTypeCorrect == TxSpec => []TxTypeOK
<1>1. TxInv => TxTypeOK
  BY DEF TxInv
<1> QED
  BY <1>1, TxInvariant, PTL

(* The concurrent engine implements the atomic one: whatever changes the     *)
(* tables is one transaction of WalletEngine, done at the instant of its     *)
(* commit, or one that a freeze came too late for (writeBalance's version    *)
(* check under the serializable isolation of run()).                         *)
THEOREM RefinesEngine == TxSpec => ImplementsEngine
<1>1. TxInv /\ [TxNext]_txVars => [tables' # tables => Next \/ OverFreeze]_tables
  <2> SUFFICES ASSUME TxInv, [TxNext]_txVars, tables' # tables
               PROVE  Next \/ OverFreeze
    OBVIOUS
  <2>1. TxTypeOK /\ ReadsStand
    BY DEF TxInv
  <2>2. TxNext
    BY DEF txVars
  <2>3. ASSUME NEW p \in Procs, Quiet(p) PROVE FALSE
    BY <2>3, QuietTables
  <2>4. ASSUME NEW w \in Wallets, Expire(w) PROVE FALSE
    BY <2>4 DEF Expire
  <2>5. ASSUME NEW w \in Wallets, NEW to \in {"ACTIVE", "FROZEN"}, TxSetStatus(w, to)
        PROVE  Next
    BY <2>5 DEF TxSetStatus, Next, PlayNext
  <2> QED
    BY <2>1, <2>2, <2>3, <2>4, <2>5, TxCases
<1>2. TxSpec => [][TxNext]_txVars
  BY PTL DEF TxSpec
<1> QED
  BY <1>1, <1>2, TxInvariant, PTL DEF ImplementsEngine

(* No two requests ever wait for each other's lock: lockMany takes them in   *)
(* the order of the ids.                                                     *)
THEOREM LockOrderCorrect == TxSpec => []NoCircularWait
<1>1. TxInv => NoCircularWait
  <2> SUFFICES ASSUME TxInv, NEW p \in Procs, NEW q \in Procs, p # q,
                      Waiting(p), Holds(q, WaitsFor(p)), Waiting(q), Holds(p, WaitsFor(q))
               PROVE  FALSE
    BY DEF NoCircularWait
  <2>1. ProcsTyped /\ HeldInOrder
    BY TypesSplit DEF TxInv
  <2>2. ASSUME NEW x \in Procs, Waiting(x), held[x] # <<>>
        PROVE  \E v, w \in Wallets :
                 /\ LockSeq(req[x]) = <<v, w>> /\ IdOrder[v] < IdOrder[w]
                 /\ WaitsFor(x) = w /\ ToSet(held[x]) = {v}
    <3>1. pc[x] = "lock" /\ Len(held[x]) < Len(LockSeq(req[x]))
      BY <2>2 DEF Waiting
    <3>2. PICK r, h : r = req[x] /\ h = held[x]
      OBVIOUS
    <3>3. r \in Requests /\ h \in Seq(Wallets) /\ h # <<>>
      BY <2>1, <2>2, <3>1, <3>2 DEF ProcsTyped
    <3>4. LockSeq(r) \in Seq(Wallets) /\ Len(LockSeq(r)) \in 0 .. 2
      BY <3>3, LockSeqTyped
    <3>5. Len(h) = 1 /\ Len(LockSeq(r)) = 2 /\ h[1] = LockSeq(r)[1]
      <4>1. /\ Len(h) < Len(LockSeq(r)) /\ Len(h) \in Nat \ {0}
            /\ \A i \in 1 .. Len(h) : h[i] = LockSeq(r)[i]
        BY <2>1, <3>1, <3>2, <3>3 DEF HeldInOrder
      <4>2. Len(h) = 1 /\ Len(LockSeq(r)) = 2
        <5>1. PICK m, n : m = Len(h) /\ n = Len(LockSeq(r))
          OBVIOUS
        <5>2. m \in Nat \ {0} /\ n \in 0 .. 2 /\ m < n
          BY <3>4, <4>1, <5>1
        <5>3. m = 1 /\ n = 2
          BY <5>2
        <5> QED
          BY <5>1, <5>3
      <4>3. 1 \in 1 .. Len(h)
        BY <4>2
      <4> QED
        BY <4>1, <4>2, <4>3
    <3>6. r.op = "transfer" /\ LockSeq(r) = inOrder(r.from, r.to)
      BY <3>5 DEF LockSeq
    <3>7. r.from \in Wallets /\ r.to \in Wallets
      BY <3>3, <3>6, RequestFields
    <3>8. r.from # r.to
      BY <3>5, <3>6 DEF inOrder
    <3>9. /\ IdOrder[r.from] \in Nat /\ IdOrder[r.to] \in Nat
          /\ IdOrder[r.from] # IdOrder[r.to]
      BY <3>7, <3>8, WalletTxAssumption DEF IsInjective
    <3>10. PICK v, w : /\ v \in Wallets /\ w \in Wallets
                       /\ LockSeq(r) = <<v, w>> /\ IdOrder[v] < IdOrder[w]
      BY <3>6, <3>7, <3>8, <3>9 DEF inOrder
    <3>11. WaitsFor(x) = w
      BY <3>2, <3>5, <3>10 DEF WaitsFor
    <3>12. ToSet(h) = {v}
      BY <3>3, <3>5, <3>10 DEF ToSet
    <3> QED
      BY <3>2, <3>10, <3>11, <3>12
  <2>3. held[p] # <<>> /\ held[q] # <<>>
    BY <2>1 DEF Holds, ToSet, ProcsTyped
  <2>4. PICK v, w \in Wallets : /\ IdOrder[v] < IdOrder[w]
                                /\ WaitsFor(p) = w /\ ToSet(held[p]) = {v}
    BY <2>2, <2>3
  <2>5. PICK x, y \in Wallets : /\ IdOrder[x] < IdOrder[y]
                                /\ WaitsFor(q) = y /\ ToSet(held[q]) = {x}
    BY <2>2, <2>3
  <2>6. y = v /\ w = x
    BY <2>4, <2>5 DEF Holds
  <2>7. IdOrder[v] \in Nat /\ IdOrder[w] \in Nat
    BY WalletTxAssumption
  <2> QED
    BY <2>4, <2>5, <2>6, <2>7
<1> QED
  BY <1>1, TxInvariant, PTL
-----------------------------------------------------------------------------
(* The tables only grow: rows stay, and so do the rounds of reservations.    *)
Grow ==
  /\ \A i \in DOMAIN txns : i \in DOMAIN txns' /\ txns'[i] = txns[i]
  /\ \A i \in DOMAIN lockedFunds :
       i \in DOMAIN lockedFunds' /\ lockedFunds'[i].reason = lockedFunds[i].reason

LEMMA CommitGrows ==
  ASSUME TxTypeOK, NEW p \in Procs, Commits(p)
  PROVE  Grow
<1>1. PICK next, rows : Posts(p, next, rows)
  BY DEF Commits
<1>2. DOMAIN next \subseteq Wallets /\ FundsMoved(DOMAIN next)
  BY <1>1 DEF Posts
<1> QED
  BY <1>1, <1>2, CommitTables, CommitFunds DEF Grow

LEMMA TablesGrow == TxInv /\ [TxNext]_txVars => Grow
<1> SUFFICES ASSUME TxInv, [TxNext]_txVars PROVE Grow
  OBVIOUS
<1>1. TxTypeOK /\ ReadsStand
  BY DEF TxInv
<1>2. CASE UNCHANGED <<txns, lockedFunds>>
  BY <1>2 DEF Grow
<1>3. ASSUME NEW p \in Procs, Quiet(p) PROVE UNCHANGED <<txns, lockedFunds>>
  BY <1>3, QuietTables DEF tables
<1>4. ASSUME NEW w \in Wallets, Expire(w) PROVE UNCHANGED <<txns, lockedFunds>>
  BY <1>4 DEF Expire, tables
<1>5. ASSUME NEW w \in Wallets, NEW to \in {"ACTIVE", "FROZEN"}, TxSetStatus(w, to)
      PROVE  UNCHANGED <<txns, lockedFunds>>
  BY <1>5 DEF TxSetStatus, SetStatus
<1>6. CASE UNCHANGED txVars
  BY <1>2, <1>6 DEF txVars, tables
<1> QED
  BY <1>1, <1>2, <1>3, <1>4, <1>5, <1>6, TxCases, CommitGrows

(* Row i is one that request r may be told of.                               *)
RowOf(r, i) ==
  /\ i \in DOMAIN txns
  /\ \/ r.key # NoKey /\ txns[i].key = r.key
     \/ /\ r.op = "commit" /\ r.fund \in DOMAIN lockedFunds
        /\ txns[i].reference = <<"bet", lockedFunds[r.fund].reason>>
     \/ r.key = NoKey /\ txns[i].key = NoKey

Told ==
  \A p \in Procs : answer[p].kind = "done" /\ answer[p].row # 0 =>
    req[p] \in Requests /\ RowOf(req[p], answer[p].row)

LEMMA RowStays ==
  ASSUME Grow, NEW r, NEW i, RowOf(r, i)
  PROVE  RowOf(r, i)'
  BY DEF Grow, RowOf

(* A process answers, or is asked.                                           *)
Answers(p, e) == answer' = [answer EXCEPT ![p] = e]

Asks(p, r) == req' = [req EXCEPT ![p] = r]

Keeps == UNCHANGED req

Tells(r, e) == e.kind = "done" /\ e.row # 0 => r \in Requests /\ RowOf(r, e.row)

(* What a quiet step answers.                                                *)
LEMMA QuietAnswers ==
  ASSUME TxInv, NEW p \in Procs, Quiet(p)
  PROVE  \/ UNCHANGED <<answer, req>>
         \/ \E e, r : /\ Answers(p, e) /\ Asks(p, r)
                      /\ Tells(r, e)
<1> DEFINE Goal == \/ UNCHANGED <<answer, req>>
                   \/ \E e, r : Answers(p, e) /\ Asks(p, r) /\ Tells(r, e)
<1>t. TxTypeOK /\ ReadsStand /\ ProcsTyped
  BY TypesSplit DEF TxInv
<1>s. req = [req EXCEPT ![p] = req[p]]
  BY <1>t DEF ProcsTyped
<1>u. ASSUME NEW e, Answers(p, e), Keeps, Tells(req[p], e) PROVE Goal
  <2>1. PICK r : r = req[p]
    OBVIOUS
  <2>2. Asks(p, r)
    BY <1>s, <1>u, <2>1 DEF Asks, Keeps
  <2>3. Tells(r, e)
    BY <1>u, <2>1
  <2> QED
    BY <1>u, <2>2, <2>3
<1> SUFFICES Goal
  OBVIOUS
<1> HIDE DEF Goal
<1>1. ASSUME NEW r \in Requests, Submit(p, r) PROVE Goal
  <2>1. PICK e : e = Pending
    OBVIOUS
  <2>2. Answers(p, e) /\ Asks(p, r)
    BY <1>1, <2>1 DEF Submit, Answers, Asks
  <2> QED
    BY <2>1, <2>2 DEF Pending, Tells, Goal
<1>2. CASE UNCHANGED <<answer, req>>
  BY <1>2 DEF Goal
<1>3. CASE Acquire(p) \/ Begin(p) \/ Unlock(p) \/ Del(p) \/ Crash(p)
  BY <1>2, <1>3 DEF Acquire, Begin, Unlock, Del, Crash
<1>4. CASE GiveUp(p) \/ (Abort(p) /\ ~RetryLeft(p))
  <2>1. PICK e : e = [kind |-> "conflict", row |-> 0]
    OBVIOUS
  <2>2. Answers(p, e) /\ Keeps
    BY <1>4, <2>1 DEF GiveUp, Abort, Answers, Keeps
  <2>3. Tells(req[p], e)
    BY <2>1 DEF Tells
  <2> QED
    BY <1>u, <2>2, <2>3
<1>5. CASE Abort(p) /\ RetryLeft(p)
  BY <1>2, <1>5 DEF Abort
<1>6. CASE TxReleased(p) \/ Refused(p)
  <2>1. PICK kind \in {"done", "refused"} : Finish(p, kind, 0)
    BY <1>6 DEF TxReleased, Refused, Answer
  <2>2. PICK e : e = [kind |-> kind, row |-> 0]
    OBVIOUS
  <2>3. Answers(p, e) /\ Keeps
    BY <2>1, <2>2 DEF Finish, Answers, Keeps
  <2>4. Tells(req[p], e)
    BY <2>2 DEF Tells
  <2> QED
    BY <1>u, <2>3, <2>4
<1>7. CASE Replay(p)
  <2>1. PICK i \in RowsWithKey(p, req[p].key) : Answer(p, "done", i)
    BY <1>7 DEF Replay
  <2>2. PICK e : e = [kind |-> "done", row |-> i]
    OBVIOUS
  <2>3. Answers(p, e) /\ Keeps /\ pc[p] = "body"
    BY <1>7, <2>1, <2>2 DEF Answer, Finish, Replay, Answers, Keeps
  <2>4. /\ i \in DOMAIN txns /\ txns[i] = snap[p].txns[i] /\ req[p] \in Requests
    BY <1>t, <2>1, <2>3, ReadTyped DEF RowsWithKey
  <2>5. RowOf(req[p], i)
    BY <2>1, <2>4 DEF RowsWithKey, RowOf
  <2>6. Tells(req[p], e)
    BY <2>2, <2>4, <2>5 DEF Tells
  <2> QED
    BY <1>u, <2>3, <2>6
<1>8. CASE TxCommitted(p)
  <2>1. PICK f, i : /\ f = ReadFund(p, req[p].fund) /\ i \in DOMAIN snap[p].txns
                    /\ snap[p].txns[i].reference = <<"bet", f.reason>>
                    /\ Answer(p, "done", i)
    BY <1>8 DEF TxCommitted
  <2>2. PICK e : e = [kind |-> "done", row |-> i]
    OBVIOUS
  <2>3. /\ Answers(p, e) /\ Keeps
        /\ pc[p] = "body" /\ req[p].op = "commit" /\ req[p].fund \in DOMAIN snap[p].lockedFunds
    BY <1>8, <2>1, <2>2 DEF Answer, Finish, TxCommitted, Body, Answers, Keeps
  <2>4. /\ i \in DOMAIN txns /\ txns[i] = snap[p].txns[i] /\ req[p] \in Requests
    BY <1>t, <2>1, <2>3, ReadTyped
  <2>5. req[p].fund \in DOMAIN lockedFunds /\ lockedFunds[req[p].fund].reason = f.reason
    BY <1>t, <2>1, <2>3, FundRead
  <2>6. RowOf(req[p], i)
    BY <2>1, <2>3, <2>4, <2>5 DEF RowOf
  <2>7. Tells(req[p], e)
    BY <2>2, <2>4, <2>6 DEF Tells
  <2> QED
    BY <1>u, <2>3, <2>7
<1>a. CASE Abort(p)
  BY <1>4, <1>5, <1>a
<1> QED
  BY <1>1, <1>3, <1>4, <1>a, <1>6, <1>7, <1>8 DEF Quiet

LEMMA ToldStep == TxInv /\ Told /\ [TxNext]_txVars => Told'
<1> SUFFICES ASSUME TxInv, Told, [TxNext]_txVars PROVE Told'
  OBVIOUS
<1>t. TxTypeOK /\ ReadsStand /\ ProcsTyped
  BY TypesSplit DEF TxInv
<1>g. Grow
  BY TablesGrow
<1>1. ASSUME NEW q \in Procs, answer'[q] = answer[q], req'[q] = req[q],
             answer'[q].kind = "done", answer'[q].row # 0
      PROVE  req'[q] \in Requests /\ RowOf(req[q], answer[q].row)'
  <2>1. PICK r, i : r = req[q] /\ i = answer[q].row
    OBVIOUS
  <2>2. r \in Requests /\ RowOf(r, i)
    BY <1>1, <2>1 DEF Told
  <2>3. RowOf(r, i)'
    BY <1>g, <2>2, RowStays
  <2> QED
    BY <1>1, <2>1, <2>2, <2>3
<1>2. CASE UNCHANGED <<answer, req>>
  BY <1>1, <1>2 DEF Told
<1>3. ASSUME NEW p \in Procs, NEW e, NEW r,
             Answers(p, e), Asks(p, r),
             e.kind = "done" /\ e.row # 0 => r \in Requests /\ RowOf(r, e.row)'
      PROVE  Told'
  <2> SUFFICES ASSUME NEW q \in Procs, answer'[q].kind = "done", answer'[q].row # 0
               PROVE  req'[q] \in Requests /\ RowOf(req[q], answer[q].row)'
    BY DEF Told
  <2>1. CASE q = p
    <3>1. answer'[q] = e /\ req'[q] = r
      BY <1>3, <1>t, <2>1 DEF ProcsTyped, Answers, Asks
    <3> QED
      BY <1>3, <3>1
  <2>2. CASE q # p
    <3>1. answer'[q] = answer[q] /\ req'[q] = req[q]
      BY <1>3, <1>t, <2>2 DEF ProcsTyped, Answers, Asks
    <3> QED
      BY <1>1, <3>1
  <2> QED
    BY <2>1, <2>2
<1>4. ASSUME NEW p \in Procs, Quiet(p) PROVE Told'
  <2>1. CASE UNCHANGED <<answer, req>>
    BY <1>2, <2>1
  <2>2. CASE \E e, r : Answers(p, e) /\ Asks(p, r) /\ Tells(r, e)
    <3>1. PICK e, r : Answers(p, e) /\ Asks(p, r) /\ Tells(r, e)
      BY <2>2
    <3>2. e.kind = "done" /\ e.row # 0 => r \in Requests /\ RowOf(r, e.row)'
      BY <1>g, <3>1, RowStays DEF Tells
    <3> QED
      BY <1>3, <3>1, <3>2
  <2> QED
    BY <1>4, <2>1, <2>2, QuietAnswers
<1>5. ASSUME NEW p \in Procs, Commits(p) PROVE Told'
  <2>1. PICK next, rows : Posts(p, next, rows)
    BY <1>5 DEF Commits
  <2>2. PICK e, r : e = [kind |-> "done", row |-> Len(txns) + 1] /\ r = req[p]
    OBVIOUS
  <2>3. /\ Answers(p, e) /\ req' = req /\ pc[p] = "body"
    BY <2>1, <2>2 DEF Posts, Write, Finish, Answers
  <2>4. r \in Requests /\ Asks(p, r)
    BY <1>t, <2>2, <2>3 DEF ProcsTyped, Asks
  <2>5. Appended(rows)
    BY <1>t, <2>1, CommitTables
  <2>6. Len(txns) + 1 \in DOMAIN txns' /\ txns'[Len(txns) + 1] = rows[1]
    BY <2>5 DEF Appended
  <2>7. rows[1].key = r.key
    BY <2>1, <2>2 DEF Posts, RowsMade
  <2>8. PICK i : i = Len(txns) + 1
    OBVIOUS
  <2>9. RowOf(r, i)'
    BY <2>6, <2>7, <2>8 DEF RowOf
  <2> QED
    BY <1>3, <2>2, <2>3, <2>4, <2>8, <2>9
<1>6. ASSUME NEW w \in Wallets, Expire(w) PROVE Told'
  BY <1>2, <1>6 DEF Expire, procVars
<1>7. ASSUME NEW w \in Wallets, NEW to \in {"ACTIVE", "FROZEN"}, TxSetStatus(w, to)
      PROVE  Told'
  BY <1>2, <1>7 DEF TxSetStatus, procVars
<1>8. CASE UNCHANGED txVars
  BY <1>2, <1>8 DEF txVars, procVars
<1> QED
  BY <1>t, <1>4, <1>5, <1>6, <1>7, <1>8, TxCases

LEMMA ToldAlways == TxSpec => []Told
<1>1. TxInit => Told
  BY DEF TxInit, TxStart, Told, Pending
<1>2. TxSpec => TxInit /\ [][TxNext]_txVars
  BY PTL DEF TxSpec
<1> QED
  BY <1>1, <1>2, TxInvariant, ToldStep, PTL

(* A caller is told "done" only of a row that is stored under its key or its *)
(* round, and the row stays (replay(), commitReservation's answer).          *)
THEOREM AnswersCorrect == TxSpec => []DoneIsRecorded
<1>1. Told => DoneIsRecorded
  BY DEF Told, RowOf, DoneIsRecorded
<1> QED
  BY <1>1, ToldAlways, PTL
-----------------------------------------------------------------------------
(* The unique indexes: no two rows share a key or a reference.               *)
KeysUnique ==
  \A i, j \in DOMAIN txns : txns[i].key = txns[j].key /\ txns[i].key # NoKey => i = j

RefsUnique ==
  \A i, j \in DOMAIN txns :
    txns[i].reference = txns[j].reference /\ txns[i].reference # AutoRef => i = j

CommitRows ==
  \A r \in Requests, i \in DOMAIN txns :
    r.op = "commit" /\ r.key # NoKey /\ txns[i].key = r.key =>
      /\ r.fund \in DOMAIN lockedFunds
      /\ txns[i].reference = <<"bet", lockedFunds[r.fund].reason>>

Indexed == KeysUnique /\ RefsUnique /\ CommitRows

(* New rows are under keys and references that are free, and differ.         *)
LEMMA RowsApart ==
  ASSUME TxTypeOK, NEW p \in Procs, NEW next, NEW rows, Posts(p, next, rows)
  PROVE  /\ \A i \in 1 .. Len(rows) : /\ KeyFree(rows[i].key)
                                      /\ ReferenceFree(rows[i].reference)
         /\ rows[1].key = req[p].key
         /\ \A i \in 1 .. Len(rows) : i # 1 => rows[i].key = NoKey
         /\ \A i, j \in 1 .. Len(rows) :
              rows[i].reference = rows[j].reference /\ rows[i].reference # AutoRef => i = j
<1>1. Write(p, next, rows) /\ RowsMade(req[p], rows)
  BY DEF Posts
<1>2. CASE \E a \in Txn : rows = <<a>> /\ a.key = req[p].key
  <2>1. PICK a \in Txn : rows = <<a>> /\ a.key = req[p].key
    BY <1>2
  <2>2. DOMAIN rows = 1 .. 1 /\ Len(rows) = 1 /\ rows[1] = a
    BY <2>1
  <2> QED
    BY <1>1, <2>1, <2>2 DEF Write
<1>3. CASE \E a, b \in Txn : /\ rows = <<a, b>>
                             /\ a.key = req[p].key /\ b.key = NoKey
                             /\ b.reference = AutoRef \/ b.reference # a.reference
  <2>1. PICK a, b \in Txn : /\ rows = <<a, b>>
                            /\ a.key = req[p].key /\ b.key = NoKey
                            /\ b.reference = AutoRef \/ b.reference # a.reference
    BY <1>3
  <2>2. DOMAIN rows = 1 .. 2 /\ Len(rows) = 2 /\ rows[1] = a /\ rows[2] = b
    BY <2>1
  <2>3. \A i \in 1 .. Len(rows) : i = 1 \/ i = 2
    BY <2>2
  <2>4. \A i \in 1 .. Len(rows) : KeyFree(rows[i].key) /\ ReferenceFree(rows[i].reference)
    BY <1>1, <2>2 DEF Write
  <2> QED
    BY <2>1, <2>2, <2>3, <2>4
<1> QED
  BY <1>1, <1>2, <1>3 DEF RowsMade

LEMMA CommitIndexed ==
  ASSUME TxTypeOK, Indexed, CommitKeysApart, NEW p \in Procs, Commits(p)
  PROVE  Indexed'
<1>1. PICK next, rows : Posts(p, next, rows)
  BY DEF Commits
<1>2. PICK n, m : n = Len(txns) /\ m = Len(rows)
  OBVIOUS
<1>3. /\ \A i \in DOMAIN txns : i \in DOMAIN txns' /\ txns'[i] = txns[i]
      /\ \A i \in 1 .. m : n + i \in DOMAIN txns' /\ txns'[n + i] = rows[i]
      /\ \A j \in DOMAIN txns' : j \in DOMAIN txns \/ \E i \in 1 .. m : j = n + i
  BY <1>1, <1>2, CommitTables DEF Appended
<1>4. /\ \A i \in 1 .. m : KeyFree(rows[i].key) /\ ReferenceFree(rows[i].reference)
      /\ rows[1].key = req[p].key
      /\ \A i \in 1 .. m : i # 1 => rows[i].key = NoKey
      /\ \A i, j \in 1 .. m :
           rows[i].reference = rows[j].reference /\ rows[i].reference # AutoRef => i = j
  BY <1>1, <1>2, RowsApart
<1>5. ASSUME NEW i \in DOMAIN txns, NEW j \in 1 .. m
      PROVE  /\ txns[i].key # rows[j].key \/ rows[j].key = NoKey
             /\ txns[i].reference # rows[j].reference \/ rows[j].reference = AutoRef
  BY <1>4 DEF KeyFree, ReferenceFree
<1>6. KeysUnique'
  <2> SUFFICES ASSUME NEW i \in DOMAIN txns', NEW j \in DOMAIN txns',
                      txns'[i].key = txns'[j].key, txns'[i].key # NoKey
               PROVE  i = j
    BY DEF KeysUnique
  <2>1. CASE i \in DOMAIN txns /\ j \in DOMAIN txns
    BY <1>3, <2>1 DEF Indexed, KeysUnique
  <2>2. CASE i \in DOMAIN txns /\ j \notin DOMAIN txns
    BY <1>3, <1>5, <2>2
  <2>3. CASE i \notin DOMAIN txns /\ j \in DOMAIN txns
    BY <1>3, <1>5, <2>3
  <2>4. CASE i \notin DOMAIN txns /\ j \notin DOMAIN txns
    <3>1. PICK h \in 1 .. m, l \in 1 .. m : i = n + h /\ j = n + l
      BY <1>3, <2>4
    <3>2. rows[h].key # NoKey /\ rows[l].key # NoKey
      BY <1>3, <3>1
    <3>3. h = 1 /\ l = 1
      BY <1>4, <3>2
    <3> QED
      BY <3>1, <3>3
  <2> QED
    BY <2>1, <2>2, <2>3, <2>4
<1>7. RefsUnique'
  <2> SUFFICES ASSUME NEW i \in DOMAIN txns', NEW j \in DOMAIN txns',
                      txns'[i].reference = txns'[j].reference,
                      txns'[i].reference # AutoRef
               PROVE  i = j
    BY DEF RefsUnique
  <2>1. CASE i \in DOMAIN txns /\ j \in DOMAIN txns
    BY <1>3, <2>1 DEF Indexed, RefsUnique
  <2>2. CASE i \in DOMAIN txns /\ j \notin DOMAIN txns
    BY <1>3, <1>5, <2>2
  <2>3. CASE i \notin DOMAIN txns /\ j \in DOMAIN txns
    BY <1>3, <1>5, <2>3
  <2>4. CASE i \notin DOMAIN txns /\ j \notin DOMAIN txns
    <3>1. PICK h \in 1 .. m, l \in 1 .. m : i = n + h /\ j = n + l
      BY <1>3, <2>4
    <3>2. h = l
      BY <1>3, <1>4, <3>1
    <3> QED
      BY <3>1, <3>2
  <2> QED
    BY <2>1, <2>2, <2>3, <2>4
<1>8. CommitRows'
  <2> SUFFICES ASSUME NEW r \in Requests, NEW i \in DOMAIN txns',
                      r.op = "commit", r.key # NoKey, txns'[i].key = r.key
               PROVE  /\ r.fund \in DOMAIN lockedFunds'
                      /\ txns'[i].reference = <<"bet", lockedFunds'[r.fund].reason>>
    BY DEF CommitRows
  <2>g. Grow
    BY CommitGrows
  <2>1. CASE i \in DOMAIN txns
    <3>1. txns'[i] = txns[i]
      BY <1>3, <2>1
    <3>2. /\ r.fund \in DOMAIN lockedFunds
          /\ txns[i].reference = <<"bet", lockedFunds[r.fund].reason>>
      BY <2>1, <3>1 DEF Indexed, CommitRows
    <3> QED
      BY <2>g, <3>1, <3>2 DEF Grow
  <2>2. CASE i \notin DOMAIN txns
    <3>1. PICK h \in 1 .. m : i = n + h /\ txns'[i] = rows[h]
      BY <1>3, <2>2
    <3>2. h = 1 /\ req[p].key = r.key
      BY <1>4, <3>1
    <3>3. PICK s : s = req[p]
      OBVIOUS
    <3>4. s \in Requests
      BY <1>1, <3>3 DEF Posts, TxTypeOK
    <3>5. s.op = "commit" /\ s.fund = r.fund
      BY <3>2, <3>3, <3>4 DEF CommitKeysApart
    <3>6. /\ r.fund \in DOMAIN lockedFunds
          /\ rows[1].reference = <<"bet", lockedFunds[r.fund].reason>>
      BY <1>1, <3>3, <3>5 DEF Posts
    <3> QED
      BY <2>g, <3>1, <3>2, <3>6 DEF Grow
  <2> QED
    BY <2>1, <2>2
<1> QED
  BY <1>6, <1>7, <1>8 DEF Indexed

LEMMA IndexedStep ==
  ASSUME CommitKeysApart, TxInv, Indexed, [TxNext]_txVars
  PROVE  Indexed'
<1>1. TxTypeOK /\ ReadsStand
  BY DEF TxInv
<1>2. CASE UNCHANGED <<txns, lockedFunds>>
  BY <1>2 DEF Indexed, KeysUnique, RefsUnique, CommitRows
<1>3. ASSUME NEW p \in Procs, Quiet(p) PROVE Indexed'
  BY <1>2, <1>3, QuietTables DEF tables
<1>4. ASSUME NEW w \in Wallets, Expire(w) PROVE Indexed'
  BY <1>2, <1>4 DEF Expire, tables
<1>5. ASSUME NEW w \in Wallets, NEW to \in {"ACTIVE", "FROZEN"}, TxSetStatus(w, to)
      PROVE  Indexed'
  BY <1>2, <1>5 DEF TxSetStatus, SetStatus
<1>6. CASE UNCHANGED txVars
  BY <1>2, <1>6 DEF txVars, tables
<1> QED
  BY <1>1, <1>3, <1>4, <1>5, <1>6, TxCases, CommitIndexed

LEMMA ToldAgree ==
  ASSUME CommitKeysApart, Told, Indexed
  PROVE  DuplicatesAgree
<1> SUFFICES ASSUME NEW p \in Procs, NEW q \in Procs,
                    answer[p].kind = "done", answer[p].row # 0,
                    answer[q].kind = "done", answer[q].row # 0,
                    req[p].key = req[q].key, req[p].key # NoKey
             PROVE  answer[p].row = answer[q].row
  BY DEF DuplicatesAgree
<1>1. PICK r, s, i, j :
        r = req[p] /\ s = req[q] /\ i = answer[p].row /\ j = answer[q].row
  OBVIOUS
<1>2. /\ r \in Requests /\ RowOf(r, i)
      /\ s \in Requests /\ RowOf(s, j)
      /\ r.key = s.key /\ r.key # NoKey
  BY <1>1 DEF Told
<1>3. CASE r.op = "commit" \/ s.op = "commit"
  <2>1. r.op = "commit" /\ s.op = "commit" /\ r.fund = s.fund
    BY <1>2, <1>3 DEF CommitKeysApart
  <2>2. PICK ref : ref = <<"bet", lockedFunds[r.fund].reason>>
    OBVIOUS
  <2>3. i \in DOMAIN txns /\ txns[i].reference = ref
    BY <1>2, <2>1, <2>2 DEF RowOf, Indexed, CommitRows
  <2>4. j \in DOMAIN txns /\ txns[j].reference = ref
    BY <1>2, <2>1, <2>2 DEF RowOf, Indexed, CommitRows
  <2>5. ref # AutoRef
    BY <2>2 DEF AutoRef
  <2> QED
    BY <1>1, <2>3, <2>4, <2>5 DEF Indexed, RefsUnique
<1>4. CASE r.op # "commit" /\ s.op # "commit"
  BY <1>1, <1>2, <1>4 DEF RowOf, Indexed, KeysUnique
<1> QED
  BY <1>3, <1>4

(* Requests under one idempotency key, retried, raced or repeated after a    *)
(* crash, are all told of one row (findUnique on the key, its unique index,  *)
(* commitReservation's replay), if a commit's key is used for nothing else.  *)
THEOREM DuplicatesCorrect ==
  ASSUME CommitKeysApart
  PROVE  TxSpec => []DuplicatesAgree
<1>1. TxInit => Indexed
  BY DEF TxInit, Init, Indexed, KeysUnique, RefsUnique, CommitRows
<1>2. TxInv /\ Indexed /\ [TxNext]_txVars => Indexed'
  BY IndexedStep
<1>3. Told /\ Indexed => DuplicatesAgree
  BY ToldAgree
<1>4. TxSpec => TxInit /\ [][TxNext]_txVars
  BY PTL DEF TxSpec
<1> QED
  BY <1>1, <1>2, <1>3, <1>4, TxInvariant, ToldAlways, PTL
=============================================================================
