------------------------------ MODULE WalletTx ------------------------------
(* The wallet engine at the grain of its statements: concurrent requests     *)
(* take Redis locks, read and write inside serializable transactions that    *)
(* may abort, check the balance's version, retry and let their locks go.     *)
(* The tables are those of WalletEngine, which this module implements: what  *)
(* the layers of the class comment are for is that a transaction seems to    *)
(* happen at one instant.                                                    *)
(*                                                                           *)
(* Postgres (external): a transaction reads the snapshot of its first        *)
(* statement; updating a row that changed since aborts it, as may the check  *)
(* for read-write cycles at any time; a unique index refuses a second key or *)
(* reference.  Redis (external): SET NX PX, GET and DEL, each atomic; a key  *)
(* may expire at any time, since a transaction may outlast the lock's TTL.   *)
EXTENDS WalletEngine, SequencesExt

CONSTANTS Procs,      \* backend requests in flight
          NoProc,
          Requests,   \* what they may ask for
          IdOrder,    \* wallet -> the place of its id when ids are sorted
          MaxRetries  \* MAX_RETRIES of run()

(* What callers may ask for.                                                 *)
MayKey == Keys \cup {NoKey}

Request ==
       [op : {"credit", "debit"}, wallet : Wallets, amount : Amounts, key : MayKey]
  \cup [op : {"reserve"}, wallet : Users \X {MAIN}, amount : Amounts, ref : Refs, key : MayKey]
  \cup [op : {"commit"}, fund : Nat, win : Amounts \cup {0}, key : MayKey]
  \cup [op : {"release"}, fund : Nat, key : MayKey]
  \cup {r \in [op : {"transfer"}, from : Wallets, to : Wallets, amount : Amounts, key : MayKey] :
          r.from[1] = r.to[1]}
  \cup [op : {"rollback"}, row : Nat, key : MayKey]

ASSUME WalletTxAssumption ==
  /\ NoProc \notin Procs
  /\ Requests \subseteq Request
  /\ IdOrder \in [Wallets -> Nat] /\ IsInjective(IdOrder)
  /\ MaxRetries \in Nat \ {0}

VARIABLES version,  \* wallet -> version column of its balance row
          locks,    \* wallet -> process whose token the Redis key holds
          pc,       \* process -> next step
          req,      \* process -> request it serves
          held,     \* process -> wallets it locked, in order
          attempt,  \* process -> attempts of run() made
          snap,     \* process -> tables as its transaction first read them
          answer    \* process -> what it last answered

tables == <<status, balance, lockedFunds, txns, books>>

procVars == <<pc, req, held, attempt, snap, answer>>

txVars == <<tables, version, locks, procVars>>

NoSnap == [taken |-> FALSE]

Tables ==
  [taken |-> TRUE, status |-> status, balance |-> balance,
   lockedFunds |-> lockedFunds, txns |-> txns, version |-> version]

NoRequest == [op |-> "none"]

Pending == [kind |-> "pending", row |-> 0]

TxStart ==
  /\ version = [w \in Wallets |-> 0]
  /\ locks = [w \in Wallets |-> NoProc]
  /\ pc = [p \in Procs |-> "idle"]
  /\ req = [p \in Procs |-> NoRequest]
  /\ held = [p \in Procs |-> <<>>]
  /\ attempt = [p \in Procs |-> 0]
  /\ snap = [p \in Procs |-> NoSnap]
  /\ answer = [p \in Procs |-> Pending]

TxInit == Init /\ TxStart
-----------------------------------------------------------------------------
(* lockMany sorts the ids it is given.  Mutant: they are not sorted.         *)
asGiven(v, w) == <<v, w>>

inOrder(v, w) ==
  IF v = w THEN <<v>> ELSE IF IdOrder[v] < IdOrder[w] THEN <<v, w>> ELSE <<w, v>>

(* credit, debit, reserve and transfer lock; commitReservation,              *)
(* releaseReservation and rollback call run() directly.                      *)
LockSeq(r) ==
  CASE r.op = "transfer" -> inOrder(r.from, r.to)
    [] r.op \in {"credit", "debit", "reserve"} -> <<r.wallet>>
    [] OTHER -> <<>>

Goto(p, step) == pc' = [pc EXCEPT ![p] = step]

Submit(p, r) ==
  /\ pc[p] = "idle"
  /\ req' = [req EXCEPT ![p] = r]
  /\ attempt' = [attempt EXCEPT ![p] = 0]
  /\ answer' = [answer EXCEPT ![p] = Pending]
  /\ Goto(p, "lock")
  /\ UNCHANGED <<tables, version, locks, held, snap>>

(* acquireLock, wallet by wallet, until all are held.                        *)
Acquire(p) ==
  LET todo == LockSeq(req[p]) IN
  /\ pc[p] = "lock"
  /\ IF Len(held[p]) = Len(todo)
     THEN Goto(p, "begin") /\ UNCHANGED <<locks, held>>
     ELSE LET w == todo[Len(held[p]) + 1] IN
          /\ locks[w] = NoProc
          /\ locks' = [locks EXCEPT ![w] = p]
          /\ held' = [held EXCEPT ![p] = Append(@, w)]
          /\ UNCHANGED pc
  /\ UNCHANGED <<tables, version, req, attempt, snap, answer>>

Waiting(p) == pc[p] = "lock" /\ Len(held[p]) < Len(LockSeq(req[p]))

WaitsFor(p) == LockSeq(req[p])[Len(held[p]) + 1]

(* After 50 attempts the lock is given up: ConflictException.                *)
GiveUp(p) ==
  /\ Waiting(p)
  /\ locks[WaitsFor(p)] # NoProc
  /\ answer' = [answer EXCEPT ![p] = [kind |-> "conflict", row |-> 0]]
  /\ Goto(p, "unlock")
  /\ UNCHANGED <<tables, version, locks, req, held, attempt, snap>>

Expire(w) ==
  /\ locks[w] # NoProc
  /\ locks' = [locks EXCEPT ![w] = NoProc]
  /\ UNCHANGED <<tables, version, procVars>>
-----------------------------------------------------------------------------
(* run(): the first statement takes the snapshot ...                         *)
Begin(p) ==
  /\ pc[p] = "begin"
  /\ snap' = [snap EXCEPT ![p] = Tables]
  /\ Goto(p, "body")
  /\ UNCHANGED <<tables, version, locks, req, held, attempt, answer>>

(* ... every later read is served from it ...                                *)
(* Mutant: the isolation level is left at its default, read committed.       *)
ReadCommitted(p) == [balance |-> balance, version |-> version]

ReadWallet(p) == [balance |-> snap[p].balance, version |-> snap[p].version]

ReadFund(p, i) == snap[p].lockedFunds[i]

(* Mutant: any keyed row is taken for the replayed one.                      *)
RowsWithSomeKey(p, key) ==
  {i \in DOMAIN snap[p].txns : key # NoKey /\ snap[p].txns[i].key # NoKey}

RowsWithKey(p, key) ==
  {i \in DOMAIN snap[p].txns : key # NoKey /\ snap[p].txns[i].key = key}

(* ... and a transaction ends by answering without a write, by aborting and  *)
(* being tried again while attempts are left, or by committing.              *)
Finish(p, kind, row) ==
  /\ answer' = [answer EXCEPT ![p] = [kind |-> kind, row |-> row]]
  /\ snap' = [snap EXCEPT ![p] = NoSnap]
  /\ Goto(p, "unlock")
  /\ UNCHANGED <<req, held, attempt>>

Answer(p, kind, row) == Finish(p, kind, row) /\ UNCHANGED <<tables, version, locks>>

(* Mutants: one retry too many; attempts not counted.                        *)
RetryLeftLate(p) == attempt[p] + 1 <= MaxRetries

CountNothing(p) == attempt

RetryLeft(p) == attempt[p] + 1 < MaxRetries

CountAttempt(p) == [attempt EXCEPT ![p] = @ + 1]

Abort(p) ==
  /\ pc[p] = "body"
  /\ UNCHANGED <<tables, version, locks, req, held>>
  /\ attempt' = CountAttempt(p)
  /\ snap' = [snap EXCEPT ![p] = NoSnap]
  /\ IF RetryLeft(p)
     THEN Goto(p, "begin") /\ UNCHANGED answer
     ELSE /\ Goto(p, "unlock")
          /\ answer' = [answer EXCEPT ![p] = [kind |-> "conflict", row |-> 0]]

(* writeBalance of the wallets in DOMAIN next, whose versions must be the    *)
(* ones read; then the rows, all under unique indexes.                       *)
NotOvertaken(p, w) == version[w] = ReadWallet(p).version[w]

Write(p, next, rows) ==
  /\ \A w \in DOMAIN next : NotOvertaken(p, w)
  /\ \A i \in DOMAIN rows : KeyFree(rows[i].key) /\ ReferenceFree(rows[i].reference)
  /\ balance' = [w \in Wallets |-> IF w \in DOMAIN next THEN next[w] ELSE balance[w]]
  /\ version' = [w \in Wallets |-> IF w \in DOMAIN next THEN version[w] + 1 ELSE version[w]]
  /\ txns' = txns \o rows
  /\ Finish(p, "done", Len(txns) + 1)
  /\ UNCHANGED <<status, locks>>

Only(w, s) == [v \in {w} |-> s]

Body(p, op) == pc[p] = "body" /\ req[p].op = op
-----------------------------------------------------------------------------
(* The bodies.  credit, debit and reserve first look for their key.          *)
Replay(p) ==
  /\ pc[p] = "body"
  /\ req[p].op \in {"credit", "debit", "reserve"}
  /\ \E i \in RowsWithKey(p, req[p].key) : Answer(p, "done", i)

Fresh(p) == RowsWithKey(p, req[p].key) = {}

TxCredit(p) ==
  LET r == req[p]
      s == ReadWallet(p).balance[r.wallet]
      t == credit(s, r.amount)
  IN
  /\ Body(p, "credit")
  /\ Fresh(p)
  /\ snap[p].status[r.wallet] = "ACTIVE"
  /\ Write(p, Only(r.wallet, t),
           <<Row(r.wallet, "CREDIT", r.amount, s, t, r.key, AutoRef, 0)>>)
  /\ books' = postCash(books, House, r.wallet, r.amount)
  /\ UNCHANGED lockedFunds

TxDebit(p) ==
  LET r == req[p]
      s == ReadWallet(p).balance[r.wallet]
      t == debit(s, r.amount)
  IN
  /\ Body(p, "debit")
  /\ Fresh(p)
  /\ snap[p].status[r.wallet] = "ACTIVE"
  /\ CanDebit(s, r.amount)
  /\ Write(p, Only(r.wallet, t),
           <<Row(r.wallet, "DEBIT", r.amount, s, t, r.key, AutoRef, 0)>>)
  /\ books' = postCash(books, r.wallet, House, r.amount)
  /\ UNCHANGED lockedFunds

TxReserve(p) ==
  LET r == req[p]
      s == ReadWallet(p).balance[r.wallet]
      t == reserve(s, r.amount)
  IN
  /\ Body(p, "reserve")
  /\ Fresh(p)
  /\ CanReserve(s, r.amount)
  /\ Write(p, Only(r.wallet, t), <<Row(r.wallet, "RESERVE", r.amount, s, t,
                                       r.key, <<"stake", r.ref>>, 0)>>)
  /\ lockedFunds' = Append(lockedFunds,
       [wallet |-> r.wallet, amount |-> r.amount, reason |-> r.ref,
        status |-> "LOCKED"])
  /\ UNCHANGED books

(* The row of the reservation is read first, the wallet after it.            *)
TxCommit(p) ==
  LET r   == req[p]
      f   == ReadFund(p, r.fund)
      s   == ReadWallet(p).balance[f.wallet]
      t   == commitReserved(s, f.amount)
      u   == IF r.win > 0 THEN credit(t, r.win) ELSE t
      bet == Row(f.wallet, "GAME_BET", f.amount, s, u, r.key, <<"bet", f.reason>>, 0)
      won == [wallet |-> f.wallet, type |-> "GAME_WIN", amount |-> r.win,
              before |-> f.amount, after |-> total(u), key |-> NoKey,
              reference |-> <<"win", f.reason>>, related |-> 0]
      taken == postPlay(books, f.wallet, House, f.amount)
  IN
  /\ Body(p, "commit")
  /\ r.fund \in DOMAIN snap[p].lockedFunds
  /\ f.status = "LOCKED"
  /\ CanSettle(s, f.amount)
  /\ Write(p, Only(f.wallet, u), IF r.win > 0 THEN <<bet, won>> ELSE <<bet>>)
  /\ lockedFunds' = Resolved(r.fund)
  /\ books' = IF r.win > 0 THEN postPlay(taken, House, f.wallet, r.win) ELSE taken

(* A reservation that is no longer LOCKED is answered with its bet, and the  *)
(* call conflicts (and is tried again) if it was released instead.           *)
TxCommitted(p) ==
  LET f == ReadFund(p, req[p].fund) IN
  /\ Body(p, "commit")
  /\ req[p].fund \in DOMAIN snap[p].lockedFunds
  /\ f.status # "LOCKED"
  /\ \E i \in DOMAIN snap[p].txns :
       /\ snap[p].txns[i].reference = <<"bet", f.reason>>
       /\ Answer(p, "done", i)

TxRelease(p) ==
  LET r == req[p]
      f == ReadFund(p, r.fund)
      s == ReadWallet(p).balance[f.wallet]
      t == releaseReserved(s, f.amount)
  IN
  /\ Body(p, "release")
  /\ r.fund \in DOMAIN snap[p].lockedFunds
  /\ f.status = "LOCKED"
  /\ CanSettle(s, f.amount)
  /\ Write(p, Only(f.wallet, t),
           <<Row(f.wallet, "RESERVE_RELEASE", f.amount, s, t, r.key,
                 <<"release", f.reason>>, 0)>>)
  /\ lockedFunds' = Resolved(r.fund)
  /\ UNCHANGED books

TxReleased(p) ==
  /\ Body(p, "release")
  /\ req[p].fund \in DOMAIN snap[p].lockedFunds
  /\ ReadFund(p, req[p].fund).status # "LOCKED"
  /\ Answer(p, "done", 0)

TxTransfer(p) ==
  LET r  == req[p]
      s  == ReadWallet(p).balance[r.from]
      t  == ReadWallet(p).balance[r.to]
      s2 == debit(s, r.amount)
      t2 == credit(t, r.amount)
  IN
  /\ Body(p, "transfer")
  /\ CanDebit(s, r.amount)
  /\ r.from # r.to \* else the second update finds the version moved: Abort
  /\ Write(p, [w \in {r.from, r.to} |-> IF w = r.from THEN s2 ELSE t2],
       <<Row(r.from, "TRANSFER_OUT", r.amount, s, s2, r.key, AutoRef, 0),
         Row(r.to, "TRANSFER_IN", r.amount, t, t2, NoKey, AutoRef, Len(txns) + 1)>>)
  /\ books' = postCash(books, r.from, r.to, r.amount)
  /\ UNCHANGED lockedFunds

TxRollback(p) ==
  LET r == req[p]
      o == snap[p].txns[r.row]
      s == ReadWallet(p).balance[o.wallet]
      t == IF wasDebit(o) THEN credit(s, o.amount) ELSE debit(s, o.amount)
  IN
  /\ Body(p, "rollback")
  /\ r.row \in DOMAIN snap[p].txns
  /\ wasDebit(o) \/ CanDebit(s, o.amount)
  /\ Write(p, Only(o.wallet, t),
           <<Row(o.wallet, "ROLLBACK", o.amount, s, t, r.key, AutoRef, r.row)>>)
  /\ UNCHANGED <<lockedFunds, books>>

(* A missing row or an overdraft is thrown, and not tried again.             *)
Refused(p) ==
  LET r == req[p]
      s == ReadWallet(p).balance
      fundMissing == r.fund \notin DOMAIN snap[p].lockedFunds
  IN
  /\ pc[p] = "body"
  /\ \/ r.op = "debit" /\ Fresh(p) /\ snap[p].status[r.wallet] = "ACTIVE"
          /\ ~CanDebit(s[r.wallet], r.amount)
     \/ r.op = "reserve" /\ Fresh(p) /\ ~CanReserve(s[r.wallet], r.amount)
     \/ r.op = "transfer" /\ ~CanDebit(s[r.from], r.amount)
     \/ r.op \in {"commit", "release"} /\ fundMissing
     \/ r.op = "rollback" /\ \/ r.row \notin DOMAIN snap[p].txns
                             \/ LET o == snap[p].txns[r.row] IN
                                ~wasDebit(o) /\ ~CanDebit(s[o.wallet], o.amount)
  /\ Answer(p, "refused", 0)
-----------------------------------------------------------------------------
(* releaseLock, newest lock first: GET and compare, then DEL.                *)
Unlock(p) ==
  /\ pc[p] = "unlock"
  /\ IF held[p] = <<>>
     THEN Goto(p, "idle") /\ UNCHANGED held
     ELSE IF locks[Last(held[p])] = p
          THEN Goto(p, "del") /\ UNCHANGED held
          ELSE held' = [held EXCEPT ![p] = Front(@)] /\ UNCHANGED pc
  /\ UNCHANGED <<tables, version, locks, req, attempt, snap, answer>>

Del(p) ==
  /\ pc[p] = "del"
  /\ locks' = [locks EXCEPT ![Last(held[p])] = NoProc]
  /\ held' = [held EXCEPT ![p] = Front(@)]
  /\ Goto(p, "unlock")
  /\ UNCHANGED <<tables, version, req, attempt, snap, answer>>

(* The backend dies: its transaction is lost, its locks stay until they      *)
(* expire, its caller has no answer.                                         *)
Crash(p) ==
  /\ pc[p] # "idle"
  /\ Goto(p, "idle")
  /\ held' = [held EXCEPT ![p] = <<>>]
  /\ snap' = [snap EXCEPT ![p] = NoSnap]
  /\ UNCHANGED <<tables, version, locks, req, attempt, answer>>

(* setStatus is a plain update: no lock, no transaction, no version.         *)
TxSetStatus(w, to) ==
  SetStatus(w, to) /\ UNCHANGED <<version, locks, procVars>>

Serve(p) ==
  \/ Acquire(p) \/ GiveUp(p) \/ Begin(p) \/ Abort(p)
  \/ Replay(p) \/ TxCredit(p) \/ TxDebit(p) \/ TxReserve(p)
  \/ TxCommit(p) \/ TxCommitted(p) \/ TxRelease(p) \/ TxReleased(p)
  \/ TxTransfer(p) \/ TxRollback(p) \/ Refused(p)
  \/ Unlock(p) \/ Del(p)

TxNext ==
  \/ \E p \in Procs : (\E r \in Requests : Submit(p, r)) \/ Serve(p) \/ Crash(p)
  \/ \E w \in Wallets : Expire(w)
  \/ \E w \in Wallets, to \in {"ACTIVE", "FROZEN"} : TxSetStatus(w, to)

(* A request in flight is never left waiting by the runtime: its promises    *)
(* are driven to their end, by timers where it polls for a lock.             *)
TxSpec == TxInit /\ [][TxNext]_txVars /\ \A p \in Procs : WF_txVars(Serve(p))
-----------------------------------------------------------------------------
Snapshot ==
  [taken : {TRUE}, status : [Wallets -> {"ACTIVE", "FROZEN"}], balance : [Wallets -> BalanceState],
   lockedFunds : Seq(LockedFund), txns : Seq(Txn), version : [Wallets -> Nat]]

(* Every variable has its type; in particular no request is tried more often *)
(* than MaxRetries, and none is in flight without having been made.          *)
TxTypeOK ==
  /\ TypeOK
  /\ version \in [Wallets -> Nat]
  /\ locks \in [Wallets -> Procs \cup {NoProc}]
  /\ pc \in [Procs -> {"idle", "lock", "begin", "body", "unlock", "del"}]
  /\ req \in [Procs -> Requests \cup {NoRequest}]
  /\ held \in [Procs -> Seq(Wallets)]
  /\ attempt \in [Procs -> 0 .. MaxRetries]
  /\ snap \in [Procs -> Snapshot \cup {NoSnap}]
  /\ \A p \in Procs : pc[p] # "idle" => req[p] \in Requests
  /\ answer \in [Procs ->
       [kind : {"pending", "done", "refused", "conflict"}, row : Nat]]

(* A credit or debit that read its wallet active completes over a freeze     *)
(* that came in between.                                                     *)
OverFreeze ==
  \E p \in Procs :
    LET r == req[p] IN
    /\ pc[p] = "body"
    /\ r.op \in {"credit", "debit"}
    /\ snap[p].status[r.wallet] = "ACTIVE"
    /\ status[r.wallet] = "FROZEN"
    /\ balance' = [balance EXCEPT ![r.wallet] =
                     IF r.op = "credit" THEN credit(@, r.amount) ELSE debit(@, r.amount)]
    /\ UNCHANGED <<status, lockedFunds>>

(* Concurrent, retried and crashed requests leave the tables as if each had  *)
(* run alone at one instant: every step of the tables is one transaction of  *)
(* WalletEngine, or one that a freeze came too late for.                     *)
ImplementsEngine == [][tables' # tables => Next \/ OverFreeze]_tables

(* Lock ordering ("taken in sorted order"): no two requests ever wait for    *)
(* each other's lock.                                                        *)
Holds(p, w) == locks[w] = p /\ w \in ToSet(held[p])

NoCircularWait ==
  \A p, q \in Procs :
    ~ /\ Waiting(p) /\ Holds(q, WaitsFor(p))
      /\ Waiting(q) /\ Holds(p, WaitsFor(q))
      /\ p # q

(* commitReservation answers a repeated call by its reservation and not by   *)
(* its key: callers use a commit's key for nothing but that commit.          *)
CommitKeysApart ==
  \A r, s \in Requests :
    r.op = "commit" /\ r.key # NoKey /\ s.key = r.key => s.op = "commit" /\ s.fund = r.fund

(* Two requests under one idempotency key that are both told their operation *)
(* was done are told of the same row, however they raced (if CommitKeysApart *)
(* holds of the requests).                                                   *)
DuplicatesAgree ==
  \A p, q \in Procs :
    /\ answer[p].kind = "done" /\ answer[p].row # 0
    /\ answer[q].kind = "done" /\ answer[q].row # 0
    /\ req[p].key = req[q].key
    /\ req[p].key # NoKey
    => answer[p].row = answer[q].row

(* A caller is told "done" only of a row that is stored under its key or its *)
(* round, and the row is still there.                                        *)
DoneIsRecorded ==
  \A p \in Procs :
    answer[p].kind = "done" /\ answer[p].row # 0 =>
      /\ answer[p].row \in DOMAIN txns
      /\ LET t == txns[answer[p].row] IN
         \/ req[p].key # NoKey /\ t.key = req[p].key
         \/ req[p].op = "commit" /\ t.reference =
               <<"bet", lockedFunds[req[p].fund].reason>>
         \/ req[p].key = NoKey /\ t.key = NoKey

(* Every request ends: a wait for a lock is given up, retries run out.       *)
RequestsEnd == \A p \in Procs : pc[p] # "idle" ~> pc[p] = "idle"
=============================================================================
