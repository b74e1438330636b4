---------------------------- MODULE WalletEngine ----------------------------
(* The wallet engine of the backend (wallet-engine.service.ts) at the grain  *)
(* of its database transactions: every public operation runs in one          *)
(* serializable transaction, so it is one action here.  How that atomicity   *)
(* comes about, with Redis locks, versions and retries, is WalletTx.         *)
(*                                                                           *)
(* State: the wallet, wallet_balance, locked_funds, wallet_transaction and   *)
(* ledger tables.  Rows are only ever appended to the last three, so each is *)
(* a sequence indexed by row id; the ledger is kept as the net position it   *)
(* gives every wallet.  One currency: no operation relates two.              *)
EXTENDS Balance, Integers, Sequences, FiniteSets, Functions

CONSTANTS Users,    \* players
          Types,    \* wallet types a player holds, MAIN among them
          MAIN,
          House,    \* the house wallet: ledger entries only, no balance kept
          Keys,     \* idempotency keys
          NoKey,
          Refs,     \* references of rounds
          NoRef,    \* stands for the random reference txn-<uuid>
          Amounts   \* amounts a caller asks for

Wallets == Users \X Types

Accounts == Wallets \cup {House}

ASSUME WalletEngineAssumption ==
  /\ MAIN \in Types
  /\ House \notin Wallets
  /\ NoKey \notin Keys
  /\ NoRef \notin Refs
  /\ Amounts \subseteq Nat \ {0}

(* Wallets are rows of a table.                                              *)
ASSUME WalletEngineFinite == IsFiniteSet(Users) /\ IsFiniteSet(Types)

VARIABLES status,       \* wallet -> ACTIVE or FROZEN
          balance,      \* wallet -> wallet_balance row
          lockedFunds,  \* locked_funds rows
          txns,         \* wallet_transaction rows
          books         \* account -> net of its posted ledger entries

vars == <<status, balance, lockedFunds, txns, books>>

TypeCodes ==
  {"CREDIT", "DEBIT", "RESERVE", "GAME_BET", "GAME_WIN", "RESERVE_RELEASE",
   "TRANSFER_OUT", "TRANSFER_IN", "ROLLBACK"}

(* A reference names the round and the leg of it the row records.            *)
Reference ==
  {"stake", "bet", "win", "release"} \X Refs \cup {<<"auto", NoRef>>}

AutoRef == <<"auto", NoRef>>

LockedFund ==
  [wallet : Wallets, amount : Amounts, reason : Refs,
   status : {"LOCKED", "RELEASED"}]

Txn ==
  [wallet : Wallets, type : TypeCodes, amount : Amounts, before : Nat,
   after : Nat, key : Keys \cup {NoKey}, reference : Reference, related : Nat]

Init ==
  /\ status = [w \in Wallets |-> "ACTIVE"]
  /\ balance = [w \in Wallets |-> emptyBalance]
  /\ lockedFunds = <<>>
  /\ txns = <<>>
  /\ books = [a \in Accounts |-> [play |-> 0, cash |-> 0]]
-----------------------------------------------------------------------------
(* The unique constraints of wallet_transaction.  An operation that would    *)
(* break one is aborted on each of its retries and changes nothing; one that *)
(* finds its key in replay() returns early and changes nothing.              *)
(* Mutant: the key column is not unique.                                     *)
KeyFreeAlways(key) == TRUE

KeyFree(key) == key = NoKey \/ \A i \in DOMAIN txns : txns[i].key # key

ReferenceFree(ref) == ref = AutoRef \/ \A i \in DOMAIN txns : txns[i].reference # ref

(* The row written by recordTxn for wallet w going from state s to state t.  *)
(* Mutants: the row is written with the balance as it was read; the row goes *)
(* to the player's MAIN wallet whichever wallet moved.                       *)
RowAsRead(w, type, amount, s, t, key, ref, related) ==
  [wallet |-> w, type |-> type, amount |-> amount, before |-> total(s),
   after |-> total(s), key |-> key, reference |-> ref, related |-> related]

RowOfMain(w, type, amount, s, t, key, ref, related) ==
  [wallet |-> <<w[1], MAIN>>, type |-> type, amount |-> amount,
   before |-> total(s), after |-> total(t), key |-> key, reference |-> ref,
   related |-> related]

Row(w, type, amount, s, t, key, ref, related) ==
  [wallet |-> w, type |-> type, amount |-> amount, before |-> total(s),
   after |-> total(t), key |-> key, reference |-> ref, related |-> related]

(* Two ledger entries moving amount from one account to another, under the   *)
(* heading of game rounds (bet and win journals) or of other cash movements. *)
(* Mutants: the directions swapped; the counter-entry forgotten.             *)
postPlaySwapped(b, from, to, amount) ==
  [b EXCEPT ![from].play = @ + amount, ![to].play = @ - amount]

postCashOneSided(b, from, to, amount) == [b EXCEPT ![from].cash = @ - amount]

postPlay(b, from, to, amount) ==
  [b EXCEPT ![from].play = @ - amount, ![to].play = @ + amount]

postCash(b, from, to, amount) ==
  [b EXCEPT ![from].cash = @ - amount, ![to].cash = @ + amount]

(* lockedFunds.update: the reservation is resolved.                          *)
(* Mutant: the update is forgotten.                                          *)
StillLocked(i) == lockedFunds

Resolved(i) == [lockedFunds EXCEPT ![i].status = "RELEASED"]
-----------------------------------------------------------------------------
(* credit and debit: applyAvailableDelta.  Their callers leave the reference *)
(* to the engine.                                                            *)
Credit(w, amount, key) ==
  LET next == credit(balance[w], amount) IN
  /\ KeyFree(key)
  /\ status[w] = "ACTIVE"
  /\ balance' = [balance EXCEPT ![w] = next]
  /\ txns' = Append(txns, Row(w, "CREDIT", amount, balance[w], next, key, AutoRef, 0))
  /\ books' = postCash(books, House, w, amount)
  /\ UNCHANGED <<status, lockedFunds>>

Debit(w, amount, key) ==
  LET next == debit(balance[w], amount) IN
  /\ KeyFree(key)
  /\ status[w] = "ACTIVE"
  /\ CanDebit(balance[w], amount)
  /\ balance' = [balance EXCEPT ![w] = next]
  /\ txns' = Append(txns, Row(w, "DEBIT", amount, balance[w], next, key, AutoRef, 0))
  /\ books' = postCash(books, w, House, amount)
  /\ UNCHANGED <<status, lockedFunds>>

(* reserve: from the player's MAIN wallet; nothing is posted to the ledger.  *)
Reserve(u, amount, ref, key) ==
  LET w    == <<u, MAIN>>
      next == reserve(balance[w], amount)
  IN
  /\ KeyFree(key)
  /\ ReferenceFree(<<"stake", ref>>)
  /\ CanReserve(balance[w], amount)
  /\ balance' = [balance EXCEPT ![w] = next]
  /\ lockedFunds' = Append(lockedFunds,
       [wallet |-> w, amount |-> amount, reason |-> ref, status |-> "LOCKED"])
  /\ txns' = Append(txns,
       Row(w, "RESERVE", amount, balance[w], next, key, <<"stake", ref>>, 0))
  /\ UNCHANGED <<status, books>>

(* commitReservation: the stake is consumed and the win credited in one      *)
(* transaction.  Its caller settles a round under the reference it reserved  *)
(* with.  The win row's balanceBefore is the stake, as in the code.          *)
CommitReservation(i, win, key) ==
  LET r     == lockedFunds[i]
      w     == r.wallet
      ref   == r.reason
      spent == commitReserved(balance[w], r.amount)
      next  == IF win > 0 THEN credit(spent, win) ELSE spent
      bet   == Row(w, "GAME_BET", r.amount, balance[w], next, key,
                   <<"bet", ref>>, 0)
      won   == [Row(w, "GAME_WIN", win, next, next, NoKey, <<"win", ref>>, 0)
                  EXCEPT !.before = r.amount]
      paid  == postPlay(books, w, House, r.amount)
  IN
  /\ r.status = "LOCKED"
  /\ KeyFree(key)
  /\ ReferenceFree(<<"bet", ref>>)
  /\ win > 0 => ReferenceFree(<<"win", ref>>)
  /\ CanSettle(balance[w], r.amount)
  /\ balance' = [balance EXCEPT ![w] = next]
  /\ lockedFunds' = Resolved(i)
  /\ txns' = txns \o (IF win > 0 THEN <<bet, won>> ELSE <<bet>>)
  /\ books' = IF win > 0 THEN postPlay(paid, House, w, win) ELSE paid
  /\ UNCHANGED status

ReleaseReservation(i, key) ==
  LET r    == lockedFunds[i]
      w    == r.wallet
      next == releaseReserved(balance[w], r.amount)
  IN
  /\ r.status = "LOCKED"
  /\ KeyFree(key)
  /\ ReferenceFree(<<"release", r.reason>>)
  /\ CanSettle(balance[w], r.amount)
  /\ balance' = [balance EXCEPT ![w] = next]
  /\ lockedFunds' = Resolved(i)
  /\ txns' = Append(txns, Row(w, "RESERVE_RELEASE", r.amount, balance[w], next,
                              key, <<"release", r.reason>>, 0))
  /\ UNCHANGED <<status, books>>

(* transfer: between two wallet types of one player.                         *)
Transfer(u, fromType, toType, amount, key) ==
  LET from == <<u, fromType>>
      to   == <<u, toType>>
      nextFrom == debit(balance[from], amount)
      nextTo   == credit(balance[to], amount)
      out == Row(from, "TRANSFER_OUT", amount, balance[from], nextFrom, key, AutoRef, 0)
      in  == Row(to, "TRANSFER_IN", amount, balance[to], nextTo, NoKey, AutoRef,
                 Len(txns) + 1)
  IN
  /\ fromType # toType
  /\ KeyFree(key)
  /\ CanDebit(balance[from], amount)
  /\ balance' = [balance EXCEPT ![from] = nextFrom, ![to] = nextTo]
  /\ txns' = txns \o <<out, in>>
  /\ books' = postCash(books, from, to, amount)
  /\ UNCHANGED <<status, lockedFunds>>

(* rollback: the direction is read off the row's own before and after; no    *)
(* journal is posted.                                                        *)
wasDebit(t) == t.after < t.before

Rollback(i, key) ==
  LET t    == txns[i]
      w    == t.wallet
      next == IF wasDebit(t) THEN credit(balance[w], t.amount)
                             ELSE debit(balance[w], t.amount)
  IN
  /\ KeyFree(key)
  /\ wasDebit(t) \/ CanDebit(balance[w], t.amount)
  /\ balance' = [balance EXCEPT ![w] = next]
  /\ txns' = Append(txns, Row(w, "ROLLBACK", t.amount, balance[w], next, key, AutoRef, i))
  /\ UNCHANGED <<status, lockedFunds, books>>

(* freeze and unfreeze: setStatus.                                           *)
SetStatus(w, to) ==
  /\ status' = [status EXCEPT ![w] = to]
  /\ UNCHANGED <<balance, lockedFunds, txns, books>>
-----------------------------------------------------------------------------
(* What the games, the player and the promotions do ...                      *)
PlayNext ==
  \/ \E w \in Wallets, a \in Amounts, k \in Keys \cup {NoKey} :
        Credit(w, a, k) \/ Debit(w, a, k)
  \/ \E u \in Users, a \in Amounts, k \in Keys \cup {NoKey} :
        \/ \E ref \in Refs : Reserve(u, a, ref, k)
        \/ \E f, t \in Types : Transfer(u, f, t, a, k)
  \/ \E i \in DOMAIN lockedFunds, k \in Keys \cup {NoKey} :
        \/ \E win \in Amounts \cup {0} : CommitReservation(i, win, k)
        \/ ReleaseReservation(i, k)
  \/ \E w \in Wallets, to \in {"ACTIVE", "FROZEN"} : SetStatus(w, to)

(* ... and the administrator's correction.                                   *)
Correction == \E i \in DOMAIN txns, k \in Keys \cup {NoKey} : Rollback(i, k)

Next == PlayNext \/ Correction

Spec == Init /\ [][Next]_vars
-----------------------------------------------------------------------------
TypeOK ==
  /\ status \in [Wallets -> {"ACTIVE", "FROZEN"}]
  /\ balance \in [Wallets -> BalanceState]
  /\ lockedFunds \in Seq(LockedFund)
  /\ txns \in Seq(Txn)
  /\ books \in [Accounts -> [play : Int, cash : Int]]

(* The rows that resolve the round of reference ref.                         *)
Resolves(i, ref) == txns[i].reference \in {<<"bet", ref>>, <<"release", ref>>}

(* While a reservation is LOCKED no row bets or releases its stake, ...      *)
OpenIsUnresolved ==
  \A i \in DOMAIN lockedFunds : lockedFunds[i].status = "LOCKED" =>
    \A j \in DOMAIN txns : ~Resolves(j, lockedFunds[i].reason)

(* ... once it is RELEASED exactly one row does, ...                         *)
ClosedByOneRow ==
  \A i \in DOMAIN lockedFunds : lockedFunds[i].status = "RELEASED" =>
    \E j \in DOMAIN txns :
      /\ Resolves(j, lockedFunds[i].reason)
      /\ \A k \in DOMAIN txns : Resolves(k, lockedFunds[i].reason) => k = j

(* ... no two reservations share a round, ...                                *)
RoundsApart ==
  \A i, j \in DOMAIN lockedFunds : lockedFunds[i].reason = lockedFunds[j].reason => i = j

(* ... and a round is only won if its bet was taken.                         *)
WonIsBet ==
  \A j \in DOMAIN txns, ref \in Refs : txns[j].reference = <<"win", ref>> =>
    \E k \in DOMAIN txns : txns[k].reference = <<"bet", ref>>

(* A reservation is resolved at most once: two settlements of one round, or  *)
(* a settlement and a cancellation, would each spend the stake               *)
(* (commitReservation and releaseReservation).                               *)
SettledOnce == OpenIsUnresolved /\ ClosedByOneRow /\ RoundsApart /\ WonIsBet

net(a) == books[a].play + books[a].cash

RolledBack(w) == \E i \in DOMAIN txns : txns[i].wallet = w /\ txns[i].type = "ROLLBACK"

(* Every wallet's balance is what its ledger entries add up to ("every       *)
(* balance movement is recorded with a double-entry ledger"), whatever was   *)
(* played, paid and moved, as long as nothing on it was rolled back.         *)
LedgerExplainsBalance ==
  \A w \in Wallets : ~RolledBack(w) => total(balance[w]) = net(w)

(* The trial balance of wallet-ledger.service reconcile(): over all accounts *)
(* debits equal credits, under either heading.                               *)
BooksBalance ==
  /\ SumFunctionOnSet([a \in Accounts |-> books[a].play], Accounts) = 0
  /\ SumFunctionOnSet([a \in Accounts |-> books[a].cash], Accounts) = 0

(* A wallet's statement ends at its balance: the balanceAfter of its latest  *)
(* row is its total, so no operation moves money past its own row.           *)
StatementEndsAtTotal ==
  \A i \in DOMAIN txns :
    (\A j \in DOMAIN txns : txns[j].wallet = txns[i].wallet => j <= i)
      => txns[i].after = total(balance[txns[i].wallet])

(* "Every balance movement is recorded as an immutable transaction": a step  *)
(* that changes a balance adds a row of that wallet, no row is changed or    *)
(* removed, and a resolved reservation stays as it is.                       *)
RecordedForGood ==
  [][/\ Len(txns) <= Len(txns')
     /\ \A i \in DOMAIN txns : txns'[i] = txns[i]
     /\ \A w \in Wallets : balance'[w] # balance[w] =>
          \E i \in DOMAIN txns' \ DOMAIN txns : txns'[i].wallet = w
     /\ \A i \in DOMAIN lockedFunds :
          lockedFunds[i].status = "RELEASED" => lockedFunds'[i] = lockedFunds[i]
    ]_vars
-----------------------------------------------------------------------------
(* The mapping to the in-memory ledger: the house account takes the journals *)
(* of rounds and the outside world the rest; a RELEASED row stands for a     *)
(* committed reservation if its bet was recorded.                            *)
Outcome(rows, r) ==
  IF r.status = "LOCKED" THEN "RESERVED"
  ELSE IF \E i \in DOMAIN rows : rows[i].reference = <<"bet", r.reason>>
       THEN "COMMITTED" ELSE "RELEASED"

AsReservation(rows, r) ==
  [wallet |-> r.wallet, amount |-> r.amount, status |-> Outcome(rows, r)]

coreSystem == [house |-> books[House].play, external |-> books[House].cash]

coreReservations ==
  [i \in DOMAIN lockedFunds |-> AsReservation(txns, lockedFunds[i])]

coreProcessed == {txns[i].key : i \in DOMAIN txns} \ {NoKey}

Core == INSTANCE WalletCore WITH
  wallets <- balance,
  opened <- Wallets,
  system <- coreSystem,
  reservations <- coreReservations,
  processed <- coreProcessed

(* The backend implements the in-memory ledger ("mirrors these operations    *)
(* onto Postgres"): every transaction but the administrator's correction,    *)
(* which that ledger does not have, is one of its operations.  A correction  *)
(* leaves what is locked and reserved alone, so that ledger's                *)
(* LockedIsReserved is true of the backend as well.                          *)
ImplementsCore ==
  /\ Core!Init
  /\ [][Core!vars' # Core!vars =>
          \/ Core!Next
          \/ /\ Correction
             /\ lockedFunds' = lockedFunds
             /\ \A w \in Wallets : balance'[w].locked = balance[w].locked]_vars
-----------------------------------------------------------------------------
(* What the documents say and the code does not do.                          *)

(* "All mutation is blocked until unfrozen."                                 *)
FrozenWalletStands ==
  [][\A w \in Wallets :
       status[w] = "FROZEN" => balance'[w] = balance[w]]_vars

(* "Reverse direction: a debit is credited back": rolling a lost or won      *)
(* stake back returns it.                                                    *)
RollbackReturnsStake ==
  \A i, j \in DOMAIN txns :
    /\ txns[j].related = i
    /\ txns[j].type = "ROLLBACK"
    /\ txns[i].type = "GAME_BET"
    => txns[j].after > txns[j].before
=============================================================================
