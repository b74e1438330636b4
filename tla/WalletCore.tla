----------------------------- MODULE WalletCore -----------------------------
(* The in-memory ledger of packages/wallet-core/src/engine.ts, which states  *)
(* what the platform's money operations promise: "the books are always       *)
(* conserved", every operation is idempotent by key, a reservation is        *)
(* resolved once.  The backend "mirrors these operations onto Postgres";     *)
(* WalletEngine is shown to implement this module.                           *)
EXTENDS Balance, Integers, Sequences, FiniteSets, Functions

CONSTANTS Wallets,   \* player wallet references
          Keys,      \* idempotency keys
          NoKey,     \* no key given
          Amounts    \* amounts a caller asks for

ASSUME WalletCoreAssumption ==
  /\ Amounts \subseteq Nat \ {0}
  /\ NoKey \notin Keys

(* Every wallet is an entry of the wallet map.                               *)
ASSUME WalletCoreFinite == IsFiniteSet(Wallets)

VARIABLES wallets,       \* wallet -> balance
          opened,        \* wallets present in the wallet map
          system,        \* the two signed system accounts
          reservations,  \* reservation id (its index) -> reservation
          processed      \* keys whose result is stored

vars == <<wallets, opened, system, reservations, processed>>

Reservation ==
  [wallet : Wallets, amount : Amounts,
   status : {"RESERVED", "COMMITTED", "RELEASED"}]

Init ==
  /\ wallets = [w \in Wallets |-> emptyBalance]
  /\ opened \in SUBSET Wallets
  /\ system = [house |-> 0, external |-> 0]
  /\ reservations = <<>>
  /\ processed = {}

(* The idempotent wrapper: a known key replays its result and changes        *)
(* nothing, a new key is remembered.                                         *)
Idempotent(key) ==
  /\ key \notin processed
  /\ processed' = processed \cup ({key} \ {NoKey})

(* Opening a wallet with a positive balance takes it from outside.           *)
Open(w, opening) ==
  /\ w \notin opened
  /\ opened' = opened \cup {w}
  /\ wallets' = [wallets EXCEPT ![w] = credit(@, opening)]
  /\ system' = [system EXCEPT !.external = @ - opening]
  /\ UNCHANGED <<reservations, processed>>

Credit(w, amount, key) ==
  /\ Idempotent(key)
  /\ opened' = opened \cup {w}
  /\ wallets' = [wallets EXCEPT ![w] = credit(@, amount)]
  /\ system' = [system EXCEPT !.external = @ - amount]
  /\ UNCHANGED reservations

Debit(w, amount, key) ==
  /\ Idempotent(key)
  /\ CanDebit(wallets[w], amount)
  /\ opened' = opened \cup {w}
  /\ wallets' = [wallets EXCEPT ![w] = debit(@, amount)]
  /\ system' = [system EXCEPT !.external = @ + amount]
  /\ UNCHANGED reservations

Reserve(w, amount, key) ==
  /\ Idempotent(key)
  /\ CanReserve(wallets[w], amount)
  /\ opened' = opened \cup {w}
  /\ wallets' = [wallets EXCEPT ![w] = reserve(@, amount)]
  /\ reservations' = Append(reservations,
       [wallet |-> w, amount |-> amount, status |-> "RESERVED"])
  /\ UNCHANGED system

(* The stake goes to the house, a win comes from it (win = 0: none).         *)
(* Mutant: a win returns the stake on top, which the house does not pay.     *)
AfterCommitWithStake(s, stake, win) ==
  IF win > 0 THEN credit(commitReserved(s, stake), win + stake)
             ELSE commitReserved(s, stake)

AfterCommit(s, stake, win) ==
  IF win > 0 THEN credit(commitReserved(s, stake), win)
             ELSE commitReserved(s, stake)

Commit(i, win, key) ==
  LET r == reservations[i] IN
  /\ Idempotent(key)
  /\ r.status = "RESERVED"
  /\ CanSettle(wallets[r.wallet], r.amount)
  /\ wallets' = [wallets EXCEPT ![r.wallet] = AfterCommit(@, r.amount, win)]
  /\ system' = [system EXCEPT !.house = @ + r.amount - win]
  /\ reservations' = [reservations EXCEPT ![i].status = "COMMITTED"]
  /\ UNCHANGED opened

Release(i, key) ==
  LET r == reservations[i] IN
  /\ Idempotent(key)
  /\ r.status = "RESERVED"
  /\ CanSettle(wallets[r.wallet], r.amount)
  /\ wallets' = [wallets EXCEPT ![r.wallet] = releaseReserved(@, r.amount)]
  /\ reservations' = [reservations EXCEPT ![i].status = "RELEASED"]
  /\ UNCHANGED <<opened, system>>

(* The debit is stored before the credit reads, so the two cannot overlap.   *)
Transfer(from, to, amount, key) ==
  /\ from # to
  /\ Idempotent(key)
  /\ CanDebit(wallets[from], amount)
  /\ opened' = opened \cup {from, to}
  /\ wallets' = [wallets EXCEPT ![from] = debit(@, amount),
                                ![to]   = credit(@, amount)]
  /\ UNCHANGED <<system, reservations>>

Next ==
  \/ \E w \in Wallets, a \in Amounts : Open(w, a)
  \/ \E w \in Wallets, a \in Amounts, k \in Keys \cup {NoKey} :
        Credit(w, a, k) \/ Debit(w, a, k) \/ Reserve(w, a, k)
  \/ \E i \in DOMAIN reservations, k \in Keys \cup {NoKey} :
        (\E win \in Amounts \cup {0} : Commit(i, win, k)) \/ Release(i, k)
  \/ \E from, to \in Wallets, a \in Amounts, k \in Keys \cup {NoKey} :
        Transfer(from, to, a, k)

Spec == Init /\ [][Next]_vars
-----------------------------------------------------------------------------
TypeOK ==
  /\ wallets \in [Wallets -> BalanceState]
  /\ opened \in SUBSET Wallets
  /\ system \in [house : Int, external : Int]
  /\ reservations \in Seq(Reservation)
  /\ processed \in SUBSET Keys

worth == [w \in Wallets |-> total(wallets[w])]

(* engine.ts l.24: the players' balances and the system accounts always sum  *)
(* to zero, whatever sequence of operations ran.                             *)
isConserved == SumFunctionOnSet(worth, Wallets) + system.house + system.external = 0

staked == [i \in DOMAIN reservations |-> reservations[i].amount]

unresolved(w) ==
  {i \in DOMAIN reservations : /\ reservations[i].wallet = w
                               /\ reservations[i].status = "RESERVED"}

(* The locked part of a balance is exactly its unresolved reservations, so   *)
(* a stake can always be settled or returned.                                *)
LockedIsReserved ==
  \A w \in Wallets : wallets[w].locked = SumFunctionOnSet(staked, unresolved(w))
=============================================================================
