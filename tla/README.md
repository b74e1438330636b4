# A verification development for the Gaming Platform backend

The repository is a NestJS backend with a Next.js client, a set of pure
packages (`packages/*`, `games/*`) and a Postgres/Redis pair behind them. This
directory holds TLA+ modules of the parts whose correctness depends on the order
in which things happen, the TLC configurations that model-check them, and
theorems about them that the TLA+ proof system checks.

Paths below are relative to the repository root; `W` stands for
`apps/backend/src/modules/wallet-engine/services/wallet-engine.service.ts`.

## 1. Inventory

| Component | State | Operations | Interacts with | Hard behaviour | Makes it correct |
|---|---|---|---|---|---|
| `packages/wallet-core/src/balance.ts` | a balance: available, locked, pending | credit, debit, reserve, commit, release | every wallet operation calls it | boundary of "enough funds" | no part is ever negative |
| `packages/wallet-core/src/engine.ts` | wallets, house and external account, reservations, used keys | credit, debit, reserve, commit, release, transfer | the reference the backend "mirrors onto Postgres" | any sequence of calls | money is conserved, locked money is reserved money |
| wallet engine (`W`) | rows in Postgres (wallets, balances, locked funds, transactions, ledger), locks in Redis | the above, and rollback, freeze | called by the bridge, bonus, rewards, controllers | serializable transactions with retries, Redis locks that expire, idempotency keys, process death | an operation is atomic and happens once; a round is settled once; ledger and statement explain the balance |
| wallet bridge, settlement | none | reserveBet, settle, cancel, settleImmediate | games and tournaments above, engine below | two transactions in a row, of which the second may fail; replay after settlement | a payment has a round on record |
| bonus and reward wallets | bonus wallets, points | grant, addWagering, convert, earn, redeem | wallet engine | read-modify-write without a transaction; a conversion that stops half-way | a bonus converts once |
| ledger, balance, transaction queries | none | reads, reconcile | tables of the engine | - | - |
| crash table (session service, gateway) | a JSON record in Redis, a timer per table, result rows, session totals | startRound, cashout, resolve, end, fireBust | bridge, Postgres, sockets | request against timer, whole-record writes, crash between steps, TTL | a round is resolved once, on time, and paid as resolved |
| dice, roulette, card tables | a JSON record in Redis, result rows, session totals | create, roll/spin/playRound, deal, hit, stand, end | bridge | two calls of one nonce; a hand next to a round | totals are those of the results; a result is paid as recorded |
| sports betting | a JSON list of slips per player in Redis, a JSON row per match | quote, place, settlePending; upsert, settle, reprice, suspend, remove a match | bridge | sweep against placement, stale rows of matches, pushes and voids, a list that lapses, ids that repeat after a restart, statuses kept by the id of a selection | a slip is what its legs make of it, once |
| tournament service, `tournament-core` | one JSON row per tournament | lifecycle, register, check-in, withdraw, reportMatch, complete, cancel | bridge, gateway | whole-row writes, fees before decisions, a bound on the row that is looked at after the fee, byes, second draws, ties for prizes | entrants paid and payers are entered; nobody falls out of a bracket; awards add up to the pool |
| rewards, leaderboards | claims; entries with ranks, scores in Redis | grant, claim; submit | wallet engine, bonus wallet | claim against claim, submission against submission, half a submission | a reward is paid once; ranks follow scores |
| missions, seasons, achievements | progress rows | recordEvent, recordProgress (no callers), upsert | - | - | - |
| authentication sessions | session and refresh-token rows, session keys in Redis | login, start, rotate, revoke, revokeAll, reuse, concurrency limit, password change | every guarded request | rotation against rotation or revocation, login against a change of password, challenges that outlive the password they were issued for | a revoked session stays dead, a session lives by one token, a new password ends the old sessions |
| account recovery, second factor | one-time tokens, failed attempts and locks, challenges | request, reset, lock, unlock, verify | sessions, mail | two uses of one token | a reset ends every session |
| operations queue, breakers, alerts | jobs in memory, breaker states | enqueue, drain, retry | monitoring | a hanging job, retries, half-open probes | a job ends, once |
| game runtime, `game-sdk` | a record in Redis, hosted plugins in memory, rooms that are broadcast | join, act, end, sweep; load to destroy | clients | joins that overlap, a sweep before a join, restarts | what is hosted runs, its room hears it once |
| game engines (`games/*`) | none (pure) | a round from a seed | tables | - | covered by unit tests |
| authorization, users, admin, catalogue, notifications, mail, AI, analytics, client, schema | rows and caches | reads and single-row writes | - | - | - |

The requests of a player run as promises on one or more Node processes: between
two `await`s anything may happen, and nothing but Postgres and Redis is shared
between processes. That is the concurrency of every model here.

## 2. Modules

    Balance            pure operators of balance.ts
      WalletCore       the in-memory ledger: the abstract specification
      WalletEngine     the engine's tables, one action per database transaction
        WalletTx       the same operations statement by statement, under locks
    CrashSession       the crash table, its timer and its settlement
    WalletBridge       the wallet as its callers see it
      TournamentEngine tournament-core, pure operators
        Tournament     the tournament service: rows, fees, refunds, prizes
      GameTable        a dice, roulette or card table
    AuthSession        login sessions, tokens, passwords
    Sportsbook         bet slips and the matches they are settled by
    Rewards            reward claims and bonus wallets
    Leaderboard        scores and ranks
    GameRuntime        hosted plugins and their rooms
      Services         the modules from Tournament to GameRuntime, side by side
    MC*                bounds for TLC
    *Proofs            theorems (section 5)

**Balance** is balance.ts with amounts as naturals of the smallest unit (the code
computes with 18-digit decimals, never with floating point). The pending part is
left out: nothing calls `addPending` or `settlePending`.

**WalletCore** is engine.ts, one action per method. `Idempotent(key)` is the early
return of `idempotent()`: a used key changes nothing, so the action is not taken.

**WalletEngine** is `W` at the grain of its transactions. Its variables are the
tables: `status` and `balance` of a wallet, `lockedFunds`, `txns`
(wallet_transaction), and `books`, the ledger entries of each account summed per
kind (`play` for the journals of rounds, `cash` for all others). Each public
method is an action: its guard collects the method's exceptions and early
returns, its primed variables what it writes, in one step because `run()` makes
them one serializable transaction. `KeyFree` and `ReferenceFree` are the unique
columns; the references `reserve` and `commit` build from the round (`:bet`,
`:win`, `:release`) are pairs. `Rollback` is the administrator's correction
(W:357); it is apart from `PlayNext` because wallet-core has no such operation.

**WalletTx** extends WalletEngine with what `run`, `lockMany` and `writeBalance`
do: a process takes its locks one by one in the order of ids (`Acquire`; `IdOrder` is
the place of a wallet's id in that order), gives up after its last attempt (`GiveUp`),
takes its snapshot with the first statement (`Begin`), and then either answers from it, aborts and retries, or writes: `Write`
needs the versions it read and free unique keys. Any transaction may abort
(Postgres may always report a serialization failure), locks expire at any time,
a process may die at any step and its transaction with it, and `releaseLock` is
the two commands it is in the code, GET and DEL.

**CrashSession** is crash-session.service.ts with crash.gateway.ts. A call begins
with its read of the Redis record and goes on through the writes the code awaits
one by one: the record (`CloseRound`), the result row, the session's totals, the
reservation, its settlement, and, for a cash-out over the socket, the clearing of
the timer. A round is its nonce; the crash point is a function of the nonce
because the seed is. The wallet is what `reserve` and `commit` answer under the
keys of a round, including the transaction id `reserve` returns for a key whose
reservation is no longer open (W:133). Three history variables say whether calls
overlapped, whether a round was started over HTTP (which sets no timer) and
whether the process was restarted; no guard reads them but one, the bound on
restarts. Rulesets that forbid a cash-out, the cap on payouts and the shape of the
curve are abstracted; the order of multipliers is kept.

**WalletBridge** is wallet-bridge.service.ts for the modules that move money
through it: under a key there is a reservation, open until it is settled.
`BetRefused` stands for a refusal of the engine and for a key that is used and has
nothing open. A settlement that fails (`SettleBetFails`: attempts used up, database
lost) is logged and thrown on to the caller (lines 108-118): the reservation stays
open, or is committed without the caller knowing. `SettleImmediately` is the whole of
settleImmediate for callers that hold nothing meanwhile, failures included; without a
stake it does nothing (line 95), which is how refunds and prizes come to move no money.

**TournamentEngine** holds the rules as operators on a tournament's record, a
match named by side, round and position. Every generator of bracket.ts is there,
with the wiring of winners and losers, byes, the circle method and the pairing of a
swiss round; so are the reports with their advancement, the two kinds of standings
and the four ways of giving prizes. Ratings are never set by the service, so seeds
are the order of registration. **Tournament** is the service: a call reads the row
(`Request`), takes a fee (`TakeFee`, `SettleFee`, either of which the wallet may
refuse or fail), passes refunds or prizes on (`Refund`, `Prizes`), reads the row again
where `transition` does (`Transition`) and writes it back whole (`Save`), where the
engine may still refuse (`Refused`) and the row be too long (`IsOversize`: four players
per place, lines 371-373); both come after the fee. `Accepts` is what the service itself asks of
the row before it calls the engine, `Result` what the call makes of it.

**AuthSession** is session.service.ts with the parts of auth.service.ts,
account-security.service.ts and password-reset.service.ts that open and close
sessions. A call is the sequence of its statements; a session is its row and its
key in Redis (`cached`), and may expire at any time. Revocation is one transaction
per session and a DEL after it, several of them in any order (`RevokeOne`,
`ClearOne`). Passwords are numbers. A two-factor challenge remembers the password
that was shown for it; resets and changes leave it open, it lapses by time
(`ChallengeExpires`, 300 s), and its answer opens a session without asking for the
password again. A session row says how it was opened and what the password was when it
was (`by`, `since`). `scope` says which operations meet in a
behaviour. `raced` is a history variable: the sessions and calls that another call
got between; no guard reads it.

**GameTable** is dice-session.service.ts, whose record, order of writes and
settlement roulette and card share, with the interactive blackjack of
card-session.service.ts. The engines are one constant, `Pays(nonce, hits)`, since a
round is a function of its seed, nonce and hits. The settlement of a recorded round may
fail (`SettleRoundFails`). **Sportsbook** is
sports-betting.service.ts over the match rows of sports-catalog.service.ts, with
settlement.ts as operators; the lookup of each leg and of each slip's matches is a
step of its own. Statuses are kept by the id of a selection, the last leg with it
deciding (`statusById`); a market or selection the match no longer has makes the leg
void, a side settlement does not know leaves it pending. The list lapses as a whole
(`ListExpires`), and the counter of slip ids starts again with the process
(`ProcessRestarts`): `bet` is the slip itself, a history, and `id` what the code
calls it. **Rewards** puts claims and bonus wallets side by side because a
bonus reward ends in a bonus wallet; any call may stop after any of its statements.
**Leaderboard** is `submit` in its four statements. **GameRuntime** is
active-runtime.service.ts with the lifecycle of game-sdk, each status a place where
other calls run, and the room of runtime.gateway.ts.

**Services** composes them. They call the wallet bridge and nothing of each other,
under keys no two of them share (`tnmt:`, `dice:`, `card:`, `sports:`, `bonus-`,
`reward-`), so steps of two services commute; a behaviour therefore follows one of
them (`focus`) and the rest stay as they began, instead of multiplying their
states. The wallet is the one variable they have in common.

## 3. Runs

| Run | Shows | Bounds, and why they do |
|---|---|---|
| `core` | conservation and backing of reservations in the in-memory ledger | 2 wallets, 3 reservations, 4 units deposited: two open reservations in one wallet and one in the other |
| `engine` | settlement, locked money, ledger, statement, permanence of rows, and that the tables implement WalletCore | one player, two wallets, 5 rows: credit, stake, bet and win, rollback of any of them; rounds are symmetric |
| `tx` | requests that race are atomic, agree under one key, cannot wait for each other in a circle, and end | 2 processes, three loads (two settlements, a cancellation and a stake under one key; opposite transfers and a correction; a credit and a debit under one key, and a freeze), 2 attempts each, from a wallet with two open rounds, with crashes and expiring locks; two processes suffice for a race, since every conflict is between two transactions. 0.3 million states, two minutes |
| `crash` | results, totals and payments agree through races, restart and expiry; fresh rounds and armed timers with one call at a time | one player call and the timer callback, 2 stakes (with and without automatic cash-out), multipliers before and at the crash point and a round that busts at once, no start after 2 results: a timer can outlive its round |
| `crash_live` | a round started over the socket ends | the same, 3 results, one call at a time |
| `services` | each service beside the wallet keeps its promises through races, half-done calls and stale reads | two calls at a time in every service. Tournaments: brackets of 3 players in 4 slots in every format, one with prizes for the second and third only, whom a tie leaves out, and, for calls that begin together before the start, one place with a waiting list; a row holds two players per place (`Oversize`; four in the code, line 371), so that the third of three payers meets the bound. Sessions: 1 to 4 sessions, 2 or 3 tokens, in groups of operations that can disturb each other (`MCScopes`). Tables: 2 rounds, a hand that busts at its second hit. Slips: two legs of two matches, with and without one selection id; a total with push, void and missing result; a match entered anew without the selection; list of 2; odds over the cap. Boards: 3 users, 2 scores. Runtimes: 3 objects, so that two starts overlap and a third follows. One claim and one bonus, asked for without end. 1.9 million states, under four minutes |
| `refunds` | *violation*: a cancelled tournament refunds nobody | the same, four players per place |
| `dense_ranks` | *violation*: ranks after a tie are skipped | as `refunds` |
| `shared_selection` | *violation*: a leg its own match lost is settled as won | as `refunds` |
| `frozen` | *violation*: a frozen wallet still moves | 3 rows |
| `rollback_bet` | *violation*: rolling a won round's bet back takes the stake again | 5 rows |
| `crash_twice` | *violation*: one round, two results | 2 results |

The six violations are disagreements between the code and what its comments or
documents say of it; PROJECT.json quotes them under "findings". `crash`, its live
run, `core` and `services` switch deadlock checking off: a table that was ended, or
a player who lost all the money the bound lets in, really is at an end.

### Properties

*Engine.* `SettledOnce` is four statements: an open reservation has no settlement
row; a closed one has exactly one; a round has one reservation; a win has its bet.
`LedgerExplainsBalance` says that a wallet no rollback touched is worth what its
ledger entries add up to; `BooksBalance` that entries sum to zero over all
accounts. `StatementEndsAtTotal` relates a wallet's last row to its balance, and
`RecordedForGood` says what a step may never do: move a balance without a row,
change a row, touch a resolved reservation. `LockedIsReserved` (of `core`) ties the
locked part of a balance to the open reservations; the engine inherits it through
`ImplementsCore`, under which a correction may touch neither.

*Transactions.* `ImplementsEngine`: every step that changes the tables is one
transaction of WalletEngine, or a credit or debit that read its wallet active
before a freeze came in between. So the optimistic version, the snapshot and the
unique keys, not the locks, make the engine atomic: the property holds with locks
that expire under their holders, with locks deleted by another holder's DEL, and
for `commitReservation`, `releaseReservation` and `rollback`, which take none.
`NoCircularWait` is the reason for sorting the ids. `DuplicatesAgree` and
`DoneIsRecorded` say what an answer is worth to a caller who retries. `RequestsEnd`
promises a caller an end, locks of dead processes notwithstanding; it is the process's own death
that ends a request without an answer.

*Crash table.* `PaidBelowCrash`, `PaymentIsRecorded` and `TotalsMatchResults` hold
whatever overlaps. `RoundsAreFresh`, `RoundIsArmed` and `EndedIsGone` hold as long
as one call follows another, and only then: the record is written back whole by
whoever read it last.

*Services.* `EntrantsPaid` and `TotalsFollowResults` hold whatever overlaps.
`PaidIsEntered`, `RecordedIsPaid` and `SlipsSettleOnce` are promises to calls that
follow one another: rows, records and lists are written back whole, and each of the
three fails as soon as two calls overlap. The first two allow for what the code does
not recover from: an error of the wallet between reservation and settlement, which
leaves a fee taken and nobody entered, or a round on record with its stake still
reserved (its stake and win must be those of the result all the same); and, of a fee,
the bound on the row. The third says that the list as a whole may lapse, single slips
of it never do while there is room, and a slip once settled stays as it is. `PlayersPlaced` says that nobody falls out of a
bracket, in any format, through byes, reports in any order, withdrawals and a
second draw: who is not out has one match to play, or won the last one.
`AwardsSumToPool` is what the code makes of the comment of prizes.ts ("to the last minor
unit"): a completed tournament gives away exactly its pool, through ties, waiting lists
and tiers beyond the field, if a player is left and the rank of one falls into a tier,
and nothing at all otherwise, a case the comment does not know. `RevokedIsOver`, `LivesByOneToken` and
`PasswordEndsSessions` leave out the sessions that `raced`: a rotation that was under way
when its session was revoked does revive it, by its last statement, the SET in
Redis. `PasswordEndsSessions` leaves out one thing more, with no overlap in it: a
session opened since by the answer to a challenge of an earlier password. `SessionsLimited` bounds by how much the limit can be passed.
`SlipFollowsLegs` recomputes a settled slip from its legs, and the legs from their own
matches unless two of them share a selection id (`LegsFollowMatches`, a violation). `RewardsPaidOnce` relates
claims, bonus wallets and credits, with the two holes it names. `RanksFollowScores`
says that a submission that ran alone repairs whatever others left; its ranks are the
code's, which are not the dense ones of the comment and the docs (`RanksAreDense`, a
violation).
`RoomHearsRuntime` forbids silent and doubled broadcasts, and running plugins nobody
hosts, up to the first sweep, end or overlap of starts.

### What was seen on the way

Facts of the code the models show that are not kept as runs of their own:

- `rollback` moves a balance and posts nothing to the ledger (W:370), where
  docs/WALLET_ENGINE.md:310 says that no stage bypasses the books;
- a row can be rolled back twice under two keys (W:359);
- the row of a win starts at the stake, not at a balance (W:223);
- `transfer` has no replay of its key, a retry ends in a conflict (W:284);
- `reserve` under the key of a settled round answers with a transaction id, so
  the retry of `settleImmediate` ends in NotFound (W:133);
- a freeze can be overtaken by a credit that read the wallet before (W:343);
- a slow cash-out clears the timer of the round after it
  (crash.gateway.ts:111), a timer of a round cashed out over HTTP busts a later
  round that was started over HTTP, and a stale write can bring an ended table back.

Of the services:

- tournaments: refunds and prizes are settlements of a stake of 0, so neither moves
  money; a late joiner is charged and then refused by the engine, whose
  `acceptsRegistration` ends with `live`; who paid and was lost to a concurrent
  write of the row cannot register again, the key of the fee being used;
- tournaments: `start` of a tournament that is live, completed or cancelled draws
  its bracket again and keeps status and scores (lifecycle.ts:3-6 says it is
  prevented); nobody on the waiting list is promoted (engine.ts:116 says they are),
  and they share the first rank of an elimination; a match may be reported before its
  second player is known, who is then stranded in it; the losers' final of a double
  elimination of eight ranks its loser with the runner-up, since rounds are compared
  across sides; nothing sets `scheduled`, nothing calls `nextSwissRound`;
- tournaments: a tier whose ranks nobody holds is passed over, and if all are, a
  pool is awarded to nobody (prizes.ts:89), where docs/tournament-engine.md:90-92 says that awards
  sum to the pool; of players tied for a place the first is also given what the tiers
  of the ranks they skip would have taken (prizes.ts:97), where line 92 says that
  ties share their combined prize;
- tournaments: an error of the wallet at the settlement of a fee leaves the stake
  reserved for good, the key of the fee being used, and its payer outside;
- sessions: a two-factor challenge survives a change or reset of the password
  (auth.service.ts:132-146, 238, password-reset.service.ts:87), and its answer opens a session
  in the five minutes that it lasts;
- card tables: a round played during a hand uses the nonce of the hand, the second
  result is recorded and its payment fails; `mode` is not consulted by the
  settlement; a deal takes no stake;
- sports: ids of slips, counted in the process, repeat within a list after a restart
  (betslip.ts:5-9, which says they are unique), and with them the keys of payments; a handicap whose
  adjusted margin is 0 loses for both sides; slips carry no currency, so their
  settlement moves no money; an update of odds that read the row earlier wipes a result;
  the list drops its oldest slip, pending or not, and lapses seven days after its last
  writing with the pending ones in it;
- rewards: a claim without a currency is marked claimed and not paid; a bonus claim has
  no key; a bonus is closed before its credit; `convert` asks for neither status
  nor expiry;
- leaderboards: any score replaces the best one (line 59), and
  overlapping submissions leave ranks that are stale until the next;
- runtime: after a sweep or an end, `broadcasting` still holds the id
  (runtime.gateway.ts:94-98), so the runtime of the next join is heard by nobody; two
  starts that overlap leave a running plugin in no map.

## 4. Fairness

`WalletTx` assumes weak fairness of each process's own step (`Serve`): a promise
that is ready is run, and the wait for a lock is a timer that fires. No lock need
ever be released for a request to end, because `GiveUp` ends the wait. Nothing is
assumed of crashes, expiries and requests. `CrashSession` assumes the same of each
call and of the bust timer (`FireBust`), while the process lives; `RoundEnds`
therefore promises nothing after a restart. The services have safety properties
only: their calls are straight sequences of statements that end by themselves.

## 5. Proofs

Eight modules prove theorems for every value of the constants:

| Module | About |
|---|---|
| `SumProofs` | sums and products over finite sets: how one changes with one of its terms |
| `WalletCoreProofs` | the in-memory ledger |
| `WalletEngineProofs` | the engine; its statement, and that it implements the in-memory ledger |
| `WalletTxProofs` | concurrent transactions, and that they implement the engine |
| `CrashSessionProofs` | the crash table |
| `PlayProofs` | dice, roulette and card tables, hosted runtimes, leaderboards, bets |
| `TournamentProofs` | tournaments: entrants, prizes, brackets |
| `ServicesProofs` | rewards, sessions, and all services side by side |

Every theorem rests on the assumptions its modules name for their constants
(`WalletEngineAssumption` and its like), which TLC evaluates: amounts, stakes and
multipliers are positive naturals, null values are not keys, sets of wallets, calls
and users are finite, an empty slot is no user (`NobodyAssumption`), amounts an administrator enters are not
negative and a tournament has room for somebody (`SetupsAssumption`, as in
dto/tournament.dto.ts), the limit of failed
logins is positive (env.validation.ts:57). Three theorems need a fact about a function that stands for a
game or for the requests of callers, and state it as a hypothesis: `CrashPointsTyped`
and `PaysTyped` (a crash point, a payout is a natural number) and `CommitKeysApart`,
below.

**Sums.** The library's folds are recursive, and induction is not at hand: a
statement about a sum is proved by the least set for which it fails, strict
inclusion of finite sets being well-founded (`LeastSet`). A product is a fold in
the order of a choice nobody knows; `ProductWithout` shows that it is the same in
any order.

**In-memory ledger.** `TypeCorrect`, `ConservationCorrect` (`isConserved`) and
`LockedCorrect` (`LockedIsReserved`). Both sums move with the one or two wallets a
method touches; the second needs that an operation resolves a reservation once.

**Engine.**

- `TypeCorrect` (`TypeOK`): no sequence of operations makes a balance negative. It
  rests on `BalanceMoves`, what each balance operation does to the parts and total.
- `LedgerCorrect` (`LedgerExplainsBalance`), inductive with `TypeOK`: `PostMoves`
  gives the effect of a posting on every account, and `RollbackSticks` that a wallet
  once exempt stays so. `BooksCorrect` (`BooksBalance`) counts a posting's entries
  under the sum over all accounts.
- `SettlementCorrect` (`SettledOnce`) is not inductive: a commit must know that the
  round of its reservation is nobody else's. `SettleInv` adds that every reservation
  has its stake row (`StakeRecorded`) and every settlement row its reservation
  (`RoundReserved`); the unique reference then makes the reservation unique.
- `RecordsCorrect` (`RecordedForGood`) is an action property, by one lemma for each
  shape of step.
- `StatementCorrect` (`StatementEndsAtTotal`): every movement of a balance ends in
  rows that show its total (`Moves`, `MovesBoth`).
- `RefinesCore`: `Spec => ImplementsCore`. The mapping drops rows and freezes and
  reads keys, reservations and signed system accounts off the tables; one lemma per
  method maps its step to the method of `WalletCore`.

**Transactions.** The invariant `TxInv` is `TxTypeOK` with three facts that race and
retry: what a transaction read of rows that never change, and of balances whose
version nobody raised, still stands (`ReadsStand`); who may try again has an attempt
left; and a process holds an initial part of its sorted locks (`HeldInOrder`).

- `RefinesEngine`: `TxSpec => ImplementsEngine`. A write that commits against its
  snapshot is the operation of `WalletEngine` in the state where it commits: its
  versions and unique keys are checked there, and by `ReadsStand` whatever else it
  read holds there too, but for the freeze the property names.
- `LockOrderCorrect` (`NoCircularWait`): two processes that wait for each other's
  lock would each hold a wallet before the other's in the order of ids.
- `AnswersCorrect` (`DoneIsRecorded`) by `Told`, which ties an answer to the row
  under its key or its round. `DuplicatesCorrect` (`DuplicatesAgree`) adds that keys and
  references are unique, and assumes `CommitKeysApart`: `commitReservation` finds a
  repeated call by its reservation and not by its key (W:167), so two requests that
  share the key of a commit are told of one row only if they are that commit.
  The bridge keeps to that: a stake's key is the round's with `:rsv`, a commit's the
  round's own (wallet-bridge.service.ts:102, :109).

**Crash table.** `TypeCorrect`; `PaidCorrect` (`PaidBelowCrash`), as every row's win is
below the crash point and every payment has its row; `RecordedCorrect`
(`PaymentIsRecorded`) by `Recorded`: a settlement past its insert has its row
(`RowsFirst`), and a payment the stake and win of one. `FreshCorrect`, `ArmedCorrect`
and `EndedCorrect` are about calls that follow one another: `Sequential` says what
the one call under way may find, at each of its steps, in the record, the rows and
the wallet it did not read again; `ArmedOrOver` and `EndedOrEnding` say the same of
the timer and of a completed session. `TotalsCorrect` holds with overlaps: totals are the
sums over rows less those of calls between row and totals.

**Tables.** `TableTotalsCorrect` (`TotalsFollowResults`), the same way.
`RecordedCorrect` (`RecordedIsPaid`) needs `TableInv`: with one call after another the
record's nonce is past every result, its hand is the one the call read, and a result
not yet paid belongs to the call that pays it, or to one whose settlement failed.

**Runtimes.** `RoomCorrect` (`RoomHearsRuntime`) by `RuntimeInv`: a runtime being started or
destroyed belongs to one call and is hosted by nobody (`RuntimesApart`), while the
gateway is not broadcasting nothing has a listener (`HeardOnce`), and undisturbed there is at most one start under way, with nothing
hosted meanwhile.

**Leaderboards.** `RanksCorrect` (`RanksFollowScores`) by `BoardInv`: a submission alone
since its first step holds the scores of the table when it comes to write ranks.

**Bets.** `SlipsCorrect` (`SlipFollowsLegs`) by `SportsInv`: every list that is stored or
held holds settled slips that are the product, or the loss, of their legs, one slip per bet,
and legs that have no namesake in their slip follow their matches.
`SettleOnceCorrect` (`SlipsSettleOnce`, an action property) adds `InTurn`: with one
call after another the list a call holds follows from the one stored, or that one has
lapsed, so that writing it back whole loses nothing.

**Rewards.** `RewardsCorrect` (`RewardsPaidOnce`) by `RewardsInv`: no key is credited twice,
each payment is of the claim's kind, a bonus no claims share is the act of one call
(`GivenOnce`), and a bonus is emptied before its money is credited (`EmptiedFirst`).

**Sessions.** `RevokedCorrect` and `OneTokenCorrect` share `AuthInv`: what each call under way
may still do to a session (`OverWhenRevoked`, `OneTokenWhenActive`), a session being
raced as soon as two calls could disturb each other in it. `PasswordCorrect`: a session with an old
password is on the list of a call that revokes it, or about to be, or was opened by a
challenge since the password is what it is (`OpenedWith`, `Plain`). `LimitCorrect`
(`SessionsLimited`) is not inductive for one login: `LimitInv` speaks of every set of logins that
have counted and not yet opened their session, and of the sessions none of them is
about to revoke. `AuthTypeCorrect`: the order of use
lists every session once, and wrong passwords are counted past the limit only by calls that were let in
before the lock (`CountedOut`).

**Tournaments.** `EntrantsCorrect` (`EntrantsPaid`) by `EntrantsInv`: the entrants of the stored
row and of every row a call holds have paid, each by the fee of its own row, and the fee
changes only in rows nobody has entered. `PaidIsEnteredCorrect` (`PaidIsEntered`) adds that,
with one call after another, the row a call holds is the one stored and a payer who is
not in it is the one the call is entering, or was turned away by the wallet or the bound. `TournamentTypeCorrect` by `TypesInv`: every reservation has
its stake, and a user about to be registered is not entered in the row that was read, so
that no row enters one twice.
`AwardsSumToPoolCorrect` (`AwardsSumToPool`, an action property): `PrizesAdd` follows the sum of the awards
through shares, ties and tiers (`TiersAdd`), what tiers leave over going to the first (`RestToFirst`);
`PrizesInv` says that only completed rows have awards and that a call other than a cancellation
holds a row that accepts it (`Held`), so that awards appear in a step only by completing the row
that a call held. That nothing is awarded only if nobody can take it follows tier by tier (`RangeTaken`,
`TurnsTaken`, `Taken`) from somebody being first in every standings (`FirstRanked`, `TopTaken`), which
of the eliminations needs a bracket with rounds (`HasRounds`). `SplitIsWhole`: an even split of a prize gives all of it away.

**Brackets.** `PlayersPlacedCorrect` (`PlayersPlaced`), for fields of any size, by `BracketsInv`: the row, and
each row a call holds, carries its active players (`Bracketed`), which for the formats means:

- eliminations (`Playing`): links lead to slots of later matches, each slot filled from one match
  (`Linked`); a slot is empty until that match is over, and who is in an open match has left all
  others (`Flows`); every player is in an open match, champion or stranded (`InPlay`). A decided
  match keeps all three (`FlowsOn`). They hold at the draw because the seeds of a field twice
  the size are a permutation again (`SeedOrderIs`), so that the first round has every entrant once
  (`DrawnFlows`), and because `SourceOf` names the one match each slot is filled from, in the tree of a
  single elimination (`SingleDrawn`), and in the winners' side, the losers' side and the final of a
  double one (`DoubleDrawn`). Byes are resolved one by one in the order of a fold nobody knows
  (`ByesPass`, `ByeStep`).
- round-robin (`AllMeet`): on the circle the two seats opposite each other in a round differ,
  and any two seats are opposite in exactly one (`SeatsMeet`, `SeatsMeetOnce`).
- swiss (`Paired`): the pairing goes down the ranking, and each step pairs the next of those
  left with somebody left, or with nobody (`PairsGrow`, `SwissIs`).

**Side by side.** `ServicesImplementAuth`, `ServicesImplementPlay`,
`ServicesImplementTable` and `ServicesImplementTournament` map each step of `Services` to a step
of the service it follows or to a stutter of the others. The table and the tournament
share the wallet, so each is implemented by the behaviours that follow it.
`ServicesCorrect` carries the properties over, and `ServicesTypeCorrect` (`ServicesTypeOK`) the types; the wallet
that table and tournament share keeps both (`SharedTypes`).

### What is only model-checked

- Liveness (`RequestsEnd`, `RoundEnds`): out of the prover's reach, as is ENABLED.
- The six violations, which are facts of small instances.

## 6. Plan

Done: the modules of section 2, and theorems for all properties of the passing runs but those just
listed. Left:

Composition of a service with WalletEngine itself in place of WalletBridge, and a
proof that the bridge's view is what the engine's rows say.

## 7. Not modelled

- Pure game engines and the hashes of provably fair seeds: functions of a seed,
  covered by unit tests, and without state.
- The client (`apps/frontend`, more than half of the repository), the user interface
  package and shared types: rendering, and mock data the server never sees.
- Queries, reports, socket output, mail, notifications, the catalogue, users,
  administration, AI, analytics, metrics and logs: reads and writes of single rows
  no property above depends on.
- The job queue, circuit breakers and alerts: only their own controller calls them.
- Missions, achievements, points (`RewardWalletService.earn`), `nextSwissRound`,
  `setStatus`, pause and resume of a runtime: nothing in the repository calls them.
  (`addWagering` is not called either; it is modelled because `convert` reads what it
  writes.)
- Registration of users, devices, API keys, email verification, the set-up and
  recovery codes of the second factor, the blacklist of access tokens, banned and
  closed accounts: single rows, checked where they are read.
- Failures of the database at plain statements of tournaments, tables, slips and
  sessions, and the end of the process between them: the call stops where it is. The
  wallet's failures, which leave two stores apart, are modelled, and those of rewards
  and leaderboards (`CallDies`, `SubmitDies`).
- Saved states, replays and histories of tables and runtimes: one insert or read each.

PROJECT.json gives the state of each component.
