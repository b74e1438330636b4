---------------------------- MODULE CrashSession ----------------------------
(* One crash table of one player: crash-session.service.ts, the realtime     *)
(* gateway with its bust timer (crash.gateway.ts) and the settlement of a    *)
(* round through the wallet bridge.                                          *)
(*                                                                           *)
(* The table is one JSON record in Redis which every call reads, changes and *)
(* writes back whole; nothing keeps two calls from overlapping.  A round is  *)
(* named by its nonce, which also fixes its crash point.  Multipliers stand  *)
(* for elapsed time, so a timer may fire at any moment after it was set.     *)
(* The wallet (modelled in full in WalletEngine) is reduced to what its two  *)
(* transactions, reserve and commit, do under the keys of a round.           *)
EXTENDS Naturals, Sequences, FiniteSetsExt

CONSTANTS Players,       \* requests of the player that can be in flight at once
          Bust,          \* the callback of the gateway's timer
          Bets,          \* stakes, each with its automatic cash-out (0: none)
          Multipliers,   \* multipliers at which the player cashes out
          CrashPoint(_), \* the multiplier at which the round of a nonce busts
          MaxResults     \* bound: no round starts once so many have a result

ASSUME CrashSessionAssumption ==
  /\ Bust \notin Players
  /\ Bets \subseteq [bet : Nat \ {0}, auto : Nat]
  /\ Multipliers \subseteq Nat \ {0}

(* A player has only so many requests in flight.                             *)
ASSUME CrashSessionFinite == IsFiniteSet(Players)

VARIABLES record,     \* the table in Redis, or Gone
          timer,      \* the bust timer of the table, with the round that set it
          pc,         \* call -> next step
          call,       \* call -> what was asked
          seen,       \* call -> table as the call read it
          results,    \* game_result rows
          session,    \* game_session row: totals and status
          wallet,     \* nonce -> stake and win of its reservation
          overHttp,   \* some round was started over HTTP
          overlapped, \* some call began while another was under way
          restarted   \* the backend was restarted

table == <<record, timer>>

calls == <<pc, call, seen>>

books == <<results, session, wallet>>

history == <<overHttp, overlapped, restarted>>

vars == <<table, calls, books, history>>

Calls == Players \cup {Bust}

Gone == [gone |-> TRUE]

NoRound == [bet |-> 0, auto |-> 0]

NoTimer == [set |-> FALSE]

NoCall == [op |-> "none"]

(* A table just created, bound to a game session with a currency.            *)
Init ==
  /\ record = [nonce |-> 0, active |-> NoRound]
  /\ timer = NoTimer
  /\ pc = [c \in Calls |-> "idle"]
  /\ call = [c \in Calls |-> NoCall]
  /\ seen = [c \in Calls |-> Gone]
  /\ results = <<>>
  /\ session = [rounds |-> 0, bet |-> 0, win |-> 0, completed |-> FALSE]
  /\ wallet = [n \in {} |-> NoRound]
  /\ overHttp = FALSE
  /\ overlapped = FALSE
  /\ restarted = FALSE

Idle(c) == pc[c] = "idle"

Quiet == \A c \in Calls : Idle(c)

Goto(c, step) == pc' = [pc EXCEPT ![c] = step]

(* What a finished call read and asked matters to nobody.                    *)
Finish(c) ==
  /\ Goto(c, "idle")
  /\ call' = [call EXCEPT ![c] = NoCall]
  /\ seen' = [seen EXCEPT ![c] = Gone]

(* getRecord, and what each call asks of the round in it.                    *)
Accepts(op) ==
  /\ record # Gone
  /\ op = "start" => record.active = NoRound
  /\ op = "settle" => record.active # NoRound

(* A call begins with its reading of the table; one that is refused there    *)
(* has changed nothing.                                                      *)
Request(c, what) ==
  /\ Idle(c)
  /\ Accepts(what.op)
  /\ Goto(c, what.op)
  /\ call' = [call EXCEPT ![c] = what]
  /\ seen' = [seen EXCEPT ![c] = record]
  /\ overlapped' = (overlapped \/ ~Quiet)
  /\ UNCHANGED <<table, books, restarted>>

(* Requests of the player, over the socket or over HTTP.  A multiplier of 0  *)
(* stands for no cash-out.                                                   *)
Start(c) ==
  /\ Len(results) < MaxResults
  /\ \E socket \in BOOLEAN, b \in Bets :
       /\ Request(c, [op |-> "start", socket |-> socket, bet |-> b])
       /\ overHttp' = (overHttp \/ ~socket)

Cashout(c) ==
  /\ \E socket \in BOOLEAN, at \in Multipliers :
       Request(c, [op |-> "settle", socket |-> socket, at |-> at])
  /\ UNCHANGED overHttp

Resolve(c) ==
  /\ Request(c, [op |-> "settle", socket |-> FALSE, at |-> 0])
  /\ UNCHANGED overHttp

End(c) ==
  /\ Request(c, [op |-> "end"])
  /\ UNCHANGED overHttp

(* fireBust: the timer is gone before the table is read, and resolves        *)
(* whatever round is then in progress.                                       *)
FireBust ==
  /\ timer # NoTimer
  /\ timer' = NoTimer
  /\ Idle(Bust)
  /\ Goto(Bust, "read")
  /\ call' = [call EXCEPT ![Bust] = [op |-> "settle", socket |-> FALSE, at |-> 0]]
  /\ overlapped' = (overlapped \/ ~Quiet)
  /\ UNCHANGED <<record, seen, books, overHttp, restarted>>

Read(c) ==
  /\ pc[c] = "read"
  /\ IF Accepts(call[c].op)
     THEN /\ seen' = [seen EXCEPT ![c] = record]
          /\ Goto(c, call[c].op)
          /\ UNCHANGED call
     ELSE Finish(c)
  /\ UNCHANGED <<table, books, history>>
-----------------------------------------------------------------------------
(* startRound writes the table back with the round in it; nothing is         *)
(* reserved yet.                                                             *)
OpenRound(c) ==
  /\ pc[c] = "start"
  /\ record' = [seen[c] EXCEPT !.active = call[c].bet]
  /\ IF call[c].socket THEN Goto(c, "arm") /\ UNCHANGED <<call, seen>> ELSE Finish(c)
  /\ UNCHANGED <<timer, books, history>>

(* Mutants: a timer that is already set is kept; no timer is set.            *)
KeptTimer(n) == timer

ArmedOnce(n) == IF timer = NoTimer THEN [set |-> TRUE, nonce |-> n] ELSE timer

Armed(n) == [set |-> TRUE, nonce |-> n]

(* The gateway asks for the crash time and replaces its timer; a table gone  *)
(* by now is an error, a round gone by now a timer of no delay.              *)
Arm(c) ==
  /\ pc[c] = "arm"
  /\ timer' = IF record = Gone THEN timer ELSE Armed(seen[c].nonce)
  /\ Finish(c)
  /\ UNCHANGED <<record, books, history>>

(* CashoutManager: the earliest cash-out counts if it comes before the crash.*)
(* Mutant: a cash-out at the crash point still wins.                         *)
cashedOutAtCrash(r, at) ==
  LET asked == {m \in {r.active.auto, at} : m # 0} IN
  IF asked # {} /\ Min(asked) <= CrashPoint(r.nonce) THEN Min(asked) ELSE 0

cashedOut(r, at) ==
  LET asked == {m \in {r.active.auto, at} : m # 0} IN
  IF asked # {} /\ Min(asked) < CrashPoint(r.nonce) THEN Min(asked) ELSE 0

Outcome(c) ==
  LET r == seen[c] IN
  [nonce |-> r.nonce, bet |-> r.active.bet, win |-> r.active.bet * cashedOut(r, call[c].at)]

(* The steps of settle.  Mutant: the money moves before the books.           *)
MoneyFirst == [settle |-> "reserve", reserve |-> "commit", commit |-> "result",
               result |-> "totals", totals |-> "settled"]

After == [settle |-> "result", result |-> "totals", totals |-> "reserve",
          reserve |-> "commit", commit |-> "settled"]

(* The table goes back first, without the round and with the next nonce.     *)
(* Mutants: only the stake is cleared; the nonce is not advanced.            *)
ClearedBet(r) == [r EXCEPT !.active.bet = 0, !.nonce = @ + 1]

ClearedOnly(r) == [r EXCEPT !.active = NoRound]

Cleared(r) == [r EXCEPT !.active = NoRound, !.nonce = @ + 1]

CloseRound(c) ==
  /\ pc[c] = "settle"
  /\ record' = Cleared(seen[c])
  /\ Goto(c, After.settle)
  /\ UNCHANGED <<timer, call, seen, books, history>>

CreateResult(c) ==
  /\ pc[c] = "result"
  /\ results' = Append(results, Outcome(c))
  /\ Goto(c, After.result)
  /\ UNCHANGED <<table, call, seen, session, wallet, history>>

(* Mutant: the totals are computed from the table as the call read it.       *)
CountedFromNonce(s, c) ==
  [s EXCEPT !.rounds = seen[c].nonce + 1, !.bet = @ + Outcome(c).bet, !.win = @ + Outcome(c).win]

Incremented(s, c) ==
  [s EXCEPT !.rounds = @ + 1, !.bet = @ + Outcome(c).bet, !.win = @ + Outcome(c).win]

UpdateSession(c) ==
  /\ pc[c] = "totals"
  /\ session' = Incremented(session, c)
  /\ Goto(c, After.totals)
  /\ UNCHANGED <<table, call, seen, results, wallet, history>>
-----------------------------------------------------------------------------
(* settleImmediate.  reserve opens a reservation for the round, or finds the *)
(* open one that its key already made, or, with the key used and nothing     *)
(* open, answers with the id of a transaction, for which commit then finds   *)
(* no reservation.  Funds or limits may refuse it.                           *)
IsOpen(n) == n \in DOMAIN wallet /\ wallet[n].open

Opened(c) == [bet |-> Outcome(c).bet, win |-> 0, open |-> TRUE]

Reserve(c) ==
  /\ pc[c] = "reserve"
  /\ LET n == Outcome(c).nonce IN
     \/ /\ n \notin DOMAIN wallet
        /\ wallet' = [m \in DOMAIN wallet \cup {n} |-> IF m = n THEN Opened(c) ELSE wallet[m]]
        /\ Goto(c, After.reserve)
        /\ UNCHANGED <<call, seen>>
     \/ /\ IsOpen(n)
        /\ Goto(c, After.reserve)
        /\ UNCHANGED <<wallet, call, seen>>
     \/ /\ ~IsOpen(n)
        /\ Finish(c)
        /\ UNCHANGED wallet
  /\ UNCHANGED <<table, results, session, history>>

(* commit resolves an open reservation and leaves a resolved one alone.      *)
Commit(c) ==
  /\ pc[c] = "commit"
  /\ LET o == Outcome(c) IN
     wallet' = [wallet EXCEPT ![o.nonce] = IF @.open THEN [@ EXCEPT !.win = o.win, !.open = FALSE]
                                           ELSE @]
  /\ Goto(c, After.commit)
  /\ UNCHANGED <<table, call, seen, results, session, history>>

(* The gateway's cash-out, once settled, clears whatever timer is set.       *)
Settled(c) ==
  /\ pc[c] = "settled"
  /\ timer' = IF call[c].socket THEN NoTimer ELSE timer
  /\ Finish(c)
  /\ UNCHANGED <<record, books, history>>
-----------------------------------------------------------------------------
(* end closes the game session, then deletes the table.                      *)
Complete(c) ==
  /\ pc[c] = "end"
  /\ session' = [session EXCEPT !.completed = TRUE]
  /\ Goto(c, "delete")
  /\ UNCHANGED <<table, call, seen, results, wallet, history>>

(* Mutant: the table is left for its TTL.                                    *)
Kept == record

Deleted == Gone

Delete(c) ==
  /\ pc[c] = "delete"
  /\ record' = Deleted
  /\ Finish(c)
  /\ UNCHANGED <<timer, books, history>>

(* The hour's TTL passes.                                                    *)
Expire ==
  /\ record # Gone
  /\ record' = Gone
  /\ UNCHANGED <<timer, calls, books, history>>

(* The backend stops and starts again: calls and timers are lost.            *)
Restart ==
  /\ ~restarted
  /\ restarted' = TRUE
  /\ timer' = NoTimer
  /\ pc' = [c \in Calls |-> "idle"]
  /\ call' = [c \in Calls |-> NoCall]
  /\ seen' = [c \in Calls |-> Gone]
  /\ UNCHANGED <<record, books, overHttp, overlapped>>

Proceed(c) ==
  \/ Read(c)
  \/ OpenRound(c) \/ Arm(c)
  \/ CloseRound(c) \/ CreateResult(c) \/ UpdateSession(c)
  \/ Reserve(c) \/ Commit(c) \/ Settled(c)
  \/ Complete(c) \/ Delete(c)

Next ==
  \/ \E c \in Players : Start(c) \/ Cashout(c) \/ Resolve(c) \/ End(c)
  \/ \E c \in Calls : Proceed(c)
  \/ FireBust
  \/ Expire
  \/ Restart

Spec == Init /\ [][Next]_vars

(* Promises resolve and timers fire while the process runs.                  *)
Fairness == WF_vars(FireBust) /\ \A c \in Calls : WF_vars(Proceed(c))
-----------------------------------------------------------------------------
OneAtATime == ~overlapped /\ ~restarted

RoundRows(n) == {i \in DOMAIN results : results[i].nonce = n}

(* Every variable has its type.                                              *)
TypeOK ==
  /\ record # Gone => record.nonce \in Nat /\ record.active \in Bets \cup {NoRound}
  /\ timer # NoTimer => timer.nonce \in Nat
  /\ \A c \in Calls : pc[c] # "idle" => call[c] # NoCall
  /\ \A i \in DOMAIN results : results[i] \in [nonce : Nat, bet : Nat \ {0}, win : Nat]
  /\ session.bet \in Nat /\ session.win \in Nat
  /\ \A n \in DOMAIN wallet : wallet[n] \in [bet : Nat \ {0}, win : Nat, open : BOOLEAN]

(* No cash-out at or after the crash point is paid, however the automatic    *)
(* cash-out, the manual one and the bust timer race: what the wallet paid    *)
(* for a round is less than its stake times the crash point.                 *)
PaidBelowCrash ==
  \A n \in DOMAIN wallet :
    wallet[n].win > 0 => \E i \in RoundRows(n) :
                           wallet[n].win < results[i].bet * CrashPoint(n)

(* No money moves for a round that is not on record: its stake is that of a  *)
(* result row and so is its win, and, unless calls overlapped, it is one row *)
(* that has both.                                                            *)
PaymentIsRecorded ==
  \A n \in DOMAIN wallet :
    /\ \E i \in RoundRows(n) : results[i].bet = wallet[n].bet
    /\ ~wallet[n].open => \E i \in RoundRows(n) : results[i].win = wallet[n].win
    /\ ~wallet[n].open /\ ~overlapped =>
         \E i \in RoundRows(n) : results[i].bet = wallet[n].bet /\ results[i].win = wallet[n].win

(* Results whose call has yet to add them to the totals.                     *)
Pending == {c \in Calls : pc[c] = "totals"}

owed == [c \in Pending |-> Outcome(c).win]

won == [i \in DOMAIN results |-> results[i].win]

(* The totals of the game session are those of its results, counting in the  *)
(* results whose call has yet to add them, also when calls overlap.          *)
TotalsMatchResults ==
  ~restarted =>
    /\ session.rounds + Cardinality(Pending) = Len(results)
    /\ session.win + SumFunctionOnSet(owed, Pending)
         = SumFunctionOnSet(won, DOMAIN results)

(* "Idempotent-by-nonce: once settled the active round is cleared"           *)
(* (crash-session.service.ts:177): a round has one result.                   *)
RoundResolvedOnce == \A n \in 0 .. MaxResults : Cardinality(RoundRows(n)) <= 1

(* As long as no two calls overlap it does, over restarts too, and the round *)
(* in progress is a fresh one.                                               *)
RoundsAreFresh ==
  ~overlapped => /\ RoundResolvedOnce
                 /\ record # Gone /\ record.active # NoRound => RoundRows(record.nonce) = {}

(* A round started over the socket has a timer of its own, not one left by   *)
(* an earlier round, for as long as it is in progress.                       *)
RoundIsArmed ==
  OneAtATime /\ Quiet /\ ~overHttp /\ record # Gone /\ record.active # NoRound =>
    timer = [set |-> TRUE, nonce |-> record.nonce]

(* A table that was ended, its server seed revealed, takes no further round. *)
EndedIsGone == session.completed /\ OneAtATime /\ Quiet => record = Gone

(* A round started over the socket is over some time, by its timer if by     *)
(* nothing else.                                                             *)
RoundEnds ==
  \A n \in 0 .. MaxResults :
    (record # Gone /\ record.nonce = n /\ record.active # NoRound /\ ~overHttp)
      ~> (record = Gone \/ record.nonce # n \/ record.active = NoRound
            \/ overHttp \/ ~OneAtATime)
=============================================================================
