----------------------------- MODULE GameTable ------------------------------
(* A dice, roulette or card table of one player: dice-session.service.ts,    *)
(* roulette-session.service.ts and card-session.service.ts.  The three share *)
(* one design: a record in Redis that a call reads and writes back whole, a  *)
(* round named by the record's nonce, a result row, the session's totals and *)
(* a settlement through the wallet bridge.  Card tables also deal hands of   *)
(* blackjack that stay in the record between calls.                          *)
(*                                                                           *)
(* Seeds fix what a round pays: the same for the same nonce and hits.        *)
EXTENDS Sequences, FiniteSetsExt, WalletBridge

CONSTANTS GCalls,     \* requests that can be in flight at once
          Tables,     \* what a player may open
          Stakes,     \* total of the bets of a round
          Pays(_, _), \* nonce and hits -> what a stake of one wins
          MaxHits,    \* a hand with more hits is bust
          MaxRounds   \* bound: no call begins once so many rounds were played

ASSUME GameTableAssumption ==
  /\ Stakes \subseteq Nat \ {0}
  /\ Tables \subseteq [hands : BOOLEAN, rounds : BOOLEAN, bound : BOOLEAN]

ASSUME GameTableFinite == IsFiniteSet(GCalls)

VARIABLES opened,      \* the kind of table
          grecord,     \* the record in Redis
          gcall,       \* call -> where it is, and what it read and made of it
          gresults,    \* game_result rows
          gsession,    \* totals of the game_session row
          unfunded,    \* rounds whose stake was refused
          goverlapped  \* some call began while another was under way

gvars == <<opened, grecord, gcall, gresults, gsession, wallet, unfunded, goverlapped>>

NoHand == [round |-> 0, stake |-> 0, hits |-> 0]

GRest == [step |-> "idle"]

NoTable == [nonce |-> -1]

(* create: the table is bound to a game session if the game has a currency.  *)
TableInit ==
  /\ opened \in Tables
  /\ grecord = [nonce |-> 0, hand |-> NoHand]
  /\ gcall = [c \in GCalls |-> GRest]
  /\ gresults = <<>>
  /\ gsession = [rounds |-> 0, bet |-> 0, win |-> 0, completed |-> FALSE]
  /\ wallet = NoMoves
  /\ unfunded = {}
  /\ goverlapped = FALSE

TableQuiet == \A c \in GCalls : gcall[c] = GRest

GGo(c, next) == gcall' = [gcall EXCEPT ![c] = next]

(* Mutant: the nonce stays.                                                  *)
nextKeepsNonce(r) == r

nextRound(r) == [r EXCEPT !.nonce = @ + 1]

resultOf(round, stake, hits) ==
  [round |-> round, stake |-> stake,
   win |-> IF hits > MaxHits THEN 0 ELSE stake * Pays(round, hits)]

(* Every call reads the record first.                                        *)
Reads(c, next) ==
  /\ gcall[c] = GRest
  /\ grecord # NoTable
  /\ Len(gresults) < MaxRounds /\ grecord.nonce < MaxRounds
  /\ GGo(c, next)
  /\ goverlapped' = (goverlapped \/ ~TableQuiet)
  /\ UNCHANGED <<opened, grecord, gresults, gsession, wallet, unfunded>>

(* roll, spin, playRound: the round of the nonce that was read.              *)
Play(c) ==
  /\ opened.rounds
  /\ \E stake \in Stakes :
       Reads(c, [step |-> "finish", record |-> nextRound(grecord),
                 result |-> resultOf(grecord.nonce, stake, 0)])

(* blackjackDeal replaces a hand that was not played to its end.             *)
Deal(c) ==
  /\ opened.hands
  /\ \E stake \in Stakes :
       Reads(c, [step |-> "write",
                 record |-> [grecord EXCEPT !.hand = [round |-> grecord.nonce, stake |-> stake,
                                                      hits |-> 0]]])

finished(r) == nextRound([r EXCEPT !.hand = NoHand])

handResult(hand) == resultOf(hand.round, hand.stake, hand.hits)

(* blackjackHit writes the hand back; a bust one is then finished.  A bust   *)
(* hand that is not finished yet can be hit again (bound: once).             *)
Hit(c) ==
  /\ opened.hands
  /\ grecord # NoTable /\ grecord.hand # NoHand
  /\ grecord.hand.hits <= MaxHits + 1
  /\ LET more == [grecord EXCEPT !.hand.hits = @ + 1] IN
     Reads(c, [step |-> IF more.hand.hits > MaxHits THEN "bust" ELSE "write", record |-> more])

Stand(c) ==
  /\ opened.hands
  /\ grecord # NoTable /\ grecord.hand # NoHand
  /\ Reads(c, [step |-> "finish", record |-> finished(grecord), result |-> handResult(grecord.hand)])

EndTable(c) == Reads(c, [step |-> "complete"])
-----------------------------------------------------------------------------
(* The writing of the record, a round that ended with it or not.             *)
Write(c) ==
  /\ gcall[c].step = "write"
  /\ grecord' = gcall[c].record
  /\ GGo(c, GRest)
  /\ UNCHANGED <<opened, gresults, gsession, wallet, unfunded, goverlapped>>

WriteBust(c) ==
  /\ gcall[c].step = "bust"
  /\ grecord' = gcall[c].record
  /\ GGo(c, [step |-> "finish", record |-> finished(gcall[c].record),
             result |-> handResult(gcall[c].record.hand)])
  /\ UNCHANGED <<opened, gresults, gsession, wallet, unfunded, goverlapped>>

(* A table that is bound to no game session keeps neither results nor money. *)
FinishRound(c) ==
  /\ gcall[c].step = "finish"
  /\ grecord' = gcall[c].record
  /\ GGo(c, IF opened.bound THEN [step |-> "record", result |-> gcall[c].result] ELSE GRest)
  /\ UNCHANGED <<opened, gresults, gsession, wallet, unfunded, goverlapped>>

(* persistResult: the result, the totals, the money.                         *)
RecordResult(c) ==
  /\ gcall[c].step = "record"
  /\ gresults' = Append(gresults, gcall[c].result)
  /\ GGo(c, [gcall[c] EXCEPT !.step = "tally"])
  /\ UNCHANGED <<opened, grecord, gsession, wallet, unfunded, goverlapped>>

(* Mutant: a lost round does not count.                                      *)
tallyIfWon(s, r) ==
  IF r.win = 0 THEN s
  ELSE [s EXCEPT !.rounds = @ + 1, !.bet = @ + r.stake, !.win = @ + r.win]

tally(s, r) == [s EXCEPT !.rounds = @ + 1, !.bet = @ + r.stake, !.win = @ + r.win]

Tally(c) ==
  /\ gcall[c].step = "tally"
  /\ gsession' = tally(gsession, gcall[c].result)
  /\ GGo(c, [gcall[c] EXCEPT !.step = "reserve"])
  /\ UNCHANGED <<opened, grecord, gresults, wallet, unfunded, goverlapped>>

StakeRound(c) ==
  /\ gcall[c].step = "reserve"
  /\ LET r == gcall[c].result IN
     \/ /\ ReserveBet(r.round, r.stake)
        /\ GGo(c, [gcall[c] EXCEPT !.step = "settle"])
        /\ UNCHANGED unfunded
     \/ /\ BetRefused(r.round)
        /\ GGo(c, GRest)
        /\ unfunded' = IF r.round \in DOMAIN wallet THEN unfunded ELSE unfunded \cup {r.round}
  /\ UNCHANGED <<opened, grecord, gresults, gsession, goverlapped>>

SettleRound(c) ==
  /\ gcall[c].step = "settle"
  /\ SettleBet(gcall[c].result.round, gcall[c].result.win)
  /\ GGo(c, GRest)
  /\ UNCHANGED <<opened, grecord, gresults, gsession, unfunded, goverlapped>>

(* The error of the bridge is thrown on: the round stays recorded.           *)
SettleRoundFails(c) ==
  /\ gcall[c].step = "settle"
  /\ SettleBetFails(gcall[c].result.round, gcall[c].result.win)
  /\ GGo(c, GRest)
  /\ UNCHANGED <<opened, grecord, gresults, gsession, unfunded, goverlapped>>

CompleteSession(c) ==
  /\ gcall[c].step = "complete"
  /\ gsession' = [gsession EXCEPT !.completed = opened.bound]
  /\ GGo(c, [step |-> "delete"])
  /\ UNCHANGED <<opened, grecord, gresults, wallet, unfunded, goverlapped>>

Delete(c) ==
  /\ gcall[c].step = "delete"
  /\ grecord' = NoTable
  /\ GGo(c, GRest)
  /\ UNCHANGED <<opened, gresults, gsession, wallet, unfunded, goverlapped>>

TableNext ==
  \E c \in GCalls :
    \/ Play(c) \/ Deal(c) \/ Hit(c) \/ Stand(c) \/ EndTable(c)
    \/ Write(c) \/ WriteBust(c) \/ FinishRound(c)
    \/ RecordResult(c) \/ Tally(c) \/ StakeRound(c)
    \/ SettleRound(c) \/ SettleRoundFails(c)
    \/ CompleteSession(c) \/ Delete(c)

TableSpec == TableInit /\ [][TableNext]_gvars
-----------------------------------------------------------------------------
(* Type invariant.                                                           *)
TableTypeOK ==
  /\ grecord = NoTable \/ (grecord.nonce \in Nat /\ DOMAIN grecord.hand = DOMAIN NoHand)
  /\ \A i \in DOMAIN gresults : gresults[i].round \in Nat /\ gresults[i].stake \in Stakes

Untallied == {c \in GCalls : gcall[c].step = "tally"}

toCome(field) == [c \in Untallied |-> gcall[c].result[field]]

ofResults(field) == [i \in DOMAIN gresults |-> gresults[i][field]]

Accounted(field, total) ==
  total + SumFunctionOnSet(toCome(field), Untallied)
    = SumFunctionOnSet(ofResults(field), DOMAIN gresults)

(* The totals of a session are those of its results, however calls overlap   *)
(* and rounds repeat, but for those on their way from the one to the other   *)
(* (dice-session.service.ts:226-249 and its two siblings).                   *)
TotalsFollowResults ==
  /\ gsession.rounds + Cardinality(Untallied) = Len(gresults)
  /\ Accounted("stake", gsession.bet)
  /\ Accounted("win", gsession.win)

(* When one call follows another, every recorded round has its stake         *)
(* reserved and is settled with the very win of its result, unless its stake *)
(* was refused, or its settlement failed: then it may have been left open,   *)
(* but not with another stake or win.  Hands dealt over and hits in between  *)
(* change nothing.  At a card table this needs that rounds are not played    *)
(* while a hand is in progress: the two would share a nonce                  *)
(* (card-session.service.ts:100-111, 157-169; wallet-bridge.service.ts:95-   *)
(* 118).                                                                     *)
RecordedIsPaid ==
  (TableQuiet /\ ~goverlapped /\ ~(opened.hands /\ opened.rounds)) =>
    \A i \in DOMAIN gresults :
      LET r == gresults[i] IN
      \/ r.round \in unfunded
      \/ /\ r.round \in DOMAIN wallet
         /\ wallet[r.round].stake = r.stake
         /\ IF wallet[r.round].open THEN wallet[r.round].failed ELSE wallet[r.round].win = r.win
=============================================================================
