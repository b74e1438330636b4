----------------------------- MODULE Tournament -----------------------------
(* tournament.service.ts: one tournament, kept as one JSON row which every   *)
(* call reads, hands to the engine and writes back whole.  Entry fees are    *)
(* taken through the wallet bridge between the two; refunds and prizes are   *)
(* handed to it as settlements without a stake.                              *)
EXTENDS TournamentEngine, WalletBridge

CONSTANTS TCalls,       \* requests that can be in flight at once
          Users,
          Setups,       \* what an administrator creates
          Fees,         \* entry fees an administrator may change to
          Oversize,     \* a row with more players per place is not saved (4)
          MaxScore,     \* bound: no second drawing once a player has more points
          MayOverlap(_) \* bound: the tournaments in which calls overlap

(* An empty slot is nobody's.                                                *)
ASSUME NobodyAssumption == Nobody \notin Users

(* What an administrator may enter (dto/tournament.dto.ts; types.ts 80-99):  *)
(* amounts, fees and shares are not negative.                                *)
ASSUME SetupsAssumption ==
  /\ Fees \subseteq Nat /\ Oversize \in Nat
  /\ \A s \in Setups :
       /\ s.capacity \in Nat /\ s.fee \in Nat /\ s.lateJoin \in BOOLEAN /\ s.autoCheckIn \in BOOLEAN
       /\ s.prize.guaranteed \in Nat /\ s.prize.contribution \in Nat
       /\ s.prize.tiers \in Seq([from : Nat, to : Nat, share : Nat])

VARIABLES row,         \* the tournament's row
          tpc,         \* call -> next step
          tcall,       \* call -> what was asked
          tseen,       \* call -> row as the call read it
          toverlapped  \* some call began while another was under way

tcalls == <<tpc, tcall, tseen>>

tvars == <<row, wallet, tcalls, toverlapped>>

NoRow == [status |-> "none"]

TNone == [op |-> "none"]

Created(s) ==
  [status |-> "draft", format |-> s.format, capacity |-> s.capacity, fee |-> s.fee,
   prize |-> s.prize, invited |-> s.invited, lateJoin |-> s.lateJoin, autoCheckIn |-> s.autoCheckIn,
   players |-> <<>>, bracket |-> Nowhere, awards |-> <<>>]

TournamentInit ==
  /\ row \in {Created(s) : s \in Setups}
  /\ wallet = NoMoves
  /\ tpc = [c \in TCalls |-> "idle"]
  /\ tcall = [c \in TCalls |-> TNone]
  /\ tseen = [c \in TCalls |-> NoRow]
  /\ toverlapped = FALSE

TQuiet == \A c \in TCalls : tpc[c] = "idle"

TGoto(c, step) == tpc' = [tpc EXCEPT ![c] = step]

TFinish(c) ==
  /\ TGoto(c, "idle")
  /\ tcall' = [tcall EXCEPT ![c] = TNone]
  /\ tseen' = [tseen EXCEPT ![c] = NoRow]
-----------------------------------------------------------------------------
(* What each call asks of the row it reads, before anything is changed.      *)
OpenRegistration == [op |-> "open"]

Update(fee) == [op |-> "update", fee |-> fee]

Start == [op |-> "start"]

CancelIt == [op |-> "cancel"]

Report(m, u) == [op |-> "report", match |-> m, winner |-> u]

Complete == [op |-> "complete"]

Register(u) == [op |-> "register", user |-> u]

CheckIn(u) == [op |-> "checkIn", user |-> u]

Withdraw(u) == [op |-> "withdraw", user |-> u]

(* Who may register: everybody with an open mode, or the invited, or who has *)
(* the password; the modes come down to a set of users.                      *)
(* Mutant: nobody looks whether the user is entered already.                 *)
IsOpenAgainFor(t, u) ==
  /\ u \in t.invited
  /\ t.status = "registration" \/ (t.lateJoin /\ t.status = "live")

IsOpenFor(t, u) ==
  /\ u \in t.invited
  /\ t.status = "registration" \/ (t.lateJoin /\ t.status = "live")
  /\ u \notin usersOf(t)

Accepts(t, what) ==
  CASE what.op = "open"     -> canTransition(t, "registration")
    [] what.op = "update"   -> t.status \in {"draft", "scheduled"}
    [] what.op = "start"    -> canStart(t)
    [] what.op = "cancel"   -> TRUE
    [] what.op = "report"   -> t.status = "live" /\ canReport(t, what.match, what.winner)
    [] what.op = "complete" -> t.status = "live"
    [] what.op = "register" -> IsOpenFor(t, what.user)
    [] OTHER                -> what.user \in usersOf(t)

(* The step after the reading.                                               *)
FirstStep(t, what) ==
  CASE what.op = "register" /\ t.fee > 0 -> "reserve"
    [] what.op = "cancel" -> "refund"
    [] what.op = "complete" -> "prizes"
    [] OTHER -> "save"

(* The bounds: calls overlap in some tournaments only, and scores, which a   *)
(* second drawing does not take back, do not grow forever.                   *)
WithinScope(what) ==
  /\ TQuiet \/ MayOverlap(row)
  /\ what.op = "start" => \A i \in DOMAIN row.players : row.players[i].score <= MaxScore

Request(c, what) ==
  /\ tpc[c] = "idle"
  /\ WithinScope(what)
  /\ Accepts(row, what)
  /\ TGoto(c, FirstStep(row, what))
  /\ tcall' = [tcall EXCEPT ![c] = what]
  /\ tseen' = [tseen EXCEPT ![c] = row]
  /\ toverlapped' = (toverlapped \/ ~TQuiet)
  /\ UNCHANGED <<row, wallet>>

AdminRequests ==
  {OpenRegistration, Start, CancelIt, Complete} \cup {Update(fee) : fee \in Fees}

Reports == {Report(m, u) : m \in DOMAIN row.bracket, u \in usersOf(row)}

UserRequests == UNION {{Register(u), CheckIn(u), Withdraw(u)} : u \in Users}

Ask(c) == \E what \in AdminRequests \cup Reports \cup UserRequests : Request(c, what)
-----------------------------------------------------------------------------
(* The entry fee is taken, under a key of tournament and user.               *)
EntryKey(u) == <<"entry", u>>

(* Mutant: a refused fee does not end the registration.                      *)
TakeFeeIfAny(c) ==
  /\ tpc[c] = "reserve"
  /\ \/ ReserveBet(EntryKey(tcall[c].user), tseen[c].fee)
     \/ BetRefused(EntryKey(tcall[c].user))
  /\ TGoto(c, IF EntryKey(tcall[c].user) \in DOMAIN wallet' THEN "settle" ELSE "save")
  /\ UNCHANGED <<row, tcall, tseen, toverlapped>>

TakeFee(c) ==
  /\ tpc[c] = "reserve"
  /\ \/ /\ ReserveBet(EntryKey(tcall[c].user), tseen[c].fee)
        /\ TGoto(c, "settle")
        /\ UNCHANGED <<tcall, tseen>>
     \/ /\ BetRefused(EntryKey(tcall[c].user))
        /\ TFinish(c)
  /\ UNCHANGED <<row, toverlapped>>

SettleFee(c) ==
  /\ tpc[c] = "settle"
  /\ SettleBet(EntryKey(tcall[c].user), 0)
  /\ TGoto(c, "save")
  /\ UNCHANGED <<row, tcall, tseen, toverlapped>>

(* The bridge throws on: the registration ends here, its fee reserved, or    *)
(* even settled, and nobody entered.                                         *)
SettleFeeFails(c) ==
  /\ tpc[c] = "settle"
  /\ SettleBetFails(EntryKey(tcall[c].user), 0)
  /\ TFinish(c)
  /\ UNCHANGED <<row, toverlapped>>

(* cancel: the refunds, then the transition with a reading of its own, which *)
(* may be refused.                                                           *)
Refund(c) ==
  /\ tpc[c] = "refund"
  /\ SettleImmediately({<<"refund", u>> : u \in usersOf(tseen[c])}, 0, tseen[c].fee)
  /\ TGoto(c, "transition")
  /\ UNCHANGED <<row, tcall, tseen, toverlapped>>

Transition(c) ==
  /\ tpc[c] = "transition"
  /\ IF canTransition(row, "cancelled")
     THEN /\ TGoto(c, "save")
          /\ tseen' = [tseen EXCEPT ![c] = row]
          /\ UNCHANGED tcall
     ELSE TFinish(c)
  /\ UNCHANGED <<row, wallet, toverlapped>>

Prizes(c) ==
  /\ tpc[c] = "prizes"
  /\ LET awards == completed(tseen[c]).awards
         won(u) == \E i \in DOMAIN awards : awards[i].user = u /\ awards[i].amount > 0 IN
     SettleImmediately({<<"prize", u>> : u \in {v \in usersOf(tseen[c]) : won(v)}}, 0, 1)
  /\ TGoto(c, "save")
  /\ UNCHANGED <<row, tcall, tseen, toverlapped>>
-----------------------------------------------------------------------------
(* What each call makes of the row it read.                                  *)
Result(t, what) ==
  CASE what.op = "open"     -> [t EXCEPT !.status = "registration"]
    [] what.op = "update"   -> [t EXCEPT !.fee = what.fee]
    [] what.op = "start"    -> started(t)
    [] what.op = "cancel"   -> [t EXCEPT !.status = "cancelled"]
    [] what.op = "report"   -> reported(t, what.match, what.winner)
    [] what.op = "complete" -> completed(t)
    [] what.op = "register" -> registered(t, what.user, t.autoCheckIn)
    [] what.op = "checkIn"  -> checkedIn(t, what.user)
    [] what.op = "withdraw" -> withdrawn(t, what.user)

(* Only now the engine may find that registration is closed.                 *)
Refused(t, what) == what.op = "register" /\ ~acceptsRegistration(t)

(* save throws away a row with too many players; who pays for a place on the *)
(* waiting list that is one too many has paid by then.                       *)
IsOversize(t) == Len(t.players) > Oversize * t.capacity

Save(c) ==
  /\ tpc[c] = "save"
  /\ LET next == Result(tseen[c], tcall[c]) IN
     row' = IF Refused(tseen[c], tcall[c]) \/ IsOversize(next) THEN row ELSE next
  /\ TFinish(c)
  /\ UNCHANGED <<wallet, toverlapped>>

TournamentNext ==
  \E c \in TCalls :
    \/ Ask(c)
    \/ TakeFee(c)
    \/ SettleFee(c)
    \/ SettleFeeFails(c)
    \/ Refund(c)
    \/ Transition(c)
    \/ Prizes(c)
    \/ Save(c)

TournamentSpec == TournamentInit /\ [][TournamentNext]_tvars
-----------------------------------------------------------------------------
Player == [user : Users, status : {"registered", "waitlisted", "active", "eliminated", "withdrawn"},
           seed : Nat, score : Nat, checkedIn : BOOLEAN]

(* Type invariant: rows and calls are well formed, no user is entered twice. *)
TournamentTypeOK ==
  /\ row.status \in Statuses
  /\ \A i \in DOMAIN row.players : row.players[i] \in Player
  /\ Cardinality(usersOf(row)) = Len(row.players)
  /\ \A k \in DOMAIN wallet : wallet[k].stake > 0
  /\ tpc \in [TCalls -> {"idle", "reserve", "settle", "refund", "transition", "prizes", "save"}]
  /\ toverlapped \in BOOLEAN

(* Nobody is entered in a paid tournament whose fee was not taken and        *)
(* settled, however registrations, changes of the fee and other writers of   *)
(* the row overlap (tournament.service.ts:203-237).                          *)
EntrantsPaid ==
  row.fee > 0 => \A u \in usersOf(row) : IsSettled(EntryKey(u))

(* Who paid is entered, when one call follows another and nobody joins late: *)
(* the fee is taken before the engine decides (tournament.service.ts:219),   *)
(* but the engine then takes everybody, and only an error of the wallet can  *)
(* leave a fee behind, or the bound on the row, which save looks at last     *)
(* (371-373).                                                                *)
PaidIsEntered ==
  (~toverlapped /\ TQuiet /\ ~row.lateJoin) =>
    \A u \in Users : EntryKey(u) \in DOMAIN wallet =>
      \/ u \in usersOf(row)
      \/ wallet[EntryKey(u)].failed
      \/ Len(row.players) = Oversize * row.capacity

unfinished(b, u) == {m \in DOMAIN b : u \in ToSet(b[m].slots) /\ b[m].state # "completed"}

isChampion(b, u) == \E m \in DOMAIN b : b[m].winner = u /\ b[m].winnerTo = Nowhere

(* Placed in a match that had been reported without it.                      *)
isStranded(b, u) == \E m \in DOMAIN b : /\ u \in ToSet(b[m].slots)
                                        /\ b[m].state = "completed"
                                        /\ u \notin {b[m].winner, b[m].loser}

meetings(b, u, v) == {m \in DOMAIN b : {u, v} = ToSet(b[m].slots)}

matchesOf(b, u) == {m \in DOMAIN b : u \in ToSet(b[m].slots)}

Active(t) == {u \in usersOf(t) : \E i \in DOMAIN t.players : t.players[i].user = u /\ t.players[i].status = "active"}

Placed(t) ==
  CASE t.format \in Elimination ->
         \A u \in Active(t) : \/ Cardinality(unfinished(t.bracket, u)) = 1
                              \/ /\ unfinished(t.bracket, u) = {}
                                 /\ isChampion(t.bracket, u) \/ isStranded(t.bracket, u)
    [] t.format = "round-robin" ->
         \A u, v \in Active(t) : u # v => Cardinality(meetings(t.bracket, u, v)) = 1
    [] t.format = "swiss" ->
         \A u \in Active(t) : Cardinality(matchesOf(t.bracket, u)) = 1
    [] OTHER -> t.bracket = Nowhere

(* Through byes, reports in any order, withdrawals and a second drawing: in  *)
(* an elimination who is not out has exactly one match to play, or has won   *)
(* the last one, or came into a match that was reported before it was ready; *)
(* in a round-robin any two meet once; in a swiss round everybody is paired  *)
(* once (bracket.ts, engine.ts advance and resolveByes).                     *)
PlayersPlaced == Placed(row)

awarded(t) == FoldFunction(LAMBDA a, sum : a.amount + sum, 0, t.awards)

(* Somebody is left whom the tiers give something.  Who is left shares the   *)
(* ranks from the first on.                                                  *)
hasTakers(t) ==
  LET ranks == {standings(t)[i].rank : i \in DOMAIN standings(t)}
      tiers == t.prize.tiers IN
  /\ inRanking(t) # {}
  /\ CASE t.prize.type = "winner-take-all" -> TRUE
       [] t.prize.type = "even-split" -> tiers = <<>> \/ tiers[1].to > 0
       [] OTHER -> \E n \in DOMAIN tiers : \E rank \in ranks : rank \in tiers[n].from..tiers[n].to

completes == row.status # "completed" /\ row'.status = "completed"

(* When a tournament is completed its awards add up to its pool to the last  *)
(* unit, whatever ties, waiting lists and tiers beyond the field the         *)
(* standings hold - unless nobody is left, or every tier is empty: then      *)
(* nothing is awarded (prizes.ts:33-38, 84-100).  Fixed prizes are not cut   *)
(* from the pool.                                                            *)
AwardsSumToPool ==
  [][(~toverlapped /\ completes /\ row.prize.type # "fixed")
       => IF hasTakers(row) THEN awarded(row') = computePool(row) ELSE row'.awards = <<>>]_tvars

(* src/docs/tournament-engine.md:72: "Cancellation refunds entry fees        *)
(* through the Wallet Engine."                                               *)
CancellationRefunds ==
  row.status = "cancelled" =>
    \A u \in usersOf(row) : IsSettled(EntryKey(u)) => <<"refund", u>> \in DOMAIN wallet
=============================================================================
