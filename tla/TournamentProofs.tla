--------------------------- MODULE TournamentProofs ---------------------------
(* Theorems about tournaments: for every number of players and calls.        *)
EXTENDS Tournament, SequenceTheorems, SumProofs

(* Tournaments.  The fields of a row, and of an entry.                       *)
RowFields ==
  {"status", "format", "capacity", "fee", "prize", "invited", "lateJoin", "autoCheckIn", "players", "bracket",
   "awards"}

EntryFields == {"user", "status", "seed", "score", "checkedIn"}

Entries(t) == {t.players[i] : i \in DOMAIN t.players}

RowShaped(t) ==
  /\ DOMAIN t = RowFields
  /\ t.players \in Seq(Entries(t))
  /\ \A i \in DOMAIN t.players : DOMAIN t.players[i] = EntryFields

(* What no call changes but the registration: who is entered.                *)
SameEntrants(t, next) ==
  /\ RowShaped(next) /\ usersOf(next) = usersOf(t) /\ next.lateJoin = t.lateJoin
  /\ Len(next.players) = Len(t.players) /\ next.capacity = t.capacity

(* Entries are changed one by one.                                           *)
LEMMA EntriesKept ==
  ASSUME NEW t, RowShaped(t), NEW next, DOMAIN next = RowFields, next.lateJoin = t.lateJoin,
         next.capacity = t.capacity, NEW P, next.players = P, P = [i \in DOMAIN t.players |-> P[i]],
         \A i \in DOMAIN t.players : DOMAIN P[i] = EntryFields /\ P[i].user = t.players[i].user
  PROVE  SameEntrants(t, next)
<1>1. PICK n \in Nat : DOMAIN t.players = 1 .. n
  <2>1. t.players \in Seq(Entries(t))
    BY DEF RowShaped
  <2> QED
    BY <2>1
<1>2. DOMAIN P = 1 .. n
  BY <1>1
<1>3. P \in Seq(Entries(next))
  <2>1. \A i \in 1 .. n : P[i] \in Entries(next)
    BY <1>2 DEF Entries
  <2>2. P \in [1 .. n -> Entries(next)]
    BY <1>1, <2>1
  <2> QED
    BY <2>2
<1>4. usersOf(next) = usersOf(t)
  BY <1>1, <1>2 DEF usersOf
<1>5. Len(next.players) = Len(t.players)
  BY <1>1, <1>2, <1>3 DEF RowShaped
<1> QED
  BY <1>1, <1>2, <1>3, <1>4, <1>5 DEF SameEntrants, RowShaped

LEMMA StartedEntrants ==
  ASSUME NEW t, RowShaped(t), NEW next, next = started(t)
  PROVE  /\ SameEntrants(t, next) /\ next.fee = t.fee
         /\ (next.status = t.status /\ isFinal(t)) \/ next.status = "live"
<1>1. PICK S : S = IF isFinal(t) THEN t.status ELSE "live"
  OBVIOUS
<1>2. PICK P :
        P = [i \in DOMAIN t.players |->
               IF IsActive(t.players[i])
               THEN [t.players[i] EXCEPT !.status = "active", !.seed = positionOf(order(t), t.players[i].user)]
               ELSE t.players[i]]
  BY Zenon
<1>3. PICK B : B = generateBracket(t)
  OBVIOUS
<1>4. next = [t EXCEPT !.status = S, !.players = P, !.bracket = B]
  BY <1>1, <1>2, <1>3, Zenon DEF started
<1>5. DOMAIN t = RowFields /\ "status" \in RowFields /\ "players" \in RowFields /\ "fee" \in RowFields
      /\ "lateJoin" \in RowFields /\ "capacity" \in RowFields
  BY DEF RowShaped, RowFields
<1>6. DOMAIN next = RowFields /\ next.lateJoin = t.lateJoin /\ next.players = P /\ next.fee = t.fee
      /\ next.capacity = t.capacity /\ next.status = S
  BY <1>4, <1>5
<1>7. ASSUME NEW i \in DOMAIN t.players PROVE DOMAIN P[i] = EntryFields /\ P[i].user = t.players[i].user
  <2>1. DOMAIN t.players[i] = EntryFields /\ "user" \in EntryFields
    BY DEF RowShaped, EntryFields
  <2>2. CASE IsActive(t.players[i])
    <3>1. PICK n : n = positionOf(order(t), t.players[i].user)
      OBVIOUS
    <3>2. P[i] = [t.players[i] EXCEPT !.status = "active", !.seed = n]
      BY <1>2, <2>2, <3>1, Zenon
    <3> QED
      BY <2>1, <3>2
  <2>3. CASE ~IsActive(t.players[i])
    <3>1. P[i] = t.players[i]
      BY <1>2, <2>3, Zenon
    <3> QED
      BY <2>1, <3>1
  <2> QED
    BY <2>2, <2>3
<1>8. P = [i \in DOMAIN t.players |-> P[i]]
  BY <1>2, Zenon
<1>9. SameEntrants(t, next)
  <2>1. next.players = P /\ DOMAIN next = RowFields /\ next.lateJoin = t.lateJoin /\ next.capacity = t.capacity
    BY <1>6
  <2>2. \A i \in DOMAIN t.players : DOMAIN P[i] = EntryFields /\ P[i].user = t.players[i].user
    BY <1>7
  <2> QED
    BY <2>1, <2>2, <1>8, EntriesKept, SMTT(60)
<1> QED
  BY <1>1, <1>6, <1>9, Zenon

LEMMA ReportedEntrants ==
  ASSUME NEW t, RowShaped(t), NEW m, NEW u, NEW next, next = reported(t, m, u)
  PROVE  SameEntrants(t, next) /\ next.fee = t.fee /\ next.status = t.status
<1>1. PICK v : v = opponent(t.bracket[m], u)
  OBVIOUS
<1>2. PICK P :
        P = [i \in DOMAIN t.players |->
               [t.players[i] EXCEPT
                  !.score = IF t.players[i].user = u /\ t.format \in ScoredFormats
                            THEN t.players[i].score + WIN_POINTS ELSE t.players[i].score,
                  !.status = IF t.players[i].user = v /\ DropsOut(t, t.bracket[m])
                             THEN "eliminated" ELSE t.players[i].status]]
  BY Zenon
<1>3. PICK B :
        B = advanced([t.bracket EXCEPT ![m] = [@ EXCEPT !.winner = u, !.loser = v, !.state = "completed"]],
                     t.bracket[m], u, v)
  OBVIOUS
<1>4. next = [t EXCEPT !.bracket = B, !.players = P]
  BY <1>1, <1>2, <1>3, Zenon DEF reported
<1>5. DOMAIN t = RowFields /\ "status" \in RowFields /\ "players" \in RowFields /\ "fee" \in RowFields
      /\ "lateJoin" \in RowFields /\ "capacity" \in RowFields
  BY DEF RowShaped, RowFields
<1>6. DOMAIN next = RowFields /\ next.lateJoin = t.lateJoin /\ next.players = P /\ next.fee = t.fee
      /\ next.capacity = t.capacity /\ next.status = t.status
  BY <1>4, <1>5
<1>7. ASSUME NEW i \in DOMAIN t.players PROVE DOMAIN P[i] = EntryFields /\ P[i].user = t.players[i].user
  <2>1. DOMAIN t.players[i] = EntryFields /\ "user" \in EntryFields
    BY DEF RowShaped, EntryFields
  <2>2. PICK score : score = IF t.players[i].user = u /\ t.format \in ScoredFormats
                             THEN t.players[i].score + WIN_POINTS ELSE t.players[i].score
    OBVIOUS
  <2>3. PICK fate : fate = IF t.players[i].user = v /\ DropsOut(t, t.bracket[m])
                           THEN "eliminated" ELSE t.players[i].status
    OBVIOUS
  <2>4. P[i] = [t.players[i] EXCEPT !.score = score, !.status = fate]
    BY <1>2, <2>2, <2>3, Zenon
  <2> QED
    BY <2>1, <2>4
<1>8. P = [i \in DOMAIN t.players |-> P[i]]
  BY <1>2, Zenon
<1> QED
  BY <1>6, <1>7, <1>8, EntriesKept

LEMMA ChangedEntrants ==
  ASSUME NEW t, RowShaped(t), NEW u, NEW next, next = checkedIn(t, u) \/ next = withdrawn(t, u)
  PROVE  SameEntrants(t, next) /\ next.fee = t.fee /\ next.status = t.status
<1>1. PICK P : /\ next = [t EXCEPT !.players = P] /\ P = [i \in DOMAIN t.players |-> P[i]]
               /\ \A i \in DOMAIN t.players :
                    P[i] \in {t.players[i], [t.players[i] EXCEPT !.checkedIn = TRUE],
                              [t.players[i] EXCEPT !.status = "withdrawn"]}
  <2>1. CASE next = checkedIn(t, u)
    <3>1. PICK P : P = [i \in DOMAIN t.players |->
                          IF t.players[i].user = u THEN [t.players[i] EXCEPT !.checkedIn = TRUE] ELSE t.players[i]]
      OBVIOUS
    <3>2. next = [t EXCEPT !.players = P]
      BY <2>1, <3>1 DEF checkedIn, changed
    <3>3. P = [i \in DOMAIN t.players |-> P[i]]
      BY <3>1, Zenon
    <3>4. \A i \in DOMAIN t.players :
            P[i] \in {t.players[i], [t.players[i] EXCEPT !.checkedIn = TRUE],
                      [t.players[i] EXCEPT !.status = "withdrawn"]}
      BY <3>1, Zenon
    <3> QED
      BY <3>2, <3>3, <3>4, Zenon
  <2>2. CASE next = withdrawn(t, u)
    <3>1. PICK P : P = [i \in DOMAIN t.players |->
                          IF t.players[i].user = u THEN [t.players[i] EXCEPT !.status = "withdrawn"] ELSE t.players[i]]
      OBVIOUS
    <3>2. next = [t EXCEPT !.players = P]
      BY <2>2, <3>1 DEF withdrawn, changed
    <3>3. P = [i \in DOMAIN t.players |-> P[i]]
      BY <3>1, Zenon
    <3>4. \A i \in DOMAIN t.players :
            P[i] \in {t.players[i], [t.players[i] EXCEPT !.checkedIn = TRUE],
                      [t.players[i] EXCEPT !.status = "withdrawn"]}
      BY <3>1, Zenon
    <3> QED
      BY <3>2, <3>3, <3>4, Zenon
  <2> QED
    BY <2>1, <2>2
<1>2. DOMAIN t = RowFields /\ "status" \in RowFields /\ "players" \in RowFields /\ "fee" \in RowFields
      /\ "lateJoin" \in RowFields /\ "capacity" \in RowFields
  BY DEF RowShaped, RowFields
<1>3. DOMAIN next = RowFields /\ next.lateJoin = t.lateJoin /\ next.players = P /\ next.fee = t.fee
      /\ next.capacity = t.capacity /\ next.status = t.status
  BY <1>1, <1>2
<1>4. ASSUME NEW i \in DOMAIN t.players PROVE DOMAIN P[i] = EntryFields /\ P[i].user = t.players[i].user
  <2>1. DOMAIN t.players[i] = EntryFields /\ "user" \in EntryFields
    BY DEF RowShaped, EntryFields
  <2> QED
    BY <1>1, <2>1
<1>5. P = [i \in DOMAIN t.players |-> P[i]]
  BY <1>1, Zenon
<1> QED
  BY <1>3, <1>4, <1>5, EntriesKept

LEMMA RegisteredEntrants ==
  ASSUME NEW t, RowShaped(t), NEW u, NEW checked, NEW next, next = registered(t, u, checked)
  PROVE  /\ RowShaped(next) /\ usersOf(next) = usersOf(t) \cup {u}
         /\ next.fee = t.fee /\ next.status = t.status /\ next.lateJoin = t.lateJoin
         /\ Len(next.players) = Len(t.players) + 1 /\ next.capacity = t.capacity
<1>1. PICK seat : seat = IF Len(t.players) >= t.capacity THEN "waitlisted" ELSE "registered"
  OBVIOUS
<1>2. PICK new : new = [user |-> u, status |-> seat, seed |-> 0, score |-> 0, checkedIn |-> checked]
  OBVIOUS
<1>3. DOMAIN new = EntryFields /\ new.user = u
  BY <1>2 DEF EntryFields
<1>4. PICK P : P = Append(t.players, new)
  OBVIOUS
<1>5. next = [t EXCEPT !.players = P]
  BY <1>1, <1>2, <1>4 DEF registered
<1>6. DOMAIN t = RowFields /\ "status" \in RowFields /\ "players" \in RowFields /\ "fee" \in RowFields
      /\ "lateJoin" \in RowFields /\ "capacity" \in RowFields
  BY DEF RowShaped, RowFields
<1>7. DOMAIN next = RowFields /\ next.lateJoin = t.lateJoin /\ next.players = P /\ next.fee = t.fee
      /\ next.capacity = t.capacity /\ next.status = t.status
  BY <1>5, <1>6
<1>8. PICK E : E = Entries(t) \cup {new}
  OBVIOUS
<1>9. t.players \in Seq(E) /\ new \in E
  <2>1. t.players \in Seq(Entries(t)) /\ Entries(t) \subseteq E
    BY <1>8 DEF RowShaped
  <2> QED
    BY <1>8, <2>1
<1>10. PICK n \in Nat : n = Len(t.players) /\ DOMAIN t.players = 1 .. n
  BY <1>9
<1>11. /\ DOMAIN P = 1 .. (n + 1) /\ P[n + 1] = new /\ P \in Seq(E)
       /\ \A i \in 1 .. n : P[i] = t.players[i]
  BY <1>4, <1>9, <1>10
<1>12. P \in Seq(Entries(next))
  <2>1. P \in [1 .. (n + 1) -> Entries(next)]
    <3>1. \A i \in 1 .. (n + 1) : P[i] \in Entries(next)
      BY <1>7, <1>11 DEF Entries
    <3> QED
      BY <1>11, <3>1
  <2> QED
    BY <1>10, <2>1
<1>13. \A i \in DOMAIN P : DOMAIN P[i] = EntryFields
  BY <1>3, <1>10, <1>11 DEF RowShaped
<1>14. usersOf(next) = usersOf(t) \cup {u}
  BY <1>3, <1>7, <1>10, <1>11 DEF usersOf
<1>15. Len(P) = Len(t.players) + 1
  BY <1>10, <1>11
<1> QED
  BY <1>7, <1>12, <1>13, <1>14, <1>15 DEF RowShaped

(* What a call makes of the row: entrants come by registration only, and no  *)
(* call leads back to a draft.                                               *)
TournamentOps ==
  {"open", "update", "start", "cancel", "report", "complete", "register", "checkIn", "withdraw"}

LEMMA PlainEntrants ==
  ASSUME NEW t, RowShaped(t), NEW next, DOMAIN next = RowFields,
         next.players = t.players, next.lateJoin = t.lateJoin, next.capacity = t.capacity
  PROVE  SameEntrants(t, next)
<1>1. usersOf(next) = usersOf(t) /\ Entries(next) = Entries(t)
  BY Zenon DEF usersOf, Entries
<1> QED
  BY <1>1 DEF RowShaped, SameEntrants

LEMMA ResultEntrants ==
  ASSUME NEW t, RowShaped(t), NEW what, what.op \in TournamentOps, NEW next, next = Result(t, what)
  PROVE  /\ RowShaped(next) /\ next.lateJoin = t.lateJoin
         /\ what.op # "register" => usersOf(next) = usersOf(t)
         /\ what.op = "register" => usersOf(next) = usersOf(t) \cup {what.user}
         /\ next.capacity = t.capacity
         /\ Len(next.players) = IF what.op = "register" THEN Len(t.players) + 1 ELSE Len(t.players)
         /\ what.op # "update" => next.fee = t.fee
         /\ next.status \in {"draft", "scheduled"} => next.status = t.status
<1>0. DOMAIN t = RowFields /\ "status" \in RowFields /\ "players" \in RowFields /\ "fee" \in RowFields
      /\ "lateJoin" \in RowFields /\ "awards" \in RowFields /\ "capacity" \in RowFields
  BY DEF RowShaped, RowFields
<1>1. CASE what.op = "open"
  <2>1. next = [t EXCEPT !.status = "registration"]
    BY <1>1 DEF Result
  <2>2. DOMAIN next = RowFields /\ next.players = t.players /\ next.lateJoin = t.lateJoin
        /\ next.capacity = t.capacity
        /\ next.status = "registration" /\ next.fee = t.fee
    BY <1>0, <2>1
  <2>3. SameEntrants(t, next)
    BY <2>2, PlainEntrants
  <2> QED
    BY <1>1, <2>2, <2>3 DEF SameEntrants
<1>2. CASE what.op = "update"
  <2>1. next = [t EXCEPT !.fee = what.fee]
    BY <1>2 DEF Result
  <2>2. DOMAIN next = RowFields /\ next.players = t.players /\ next.lateJoin = t.lateJoin
        /\ next.capacity = t.capacity
        /\ next.status = t.status
    BY <1>0, <2>1
  <2>3. SameEntrants(t, next)
    BY <2>2, PlainEntrants
  <2> QED
    BY <1>2, <2>2, <2>3 DEF SameEntrants
<1>3. CASE what.op = "start"
  <2>1. next = started(t)
    BY <1>3 DEF Result
  <2> QED
    BY <1>3, <2>1, StartedEntrants DEF SameEntrants
<1>4. CASE what.op = "cancel"
  <2>1. next = [t EXCEPT !.status = "cancelled"]
    BY <1>4 DEF Result
  <2>2. DOMAIN next = RowFields /\ next.players = t.players /\ next.lateJoin = t.lateJoin
        /\ next.capacity = t.capacity
        /\ next.status = "cancelled" /\ next.fee = t.fee
    BY <1>0, <2>1
  <2>3. SameEntrants(t, next)
    BY <2>2, PlainEntrants
  <2> QED
    BY <1>4, <2>2, <2>3 DEF SameEntrants
<1>5. CASE what.op = "report"
  <2>1. next = reported(t, what.match, what.winner)
    BY <1>5 DEF Result
  <2> QED
    BY <1>5, <2>1, ReportedEntrants DEF SameEntrants
<1>6. CASE what.op = "complete"
  <2>1. PICK awards : awards = distributePrizes(t)
    OBVIOUS
  <2>2. next = [t EXCEPT !.status = "completed", !.awards = awards]
    BY <1>6, <2>1 DEF Result, completed
  <2>3. DOMAIN next = RowFields /\ next.players = t.players /\ next.lateJoin = t.lateJoin
        /\ next.capacity = t.capacity
        /\ next.status = "completed" /\ next.fee = t.fee
    BY <1>0, <2>2
  <2>4. SameEntrants(t, next)
    BY <2>3, PlainEntrants
  <2> QED
    BY <1>6, <2>3, <2>4 DEF SameEntrants
<1>7. CASE what.op = "register"
  <2>1. next = registered(t, what.user, t.autoCheckIn)
    BY <1>7 DEF Result
  <2> QED
    BY <1>7, <2>1, RegisteredEntrants
<1>8. CASE what.op = "checkIn"
  <2>1. next = checkedIn(t, what.user)
    BY <1>8 DEF Result
  <2> QED
    BY <1>8, <2>1, ChangedEntrants DEF SameEntrants
<1>9. CASE what.op = "withdraw"
  <2>1. next = withdrawn(t, what.user)
    BY <1>9 DEF Result
  <2> QED
    BY <1>9, <2>1, ChangedEntrants DEF SameEntrants
<1> QED
  BY <1>1, <1>2, <1>3, <1>4, <1>5, <1>6, <1>7, <1>8, <1>9 DEF TournamentOps
-----------------------------------------------------------------------------
(* The wallet bridge: what is settled stays settled.                         *)
WalletShaped ==
  \A k \in DOMAIN wallet : DOMAIN wallet[k] = {"stake", "win", "open", "failed"} /\ wallet[k].open \in BOOLEAN

WalletKeeps ==
  /\ DOMAIN wallet \subseteq DOMAIN wallet'
  /\ \A k : IsSettled(k) => IsSettled(k)'

LEMMA WalletRests == ASSUME WalletShaped, UNCHANGED wallet PROVE WalletShaped' /\ WalletKeeps
  BY DEF WalletShaped, WalletKeeps, IsSettled

LEMMA BetsKeep ==
  ASSUME WalletShaped, NEW k, NEW stake, ReserveBet(k, stake)
  PROVE  /\ WalletShaped' /\ WalletKeeps
         /\ DOMAIN wallet' = DOMAIN wallet \cup {k}
         /\ \A j \in DOMAIN wallet : wallet'[j] = wallet[j]
<1>1. CASE UNCHANGED wallet /\ IsOpen(k)
  BY <1>1, WalletRests DEF IsOpen
<1>2. CASE k \notin DOMAIN wallet /\ wallet' = also({k}, Reservation(stake))
  <2>1. PICK r : r = Reservation(stake)
    OBVIOUS
  <2>2. wallet' = [j \in {k} \cup DOMAIN wallet |-> IF j \in DOMAIN wallet THEN wallet[j] ELSE r]
    BY <1>2, <2>1 DEF also
  <2>3. DOMAIN r = {"stake", "win", "open", "failed"} /\ r.open = TRUE
    BY <2>1 DEF Reservation
  <2>4. DOMAIN wallet' = DOMAIN wallet \cup {k}
        /\ \A j \in DOMAIN wallet' : wallet'[j] = IF j \in DOMAIN wallet THEN wallet[j] ELSE r
    BY <2>2
  <2>5. WalletShaped'
    BY <2>3, <2>4 DEF WalletShaped
  <2>6. WalletKeeps
    BY <2>4 DEF WalletKeeps, IsSettled
  <2> QED
    BY <2>4, <2>5, <2>6
<1> QED
  BY <1>1, <1>2 DEF ReserveBet

LEMMA Committing ==
  ASSUME NEW r, DOMAIN r = {"stake", "win", "open", "failed"}, r.open \in BOOLEAN, NEW win, NEW failed,
         NEW v \in {r, committed(r, win)}, NEW x, x = [v EXCEPT !.failed = failed]
  PROVE  /\ DOMAIN x = {"stake", "win", "open", "failed"} /\ x.open \in BOOLEAN
         /\ x.stake = r.stake /\ x.failed = failed
         /\ ~r.open => ~x.open
         /\ v = committed(r, win) => ~x.open
<1>1. PICK d : d = committed(r, win)
  OBVIOUS
<1>2. d = IF r.open THEN [r EXCEPT !.win = win, !.open = FALSE] ELSE r
  BY <1>1 DEF committed
<1>3. DOMAIN d = {"stake", "win", "open", "failed"} /\ d.open = FALSE /\ d.stake = r.stake
  <2>1. CASE r.open
    <3>1. d = [r EXCEPT !.win = win, !.open = FALSE]
      BY <1>2, <2>1
    <3> QED
      BY <3>1
  <2>2. CASE ~r.open
    BY <1>2, <2>2
  <2> QED
    BY <2>1, <2>2
<1>4. DOMAIN v = {"stake", "win", "open", "failed"} /\ v.open \in BOOLEAN /\ v.stake = r.stake
      /\ (~r.open => ~v.open) /\ (v = d => ~v.open)
  BY <1>1, <1>3
<1>5. DOMAIN x = DOMAIN v /\ x.open = v.open /\ x.stake = v.stake /\ x.failed = failed
  BY <1>4
<1> QED
  BY <1>1, <1>4, <1>5

(* One reservation is written, and stays settled if it was.                  *)
LEMMA OneKeeps ==
  ASSUME WalletShaped, NEW k \in DOMAIN wallet, NEW x, wallet' = [wallet EXCEPT ![k] = x],
         DOMAIN x = {"stake", "win", "open", "failed"}, x.open \in BOOLEAN, ~wallet[k].open => ~x.open
  PROVE  /\ WalletShaped' /\ WalletKeeps
         /\ DOMAIN wallet' = DOMAIN wallet /\ wallet'[k] = x
         /\ \A j \in DOMAIN wallet : j # k => wallet'[j] = wallet[j]
<1>1. DOMAIN wallet' = DOMAIN wallet /\ wallet'[k] = x
      /\ \A j \in DOMAIN wallet : j # k => wallet'[j] = wallet[j]
  OBVIOUS
<1> QED
  BY <1>1 DEF WalletShaped, WalletKeeps, IsSettled

LEMMA SettlesKeep ==
  ASSUME WalletShaped, NEW k \in DOMAIN wallet, NEW win, SettleBet(k, win)
  PROVE  /\ WalletShaped' /\ WalletKeeps
         /\ DOMAIN wallet' = DOMAIN wallet /\ IsSettled(k)'
         /\ wallet'[k].stake = wallet[k].stake
         /\ \A j \in DOMAIN wallet : j # k => wallet'[j] = wallet[j]
<1>1. PICK r, v : r = wallet[k] /\ v = committed(r, win)
  OBVIOUS
<1>2. PICK x : x = [v EXCEPT !.failed = FALSE]
  OBVIOUS
<1>3. wallet' = [wallet EXCEPT ![k] = x]
  BY <1>1, <1>2, Zenon DEF SettleBet
<1>4. DOMAIN r = {"stake", "win", "open", "failed"} /\ r.open \in BOOLEAN
  BY <1>1 DEF WalletShaped
<1>5. DOMAIN x = {"stake", "win", "open", "failed"} /\ x.open \in BOOLEAN /\ x.stake = r.stake /\ ~x.open
  BY <1>1, <1>2, <1>4, Committing
<1>6. /\ WalletShaped' /\ WalletKeeps /\ DOMAIN wallet' = DOMAIN wallet /\ wallet'[k] = x
      /\ \A j \in DOMAIN wallet : j # k => wallet'[j] = wallet[j]
  BY <1>3, <1>5, OneKeeps
<1> QED
  BY <1>1, <1>5, <1>6 DEF IsSettled

LEMMA FailsKeep ==
  ASSUME WalletShaped, NEW k \in DOMAIN wallet, NEW win, SettleBetFails(k, win)
  PROVE  /\ WalletShaped' /\ WalletKeeps
         /\ DOMAIN wallet' = DOMAIN wallet /\ wallet'[k].failed
         /\ wallet'[k].stake = wallet[k].stake
         /\ \A j \in DOMAIN wallet : j # k => wallet'[j] = wallet[j]
<1>1. PICK r : r = wallet[k]
  OBVIOUS
<1>2. PICK v \in {r, committed(r, win)} : wallet' = [wallet EXCEPT ![k] = [v EXCEPT !.failed = TRUE]]
  BY <1>1, Zenon DEF SettleBetFails
<1>3. PICK x : x = [v EXCEPT !.failed = TRUE]
  OBVIOUS
<1>4. DOMAIN r = {"stake", "win", "open", "failed"} /\ r.open \in BOOLEAN
  BY <1>1 DEF WalletShaped
<1>5. /\ DOMAIN x = {"stake", "win", "open", "failed"} /\ x.open \in BOOLEAN /\ x.stake = r.stake
      /\ x.failed = TRUE /\ (~r.open => ~x.open)
  BY <1>2, <1>3, <1>4, Committing
<1>6. wallet' = [wallet EXCEPT ![k] = x]
  BY <1>2, <1>3
<1>7. /\ WalletShaped' /\ WalletKeeps /\ DOMAIN wallet' = DOMAIN wallet /\ wallet'[k] = x
      /\ \A j \in DOMAIN wallet : j # k => wallet'[j] = wallet[j]
  BY <1>1, <1>5, <1>6, OneKeeps
<1> QED
  BY <1>1, <1>5, <1>7
-----------------------------------------------------------------------------
(* The invariant behind EntrantsPaid.  Every row that is kept, or held by a  *)
(* call, has paid entrants; a registration that is past the fee has it       *)
(* settled; and the fee changes only where nobody is entered yet.            *)
EnteredPaid(t) == t.fee > 0 => \A u \in usersOf(t) : IsSettled(EntryKey(u))

SoundRow(t) ==
  /\ RowShaped(t)
  /\ EnteredPaid(t)
  /\ t.status \in {"draft", "scheduled"} => usersOf(t) = {}

CallSound(step, what, t) ==
  /\ SoundRow(t)
  /\ what.op \in TournamentOps
  /\ step \in {"reserve", "settle"} => what.op = "register" /\ t.fee > 0
  /\ step = "settle" => EntryKey(what.user) \in DOMAIN wallet
  /\ step = "save" /\ what.op = "register" /\ t.fee > 0 => IsSettled(EntryKey(what.user))
  /\ what.op = "register" => t.status = "registration" \/ (t.lateJoin /\ t.status = "live")
  /\ what.op = "update" => usersOf(t) = {}
  /\ step \in {"refund", "transition"} => what.op = "cancel"
  /\ step = "prizes" => what.op = "complete"

CallsShaped == DOMAIN tpc = TCalls /\ DOMAIN tcall = TCalls /\ DOMAIN tseen = TCalls

EntrantsInv ==
  /\ WalletShaped
  /\ SoundRow(row)
  /\ CallsShaped
  /\ \A c \in TCalls : tpc[c] = "idle" \/ CallSound(tpc[c], tcall[c], tseen[c])

LEMMA SoundStays ==
  ASSUME NEW t, SoundRow(t), WalletKeeps PROVE SoundRow(t)'
<1>1. \A u \in usersOf(t) : IsSettled(EntryKey(u)) => IsSettled(EntryKey(u))'
  BY Zenon DEF WalletKeeps
<1> QED
  BY <1>1 DEF SoundRow, EnteredPaid, EntryKey

LEMMA CallStays ==
  ASSUME NEW step, NEW what, NEW t, CallSound(step, what, t), WalletKeeps
  PROVE  CallSound(step, what, t)'
<1>1. SoundRow(t)'
  BY SoundStays DEF CallSound
<1>2. IsSettled(EntryKey(what.user)) => IsSettled(EntryKey(what.user))'
  BY Zenon DEF WalletKeeps
<1>3. EntryKey(what.user) \in DOMAIN wallet => EntryKey(what.user) \in DOMAIN wallet'
  BY DEF WalletKeeps
<1> QED
  BY <1>1, <1>2, <1>3 DEF CallSound, EntryKey

(* How calls move.                                                           *)
Moved(c, step, what, t) ==
  /\ CallsShaped'
  /\ tpc'[c] = step /\ tcall'[c] = what /\ tseen'[c] = t
  /\ \A d \in TCalls : d # c => tpc'[d] = tpc[d] /\ tcall'[d] = tcall[d] /\ tseen'[d] = tseen[d]

LEMMA Moving ==
  ASSUME CallsShaped, NEW c \in TCalls, NEW step, NEW what, NEW t,
         TGoto(c, step),
         tcall' = [tcall EXCEPT ![c] = what] \/ (tcall' = tcall /\ what = tcall[c]),
         tseen' = [tseen EXCEPT ![c] = t] \/ (tseen' = tseen /\ t = tseen[c])
  PROVE  Moved(c, step, what, t)
  BY DEF CallsShaped, Moved, TGoto

LEMMA Ending == ASSUME CallsShaped, NEW c \in TCalls, TFinish(c) PROVE Moved(c, "idle", TNone, NoRow)
  BY Moving DEF TFinish

LEMMA MovedInv ==
  ASSUME EntrantsInv, NEW c \in TCalls, NEW step, NEW what, NEW t, Moved(c, step, what, t),
         WalletShaped', WalletKeeps, SoundRow(row)', step = "idle" \/ CallSound(step, what, t)'
  PROVE  EntrantsInv'
<1>1. ASSUME NEW d \in TCalls, d # c PROVE (tpc[d] = "idle" \/ CallSound(tpc[d], tcall[d], tseen[d]))'
  <2>1. PICK s, w, r : s = tpc[d] /\ w = tcall[d] /\ r = tseen[d]
    OBVIOUS
  <2>2. tpc'[d] = s /\ tcall'[d] = w /\ tseen'[d] = r
    BY <1>1, <2>1 DEF Moved
  <2>3. s = "idle" \/ CallSound(s, w, r)
    BY <2>1 DEF EntrantsInv
  <2>4. s = "idle" \/ CallSound(s, w, r)'
    BY <2>3, CallStays
  <2> QED
    BY <2>2, <2>4 DEF CallSound, SoundRow, EnteredPaid
<1>2. (tpc[c] = "idle" \/ CallSound(tpc[c], tcall[c], tseen[c]))'
  BY DEF Moved, CallSound, SoundRow, EnteredPaid
<1>3. CallsShaped'
  BY DEF Moved
<1> QED
  BY <1>1, <1>2, <1>3 DEF EntrantsInv

(* The row is left alone by every step but the last.                         *)
LEMMA RowStays == ASSUME SoundRow(row), WalletKeeps, UNCHANGED row PROVE SoundRow(row)'
<1>1. PICK t : t = row
  OBVIOUS
<1>2. SoundRow(t)'
  BY <1>1, SoundStays
<1> QED
  BY <1>1, <1>2 DEF SoundRow, EnteredPaid
LEMMA AskSound ==
  ASSUME EntrantsInv, NEW c \in TCalls, NEW what, what.op \in TournamentOps, Request(c, what) PROVE EntrantsInv'
<1>1. PICK t, step : t = row /\ step = FirstStep(row, what)
  OBVIOUS
<1>2. Moved(c, step, what, t)
  BY <1>1, Moving DEF Request, EntrantsInv
<1>3. Accepts(t, what) /\ UNCHANGED <<row, wallet>> /\ SoundRow(t)
  BY <1>1 DEF Request, EntrantsInv
<1>4. WalletShaped' /\ WalletKeeps
  BY <1>3, WalletRests DEF EntrantsInv
<1>5. step \in {"reserve", "refund", "prizes", "save"}
      /\ (step = "reserve" <=> what.op = "register" /\ t.fee > 0)
      /\ (step = "refund" => what.op = "cancel")
      /\ (step = "prizes" => what.op = "complete")
  BY <1>1 DEF FirstStep
<1>6. what.op = "register" => t.status = "registration" \/ (t.lateJoin /\ t.status = "live")
  BY <1>3 DEF Accepts, IsOpenFor
<1>7. what.op = "update" => usersOf(t) = {}
  BY <1>3 DEF Accepts, SoundRow
<1>8. CallSound(step, what, t)
  BY <1>3, <1>5, <1>6, <1>7 DEF CallSound
<1>9. CallSound(step, what, t)'
  BY <1>4, <1>8, CallStays
<1>10. SoundRow(row)'
  BY <1>3, <1>4, RowStays DEF EntrantsInv
<1> QED
  BY <1>2, <1>4, <1>9, <1>10, MovedInv

(* What a call under way knows.                                              *)
LEMMA UnderWay ==
  ASSUME EntrantsInv, NEW c \in TCalls, tpc[c] # "idle"
  PROVE  CallsShaped /\ WalletShaped /\ SoundRow(row) /\ CallSound(tpc[c], tcall[c], tseen[c])
  BY DEF EntrantsInv

LEMMA TakeFeeSound == ASSUME EntrantsInv, NEW c \in TCalls, TakeFee(c) PROVE EntrantsInv'
<1>1. PICK what, t : what = tcall[c] /\ t = tseen[c]
  OBVIOUS
<1>2. tpc[c] = "reserve" /\ UNCHANGED row
  BY DEF TakeFee
<1>3. CallsShaped /\ WalletShaped /\ SoundRow(row) /\ CallSound("reserve", what, t)
  BY <1>1, <1>2, UnderWay
<1>4. CASE ReserveBet(EntryKey(tcall[c].user), tseen[c].fee) /\ TGoto(c, "settle") /\ UNCHANGED <<tcall, tseen>>
  <2>1. PICK k, fee : k = EntryKey(what.user) /\ fee = t.fee
    OBVIOUS
  <2>2. ReserveBet(k, fee)
    BY <1>1, <1>4, <2>1
  <2>3. WalletShaped' /\ WalletKeeps /\ DOMAIN wallet' = DOMAIN wallet \cup {k}
    BY <1>3, <2>2, BetsKeep
  <2>4. Moved(c, "settle", what, t)
    BY <1>1, <1>3, <1>4, Moving
  <2>5. CallSound("reserve", what, t)'
    BY <1>3, <2>3, CallStays
  <2>6. CallSound("settle", what, t)'
    BY <2>1, <2>3, <2>5 DEF CallSound, EntryKey
  <2> QED
    BY <1>2, <1>3, <2>3, <2>4, <2>6, RowStays, MovedInv
<1>5. CASE BetRefused(EntryKey(tcall[c].user)) /\ TFinish(c)
  <2>1. WalletShaped' /\ WalletKeeps
    BY <1>3, <1>5, WalletRests DEF BetRefused
  <2> QED
    BY <1>2, <1>3, <1>5, <2>1, Ending, RowStays, MovedInv
<1> QED
  BY <1>4, <1>5, Zenon DEF TakeFee

LEMMA SettleFeeSound == ASSUME EntrantsInv, NEW c \in TCalls, SettleFee(c) PROVE EntrantsInv'
<1>1. PICK what, t : what = tcall[c] /\ t = tseen[c]
  OBVIOUS
<1>2. tpc[c] = "settle" /\ UNCHANGED <<row, tcall, tseen>> /\ TGoto(c, "save")
  BY DEF SettleFee
<1>3. CallsShaped /\ WalletShaped /\ SoundRow(row) /\ CallSound("settle", what, t)
  BY <1>1, <1>2, UnderWay
<1>4. PICK k : k = EntryKey(what.user)
  OBVIOUS
<1>5. k \in DOMAIN wallet /\ SettleBet(k, 0)
  BY <1>1, <1>3, <1>4 DEF CallSound, SettleFee
<1>6. WalletShaped' /\ WalletKeeps /\ IsSettled(k)'
  BY <1>3, <1>5, SettlesKeep
<1>7. Moved(c, "save", what, t)
  BY <1>1, <1>2, <1>3, Moving
<1>8. CallSound("settle", what, t)'
  BY <1>3, <1>6, CallStays
<1>9. IsSettled(EntryKey(what.user))'
  BY <1>4, <1>6 DEF EntryKey
<1>10. CallSound("save", what, t)'
  BY <1>8, <1>9 DEF CallSound
<1> QED
  BY <1>2, <1>3, <1>6, <1>7, <1>10, RowStays, MovedInv

LEMMA SettleFeeFailsSound == ASSUME EntrantsInv, NEW c \in TCalls, SettleFeeFails(c) PROVE EntrantsInv'
<1>1. PICK what, t : what = tcall[c] /\ t = tseen[c]
  OBVIOUS
<1>2. tpc[c] = "settle" /\ UNCHANGED row /\ TFinish(c)
  BY DEF SettleFeeFails
<1>3. CallsShaped /\ WalletShaped /\ SoundRow(row) /\ CallSound("settle", what, t)
  BY <1>1, <1>2, UnderWay
<1>4. PICK k : k = EntryKey(what.user)
  OBVIOUS
<1>5. k \in DOMAIN wallet /\ SettleBetFails(k, 0)
  BY <1>1, <1>3, <1>4 DEF CallSound, SettleFeeFails
<1>6. WalletShaped' /\ WalletKeeps
  BY <1>3, <1>5, FailsKeep
<1> QED
  BY <1>2, <1>3, <1>6, Ending, RowStays, MovedInv

LEMMA RefundSound == ASSUME EntrantsInv, NEW c \in TCalls, Refund(c) PROVE EntrantsInv'
<1>1. PICK what, t : what = tcall[c] /\ t = tseen[c]
  OBVIOUS
<1>2. tpc[c] = "refund" /\ UNCHANGED <<row, tcall, tseen, wallet>> /\ TGoto(c, "transition")
  BY DEF Refund, SettleImmediately, HasStake
<1>3. CallsShaped /\ WalletShaped /\ SoundRow(row) /\ CallSound("refund", what, t)
  BY <1>1, <1>2, UnderWay
<1>4. WalletShaped' /\ WalletKeeps
  BY <1>2, <1>3, WalletRests
<1>5. Moved(c, "transition", what, t)
  BY <1>1, <1>2, <1>3, Moving
<1>6. CallSound("transition", what, t)'
  <2>1. CallSound("transition", what, t)
    BY <1>3 DEF CallSound
  <2> QED
    BY <1>4, <2>1, CallStays
<1> QED
  BY <1>2, <1>3, <1>4, <1>5, <1>6, RowStays, MovedInv

LEMMA PrizesSound == ASSUME EntrantsInv, NEW c \in TCalls, Prizes(c) PROVE EntrantsInv'
<1>1. PICK what, t : what = tcall[c] /\ t = tseen[c]
  OBVIOUS
<1>2. tpc[c] = "prizes" /\ UNCHANGED <<row, tcall, tseen, wallet>> /\ TGoto(c, "save")
  BY DEF Prizes, SettleImmediately, HasStake
<1>3. CallsShaped /\ WalletShaped /\ SoundRow(row) /\ CallSound("prizes", what, t)
  BY <1>1, <1>2, UnderWay
<1>4. WalletShaped' /\ WalletKeeps
  BY <1>2, <1>3, WalletRests
<1>5. Moved(c, "save", what, t)
  BY <1>1, <1>2, <1>3, Moving
<1>6. CallSound("save", what, t)'
  <2>1. CallSound("save", what, t)
    BY <1>3 DEF CallSound
  <2> QED
    BY <1>4, <2>1, CallStays
<1> QED
  BY <1>2, <1>3, <1>4, <1>5, <1>6, RowStays, MovedInv

LEMMA TransitionSound == ASSUME EntrantsInv, NEW c \in TCalls, Transition(c) PROVE EntrantsInv'
<1>1. PICK what, t : what = tcall[c] /\ t = row
  OBVIOUS
<1>2. tpc[c] = "transition" /\ UNCHANGED <<row, wallet>>
  BY DEF Transition
<1>3. CallsShaped /\ WalletShaped /\ SoundRow(t) /\ SoundRow(row) /\ CallSound("transition", what, tseen[c])
  BY <1>1, <1>2, UnderWay
<1>4. WalletShaped' /\ WalletKeeps
  BY <1>2, <1>3, WalletRests
<1>5. CASE TGoto(c, "save") /\ tseen' = [tseen EXCEPT ![c] = row] /\ UNCHANGED tcall
  <2>1. Moved(c, "save", what, t)
    BY <1>1, <1>3, <1>5, Moving
  <2>2. CallSound("save", what, t)
    BY <1>3 DEF CallSound
  <2> QED
    BY <1>2, <1>3, <1>4, <2>1, <2>2, CallStays, RowStays, MovedInv
<1>6. CASE TFinish(c)
  BY <1>2, <1>3, <1>4, <1>6, Ending, RowStays, MovedInv
<1> QED
  BY <1>5, <1>6, Zenon DEF Transition

LEMMA SaveSound == ASSUME EntrantsInv, NEW c \in TCalls, Save(c) PROVE EntrantsInv'
<1>1. PICK what, t : what = tcall[c] /\ t = tseen[c]
  OBVIOUS
<1>2. PICK next : next = Result(t, what)
  OBVIOUS
<1>3. tpc[c] = "save" /\ TFinish(c) /\ UNCHANGED wallet /\ row' \in {row, next}
  BY <1>1, <1>2 DEF Save
<1>4. CallsShaped /\ WalletShaped /\ SoundRow(row) /\ CallSound("save", what, t)
  BY <1>1, <1>3, UnderWay
<1>5. WalletShaped' /\ WalletKeeps
  BY <1>3, <1>4, WalletRests
<1>6. /\ RowShaped(next)
      /\ what.op # "register" => usersOf(next) = usersOf(t)
      /\ what.op = "register" => usersOf(next) = usersOf(t) \cup {what.user}
      /\ what.op # "update" => next.fee = t.fee
      /\ next.status \in {"draft", "scheduled"} => next.status = t.status
  BY <1>2, <1>4, ResultEntrants DEF CallSound, SoundRow
<1>7. EnteredPaid(next)
  BY <1>4, <1>6 DEF CallSound, SoundRow, EnteredPaid
<1>8. next.status \in {"draft", "scheduled"} => usersOf(next) = {}
  BY <1>4, <1>6 DEF CallSound, SoundRow
<1>9. SoundRow(next)'
  BY <1>5, <1>6, <1>7, <1>8, SoundStays DEF SoundRow
<1>10. SoundRow(row)'
  <2>1. CASE row' = next
    BY <1>9, <2>1 DEF SoundRow, EnteredPaid
  <2>2. CASE row' = row
    BY <1>4, <1>5, <2>2, RowStays
  <2> QED
    BY <1>3, <2>1, <2>2
<1> QED
  BY <1>3, <1>4, <1>5, <1>10, Ending, MovedInv

LEMMA AskOps ==
  ASSUME NEW c \in TCalls, Ask(c) PROVE \E what : what.op \in TournamentOps /\ Request(c, what)
<1>1. PICK what : /\ what \in AdminRequests \cup Reports \cup UserRequests
                  /\ Request(c, what)
  BY Zenon DEF Ask
<1>2. what.op \in TournamentOps
  <2>1. CASE what \in AdminRequests
    BY <2>1 DEF AdminRequests, OpenRegistration, Start, CancelIt, Complete, Update, TournamentOps
  <2>2. CASE what \in Reports
    BY <2>2 DEF Reports, Report, TournamentOps
  <2>3. CASE what \in UserRequests
    <3>1. PICK u \in Users : what \in {Register(u), CheckIn(u), Withdraw(u)}
      BY <2>3, Zenon DEF UserRequests
    <3> QED
      BY <3>1 DEF Register, CheckIn, Withdraw, TournamentOps
  <2> QED
    BY <1>1, <2>1, <2>2, <2>3
<1> QED
  BY <1>1, <1>2

LEMMA TournamentStep == EntrantsInv /\ [TournamentNext]_tvars => EntrantsInv'
<1> SUFFICES ASSUME EntrantsInv, [TournamentNext]_tvars PROVE EntrantsInv'
  OBVIOUS
<1>1. ASSUME NEW c \in TCalls, Ask(c) PROVE EntrantsInv'
  BY <1>1, AskOps, AskSound
<1>2. CASE UNCHANGED tvars
  BY <1>2 DEF tvars, tcalls, EntrantsInv, WalletShaped, SoundRow, EnteredPaid, CallsShaped, CallSound, IsSettled
<1> QED
  BY <1>1, <1>2, TakeFeeSound, SettleFeeSound, SettleFeeFailsSound, RefundSound, PrizesSound, TransitionSound,
     SaveSound
     DEF TournamentNext

LEMMA TournamentStart == TournamentInit => EntrantsInv
<1> SUFFICES ASSUME TournamentInit PROVE EntrantsInv
  OBVIOUS
<1>1. PICK s \in Setups : row = Created(s)
  BY DEF TournamentInit
<1>2. PICK t : t = Created(s)
  OBVIOUS
<1>3. DOMAIN t = RowFields /\ t.players = <<>> /\ t.status = "draft"
  BY <1>2 DEF Created, RowFields
<1>4. usersOf(t) = {} /\ t.players \in Seq(Entries(t)) /\ DOMAIN t.players = {}
  <2>1. DOMAIN t.players = {}
    BY <1>3
  <2> QED
    BY <1>3, <2>1 DEF usersOf
<1>5. SoundRow(t)
  BY <1>3, <1>4 DEF SoundRow, RowShaped, EnteredPaid
<1>6. WalletShaped
  BY DEF TournamentInit, NoMoves, WalletShaped
<1> QED
  BY <1>1, <1>2, <1>5, <1>6 DEF TournamentInit, EntrantsInv, CallsShaped

LEMMA EntrantsAlways == TournamentSpec => []EntrantsInv
  BY TournamentStart, TournamentStep, PTL DEF TournamentSpec

(* Nobody is entered in a paid tournament whose fee was not taken and        *)
(* settled (tournament.service.ts:203-237).                                  *)
THEOREM EntrantsCorrect == TournamentSpec => []EntrantsPaid
<1>1. EntrantsInv => EntrantsPaid
  BY DEF EntrantsInv, SoundRow, EnteredPaid, EntrantsPaid
<1> QED
  BY <1>1, EntrantsAlways, PTL
-----------------------------------------------------------------------------
(* The invariant behind PaidIsEntered, while one call follows another: the   *)
(* call under way holds the row that is stored; late joining is fixed when a *)
(* tournament is made; and if not everybody who fits is entered already, who *)
(* paid is entered, or about to be, or was told of an error of the wallet.   *)
Entering(step, what, u) == step \in {"settle", "save"} /\ what.op = "register" /\ what.user = u

WithinBound(t) == t.capacity \in Nat /\ Len(t.players) <= Oversize * t.capacity

IsFull(t) == Len(t.players) = Oversize * t.capacity

Awaited(u) == \/ wallet[EntryKey(u)].failed
              \/ \E c \in TCalls : Entering(tpc[c], tcall[c], u)

Following ==
  /\ \A c, d \in TCalls : tpc[c] # "idle" /\ tpc[d] # "idle" => c = d
  /\ \A c \in TCalls : tpc[c] # "idle" => tseen[c] = row
  /\ WithinBound(row)
  /\ \/ row.lateJoin
     \/ IsFull(row)
     \/ \A u \in Users : EntryKey(u) \in DOMAIN wallet => u \in usersOf(row) \/ Awaited(u)

PaidInv == EntrantsInv /\ (toverlapped \/ Following)

(* A step of the call c that writes no row.                                  *)
LEMMA FollowsOn ==
  ASSUME EntrantsInv, Following, NEW c \in TCalls, NEW step, NEW what, NEW t, Moved(c, step, what, t),
         tpc[c] # "idle" \/ TQuiet, UNCHANGED row, step = "idle" \/ t = row,
         \A u \in Users : EntryKey(u) \in DOMAIN wallet' =>
           \/ EntryKey(u) \in DOMAIN wallet /\ wallet'[EntryKey(u)] = wallet[EntryKey(u)]
           \/ wallet'[EntryKey(u)].failed
           \/ Entering(step, what, u),
         \A u \in Users : Entering(tpc[c], tcall[c], u) =>
           Entering(step, what, u) \/ wallet'[EntryKey(u)].failed
  PROVE  Following'
<1>1. ASSUME NEW d \in TCalls, d # c PROVE tpc[d] = "idle" /\ tpc'[d] = "idle"
  BY <1>1 DEF Following, TQuiet, Moved
<1>2. \A d, e \in TCalls : tpc'[d] # "idle" /\ tpc'[e] # "idle" => d = e
  BY <1>1
<1>3. \A d \in TCalls : tpc'[d] # "idle" => tseen'[d] = row'
  BY <1>1 DEF Moved
<1>5. \A u : /\ EntryKey(u)' = EntryKey(u) /\ usersOf(row)' = usersOf(row)
             /\ (Awaited(u))' <=> \/ wallet'[EntryKey(u)].failed
                               \/ \E d \in TCalls : Entering(tpc'[d], tcall'[d], u)
  BY DEF EntryKey, usersOf, Awaited, Entering
<1>4. ASSUME ~row.lateJoin, ~IsFull(row), NEW u \in Users, EntryKey(u) \in DOMAIN wallet'
      PROVE  u \in usersOf(row) \/ Awaited(u)'
  <2>1. \/ EntryKey(u) \in DOMAIN wallet /\ wallet'[EntryKey(u)] = wallet[EntryKey(u)]
        \/ wallet'[EntryKey(u)].failed
        \/ Entering(step, what, u)
    BY <1>4
  <2>2. Entering(step, what, u) => Awaited(u)'
    <3>1. tpc'[c] = step /\ tcall'[c] = what
      BY DEF Moved
    <3> QED
      BY <1>5, <3>1, Zenon
  <2>3. CASE /\ EntryKey(u) \in DOMAIN wallet /\ wallet'[EntryKey(u)] = wallet[EntryKey(u)]
             /\ u \notin usersOf(row)
    <3>1. Awaited(u)
      BY <1>4, <2>3 DEF Following
    <3>2. CASE wallet[EntryKey(u)].failed
      BY <1>5, <2>3, <3>2
    <3>3. CASE \E d \in TCalls : Entering(tpc[d], tcall[d], u)
      <4>1. PICK d \in TCalls : Entering(tpc[d], tcall[d], u)
        BY <3>3
      <4>2. d = c
        BY <1>1, <4>1 DEF Entering
      <4>3. Entering(step, what, u) \/ wallet'[EntryKey(u)].failed
        BY <4>1, <4>2
      <4> QED
        BY <1>5, <2>2, <4>3
    <3> QED
      BY <3>1, <3>2, <3>3 DEF Awaited
  <2> QED
    BY <1>5, <2>1, <2>2, <2>3
<1>6. WithinBound(row)' /\ (IsFull(row)' <=> IsFull(row))
  BY DEF Following, WithinBound, IsFull
<1>7. row.lateJoin \/ IsFull(row) \/ \A u \in Users : EntryKey(u) \in DOMAIN wallet' => u \in usersOf(row) \/ Awaited(u)'
  BY <1>4
<1>8. (row.lateJoin \/ IsFull(row)
       \/ \A u \in Users : EntryKey(u) \in DOMAIN wallet => u \in usersOf(row) \/ Awaited(u))'
  BY <1>5, <1>6, <1>7
<1> QED
  BY <1>2, <1>3, <1>6, <1>8 DEF Following

LEMMA RequestFollows ==
  ASSUME PaidInv, NEW c \in TCalls, NEW what, Request(c, what) PROVE toverlapped' \/ Following'
<1> SUFFICES ASSUME ~toverlapped' PROVE Following'
  OBVIOUS
<1>1. PICK t, step : t = row /\ step = FirstStep(row, what)
  OBVIOUS
<1>2. Moved(c, step, what, t)
  BY <1>1, Moving DEF Request, PaidInv, EntrantsInv
<1>3. tpc[c] = "idle" /\ TQuiet /\ ~toverlapped /\ UNCHANGED <<row, wallet>>
  BY DEF Request
<1> QED
  BY <1>1, <1>2, <1>3, FollowsOn DEF PaidInv, Entering

LEMMA TakeFeeFollows ==
  ASSUME EntrantsInv, Following, NEW c \in TCalls, TakeFee(c) PROVE Following'
<1>1. PICK what, t : what = tcall[c] /\ t = tseen[c]
  OBVIOUS
<1>2. tpc[c] = "reserve" /\ UNCHANGED row
  BY DEF TakeFee
<1>3. CallsShaped /\ WalletShaped /\ CallSound("reserve", what, t) /\ t = row
  BY <1>1, <1>2, UnderWay DEF Following
<1>4. \A u : ~Entering(tpc[c], tcall[c], u)
  BY <1>2 DEF Entering
<1>5. CASE ReserveBet(EntryKey(tcall[c].user), tseen[c].fee) /\ TGoto(c, "settle") /\ UNCHANGED <<tcall, tseen>>
  <2>1. PICK k, fee : k = EntryKey(what.user) /\ fee = t.fee
    OBVIOUS
  <2>2. ReserveBet(k, fee)
    BY <1>1, <1>5, <2>1
  <2>3. DOMAIN wallet' = DOMAIN wallet \cup {k} /\ \A j \in DOMAIN wallet : wallet'[j] = wallet[j]
    BY <1>3, <2>2, BetsKeep
  <2>4. Moved(c, "settle", what, t)
    BY <1>1, <1>3, <1>5, Moving
  <2>5. \A u \in Users : EntryKey(u) \in DOMAIN wallet' =>
          \/ EntryKey(u) \in DOMAIN wallet /\ wallet'[EntryKey(u)] = wallet[EntryKey(u)]
          \/ Entering("settle", what, u)
    BY <1>3, <2>1, <2>3 DEF EntryKey, Entering, CallSound
  <2> QED
    BY <1>2, <1>3, <1>4, <2>4, <2>5, FollowsOn
<1>6. CASE BetRefused(EntryKey(tcall[c].user)) /\ TFinish(c)
  <2>1. UNCHANGED wallet
    BY <1>6 DEF BetRefused
  <2> QED
    BY <1>2, <1>3, <1>4, <1>6, <2>1, Ending, FollowsOn
<1> QED
  BY <1>5, <1>6, Zenon DEF TakeFee

LEMMA SettleFeeFollows ==
  ASSUME EntrantsInv, Following, NEW c \in TCalls, SettleFee(c) PROVE Following'
<1>1. PICK what, t : what = tcall[c] /\ t = tseen[c]
  OBVIOUS
<1>2. tpc[c] = "settle" /\ UNCHANGED <<row, tcall, tseen>> /\ TGoto(c, "save")
  BY DEF SettleFee
<1>3. CallsShaped /\ WalletShaped /\ CallSound("settle", what, t) /\ t = row
  BY <1>1, <1>2, UnderWay DEF Following
<1>4. PICK k : k = EntryKey(what.user)
  OBVIOUS
<1>5. k \in DOMAIN wallet /\ SettleBet(k, 0)
  BY <1>1, <1>3, <1>4 DEF CallSound, SettleFee
<1>6. DOMAIN wallet' = DOMAIN wallet /\ \A j \in DOMAIN wallet : j # k => wallet'[j] = wallet[j]
  BY <1>3, <1>5, SettlesKeep
<1>7. Moved(c, "save", what, t)
  BY <1>1, <1>2, <1>3, Moving
<1>8. \A u : Entering(tpc[c], tcall[c], u) => Entering("save", what, u)
  BY <1>1 DEF Entering
<1>9. \A u : EntryKey(u) = k => Entering("save", what, u)
  BY <1>3, <1>4 DEF EntryKey, Entering, CallSound
<1>10. \A u \in Users : EntryKey(u) \in DOMAIN wallet' =>
         \/ EntryKey(u) \in DOMAIN wallet /\ wallet'[EntryKey(u)] = wallet[EntryKey(u)]
         \/ Entering("save", what, u)
  BY <1>6, <1>9
<1> QED
  BY <1>2, <1>3, <1>7, <1>8, <1>10, FollowsOn

LEMMA SettleFeeFailsFollows ==
  ASSUME EntrantsInv, Following, NEW c \in TCalls, SettleFeeFails(c) PROVE Following'
<1>1. PICK what, t : what = tcall[c] /\ t = tseen[c]
  OBVIOUS
<1>2. tpc[c] = "settle" /\ UNCHANGED row /\ TFinish(c)
  BY DEF SettleFeeFails
<1>3. CallsShaped /\ WalletShaped /\ CallSound("settle", what, t)
  BY <1>1, <1>2, UnderWay
<1>4. PICK k : k = EntryKey(what.user)
  OBVIOUS
<1>5. k \in DOMAIN wallet /\ SettleBetFails(k, 0)
  BY <1>1, <1>3, <1>4 DEF CallSound, SettleFeeFails
<1>6. /\ DOMAIN wallet' = DOMAIN wallet /\ wallet'[k].failed
      /\ \A j \in DOMAIN wallet : j # k => wallet'[j] = wallet[j]
  BY <1>3, <1>5, FailsKeep
<1>7. Moved(c, "idle", TNone, NoRow)
  BY <1>2, <1>3, Ending
<1>8. \A u : Entering(tpc[c], tcall[c], u) => wallet'[EntryKey(u)].failed
  BY <1>1, <1>4, <1>6 DEF Entering
<1>9. \A u \in Users : EntryKey(u) \in DOMAIN wallet' =>
        \/ EntryKey(u) \in DOMAIN wallet /\ wallet'[EntryKey(u)] = wallet[EntryKey(u)]
        \/ wallet'[EntryKey(u)].failed
  BY <1>6
<1> QED
  BY <1>2, <1>7, <1>8, <1>9, FollowsOn

LEMMA HandsOnFollow ==
  ASSUME EntrantsInv, Following, NEW c \in TCalls, Refund(c) \/ Prizes(c) \/ Transition(c) PROVE Following'
<1>1. PICK what, t : what = tcall[c] /\ t = tseen[c]
  OBVIOUS
<1>2. tpc[c] \in {"refund", "prizes", "transition"} /\ UNCHANGED <<row, wallet>>
  BY DEF Refund, Prizes, Transition, SettleImmediately, HasStake
<1>3. CallsShaped /\ t = row
  BY <1>1, <1>2, UnderWay DEF Following
<1>4. \A u : ~Entering(tpc[c], tcall[c], u)
  BY <1>2 DEF Entering
<1>5. \E step, w, r : Moved(c, step, w, r) /\ (step = "idle" \/ r = row)
  <2>1. CASE Refund(c)
    BY <1>1, <1>3, <2>1, Moving DEF Refund
  <2>2. CASE Prizes(c)
    BY <1>1, <1>3, <2>2, Moving DEF Prizes
  <2>3. CASE Transition(c)
    <3>1. CASE TGoto(c, "save") /\ tseen' = [tseen EXCEPT ![c] = row] /\ UNCHANGED tcall
      BY <1>1, <1>3, <3>1, Moving
    <3>2. CASE TFinish(c)
      BY <1>3, <3>2, Ending
    <3> QED
      BY <2>3, <3>1, <3>2, Zenon DEF Transition
  <2> QED
    BY <2>1, <2>2, <2>3
<1> QED
  BY <1>2, <1>4, <1>5, FollowsOn

LEMMA SaveFollows ==
  ASSUME EntrantsInv, Following, NEW c \in TCalls, Save(c) PROVE Following'
<1>1. PICK what, t : what = tcall[c] /\ t = tseen[c]
  OBVIOUS
<1>2. PICK next : next = Result(t, what)
  OBVIOUS
<1>3. tpc[c] = "save" /\ TFinish(c) /\ UNCHANGED wallet
      /\ row' = IF Refused(t, what) \/ IsOversize(next) THEN row ELSE next
  BY <1>1, <1>2 DEF Save
<1>4. CallsShaped /\ CallSound("save", what, t) /\ t = row
  BY <1>1, <1>3, UnderWay DEF Following
<1>5. Moved(c, "idle", TNone, NoRow)
  BY <1>3, <1>4, Ending
<1>6. /\ next.lateJoin = t.lateJoin /\ next.capacity = t.capacity
      /\ Len(next.players) = IF what.op = "register" THEN Len(t.players) + 1 ELSE Len(t.players)
      /\ what.op # "register" => usersOf(next) = usersOf(t)
      /\ what.op = "register" => usersOf(next) = usersOf(t) \cup {what.user}
  BY <1>2, <1>4, ResultEntrants DEF CallSound, SoundRow
<1>7. \A d \in TCalls : tpc'[d] = "idle"
  BY <1>3, <1>5 DEF Following, Moved
<1>8. ~row.lateJoin => ~Refused(t, what)
  BY <1>4 DEF Refused, CallSound, acceptsRegistration
<1>11. PICK n \in Nat, most \in Nat : n = Len(t.players) /\ most = Oversize * t.capacity
  <2>1. Len(t.players) \in Nat
    BY <1>4 DEF CallSound, SoundRow, RowShaped
  <2>2. Oversize * t.capacity \in Nat
    BY <1>4, SetupsAssumption DEF Following, WithinBound
  <2> QED
    BY <2>1, <2>2
<1>12. n <= most /\ t.capacity \in Nat
  BY <1>4, <1>11 DEF Following, WithinBound
<1>13. /\ IsOversize(next) => what.op = "register" /\ IsFull(row)
       /\ IsFull(row) /\ what.op = "register" => IsOversize(next)
       /\ WithinBound(row')
       /\ row' = next /\ what.op # "register" /\ IsFull(row) => IsFull(row')
  <2>1. \A x \in Nat : /\ (x > most) => x # n
                       /\ ~(x > most) => x <= most
    BY <1>12
  <2>2. n + 1 > most <=> n = most
    BY <1>12
  <2>3. IsOversize(next) <=> (IF what.op = "register" THEN n + 1 > most ELSE n > most)
    BY <1>6, <1>11 DEF IsOversize
  <2>4. IsFull(row) <=> n = most
    BY <1>4, <1>11 DEF IsFull
  <2>5. IsOversize(next) <=> what.op = "register" /\ n = most
    BY <2>2, <2>3, <1>12
  <2>6. WithinBound(row')
    <3>1. CASE row' = row
      BY <3>1 DEF Following, WithinBound
    <3>2. CASE row' = next /\ ~IsOversize(next)
      <4>1. Len(next.players) <= most
        BY <3>2, <1>6, <1>11, <1>12, <2>2, <2>5
      <4> QED
        BY <3>2, <4>1, <1>6, <1>11, <1>12 DEF WithinBound
    <3> QED
      BY <1>3, <3>1, <3>2
  <2>7. row' = next /\ what.op # "register" /\ IsFull(row) => IsFull(row')
    BY <1>4, <1>6 DEF IsFull
  <2> QED
    BY <2>4, <2>5, <2>6, <2>7
<1>9. ASSUME ~row'.lateJoin, ~IsFull(row'), NEW u \in Users, EntryKey(u) \in DOMAIN wallet
      PROVE  u \in usersOf(row') \/ wallet[EntryKey(u)].failed
  <2>1. ~row.lateJoin
    BY <1>3, <1>4, <1>6, <1>9
  <2>2. row' = next /\ ~IsFull(row)
    BY <1>3, <1>8, <1>9, <1>13, <2>1
  <2>3. u \in usersOf(row) \/ Awaited(u)
    BY <1>9, <2>1, <2>2 DEF Following
  <2>4. u \in usersOf(row) \/ wallet[EntryKey(u)].failed \/ Entering(tpc[c], tcall[c], u)
    BY <1>3, <2>3 DEF Following, Entering, Awaited
  <2> QED
    BY <1>1, <1>4, <1>6, <2>2, <2>4 DEF Entering
<1>10. \A u : /\ EntryKey(u)' = EntryKey(u) /\ usersOf(row)' = usersOf(row')
              /\ wallet[EntryKey(u)].failed => Awaited(u)'
  BY <1>3 DEF EntryKey, usersOf, Awaited
<1>14. WithinBound(row)' /\ (IsFull(row)' <=> IsFull(row'))
  BY <1>13 DEF WithinBound, IsFull
<1>15. (row.lateJoin \/ IsFull(row)
        \/ \A u \in Users : EntryKey(u) \in DOMAIN wallet => u \in usersOf(row) \/ Awaited(u))'
  BY <1>3, <1>9, <1>10, <1>14
<1> QED
  BY <1>7, <1>14, <1>15 DEF Following

LEMMA PaidStep == PaidInv /\ [TournamentNext]_tvars => PaidInv'
<1> SUFFICES ASSUME PaidInv, [TournamentNext]_tvars PROVE PaidInv'
  OBVIOUS
<1>1. EntrantsInv'
  BY TournamentStep DEF PaidInv
<1>2. ASSUME NEW c \in TCalls, Ask(c) PROVE toverlapped' \/ Following'
  BY <1>2, AskOps, RequestFollows
<1>3. ASSUME NEW c \in TCalls,
             \/ TakeFee(c) \/ SettleFee(c) \/ SettleFeeFails(c)
             \/ Refund(c) \/ Prizes(c) \/ Transition(c) \/ Save(c)
      PROVE  toverlapped' \/ Following'
  <2>1. UNCHANGED toverlapped
    BY <1>3, Zenon DEF TakeFee, SettleFee, SettleFeeFails, Refund, Prizes, Transition, Save
  <2> QED
    BY <1>3, <2>1, TakeFeeFollows, SettleFeeFollows, SettleFeeFailsFollows, HandsOnFollow, SaveFollows
       DEF PaidInv
<1>4. ASSUME UNCHANGED tvars PROVE toverlapped' \/ Following'
  BY <1>4 DEF tvars, tcalls, PaidInv, Following, WithinBound, IsFull, Awaited, Entering, EntryKey, usersOf
<1>5. toverlapped' \/ Following'
  BY <1>2, <1>3, <1>4 DEF TournamentNext
<1> QED
  BY <1>1, <1>5 DEF PaidInv

LEMMA PaidStart == TournamentInit => PaidInv
<1> SUFFICES ASSUME TournamentInit PROVE PaidInv
  OBVIOUS
<1>1. DOMAIN wallet = {}
  BY DEF TournamentInit, NoMoves
<1>2. PICK s \in Setups : row = Created(s)
  BY DEF TournamentInit
<1>3. row.capacity = s.capacity /\ row.players = <<>>
  BY <1>2 DEF Created
<1>4. Oversize \in Nat /\ s.capacity \in Nat /\ Len(row.players) = 0
  BY <1>3, SetupsAssumption
<1>5. \A x, y \in Nat : 0 <= x * y
  OBVIOUS
<1>6. WithinBound(row)
  BY <1>3, <1>4, <1>5 DEF WithinBound
<1> QED
  BY <1>1, <1>6, TournamentStart DEF TournamentInit, PaidInv, Following

(* Who paid is entered, when one call follows another and nobody joins late, *)
(* unless the wallet answered the registration with an error or the row is   *)
(* as long as save lets it be.                                               *)
THEOREM PaidIsEnteredCorrect == TournamentSpec => []PaidIsEntered
<1>1. PaidInv => PaidIsEntered
  BY DEF PaidInv, Following, IsFull, Awaited, PaidIsEntered, TQuiet, Entering
<1> QED
  BY <1>1, PaidStart, PaidStep, PTL DEF TournamentSpec
-----------------------------------------------------------------------------
(* Sorting.  R orders the finite set S strictly and totally.                 *)
Orders(R, S) ==
  /\ IsFiniteSet(S)
  /\ \A x \in S : <<x, x>> \notin R
  /\ \A x, y \in S : x # y => <<x, y>> \in R \/ <<y, x>> \in R
  /\ \A x, y, z \in S : <<x, y>> \in R /\ <<y, z>> \in R => <<x, z>> \in R

(* s holds every element of S once, in the order R.                          *)
Sorts(s, R, S) ==
  /\ s \in Seq(S)
  /\ Len(s) = Cardinality(S)
  /\ DOMAIN s = 1 .. Cardinality(S)
  /\ \A n \in DOMAIN s : s[n] \in S
  /\ \A x \in S : \E n \in DOMAIN s : s[n] = x
  /\ \A i, j \in DOMAIN s : i < j => <<s[i], s[j]>> \in R

(* As many elements of S come before x as its place says: places are        *)
(* different, so they are all the numbers below the size of S.               *)
LEMMA PlacesDiffer ==
  ASSUME NEW S, NEW R, Orders(R, S), NEW nth, nth = [x \in S |-> Cardinality({y \in S : <<y, x>> \in R})]
  PROVE  /\ \A x \in S : nth[x] \in 0 .. (Cardinality(S) - 1)
         /\ \A x, z \in S : <<x, z>> \in R => nth[x] < nth[z]
         /\ \A n \in 0 .. (Cardinality(S) - 1) : \E x \in S : nth[x] = n
<1> DEFINE N == Cardinality(S)
           T == 0 .. (N - 1)
           Before(x) == {y \in S : <<y, x>> \in R}
<1>0. IsFiniteSet(S) /\ N \in Nat
  BY FS_CardinalityType DEF Orders
<1>1. ASSUME NEW x \in S
      PROVE  IsFiniteSet(Before(x)) /\ Cardinality(Before(x)) \in Nat /\ Cardinality(Before(x)) < N
  <2>1. Before(x) \in SUBSET S /\ x \notin Before(x)
    BY DEF Orders
  <2>2. IsFiniteSet(Before(x)) /\ Cardinality(Before(x)) <= N /\ (N = Cardinality(Before(x)) => S = Before(x))
    BY <1>0, <2>1, FS_Subset
  <2>3. Cardinality(Before(x)) \in Nat
    BY <2>2, FS_CardinalityType
  <2> QED
    BY <1>0, <2>1, <2>2, <2>3
<1>2. ASSUME NEW x \in S PROVE nth[x] = Cardinality(Before(x))
  OBVIOUS
<1>3. ASSUME NEW x \in S, NEW z \in S, <<x, z>> \in R PROVE nth[x] < nth[z]
  <2>1. Before(x) \in SUBSET Before(z) /\ x \in Before(z) /\ x \notin Before(x)
    BY <1>3 DEF Orders
  <2>2. IsFiniteSet(Before(z))
    BY <1>1
  <2>3. Cardinality(Before(x)) <= Cardinality(Before(z))
        /\ (Cardinality(Before(z)) = Cardinality(Before(x)) => Before(z) = Before(x))
    <3> HIDE DEF Before
    <3> QED
      BY <2>1, <2>2, FS_Subset
  <2>4. PICK a, b : a = Cardinality(Before(x)) /\ b = Cardinality(Before(z))
    OBVIOUS
  <2>5. a \in Nat /\ b \in Nat /\ a <= b /\ a # b
    <3>1. a \in Nat /\ b \in Nat
      BY <1>1, <2>4
    <3>2. a <= b /\ (a = b => Before(z) = Before(x))
      BY <2>3, <2>4
    <3>3. Before(z) # Before(x)
      BY <2>1
    <3> QED
      BY <3>1, <3>2, <3>3
  <2>6. nth[x] = a /\ nth[z] = b
    BY <1>2, <2>4
  <2> QED
    BY <2>5, <2>6
<1>4. nth \in [S -> T]
  <2>1. ASSUME NEW x \in S PROVE nth[x] \in T
    <3>1. PICK a : a = Cardinality(Before(x))
      OBVIOUS
    <3>2. a \in Nat /\ a < N /\ nth[x] = a
      BY <1>1, <1>2, <3>1
    <3>3. PICK n : n = N
      OBVIOUS
    <3>4. a \in 0 .. (n - 1)
      BY <1>0, <3>2, <3>3
    <3> QED
      BY <3>2, <3>3, <3>4
  <2> QED
    BY <2>1
<1>5. ASSUME NEW x \in S, NEW z \in S, nth[x] = nth[z] PROVE x = z
  <2>1. nth[x] \in Int /\ nth[z] \in Int
    BY <1>4
  <2>2. ~(nth[x] < nth[z]) /\ ~(nth[z] < nth[x])
    BY <1>5, <2>1
  <2>3. <<x, z>> \notin R /\ <<z, x>> \notin R
    BY <1>3, <2>2, Zenon
  <2> QED
    BY <2>3 DEF Orders
<1>6. nth \in Injection(S, T)
  BY <1>4, <1>5 DEF Injection, IsInjective
<1>7. IsFiniteSet(T) /\ Cardinality(T) = N
  <2>1. PICK n \in Nat : n = N
    BY <1>0
  <2>2. n - 1 \in Int /\ 0 \in Int
    OBVIOUS
  <2>3. IsFiniteSet(0 .. (n - 1)) /\ Cardinality(0 .. (n - 1)) = IF 0 > n - 1 THEN 0 ELSE n - 1 - 0 + 1
    BY <2>2, FS_Interval
  <2>4. IsFiniteSet(0 .. (n - 1)) /\ Cardinality(0 .. (n - 1)) = n
    BY <2>3
  <2> QED
    BY <2>1, <2>4
<1>8. nth \in Surjection(S, T)
  BY <1>6, <1>7, FS_Injection
<1> QED
  BY <1>3, <1>4, <1>8 DEF Surjection

LEMMA InOrderSorts ==
  ASSUME NEW S, NEW R, Orders(R, S), NEW s, s = inOrder(S, R)
  PROVE  Sorts(s, R, S)
<1> DEFINE N == Cardinality(S)
<1>0. N \in Nat
  BY FS_CardinalityType DEF Orders
<1>1. PICK nth : nth = [x \in S |-> Cardinality({y \in S : <<y, x>> \in R})]
  OBVIOUS
<1>2. /\ \A x \in S : nth[x] \in 0 .. (N - 1)
      /\ \A x, z \in S : <<x, z>> \in R => nth[x] < nth[z]
      /\ \A n \in 0 .. (N - 1) : \E x \in S : nth[x] = n
  BY <1>1, PlacesDiffer
<1>3. s = [n \in 1 .. N |-> CHOOSE x \in S : nth[x] = n - 1]
  <2>1. ASSUME NEW n \in 1 .. N
        PROVE  (CHOOSE x \in S : nth[x] = n - 1)
                 = (CHOOSE x \in S : Cardinality({y \in S : <<y, x>> \in R}) = n - 1)
    <3>1. \A x : (x \in S /\ nth[x] = n - 1) <=> (x \in S /\ Cardinality({y \in S : <<y, x>> \in R}) = n - 1)
      BY <1>1
    <3> QED
      BY <3>1
  <2> QED
    BY <2>1 DEF inOrder
<1>4. ASSUME NEW n \in 1 .. N PROVE s[n] \in S /\ nth[s[n]] = n - 1
  <2>1. n - 1 \in 0 .. (N - 1)
    BY <1>0
  <2>2. \E x \in S : nth[x] = n - 1
    BY <1>2, <2>1
  <2>3. s[n] = CHOOSE x \in S : nth[x] = n - 1
    BY <1>3
  <2> QED
    BY <2>2, <2>3
<1>5. ASSUME NEW x \in S, NEW z \in S
      PROVE  (nth[x] < nth[z] => <<x, z>> \in R) /\ (nth[x] = nth[z] => x = z)
  <2>1. nth[x] \in Int /\ nth[z] \in Int
    BY <1>2
  <2>2. (<<x, z>> \in R => nth[x] < nth[z]) /\ (<<z, x>> \in R => nth[z] < nth[x])
    BY <1>2
  <2>3. x = z \/ <<x, z>> \in R \/ <<z, x>> \in R
    BY DEF Orders
  <2> QED
    BY <2>1, <2>2, <2>3
<1>7. DOMAIN s = 1 .. N
  BY <1>3
<1>8. s \in Seq(S) /\ Len(s) = N
  <2>1. s \in [1 .. N -> S]
    BY <1>3, <1>4
  <2> QED
    BY <1>0, <2>1
<1>9. ASSUME NEW x \in S PROVE \E n \in DOMAIN s : s[n] = x
  <2>1. PICK n : n = N
    OBVIOUS
  <2>2. PICK k : k = nth[x]
    OBVIOUS
  <2>3. n \in Nat /\ k \in 0 .. (n - 1)
    BY <1>0, <1>2, <2>1, <2>2
  <2>4. k + 1 \in 1 .. n /\ k + 1 - 1 = k
    BY <2>3
  <2>5. s[k + 1] \in S /\ nth[s[k + 1]] = k
    <3>1. k + 1 \in 1 .. N
      BY <2>1, <2>4
    <3>2. PICK e : e = k + 1
      OBVIOUS
    <3>3. e \in 1 .. N
      BY <3>1, <3>2
    <3>4. s[e] \in S /\ nth[s[e]] = e - 1
      BY <1>4, <3>3
    <3> QED
      BY <2>3, <2>4, <3>2, <3>4
  <2>6. s[k + 1] = x
    BY <1>5, <2>2, <2>5
  <2> QED
    BY <1>7, <2>1, <2>4, <2>6
<1>10. ASSUME NEW i \in DOMAIN s, NEW j \in DOMAIN s, i < j PROVE <<s[i], s[j]>> \in R
  <2>1. nth[s[i]] = i - 1 /\ nth[s[j]] = j - 1 /\ s[i] \in S /\ s[j] \in S /\ i \in Int /\ j \in Int
    BY <1>4, <1>7
  <2>2. i - 1 < j - 1
    BY <1>10, <2>1
  <2> QED
    BY <1>5, <2>1, <2>2
<1> QED
  BY <1>4, <1>7, <1>8, <1>9, <1>10 DEF Sorts

(* The indices of a sequence come in their own order.                        *)
Earlier(I) == {pair \in I \X I : pair[1] < pair[2]}

LEMMA IndicesOrder ==
  ASSUME NEW n \in Nat, NEW I \in SUBSET (1 .. n), NEW R, R = Earlier(I)
  PROVE  Orders(R, I)
<1>1. IsFiniteSet(I)
  <2>1. 1 \in Int /\ n \in Int
    OBVIOUS
  <2>2. IsFiniteSet(1 .. n)
    BY <2>1, FS_Interval
  <2> QED
    BY <2>2, FS_Subset
<1>2. \A x, y \in I : <<x, y>> \in R <=> x < y
  BY DEF Earlier
<1> QED
  BY <1>1, <1>2 DEF Orders

LEMMA FilteredIs ==
  ASSUME NEW V, NEW s \in Seq(V), NEW I \in SUBSET DOMAIN s
  PROVE  \E at : /\ Sorts(at, Earlier(I), I)
                 /\ filtered(s, I) = [n \in DOMAIN at |-> s[at[n]]]
                 /\ filtered(s, I) \in Seq(V)
                 /\ Len(filtered(s, I)) = Cardinality(I)
                 /\ DOMAIN filtered(s, I) = 1 .. Cardinality(I)
                 /\ Cardinality(I) \in Nat
                 /\ IsFiniteSet(I)
<1>1. PICK R : R = Earlier(I)
  OBVIOUS
<1>2. PICK at : at = inOrder(I, R)
  OBVIOUS
<1>3. PICK n \in Nat : DOMAIN s = 1 .. n
  OBVIOUS
<1>4. Orders(R, I)
  BY <1>1, <1>3, IndicesOrder
<1>5. Sorts(at, R, I)
  BY <1>2, <1>4, InOrderSorts
<1>6. PICK f : f = [i \in DOMAIN at |-> s[at[i]]]
  OBVIOUS
<1>7. f = filtered(s, I)
  BY <1>1, <1>2, <1>6 DEF filtered, Earlier
<1>8. IsFiniteSet(I) /\ Cardinality(I) \in Nat
  BY <1>4, FS_CardinalityType DEF Orders
<1>9. f \in [1 .. Cardinality(I) -> V]
  <2>1. \A i \in 1 .. Cardinality(I) : at[i] \in DOMAIN s
    BY <1>5 DEF Sorts
  <2>2. \A i \in 1 .. Cardinality(I) : s[at[i]] \in V
    BY <2>1
  <2> QED
    BY <1>5, <1>6, <2>2 DEF Sorts
<1>10. f \in Seq(V) /\ Len(f) = Cardinality(I) /\ DOMAIN f = 1 .. Cardinality(I)
  BY <1>8, <1>9
<1> QED
  BY <1>1, <1>5, <1>6, <1>7, <1>8, <1>10
-----------------------------------------------------------------------------
(* How a step of a call moves the row and the call, whichever step it is.    *)
TournamentSteps == {"idle", "reserve", "settle", "refund", "transition", "prizes", "save"}

AskedFor(c, step, what, t) ==
  /\ tpc[c] = "idle" /\ step # "idle" /\ row' = row
  /\ what \in AdminRequests \cup Reports \cup UserRequests
  /\ Accepts(row, what) /\ t = row
  /\ step = "save" => what.op # "cancel"

CarriedOn(c, step, what, t) ==
  /\ tpc[c] # "idle" /\ step # "idle" /\ row' = row
  /\ what = tcall[c]
  /\ \/ t = tseen[c] /\ (step = "save" => what.op # "cancel")
     \/ t = row /\ what.op = "cancel" /\ step = "save" /\ canTransition(row, "cancelled")

EndedWith(c, step) ==
  /\ tpc[c] # "idle" /\ step = "idle"
  /\ row' = row \/ (tpc[c] = "save" /\ ~Refused(tseen[c], tcall[c]) /\ row' = Result(tseen[c], tcall[c]))

LEMMA CallMoves ==
  ASSUME EntrantsInv, TournamentNext
  PROVE  \E c \in TCalls : \E step \in TournamentSteps : \E what, t :
           /\ Moved(c, step, what, t) /\ TGoto(c, step)
           /\ AskedFor(c, step, what, t) \/ CarriedOn(c, step, what, t) \/ EndedWith(c, step)
<1>1. PICK c \in TCalls : \/ Ask(c) \/ TakeFee(c) \/ SettleFee(c) \/ SettleFeeFails(c)
                          \/ Refund(c) \/ Transition(c) \/ Prizes(c) \/ Save(c)
  BY Zenon DEF TournamentNext
<1>2. CallsShaped
  BY DEF EntrantsInv
<1> DEFINE Goal(step, what, t) ==
             /\ Moved(c, step, what, t) /\ TGoto(c, step)
             /\ AskedFor(c, step, what, t) \/ CarriedOn(c, step, what, t) \/ EndedWith(c, step)
<1> SUFFICES \E step \in TournamentSteps : \E what, t : Goal(step, what, t)
  BY Zenon
<1>3. CASE Ask(c)
  <2>1. PICK what : what \in AdminRequests \cup Reports \cup UserRequests /\ Request(c, what)
    BY <1>3, Zenon DEF Ask
  <2>2. PICK step, t : step = FirstStep(row, what) /\ t = row
    OBVIOUS
  <2>3. step \in TournamentSteps /\ step # "idle" /\ (step = "save" => what.op # "cancel")
    BY <2>2 DEF FirstStep, TournamentSteps
  <2>4. Moved(c, step, what, t) /\ TGoto(c, step)
    BY <1>2, <2>1, <2>2, Moving DEF Request
  <2>5. AskedFor(c, step, what, t)
    BY <2>1, <2>2, <2>3 DEF Request, AskedFor
  <2> QED
    BY <2>3, <2>4, <2>5
<1>4. CASE tpc[c] # "idle" /\ row' = row /\ TFinish(c)
  <2>1. Moved(c, "idle", TNone, NoRow) /\ TGoto(c, "idle")
    BY <1>2, <1>4, Ending DEF TFinish
  <2>2. EndedWith(c, "idle") /\ "idle" \in TournamentSteps
    BY <1>4 DEF EndedWith, TournamentSteps
  <2> QED
    BY <2>1, <2>2
<1>5. ASSUME NEW step \in TournamentSteps \ {"idle"}, tpc[c] # "idle", row' = row, TGoto(c, step),
             UNCHANGED <<tcall, tseen>>, step = "save" => tpc[c] \in {"settle", "prizes"}
      PROVE  \E next \in TournamentSteps : \E what, t : Goal(next, what, t)
  <2>1. PICK what, t : what = tcall[c] /\ t = tseen[c]
    OBVIOUS
  <2>2. Moved(c, step, what, t)
    BY <1>2, <1>5, <2>1, Moving
  <2>3. CarriedOn(c, step, what, t)
    <3>1. step = "save" => what.op # "cancel"
      BY <1>5, <2>1, UnderWay DEF CallSound
    <3> QED
      BY <1>5, <2>1, <3>1 DEF CarriedOn
  <2> QED
    BY <1>5, <2>2, <2>3
<1>6. CASE TakeFee(c)
  BY <1>4, <1>5, <1>6 DEF TakeFee, TournamentSteps
<1>7. CASE SettleFee(c)
  BY <1>5, <1>7 DEF SettleFee, TournamentSteps
<1>12. CASE SettleFeeFails(c)
  BY <1>4, <1>12 DEF SettleFeeFails
<1>8. CASE Refund(c)
  BY <1>5, <1>8 DEF Refund, TournamentSteps
<1>9. CASE Prizes(c)
  BY <1>5, <1>9 DEF Prizes, TournamentSteps
<1>10. CASE Transition(c)
  <2>1. tpc[c] = "transition" /\ row' = row /\ tcall[c].op = "cancel"
    <3>1. tpc[c] = "transition" /\ row' = row
      BY <1>10 DEF Transition
    <3> QED
      BY <3>1, UnderWay DEF CallSound
  <2>2. CASE /\ TGoto(c, "save") /\ tseen' = [tseen EXCEPT ![c] = row] /\ UNCHANGED tcall
             /\ canTransition(row, "cancelled")
    <3>1. PICK what, t : what = tcall[c] /\ t = row
      OBVIOUS
    <3>2. Moved(c, "save", what, t)
      BY <1>2, <2>2, <3>1, Moving
    <3>3. CarriedOn(c, "save", what, t) /\ "save" \in TournamentSteps
      BY <2>1, <2>2, <3>1 DEF CarriedOn, TournamentSteps
    <3> QED
      BY <2>2, <3>2, <3>3
  <2>3. CASE TFinish(c)
    BY <1>4, <2>1, <2>3
  <2> QED
    BY <1>10, <2>2, <2>3, Zenon DEF Transition
<1>11. CASE Save(c)
  <2>1. Moved(c, "idle", TNone, NoRow) /\ TGoto(c, "idle") /\ tpc[c] = "save"
    BY <1>2, <1>11, Ending DEF TFinish, Save
  <2>2. row' = row \/ (~Refused(tseen[c], tcall[c]) /\ row' = Result(tseen[c], tcall[c]))
    BY <1>11 DEF Save
  <2>3. EndedWith(c, "idle") /\ "idle" \in TournamentSteps
    BY <2>1, <2>2 DEF EndedWith, TournamentSteps
  <2> QED
    BY <2>1, <2>3
<1> QED
  BY <1>1, <1>3, <1>6, <1>7, <1>8, <1>9, <1>10, <1>11, <1>12
-----------------------------------------------------------------------------
(* Types.  Entries are well formed, nobody has two of them, and who is being *)
(* registered has none yet.                                                  *)
TypedRow(t) ==
  /\ RowShaped(t)
  /\ t.status \in Statuses /\ t.autoCheckIn \in BOOLEAN
  /\ t.players \in Seq(Player)
  /\ \A i, j \in DOMAIN t.players : t.players[i].user = t.players[j].user => i = j

TypedCall(what, t) ==
  /\ TypedRow(t)
  /\ what.op = "register" => what.user \in Users /\ what.user \notin usersOf(t)

(* Entries changed one by one, by whom they are for.                         *)
LEMMA TypedKept ==
  ASSUME NEW t, TypedRow(t), NEW next, RowShaped(next), next.status \in Statuses,
         next.autoCheckIn = t.autoCheckIn, DOMAIN next.players = DOMAIN t.players,
         \A i \in DOMAIN t.players : next.players[i] \in Player /\ next.players[i].user = t.players[i].user
  PROVE  TypedRow(next)
<1>1. next.players \in Seq(Player)
  <2>1. PICK n \in Nat : DOMAIN t.players = 1 .. n
    <3>1. t.players \in Seq(Player)
      BY DEF TypedRow
    <3> QED
      BY <3>1
  <2>2. next.players \in Seq(Entries(next)) /\ DOMAIN next.players = 1 .. n
    BY <2>1 DEF RowShaped
  <2>3. next.players \in [1 .. n -> Player]
    <3>1. PICK P : P = next.players
      OBVIOUS
    <3>2. P = [i \in 1 .. n |-> P[i]]
      BY <2>2, <3>1
    <3>3. \A i \in 1 .. n : P[i] \in Player
      BY <2>1, <3>1
    <3> QED
      BY <3>1, <3>2, <3>3
  <2> QED
    BY <2>3
<1> QED
  BY <1>1 DEF TypedRow

(* A seat's place in the order of the seats.                                 *)
LEMMA SeatIsPlaced ==
  ASSUME NEW t, t.players \in Seq(Player), NEW i \in DOMAIN t.players, IsActive(t.players[i])
  PROVE  positionOf(order(t), t.players[i].user) \in Nat
<1>1. PICK I : I = {j \in DOMAIN t.players : IsActive(t.players[j])}
  OBVIOUS
<1>2. PICK at : /\ Sorts(at, Earlier(I), I)
                /\ filtered(t.players, I) = [n \in DOMAIN at |-> t.players[at[n]]]
  <2>1. I \in SUBSET DOMAIN t.players
    BY <1>1
  <2>2. PICK s : s = t.players
    OBVIOUS
  <2>3. s \in Seq(Player) /\ I \in SUBSET DOMAIN s
    BY <2>1, <2>2
  <2>4. \E at : /\ Sorts(at, Earlier(I), I)
                /\ filtered(s, I) = [n \in DOMAIN at |-> s[at[n]]]
    BY <2>3, FilteredIs
  <2> QED
    BY <2>2, <2>4
<1>3. PICK seated : seated = filtered(t.players, I)
  OBVIOUS
<1>4. order(t) = [n \in DOMAIN seated |-> seated[n].user]
  BY <1>1, <1>3, Zenon DEF order
<1>5. PICK n \in DOMAIN at : at[n] = i
  BY <1>1, <1>2 DEF Sorts
<1>6. n \in DOMAIN order(t) /\ order(t)[n] = t.players[i].user
  BY <1>2, <1>3, <1>4, <1>5
<1>7. DOMAIN order(t) \subseteq Nat
  BY <1>2, <1>3, <1>4 DEF Sorts
<1> QED
  BY <1>6, <1>7 DEF positionOf

LEMMA RowResultTyped ==
  ASSUME NEW t, NEW what, TypedCall(what, t), what.op \in TournamentOps, NEW next, next = Result(t, what)
  PROVE  TypedRow(next)
<1>0. TypedRow(t) /\ RowShaped(t) /\ RowShaped(next)
  BY ResultEntrants DEF TypedCall, TypedRow
<1>1. DOMAIN t = RowFields /\ "status" \in RowFields /\ "players" \in RowFields /\ "autoCheckIn" \in RowFields
      /\ "fee" \in RowFields /\ "awards" \in RowFields /\ "bracket" \in RowFields
  BY <1>0 DEF RowShaped, RowFields
<1>2. \A i \in DOMAIN t.players : t.players[i] \in Player
  BY <1>0 DEF TypedRow
<1>3. {"draft", "registration", "live", "completed", "cancelled"} \subseteq Statuses /\ t.status \in Statuses
  BY <1>0 DEF Statuses, Transitions, TypedRow
<1>4. CASE next.players = t.players /\ next.status \in Statuses /\ next.autoCheckIn = t.autoCheckIn
  BY <1>0, <1>2, <1>4, TypedKept
<1>5. CASE what.op \in {"open", "update", "cancel", "complete"}
  <2>1. CASE what.op = "open"
    <3>1. next = [t EXCEPT !.status = "registration"]
      BY <2>1 DEF Result
    <3> QED
      BY <1>1, <1>3, <1>4, <3>1
  <2>2. CASE what.op = "update"
    <3>1. next = [t EXCEPT !.fee = what.fee]
      BY <2>2 DEF Result
    <3> QED
      BY <1>1, <1>3, <1>4, <3>1
  <2>3. CASE what.op = "cancel"
    <3>1. next = [t EXCEPT !.status = "cancelled"]
      BY <2>3 DEF Result
    <3> QED
      BY <1>1, <1>3, <1>4, <3>1
  <2>4. CASE what.op = "complete"
    <3>1. PICK awards : awards = distributePrizes(t)
      OBVIOUS
    <3>2. next = [t EXCEPT !.status = "completed", !.awards = awards]
      BY <2>4, <3>1 DEF Result, completed
    <3> QED
      BY <1>1, <1>3, <1>4, <3>2
  <2> QED
    BY <1>5, <2>1, <2>2, <2>3, <2>4
<1>6. CASE what.op = "start"
  <2>1. PICK S : S = IF isFinal(t) THEN t.status ELSE "live"
    OBVIOUS
  <2>2. PICK P :
          P = [i \in DOMAIN t.players |->
                 IF IsActive(t.players[i])
                 THEN [t.players[i] EXCEPT !.status = "active", !.seed = positionOf(order(t), t.players[i].user)]
                 ELSE t.players[i]]
    BY Zenon
  <2>3. PICK B : B = generateBracket(t)
    OBVIOUS
  <2>4. next = [t EXCEPT !.status = S, !.players = P, !.bracket = B]
    <3>1. next = started(t)
      BY <1>6 DEF Result
    <3> QED
      BY <2>1, <2>2, <2>3, <3>1, Zenon DEF started
  <2>5. next.players = P /\ next.status = S /\ next.autoCheckIn = t.autoCheckIn /\ DOMAIN P = DOMAIN t.players
    BY <1>1, <2>2, <2>4
  <2>6. ASSUME NEW i \in DOMAIN t.players PROVE P[i] \in Player /\ P[i].user = t.players[i].user
    <3>1. CASE IsActive(t.players[i])
      <4>1. PICK n : n = positionOf(order(t), t.players[i].user)
        OBVIOUS
      <4>2. n \in Nat
        BY <1>0, <3>1, <4>1, SeatIsPlaced DEF TypedRow
      <4>3. P[i] = [t.players[i] EXCEPT !.status = "active", !.seed = n]
        BY <2>2, <3>1, <4>1, Zenon
      <4> QED
        BY <1>2, <4>2, <4>3 DEF Player
    <3>2. CASE ~IsActive(t.players[i])
      <4>1. P[i] = t.players[i]
        BY <2>2, <3>2, Zenon
      <4> QED
        BY <1>2, <4>1
    <3> QED
      BY <3>1, <3>2
  <2>7. S \in Statuses
    BY <1>3, <2>1
  <2> QED
    BY <1>0, <2>5, <2>6, <2>7, TypedKept
<1>7. CASE what.op = "report"
  <2>1. PICK m, u : m = what.match /\ u = what.winner
    OBVIOUS
  <2>2. PICK v : v = opponent(t.bracket[m], u)
    OBVIOUS
  <2>3. PICK P :
          P = [i \in DOMAIN t.players |->
                 [t.players[i] EXCEPT
                    !.score = IF t.players[i].user = u /\ t.format \in ScoredFormats
                              THEN t.players[i].score + WIN_POINTS ELSE t.players[i].score,
                    !.status = IF t.players[i].user = v /\ DropsOut(t, t.bracket[m])
                               THEN "eliminated" ELSE t.players[i].status]]
    BY Zenon
  <2>4. PICK B :
          B = advanced([t.bracket EXCEPT ![m] = [@ EXCEPT !.winner = u, !.loser = v, !.state = "completed"]],
                       t.bracket[m], u, v)
    OBVIOUS
  <2>5. next = [t EXCEPT !.bracket = B, !.players = P]
    <3>1. next = reported(t, m, u)
      BY <1>7, <2>1 DEF Result
    <3> QED
      BY <2>2, <2>3, <2>4, <3>1, Zenon DEF reported
  <2>6. next.players = P /\ next.status = t.status /\ next.autoCheckIn = t.autoCheckIn /\ DOMAIN P = DOMAIN t.players
    BY <1>1, <2>3, <2>5
  <2>7. ASSUME NEW i \in DOMAIN t.players PROVE P[i] \in Player /\ P[i].user = t.players[i].user
    <3>1. PICK score : score = IF t.players[i].user = u /\ t.format \in ScoredFormats
                               THEN t.players[i].score + WIN_POINTS ELSE t.players[i].score
      OBVIOUS
    <3>2. PICK fate : fate = IF t.players[i].user = v /\ DropsOut(t, t.bracket[m])
                             THEN "eliminated" ELSE t.players[i].status
      OBVIOUS
    <3>3. P[i] = [t.players[i] EXCEPT !.score = score, !.status = fate]
      BY <2>3, <3>1, <3>2, Zenon
    <3>4. t.players[i].score \in Nat
      BY <1>2 DEF Player
    <3>5. score \in Nat
      BY <3>1, <3>4 DEF WIN_POINTS
    <3>6. fate \in {"registered", "waitlisted", "active", "eliminated", "withdrawn"}
      BY <1>2, <3>2 DEF Player
    <3> QED
      BY <1>2, <3>3, <3>5, <3>6 DEF Player
  <2> QED
    BY <1>0, <1>3, <2>6, <2>7, TypedKept
<1>8. CASE what.op \in {"checkIn", "withdraw"}
  <2>1. PICK P :
          /\ next = [t EXCEPT !.players = P] /\ DOMAIN P = DOMAIN t.players
          /\ \A i \in DOMAIN t.players :
               P[i] \in {t.players[i], [t.players[i] EXCEPT !.checkedIn = TRUE],
                         [t.players[i] EXCEPT !.status = "withdrawn"]}
    <3>1. CASE what.op = "checkIn"
      <4>1. PICK P : P = [i \in DOMAIN t.players |-> IF t.players[i].user = what.user
                                                     THEN [t.players[i] EXCEPT !.checkedIn = TRUE] ELSE t.players[i]]
        OBVIOUS
      <4>2. next = [t EXCEPT !.players = P]
        BY <3>1, <4>1 DEF Result, checkedIn, changed
      <4>3. DOMAIN P = DOMAIN t.players
        BY <4>1
      <4>4. \A i \in DOMAIN t.players :
              P[i] \in {t.players[i], [t.players[i] EXCEPT !.checkedIn = TRUE],
                        [t.players[i] EXCEPT !.status = "withdrawn"]}
        BY <4>1, Zenon
      <4> QED
        BY <4>2, <4>3, <4>4, Zenon
    <3>2. CASE what.op = "withdraw"
      <4>1. PICK P : P = [i \in DOMAIN t.players |-> IF t.players[i].user = what.user
                                                     THEN [t.players[i] EXCEPT !.status = "withdrawn"]
                                                     ELSE t.players[i]]
        OBVIOUS
      <4>2. next = [t EXCEPT !.players = P]
        BY <3>2, <4>1 DEF Result, withdrawn, changed
      <4>3. DOMAIN P = DOMAIN t.players
        BY <4>1
      <4>4. \A i \in DOMAIN t.players :
              P[i] \in {t.players[i], [t.players[i] EXCEPT !.checkedIn = TRUE],
                        [t.players[i] EXCEPT !.status = "withdrawn"]}
        BY <4>1, Zenon
      <4> QED
        BY <4>2, <4>3, <4>4, Zenon
    <3> QED
      BY <1>8, <3>1, <3>2
  <2>2. next.players = P /\ next.status = t.status /\ next.autoCheckIn = t.autoCheckIn
    BY <1>1, <2>1
  <2>3. ASSUME NEW i \in DOMAIN t.players PROVE P[i] \in Player /\ P[i].user = t.players[i].user
    <3>1. P[i] \in {t.players[i], [t.players[i] EXCEPT !.checkedIn = TRUE],
                    [t.players[i] EXCEPT !.status = "withdrawn"]}
      BY <2>1
    <3> QED
      BY <1>2, <3>1 DEF Player
  <2>4. DOMAIN next.players = DOMAIN t.players /\ next.status \in Statuses
    BY <1>3, <2>1, <2>2
  <2>5. \A i \in DOMAIN t.players : next.players[i] \in Player /\ next.players[i].user = t.players[i].user
    BY <2>2, <2>3
  <2> QED
    BY <1>0, <2>2, <2>4, <2>5, TypedKept
<1>9. CASE what.op = "register"
  <2>1. what.user \in Users /\ what.user \notin usersOf(t)
    BY <1>9 DEF TypedCall
  <2>2. PICK seat : seat = IF Len(t.players) >= t.capacity THEN "waitlisted" ELSE "registered"
    OBVIOUS
  <2>3. PICK new : new = [user |-> what.user, status |-> seat, seed |-> 0, score |-> 0, checkedIn |-> t.autoCheckIn]
    OBVIOUS
  <2>4. new \in Player /\ new.user = what.user
    BY <1>0, <2>1, <2>2, <2>3 DEF Player, TypedRow
  <2>5. PICK P : P = Append(t.players, new)
    OBVIOUS
  <2>6. next = [t EXCEPT !.players = P]
    BY <1>9, <2>2, <2>3, <2>5 DEF Result, registered
  <2>7. next.players = P /\ next.status = t.status /\ next.autoCheckIn = t.autoCheckIn
    BY <1>1, <2>6
  <2>8. t.players \in Seq(Player)
    BY <1>0 DEF TypedRow
  <2>9. PICK n \in Nat : n = Len(t.players) /\ DOMAIN t.players = 1 .. n
    BY <2>8
  <2>10. /\ P \in Seq(Player) /\ DOMAIN P = 1 .. (n + 1) /\ P[n + 1] = new
         /\ \A i \in 1 .. n : P[i] = t.players[i]
    BY <2>4, <2>5, <2>8, <2>9
  <2>11. ASSUME NEW i \in DOMAIN P, NEW j \in DOMAIN P, P[i].user = P[j].user PROVE i = j
    <3>1. \A k \in 1 .. n : P[k].user # new.user
      BY <2>1, <2>4, <2>9, <2>10 DEF usersOf
    <3>2. \A k, l \in 1 .. n : P[k].user = P[l].user => k = l
      BY <1>0, <2>9, <2>10 DEF TypedRow
    <3>3. (i \in 1 .. n \/ i = n + 1) /\ (j \in 1 .. n \/ j = n + 1)
      BY <2>9, <2>10
    <3> QED
      BY <2>10, <2>11, <3>1, <3>2, <3>3
  <2> QED
    BY <1>0, <1>3, <2>7, <2>10, <2>11 DEF TypedRow
<1> QED
  BY <1>5, <1>6, <1>7, <1>8, <1>9 DEF TournamentOps

(* Reservations have a stake, whichever step of a call makes them.           *)
Staked == \A k \in DOMAIN wallet : wallet[k].stake > 0

LEMMA BetsStaked ==
  ASSUME Staked, NEW k, NEW stake, stake > 0, ReserveBet(k, stake) PROVE Staked'
<1>1. CASE UNCHANGED wallet
  BY <1>1 DEF Staked
<1>2. CASE wallet' = also({k}, Reservation(stake))
  <2>1. PICK r : r = Reservation(stake)
    OBVIOUS
  <2>2. wallet' = [j \in {k} \cup DOMAIN wallet |-> IF j \in DOMAIN wallet THEN wallet[j] ELSE r]
    BY <1>2, <2>1 DEF also
  <2>3. r.stake = stake
    BY <2>1 DEF Reservation
  <2> QED
    BY <2>2, <2>3 DEF Staked
<1> QED
  BY <1>1, <1>2 DEF ReserveBet

LEMMA SettlesStaked ==
  ASSUME WalletShaped, Staked, NEW k \in DOMAIN wallet, NEW win, SettleBet(k, win) \/ SettleBetFails(k, win)
  PROVE  Staked'
<1>1. /\ DOMAIN wallet' = DOMAIN wallet /\ wallet'[k].stake = wallet[k].stake
      /\ \A j \in DOMAIN wallet : j # k => wallet'[j] = wallet[j]
  BY SettlesKeep, FailsKeep
<1> QED
  BY <1>1 DEF Staked

LEMMA TournamentStaked == ASSUME EntrantsInv, Staked, TournamentNext PROVE Staked'
<1>1. ASSUME NEW c \in TCalls, TakeFee(c) PROVE Staked'
  <2>1. tpc[c] = "reserve"
    BY <1>1 DEF TakeFee
  <2>2. tseen[c].fee > 0
    BY <2>1, UnderWay DEF CallSound
  <2>3. ReserveBet(EntryKey(tcall[c].user), tseen[c].fee) \/ UNCHANGED wallet
    BY <1>1 DEF TakeFee, BetRefused
  <2> QED
    BY <2>2, <2>3, BetsStaked DEF Staked
<1>2. ASSUME NEW c \in TCalls, SettleFee(c) \/ SettleFeeFails(c) PROVE Staked'
  <2>1. /\ tpc[c] = "settle"
        /\ SettleBet(EntryKey(tcall[c].user), 0) \/ SettleBetFails(EntryKey(tcall[c].user), 0)
    BY <1>2 DEF SettleFee, SettleFeeFails
  <2>2. WalletShaped /\ EntryKey(tcall[c].user) \in DOMAIN wallet
    BY <2>1, UnderWay DEF CallSound
  <2> QED
    BY <2>1, <2>2, SettlesStaked
<1>3. ASSUME NEW c \in TCalls, Ask(c) PROVE UNCHANGED wallet
  BY <1>3, AskOps DEF Request
<1>4. ASSUME NEW c \in TCalls, Refund(c) \/ Transition(c) \/ Prizes(c) \/ Save(c) PROVE UNCHANGED wallet
  BY <1>4 DEF Refund, Transition, Prizes, Save, SettleImmediately, HasStake
<1>5. UNCHANGED wallet => Staked'
  BY DEF Staked
<1> QED
  BY <1>1, <1>2, <1>3, <1>4, <1>5 DEF TournamentNext

(* The invariant behind the types.                                           *)
TypesInv ==
  /\ EntrantsInv
  /\ Staked
  /\ TypedRow(row)
  /\ tpc \in [TCalls -> TournamentSteps] /\ toverlapped \in BOOLEAN
  /\ \A c \in TCalls : tpc[c] = "idle" \/ TypedCall(tcall[c], tseen[c])

LEMMA UserRequestsTyped ==
  ASSUME NEW what \in AdminRequests \cup Reports \cup UserRequests, what.op = "register" PROVE what.user \in Users
<1>1. CASE what \in AdminRequests
  BY <1>1 DEF AdminRequests, OpenRegistration, Start, CancelIt, Complete, Update
<1>2. CASE what \in Reports
  BY <1>2 DEF Reports, Report
<1>3. CASE what \in UserRequests
  <2>1. PICK u \in Users : what \in {Register(u), CheckIn(u), Withdraw(u)}
    BY <1>3, Zenon DEF UserRequests
  <2> QED
    BY <2>1 DEF Register, CheckIn, Withdraw
<1> QED
  BY <1>1, <1>2, <1>3

LEMMA TypesStep == TypesInv /\ [TournamentNext]_tvars => TypesInv'
<1> SUFFICES ASSUME TypesInv, [TournamentNext]_tvars PROVE TypesInv'
  OBVIOUS
<1>1. EntrantsInv'
  BY TournamentStep DEF TypesInv
<1>2. CASE TournamentNext
  <2>1. PICK c \in TCalls, step \in TournamentSteps : \E what, t :
           /\ Moved(c, step, what, t) /\ TGoto(c, step)
           /\ AskedFor(c, step, what, t) \/ CarriedOn(c, step, what, t) \/ EndedWith(c, step)
    BY <1>2, CallMoves DEF TypesInv
  <2>2. PICK what, t :
           /\ Moved(c, step, what, t) /\ TGoto(c, step)
           /\ AskedFor(c, step, what, t) \/ CarriedOn(c, step, what, t) \/ EndedWith(c, step)
    BY <2>1
  <2>3. tpc[c] # "idle" => TypedCall(tcall[c], tseen[c]) /\ tcall[c].op \in TournamentOps
    BY UnderWay DEF TypesInv, CallSound
  <2>4. TypedRow(row)'
    <3>1. CASE EndedWith(c, step)
      <4>1. TypedRow(Result(tseen[c], tcall[c]))
        BY <2>3, <3>1, RowResultTyped DEF EndedWith
      <4>2. row' \in {row, Result(tseen[c], tcall[c])}
        BY <3>1 DEF EndedWith
      <4>3. TypedRow(row')
        BY <4>1, <4>2 DEF TypesInv
      <4> QED
        BY <4>3 DEF TypedRow
    <3>2. CASE row' = row
      BY <3>2 DEF TypesInv, TypedRow
    <3> QED
      BY <2>2, <3>1, <3>2 DEF AskedFor, CarriedOn
  <2>5. step = "idle" \/ TypedCall(what, t)
    <3>1. CASE AskedFor(c, step, what, t)
      <4>1. TypedRow(t)
        BY <3>1 DEF AskedFor, TypesInv
      <4>2. what.op = "register" => what.user \in Users
        BY <3>1, UserRequestsTyped DEF AskedFor
      <4>3. what.op = "register" => what.user \notin usersOf(t)
        BY <3>1 DEF AskedFor, Accepts, IsOpenFor
      <4> QED
        BY <4>1, <4>2, <4>3 DEF TypedCall
    <3>2. CASE CarriedOn(c, step, what, t)
      BY <2>3, <3>2 DEF CarriedOn, TypedCall, TypesInv
    <3>3. CASE EndedWith(c, step)
      BY <3>3 DEF EndedWith
    <3> QED
      BY <2>2, <3>1, <3>2, <3>3
  <2>6. ASSUME NEW d \in TCalls PROVE (tpc[d] = "idle" \/ TypedCall(tcall[d], tseen[d]))'
    <3>1. CASE d = c
      BY <2>2, <2>5, <3>1 DEF Moved, TypedCall, TypedRow
    <3>2. CASE d # c
      <4>1. tpc'[d] = tpc[d] /\ tcall'[d] = tcall[d] /\ tseen'[d] = tseen[d]
        BY <2>2, <3>2 DEF Moved
      <4> QED
        BY <4>1 DEF TypesInv, TypedCall, TypedRow
    <3> QED
      BY <3>1, <3>2
  <2>7. Staked'
    BY <1>2, TournamentStaked DEF TypesInv
  <2>8. tpc' \in [TCalls -> TournamentSteps]
    BY <2>2 DEF TGoto, TypesInv
  <2>9. toverlapped' \in BOOLEAN
    BY <1>2, AskOps DEF TypesInv, TournamentNext, Request, TakeFee, SettleFee, SettleFeeFails, Refund, Transition,
       Prizes, Save
  <2> QED
    BY <1>1, <2>4, <2>6, <2>7, <2>8, <2>9 DEF TypesInv
<1>3. CASE UNCHANGED tvars
  BY <1>1, <1>3 DEF tvars, tcalls, TypesInv, TypedRow, TypedCall, Staked
<1> QED
  BY <1>2, <1>3

LEMMA TypesStart == TournamentInit => TypesInv
<1> SUFFICES ASSUME TournamentInit PROVE TypesInv
  OBVIOUS
<1>1. PICK s \in Setups : row = Created(s)
  BY DEF TournamentInit
<1>2. EntrantsInv
  BY TournamentStart
<1>3. TypedRow(row)
  <2>1. row.status = "draft" /\ row.players = <<>> /\ row.autoCheckIn = s.autoCheckIn /\ RowShaped(row)
    BY <1>1, <1>2 DEF Created, EntrantsInv, SoundRow
  <2>2. row.status \in Statuses /\ row.autoCheckIn \in BOOLEAN
    BY <2>1, SetupsAssumption DEF Statuses, Transitions
  <2>3. row.players \in Seq(Player) /\ DOMAIN row.players = {}
    BY <2>1
  <2> QED
    BY <2>1, <2>2, <2>3 DEF TypedRow
<1>4. Staked
  BY DEF TournamentInit, NoMoves, Staked
<1> QED
  BY <1>2, <1>3, <1>4 DEF TournamentInit, TypesInv, TournamentSteps

LEMMA TypesAlways == TournamentSpec => []TypesInv
  BY TypesStart, TypesStep, PTL DEF TournamentSpec

(* As many users as entries.                                                 *)
LEMMA UsersCounted == ASSUME NEW t, TypedRow(t) PROVE Cardinality(usersOf(t)) = Len(t.players)
<1>1. PICK n \in Nat : DOMAIN t.players = 1 .. n /\ Len(t.players) = n
  BY DEF TypedRow
<1>2. PICK f : f = [i \in 1 .. n |-> t.players[i].user]
  OBVIOUS
<1>3. f \in Bijection(1 .. n, usersOf(t))
  <2>1. f \in [1 .. n -> usersOf(t)]
    BY <1>1, <1>2 DEF usersOf
  <2>2. \A i, j \in 1 .. n : f[i] = f[j] => i = j
    BY <1>1, <1>2 DEF TypedRow
  <2>3. \A u \in usersOf(t) : \E i \in 1 .. n : f[i] = u
    BY <1>1, <1>2 DEF usersOf
  <2> QED
    BY <2>1, <2>2, <2>3 DEF Bijection, Injection, Surjection, IsInjective
<1>4. IsFiniteSet(1 .. n) /\ Cardinality(1 .. n) = n
  <2>1. 1 \in Int /\ n \in Int
    OBVIOUS
  <2> QED
    BY <2>1, FS_Interval
<1> QED
  BY <1>1, <1>3, <1>4, FS_Bijection DEF ExistsBijection

LEMMA TypedRowsFit ==
  ASSUME TypedRow(row), Staked, tpc \in [TCalls -> TournamentSteps], toverlapped \in BOOLEAN
  PROVE  TournamentTypeOK
<1>1. row.status \in Statuses /\ \A i \in DOMAIN row.players : row.players[i] \in Player
  BY DEF TypedRow
<1>2. Cardinality(usersOf(row)) = Len(row.players)
  BY UsersCounted
<1> QED
  BY <1>1, <1>2 DEF Staked, TournamentTypeOK, TournamentSteps

(* Rows and calls are well formed and no user is entered twice, whatever the *)
(* calls, however they overlap (tournament.service.ts).                      *)
THEOREM TournamentTypeCorrect == TournamentSpec => []TournamentTypeOK
<1>1. TypesInv => TournamentTypeOK
  BY TypedRowsFit DEF TypesInv
<1> QED
  BY <1>1, TypesAlways, PTL
-----------------------------------------------------------------------------
(* Prizes.  What the awards add up to is a sum of their amounts.             *)
LEMMA AwardedIsSum ==
  ASSUME NEW t, IsFiniteSet(DOMAIN t.awards), NEW amounts,
         amounts = [i \in DOMAIN t.awards |-> t.awards[i].amount]
  PROVE  awarded(t) = SumFunctionOnSet(amounts, DOMAIN t.awards)
<1> DEFINE S == DOMAIN t.awards
           Adds(g) == g = [s \in SUBSET S |-> IF s = {} THEN 0
                                              ELSE t.awards[Pick(s)].amount + g[s \ {Pick(s)}]]
           h == CHOOSE g : Adds(g)
<1>1. \A s \in SUBSET S : s # {} => amounts[Pick(s)] = t.awards[Pick(s)].amount
  BY PickIn
<1>2. \A g : Adds(g) <=> Sums(amounts, S, g)
  BY <1>1 DEF Sums
<1>3. \E g : Sums(amounts, S, g)
  BY SumsExist
<1>4. Adds(h)
  BY <1>2, <1>3
<1>5. awarded(t) = h[S]
  BY DEF awarded, FoldFunction, FoldFunctionOnSet, MapThenFoldSet, Pick
<1> HIDE DEF h
<1>6. Sums(amounts, S, h)
  BY <1>2, <1>4
<1> QED
  BY <1>5, <1>6, SumIs

LEMMA SumOfEqual ==
  ASSUME NEW S, IsFiniteSet(S), NEW f, NEW q \in Int, \A x \in S : f[x] = q
  PROVE  SumFunctionOnSet(f, S) = q * Cardinality(S)
<1> DEFINE Bad == {T \in SUBSET S : SumFunctionOnSet(f, T) # q * Cardinality(T)}
<1>1. SUFFICES ASSUME Bad # {} PROVE FALSE
  OBVIOUS
<1>2. PICK m \in Bad : \A n \in Bad : n \subseteq m => n = m
  <2>1. Bad \in SUBSET (SUBSET S)
    OBVIOUS
  <2> HIDE DEF Bad
  <2> QED
    BY <1>1, <2>1, LeastSet
<1>3. IsFiniteSet(m) /\ m \subseteq S /\ SumFunctionOnSet(f, m) # q * Cardinality(m)
  BY <1>2, FS_Subset
<1>4. m # {}
  <2>1. SumFunctionOnSet(f, {}) = 0 /\ Cardinality({}) = 0
    BY SumOfNothing, FS_EmptySet
  <2> QED
    BY <1>3, <2>1
<1>5. PICK y \in m : TRUE
  BY <1>4
<1>6. PICK rest : rest = m \ {y}
  OBVIOUS
<1>7. SumFunctionOnSet(f, m) = q + SumFunctionOnSet(f, rest)
  BY <1>3, <1>5, <1>6, SumWithout
<1>8. IsFiniteSet(rest) /\ Cardinality(rest) = Cardinality(m) - 1 /\ Cardinality(m) \in Nat
  BY <1>3, <1>5, <1>6, FS_RemoveElement, FS_CardinalityType
<1>9. SumFunctionOnSet(f, rest) = q * Cardinality(rest)
  <2>1. rest \notin Bad
    BY <1>2, <1>5, <1>6
  <2> QED
    BY <1>3, <1>6, <2>1
<1>10. \A k \in Int : q + q * (k - 1) = q * k
  OBVIOUS
<1> QED
  BY <1>3, <1>7, <1>8, <1>9, <1>10

(* Whatever number of players share a prize, and whatever it does not divide *)
(* into: an even split gives all of it away, to the last unit                *)
(* (prizes.ts:26-31).                                                        *)
THEOREM SplitIsWhole ==
  ASSUME NEW shared, NEW n \in Nat \ {0}, DOMAIN shared = 1 .. n, Len(shared) = n, NEW total \in Nat,
         NEW t, t.awards = splitAmong(shared, total)
  PROVE  awarded(t) = total
<1>1. PICK q, r : q = total \div n /\ r = total % n
  OBVIOUS
<1>2. q \in Nat /\ r \in Nat /\ n * q + r = total
  BY <1>1
<1>3. DOMAIN t.awards = 1 .. n
  BY DEF splitAmong
<1>4. PICK amounts : amounts = [i \in DOMAIN t.awards |-> t.awards[i].amount]
  OBVIOUS
<1>5. ASSUME NEW i \in 1 .. n PROVE amounts[i] = IF i = 1 THEN q + r ELSE q
  <2>1. t.awards[i] = [user |-> shared[i].user, rank |-> shared[i].rank, amount |-> Share(total, n, i)]
    BY DEF splitAmong
  <2>2. t.awards[i].amount = Share(total, n, i)
    BY <2>1
  <2>3. amounts[i] = Share(total, n, i)
    BY <1>3, <1>4, <2>2
  <2>4. Share(total, n, i) = q + (IF i = 1 THEN r ELSE 0)
    BY <1>1 DEF Share
  <2> QED
    BY <1>2, <2>3, <2>4
<1>6. IsFiniteSet(1 .. n) /\ Cardinality(1 .. n) = n /\ 1 \in 1 .. n
  BY FS_Interval
<1>7. PICK rest : rest = (1 .. n) \ {1}
  OBVIOUS
<1>8. IsFiniteSet(rest) /\ Cardinality(rest) = n - 1
  BY <1>6, <1>7, FS_RemoveElement
<1>9. SumFunctionOnSet(amounts, rest) = q * (n - 1)
  <2>1. \A x \in rest : amounts[x] = q
    BY <1>5, <1>7
  <2>2. q \in Int
    BY <1>2
  <2> QED
    BY <1>8, <2>1, <2>2, SumOfEqual
<1>10. SumFunctionOnSet(amounts, 1 .. n) = (q + r) + q * (n - 1)
  <2>1. \A i \in 1 .. n : amounts[i] \in Int
    BY <1>2, <1>5
  <2>2. PICK S : S = 1 .. n
    OBVIOUS
  <2>3. IsFiniteSet(S) /\ 1 \in S /\ rest = S \ {1} /\ \A i \in S : amounts[i] \in Int
    BY <1>6, <1>7, <2>1, <2>2
  <2>4. SumFunctionOnSet(amounts, S) = amounts[1] + SumFunctionOnSet(amounts, rest)
    BY <2>3, SumWithout
  <2>5. amounts[1] = q + r
    BY <1>5, <1>6
  <2> QED
    BY <1>9, <2>2, <2>4, <2>5
<1>11. (q + r) + q * (n - 1) = total
  BY <1>2
<1> QED
  BY <1>3, <1>4, <1>6, <1>10, <1>11, AwardedIsSum

(* Awards that are a sequence, and what they add up to.                      *)
Award(U, R) == [user : U, rank : R, amount : Int]

Amounts(s) == [i \in DOMAIN s |-> s[i].amount]

AddsUp(s, total) == SumFunctionOnSet(Amounts(s), DOMAIN s) = total

LEMMA DomainFinite == ASSUME NEW V, NEW s \in Seq(V) PROVE IsFiniteSet(DOMAIN s)
<1>1. PICK n \in Nat : DOMAIN s = 1 .. n
  OBVIOUS
<1>2. 1 \in Int /\ n \in Int
  OBVIOUS
<1> QED
  BY <1>1, <1>2, FS_Interval

LEMMA SplitAdds ==
  ASSUME NEW U, NEW R, NEW entries \in Seq([user : U, rank : R]), entries # <<>>, NEW total \in Nat,
         NEW s, s = splitAmong(entries, total)
  PROVE  s \in Seq(Award(U, R)) /\ s # <<>> /\ AddsUp(s, total)
<1>1. PICK n \in Nat \ {0} : DOMAIN entries = 1 .. n /\ Len(entries) = n
  OBVIOUS
<1>2. PICK t : t = [awards |-> s]
  OBVIOUS
<1>3. t.awards = splitAmong(entries, total)
  BY <1>2
<1>4. awarded(t) = total
  BY <1>1, <1>3, SplitIsWhole
<1>5. ASSUME NEW i \in 1 .. n
      PROVE  [user |-> entries[i].user, rank |-> entries[i].rank, amount |-> Share(total, n, i)] \in Award(U, R)
  <2>1. entries[i] \in [user : U, rank : R]
    <3>1. PICK V : V = [user : U, rank : R]
      OBVIOUS
    <3>2. entries \in Seq(V)
      BY <3>1
    <3>3. entries[i] \in V
      BY <1>1, <3>2
    <3> QED
      BY <3>1, <3>3
  <2>2. PICK q, r : q = total \div n /\ r = total % n
    OBVIOUS
  <2>3. q \in Int /\ r \in Int
    BY <2>2
  <2>4. Share(total, n, i) = q + (IF i = 1 THEN r ELSE 0)
    BY <2>2 DEF Share
  <2>5. Share(total, n, i) \in Int
    BY <2>3, <2>4
  <2> QED
    BY <2>1, <2>5 DEF Award
<1>6. s = [i \in 1 .. n |->
             [user |-> entries[i].user, rank |-> entries[i].rank, amount |-> Share(total, n, i)]]
  BY <1>1 DEF splitAmong
<1>7. s \in [1 .. n -> Award(U, R)]
  BY <1>5, <1>6
<1>8. s \in Seq(Award(U, R)) /\ DOMAIN s = 1 .. n /\ s # <<>>
  BY <1>1, <1>7
<1>9. IsFiniteSet(DOMAIN t.awards)
  BY <1>2, <1>8, DomainFinite
<1>10. AddsUp(s, total)
  <2>1. PICK a : a = [i \in DOMAIN t.awards |-> t.awards[i].amount]
    OBVIOUS
  <2>2. awarded(t) = SumFunctionOnSet(a, DOMAIN t.awards)
    BY <1>9, <2>1, AwardedIsSum
  <2> QED
    BY <1>2, <1>4, <2>1, <2>2 DEF AddsUp, Amounts
<1> QED
  BY <1>8, <1>10

LEMMA JoinAdds ==
  ASSUME NEW U, NEW R, NEW a \in Seq(Award(U, R)), NEW b \in Seq(Award(U, R)),
         NEW x \in Int, NEW y \in Int, AddsUp(a, x), AddsUp(b, y)
  PROVE  a \o b \in Seq(Award(U, R)) /\ AddsUp(a \o b, x + y)
<1>1. PICK n \in Nat : DOMAIN a = 1 .. n /\ Len(a) = n
  OBVIOUS
<1>2. PICK m \in Nat : DOMAIN b = 1 .. m /\ Len(b) = m
  OBVIOUS
<1>3. PICK s : s = a \o b
  OBVIOUS
<1>4. s \in Seq(Award(U, R)) /\ DOMAIN s = 1 .. (n + m)
      /\ (\A i \in 1 .. n : s[i] = a[i]) /\ (\A i \in 1 .. m : s[n + i] = b[i])
  <2>1. PICK V : V = Award(U, R)
    OBVIOUS
  <2>2. /\ s \in Seq(V) /\ Len(s) = Len(a) + Len(b)
        /\ \A i \in 1 .. (Len(a) + Len(b)) : s[i] = IF i <= Len(a) THEN a[i] ELSE b[i - Len(a)]
    BY <1>3, <2>1, ConcatProperties
  <2>3. DOMAIN s = 1 .. (n + m)
    BY <1>1, <1>2, <2>2
  <2>4. ASSUME NEW i \in 1 .. m PROVE s[n + i] = b[i]
    <3>1. n + i \in 1 .. (n + m) /\ ~(n + i <= n) /\ (n + i) - n = i
      OBVIOUS
    <3> QED
      BY <1>1, <1>2, <2>2, <3>1
  <2> QED
    BY <1>1, <1>2, <2>1, <2>2, <2>3, <2>4
<1>5. PICK f, g, h : f = Amounts(s) /\ g = Amounts(a) /\ h = Amounts(b)
  OBVIOUS
<1>6. /\ \A i \in 1 .. (n + m) : f[i] \in Int
      /\ (\A i \in 1 .. n : f[i] = g[i])
      /\ (\A i \in 1 .. m : f[n + i] = h[i] /\ h[i] \in Int)
  <2>1. PICK V : V = Award(U, R)
    OBVIOUS
  <2>2. (\A i \in DOMAIN s : s[i] \in V) /\ (\A i \in DOMAIN b : b[i] \in V)
    BY <1>4, <2>1
  <2>3. \A e \in V : e.amount \in Int
    BY <2>1 DEF Award
  <2>4. (\A i \in DOMAIN s : f[i] = s[i].amount) /\ (\A i \in DOMAIN a : g[i] = a[i].amount)
        /\ (\A i \in DOMAIN b : h[i] = b[i].amount)
    BY <1>5 DEF Amounts
  <2>5. \A i \in 1 .. n : i \in 1 .. (n + m)
    OBVIOUS
  <2>6. \A i \in 1 .. m : n + i \in 1 .. (n + m)
    OBVIOUS
  <2>7. \A i \in 1 .. (n + m) : f[i] \in Int
    BY <1>4, <2>2, <2>3, <2>4
  <2>8. ASSUME NEW i \in 1 .. n PROVE f[i] = g[i]
    <3>1. i \in DOMAIN s /\ i \in DOMAIN a /\ s[i] = a[i]
      BY <1>1, <1>4, <2>5
    <3> QED
      BY <2>4, <3>1
  <2>9. ASSUME NEW i \in 1 .. m PROVE f[n + i] = h[i]
    <3>1. n + i \in DOMAIN s /\ i \in DOMAIN b /\ s[n + i] = b[i]
      BY <1>2, <1>4, <2>6
    <3> QED
      BY <2>4, <3>1
  <2>10. \A i \in 1 .. m : h[i] \in Int
    BY <1>2, <2>2, <2>3, <2>4
  <2> QED
    BY <2>7, <2>8, <2>9, <2>10
<1> DEFINE Upto(k) == SumFunctionOnSet(f, 1 .. (n + k))
           Part(k) == SumFunctionOnSet(h, 1 .. k)
           Bad == {k \in Nat : k <= m /\ Upto(k) # x + Part(k)}
<1>7. ASSUME NEW k \in Nat PROVE IsFiniteSet(1 .. k)
  <2>1. 1 \in Int /\ k \in Int
    OBVIOUS
  <2> QED
    BY <2>1, FS_Interval
<1>8. Bad = {}
  <2> SUFFICES ASSUME Bad # {} PROVE FALSE
    OBVIOUS
  <2>1. PICK k \in Bad : \A l \in Bad : k <= l
    <3>1. Bad \in SUBSET Nat
      OBVIOUS
    <3> HIDE DEF Bad
    <3> QED
      BY <3>1, LeastNat
  <2>2. CASE k = 0
    <3>1. 1 .. (n + k) = 1 .. n /\ 1 .. k = {}
      BY <2>2
    <3>2. PICK I : I = 1 .. n
      OBVIOUS
    <3>3. IsFiniteSet(I) /\ \A i \in I : f[i] = g[i]
      BY <1>6, <1>7, <3>2
    <3>4. SumFunctionOnSet(f, I) = SumFunctionOnSet(g, I)
      BY <3>3, SumSame
    <3>5. SumFunctionOnSet(g, I) = x
      BY <1>1, <1>5, <3>2 DEF AddsUp
    <3>6. Part(k) = 0 /\ Upto(k) = x
      BY <3>1, <3>2, <3>4, <3>5, SumOfNothing
    <3> QED
      BY <2>1, <3>6
  <2>3. CASE k # 0
    <3>1. PICK l \in Nat : k = l + 1
      <4>1. k - 1 \in Nat /\ k = (k - 1) + 1
        BY <2>3
      <4> QED
        BY <4>1
    <3>2. Upto(l) = x + Part(l)
      BY <2>1, <3>1
    <3>3. PICK I, J : I = 1 .. (n + l) /\ J = 1 .. l
      OBVIOUS
    <3>4. IsFiniteSet(I) /\ IsFiniteSet(J)
      <4>1. n + l \in Nat
        OBVIOUS
      <4> QED
        BY <1>7, <3>3, <4>1
    <3>5. 1 .. (n + k) = I \cup {n + k} /\ n + k \notin I /\ 1 .. k = J \cup {k} /\ k \notin J
      <4>1. 1 .. k = J \cup {k} /\ k \notin J
        BY <3>1, <3>3
      <4>2. PICK e \in Nat : e = n + l /\ n + k = e + 1
        <5>1. n + l \in Nat /\ n + k = (n + l) + 1
          BY <3>1
        <5> QED
          BY <5>1
      <4>3. 1 .. (e + 1) = (1 .. e) \cup {e + 1} /\ e + 1 \notin 1 .. e
        OBVIOUS
      <4> QED
        BY <3>3, <4>1, <4>2, <4>3, Zenon
    <3>6. (\A i \in I \cup {n + k} : f[i] \in Int) /\ (\A i \in J \cup {k} : h[i] \in Int) /\ f[n + k] = h[k]
      <4>1. k \in Nat /\ k <= m
        BY <2>1
      <4>2. k \in 1 .. m /\ \A i \in I \cup {n + k} : i \in 1 .. (n + m)
        BY <2>3, <3>1, <3>3, <4>1
      <4>3. \A i \in J \cup {k} : i \in 1 .. m
        BY <3>1, <3>3, <4>1
      <4> QED
        BY <1>6, <4>2, <4>3
    <3>7. PICK p : p = n + k
      OBVIOUS
    <3>8. SumFunctionOnSet(f, I \cup {p}) = SumFunctionOnSet(f, I) + f[p]
          /\ SumFunctionOnSet(f, I) \in Int
      <4>1. IsFiniteSet(I) /\ p \notin I /\ \A i \in I \cup {p} : f[i] \in Int
        BY <3>4, <3>5, <3>6, <3>7
      <4> QED
        BY <4>1, SumWith
    <3>9. SumFunctionOnSet(h, J \cup {k}) = SumFunctionOnSet(h, J) + h[k] /\ SumFunctionOnSet(h, J) \in Int
      BY <3>4, <3>5, <3>6, SumWith
    <3>10. Upto(k) = Upto(l) + h[k] /\ Part(k) = Part(l) + h[k] /\ Part(l) \in Int /\ h[k] \in Int
      BY <3>3, <3>5, <3>6, <3>7, <3>8, <3>9
    <3> HIDE DEF Upto, Part
    <3>11. Upto(k) = x + Part(k)
      BY <3>2, <3>10
    <3> QED
      BY <2>1, <3>11
  <2> QED
    BY <2>2, <2>3
<1>9. Upto(m) = x + Part(m)
  BY <1>8
<1>10. Part(m) = y
  BY <1>2, <1>5 DEF AddsUp
<1>11. AddsUp(s, x + y)
  BY <1>4, <1>5, <1>9, <1>10 DEF AddsUp
<1> QED
  BY <1>3, <1>4, <1>11

(* What is given so far, tier by tier, adds up; what no tier gave goes to    *)
(* the first.                                                                *)
GivenSoFar(U, R) == {acc \in [awards : Seq(Award(U, R)), given : Int] : AddsUp(acc.awards, acc.given)}

LEMMA NothingAdds == ASSUME NEW U, NEW R PROVE [awards |-> <<>>, given |-> 0] \in GivenSoFar(U, R)
<1>1. PICK none : none = [awards |-> <<>>, given |-> 0]
  OBVIOUS
<1>2. none.awards = <<>> /\ none.given = 0
  BY <1>1
<1>3. AddsUp(<<>>, 0)
  <2>1. PICK f : f = Amounts(<<>>)
    OBVIOUS
  <2>2. SumFunctionOnSet(f, {}) = 0
    BY SumOfNothing
  <2>3. DOMAIN <<>> = {}
    OBVIOUS
  <2> QED
    BY <2>1, <2>2, <2>3 DEF AddsUp
<1>4. none \in [awards : Seq(Award(U, R)), given : Int]
  <2>1. PICK V : V = Award(U, R)
    OBVIOUS
  <2>2. <<>> \in Seq(V) /\ 0 \in Int
    OBVIOUS
  <2> QED
    BY <1>1, <2>1, <2>2
<1> QED
  BY <1>1, <1>2, <1>3, <1>4 DEF GivenSoFar

LEMMA TierAdds ==
  ASSUME NEW U, NEW R, NEW acc \in GivenSoFar(U, R), NEW entries \in Seq([user : U, rank : R]),
         NEW cut \in Nat, entries # <<>>
  PROVE  [awards |-> acc.awards \o splitAmong(entries, cut), given |-> acc.given + cut] \in GivenSoFar(U, R)
<1>1. PICK a, x : a = acc.awards /\ x = acc.given
  OBVIOUS
<1>2. a \in Seq(Award(U, R)) /\ x \in Int /\ AddsUp(a, x)
  BY <1>1 DEF GivenSoFar
<1>3. PICK b : b = splitAmong(entries, cut)
  OBVIOUS
<1>4. b \in Seq(Award(U, R)) /\ AddsUp(b, cut)
  BY <1>3, SplitAdds
<1>5. PICK s : s = a \o b
  OBVIOUS
<1>6. s \in Seq(Award(U, R)) /\ AddsUp(s, x + cut) /\ x + cut \in Int
  <2>1. cut \in Int
    OBVIOUS
  <2> QED
    BY <1>2, <1>4, <1>5, <2>1, JoinAdds
<1>7. PICK sum : sum = x + cut
  OBVIOUS
<1>8. [awards |-> s, given |-> sum] \in GivenSoFar(U, R)
  BY <1>6, <1>7 DEF GivenSoFar
<1> QED
  BY <1>1, <1>3, <1>5, <1>7, <1>8

LEMMA FirstAdds ==
  ASSUME NEW U, NEW R, NEW a \in Seq(Award(U, R)), NEW n \in Nat, n # 0, DOMAIN a = 1 .. n,
         NEW x \in Int, AddsUp(a, x), NEW more \in Int,
         NEW s \in Seq(Award(U, R)), DOMAIN s = 1 .. n, s[1].amount = a[1].amount + more,
         \A i \in 1 .. n : i # 1 => s[i] = a[i]
  PROVE  AddsUp(s, x + more)
<1>1. PICK V : V = Award(U, R)
  OBVIOUS
<1>2. PICK f, g, I, y : f = Amounts(a) /\ g = Amounts(s) /\ I = 1 .. n /\ y = 1
  OBVIOUS
<1>3. \A i \in I : f[i] = a[i].amount /\ g[i] = s[i].amount
  BY <1>2 DEF Amounts
<1>4. \A i \in I : f[i] \in Int /\ g[i] \in Int
  <2>1. a \in Seq(V) /\ s \in Seq(V)
    BY <1>1
  <2>2. \A i \in I : a[i] \in V /\ s[i] \in V
    BY <1>2, <2>1
  <2>3. \A v \in V : v.amount \in Int
    BY <1>1 DEF Award
  <2> QED
    BY <1>3, <2>2, <2>3
<1>5. \A i \in I : i # y => g[i] = f[i]
  BY <1>2, <1>3
<1>6. y \in I /\ g[y] = f[y] + more /\ f[y] \in Int
  BY <1>2, <1>3, <1>4
<1>7. IsFiniteSet(I)
  BY <1>2, DomainFinite
<1>8. SumFunctionOnSet(g, I) = SumFunctionOnSet(f, I) + (g[y] - f[y])
  <2>1. y \in I
    BY <1>6
  <2> QED
    BY <1>4, <1>5, <1>7, <2>1, SumChange
<1>9. SumFunctionOnSet(f, I) = x
  BY <1>2 DEF AddsUp
<1>10. SumFunctionOnSet(g, I) = x + more
  BY <1>6, <1>8, <1>9
<1> QED
  BY <1>2, <1>10 DEF AddsUp

LEMMA RestToFirst ==
  ASSUME NEW U, NEW R, NEW a \in Seq(Award(U, R)), a # <<>>, NEW x \in Int, AddsUp(a, x), NEW more \in Int
  PROVE  \E s \in Seq(Award(U, R)) : s = [a EXCEPT ![1].amount = @ + more] /\ AddsUp(s, x + more)
<1>1. PICK n \in Nat : n # 0 /\ DOMAIN a = 1 .. n
  OBVIOUS
<1>2. PICK old : old = a[1]
  OBVIOUS
<1>3. old \in Award(U, R) /\ 1 \in 1 .. n
  <2>1. PICK V : V = Award(U, R)
    OBVIOUS
  <2>2. a \in Seq(V)
    BY <2>1
  <2>3. 1 \in DOMAIN a
    BY <1>1
  <2>4. a[1] \in V
    BY <2>2, <2>3
  <2> QED
    BY <1>1, <1>2, <2>1, <2>3, <2>4
<1>4. PICK new \in Int : new = old.amount + more
  BY <1>3 DEF Award
<1>5. PICK e : e = [old EXCEPT !.amount = new]
  OBVIOUS
<1>6. e \in Award(U, R) /\ e.amount = new
  BY <1>3, <1>4, <1>5 DEF Award
<1>7. PICK s : s = [a EXCEPT ![1] = e]
  OBVIOUS
<1>8. s \in Seq(Award(U, R)) /\ DOMAIN s = 1 .. n /\ s[1] = e /\ \A i \in 1 .. n : i # 1 => s[i] = a[i]
  <2>1. PICK V : V = Award(U, R)
    OBVIOUS
  <2>2. a \in Seq(V) /\ e \in V
    BY <1>6, <2>1
  <2>3. a \in [1 .. n -> V]
    BY <1>1, <2>2
  <2>4. s \in [1 .. n -> V]
    BY <1>7, <2>2, <2>3
  <2>5. s \in Seq(V)
    BY <2>4
  <2> QED
    BY <1>3, <1>7, <2>1, <2>3, <2>4, <2>5
<1>9. AddsUp(s, x + more)
  <2>1. s[1].amount = a[1].amount + more
    BY <1>2, <1>4, <1>6, <1>8
  <2> QED
    BY <1>1, <1>8, <2>1, FirstAdds
<1>10. s = [a EXCEPT ![1].amount = @ + more]
  BY <1>2, <1>4, <1>5, <1>7
<1> QED
  BY <1>8, <1>9, <1>10

LEMMA RangeTaken ==
  ASSUME NEW V, NEW ranked \in Seq(V), NEW from, NEW to
  PROVE  /\ inRange(ranked, from, to) \in Seq(V)
         /\ inRange(ranked, from, to) = <<>> <=> \A i \in DOMAIN ranked : ranked[i].rank \notin from .. to
<1>1. PICK I \in SUBSET DOMAIN ranked : I = {i \in DOMAIN ranked : ranked[i].rank \in from .. to}
  OBVIOUS
<1>2. PICK s : s = filtered(ranked, I)
  OBVIOUS
<1>3. /\ s \in Seq(V) /\ Len(s) = Cardinality(I) /\ Cardinality(I) \in Nat /\ IsFiniteSet(I)
  BY <1>2, FilteredIs
<1>4. s = <<>> <=> Cardinality(I) = 0
  BY <1>3
<1>5. Cardinality(I) = 0 <=> I = {}
  BY <1>3, FS_EmptySet
<1>6. s = inRange(ranked, from, to)
  BY <1>1, <1>2 DEF inRange
<1> QED
  BY <1>1, <1>3, <1>4, <1>5, <1>6

(* The tiers in their turn are the tiers that are given.                     *)
LEMMA TurnsTaken ==
  ASSUME NEW given \in Seq([from : Nat, to : Nat, share : Nat]), NEW tiers, tiers = inTurn(given)
  PROVE  /\ tiers \in Seq([from : Nat, to : Nat, share : Nat])
         /\ \A n \in DOMAIN tiers : \E i \in DOMAIN given : tiers[n] = given[i]
         /\ \A i \in DOMAIN given : \E n \in DOMAIN tiers : tiers[n] = given[i]
<1>1. PICK V : V = [from : Nat, to : Nat, share : Nat]
  OBVIOUS
<1>2. PICK k \in Nat : DOMAIN given = 1 .. k
  OBVIOUS
<1>3. PICK I : I = DOMAIN given
  OBVIOUS
<1>4. \A i \in I : given[i] \in V
  <2>1. given \in Seq(V)
    BY <1>1
  <2> QED
    BY <1>3, <2>1
<1>5. \A i \in I : given[i].from \in Nat /\ i \in Int
  BY <1>1, <1>2, <1>3, <1>4
<1>6. PICK R : R = {pair \in I \X I : given[pair[1]].from < given[pair[2]].from
                                      \/ (given[pair[1]].from = given[pair[2]].from /\ pair[1] < pair[2])}
  OBVIOUS
<1>7. \A i, j \in I : <<i, j>> \in R <=> \/ given[i].from < given[j].from
                                         \/ given[i].from = given[j].from /\ i < j
  BY <1>6
<1>8. Orders(R, I)
  <2>1. IsFiniteSet(I)
    BY <1>3, <1>1, DomainFinite
  <2>2. PICK f : f = [i \in I |-> given[i].from]
    OBVIOUS
  <2>3. \A i \in I : f[i] = given[i].from /\ f[i] \in Nat /\ i \in Int
    BY <1>5, <2>2
  <2>4. \A i, j \in I : <<i, j>> \in R <=> f[i] < f[j] \/ (f[i] = f[j] /\ i < j)
    BY <1>7, <2>3
  <2>5. \A i \in I : <<i, i>> \notin R
    BY <2>3, <2>4
  <2>6. ASSUME NEW i \in I, NEW j \in I, i # j PROVE <<i, j>> \in R \/ <<j, i>> \in R
    <3>1. f[i] \in Nat /\ f[j] \in Nat /\ i \in Int /\ j \in Int
      BY <2>3
    <3> QED
      BY <2>4, <2>6, <3>1
  <2>7. ASSUME NEW i \in I, NEW j \in I, NEW n \in I, <<i, j>> \in R, <<j, n>> \in R PROVE <<i, n>> \in R
    <3>1. f[i] \in Nat /\ f[j] \in Nat /\ f[n] \in Nat /\ i \in Int /\ j \in Int /\ n \in Int
      BY <2>3
    <3> QED
      BY <2>4, <2>7, <3>1
  <2> QED
    BY <2>1, <2>5, <2>6, <2>7 DEF Orders
<1>9. PICK at : at = inOrder(I, R)
  OBVIOUS
<1>10. Sorts(at, R, I)
  BY <1>8, <1>9, InOrderSorts
<1>11. tiers = [n \in DOMAIN at |-> given[at[n]]]
  BY <1>3, <1>6, <1>9 DEF inTurn
<1>12. DOMAIN tiers = DOMAIN at /\ \A n \in DOMAIN at : tiers[n] = given[at[n]] /\ at[n] \in I
  BY <1>10, <1>11 DEF Sorts
<1>13. tiers \in Seq(V)
  <2>1. PICK l \in Nat : DOMAIN at = 1 .. l
    BY <1>8, <1>10, FS_CardinalityType DEF Sorts, Orders
  <2>2. tiers \in [1 .. l -> V]
    BY <1>4, <1>11, <1>12, <2>1
  <2> QED
    BY <2>2
<1>14. \A i \in I : \E n \in DOMAIN tiers : tiers[n] = given[i]
  <2>1. ASSUME NEW i \in I PROVE \E n \in DOMAIN tiers : tiers[n] = given[i]
    <3>1. PICK n \in DOMAIN at : at[n] = i
      BY <1>10 DEF Sorts
    <3>2. n \in DOMAIN tiers /\ tiers[n] = given[i]
      BY <3>1, <1>12
    <3> QED
      BY <3>2
  <2> QED
    BY <2>1
<1> QED
  BY <1>1, <1>3, <1>12, <1>13, <1>14

(* Somebody holds a rank of the tier.                                        *)
Taken(ranked, tier) == \E i \in DOMAIN ranked : ranked[i].rank \in tier.from .. tier.to

(* Cut tier after tier, the awards are the whole pool, if a tier is taken.   *)
LEMMA TiersAdd ==
  ASSUME NEW U, NEW R, NEW ranked \in Seq([user : U, rank : R]),
         NEW given \in Seq([from : Nat, to : Nat, share : Nat]), NEW pool \in Nat,
         NEW s, s = byTiers(given, ranked, pool)
  PROVE  IF \E n \in DOMAIN given : Taken(ranked, given[n]) THEN s \in Seq(Award(U, R)) /\ AddsUp(s, pool)
         ELSE s = <<>>
<1> DEFINE tiers == inTurn(given)
           cut(tier) == (pool * tier.share) \div 100
           in(tier)  == inRange(ranked, tier.from, tier.to)
           give(acc, tier) ==
             IF in(tier) = <<>> THEN acc
             ELSE [awards |-> acc.awards \o splitAmong(in(tier), cut(tier)), given |-> acc.given + cut(tier)]
           none == [awards |-> <<>>, given |-> 0]
           Fits(h) == h = [n \in 0 .. Len(tiers) |-> IF n = 0 THEN none ELSE give(h[n - 1], tiers[n])]
           upTo == CHOOSE h : Fits(h)
           all == upTo[Len(tiers)]
<1>1. s = IF all.awards = <<>> THEN <<>> ELSE [all.awards EXCEPT ![1].amount = @ + (pool - all.given)]
  BY Zenon DEF byTiers
<1>t. /\ tiers \in Seq([from : Nat, to : Nat, share : Nat])
      /\ \A n \in DOMAIN tiers : \E i \in DOMAIN given : tiers[n] = given[i]
      /\ \A i \in DOMAIN given : \E n \in DOMAIN tiers : tiers[n] = given[i]
  <2>1. PICK turns : turns = inTurn(given)
    OBVIOUS
  <2> QED
    BY <2>1, TurnsTaken
<1> HIDE DEF tiers
<1>2. PICK L \in Nat : L = Len(tiers) /\ DOMAIN tiers = 1 .. L
  BY <1>t
<1>3. PICK G : G = GivenSoFar(U, R)
  OBVIOUS
<1>4. none \in G
  BY <1>3, NothingAdds
<1>5. ASSUME NEW i \in 1 .. L, NEW acc \in G
      PROVE  /\ give(acc, tiers[i]) \in G
             /\ give(acc, tiers[i]).awards = <<>> <=> acc.awards = <<>> /\ ~Taken(ranked, tiers[i])
  <2>1. PICK tier : tier = tiers[i]
    OBVIOUS
  <2>2. tier \in [from : Nat, to : Nat, share : Nat]
    <3>1. PICK V : V = [from : Nat, to : Nat, share : Nat]
      OBVIOUS
    <3>2. tiers \in Seq(V) /\ i \in DOMAIN tiers
      BY <1>2, <1>t, <3>1
    <3>3. tier \in V
      BY <2>1, <3>2
    <3> QED
      BY <3>1, <3>3
  <2>3. tier.share \in Nat
    BY <2>2
  <2>4. PICK c : c = cut(tier)
    OBVIOUS
  <2>5. c \in Nat
    <3>1. PICK p \in Nat : p = pool * tier.share
      BY <2>3
    <3>2. c = p \div 100
      BY <2>4, <3>1
    <3> QED
      BY <3>2
  <2>6. PICK entries : entries = in(tier)
    OBVIOUS
  <2>7. entries \in Seq([user : U, rank : R]) /\ (entries = <<>> <=> ~Taken(ranked, tier))
    <3>1. PICK V, from, to : V = [user : U, rank : R] /\ from = tier.from /\ to = tier.to
      OBVIOUS
    <3>2. ranked \in Seq(V)
      BY <3>1
    <3>3. PICK r : r = inRange(ranked, from, to)
      OBVIOUS
    <3>4. r \in Seq(V) /\ (r = <<>> <=> \A n \in DOMAIN ranked : ranked[n].rank \notin from .. to)
      BY <3>2, <3>3, RangeTaken
    <3>5. entries = r
      BY <2>6, <3>1, <3>3
    <3> QED
      BY <3>1, <3>4, <3>5 DEF Taken
  <2>8. CASE entries = <<>>
    <3>1. give(acc, tiers[i]) = acc
      BY <2>1, <2>6, <2>8
    <3> QED
      BY <2>1, <2>7, <2>8, <3>1
  <2>9. CASE entries # <<>>
    <3>1. PICK a, part : a = acc.awards /\ part = splitAmong(entries, c)
      OBVIOUS
    <3>2. PICK sum : sum = [awards |-> a \o part, given |-> acc.given + c]
      OBVIOUS
    <3>3. sum \in G
      BY <1>3, <2>5, <2>7, <2>9, <3>1, <3>2, TierAdds
    <3>4. give(acc, tiers[i]) = sum
      BY <2>1, <2>4, <2>6, <2>9, <3>1, <3>2
    <3>5. sum.awards # <<>>
      <4>1. PICK m \in Nat \ {0} : DOMAIN part = 1 .. m
        <5>1. DOMAIN part = DOMAIN entries
          BY <3>1 DEF splitAmong
        <5> QED
          BY <2>7, <2>9, <5>1
      <4>2. PICK l \in Nat : l = Len(a)
        <5>1. acc.awards \in Seq(Award(U, R))
          BY <1>3 DEF GivenSoFar
        <5> QED
          BY <3>1, <5>1
      <4>3. Len(part) = m
        <5>1. PICK V : V = Award(U, R)
          OBVIOUS
        <5>2. part \in Seq(V)
          BY <2>5, <2>7, <2>9, <3>1, <5>1, SplitAdds
        <5> QED
          BY <4>1, <5>2
      <4>4. DOMAIN (a \o part) = 1 .. (l + m)
        BY <4>2, <4>3
      <4> QED
        BY <3>2, <4>4
    <3>6. Taken(ranked, tiers[i])
      BY <2>1, <2>7, <2>9
    <3> QED
      BY <3>3, <3>4, <3>5, <3>6
  <2> QED
    BY <2>8, <2>9
<1>6. PICK base : base = none
  OBVIOUS
<1>7. PICK step : step = [x \in Nat \X G |-> IF x[1] + 1 \in 1 .. L THEN give(x[2], tiers[x[1] + 1]) ELSE x[2]]
  OBVIOUS
<1> HIDE DEF give, none
<1>8. step \in [Nat \X G -> G]
  <2>1. ASSUME NEW x \in Nat \X G
        PROVE  (IF x[1] + 1 \in 1 .. L THEN give(x[2], tiers[x[1] + 1]) ELSE x[2]) \in G
    <3>1. x[1] \in Nat /\ x[2] \in G
      OBVIOUS
    <3> QED
      BY <1>5, <3>1
  <2> QED
    BY <1>7, <2>1
<1>9. PICK g : RunsFrom(g, G, base, step)
  <2>1. base \in G
    BY <1>4, <1>6
  <2> QED
    BY <1>8, <2>1, NatSteps
<1>10. PICK h : h = [n \in 0 .. L |-> g[n]]
  OBVIOUS
<1>11. Fits(h)
  <2>1. ASSUME NEW n \in 0 .. L PROVE h[n] = IF n = 0 THEN none ELSE give(h[n - 1], tiers[n])
    <3>1. CASE n = 0
      BY <1>6, <1>9, <1>10, <3>1 DEF RunsFrom
    <3>2. CASE n # 0
      <4>1. PICK m \in Nat : n = m + 1 /\ m = n - 1 /\ m \in 0 .. L /\ m + 1 \in 1 .. L
        <5>1. n - 1 \in Nat /\ n = (n - 1) + 1 /\ n - 1 \in 0 .. L /\ (n - 1) + 1 \in 1 .. L
          BY <3>2
        <5> QED
          BY <5>1
      <4>2. h[n] = step[<<m, g[m]>>] /\ h[m] = g[m] /\ g[m] \in G
        BY <1>9, <1>10, <4>1 DEF RunsFrom
      <4>3. step[<<m, g[m]>>] = give(g[m], tiers[m + 1])
        BY <1>7, <4>1, <4>2
      <4> QED
        BY <3>2, <4>1, <4>2, <4>3
    <3> QED
      BY <3>1, <3>2
  <2>2. PICK k : k = [n \in 0 .. L |-> IF n = 0 THEN none ELSE give(h[n - 1], tiers[n])]
    OBVIOUS
  <2>3. h = k
    BY <1>10, <2>1, <2>2
  <2> QED
    BY <1>2, <2>2, <2>3
<1>12. Fits(upTo)
  BY <1>11, Zenon
<1> HIDE DEF upTo
<1>13. PICK k : k = upTo
  OBVIOUS
<1>14. k = [n \in 0 .. L |-> IF n = 0 THEN none ELSE give(k[n - 1], tiers[n])]
  BY <1>2, <1>12, <1>13
<1>15. \A n \in 0 .. L : k[n] \in G
  <2> DEFINE Bad == {n \in Nat : n <= L /\ k[n] \notin G}
  <2> SUFFICES ASSUME Bad # {} PROVE FALSE
    <3>1. \A n \in 0 .. L : n \in Nat /\ n <= L
      OBVIOUS
    <3> QED
      BY <3>1
  <2>1. PICK m \in Bad : \A n \in Bad : m <= n
    <3>1. Bad \in SUBSET Nat
      OBVIOUS
    <3> HIDE DEF Bad
    <3> QED
      BY <3>1, LeastNat
  <2>2. m # 0
    BY <1>4, <1>14, <2>1
  <2>3. PICK l \in Nat : m = l + 1 /\ l = m - 1
    <3>1. m \in Nat /\ m - 1 \in Nat /\ m = (m - 1) + 1
      BY <2>1, <2>2
    <3> QED
      BY <3>1
  <2>4. k[l] \in G
    BY <2>1, <2>3
  <2>5. k[m] = give(k[l], tiers[m]) /\ m \in 1 .. L
    BY <1>14, <2>1, <2>2, <2>3
  <2> QED
    BY <1>5, <2>1, <2>4, <2>5
<1>16. PICK acc : acc = k[L]
  OBVIOUS
<1>17. acc \in G /\ acc = all
  BY <1>2, <1>13, <1>15, <1>16
<1>18. \A n \in 0 .. L : k[n].awards = <<>> <=> \A i \in 1 .. n : ~Taken(ranked, tiers[i])
  <2> DEFINE Empty(n) == k[n].awards = <<>>
             Untaken(n) == \A i \in 1 .. n : ~Taken(ranked, tiers[i])
             Bad == {n \in Nat : n <= L /\ ~(Empty(n) <=> Untaken(n))}
  <2> SUFFICES ASSUME Bad # {} PROVE FALSE
    <3>1. \A n \in 0 .. L : n \in Nat /\ n <= L
      OBVIOUS
    <3> QED
      BY <3>1
  <2>1. PICK m \in Bad : \A n \in Bad : m <= n
    <3>1. Bad \in SUBSET Nat
      OBVIOUS
    <3> HIDE DEF Bad
    <3> QED
      BY <3>1, LeastNat
  <2>2. m # 0
    <3>1. k[0].awards = <<>>
      BY <1>14 DEF none
    <3>2. Untaken(0)
      OBVIOUS
    <3> QED
      BY <2>1, <3>1, <3>2
  <2>3. PICK l \in Nat : m = l + 1 /\ l = m - 1
    <3>1. m \in Nat /\ m - 1 \in Nat /\ m = (m - 1) + 1
      BY <2>1, <2>2
    <3> QED
      BY <3>1
  <2>4. Empty(l) <=> Untaken(l)
    <3>1. l <= L /\ ~(m <= l)
      BY <2>1, <2>3
    <3>2. l \notin Bad
      <4> HIDE DEF Bad
      <4> QED
        BY <2>1, <3>1
    <3> HIDE DEF Empty, Untaken
    <3> QED
      BY <3>1, <3>2
  <2>5. k[m] = give(k[l], tiers[m]) /\ m \in 1 .. L /\ k[l] \in G
    BY <1>14, <1>15, <2>1, <2>2, <2>3
  <2>6. Empty(m) <=> Empty(l) /\ ~Taken(ranked, tiers[m])
    BY <1>5, <2>5
  <2>7. Untaken(m) <=> Untaken(l) /\ ~Taken(ranked, tiers[m])
    <3>1. \A i \in 1 .. m : i \in 1 .. l \/ i = m
      BY <2>3
    <3>2. \A i \in 1 .. l : i \in 1 .. m
      BY <2>3
    <3>3. m \in 1 .. m
      BY <2>3
    <3> QED
      BY <3>1, <3>2, <3>3, Zenon
  <2> QED
    BY <2>1, <2>4, <2>6, <2>7
<1>19. acc.awards # <<>> <=> \E n \in DOMAIN given : Taken(ranked, given[n])
  <2>1. acc.awards = <<>> <=> \A i \in 1 .. L : ~Taken(ranked, tiers[i])
    <3>1. L \in 0 .. L
      BY <1>2
    <3>2. k[L].awards = <<>> <=> \A i \in 1 .. L : ~Taken(ranked, tiers[i])
      BY <3>1, <1>18, ZenonT(60)
    <3> QED
      BY <3>2, <1>16, Zenon
  <2> QED
    BY <1>2, <1>t, <2>1
<1>20. acc.awards \in Seq(Award(U, R)) /\ acc.given \in Int /\ AddsUp(acc.awards, acc.given)
  BY <1>3, <1>17 DEF GivenSoFar
<1>21. PICK a, x : a = acc.awards /\ x = acc.given
  OBVIOUS
<1>22. a = <<>> => s = <<>>
  BY <1>1, <1>17, <1>21
<1>23. ASSUME a # <<>> PROVE s \in Seq(Award(U, R)) /\ AddsUp(s, pool)
  <2>1. s = [a EXCEPT ![1].amount = @ + (pool - x)]
    BY <1>1, <1>17, <1>21, <1>23
  <2>2. a \in Seq(Award(U, R)) /\ x \in Int /\ AddsUp(a, x)
    BY <1>20, <1>21
  <2>3. PICK more \in Int : more = pool - x
    BY <2>2
  <2>4. PICK r \in Seq(Award(U, R)) : r = [a EXCEPT ![1].amount = @ + more] /\ AddsUp(r, x + more)
    BY <1>23, <2>2, RestToFirst
  <2>5. r = s
    BY <2>1, <2>3, <2>4
  <2>6. x + more = pool
    BY <2>2, <2>3
  <2> QED
    BY <2>4, <2>5, <2>6
<1> QED
  BY <1>19, <1>21, <1>22, <1>23

(* The prizes of a row: what is paid in, and whether it has been paid out.   *)
Funded(t) ==
  /\ t.fee \in Nat
  /\ \E s \in Setups : t.prize = s.prize
  /\ t.awards # <<>> => t.status = "completed"

PrizeTyped(prize) ==
  /\ prize.guaranteed \in Nat /\ prize.contribution \in Nat
  /\ prize.tiers \in Seq([from : Nat, to : Nat, share : Nat])

LEMMA FundedPrize == ASSUME NEW t, Funded(t) PROVE PrizeTyped(t.prize)
<1>1. PICK s \in Setups : t.prize = s.prize
  BY DEF Funded
<1> QED
  BY <1>1, SetupsAssumption DEF PrizeTyped

LEMMA PoolTyped == ASSUME NEW t, TypedRow(t), Funded(t) PROVE computePool(t) \in Nat
<1>1. PICK n : n = Cardinality(inRanking(t))
  OBVIOUS
<1>2. n \in Nat
  <2>1. IsFiniteSet(DOMAIN t.players)
    BY DomainFinite DEF TypedRow
  <2>2. IsFiniteSet(inRanking(t))
    <3>1. inRanking(t) \subseteq DOMAIN t.players
      BY DEF inRanking
    <3> QED
      BY <2>1, <3>1, FS_Subset
  <2> QED
    BY <1>1, <2>2, FS_CardinalityType
<1>3. PICK fee, guaranteed, contribution :
        fee = t.fee /\ guaranteed = t.prize.guaranteed /\ contribution = t.prize.contribution
  OBVIOUS
<1>4. fee \in Nat /\ guaranteed \in Nat /\ contribution \in Nat
  BY <1>3, FundedPrize DEF PrizeTyped, Funded
<1>5. PICK p \in Nat : p = fee * n * contribution
  <2>1. PICK q \in Nat : q = fee * n
    BY <1>2, <1>4
  <2>2. q * contribution \in Nat
    BY <1>4, <2>1
  <2> QED
    BY <2>1, <2>2
<1>6. computePool(t) = guaranteed + (p \div 100)
  BY <1>1, <1>3, <1>5 DEF computePool
<1>7. p \div 100 \in Nat
  BY <1>5
<1> QED
  BY <1>4, <1>6, <1>7

LEMMA RankedTyped ==
  ASSUME NEW t, TypedRow(t) PROVE \E U, R : standings(t) \in Seq([user : U, rank : R])
<1>1. PICK ranked : ranked = standings(t)
  OBVIOUS
<1>2. IsFiniteSet(inRanking(t))
  <2>1. IsFiniteSet(DOMAIN t.players)
    BY DomainFinite DEF TypedRow
  <2>2. inRanking(t) \subseteq DOMAIN t.players
    BY DEF inRanking
  <2> QED
    BY <2>1, <2>2, FS_Subset
<1>3. PICK n \in Nat : n = Cardinality(inRanking(t))
  BY <1>2, FS_CardinalityType
<1>4. PICK u, r : ranked = [i \in 1 .. n |-> [user |-> u[i], rank |-> r[i]]]
  <2> DEFINE m(i) == merit(t, t.players[i])
             s(i) == seedOf(t, t.players[i])
             before(i, j) == \/ m(i) > m(j)
                             \/ m(i) = m(j) /\ s(i) < s(j)
                             \/ m(i) = m(j) /\ s(i) = s(j) /\ i < j
             R == {pair \in inRanking(t) \X inRanking(t) : before(pair[1], pair[2])}
             by == inOrder(inRanking(t), R)
             rankOf(i) == 1 + Cardinality({j \in inRanking(t) : m(j) > m(i)})
  <2>1. ranked = [i \in DOMAIN by |-> [user |-> t.players[by[i]].user, rank |-> rankOf(by[i])]]
    BY <1>1, Zenon DEF standings
  <2>2. DOMAIN by = 1 .. n
    <3>1. PICK Q, I : Q = R /\ I = inRanking(t)
      OBVIOUS
    <3>2. DOMAIN inOrder(I, Q) = 1 .. Cardinality(I)
      BY DEF inOrder
    <3> QED
      BY <1>3, <3>1, <3>2
  <2> HIDE DEF by, rankOf
  <2>3. PICK u, r : u = [i \in 1 .. n |-> t.players[by[i]].user] /\ r = [i \in 1 .. n |-> rankOf(by[i])]
    OBVIOUS
  <2>4. ranked = [i \in 1 .. n |-> [user |-> u[i], rank |-> r[i]]]
    BY <2>1, <2>2, <2>3
  <2> QED
    BY <2>4
<1>5. PICK U, R : U = {u[i] : i \in 1 .. n} /\ R = {r[i] : i \in 1 .. n}
  OBVIOUS
<1>6. ranked \in Seq([user : U, rank : R])
  <2>1. PICK V : V = [user : U, rank : R]
    OBVIOUS
  <2>2. \A i \in 1 .. n : [user |-> u[i], rank |-> r[i]] \in V
    BY <1>5, <2>1
  <2>3. ranked \in [1 .. n -> V]
    BY <1>4, <2>2
  <2>4. ranked \in Seq(V)
    BY <2>3
  <2> QED
    BY <2>1, <2>4
<1> QED
  BY <1>1, <1>6

(* Rounds are numbered, up to some last one.                                 *)
HasRounds(b) == \E n \in Nat : \A m \in DOMAIN b : m[2] \in 0 .. n

(* The greatest of some numbers is one of them.                              *)
LEMMA MaxOf ==
  ASSUME NEW n \in Nat, NEW S \in SUBSET (0 .. n), S # {}
  PROVE  Max(S) \in S
<1>1. PICK x \in S : \A y \in S : y <= x
  <2> DEFINE Under == {k \in Nat : n - k \in S}
  <2>1. Under \in SUBSET Nat /\ Under # {}
    <3>1. PICK y \in S : TRUE
      OBVIOUS
    <3>2. n - y \in Nat /\ n - (n - y) = y
      OBVIOUS
    <3> QED
      BY <3>1, <3>2
  <2>2. PICK k \in Under : \A l \in Under : k <= l
    <3> HIDE DEF Under
    <3> QED
      BY <2>1, LeastNat
  <2>3. ASSUME NEW y \in S PROVE y <= n - k
    <3>1. y \in Int /\ n - y \in Nat /\ n - (n - y) = y
      OBVIOUS
    <3>2. n - y \in Under
      BY <3>1
    <3>3. k <= n - y
      BY <2>2, <3>2
    <3> QED
      BY <2>2, <3>1, <3>3
  <2> QED
    BY <2>2, <2>3
<1>2. \E z \in S : \A y \in S : z >= y
  BY <1>1
<1> QED
  BY <1>2 DEF Max

(* Whether by rounds or by points, a merit is a number.                      *)
LEMMA MeritIs ==
  ASSUME NEW t, TypedRow(t), t.format \in Elimination => HasRounds(t.bracket), NEW i \in DOMAIN t.players
  PROVE  /\ merit(t, t.players[i]) \in Nat /\ seedOf(t, t.players[i]) \in Nat
         /\ i \in Int
<1>1. PICK p \in Player : p = t.players[i]
  BY DEF TypedRow
<1>2. ASSUME t.format \in Elimination PROVE merit(t, p) \in Nat
  <2>1. PICK n \in Nat : \A m \in DOMAIN t.bracket : m[2] \in 0 .. n
    BY <1>2 DEF HasRounds
  <2>2. PICK lost : lost = {m \in DOMAIN t.bracket : /\ t.bracket[m].state = "completed"
                                                     /\ t.bracket[m].loser = p.user
                                                     /\ t.bracket[m].loserTo = Nowhere}
    OBVIOUS
  <2>3. merit(t, p) = roundOut(t, p.user)
    BY <1>2 DEF merit
  <2>4. roundOut(t, p.user) = IF lost = {} THEN Never ELSE Max({m[2] : m \in lost})
    BY <2>2, Zenon DEF roundOut
  <2>5. PICK S : S = {m[2] : m \in lost}
    OBVIOUS
  <2>6. S \in SUBSET (0 .. n) /\ (lost # {} => S # {})
    BY <2>1, <2>2, <2>5
  <2>7. lost # {} => Max(S) \in 0 .. n
    BY <2>6, MaxOf
  <2>8. Never \in Nat
    BY DEF Never
  <2>9. PICK latest : latest = Max(S)
    OBVIOUS
  <2>10. merit(t, p) = IF lost = {} THEN Never ELSE latest
    BY <2>3, <2>4, <2>5, <2>9
  <2>11. lost # {} => latest \in Nat
    BY <2>7, <2>9
  <2> QED
    BY <2>8, <2>10, <2>11
<1>3. ASSUME t.format \notin Elimination PROVE merit(t, p) \in Nat
  <2>1. merit(t, p) = p.score
    BY <1>3 DEF merit
  <2>2. p.score \in Nat
    BY DEF Player
  <2> QED
    BY <2>1, <2>2
<1>4. merit(t, t.players[i]) \in Nat
  BY <1>1, <1>2, <1>3, Zenon
<1>5. seedOf(t, t.players[i]) \in Nat
  BY <1>1 DEF seedOf, Player, Never
<1>6. i \in Int
  <2>1. PICK n \in Nat : DOMAIN t.players = 1 .. n
    BY DEF TypedRow
  <2> QED
    BY <2>1
<1> QED
  BY <1>4, <1>5, <1>6

(* By merit, then by seed, then as they came.                                *)
LEMMA ByMerit ==
  ASSUME NEW S, IsFiniteSet(S), NEW a, NEW z, \A i \in S : a[i] \in Nat /\ z[i] \in Nat /\ i \in Int,
         NEW R, \A i, j \in S : <<i, j>> \in R <=> \/ a[i] > a[j]
                                                   \/ a[i] = a[j] /\ z[i] < z[j]
                                                   \/ a[i] = a[j] /\ z[i] = z[j] /\ i < j
  PROVE  Orders(R, S)
<1>1. \A i \in S : <<i, i>> \notin R
  OBVIOUS
<1>2. ASSUME NEW i \in S, NEW j \in S, i # j PROVE <<i, j>> \in R \/ <<j, i>> \in R
  <2>1. a[i] \in Nat /\ a[j] \in Nat /\ z[i] \in Nat /\ z[j] \in Nat /\ i \in Int /\ j \in Int
    OBVIOUS
  <2> QED
    BY <1>2, <2>1
<1>3. ASSUME NEW i \in S, NEW j \in S, NEW k \in S, <<i, j>> \in R, <<j, k>> \in R PROVE <<i, k>> \in R
  <2>1. a[i] \in Nat /\ a[j] \in Nat /\ a[k] \in Nat /\ z[i] \in Nat /\ z[j] \in Nat /\ z[k] \in Nat
        /\ i \in Int /\ j \in Int /\ k \in Int
    OBVIOUS
  <2> QED
    BY <1>3, <2>1
<1> QED
  BY <1>1, <1>2, <1>3 DEF Orders

(* Somebody comes first, if anybody is left, and has the first rank.         *)
LEMMA FirstRanked ==
  ASSUME NEW t, TypedRow(t), t.format \in Elimination => HasRounds(t.bracket), NEW ranked, ranked = standings(t)
  PROVE  /\ inRanking(t) = {} => ranked = <<>>
         /\ inRanking(t) # {} => 1 \in DOMAIN ranked /\ ranked[1].rank = 1
<1>1. PICK I : I = inRanking(t)
  OBVIOUS
<1>2. IsFiniteSet(I) /\ I \subseteq DOMAIN t.players
  <2>1. IsFiniteSet(DOMAIN t.players)
    BY DomainFinite DEF TypedRow
  <2>2. I \subseteq DOMAIN t.players
    BY <1>1 DEF inRanking
  <2> QED
    BY <2>1, <2>2, FS_Subset
<1> DEFINE m(i) == merit(t, t.players[i])
           s(i) == seedOf(t, t.players[i])
           before(i, j) == \/ m(i) > m(j)
                           \/ m(i) = m(j) /\ s(i) < s(j)
                           \/ m(i) = m(j) /\ s(i) = s(j) /\ i < j
           byRank == inOrder(I, {pair \in I \X I : before(pair[1], pair[2])})
           rankOf(i) == 1 + Cardinality({j \in I : m(j) > m(i)})
<1>3. ranked = [n \in DOMAIN byRank |-> [user |-> t.players[byRank[n]].user, rank |-> rankOf(byRank[n])]]
  BY <1>1, Zenon DEF standings
<1>4. PICK a, z : a = [i \in I |-> m(i)] /\ z = [i \in I |-> s(i)]
  OBVIOUS
<1>5. \A i \in I : a[i] = m(i) /\ z[i] = s(i) /\ a[i] \in Nat /\ z[i] \in Nat /\ i \in Int
  BY <1>2, <1>4, MeritIs
<1>6. PICK R : R = {pair \in I \X I : before(pair[1], pair[2])}
  OBVIOUS
<1>7. \A i, j \in I : <<i, j>> \in R <=> \/ a[i] > a[j]
                                         \/ a[i] = a[j] /\ z[i] < z[j]
                                         \/ a[i] = a[j] /\ z[i] = z[j] /\ i < j
  BY <1>5, <1>6
<1>8. Orders(R, I)
  BY <1>2, <1>5, <1>7, ByMerit
<1>9. PICK at : at = inOrder(I, R)
  OBVIOUS
<1>10. Sorts(at, R, I)
  BY <1>8, <1>9, InOrderSorts
<1>11. PICK r : r = [i \in I |-> rankOf(i)]
  OBVIOUS
<1>12. \A i \in I : r[i] = 1 + Cardinality({j \in I : a[j] > a[i]})
  <2> SUFFICES ASSUME NEW i \in I PROVE r[i] = 1 + Cardinality({j \in I : a[j] > a[i]})
    OBVIOUS
  <2>1. {j \in I : a[j] > a[i]} = {j \in I : m(j) > m(i)}
    BY <1>5
  <2> QED
    BY <1>11, <2>1
<1>13. ranked = [n \in DOMAIN at |-> [user |-> t.players[at[n]].user, rank |-> rankOf(at[n])]]
  BY <1>3, <1>6, <1>9
<1> HIDE DEF m, s, rankOf
<1>14. DOMAIN ranked = DOMAIN at /\ \A n \in DOMAIN at : at[n] \in I /\ ranked[n].rank = r[at[n]]
  BY <1>10, <1>11, <1>13 DEF Sorts
<1>15. PICK k \in Nat : k = Cardinality(I) /\ DOMAIN at = 1 .. k
  BY <1>2, <1>10, FS_CardinalityType DEF Sorts
<1>16. ASSUME I = {} PROVE ranked = <<>>
  <2>1. k = 0
    BY <1>15, <1>16, FS_EmptySet
  <2>2. at = <<>>
    BY <1>10, <1>15, <2>1 DEF Sorts
  <2> QED
    BY <1>13, <2>2
<1>17. ASSUME I # {} PROVE 1 \in DOMAIN ranked /\ ranked[1].rank = 1
  <2>1. PICK x \in I : TRUE
    BY <1>17
  <2>2. PICK e \in DOMAIN at : at[e] = x
    BY <1>10 DEF Sorts
  <2>3. 1 \in DOMAIN at /\ \A n \in DOMAIN at : n = 1 \/ 1 < n
    BY <1>15
  <2>4. PICK first \in I : first = at[1]
    BY <1>14, <2>3
  <2>5. ASSUME NEW j \in I PROVE ~(a[j] > a[first])
    <3>1. PICK n \in DOMAIN at : at[n] = j
      BY <1>10 DEF Sorts
    <3>2. CASE n = 1
      BY <1>5, <2>4, <3>1, <3>2
    <3>3. CASE 1 < n
      <4>1. <<first, j>> \in R
        BY <1>10, <2>3, <2>4, <3>1, <3>3 DEF Sorts
      <4>2. a[j] \in Nat /\ a[first] \in Nat
        BY <1>5
      <4> QED
        BY <1>7, <4>1, <4>2
    <3> QED
      BY <2>3, <3>2, <3>3
  <2>6. {j \in I : a[j] > a[first]} = {}
    BY <2>5
  <2>7. r[first] = 1
    BY <1>12, <2>6, FS_EmptySet
  <2> QED
    BY <1>14, <2>3, <2>4, <2>7
<1> QED
  BY <1>1, <1>16, <1>17

LEMMA TopTaken ==
  ASSUME NEW V, NEW ranked \in Seq(V), ranked # <<>>, NEW tiers \in Seq([from : Nat, to : Nat, share : Nat])
  PROVE  /\ top(tiers, ranked) \in Seq(V)
         /\ top(tiers, ranked) = <<>> <=> ~(tiers = <<>> \/ tiers[1].to > 0)
<1>1. CASE tiers = <<>>
  BY <1>1 DEF top
<1>2. CASE tiers # <<>>
  <2>1. PICK to \in Nat : to = tiers[1].to
    <3>1. PICK W : W = [from : Nat, to : Nat, share : Nat]
      OBVIOUS
    <3>2. tiers \in Seq(W) /\ 1 \in DOMAIN tiers
      BY <1>2, <3>1
    <3>3. tiers[1] \in W
      BY <3>2
    <3> QED
      BY <3>1, <3>3
  <2>2. PICK n \in Nat : n = Len(ranked) /\ n # 0
    OBVIOUS
  <2>3. PICK k : k = Min({n, to})
    OBVIOUS
  <2>4. k \in 0 .. n /\ (k = 0 <=> to = 0)
    <3>1. PICK S : S = {n, to}
      OBVIOUS
    <3>2. \E x \in S : \A y \in S : x <= y
      BY <3>1
    <3>3. k = CHOOSE x \in S : \A y \in S : x <= y
      BY <2>3, <3>1 DEF Min
    <3>4. k \in S /\ \A y \in S : k <= y
      BY <3>2, <3>3
    <3> QED
      BY <2>2, <3>1, <3>4
  <2>5. SubSeq(ranked, 1, k) \in Seq(V) /\ Len(SubSeq(ranked, 1, k)) = k
    BY <2>2, <2>4, SubSeqProperties
  <2>6. SubSeq(ranked, 1, k) = <<>> <=> k = 0
    BY <2>5
  <2>7. top(tiers, ranked) = SubSeq(ranked, 1, k)
    BY <1>2, <2>1, <2>2, <2>3 DEF top
  <2>8. top(tiers, ranked) \in Seq(V)
    BY <2>5, <2>7
  <2>9. top(tiers, ranked) = <<>> <=> to = 0
    BY <2>4, <2>6, <2>7, Zenon
  <2>10. to = 0 <=> ~(tiers[1].to > 0)
    BY <2>1
  <2> QED
    BY <1>2, <2>8, <2>9, <2>10, Zenon
<1> QED
  BY <1>1, <1>2

LEMMA SplitOfNothing == ASSUME NEW entries, entries = <<>>, NEW total PROVE splitAmong(entries, total) = <<>>
  BY DEF splitAmong

(* Awards go out whole, and only if somebody takes them.                     *)
LEMMA PrizesAdd ==
  ASSUME NEW t, TypedRow(t), Funded(t), t.prize.type # "fixed",
         t.format \in Elimination => HasRounds(t.bracket),
         NEW s, s = distributePrizes(t)
  PROVE  IF hasTakers(t) THEN \E U, R : s \in Seq(Award(U, R)) /\ AddsUp(s, computePool(t)) ELSE s = <<>>
<1>1. PICK pool \in Nat : pool = computePool(t)
  BY PoolTyped
<1>2. PICK U, R : standings(t) \in Seq([user : U, rank : R])
  BY RankedTyped
<1>3. PICK ranked : ranked = standings(t)
  OBVIOUS
<1>4. PICK tiers : tiers = t.prize.tiers /\ tiers \in Seq([from : Nat, to : Nat, share : Nat])
  BY FundedPrize DEF PrizeTyped
<1>5. ranked \in Seq([user : U, rank : R])
  BY <1>2, <1>3
<1>6. PICK one, upper : one = inRange(ranked, 1, 1) /\ upper = top(tiers, ranked)
  OBVIOUS
<1>7. PICK type, tiered : type = t.prize.type /\ tiered = byTiers(tiers, ranked, pool)
  OBVIOUS
<1>8. PICK first, even, fixed : first = splitAmong(one, pool) /\ even = splitAmong(upper, pool)
                                /\ fixed = fixedPrizes(tiers, ranked)
  OBVIOUS
<1>9. s = IF ranked = <<>> THEN <<>>
          ELSE CASE type = "winner-take-all" -> first
                 [] type = "even-split" -> even
                 [] type = "fixed" -> fixed
                 [] OTHER -> tiered
  BY <1>1, <1>3, <1>4, <1>6, <1>7, <1>8, Zenon DEF distributePrizes
<1>10. PICK tieredTakes \in BOOLEAN : tieredTakes = \E n \in DOMAIN tiers : Taken(ranked, tiers[n])
  OBVIOUS
<1>11. hasTakers(t) <=> /\ inRanking(t) # {}
                        /\ CASE type = "winner-take-all" -> TRUE
                             [] type = "even-split" -> tiers = <<>> \/ tiers[1].to > 0
                             [] OTHER -> tieredTakes
  <2>1. PICK ranks : ranks = {standings(t)[i].rank : i \in DOMAIN standings(t)}
    OBVIOUS
  <2>2. PICK anyTier \in BOOLEAN : anyTier = \E n \in DOMAIN tiers : \E rank \in ranks : rank \in tiers[n].from .. tiers[n].to
    OBVIOUS
  <2>3. hasTakers(t) <=> /\ inRanking(t) # {}
                         /\ CASE type = "winner-take-all" -> TRUE
                              [] type = "even-split" -> tiers = <<>> \/ tiers[1].to > 0
                              [] OTHER -> anyTier
    BY <1>4, <1>7, <2>1, <2>2, Zenon DEF hasTakers
  <2>4. \A n \in DOMAIN tiers : Taken(ranked, tiers[n]) <=> \E rank \in ranks : rank \in tiers[n].from .. tiers[n].to
    BY <1>3, <2>1 DEF Taken
  <2>5. anyTier = tieredTakes
    BY <1>10, <2>2, <2>4
  <2> QED
    BY <2>3, <2>5
<1>12. /\ inRanking(t) = {} => ranked = <<>>
       /\ inRanking(t) # {} => 1 \in DOMAIN ranked /\ ranked[1].rank = 1
  BY <1>3, FirstRanked
<1>13. ASSUME NEW entries \in Seq([user : U, rank : R]), entries # <<>>, NEW r, r = splitAmong(entries, pool)
       PROVE  r \in Seq(Award(U, R)) /\ AddsUp(r, pool)
  BY <1>13, SplitAdds
<1>14. CASE ranked = <<>>
  <2>1. s = <<>>
    BY <1>9, <1>14
  <2>2. inRanking(t) = {}
    BY <1>12, <1>14
  <2> QED
    BY <1>11, <2>1, <2>2
<1>15. CASE ranked # <<>>
  <2>1. inRanking(t) # {}
    BY <1>12, <1>15
  <2>2. CASE type = "winner-take-all"
    <3>1. s = first /\ hasTakers(t)
      BY <1>9, <1>11, <1>15, <2>1, <2>2
    <3>2. one \in Seq([user : U, rank : R]) /\ one # <<>>
      <4>1. PICK V : V = [user : U, rank : R]
        OBVIOUS
      <4>2. ranked \in Seq(V)
        BY <1>5, <4>1
      <4>3. one \in Seq(V) /\ (one = <<>> <=> \A i \in DOMAIN ranked : ranked[i].rank \notin 1 .. 1)
        BY <1>6, <4>2, RangeTaken
      <4>4. 1 \in DOMAIN ranked /\ ranked[1].rank \in 1 .. 1
        BY <1>12, <2>1
      <4> QED
        BY <4>1, <4>3, <4>4
    <3>3. first \in Seq(Award(U, R)) /\ AddsUp(first, pool)
      BY <1>8, <1>13, <3>2
    <3> QED
      BY <1>1, <3>1, <3>3
  <2>3. CASE type = "even-split"
    <3>1. s = even /\ (hasTakers(t) <=> tiers = <<>> \/ tiers[1].to > 0)
      BY <1>9, <1>11, <1>15, <2>1, <2>3
    <3>2. upper \in Seq([user : U, rank : R]) /\ (upper = <<>> <=> ~hasTakers(t))
      <4>1. PICK V : V = [user : U, rank : R]
        OBVIOUS
      <4>2. ranked \in Seq(V)
        BY <1>5, <4>1
      <4>3. upper \in Seq(V) /\ (upper = <<>> <=> ~(tiers = <<>> \/ tiers[1].to > 0))
        BY <1>4, <1>6, <1>15, <4>2, TopTaken
      <4> QED
        BY <3>1, <4>1, <4>3
    <3>3. CASE upper = <<>>
      <4>1. even = <<>>
        BY <1>8, <3>3, SplitOfNothing
      <4> QED
        BY <3>1, <3>2, <3>3, <4>1
    <3>4. CASE upper # <<>>
      <4>1. even \in Seq(Award(U, R)) /\ AddsUp(even, pool)
        BY <1>8, <1>13, <3>2, <3>4
      <4> QED
        BY <1>1, <3>1, <3>2, <3>4, <4>1
    <3> QED
      BY <3>3, <3>4
  <2>4. CASE type # "winner-take-all" /\ type # "even-split"
    <3>1. s = tiered /\ (hasTakers(t) <=> tieredTakes)
      BY <1>7, <1>9, <1>11, <1>15, <2>1, <2>4
    <3>2. IF tieredTakes THEN tiered \in Seq(Award(U, R)) /\ AddsUp(tiered, pool) ELSE tiered = <<>>
      BY <1>4, <1>5, <1>7, <1>10, TiersAdd
    <3> QED
      BY <1>1, <3>1, <3>2
  <2> QED
    BY <2>2, <2>3, <2>4
<1> QED
  BY <1>14, <1>15
-----------------------------------------------------------------------------
(* A call is about a row that accepts it; a cancellation asks once more.     *)
Held(step, what, t) ==
  /\ what.op # "cancel" => Accepts(t, what)
  /\ what.op = "cancel" /\ step = "save" => canTransition(t, "cancelled")
  /\ what.op = "update" => what.fee \in Fees
  /\ what.op \in TournamentOps

HeldInv == TypesInv /\ \A c \in TCalls : tpc[c] = "idle" \/ Held(tpc[c], tcall[c], tseen[c])

(* Where rows come from: from the calls about to save, and from the row.     *)
RowsMoved(c) ==
  /\ \/ row' = row
     \/ /\ tpc[c] = "save" /\ ~Refused(tseen[c], tcall[c])
        /\ Held("save", tcall[c], tseen[c]) /\ TypedCall(tcall[c], tseen[c])
        /\ row' = Result(tseen[c], tcall[c])
  /\ \A d \in TCalls : tpc'[d] = "idle" \/ tseen'[d] = row \/ (tpc[d] # "idle" /\ tseen'[d] = tseen[d])

LEMMA RequestsKnown ==
  ASSUME NEW what \in AdminRequests \cup Reports \cup UserRequests
  PROVE  what.op \in TournamentOps /\ (what.op = "update" => what.fee \in Fees)
<1>1. CASE what \in AdminRequests
  BY <1>1 DEF AdminRequests, OpenRegistration, Start, CancelIt, Complete, Update, TournamentOps
<1>2. CASE what \in Reports
  BY <1>2 DEF Reports, Report, TournamentOps
<1>3. CASE what \in UserRequests
  <2>1. PICK u \in Users : what \in {Register(u), CheckIn(u), Withdraw(u)}
    BY <1>3, Zenon DEF UserRequests
  <2> QED
    BY <2>1 DEF Register, CheckIn, Withdraw, TournamentOps
<1> QED
  BY <1>1, <1>2, <1>3

LEMMA RowsMove == ASSUME HeldInv, TournamentNext PROVE HeldInv' /\ \E c \in TCalls : RowsMoved(c)
<1>1. TypesInv'
  BY TypesStep DEF HeldInv
<1>2. PICK c \in TCalls, step \in TournamentSteps : \E what, t :
         /\ Moved(c, step, what, t) /\ TGoto(c, step)
         /\ AskedFor(c, step, what, t) \/ CarriedOn(c, step, what, t) \/ EndedWith(c, step)
  BY CallMoves DEF HeldInv, TypesInv
<1>3. PICK what, t :
         /\ Moved(c, step, what, t) /\ TGoto(c, step)
         /\ AskedFor(c, step, what, t) \/ CarriedOn(c, step, what, t) \/ EndedWith(c, step)
  BY <1>2
<1>4. tpc[c] # "idle" => Held(tpc[c], tcall[c], tseen[c]) /\ TypedCall(tcall[c], tseen[c])
  BY DEF HeldInv, TypesInv
<1>5. step = "idle" \/ Held(step, what, t)
  <2>1. CASE AskedFor(c, step, what, t)
    BY <2>1, RequestsKnown DEF AskedFor, Held
  <2>2. CASE CarriedOn(c, step, what, t)
    BY <1>4, <2>2 DEF CarriedOn, Held
  <2>3. CASE EndedWith(c, step)
    BY <2>3 DEF EndedWith
  <2> QED
    BY <1>3, <2>1, <2>2, <2>3
<1>6. ASSUME NEW d \in TCalls
      PROVE  /\ (tpc[d] = "idle" \/ Held(tpc[d], tcall[d], tseen[d]))'
             /\ tpc'[d] = "idle" \/ tseen'[d] = row \/ (tpc[d] # "idle" /\ tseen'[d] = tseen[d])
  <2>1. CASE d = c
    <3>1. tpc'[d] = step /\ tcall'[d] = what /\ tseen'[d] = t
      BY <1>3, <2>1 DEF Moved
    <3>2. step = "idle" \/ t = row \/ (tpc[d] # "idle" /\ t = tseen[d])
      BY <1>3, <2>1 DEF AskedFor, CarriedOn, EndedWith
    <3> QED
      BY <1>5, <3>1, <3>2 DEF Held
  <2>2. CASE d # c
    <3>1. tpc'[d] = tpc[d] /\ tcall'[d] = tcall[d] /\ tseen'[d] = tseen[d]
      BY <1>3, <2>2 DEF Moved
    <3> QED
      BY <3>1 DEF HeldInv, Held
  <2> QED
    BY <2>1, <2>2
<1>7. row' = row \/ (/\ tpc[c] = "save" /\ ~Refused(tseen[c], tcall[c])
                     /\ Held("save", tcall[c], tseen[c]) /\ TypedCall(tcall[c], tseen[c])
                     /\ row' = Result(tseen[c], tcall[c]))
  BY <1>3, <1>4 DEF AskedFor, CarriedOn, EndedWith
<1>8. RowsMoved(c)
  BY <1>6, <1>7 DEF RowsMoved
<1> QED
  BY <1>1, <1>6, <1>8 DEF HeldInv

LEMMA HeldStep == HeldInv /\ [TournamentNext]_tvars => HeldInv'
<1> SUFFICES ASSUME HeldInv, [TournamentNext]_tvars PROVE HeldInv'
  OBVIOUS
<1>1. CASE TournamentNext
  BY <1>1, RowsMove
<1>2. CASE UNCHANGED tvars
  <2>1. TypesInv'
    BY TypesStep DEF HeldInv
  <2> QED
    BY <1>2, <2>1 DEF HeldInv, tvars, tcalls
<1> QED
  BY <1>1, <1>2

LEMMA HeldStart == TournamentInit => HeldInv
  BY TypesStart DEF TournamentInit, HeldInv
-----------------------------------------------------------------------------
(* Prizes are given once, to the last unit.                                  *)
LEMMA ResultFunded ==
  ASSUME NEW t, NEW what, TypedCall(what, t), Held("save", what, t), Funded(t), NEW next, next = Result(t, what)
  PROVE  Funded(next)
<1>0. DOMAIN t = RowFields /\ "status" \in RowFields /\ "players" \in RowFields /\ "fee" \in RowFields
      /\ "awards" \in RowFields /\ "bracket" \in RowFields
  BY DEF TypedCall, TypedRow, RowShaped, RowFields
<1>1. CASE next.fee \in Nat /\ next.prize = t.prize /\ next.awards = t.awards
           /\ (t.status = "completed" => next.status = "completed")
  BY <1>1 DEF Funded
<1>2. CASE what.op = "open"
  <2>1. next = [t EXCEPT !.status = "registration"] /\ t.status # "completed"
    BY <1>2 DEF Result, Held, Accepts, canTransition, Transitions
  <2> QED
    BY <1>0, <1>1, <2>1 DEF Funded
<1>3. CASE what.op = "update"
  <2>1. next = [t EXCEPT !.fee = what.fee] /\ what.fee \in Nat
    BY <1>3, SetupsAssumption DEF Result, Held
  <2> QED
    BY <1>0, <1>1, <2>1 DEF Funded
<1>4. CASE what.op = "start"
  <2>1. PICK S, P, B : /\ S = IF isFinal(t) THEN t.status ELSE "live"
                       /\ next = [t EXCEPT !.status = S, !.players = P, !.bracket = B]
    <3>1. next = started(t)
      BY <1>4 DEF Result
    <3> QED
      BY <3>1, Zenon DEF started
  <2>2. next.status = S /\ next.fee = t.fee /\ next.prize = t.prize /\ next.awards = t.awards
    <3>1. next.status = S
      BY <1>0, <2>1
    <3>2. next.fee = t.fee
      BY <1>0, <2>1
    <3>3. next.prize = t.prize
      BY <1>0, <2>1 DEF RowFields
    <3>4. next.awards = t.awards
      BY <1>0, <2>1
    <3> QED
      BY <3>1, <3>2, <3>3, <3>4
  <2>3. t.status = "completed" => isFinal(t)
    BY DEF isFinal, Transitions
  <2> QED
    BY <1>1, <2>1, <2>2, <2>3 DEF Funded
<1>5. CASE what.op = "cancel"
  <2>1. next = [t EXCEPT !.status = "cancelled"] /\ t.status # "completed"
    BY <1>5 DEF Result, Held, canTransition, Transitions
  <2> QED
    BY <1>0, <1>1, <2>1 DEF Funded
<1>6. CASE what.op = "report"
  <2>1. PICK P, B : next = [t EXCEPT !.bracket = B, !.players = P]
    <3>1. next = reported(t, what.match, what.winner)
      BY <1>6 DEF Result
    <3> QED
      BY <3>1, Zenon DEF reported
  <2>2. next.status = t.status /\ next.fee = t.fee /\ next.prize = t.prize /\ next.awards = t.awards
    BY <1>0, <2>1 DEF RowFields
  <2> QED
    BY <1>1, <2>2 DEF Funded
<1>7. CASE what.op = "complete"
  <2>1. PICK awards : next = [t EXCEPT !.status = "completed", !.awards = awards]
    BY <1>7 DEF Result, completed
  <2>2. next.status = "completed" /\ next.fee = t.fee /\ next.prize = t.prize
    BY <1>0, <2>1 DEF RowFields
  <2> QED
    BY <2>2 DEF Funded
<1>8. CASE what.op \in {"register", "checkIn", "withdraw"}
  <2>1. PICK P : next = [t EXCEPT !.players = P]
    BY <1>8, Zenon DEF Result, registered, checkedIn, withdrawn, changed
  <2>2. next.status = t.status /\ next.fee = t.fee /\ next.prize = t.prize /\ next.awards = t.awards
    BY <1>0, <2>1 DEF RowFields
  <2> QED
    BY <1>1, <2>2 DEF Funded
<1> QED
  BY <1>2, <1>3, <1>4, <1>5, <1>6, <1>7, <1>8 DEF Held, TournamentOps

(* The invariant behind the prizes.                                          *)
PrizesInv ==
  /\ HeldInv
  /\ PaidInv
  /\ Funded(row)
  /\ \A c \in TCalls : tpc[c] = "idle" \/ Funded(tseen[c])

LEMMA PrizesStep == PrizesInv /\ [TournamentNext]_tvars => PrizesInv'
<1> SUFFICES ASSUME PrizesInv, [TournamentNext]_tvars PROVE PrizesInv'
  OBVIOUS
<1>1. HeldInv' /\ PaidInv'
  BY HeldStep, PaidStep DEF PrizesInv
<1>2. CASE TournamentNext
  <2>1. PICK c \in TCalls : RowsMoved(c)
    BY <1>2, RowsMove DEF PrizesInv
  <2>2. Funded(row')
    BY <2>1, ResultFunded DEF RowsMoved, PrizesInv
  <2>3. \A d \in TCalls : tpc'[d] = "idle" \/ Funded(tseen'[d])
    BY <2>1 DEF RowsMoved, PrizesInv
  <2> QED
    BY <1>1, <2>2, <2>3 DEF PrizesInv, Funded
<1>3. CASE UNCHANGED tvars
  BY <1>1, <1>3 DEF tvars, tcalls, PrizesInv, Funded
<1> QED
  BY <1>2, <1>3

LEMMA PrizesAlways == TournamentSpec => []PrizesInv
<1>1. TournamentInit => PrizesInv
  <2> SUFFICES ASSUME TournamentInit PROVE PrizesInv
    OBVIOUS
  <2>1. PICK s \in Setups : row = Created(s)
    BY DEF TournamentInit
  <2>2. Funded(row)
    <3>1. row.fee = s.fee /\ row.prize = s.prize /\ row.awards = <<>>
      BY <2>1 DEF Created
    <3> QED
      BY <3>1, SetupsAssumption DEF Funded
  <2> QED
    BY <2>2, HeldStart, PaidStart DEF TournamentInit, PrizesInv
<1> QED
  BY <1>1, PrizesStep, PTL DEF TournamentSpec

LEMMA CompletedAwards ==
  ASSUME NEW t, TypedRow(t), NEW next, next = completed(t) PROVE next.awards = distributePrizes(t)
<1>1. DOMAIN t = RowFields /\ "awards" \in RowFields
  BY DEF TypedRow, RowShaped, RowFields
<1>2. PICK awards : awards = distributePrizes(t)
  OBVIOUS
<1>3. next = [t EXCEPT !.status = "completed", !.awards = awards]
  BY <1>2 DEF completed
<1> QED
  BY <1>1, <1>2, <1>3

(* Only a completion completes.                                              *)
LEMMA OnlyCompletes ==
  ASSUME NEW t, NEW what, TypedCall(what, t), what.op \in TournamentOps, NEW next, next = Result(t, what),
         t.status # "completed", next.status = "completed"
  PROVE  what.op = "complete" /\ next = completed(t)
<1>0. DOMAIN t = RowFields /\ "status" \in RowFields
  BY DEF TypedCall, TypedRow, RowShaped, RowFields
<1>1. what.op # "open" /\ what.op # "cancel" /\ what.op # "update"
  BY <1>0 DEF Result
<1>2. ASSUME what.op = "start" PROVE FALSE
  <2>1. PICK S, P, B : S = (IF isFinal(t) THEN t.status ELSE "live")
                       /\ next = [t EXCEPT !.status = S, !.players = P, !.bracket = B]
    <3>1. next = started(t)
      BY <1>2 DEF Result
    <3> QED
      BY <3>1, Zenon DEF started
  <2>2. next.status = S
    BY <1>0, <2>1
  <2> QED
    BY <2>1, <2>2
<1>3. ASSUME what.op = "report" PROVE FALSE
  <2>1. PICK P, B : next = [t EXCEPT !.bracket = B, !.players = P]
    <3>1. next = reported(t, what.match, what.winner)
      BY <1>3 DEF Result
    <3> QED
      BY <3>1, Zenon DEF reported
  <2> QED
    BY <1>0, <2>1
<1>4. ASSUME what.op \in {"register", "checkIn", "withdraw"} PROVE FALSE
  <2>1. PICK P : next = [t EXCEPT !.players = P]
    BY <1>4, Zenon DEF Result, registered, checkedIn, withdrawn, changed
  <2> QED
    BY <1>0, <2>1
<1>5. what.op = "complete"
  BY <1>1, <1>2, <1>3, <1>4 DEF TournamentOps
<1> QED
  BY <1>5 DEF Result
-----------------------------------------------------------------------------
(* Brackets.  A match, its two slots, and where its winner and loser go.     *)
MatchFields == {"slots", "state", "winner", "loser", "winnerTo", "loserTo"}

BracketShaped(b) == \A m \in DOMAIN b : DOMAIN b[m] = MatchFields /\ DOMAIN b[m].slots = 1 .. 2

Open(b, m) == b[m].state # "completed"

Sits(b, m, u) == u = b[m].slots[1] \/ u = b[m].slots[2]

LinksTo(b, m, x, i) == b[m].winnerTo = <<x, i>> \/ b[m].loserTo = <<x, i>>

(* Later matches rank higher.                                                *)
Rank(id) == IF id[1] = "losers" THEN id[2] + 3 ELSE 2 * id[2]

(* Who leaves a match goes to a slot of a later one, each slot has one match *)
(* it is filled from.                                                        *)
Linked(b) ==
  /\ \A m \in DOMAIN b : Rank(m) \in Nat
  /\ \A m \in DOMAIN b : /\ b[m].winnerTo = Nowhere \/ \E x \in DOMAIN b : \E i \in 1 .. 2 : b[m].winnerTo = <<x, i>>
                         /\ b[m].loserTo = Nowhere \/ \E x \in DOMAIN b : \E i \in 1 .. 2 : b[m].loserTo = <<x, i>>
  /\ \A m, x \in DOMAIN b : \A i \in 1 .. 2 :
       LinksTo(b, m, x, i) => /\ Rank(m) < Rank(x)
                              /\ b[m].winnerTo # b[m].loserTo
                              /\ \A n \in DOMAIN b : LinksTo(b, n, x, i) => n = m

(* How players flow through a bracket: a slot is empty until the match it is *)
(* filled from is over; who is in a match to be played has left all others,  *)
(* earlier ones.                                                             *)
Flows(b) ==
  /\ \A m \in DOMAIN b : b[m].slots[1] = b[m].slots[2] => b[m].slots[1] = Nobody
  /\ \A m, x \in DOMAIN b : \A i \in 1 .. 2 : Open(b, m) /\ LinksTo(b, m, x, i) => b[x].slots[i] = Nobody
  /\ \A m, x \in DOMAIN b : \A u :
       Open(b, m) /\ x # m /\ u # Nobody /\ Sits(b, m, u) /\ Sits(b, x, u) => ~Open(b, x) /\ Rank(x) < Rank(m)
  /\ \A m \in DOMAIN b : b[m].winner = Nobody \/ Sits(b, m, b[m].winner)
  /\ \A m \in DOMAIN b : b[m].loser = Nobody \/ Sits(b, m, b[m].loser)
  /\ \A m \in DOMAIN b : Open(b, m) => b[m].winner = Nobody /\ b[m].loser = Nobody

(* Who is still in play: in a match to be played, champion, or stranded.     *)
InPlay(b, u) ==
  \/ \E m \in DOMAIN b : Open(b, m) /\ Sits(b, m, u)
  \/ \E m \in DOMAIN b : b[m].winner = u /\ b[m].winnerTo = Nowhere
  \/ \E m \in DOMAIN b : ~Open(b, m) /\ Sits(b, m, u) /\ b[m].winner # u /\ b[m].loser # u

(* The match m may be decided for u over v, who may be nobody; c is what the *)
(* bracket becomes.                                                          *)
Decides(b, m, u, v) ==
  /\ m \in DOMAIN b /\ Open(b, m) /\ u # Nobody
  /\ \/ u = b[m].slots[1] /\ v = b[m].slots[2]
     \/ u = b[m].slots[2] /\ v = b[m].slots[1]

After(b, c, m, u, v) ==
  /\ BracketShaped(c) /\ DOMAIN c = DOMAIN b
  /\ \A x \in DOMAIN b : c[x].winnerTo = b[x].winnerTo /\ c[x].loserTo = b[x].loserTo
  /\ ~Open(c, m) /\ c[m].winner = u /\ c[m].loser = v
  /\ \A x \in DOMAIN b : x # m => /\ Open(c, x) <=> Open(b, x)
                                  /\ c[x].winner = b[x].winner /\ c[x].loser = b[x].loser
  /\ \A x \in DOMAIN b : \A i \in 1 .. 2 :
       c[x].slots[i] = IF b[m].winnerTo = <<x, i>> THEN u
                       ELSE IF v # Nobody /\ b[m].loserTo = <<x, i>> THEN v ELSE b[x].slots[i]

(* Deciding a match leaves the links between matches as they are.            *)
LEMMA LinkedOn ==
  ASSUME NEW b, Linked(b), NEW c, NEW m, NEW u, NEW v, After(b, c, m, u, v) PROVE Linked(c)
<1>1. DOMAIN c = DOMAIN b
      /\ \A x \in DOMAIN b : c[x].winnerTo = b[x].winnerTo /\ c[x].loserTo = b[x].loserTo
  BY DEF After
<1>2. \A n, x \in DOMAIN b : \A i \in 1 .. 2 : LinksTo(c, n, x, i) <=> LinksTo(b, n, x, i)
  BY <1>1 DEF LinksTo
<1> QED
  BY <1>1, <1>2 DEF Linked

(* Where players sit after a match: where they sat, or where it sends them.  *)
LEMMA SitsAfter ==
  ASSUME NEW b, Linked(b), Flows(b), NEW m, NEW u, NEW v, Decides(b, m, u, v),
         NEW c, After(b, c, m, u, v)
  PROVE  /\ u # v /\ Sits(b, m, u) /\ Sits(b, m, v)
         /\ \A x \in DOMAIN b : \A w : w # Nobody /\ Sits(b, x, w) => Sits(c, x, w)
         /\ \A x \in DOMAIN b : \A w : Sits(c, x, w) =>
              \/ Sits(b, x, w)
              \/ w = u /\ \E i \in 1 .. 2 : b[m].winnerTo = <<x, i>>
              \/ w = v /\ v # Nobody /\ \E i \in 1 .. 2 : b[m].loserTo = <<x, i>>
         /\ \A x \in DOMAIN b : \A i \in 1 .. 2 : b[m].winnerTo = <<x, i>> => Sits(c, x, u)
         /\ \A x \in DOMAIN b : \A i \in 1 .. 2 : v # Nobody /\ b[m].loserTo = <<x, i>> => Sits(c, x, v)
         /\ \A x \in DOMAIN b : \A i \in 1 .. 2 : LinksTo(b, m, x, i) => Rank(m) < Rank(x) /\ x # m
         /\ \A x \in DOMAIN b : \A w : w \in {u, v} /\ w # Nobody /\ Sits(b, x, w) /\ x # m
              => ~Open(b, x) /\ Rank(x) < Rank(m)
<1>1. m \in DOMAIN b /\ Open(b, m) /\ u # Nobody
  BY DEF Decides
<1>2. u # v /\ Sits(b, m, u) /\ Sits(b, m, v)
  BY DEF Decides, Flows, Sits
<1>3. ASSUME NEW x \in DOMAIN b, NEW i \in 1 .. 2
      PROVE  /\ LinksTo(b, m, x, i) => b[x].slots[i] = Nobody /\ Rank(m) < Rank(x) /\ x # m
             /\ b[m].winnerTo = <<x, i>> => c[x].slots[i] = u
             /\ v # Nobody /\ b[m].loserTo = <<x, i>> => c[x].slots[i] = v
             /\ c[x].slots[i] = b[x].slots[i] \/ LinksTo(b, m, x, i)
             /\ \/ c[x].slots[i] = b[x].slots[i]
                \/ c[x].slots[i] = u /\ b[m].winnerTo = <<x, i>>
                \/ c[x].slots[i] = v /\ v # Nobody /\ b[m].loserTo = <<x, i>>
  <2>1. c[x].slots[i] = IF b[m].winnerTo = <<x, i>> THEN u
                        ELSE IF v # Nobody /\ b[m].loserTo = <<x, i>> THEN v ELSE b[x].slots[i]
    BY DEF After
  <2>2. LinksTo(b, m, x, i) => b[x].slots[i] = Nobody
    BY <1>1 DEF Flows
  <2>3. LinksTo(b, m, x, i) => Rank(m) < Rank(x) /\ Rank(m) \in Nat /\ Rank(x) \in Nat
                               /\ b[m].winnerTo # b[m].loserTo
    BY <1>1 DEF Linked
  <2>4. LinksTo(b, m, x, i) => Rank(m) < Rank(x) /\ x # m
    BY <2>3
  <2> QED
    BY <2>1, <2>2, <2>3, <2>4 DEF LinksTo
<1>4. 1 \in 1 .. 2 /\ 2 \in 1 .. 2 /\ \A i \in 1 .. 2 : i = 1 \/ i = 2
  OBVIOUS
<1>5. ASSUME NEW x \in DOMAIN b, NEW w, w # Nobody, Sits(b, x, w) PROVE Sits(c, x, w)
  BY <1>3, <1>4, <1>5 DEF Sits
<1>6. ASSUME NEW x \in DOMAIN b, NEW w, Sits(c, x, w)
      PROVE  \/ Sits(b, x, w)
             \/ w = u /\ \E i \in 1 .. 2 : b[m].winnerTo = <<x, i>>
             \/ w = v /\ v # Nobody /\ \E i \in 1 .. 2 : b[m].loserTo = <<x, i>>
  BY <1>3, <1>4, <1>6 DEF Sits
<1>7. ASSUME NEW x \in DOMAIN b, NEW i \in 1 .. 2
      PROVE  /\ b[m].winnerTo = <<x, i>> => Sits(c, x, u)
             /\ v # Nobody /\ b[m].loserTo = <<x, i>> => Sits(c, x, v)
             /\ LinksTo(b, m, x, i) => Rank(m) < Rank(x) /\ x # m
  BY <1>3, <1>4 DEF Sits
<1>8. ASSUME NEW x \in DOMAIN b, NEW w, w \in {u, v}, w # Nobody, Sits(b, x, w), x # m
      PROVE  ~Open(b, x) /\ Rank(x) < Rank(m)
  BY <1>1, <1>2, <1>8 DEF Flows
<1> QED
  BY <1>2, <1>5, <1>6, <1>7, <1>8

(* Deciding a match keeps players flowing: the winner and the loser enter    *)
(* empty slots of later matches, and have left all others.                   *)
LEMMA FlowsOn ==
  ASSUME NEW b, Linked(b), Flows(b), NEW m, NEW u, NEW v, Decides(b, m, u, v),
         NEW c, After(b, c, m, u, v)
  PROVE  Flows(c)
<1>1. m \in DOMAIN b /\ Open(b, m) /\ u # Nobody /\ DOMAIN c = DOMAIN b
  BY DEF Decides, After
<1>2. /\ u # v /\ Sits(b, m, u) /\ Sits(b, m, v)
      /\ \A x \in DOMAIN b : \A w : w # Nobody /\ Sits(b, x, w) => Sits(c, x, w)
      /\ \A x \in DOMAIN b : \A w : Sits(c, x, w) =>
           \/ Sits(b, x, w)
           \/ w = u /\ \E i \in 1 .. 2 : b[m].winnerTo = <<x, i>>
           \/ w = v /\ v # Nobody /\ \E i \in 1 .. 2 : b[m].loserTo = <<x, i>>
      /\ \A x \in DOMAIN b : \A i \in 1 .. 2 : LinksTo(b, m, x, i) => Rank(m) < Rank(x) /\ x # m
      /\ \A x \in DOMAIN b : \A w : w \in {u, v} /\ w # Nobody /\ Sits(b, x, w) /\ x # m
           => ~Open(b, x) /\ Rank(x) < Rank(m)
  BY SitsAfter
<1>3. \A x \in DOMAIN b : Rank(x) \in Nat
  BY DEF Linked
<1>4. /\ \A x \in DOMAIN b : x # m => (Open(c, x) <=> Open(b, x))
      /\ ~Open(c, m)
      /\ \A n, x \in DOMAIN b : \A i \in 1 .. 2 : LinksTo(c, n, x, i) <=> LinksTo(b, n, x, i)
  BY DEF After, LinksTo
<1>5. ASSUME NEW x \in DOMAIN c, c[x].slots[1] = c[x].slots[2], c[x].slots[1] # Nobody PROVE FALSE
  <2>1. PICK s1, s2 : s1 = b[x].slots[1] /\ s2 = b[x].slots[2]
    OBVIOUS
  <2>2. ASSUME NEW i \in 1 .. 2
        PROVE  /\ LinksTo(b, m, x, i) => b[x].slots[i] = Nobody
               /\ \/ c[x].slots[i] = b[x].slots[i]
                  \/ c[x].slots[i] = u /\ b[m].winnerTo = <<x, i>>
                  \/ c[x].slots[i] = v /\ v # Nobody /\ b[m].loserTo = <<x, i>>
    BY <1>1, <1>5 DEF After, Flows
  <2>3. ~(s1 = s2 /\ s1 # Nobody)
    BY <1>1, <1>5, <2>1 DEF Flows
  <2>4. \A i \in 1 .. 2 : LinksTo(b, m, x, i) => ~Sits(b, x, u) /\ (v # Nobody => ~Sits(b, x, v))
    <3>1. ASSUME NEW i \in 1 .. 2, LinksTo(b, m, x, i), NEW w \in {u, v}, w # Nobody, Sits(b, x, w) PROVE FALSE
      <4>1. x \in DOMAIN b /\ Rank(m) < Rank(x) /\ x # m
        BY <1>1, <1>2, <1>5, <3>1
      <4>2. Rank(x) < Rank(m)
        BY <1>2, <3>1, <4>1
      <4> QED
        BY <1>1, <1>3, <4>1, <4>2
    <3> QED
      BY <1>1, <3>1
  <2>5. ~(b[m].winnerTo = <<x, 1>> /\ b[m].winnerTo = <<x, 2>>) /\ ~(b[m].loserTo = <<x, 1>> /\ b[m].loserTo = <<x, 2>>)
    OBVIOUS
  <2>6. 1 \in 1 .. 2 /\ 2 \in 1 .. 2
    OBVIOUS
  <2> QED
    BY <1>2, <1>5, <2>1, <2>2, <2>3, <2>4, <2>5, <2>6 DEF Sits, LinksTo
<1>6. ASSUME NEW n \in DOMAIN c, NEW x \in DOMAIN c, NEW i \in 1 .. 2, Open(c, n), LinksTo(c, n, x, i)
      PROVE  c[x].slots[i] = Nobody
  <2>1. n # m /\ Open(b, n) /\ LinksTo(b, n, x, i)
    BY <1>1, <1>4, <1>6
  <2>2. b[x].slots[i] = Nobody
    BY <1>1, <1>6, <2>1 DEF Flows
  <2>3. ~LinksTo(b, m, x, i)
    BY <1>1, <1>6, <2>1 DEF Linked
  <2>4. c[x].slots[i] = b[x].slots[i]
    BY <1>1, <1>6, <2>3 DEF After, LinksTo
  <2> QED
    BY <2>2, <2>4
<1>7. ASSUME NEW n \in DOMAIN c, NEW x \in DOMAIN c, NEW w, Open(c, n), x # n, w # Nobody, Sits(c, n, w), Sits(c, x, w)
      PROVE  ~Open(c, x) /\ Rank(x) < Rank(n)
  <2>1. n # m /\ Open(b, n) /\ n \in DOMAIN b /\ x \in DOMAIN b
    BY <1>1, <1>4, <1>7
  <2>2. CASE w \notin {u, v}
    <3>1. Sits(b, n, w) /\ Sits(b, x, w)
      BY <1>2, <1>7, <2>1, <2>2
    <3>2. ~Open(b, x) /\ Rank(x) < Rank(n)
      BY <1>7, <2>1, <3>1 DEF Flows
    <3> QED
      BY <1>1, <1>4, <2>1, <3>2
  <2>3. ASSUME w \in {u, v}, NEW to, to = IF w = u THEN b[m].winnerTo ELSE b[m].loserTo
        PROVE  ~Open(c, x) /\ Rank(x) < Rank(n)
    <3>1. \A y \in DOMAIN b : Sits(c, y, w) => Sits(b, y, w) \/ \E i \in 1 .. 2 : to = <<y, i>>
      BY <1>2, <2>3
    <3>2. ~Sits(b, n, w)
      BY <1>2, <1>7, <2>1, <2>3
    <3>3. PICK i \in 1 .. 2 : to = <<n, i>>
      BY <1>7, <2>1, <3>1, <3>2
    <3>4. LinksTo(b, m, n, i)
      BY <2>3, <3>3 DEF LinksTo
    <3>5. Rank(m) < Rank(n)
      BY <1>2, <2>1, <3>4
    <3>6. \A j \in 1 .. 2 : to # <<x, j>>
      BY <1>7, <3>3
    <3>7. Sits(b, x, w)
      BY <1>7, <2>1, <3>1, <3>6
    <3>8. CASE x = m
      BY <1>4, <3>5, <3>8
    <3>9. CASE x # m
      <4>1. ~Open(b, x) /\ Rank(x) < Rank(m)
        BY <1>2, <1>7, <2>1, <2>3, <3>7, <3>9
      <4>2. ~Open(c, x)
        BY <1>4, <2>1, <3>9, <4>1
      <4>3. Rank(x) < Rank(n)
        BY <1>1, <1>3, <2>1, <3>5, <4>1
      <4> QED
        BY <4>2, <4>3
    <3> QED
      BY <3>8, <3>9
  <2> QED
    BY <2>2, <2>3
<1>8. ASSUME NEW x \in DOMAIN c
      PROVE  /\ c[x].winner = Nobody \/ Sits(c, x, c[x].winner)
             /\ c[x].loser = Nobody \/ Sits(c, x, c[x].loser)
             /\ Open(c, x) => c[x].winner = Nobody /\ c[x].loser = Nobody
  <2>1. CASE x = m
    <3>1. c[x].winner = u /\ c[x].loser = v /\ ~Open(c, x)
      BY <2>1 DEF After
    <3>2. Sits(b, x, u) /\ Sits(b, x, v)
      BY <1>2, <2>1
    <3> QED
      BY <1>1, <1>2, <1>8, <3>1, <3>2
  <2>2. CASE x # m
    <3>1. c[x].winner = b[x].winner /\ c[x].loser = b[x].loser /\ (Open(c, x) <=> Open(b, x)) /\ x \in DOMAIN b
      BY <1>1, <1>8, <2>2 DEF After
    <3>2. /\ b[x].winner = Nobody \/ Sits(b, x, b[x].winner)
          /\ b[x].loser = Nobody \/ Sits(b, x, b[x].loser)
          /\ Open(b, x) => b[x].winner = Nobody /\ b[x].loser = Nobody
      BY <3>1 DEF Flows
    <3> QED
      BY <1>2, <3>1, <3>2
  <2> QED
    BY <2>1, <2>2
<1> QED
  BY <1>5, <1>6, <1>7, <1>8 DEF Flows

(* Nobody who is in play is lost, but the loser of a match from which losers *)
(* do not go on.                                                             *)
LEMMA PlayOn ==
  ASSUME NEW b, Linked(b), Flows(b), NEW m, NEW u, NEW v, Decides(b, m, u, v),
         NEW c, After(b, c, m, u, v), NEW w, w # Nobody, InPlay(b, w), w # v \/ b[m].loserTo # Nowhere
  PROVE  InPlay(c, w)
<1>1. m \in DOMAIN b /\ Open(b, m) /\ u # Nobody /\ DOMAIN c = DOMAIN b
  BY DEF Decides, After
<1>2. /\ u # v /\ Sits(b, m, u) /\ Sits(b, m, v)
      /\ \A x \in DOMAIN b : \A z : z # Nobody /\ Sits(b, x, z) => Sits(c, x, z)
      /\ \A x \in DOMAIN b : \A i \in 1 .. 2 : b[m].winnerTo = <<x, i>> => Sits(c, x, u)
      /\ \A x \in DOMAIN b : \A i \in 1 .. 2 : v # Nobody /\ b[m].loserTo = <<x, i>> => Sits(c, x, v)
      /\ \A x \in DOMAIN b : \A i \in 1 .. 2 : LinksTo(b, m, x, i) => Rank(m) < Rank(x) /\ x # m
      /\ \A x \in DOMAIN b : \A z : z \in {u, v} /\ z # Nobody /\ Sits(b, x, z) /\ x # m
           => ~Open(b, x) /\ Rank(x) < Rank(m)
  BY SitsAfter
<1>3. \A x \in DOMAIN b : Rank(x) \in Nat
  BY DEF Linked
<1>4. \A x \in DOMAIN b : x # m => /\ Open(c, x) <=> Open(b, x)
                                   /\ c[x].winner = b[x].winner /\ c[x].loser = b[x].loser
  BY DEF After
(* Who moves comes to a match to be played, or is stranded. *)
<1>5. ASSUME NEW z \in {u, v}, z # Nobody, NEW x \in DOMAIN b, NEW i \in 1 .. 2, LinksTo(b, m, x, i), Sits(c, x, z)
      PROVE  InPlay(c, z)
  <2>1. Rank(m) < Rank(x) /\ x # m
    BY <1>2, <1>5
  <2>2. ~Sits(b, x, z)
    <3>1. Sits(b, x, z) => Rank(x) < Rank(m)
      BY <1>2, <1>5, <2>1
    <3> QED
      BY <1>1, <1>3, <2>1, <3>1
  <2>3. b[x].winner # z /\ b[x].loser # z
    BY <1>5, <2>2 DEF Flows
  <2>4. c[x].winner # z /\ c[x].loser # z
    BY <1>4, <2>1, <2>3
  <2> QED
    BY <1>1, <1>5, <2>4 DEF InPlay
<1>6. CASE w = u
  <2>1. CASE b[m].winnerTo = Nowhere
    <3>1. c[m].winner = u /\ c[m].winnerTo = Nowhere
      BY <1>1, <2>1 DEF After
    <3> QED
      BY <1>1, <1>6, <3>1 DEF InPlay
  <2>2. CASE b[m].winnerTo # Nowhere
    <3>1. PICK x \in DOMAIN b, i \in 1 .. 2 : b[m].winnerTo = <<x, i>>
      BY <1>1, <2>2 DEF Linked
    <3>2. Sits(c, x, u) /\ LinksTo(b, m, x, i)
      BY <1>2, <3>1 DEF LinksTo
    <3> QED
      BY <1>1, <1>5, <1>6, <3>2
  <2> QED
    BY <2>1, <2>2
<1>7. CASE w = v
  <2>1. PICK x \in DOMAIN b, i \in 1 .. 2 : b[m].loserTo = <<x, i>>
    BY <1>1, <1>7 DEF Linked
  <2>2. Sits(c, x, v) /\ LinksTo(b, m, x, i)
    BY <1>2, <1>7, <2>1 DEF LinksTo
  <2> QED
    BY <1>5, <1>7, <2>2
<1>8. CASE w # u /\ w # v
  <2>1. ~Sits(b, m, w)
    BY <1>8 DEF Decides, Sits
  <2>2. CASE \E x \in DOMAIN b : Open(b, x) /\ Sits(b, x, w)
    <3>1. PICK x \in DOMAIN b : Open(b, x) /\ Sits(b, x, w)
      BY <2>2
    <3>2. x # m /\ Open(c, x) /\ Sits(c, x, w)
      BY <1>2, <1>4, <2>1, <3>1
    <3> QED
      BY <1>1, <3>2 DEF InPlay
  <2>3. CASE \E x \in DOMAIN b : b[x].winner = w /\ b[x].winnerTo = Nowhere
    <3>1. PICK x \in DOMAIN b : b[x].winner = w /\ b[x].winnerTo = Nowhere
      BY <2>3
    <3>2. x # m
      BY <1>1, <3>1 DEF Flows
    <3>3. c[x].winner = w /\ c[x].winnerTo = Nowhere
      BY <1>4, <3>1, <3>2 DEF After
    <3> QED
      BY <1>1, <3>3 DEF InPlay
  <2>4. CASE \E x \in DOMAIN b : ~Open(b, x) /\ Sits(b, x, w) /\ b[x].winner # w /\ b[x].loser # w
    <3>1. PICK x \in DOMAIN b : ~Open(b, x) /\ Sits(b, x, w) /\ b[x].winner # w /\ b[x].loser # w
      BY <2>4
    <3>2. ~Open(c, x) /\ Sits(c, x, w) /\ c[x].winner # w /\ c[x].loser # w
      BY <1>1, <1>2, <1>4, <3>1
    <3> QED
      BY <1>1, <3>2 DEF InPlay
  <2> QED
    BY <2>2, <2>3, <2>4 DEF InPlay
<1> QED
  BY <1>6, <1>7, <1>8

(* What place does.                                                          *)
LEMMA Placing ==
  ASSUME NEW b, BracketShaped(b), NEW x \in DOMAIN b, NEW i \in 1 .. 2, NEW u, NEW to, to = <<x, i>>,
         NEW c, c = place(b, to, u)
  PROVE  /\ BracketShaped(c) /\ DOMAIN c = DOMAIN b
         /\ \A y \in DOMAIN b : /\ c[y].winnerTo = b[y].winnerTo /\ c[y].loserTo = b[y].loserTo
                                /\ c[y].winner = b[y].winner /\ c[y].loser = b[y].loser
                                /\ Open(c, y) <=> Open(b, y)
         /\ \A y \in DOMAIN b : \A j \in 1 .. 2 : c[y].slots[j] = IF y = x /\ j = i THEN u ELSE b[y].slots[j]
<1>1. to[1] = x /\ to[2] = i
  OBVIOUS
<1>2. PICK old : old = b[x]
  OBVIOUS
<1>3. PICK slots : slots = [old.slots EXCEPT ![i] = u]
  OBVIOUS
<1>4. PICK full \in BOOLEAN : full = (Nobody \notin {slots[1], slots[2]})
  OBVIOUS
<1>5. PICK state : state = IF full /\ old.state # "completed" THEN "ready" ELSE old.state
  OBVIOUS
<1>6. PICK new : new = [old EXCEPT !.slots = slots, !.state = state]
  OBVIOUS
<1>7. c = [b EXCEPT ![x] = new]
  BY <1>1, <1>2, <1>3, <1>4, <1>5, <1>6, Zenon DEF place
<1>8. DOMAIN old = MatchFields /\ DOMAIN old.slots = 1 .. 2
  BY <1>2 DEF BracketShaped
<1>9. DOMAIN slots = 1 .. 2 /\ \A j \in 1 .. 2 : slots[j] = IF j = i THEN u ELSE old.slots[j]
  BY <1>2, <1>3, <1>8
<1>10. /\ DOMAIN new = MatchFields /\ new.slots = slots
       /\ new.winnerTo = old.winnerTo /\ new.loserTo = old.loserTo
       /\ new.winner = old.winner /\ new.loser = old.loser
       /\ new.state = state
  BY <1>5, <1>6, <1>8 DEF MatchFields
<1>11. state = "completed" <=> old.state = "completed"
  BY <1>5
<1>12. DOMAIN c = DOMAIN b /\ \A y \in DOMAIN b : c[y] = IF y = x THEN new ELSE b[y]
  BY <1>7
<1>13. BracketShaped(c)
  BY <1>9, <1>10, <1>12 DEF BracketShaped
<1>14. ASSUME NEW y \in DOMAIN b
       PROVE  /\ c[y].winnerTo = b[y].winnerTo /\ c[y].loserTo = b[y].loserTo
              /\ c[y].winner = b[y].winner /\ c[y].loser = b[y].loser
              /\ Open(c, y) <=> Open(b, y)
  <2>1. CASE y = x
    BY <1>2, <1>10, <1>11, <1>12, <2>1 DEF Open
  <2>2. CASE y # x
    BY <1>12, <2>2 DEF Open
  <2> QED
    BY <2>1, <2>2
<1>15. ASSUME NEW y \in DOMAIN b, NEW j \in 1 .. 2
       PROVE  c[y].slots[j] = IF y = x /\ j = i THEN u ELSE b[y].slots[j]
  BY <1>2, <1>9, <1>10, <1>12
<1> QED
  BY <1>12, <1>13, <1>14, <1>15

(* A match is over, and its players go on.                                   *)
Over(b, c, m, u, v) ==
  /\ BracketShaped(c) /\ DOMAIN c = DOMAIN b
  /\ \A y \in DOMAIN b : c[y].winnerTo = b[y].winnerTo /\ c[y].loserTo = b[y].loserTo
  /\ ~Open(c, m) /\ c[m].winner = u /\ c[m].loser = v
  /\ \A y \in DOMAIN b : y # m => c[y] = b[y]
  /\ \A y \in DOMAIN b : c[y].slots = b[y].slots

(* What recordMatchResult and a bye write into a match end it.               *)
LEMMA EndingMatch ==
  ASSUME NEW b, BracketShaped(b), NEW m \in DOMAIN b, NEW u, NEW v, NEW c,
         \/ c = [b EXCEPT ![m] = [@ EXCEPT !.winner = u, !.loser = v, !.state = "completed"]]
         \/ c = [b EXCEPT ![m] = [@ EXCEPT !.winner = u, !.state = "completed"]] /\ b[m].loser = v
  PROVE  Over(b, c, m, u, v)
<1>1. PICK old : old = b[m]
  OBVIOUS
<1>2. PICK new : /\ c = [b EXCEPT ![m] = new]
                 /\ \/ new = [old EXCEPT !.winner = u, !.loser = v, !.state = "completed"]
                    \/ new = [old EXCEPT !.winner = u, !.state = "completed"] /\ old.loser = v
  BY <1>1
<1>3. DOMAIN old = MatchFields /\ DOMAIN old.slots = 1 .. 2
  BY <1>1 DEF BracketShaped
<1>4. /\ DOMAIN new = MatchFields /\ new.slots = old.slots
      /\ new.winnerTo = old.winnerTo /\ new.loserTo = old.loserTo
      /\ new.winner = u /\ new.loser = v /\ new.state = "completed"
  BY <1>2, <1>3 DEF MatchFields
<1>5. DOMAIN c = DOMAIN b /\ \A y \in DOMAIN b : c[y] = IF y = m THEN new ELSE b[y]
  BY <1>2
<1> QED
  BY <1>1, <1>3, <1>4, <1>5 DEF BracketShaped, Open, Over

(* advanced places winner and loser where the links of the match say.        *)
LEMMA Advancing ==
  ASSUME NEW b, BracketShaped(b), Linked(b), NEW m \in DOMAIN b, NEW u, NEW v,
         NEW match, match.winnerTo = b[m].winnerTo, match.loserTo = b[m].loserTo,
         NEW done, Over(b, done, m, u, v), NEW c, c = advanced(done, match, u, v)
  PROVE  After(b, c, m, u, v)
<1>2. /\ BracketShaped(done) /\ DOMAIN done = DOMAIN b
      /\ \A y \in DOMAIN b : done[y].winnerTo = b[y].winnerTo /\ done[y].loserTo = b[y].loserTo
      /\ ~Open(done, m) /\ done[m].winner = u /\ done[m].loser = v
      /\ \A y \in DOMAIN b : y # m => done[y] = b[y]
      /\ \A y \in DOMAIN b : done[y].slots = b[y].slots
  BY DEF Over
<1>3. PICK W, L : W = b[m].winnerTo /\ L = b[m].loserTo
  OBVIOUS
<1>4. PICK won : won = IF W = Nowhere THEN done ELSE place(done, W, u)
  OBVIOUS
<1>5. c = IF v = Nobody \/ L = Nowhere THEN won ELSE place(won, L, v)
  BY <1>3, <1>4 DEF advanced
<1>6. \A x \in DOMAIN b : \A i \in 1 .. 2 : Nowhere # <<x, i>>
  BY DEF Nowhere
<1>7. /\ BracketShaped(won) /\ DOMAIN won = DOMAIN b
      /\ \A y \in DOMAIN b : /\ won[y].winnerTo = done[y].winnerTo /\ won[y].loserTo = done[y].loserTo
                             /\ won[y].winner = done[y].winner /\ won[y].loser = done[y].loser
                             /\ Open(won, y) <=> Open(done, y)
      /\ \A y \in DOMAIN b : \A j \in 1 .. 2 : won[y].slots[j] = IF W = <<y, j>> THEN u ELSE done[y].slots[j]
  <2>1. CASE W = Nowhere
    BY <1>2, <1>4, <1>6, <2>1
  <2>2. CASE W # Nowhere
    <3>1. PICK x \in DOMAIN b, i \in 1 .. 2 : W = <<x, i>>
      BY <1>3, <2>2 DEF Linked
    <3>2. won = place(done, W, u)
      BY <1>4, <2>2
    <3>3. \A y, j : W = <<y, j>> <=> y = x /\ j = i
      BY <3>1
    <3>4. /\ BracketShaped(won) /\ DOMAIN won = DOMAIN done
          /\ \A y \in DOMAIN done : /\ won[y].winnerTo = done[y].winnerTo /\ won[y].loserTo = done[y].loserTo
                                    /\ won[y].winner = done[y].winner /\ won[y].loser = done[y].loser
                                    /\ Open(won, y) <=> Open(done, y)
          /\ \A y \in DOMAIN done : \A j \in 1 .. 2 :
               won[y].slots[j] = IF y = x /\ j = i THEN u ELSE done[y].slots[j]
      <4>1. x \in DOMAIN done
        BY <1>2
      <4> QED
        BY <1>2, <3>1, <3>2, <4>1, Placing
    <3>5. ASSUME NEW y \in DOMAIN b, NEW j \in 1 .. 2
          PROVE  won[y].slots[j] = IF W = <<y, j>> THEN u ELSE done[y].slots[j]
      <4>1. y \in DOMAIN done
        BY <1>2
      <4>2. won[y].slots[j] = IF y = x /\ j = i THEN u ELSE done[y].slots[j]
        BY <3>4, <4>1
      <4> QED
        BY <3>3, <4>2, Zenon
    <3> QED
      BY <1>2, <3>4, <3>5
  <2> QED
    BY <2>1, <2>2
<1>8. /\ BracketShaped(c) /\ DOMAIN c = DOMAIN b
      /\ \A y \in DOMAIN b : /\ c[y].winnerTo = won[y].winnerTo /\ c[y].loserTo = won[y].loserTo
                             /\ c[y].winner = won[y].winner /\ c[y].loser = won[y].loser
                             /\ Open(c, y) <=> Open(won, y)
      /\ \A y \in DOMAIN b : \A j \in 1 .. 2 :
           c[y].slots[j] = IF v # Nobody /\ L = <<y, j>> THEN v ELSE won[y].slots[j]
  <2>1. CASE v = Nobody \/ L = Nowhere
    BY <1>5, <1>6, <1>7, <2>1
  <2>2. CASE v # Nobody /\ L # Nowhere
    <3>1. PICK x \in DOMAIN b, i \in 1 .. 2 : L = <<x, i>>
      BY <1>3, <2>2 DEF Linked
    <3>2. c = place(won, L, v)
      BY <1>5, <2>2
    <3>3. \A y, j : L = <<y, j>> <=> y = x /\ j = i
      BY <3>1
    <3>4. /\ BracketShaped(c) /\ DOMAIN c = DOMAIN won
          /\ \A y \in DOMAIN won : /\ c[y].winnerTo = won[y].winnerTo /\ c[y].loserTo = won[y].loserTo
                                   /\ c[y].winner = won[y].winner /\ c[y].loser = won[y].loser
                                   /\ Open(c, y) <=> Open(won, y)
          /\ \A y \in DOMAIN won : \A j \in 1 .. 2 :
               c[y].slots[j] = IF y = x /\ j = i THEN v ELSE won[y].slots[j]
      <4>1. x \in DOMAIN won
        BY <1>7
      <4> QED
        BY <1>7, <3>1, <3>2, <4>1, Placing
    <3>5. ASSUME NEW y \in DOMAIN b, NEW j \in 1 .. 2
          PROVE  c[y].slots[j] = IF v # Nobody /\ L = <<y, j>> THEN v ELSE won[y].slots[j]
      <4>1. y \in DOMAIN won
        BY <1>7
      <4>2. c[y].slots[j] = IF y = x /\ j = i THEN v ELSE won[y].slots[j]
        BY <3>4, <4>1
      <4> QED
        BY <2>2, <3>3, <4>2, Zenon
    <3> QED
      BY <1>7, <3>4, <3>5
  <2> QED
    BY <2>1, <2>2
<1>9. ASSUME NEW y \in DOMAIN b, NEW j \in 1 .. 2
      PROVE  c[y].slots[j] = IF W = <<y, j>> THEN u ELSE IF v # Nobody /\ L = <<y, j>> THEN v ELSE b[y].slots[j]
  <2>1. ~(W = <<y, j>> /\ L = <<y, j>>)
    <3>1. LinksTo(b, m, y, j) => W # L
      BY <1>3 DEF Linked
    <3> QED
      BY <1>3, <3>1 DEF LinksTo
  <2> QED
    BY <1>2, <1>7, <1>8, <2>1
<1>10. \A x \in DOMAIN b : x # m => /\ Open(c, x) <=> Open(b, x)
                                    /\ c[x].winner = b[x].winner /\ c[x].loser = b[x].loser
  BY <1>2, <1>7, <1>8 DEF Open
<1>11. ~Open(c, m) /\ c[m].winner = u /\ c[m].loser = v
  BY <1>2, <1>7, <1>8
<1>12. \A x \in DOMAIN b : c[x].winnerTo = b[x].winnerTo /\ c[x].loserTo = b[x].loserTo
  BY <1>2, <1>7, <1>8
<1> QED
  BY <1>3, <1>8, <1>9, <1>10, <1>11, <1>12 DEF After

(* Byes.  Brackets as functions to records.                                  *)
MatchOf(V, L) ==
  [slots : [1 .. 2 -> V], state : {"ready", "bye", "pending", "completed"}, winner : V, loser : V,
   winnerTo : L, loserTo : L]

(* Placing a player keeps a bracket one.                                     *)
LEMMA PlacingTyped ==
  ASSUME NEW M, NEW V, NEW L, NEW b \in [M -> MatchOf(V, L)], NEW to, NEW u \in V
  PROVE  place(b, to, u) \in [M -> MatchOf(V, L)]
<1>1. PICK x, i : x = to[1] /\ i = to[2]
  OBVIOUS
<1>2. PICK old : old = b[x]
  OBVIOUS
<1>3. PICK slots : slots = [old.slots EXCEPT ![i] = u]
  OBVIOUS
<1>4. PICK full \in BOOLEAN : full = (Nobody \notin {slots[1], slots[2]})
  OBVIOUS
<1>5. PICK state : state = IF full /\ old.state # "completed" THEN "ready" ELSE old.state
  OBVIOUS
<1>6. PICK new : new = [old EXCEPT !.slots = slots, !.state = state]
  OBVIOUS
<1>7. place(b, to, u) = [b EXCEPT ![x] = new]
  BY <1>1, <1>2, <1>3, <1>4, <1>5, <1>6, Zenon DEF place
<1>8. ASSUME x \in M PROVE new \in MatchOf(V, L)
  <2>1. old \in MatchOf(V, L)
    BY <1>2, <1>8
  <2>2. slots \in [1 .. 2 -> V]
    BY <1>3, <2>1 DEF MatchOf
  <2>3. state \in {"ready", "bye", "pending", "completed"}
    BY <1>5, <2>1 DEF MatchOf
  <2> QED
    BY <1>6, <2>1, <2>2, <2>3 DEF MatchOf
<1>9. PICK R : R = MatchOf(V, L)
  OBVIOUS
<1> QED
  BY <1>7, <1>8, <1>9

Through(b, m) == CHOOSE u \in ToSet(b[m].slots) : u # Nobody

WonBye(b, m, acc) == [acc EXCEPT ![m] = [@ EXCEPT !.winner = Through(b, m), !.state = "completed"]]

PassedOn(b, m, acc) ==
  IF b[m].winnerTo = Nowhere THEN WonBye(b, m, acc) ELSE place(WonBye(b, m, acc), b[m].winnerTo, Through(b, m))

(* So does passing on who has a bye.                                         *)
LEMMA PassedTyped ==
  ASSUME NEW M, NEW V, NEW L, NEW b, NEW acc \in [M -> MatchOf(V, L)], NEW m \in M, Through(b, m) \in V
  PROVE  PassedOn(b, m, acc) \in [M -> MatchOf(V, L)]
<1>1. PICK u \in V : u = Through(b, m)
  OBVIOUS
<1>2. PICK old : old = acc[m] /\ old \in MatchOf(V, L)
  OBVIOUS
<1>3. PICK new : new = [old EXCEPT !.winner = u, !.state = "completed"]
  OBVIOUS
<1>4. new \in MatchOf(V, L)
  BY <1>2, <1>3 DEF MatchOf
<1>5. WonBye(b, m, acc) = [acc EXCEPT ![m] = new]
  BY <1>1, <1>2, <1>3 DEF WonBye
<1>6. WonBye(b, m, acc) \in [M -> MatchOf(V, L)]
  <2>1. PICK R : R = MatchOf(V, L)
    OBVIOUS
  <2> QED
    BY <1>4, <1>5, <2>1
<1> QED
  BY <1>1, <1>6, PlacingTyped DEF PassedOn

(* The byes of a bracket: matches of the first round with one player.        *)
ByesOf(b) == {m \in DOMAIN b : b[m].state = "bye"}

Fresh(b) ==
  /\ IsFiniteSet(ByesOf(b))
  /\ \A m \in DOMAIN b : Rank(m) \in Nat /\ Rank(m) >= 2 /\ Open(b, m)
  /\ \A m \in ByesOf(b) : Rank(m) = 2 /\ Nobody \in ToSet(b[m].slots) /\ ToSet(b[m].slots) # {Nobody}

(* One bye after the other, a function of those which are through.           *)
Passes(b, S, g) == g = [s \in SUBSET S |-> IF s = {} THEN b ELSE PassedOn(b, Pick(s), g[s \ {Pick(s)}])]

(* resolveByes folds over the byes: it passes on one after the other.        *)
LEMMA ByesPass ==
  ASSUME NEW M, NEW V, NEW L, NEW b \in [M -> MatchOf(V, L)], Fresh(b), NEW S, S = ByesOf(b)
  PROVE  \E g : Passes(b, S, g) /\ resolveByes(b) = g[S]
<1>1. \A m \in S : Through(b, m) \in V /\ m \in M
  <2> SUFFICES ASSUME NEW m \in S PROVE Through(b, m) \in V /\ m \in M
    OBVIOUS
  <2>1. m \in M /\ DOMAIN b = M
    BY DEF ByesOf
  <2>2. PICK slots : slots = b[m].slots
    OBVIOUS
  <2>3. slots \in [1 .. 2 -> V]
    BY <2>1, <2>2 DEF MatchOf
  <2>4. ToSet(slots) \subseteq V
    BY <2>3 DEF ToSet
  <2>5. \E u \in ToSet(slots) : u # Nobody
    BY <2>2 DEF Fresh
  <2>6. Through(b, m) \in ToSet(slots)
    BY <2>2, <2>5 DEF Through
  <2> QED
    BY <2>1, <2>4, <2>6
<1>2. PICK A : A = [M -> MatchOf(V, L)]
  OBVIOUS
<1>3. PICK step : step = [p \in S \X A |-> PassedOn(b, p[1], p[2])]
  OBVIOUS
<1>4. \A m \in S : \A acc \in A : step[<<m, acc>>] = PassedOn(b, m, acc) /\ PassedOn(b, m, acc) \in A
  <2> SUFFICES ASSUME NEW m \in S, NEW acc \in A
               PROVE  step[<<m, acc>>] = PassedOn(b, m, acc) /\ PassedOn(b, m, acc) \in A
    OBVIOUS
  <2>1. PassedOn(b, m, acc) \in A
    BY <1>1, <1>2, PassedTyped
  <2>2. <<m, acc>> \in S \X A
    OBVIOUS
  <2> QED
    BY <1>3, <2>1, <2>2
<1>5. IsFiniteSet(S)
  BY DEF Fresh
<1>6. PICK id : id = [m \in S |-> m]
  OBVIOUS
<1>7. PICK g : FoldsTo(Stepping(b, step), id, S, g)
  BY <1>5, FoldsExist
<1>8. \A s : FoldStep(Stepping(b, step), id, g, s)
               = IF s = {} THEN b ELSE step[<<id[Pick(s)], g[s \ {Pick(s)}]>>]
  BY DEF FoldStep, FoldBase, Combined, Stepping
<1>9. g = [s \in SUBSET S |-> FoldStep(Stepping(b, step), id, g, s)]
  BY <1>7, Zenon DEF FoldsTo
<1>10. \A s \in SUBSET S : g[s] = IF s = {} THEN b ELSE step[<<id[Pick(s)], g[s \ {Pick(s)}]>>]
  <2> SUFFICES ASSUME NEW s \in SUBSET S
               PROVE  g[s] = IF s = {} THEN b ELSE step[<<id[Pick(s)], g[s \ {Pick(s)}]>>]
    OBVIOUS
  <2>1. PICK h : h = [r \in SUBSET S |-> FoldStep(Stepping(b, step), id, g, r)]
    OBVIOUS
  <2>2. g = h
    BY <1>9, <2>1, Zenon
  <2>3. h[s] = FoldStep(Stepping(b, step), id, g, s)
    BY <2>1
  <2> QED
    BY <1>8, <2>2, <2>3
<1>11. \A s \in SUBSET S : g[s] \in A
  <2> DEFINE Bad == {s \in SUBSET S : g[s] \notin A}
  <2> SUFFICES ASSUME Bad # {} PROVE FALSE
    OBVIOUS
  <2>1. PICK s \in Bad : \A r \in Bad : r \subseteq s => r = s
    <3>1. Bad \in SUBSET (SUBSET S)
      OBVIOUS
    <3> HIDE DEF Bad
    <3> QED
      BY <1>5, <3>1, LeastSet
  <2>2. s # {}
    BY <1>2, <1>10, <2>1
  <2>3. PICK m, r : m = Pick(s) /\ r = s \ {m}
    OBVIOUS
  <2>4. m \in s
    BY <2>2, <2>3, PickIn
  <2>5. r \in SUBSET S /\ r \notin Bad
    BY <2>1, <2>3, <2>4
  <2>6. g[r] \in A /\ id[m] = m /\ m \in S
    BY <1>6, <2>1, <2>4, <2>5
  <2>7. g[s] = step[<<id[m], g[r]>>]
    BY <1>10, <2>1, <2>2, <2>3
  <2> QED
    BY <1>4, <2>1, <2>6, <2>7
<1>12. Passes(b, S, g)
  <2>1. ASSUME NEW s \in SUBSET S PROVE g[s] = IF s = {} THEN b ELSE PassedOn(b, Pick(s), g[s \ {Pick(s)}])
    <3>1. CASE s = {}
      BY <1>10, <3>1
    <3>2. CASE s # {}
      <4>1. PICK m, r : m = Pick(s) /\ r = s \ {m}
        OBVIOUS
      <4>2. m \in S /\ r \in SUBSET S /\ id[m] = m
        BY <1>6, <3>2, <4>1, PickIn
      <4>3. g[s] = step[<<m, g[r]>>]
        BY <1>10, <3>2, <4>1, <4>2
      <4>4. g[r] \in A
        BY <1>11, <4>2
      <4>5. g[s] = PassedOn(b, m, g[r])
        BY <1>4, <4>2, <4>3, <4>4
      <4> QED
        BY <3>2, <4>1, <4>5
    <3> QED
      BY <3>1, <3>2
  <2>2. PICK h : h = [s \in SUBSET S |-> IF s = {} THEN b ELSE PassedOn(b, Pick(s), g[s \ {Pick(s)}])]
    OBVIOUS
  <2>3. DOMAIN g = SUBSET S /\ g = [s \in SUBSET S |-> g[s]]
    BY <1>9
  <2>4. g = h
    BY <2>1, <2>2, <2>3
  <2> QED
    BY <2>2, <2>4, Zenon DEF Passes
<1>13. PICK f : f = CHOOSE h : Passes(b, S, h)
  OBVIOUS
<1>14. Passes(b, S, f)
  BY <1>12, <1>13
<1>15. resolveByes(b) = f[S]
  BY <1>13, Zenon DEF resolveByes, FoldSet, MapThenFoldSet, Passes, PassedOn, WonBye, Through, Pick, ByesOf
<1> QED
  BY <1>14, <1>15

(* What the byes of T make of a bracket.                                     *)
ByesDone(b, T, acc) ==
  /\ BracketShaped(acc) /\ DOMAIN acc = DOMAIN b
  /\ \A x \in DOMAIN b : acc[x].winnerTo = b[x].winnerTo /\ acc[x].loserTo = b[x].loserTo
  /\ Linked(acc) /\ Flows(acc)
  /\ \A x \in ByesOf(b) : \A i \in 1 .. 2 : acc[x].slots[i] = b[x].slots[i]
  /\ \A x \in ByesOf(b) \ T : Open(acc, x)
  /\ \A w : w # Nobody /\ InPlay(b, w) => InPlay(acc, w)

(* One more bye passed on.                                                   *)
LEMMA ByeStep ==
  ASSUME NEW b, Fresh(b), BracketShaped(b), NEW T, NEW m \in T, m \in ByesOf(b),
         NEW acc, ByesDone(b, T \ {m}, acc), NEW c, c = PassedOn(b, m, acc)
  PROVE  ByesDone(b, T, c)
<1>1. /\ BracketShaped(acc) /\ DOMAIN acc = DOMAIN b
      /\ \A x \in DOMAIN b : acc[x].winnerTo = b[x].winnerTo /\ acc[x].loserTo = b[x].loserTo
      /\ Linked(acc) /\ Flows(acc)
      /\ \A x \in ByesOf(b) : \A i \in 1 .. 2 : acc[x].slots[i] = b[x].slots[i]
      /\ \A x \in ByesOf(b) \ (T \ {m}) : Open(acc, x)
      /\ \A w : w # Nobody /\ InPlay(b, w) => InPlay(acc, w)
  BY DEF ByesDone
<1>2. m \in DOMAIN b /\ Rank(m) = 2 /\ Open(acc, m)
  BY <1>1 DEF ByesOf, Fresh
<1>3. PICK u : u = Through(b, m)
  OBVIOUS
<1>4. PICK s1, s2 : s1 = b[m].slots[1] /\ s2 = b[m].slots[2]
  OBVIOUS
<1>5. ToSet(b[m].slots) = {s1, s2}
  <2>1. DOMAIN b[m].slots = 1 .. 2
    BY <1>2 DEF BracketShaped
  <2>2. \A i : i \in 1 .. 2 <=> i = 1 \/ i = 2
    OBVIOUS
  <2> QED
    BY <1>4, <2>1, <2>2 DEF ToSet
<1>6. Nobody \in {s1, s2} /\ {s1, s2} # {Nobody}
  BY <1>2, <1>5 DEF Fresh
<1>7. u # Nobody /\ u \in {s1, s2}
  <2>1. \E w \in {s1, s2} : w # Nobody
    BY <1>6
  <2> QED
    BY <1>3, <1>5, <2>1 DEF Through
<1>8. acc[m].slots[1] = s1 /\ acc[m].slots[2] = s2
  <2>1. 1 \in 1 .. 2 /\ 2 \in 1 .. 2
    OBVIOUS
  <2> QED
    BY <1>1, <1>4, <2>1
<1>9. Decides(acc, m, u, Nobody)
  BY <1>1, <1>2, <1>6, <1>7, <1>8 DEF Decides
<1>10. acc[m].loser = Nobody
  BY <1>1, <1>2 DEF Flows
<1>11. PICK done : done = WonBye(b, m, acc)
  OBVIOUS
<1>12. Over(acc, done, m, u, Nobody)
  <2>1. done = [acc EXCEPT ![m] = [@ EXCEPT !.winner = u, !.state = "completed"]]
    BY <1>3, <1>11 DEF WonBye
  <2> QED
    BY <1>1, <1>2, <1>10, <2>1, EndingMatch
<1>13. After(acc, c, m, u, Nobody)
  <2>1. c = advanced(done, b[m], u, Nobody)
    BY <1>3, <1>11 DEF PassedOn, advanced
  <2>2. PICK match : match = b[m]
    OBVIOUS
  <2>3. match.winnerTo = acc[m].winnerTo /\ match.loserTo = acc[m].loserTo
    BY <1>1, <1>2, <2>2
  <2> QED
    BY <1>1, <1>2, <1>12, <2>1, <2>2, <2>3, Advancing
<1>14. Linked(c) /\ Flows(c)
  BY <1>1, <1>9, <1>13, LinkedOn, FlowsOn
<1>15. \A w : w # Nobody /\ InPlay(b, w) => InPlay(c, w)
  BY <1>1, <1>9, <1>13, PlayOn
<1>16. /\ BracketShaped(c) /\ DOMAIN c = DOMAIN b
       /\ \A x \in DOMAIN b : c[x].winnerTo = b[x].winnerTo /\ c[x].loserTo = b[x].loserTo
       /\ \A x \in DOMAIN b : x # m => (Open(c, x) <=> Open(acc, x))
  BY <1>1, <1>13 DEF After
<1>17. ASSUME NEW x \in ByesOf(b), NEW i \in 1 .. 2 PROVE c[x].slots[i] = b[x].slots[i]
  <2>1. x \in DOMAIN b /\ Rank(x) = 2
    BY DEF ByesOf, Fresh
  <2>2. LinksTo(acc, m, x, i) => Rank(m) < Rank(x)
    BY <1>1, <1>2, <2>1 DEF Linked
  <2>3. ~LinksTo(acc, m, x, i)
    BY <1>2, <2>1, <2>2
  <2>4. c[x].slots[i] = acc[x].slots[i]
    BY <1>1, <1>13, <2>1, <2>3 DEF After, LinksTo
  <2> QED
    BY <1>1, <2>4
<1>18. ASSUME NEW x \in ByesOf(b) \ T PROVE Open(c, x)
  <2>1. x \in DOMAIN b /\ x # m
    BY DEF ByesOf
  <2> QED
    BY <1>1, <1>16, <2>1
<1> QED
  BY <1>14, <1>15, <1>16, <1>17, <1>18 DEF ByesDone

(* Byes leave a bracket wired as it was, and nobody out.                     *)
LEMMA ByesResolved ==
  ASSUME NEW M, NEW V, NEW L, NEW b \in [M -> MatchOf(V, L)], Fresh(b), Linked(b), Flows(b)
  PROVE  /\ BracketShaped(resolveByes(b)) /\ Linked(resolveByes(b)) /\ Flows(resolveByes(b))
         /\ DOMAIN resolveByes(b) = DOMAIN b
         /\ \A w : w # Nobody /\ InPlay(b, w) => InPlay(resolveByes(b), w)
<1>1. PICK S : S = ByesOf(b)
  OBVIOUS
<1>2. PICK g : Passes(b, S, g) /\ resolveByes(b) = g[S]
  BY <1>1, ByesPass
<1>3. \A s \in SUBSET S : g[s] = IF s = {} THEN b ELSE PassedOn(b, Pick(s), g[s \ {Pick(s)}])
  <2>1. PICK h : h = [s \in SUBSET S |-> IF s = {} THEN b ELSE PassedOn(b, Pick(s), g[s \ {Pick(s)}])]
    OBVIOUS
  <2>2. g = h
    BY <1>2, <2>1, Zenon DEF Passes
  <2>3. \A s \in SUBSET S : h[s] = IF s = {} THEN b ELSE PassedOn(b, Pick(s), g[s \ {Pick(s)}])
    BY <2>1
  <2> QED
    BY <2>2, <2>3
<1>4. IsFiniteSet(S)
  BY <1>1 DEF Fresh
<1>5. BracketShaped(b)
  <2>1. DOMAIN b = M /\ \A m \in M : b[m] \in MatchOf(V, L)
    OBVIOUS
  <2>2. \A r \in MatchOf(V, L) : DOMAIN r = MatchFields /\ DOMAIN r.slots = 1 .. 2
    BY DEF MatchOf, MatchFields
  <2> QED
    BY <2>1, <2>2 DEF BracketShaped
<1>6. ByesDone(b, {}, b)
  <2>1. \A x \in ByesOf(b) : Open(b, x)
    BY DEF Fresh, ByesOf
  <2> QED
    BY <1>5, <2>1 DEF ByesDone
<1>7. \A s \in SUBSET S : ByesDone(b, s, g[s])
  <2> DEFINE Bad == {s \in SUBSET S : ~ByesDone(b, s, g[s])}
  <2> SUFFICES ASSUME Bad # {} PROVE FALSE
    OBVIOUS
  <2>1. PICK s \in Bad : \A r \in Bad : r \subseteq s => r = s
    <3>1. Bad \in SUBSET (SUBSET S)
      OBVIOUS
    <3> HIDE DEF Bad
    <3> QED
      BY <1>4, <3>1, LeastSet
  <2>2. s # {}
    BY <1>3, <1>6, <2>1
  <2>3. PICK m : m = Pick(s)
    OBVIOUS
  <2>4. m \in s /\ m \in ByesOf(b)
    BY <1>1, <2>1, <2>2, <2>3, PickIn
  <2>5. s \ {m} \in SUBSET S /\ s \ {m} \notin Bad
    BY <2>1, <2>4
  <2>6. ByesDone(b, s \ {m}, g[s \ {m}])
    BY <2>5
  <2>7. g[s] = PassedOn(b, m, g[s \ {m}])
    BY <1>3, <2>1, <2>2, <2>3
  <2>8. ByesDone(b, s, g[s])
    BY <1>5, <2>4, <2>6, <2>7, ByeStep
  <2> QED
    BY <2>1, <2>8
<1>8. ByesDone(b, S, g[S])
  BY <1>7
<1> QED
  BY <1>2, <1>8 DEF ByesDone

-----------------------------------------------------------------------------
(* The field doubles with each round.                                        *)
LEMMA FieldSizeIs ==
  /\ FieldSize[0] = 1
  /\ \A k \in Nat : FieldSize[k] \in Nat \ {0} /\ FieldSize[k + 1] = 2 * FieldSize[k]
<1>1. PICK step : step = [x \in Nat \X Nat |-> 2 * x[2]]
  OBVIOUS
<1>2. step \in [Nat \X Nat -> Nat]
  BY <1>1
<1>3. PICK g \in [Nat -> Nat] : g[0] = 1 /\ \A n \in Nat : g[n + 1] = step[<<n, g[n]>>]
  <2>1. PICK A, base : A = Nat /\ base = 1
    OBVIOUS
  <2>2. base \in A /\ step \in [Nat \X A -> A]
    BY <1>2, <2>1
  <2>3. PICK g : RunsFrom(g, A, base, step)
    BY <2>2, NatSteps
  <2> QED
    BY <2>1, <2>3 DEF RunsFrom
<1>4. \A n \in Nat : g[n + 1] = 2 * g[n]
  BY <1>1, <1>3
<1>5. g = [k \in Nat |-> IF k = 0 THEN 1 ELSE 2 * g[k - 1]]
  <2>1. ASSUME NEW k \in Nat PROVE g[k] = IF k = 0 THEN 1 ELSE 2 * g[k - 1]
    <3>1. CASE k = 0
      BY <1>3, <3>1
    <3>2. CASE k # 0
      <4>1. PICK l \in Nat : l = k - 1 /\ l + 1 = k
        BY <3>2
      <4> QED
        BY <1>4, <3>2, <4>1
    <3> QED
      BY <3>1, <3>2
  <2>2. PICK h : h = [k \in Nat |-> IF k = 0 THEN 1 ELSE 2 * g[k - 1]]
    OBVIOUS
  <2>3. g = h
    BY <2>1, <2>2
  <2> QED
    BY <2>2, <2>3
<1>7. FieldSize = [k \in Nat |-> IF k = 0 THEN 1 ELSE 2 * FieldSize[k - 1]]
  BY <1>5, Zenon DEF FieldSize
<1>8. FieldSize[0] = 1
  BY <1>7, Zenon
<1>9. ASSUME NEW k \in Nat PROVE FieldSize[k + 1] = 2 * FieldSize[k]
  <2>1. PICK f : f = FieldSize
    OBVIOUS
  <2>2. f = [l \in Nat |-> IF l = 0 THEN 1 ELSE 2 * f[l - 1]]
    BY <1>7, <2>1, Zenon
  <2>3. f[k + 1] = 2 * f[(k + 1) - 1] /\ (k + 1) - 1 = k
    BY <2>2
  <2> QED
    BY <2>1, <2>3
<1>10. \A k \in Nat : FieldSize[k] \in Nat \ {0}
  <2> DEFINE Bad == {k \in Nat : FieldSize[k] \notin Nat \ {0}}
  <2> SUFFICES ASSUME Bad # {} PROVE FALSE
    OBVIOUS
  <2>1. PICK m \in Bad : \A n \in Bad : m <= n
    <3>1. Bad \in SUBSET Nat
      OBVIOUS
    <3> HIDE DEF Bad
    <3> QED
      BY <3>1, LeastNat
  <2>2. m # 0
    BY <1>8, <2>1
  <2>3. PICK l \in Nat : m = l + 1
    <3>1. m \in Nat /\ m - 1 \in Nat /\ m = (m - 1) + 1
      BY <2>2
    <3> QED
      BY <3>1
  <2>4. FieldSize[l] \in Nat \ {0}
    BY <2>1, <2>3
  <2> QED
    BY <1>9, <2>1, <2>3, <2>4
<1> QED
  BY <1>8, <1>9, <1>10

(* There are rounds enough.                                                  *)
LEMMA RoundsFit ==
  ASSUME NEW n \in Nat
  PROVE  /\ RoundsFor(n) \in Nat /\ FieldSize[RoundsFor(n)] >= n
         /\ n >= 2 => RoundsFor(n) >= 1
         /\ n >= 3 => RoundsFor(n) >= 2
<1>0. PICK F : F = FieldSize
  OBVIOUS
<1>1. F[0] = 1 /\ \A k \in Nat : F[k] \in Nat \ {0} /\ F[k + 1] = 2 * F[k]
  BY <1>0, FieldSizeIs
<1>2. F[n] >= n
  <2> DEFINE Bad == {k \in Nat : ~(F[k] >= k)}
  <2> SUFFICES ASSUME Bad # {} PROVE FALSE
    OBVIOUS
  <2>1. PICK m \in Bad : \A k \in Bad : m <= k
    <3>1. Bad \in SUBSET Nat
      OBVIOUS
    <3> HIDE DEF Bad
    <3> QED
      BY <3>1, LeastNat
  <2>2. m # 0
    BY <1>1, <2>1
  <2>3. PICK l \in Nat : m = l + 1
    <3>1. m \in Nat /\ m - 1 \in Nat /\ m = (m - 1) + 1
      BY <2>2
    <3> QED
      BY <3>1
  <2>4. F[l] >= l
    BY <2>1, <2>3
  <2>5. F[m] = 2 * F[l] /\ F[l] \in Nat \ {0}
    BY <1>1, <2>3
  <2>6. F[m] >= m
    BY <2>3, <2>4, <2>5
  <2> QED
    BY <2>1, <2>6
<1>3. \E k \in 0 .. n : F[k] >= n /\ \A j \in 0 .. (k - 1) : F[j] < n
  <2> DEFINE Enough == {k \in 0 .. n : F[k] >= n}
  <2>1. PICK m \in Enough : \A k \in Enough : m <= k
    <3>1. Enough \in SUBSET Nat /\ Enough # {}
      BY <1>2
    <3> HIDE DEF Enough
    <3> QED
      BY <3>1, LeastNat
  <2>2. ASSUME NEW j \in 0 .. (m - 1) PROVE F[j] < n
    <3>1. j \in 0 .. n /\ j < m /\ F[j] \in Nat
      BY <1>1, <2>1
    <3> QED
      BY <2>1, <3>1
  <2> QED
    BY <2>1, <2>2
<1>4. PICK k : k = RoundsFor(n)
  OBVIOUS
<1>5. k \in 0 .. n /\ F[k] >= n
  BY <1>0, <1>3, <1>4, Zenon DEF RoundsFor
<1>6. F[1] = 2
  BY <1>1
<1> QED
  BY <1>0, <1>1, <1>4, <1>5, <1>6

(* A permutation of the first n numbers.                                     *)
Permutes(s, n) ==
  /\ s \in [1 .. n -> 1 .. n]
  /\ \A i, j \in 1 .. n : s[i] = s[j] => i = j
  /\ \A v \in 1 .. n : \E i \in 1 .. n : s[i] = v

Doubled(s, n) == [i \in 1 .. 2 * n |-> IF i % 2 = 1 THEN s[(i + 1) \div 2] ELSE 2 * n + 1 - s[i \div 2]]

(* Facing each seed with its counterpart in a field twice the size gives a   *)
(* permutation of the seeds of that field.                                   *)
LEMMA SeedsDouble ==
  ASSUME NEW n \in Nat, NEW s, Permutes(s, n)
  PROVE  Permutes(Doubled(s, n), 2 * n)
<1>1. PICK d : d = Doubled(s, n)
  OBVIOUS
<1>2. ASSUME NEW i \in 1 .. 2 * n
      PROVE  \E j \in 1 .. n : \/ i = 2 * j - 1 /\ d[i] = s[j] /\ d[i] \in 1 .. n
                               \/ i = 2 * j /\ d[i] = 2 * n + 1 - s[j] /\ d[i] \in (n + 1) .. 2 * n
  <2>1. d[i] = IF i % 2 = 1 THEN s[(i + 1) \div 2] ELSE 2 * n + 1 - s[i \div 2]
    BY <1>1 DEF Doubled
  <2>2. CASE i % 2 = 1
    <3>1. PICK j \in 1 .. n : j = (i + 1) \div 2 /\ i = 2 * j - 1
      BY <2>2
    <3>2. s[j] \in 1 .. n
      BY DEF Permutes
    <3> QED
      BY <2>1, <2>2, <3>1, <3>2
  <2>3. CASE i % 2 # 1
    <3>1. PICK j \in 1 .. n : j = i \div 2 /\ i = 2 * j
      BY <2>3
    <3>2. s[j] \in 1 .. n
      BY DEF Permutes
    <3> QED
      BY <2>1, <2>3, <3>1, <3>2
  <2> QED
    BY <2>2, <2>3
<1>3. ASSUME NEW j \in 1 .. n
      PROVE  /\ 2 * j - 1 \in 1 .. 2 * n /\ d[2 * j - 1] = s[j]
             /\ 2 * j \in 1 .. 2 * n /\ d[2 * j] = 2 * n + 1 - s[j]
  <2>1. 2 * j - 1 \in 1 .. 2 * n /\ 2 * j \in 1 .. 2 * n
    OBVIOUS
  <2>2. (2 * j - 1) % 2 = 1 /\ (2 * j) % 2 = 0 /\ ((2 * j - 1) + 1) \div 2 = j /\ (2 * j) \div 2 = j
    OBVIOUS
  <2> QED
    BY <1>1, <2>1, <2>2 DEF Doubled
<1>4. d \in [1 .. 2 * n -> 1 .. 2 * n]
  <2>1. \A i \in 1 .. 2 * n : d[i] \in 1 .. 2 * n
    BY <1>2
  <2>2. d = [i \in 1 .. 2 * n |-> d[i]]
    BY <1>1 DEF Doubled
  <2> QED
    BY <2>1, <2>2
<1>5. ASSUME NEW i \in 1 .. 2 * n, NEW j \in 1 .. 2 * n, d[i] = d[j] PROVE i = j
  <2>1. PICK a \in 1 .. n : \/ i = 2 * a - 1 /\ d[i] = s[a] /\ d[i] \in 1 .. n
                            \/ i = 2 * a /\ d[i] = 2 * n + 1 - s[a] /\ d[i] \in (n + 1) .. 2 * n
    BY <1>2
  <2>2. PICK b \in 1 .. n : \/ j = 2 * b - 1 /\ d[j] = s[b] /\ d[j] \in 1 .. n
                            \/ j = 2 * b /\ d[j] = 2 * n + 1 - s[b] /\ d[j] \in (n + 1) .. 2 * n
    BY <1>2
  <2>3. s[a] \in 1 .. n /\ s[b] \in 1 .. n
    BY DEF Permutes
  <2>4. s[a] = s[b]
    BY <1>5, <2>1, <2>2, <2>3
  <2>5. a = b
    BY <2>4 DEF Permutes
  <2> QED
    BY <1>5, <2>1, <2>2, <2>5
<1>6. ASSUME NEW v \in 1 .. 2 * n PROVE \E i \in 1 .. 2 * n : d[i] = v
  <2>1. CASE v <= n
    <3>1. PICK j \in 1 .. n : s[j] = v
      BY <2>1 DEF Permutes
    <3> QED
      BY <1>3, <3>1
  <2>2. CASE v > n
    <3>1. 2 * n + 1 - v \in 1 .. n
      BY <2>2
    <3>2. PICK j \in 1 .. n : s[j] = 2 * n + 1 - v
      BY <3>1 DEF Permutes
    <3>3. 2 * n + 1 - s[j] = v
      BY <3>2
    <3> QED
      BY <1>3, <3>3
  <2> QED
    BY <2>1, <2>2
<1> QED
  BY <1>1, <1>4, <1>5, <1>6 DEF Permutes

NextSeeds(F, n, s) ==
  [i \in 1 .. F[n + 1] |-> IF i % 2 = 1 THEN s[(i + 1) \div 2] ELSE F[n + 1] + 1 - s[i \div 2]]

(* standardSeedOrder is a permutation of the seeds, for fields of any size.  *)
LEMMA SeedOrderIs ==
  \A k \in Nat \ {0} : Permutes(standardSeedOrder[k], FieldSize[k])
<1>0. PICK F : F = FieldSize
  OBVIOUS
<1>1. F[0] = 1 /\ \A k \in Nat : F[k] \in Nat \ {0} /\ F[k + 1] = 2 * F[k]
  BY <1>0, FieldSizeIs
<1>2. PICK A : A = Seq(Int)
  OBVIOUS
<1>3. PICK base : base = <<1, 2>>
  OBVIOUS
<1>4. base \in A
  BY <1>2, <1>3
<1>5. PICK step : step = [x \in Nat \X A |-> IF x[1] >= 1 /\ Permutes(x[2], F[x[1]]) THEN NextSeeds(F, x[1], x[2]) ELSE base]
  OBVIOUS
<1>6. \A n \in Nat : \A s : Permutes(s, F[n]) => Permutes(NextSeeds(F, n, s), F[n + 1])
  <2> SUFFICES ASSUME NEW n \in Nat, NEW s, Permutes(s, F[n]) PROVE Permutes(NextSeeds(F, n, s), F[n + 1])
    OBVIOUS
  <2>1. PICK f \in Nat : f = F[n] /\ F[n + 1] = 2 * f
    BY <1>1
  <2>2. NextSeeds(F, n, s) = Doubled(s, f)
    BY <2>1 DEF Doubled, NextSeeds
  <2> QED
    BY <2>1, <2>2, SeedsDouble
<1>7. \A n \in Nat : \A s : Permutes(s, F[n]) => s \in A
  <2> SUFFICES ASSUME NEW n \in Nat, NEW s, Permutes(s, F[n]) PROVE s \in A
    OBVIOUS
  <2>1. PICK f \in Nat : f = F[n]
    BY <1>1
  <2>2. s \in [1 .. f -> Int]
    BY <2>1 DEF Permutes
  <2> QED
    BY <1>2, <2>2
<1>8. \A n \in Nat : \A s \in A : step[<<n, s>>] = IF n >= 1 /\ Permutes(s, F[n]) THEN NextSeeds(F, n, s) ELSE base
  BY <1>5
<1>9. step \in [Nat \X A -> A]
  <2>1. \A x \in Nat \X A : (IF x[1] >= 1 /\ Permutes(x[2], F[x[1]]) THEN NextSeeds(F, x[1], x[2]) ELSE base) \in A
    <3> SUFFICES ASSUME NEW n \in Nat, NEW s \in A, Permutes(s, F[n]) PROVE NextSeeds(F, n, s) \in A
      BY <1>4
    <3>1. Permutes(NextSeeds(F, n, s), F[n + 1]) /\ n + 1 \in Nat
      BY <1>6
    <3> QED
      BY <1>7, <3>1
  <2> QED
    BY <1>5, <2>1
<1>10. PICK g \in [Nat -> A] : g[0] = base /\ \A n \in Nat : g[n + 1] = step[<<n, g[n]>>]
  <2>1. PICK g : RunsFrom(g, A, base, step)
    BY <1>4, <1>9, NatSteps
  <2> QED
    BY <2>1 DEF RunsFrom
<1>11. g[1] = base
  <2>1. g[1] = step[<<0, base>>]
    <3>1. 0 + 1 = 1 /\ 0 \in Nat
      OBVIOUS
    <3>2. g[0 + 1] = step[<<0, g[0]>>]
      BY <1>10
    <3> QED
      BY <1>10, <3>1, <3>2
  <2>2. step[<<0, base>>] = base
    BY <1>4, <1>8
  <2> QED
    BY <2>1, <2>2
<1>12. Permutes(base, F[1])
  <2>1. F[1] = 2
    BY <1>1
  <2>2. base \in [1 .. 2 -> 1 .. 2] /\ base[1] = 1 /\ base[2] = 2
    BY <1>3
  <2>3. \A i \in 1 .. 2 : i = 1 \/ i = 2
    OBVIOUS
  <2> QED
    BY <2>1, <2>2, <2>3 DEF Permutes
<1>13. \A k \in Nat \ {0} : Permutes(g[k], F[k])
  <2> DEFINE Bad == {k \in Nat \ {0} : ~Permutes(g[k], F[k])}
  <2> SUFFICES ASSUME Bad # {} PROVE FALSE
    OBVIOUS
  <2>1. PICK m \in Bad : \A k \in Bad : m <= k
    <3>1. Bad \in SUBSET Nat
      OBVIOUS
    <3> HIDE DEF Bad
    <3> QED
      BY <3>1, LeastNat
  <2>2. m # 1 /\ m \in Nat \ {0}
    BY <1>11, <1>12, <2>1
  <2>3. PICK l \in Nat : m = l + 1 /\ l >= 1
    <3>1. m \in Nat /\ m - 1 \in Nat /\ m = (m - 1) + 1 /\ m - 1 >= 1
      BY <2>2
    <3> QED
      BY <3>1
  <2>4. Permutes(g[l], F[l])
    BY <2>1, <2>3
  <2>5. g[m] = NextSeeds(F, l, g[l])
    BY <1>8, <1>10, <2>3, <2>4
  <2>6. Permutes(g[m], F[m])
    BY <1>6, <2>3, <2>4, <2>5
  <2> QED
    BY <2>1, <2>6
<1> DEFINE Seeds(s) == s = [k \in Nat |-> IF k <= 1 THEN <<1, 2>>
                                          ELSE [i \in 1 .. FieldSize[k] |-> IF i % 2 = 1 THEN s[k - 1][(i + 1) \div 2]
                                                                            ELSE FieldSize[k] + 1 - s[k - 1][i \div 2]]]
<1>14. Seeds(g)
  <2> DEFINE Value(k) == IF k <= 1 THEN <<1, 2>>
                         ELSE [i \in 1 .. FieldSize[k] |-> IF i % 2 = 1 THEN g[k - 1][(i + 1) \div 2]
                                                           ELSE FieldSize[k] + 1 - g[k - 1][i \div 2]]
  <2>1. ASSUME NEW k \in Nat PROVE g[k] = Value(k)
    <3>1. CASE k <= 1
      <4>1. k = 0 \/ k = 1
        BY <3>1
      <4> QED
        BY <1>3, <1>10, <1>11, <3>1, <4>1
    <3>2. CASE k > 1
      <4>1. PICK l \in Nat : k = l + 1 /\ l = k - 1 /\ l >= 1
        <5>1. k - 1 \in Nat /\ k = (k - 1) + 1 /\ k - 1 >= 1
          BY <3>2
        <5> QED
          BY <5>1
      <4>2. g[k] = NextSeeds(F, l, g[l])
        <5>1. g[l + 1] = step[<<l, g[l]>>] /\ g[l] \in A
          BY <1>10
        <5>2. Permutes(g[l], F[l])
          BY <1>13, <4>1
        <5> QED
          BY <1>8, <4>1, <5>1, <5>2
      <4>3. Value(k) = NextSeeds(F, l, g[l])
        BY <1>0, <3>2, <4>1 DEF NextSeeds
      <4> QED
        BY <4>2, <4>3
    <3> QED
      BY <3>1, <3>2
  <2>2. PICK h : h = [k \in Nat |-> Value(k)]
    OBVIOUS
  <2>3. g = h
    <3> HIDE DEF Value
    <3> QED
      BY <2>1, <2>2
  <2> QED
    BY <2>2, <2>3, Zenon
<1>15. PICK s : s = standardSeedOrder
  OBVIOUS
<1>16. Seeds(s)
  <2>1. PICK h : h = CHOOSE r : Seeds(r)
    OBVIOUS
  <2>2. Seeds(h)
    BY <1>14, <2>1, Zenon
  <2>3. standardSeedOrder = h
    BY <2>1, Zenon DEF standardSeedOrder
  <2> QED
    BY <1>15, <2>2, <2>3
<1>17. s[1] = base
  BY <1>3, <1>16
<1>18. ASSUME NEW n \in Nat, n >= 1 PROVE s[n + 1] = NextSeeds(F, n, s[n])
  <2>1. n + 1 \in Nat /\ ~(n + 1 <= 1) /\ (n + 1) - 1 = n
    BY <1>18
  <2> QED
    BY <1>0, <1>16, <2>1 DEF NextSeeds
<1>19. \A k \in Nat \ {0} : Permutes(s[k], F[k])
  <2> DEFINE Bad == {k \in Nat \ {0} : ~Permutes(s[k], F[k])}
  <2> SUFFICES ASSUME Bad # {} PROVE FALSE
    OBVIOUS
  <2>1. PICK m \in Bad : \A k \in Bad : m <= k
    <3>1. Bad \in SUBSET Nat
      OBVIOUS
    <3> HIDE DEF Bad
    <3> QED
      BY <3>1, LeastNat
  <2>2. m # 1 /\ m \in Nat \ {0}
    BY <1>12, <1>17, <2>1
  <2>3. PICK l \in Nat : m = l + 1 /\ l >= 1
    <3>1. m \in Nat /\ m - 1 \in Nat /\ m = (m - 1) + 1 /\ m - 1 >= 1
      BY <2>2
    <3> QED
      BY <3>1
  <2>4. Permutes(s[l], F[l])
    BY <2>1, <2>3
  <2>5. s[m] = NextSeeds(F, l, s[l])
    BY <1>18, <2>3
  <2>6. Permutes(s[m], F[m])
    <3>1. Permutes(NextSeeds(F, l, s[l]), F[l + 1])
      BY <1>6, <2>4
    <3> QED
      BY <2>3, <2>5, <3>1
  <2> QED
    BY <2>1, <2>6
<1> QED
  BY <1>0, <1>15, <1>19

(* The entrants in the order of their seeds.                                 *)
Entered(seq) == seq \in Seq(Users) /\ \A i, j \in DOMAIN seq : seq[i] = seq[j] => i = j

Slots == Users \cup {Nobody}

(* The first round gives every entrant one slot.                             *)
LEMMA FirstRoundIs ==
  ASSUME NEW seq, Entered(seq), NEW k \in Nat, k >= 1, FieldSize[k] >= Len(seq),
         NEW h, h = FieldSize[k - 1]
  PROVE  /\ h \in Nat \ {0}
         /\ \A p \in 0 .. (h - 1) :
              /\ FirstRound(seq, k, p) = <<FirstRound(seq, k, p)[1], FirstRound(seq, k, p)[2]>>
              /\ FirstRound(seq, k, p)[1] \in Slots /\ FirstRound(seq, k, p)[2] \in Slots
              /\ FirstRound(seq, k, p)[1] = FirstRound(seq, k, p)[2] => FirstRound(seq, k, p)[1] = Nobody
         /\ \A p, q \in 0 .. (h - 1) : \A i, j \in {1, 2} :
              FirstRound(seq, k, p)[i] = FirstRound(seq, k, q)[j] /\ FirstRound(seq, k, p)[i] # Nobody => p = q
         /\ \A w \in ToSet(seq) : \E p \in 0 .. (h - 1) : w = FirstRound(seq, k, p)[1] \/ w = FirstRound(seq, k, p)[2]
<1>1. PICK n \in Nat : DOMAIN seq = 1 .. n /\ Len(seq) = n
  BY DEF Entered
<1>2. h \in Nat \ {0} /\ FieldSize[k] = 2 * h
  <2>1. PICK l \in Nat : k = l + 1 /\ l = k - 1
    <3>1. k - 1 \in Nat /\ k = (k - 1) + 1
      OBVIOUS
    <3> QED
      BY <3>1
  <2> QED
    BY <2>1, FieldSizeIs
<1>3. PICK order1 : order1 = standardSeedOrder[k]
  OBVIOUS
<1>4. Permutes(order1, 2 * h)
  <2>1. k \in Nat \ {0}
    OBVIOUS
  <2> QED
    BY <1>2, <1>3, <2>1, SeedOrderIs
<1>5. PICK G : G = [i \in 1 .. 2 * h |-> Seeded(seq, order1[i])]
  OBVIOUS
<1>6. ASSUME NEW i \in 1 .. 2 * h
      PROVE  /\ order1[i] \in 1 .. 2 * h
             /\ G[i] = IF order1[i] <= n THEN seq[order1[i]] ELSE Nobody
             /\ G[i] \in Slots
             /\ G[i] # Nobody => order1[i] \in 1 .. n
  <2>1. order1[i] \in 1 .. 2 * h
    BY <1>4 DEF Permutes
  <2>2. G[i] = IF order1[i] <= n THEN seq[order1[i]] ELSE Nobody
    BY <1>1, <1>5 DEF Seeded
  <2>3. CASE order1[i] <= n
    <3>1. order1[i] \in DOMAIN seq
      BY <1>1, <2>1, <2>3
    <3>2. seq[order1[i]] \in Users
      BY <3>1 DEF Entered
    <3> QED
      BY <1>1, <2>1, <2>2, <2>3, <3>1, <3>2 DEF Slots
  <2>4. CASE ~(order1[i] <= n)
    BY <2>1, <2>2, <2>4 DEF Slots
  <2> QED
    BY <2>3, <2>4
<1>7. ASSUME NEW i \in 1 .. 2 * h, NEW j \in 1 .. 2 * h, G[i] = G[j], G[i] # Nobody PROVE i = j
  <2>1. order1[i] \in DOMAIN seq /\ order1[j] \in DOMAIN seq /\ seq[order1[i]] = seq[order1[j]]
    BY <1>1, <1>6, <1>7
  <2>2. order1[i] = order1[j]
    BY <2>1 DEF Entered
  <2> QED
    BY <1>4, <2>2 DEF Permutes
<1>8. ASSUME NEW p \in 0 .. (h - 1)
      PROVE  /\ 2 * p + 1 \in 1 .. 2 * h /\ 2 * p + 2 \in 1 .. 2 * h
             /\ FirstRound(seq, k, p) = <<G[2 * p + 1], G[2 * p + 2]>>
  <2>1. 2 * p + 1 \in 1 .. 2 * h /\ 2 * p + 2 \in 1 .. 2 * h
    BY <1>2
  <2> QED
    BY <1>3, <1>5, <2>1 DEF FirstRound
<1>9. ASSUME NEW p \in 0 .. (h - 1), NEW i \in {1, 2}
      PROVE  FirstRound(seq, k, p)[i] = G[2 * p + i] /\ 2 * p + i \in 1 .. 2 * h
  BY <1>8
<1>10. ASSUME NEW p \in 0 .. (h - 1)
       PROVE  /\ FirstRound(seq, k, p) = <<FirstRound(seq, k, p)[1], FirstRound(seq, k, p)[2]>>
              /\ FirstRound(seq, k, p)[1] \in Slots /\ FirstRound(seq, k, p)[2] \in Slots
              /\ FirstRound(seq, k, p)[1] = FirstRound(seq, k, p)[2] => FirstRound(seq, k, p)[1] = Nobody
  <2>1. PICK r : r = FirstRound(seq, k, p)
    OBVIOUS
  <2>2. PICK a, b : a = 2 * p + 1 /\ b = 2 * p + 2 /\ a # b
    OBVIOUS
  <2>3. r = <<G[a], G[b]>> /\ a \in 1 .. 2 * h /\ b \in 1 .. 2 * h
    BY <1>8, <2>1, <2>2
  <2>4. G[a] \in Slots /\ G[b] \in Slots
    BY <1>6, <2>3
  <2>5. G[a] = G[b] => G[a] = Nobody
    BY <1>7, <2>2, <2>3
  <2>6. r[1] = G[a] /\ r[2] = G[b]
    BY <2>3
  <2> QED
    BY <2>1, <2>3, <2>4, <2>5, <2>6
<1>11. ASSUME NEW p \in 0 .. (h - 1), NEW q \in 0 .. (h - 1), NEW i \in {1, 2}, NEW j \in {1, 2},
              FirstRound(seq, k, p)[i] = FirstRound(seq, k, q)[j], FirstRound(seq, k, p)[i] # Nobody
       PROVE  p = q
  <2>1. 2 * p + i = 2 * q + j
    BY <1>7, <1>9, <1>11
  <2> QED
    BY <2>1
<1>12. ASSUME NEW w \in ToSet(seq)
       PROVE  \E p \in 0 .. (h - 1) : w = FirstRound(seq, k, p)[1] \/ w = FirstRound(seq, k, p)[2]
  <2>1. PICK a \in 1 .. n : seq[a] = w
    BY <1>1 DEF ToSet
  <2>2. a \in 1 .. 2 * h
    BY <1>1, <1>2
  <2>3. PICK i \in 1 .. 2 * h : order1[i] = a
    BY <1>4, <2>2 DEF Permutes
  <2>4. G[i] = w
    BY <1>6, <2>1, <2>3
  <2>5. \E p \in 0 .. (h - 1) : i = 2 * p + 1 \/ i = 2 * p + 2
    <3>1. CASE i % 2 = 1
      <4>1. (i - 1) \div 2 \in 0 .. (h - 1) /\ i = 2 * ((i - 1) \div 2) + 1
        BY <1>2, <3>1
      <4> QED
        BY <4>1
    <3>2. CASE i % 2 # 1
      <4>1. (i \div 2) - 1 \in 0 .. (h - 1) /\ i = 2 * ((i \div 2) - 1) + 2
        BY <1>2, <3>2
      <4> QED
        BY <4>1
    <3> QED
      BY <3>1, <3>2
  <2>6. PICK p \in 0 .. (h - 1) : i = 2 * p + 1 \/ i = 2 * p + 2
    BY <2>5
  <2> QED
    BY <1>8, <2>4, <2>6
<1> QED
  BY <1>2, <1>10, <1>11, <1>12

-----------------------------------------------------------------------------
(* A bracket as it is drawn: the first round of one side holds the entrants, *)
(* all other matches are empty.                                              *)
Ids3 == {"main", "winners", "losers", "final"} \X (Nat \ {0}) \X Nat

Drawn(b, seq, k, side, L) ==
  /\ side \in {"main", "winners"}
  /\ b = [m \in DOMAIN b |-> b[m]]
  /\ \A m \in DOMAIN b :
       /\ m \in Ids3
       /\ \E w, l \in L : b[m] = makeMatch(m, IF m[1] = side /\ m[2] = 1 THEN FirstRound(seq, k, m[3]) ELSE EmptySlots, w, l)
       /\ m[1] = side /\ m[2] = 1 => m[3] \in 0 .. (FieldSize[k - 1] - 1)
  /\ \A p \in 0 .. (FieldSize[k - 1] - 1) : <<side, 1, p>> \in DOMAIN b
  /\ Linked(b)

(* What makeMatch makes.                                                     *)
LEMMA MatchMade ==
  ASSUME NEW V, Nobody \in V, NEW L, NEW w \in L, NEW l \in L, NEW id, NEW slots, slots = <<slots[1], slots[2]>>,
         slots[1] \in V, slots[2] \in V, NEW m, m = makeMatch(id, slots, w, l)
  PROVE  /\ m.slots = slots /\ m.winnerTo = w /\ m.loserTo = l /\ m.winner = Nobody /\ m.loser = Nobody
         /\ m.state \in {"ready", "bye", "pending"}
         /\ m.state = "bye" => Nobody \in ToSet(slots) /\ ToSet(slots) # {Nobody} /\ id[2] = 1 /\ id[1] # "losers"
         /\ m \in MatchOf(V, L)
<1>1. PICK state : state = StateOf(id, slots)
  OBVIOUS
<1>2. m = [slots |-> slots, state |-> state, winner |-> Nobody, loser |-> Nobody, winnerTo |-> w, loserTo |-> l]
  BY <1>1 DEF makeMatch
<1>3. state \in {"ready", "bye", "pending"}
  BY <1>1 DEF StateOf
<1>4. ToSet(slots) = {slots[1], slots[2]}
  <2>1. PICK s1, s2 : s1 = slots[1] /\ s2 = slots[2] /\ slots = <<s1, s2>>
    OBVIOUS
  <2>2. DOMAIN slots = 1 .. 2 /\ \A i : i \in 1 .. 2 <=> i = 1 \/ i = 2
    BY <2>1
  <2> QED
    BY <2>2 DEF ToSet
<1>5. state = "bye" => Nobody \in ToSet(slots) /\ ToSet(slots) # {Nobody} /\ id[2] = 1 /\ id[1] # "losers"
  <2>1. state = "bye" => Nobody \in {slots[1], slots[2]} /\ slots[1] # slots[2] /\ id[2] = 1 /\ id[1] # "losers"
    BY <1>1 DEF StateOf
  <2>2. slots[1] # slots[2] => {slots[1], slots[2]} # {Nobody}
    OBVIOUS
  <2> QED
    BY <1>4, <2>1, <2>2
<1>6. m \in MatchOf(V, L)
  <2>1. PICK s1 \in V, s2 \in V : slots = <<s1, s2>>
    OBVIOUS
  <2>2. slots \in [1 .. 2 -> V]
    BY <2>1
  <2>3. state \in {"ready", "bye", "pending", "completed"}
    BY <1>3
  <2> QED
    BY <1>2, <2>2, <2>3 DEF MatchOf
<1>7. /\ m.slots = slots /\ m.winnerTo = w /\ m.loserTo = l /\ m.winner = Nobody /\ m.loser = Nobody
      /\ m.state = state
  BY <1>2
<1> QED
  BY <1>3, <1>5, <1>6, <1>7

(* As drawn, a bracket has every entrant in one match of the first round.    *)
LEMMA DrawnFlows ==
  ASSUME NEW seq, Entered(seq), NEW k \in Nat, k >= 1, FieldSize[k] >= Len(seq), NEW side, NEW L,
         NEW b, Drawn(b, seq, k, side, L)
  PROVE  /\ b \in [DOMAIN b -> MatchOf(Slots, L)] /\ Fresh(b) /\ Flows(b)
         /\ \A w \in ToSet(seq) : InPlay(b, w)
<1>1. PICK h : h = FieldSize[k - 1]
  OBVIOUS
<1>2. /\ h \in Nat \ {0}
      /\ \A p \in 0 .. (h - 1) :
           /\ FirstRound(seq, k, p) = <<FirstRound(seq, k, p)[1], FirstRound(seq, k, p)[2]>>
           /\ FirstRound(seq, k, p)[1] \in Slots /\ FirstRound(seq, k, p)[2] \in Slots
           /\ FirstRound(seq, k, p)[1] = FirstRound(seq, k, p)[2] => FirstRound(seq, k, p)[1] = Nobody
      /\ \A p, q \in 0 .. (h - 1) : \A i, j \in {1, 2} :
           FirstRound(seq, k, p)[i] = FirstRound(seq, k, q)[j] /\ FirstRound(seq, k, p)[i] # Nobody => p = q
      /\ \A w \in ToSet(seq) : \E p \in 0 .. (h - 1) : w = FirstRound(seq, k, p)[1] \/ w = FirstRound(seq, k, p)[2]
  BY <1>1, FirstRoundIs
<1>3. /\ side \in {"main", "winners"} /\ b = [m \in DOMAIN b |-> b[m]] /\ Linked(b)
      /\ \A p \in 0 .. (h - 1) : <<side, 1, p>> \in DOMAIN b
  BY <1>1 DEF Drawn
<1> DEFINE First(m) == m[1] = side /\ m[2] = 1
           SlotsOf(m) == IF First(m) THEN FirstRound(seq, k, m[3]) ELSE EmptySlots
<1>4. ASSUME NEW m \in DOMAIN b
      PROVE  /\ SlotsOf(m) = <<SlotsOf(m)[1], SlotsOf(m)[2]>>
             /\ SlotsOf(m)[1] \in Slots /\ SlotsOf(m)[2] \in Slots
             /\ SlotsOf(m)[1] = SlotsOf(m)[2] => SlotsOf(m)[1] = Nobody
             /\ ~First(m) => SlotsOf(m)[1] = Nobody /\ SlotsOf(m)[2] = Nobody
             /\ First(m) => m[3] \in 0 .. (h - 1) /\ m = <<side, 1, m[3]>> /\ Rank(m) = 2
             /\ Rank(m) \in Nat /\ Rank(m) >= 2 /\ (m[2] = 1 /\ m[1] # "losers" => Rank(m) = 2)
  <2>1. m \in Ids3 /\ (First(m) => m[3] \in 0 .. (h - 1))
    BY <1>1 DEF Drawn
  <2>2. Rank(m) \in Nat /\ Rank(m) >= 2 /\ (m[2] = 1 /\ m[1] # "losers" => Rank(m) = 2)
    BY <2>1 DEF Rank, Ids3
  <2>3. First(m) => m = <<side, 1, m[3]>> /\ Rank(m) = 2
    <3>1. m = <<m[1], m[2], m[3]>>
      BY <2>1 DEF Ids3
    <3>2. side # "losers"
      BY <1>3
    <3> QED
      BY <2>2, <3>1, <3>2
  <2>4. EmptySlots = <<Nobody, Nobody>> /\ Nobody \in Slots
    BY DEF EmptySlots, Slots
  <2>5. CASE First(m)
    <3>1. SlotsOf(m) = FirstRound(seq, k, m[3])
      BY <2>5
    <3> HIDE DEF SlotsOf
    <3> QED
      BY <1>2, <2>1, <2>2, <2>3, <2>5, <3>1
  <2>6. CASE ~First(m)
    <3>1. SlotsOf(m) = <<Nobody, Nobody>>
      BY <2>4, <2>6
    <3> HIDE DEF SlotsOf
    <3> QED
      BY <2>1, <2>2, <2>3, <2>4, <2>6, <3>1
  <2> QED
    BY <2>5, <2>6
<1>5. ASSUME NEW m \in DOMAIN b
      PROVE  /\ b[m] \in MatchOf(Slots, L)
             /\ b[m].slots = SlotsOf(m)
             /\ b[m].winner = Nobody /\ b[m].loser = Nobody
             /\ Open(b, m)
             /\ b[m].state = "bye" => /\ Nobody \in ToSet(b[m].slots) /\ ToSet(b[m].slots) # {Nobody}
                                      /\ m[2] = 1 /\ m[1] # "losers"
  <2>1. PICK w \in L, l \in L : b[m] = makeMatch(m, SlotsOf(m), w, l)
    BY DEF Drawn
  <2>2. PICK s : s = SlotsOf(m)
    OBVIOUS
  <2>3. s = <<s[1], s[2]>> /\ s[1] \in Slots /\ s[2] \in Slots
    BY <1>4, <2>2
  <2>4. PICK r : r = makeMatch(m, s, w, l) /\ r = b[m]
    BY <2>1, <2>2
  <2>5. /\ r.slots = s /\ r.winner = Nobody /\ r.loser = Nobody
        /\ r.state \in {"ready", "bye", "pending"}
        /\ r.state = "bye" => Nobody \in ToSet(s) /\ ToSet(s) # {Nobody} /\ m[2] = 1 /\ m[1] # "losers"
        /\ r \in MatchOf(Slots, L)
    <3>1. PICK V : V = Slots
      OBVIOUS
    <3>2. Nobody \in V /\ s[1] \in V /\ s[2] \in V
      BY <2>3, <3>1 DEF Slots
    <3>3. s = <<s[1], s[2]>>
      BY <2>3
    <3> HIDE DEF SlotsOf
    <3>4. PICK n : n = makeMatch(m, s, w, l)
      OBVIOUS
    <3>5. /\ n.slots = s /\ n.winner = Nobody /\ n.loser = Nobody
          /\ n.state \in {"ready", "bye", "pending"}
          /\ n.state = "bye" => Nobody \in ToSet(s) /\ ToSet(s) # {Nobody} /\ m[2] = 1 /\ m[1] # "losers"
          /\ n \in MatchOf(V, L)
      BY <3>2, <3>3, <3>4, MatchMade
    <3> QED
      BY <2>4, <3>1, <3>4, <3>5
  <2>7. r.state # "completed"
    BY <2>5
  <2> QED
    BY <2>2, <2>4, <2>5, <2>7 DEF Open
<1> HIDE DEF SlotsOf
<1>6. b \in [DOMAIN b -> MatchOf(Slots, L)]
  <2>1. PICK R, M : R = MatchOf(Slots, L) /\ M = DOMAIN b
    OBVIOUS
  <2> QED
    BY <1>3, <1>5, <2>1
(* Who sits where.                                                           *)
<1>7. ASSUME NEW m \in DOMAIN b, NEW u, u # Nobody, Sits(b, m, u)
      PROVE  First(m) /\ \E i \in {1, 2} : u = FirstRound(seq, k, m[3])[i]
  <2>1. u = SlotsOf(m)[1] \/ u = SlotsOf(m)[2]
    BY <1>5, <1>7 DEF Sits
  <2>2. First(m)
    BY <1>4, <1>7, <2>1
  <2>3. SlotsOf(m) = FirstRound(seq, k, m[3])
    BY <2>2 DEF SlotsOf
  <2> QED
    BY <2>1, <2>2, <2>3
<1>8. ASSUME NEW m \in DOMAIN b, NEW x \in DOMAIN b, NEW u, u # Nobody, Sits(b, m, u), Sits(b, x, u)
      PROVE  m = x
  <2>1. PICK i \in {1, 2} : u = FirstRound(seq, k, m[3])[i]
    BY <1>7, <1>8
  <2>2. PICK j \in {1, 2} : u = FirstRound(seq, k, x[3])[j]
    BY <1>7, <1>8
  <2>3. First(m) /\ First(x)
    BY <1>7, <1>8
  <2>4. m[3] \in 0 .. (h - 1) /\ x[3] \in 0 .. (h - 1) /\ m = <<side, 1, m[3]>> /\ x = <<side, 1, x[3]>>
    BY <1>4, <2>3
  <2>5. m[3] = x[3]
    <3>1. PICK p, q \in 0 .. (h - 1) : p = m[3] /\ q = x[3]
      BY <2>4
    <3>2. FirstRound(seq, k, p)[i] = FirstRound(seq, k, q)[j] /\ FirstRound(seq, k, p)[i] # Nobody
      BY <1>8, <2>1, <2>2, <3>1
    <3> QED
      BY <1>2, <3>1, <3>2
  <2> QED
    BY <2>4, <2>5
<1>9. Flows(b)
  <2>1. ASSUME NEW m \in DOMAIN b, b[m].slots[1] = b[m].slots[2] PROVE b[m].slots[1] = Nobody
    BY <1>4, <1>5, <2>1
  <2>2. ASSUME NEW m \in DOMAIN b, NEW x \in DOMAIN b, NEW i \in 1 .. 2, LinksTo(b, m, x, i)
        PROVE  b[x].slots[i] = Nobody
    <3>1. Rank(m) < Rank(x)
      BY <1>3, <2>2 DEF Linked
    <3>2. Rank(x) # 2
      BY <1>4, <3>1
    <3>3. SlotsOf(x)[1] = Nobody /\ SlotsOf(x)[2] = Nobody
      BY <1>4, <3>2
    <3>4. i = 1 \/ i = 2
      OBVIOUS
    <3> QED
      BY <1>5, <3>3, <3>4
  <2> QED
    BY <1>5, <1>8, <2>1, <2>2 DEF Flows
<1>10. Fresh(b)
  <2>1. ByesOf(b) \subseteq DOMAIN b /\ \A m \in ByesOf(b) : First(m)
    <3> SUFFICES ASSUME NEW m \in ByesOf(b) PROVE m \in DOMAIN b /\ First(m)
      OBVIOUS
    <3>1. m \in DOMAIN b /\ b[m].state = "bye"
      BY DEF ByesOf
    <3>2. ToSet(b[m].slots) # {Nobody} /\ b[m].slots = SlotsOf(m)
      BY <1>5, <3>1
    <3>3. CASE ~First(m)
      <4>1. SlotsOf(m) = <<Nobody, Nobody>>
        BY <3>3 DEF SlotsOf, EmptySlots
      <4>2. ToSet(<<Nobody, Nobody>>) = {Nobody}
        BY DEF ToSet
      <4> QED
        BY <3>2, <4>1, <4>2
    <3> QED
      BY <3>1, <3>3
  <2>2. IsFiniteSet(ByesOf(b))
    <3>1. PICK B : B = ByesOf(b)
      OBVIOUS
    <3>2. PICK f : f = [m \in B |-> m[3]]
      OBVIOUS
    <3>3. \A m \in B : f[m] = m[3] /\ m[3] \in 0 .. (h - 1) /\ m = <<side, 1, m[3]>>
      BY <1>4, <2>1, <3>1, <3>2
    <3>4. f \in Injection(B, 0 .. (h - 1))
      <4>1. f \in [B -> 0 .. (h - 1)]
        BY <3>2, <3>3
      <4>2. \A m, x \in B : f[m] = f[x] => m = x
        BY <3>3
      <4> QED
        BY <4>1, <4>2 DEF Injection, IsInjective
    <3>5. IsFiniteSet(0 .. (h - 1))
      <4>1. 0 \in Int /\ h - 1 \in Int
        BY <1>2
      <4> QED
        BY <4>1, FS_Interval
    <3> QED
      BY <3>1, <3>4, <3>5, FS_Injection
  <2>3. \A m \in ByesOf(b) : Rank(m) = 2 /\ Nobody \in ToSet(b[m].slots) /\ ToSet(b[m].slots) # {Nobody}
    <3> SUFFICES ASSUME NEW m \in ByesOf(b)
                 PROVE  Rank(m) = 2 /\ Nobody \in ToSet(b[m].slots) /\ ToSet(b[m].slots) # {Nobody}
      OBVIOUS
    <3>1. m \in DOMAIN b /\ b[m].state = "bye"
      BY DEF ByesOf
    <3> QED
      BY <1>4, <1>5, <3>1
  <2> QED
    BY <1>4, <1>5, <2>2, <2>3 DEF Fresh
<1>11. ASSUME NEW w \in ToSet(seq) PROVE InPlay(b, w)
  <2>1. PICK p \in 0 .. (h - 1) : w = FirstRound(seq, k, p)[1] \/ w = FirstRound(seq, k, p)[2]
    BY <1>2
  <2>2. PICK m : m = <<side, 1, p>>
    OBVIOUS
  <2>3. m \in DOMAIN b /\ First(m) /\ m[3] = p
    BY <1>3, <2>2
  <2>4. SlotsOf(m) = FirstRound(seq, k, p)
    BY <2>3 DEF SlotsOf
  <2>5. Sits(b, m, w) /\ Open(b, m)
    BY <1>5, <2>1, <2>3, <2>4 DEF Sits
  <2> QED
    BY <2>3, <2>5 DEF InPlay
<1> QED
  BY <1>6, <1>9, <1>10, <1>11

(* Where players go in a tree of k rounds.                                   *)
Links == {Nowhere} \cup (Ids3 \X (1 .. 2))

(* The matches of a tree: as many in round r as the field of the rounds      *)
(* after it has seeds.                                                       *)
LEMMA IdsAre ==
  \A side, k, id : id \in Ids(side, k) <=> \E r \in 1 .. k : \E p \in 0 .. (FieldSize[k - r] - 1) : id = <<side, r, p>>
  BY DEF Ids

(* Two matches lead to the slots of one of the next round.                   *)
LEMMA HalfField ==
  ASSUME NEW e \in Nat, e >= 1, NEW p \in 0 .. (FieldSize[e] - 1)
  PROVE  /\ p \div 2 \in 0 .. (FieldSize[e - 1] - 1) /\ p \div 2 \in Nat
         /\ p = 2 * (p \div 2) + SlotAfter(p) - 1 /\ SlotAfter(p) \in 1 .. 2
<1>1. PICK l \in Nat : e = l + 1 /\ l = e - 1
  <2>1. e - 1 \in Nat /\ e = (e - 1) + 1
    OBVIOUS
  <2> QED
    BY <2>1
<1>2. PICK f \in Nat \ {0} : f = FieldSize[e - 1] /\ FieldSize[e] = 2 * f
  BY <1>1, FieldSizeIs
<1>3. p \in 0 .. (2 * f - 1)
  BY <1>2
<1> QED
  BY <1>2, <1>3 DEF SlotAfter

(* The ids of a tree are ids, and its first round is there.                  *)
LEMMA TreeIds ==
  ASSUME NEW side \in {"main", "winners"}, NEW k \in Nat, k >= 1
  PROVE  /\ \A id \in Ids(side, k) : /\ id \in Ids3 /\ id = <<side, id[2], id[3]>> /\ id[2] \in 1 .. k
                                     /\ k - id[2] \in Nat
                                     /\ id[3] \in 0 .. (FieldSize[k - id[2]] - 1) /\ id[3] \in Nat
         /\ \A p \in 0 .. (FieldSize[k - 1] - 1) : <<side, 1, p>> \in Ids(side, k)
<1>1. ASSUME NEW id \in Ids(side, k)
      PROVE  /\ id \in Ids3 /\ id = <<side, id[2], id[3]>> /\ id[2] \in 1 .. k
             /\ k - id[2] \in Nat
             /\ id[3] \in 0 .. (FieldSize[k - id[2]] - 1) /\ id[3] \in Nat
  <2>0. PICK r \in 1 .. k : \E p \in 0 .. (FieldSize[k - r] - 1) : id = <<side, r, p>>
    BY IdsAre
  <2>1. PICK p \in 0 .. (FieldSize[k - r] - 1) : id = <<side, r, p>>
    BY <2>0
  <2>2. k - r \in Nat
    OBVIOUS
  <2>3. p \in Nat
    BY <2>2, FieldSizeIs
  <2> QED
    BY <2>1, <2>2, <2>3 DEF Ids3
<1>2. ASSUME NEW p \in 0 .. (FieldSize[k - 1] - 1) PROVE <<side, 1, p>> \in Ids(side, k)
  BY IdsAre
<1> QED
  BY <1>1, <1>2

(* The bracket of a single elimination is drawn so.                          *)
LEMMA SingleDrawn ==
  ASSUME NEW seq, Entered(seq), NEW k \in Nat, k >= 1, k = RoundsFor(Len(seq)),
         NEW b, b = singleElimination(seq)
  PROVE  Drawn(b, seq, k, "main", Links)
<1> DEFINE To(id) == IF id[2] = k THEN Nowhere ELSE <<<<"main", id[2] + 1, id[3] \div 2>>, SlotAfter(id[3])>>
           SlotsOf(id) == IF id[2] = 1 THEN FirstRound(seq, k, id[3]) ELSE EmptySlots
<1>1. PICK M : M = Ids("main", k)
  OBVIOUS
<1>2. b = [id \in M |-> makeMatch(id, SlotsOf(id), To(id), Nowhere)]
  BY <1>1 DEF singleElimination, Tree
<1>3. /\ \A id \in M : /\ id \in Ids3 /\ id = <<"main", id[2], id[3]>> /\ id[2] \in 1 .. k
                       /\ k - id[2] \in Nat
                       /\ id[3] \in 0 .. (FieldSize[k - id[2]] - 1) /\ id[3] \in Nat
      /\ \A p \in 0 .. (FieldSize[k - 1] - 1) : <<"main", 1, p>> \in M
  BY <1>1, TreeIds
<1>4. DOMAIN b = M /\ \A id \in M : b[id] = makeMatch(id, SlotsOf(id), To(id), Nowhere)
  BY <1>2
<1>5. \A id \in M : b[id].winnerTo = To(id) /\ b[id].loserTo = Nowhere
  BY <1>4 DEF makeMatch
<1>6. ASSUME NEW id \in M, id[2] # k
      PROVE  \E x \in M : \E i \in 1 .. 2 : /\ To(id) = <<x, i>> /\ x[2] = id[2] + 1
                                            /\ id = <<"main", x[2] - 1, 2 * x[3] + i - 1>>
                                            /\ Rank(id) < Rank(x)
  <2>1. PICK r \in 1 .. k, p \in Nat : r = id[2] /\ p = id[3] /\ id = <<"main", r, p>> /\ r < k
    BY <1>3, <1>6
  <2>2. PICK e \in Nat : e = k - r /\ e >= 1 /\ e - 1 = k - (r + 1) /\ p \in 0 .. (FieldSize[e] - 1)
    <3>1. k - r \in Nat /\ k - r >= 1 /\ (k - r) - 1 = k - (r + 1)
      BY <2>1
    <3>2. p \in 0 .. (FieldSize[k - r] - 1)
      BY <1>3, <2>1
    <3> QED
      BY <3>1, <3>2
  <2>3. PICK q \in 0 .. (FieldSize[e - 1] - 1), i \in 1 .. 2 :
           q = p \div 2 /\ i = SlotAfter(p) /\ p = 2 * q + i - 1 /\ q \in Nat
    BY <2>2, HalfField
  <2>4. PICK x : x = <<"main", r + 1, q>>
    OBVIOUS
  <2>5. x \in M
    <3>0. r + 1 \in 1 .. k
      BY <2>1
    <3>1. r + 1 \in 1 .. k /\ q \in 0 .. (FieldSize[k - (r + 1)] - 1)
      BY <2>2, <2>3, <3>0, Zenon
    <3> QED
      BY <1>1, <2>4, <3>1, IdsAre
  <2>6. To(id) = <<x, i>>
    BY <1>6, <2>1, <2>3, <2>4
  <2>7. x[2] = r + 1 /\ x[3] = q /\ id = <<"main", x[2] - 1, 2 * x[3] + i - 1>>
    <3>1. x[2] = r + 1 /\ x[3] = q
      BY <2>4
    <3>2. x[2] - 1 = r
      BY <2>1, <3>1
    <3>3. 2 * x[3] + i - 1 = p
      BY <2>3, <3>1, Zenon
    <3> QED
      BY <2>1, <3>1, <3>2, <3>3, Zenon
  <2>8. Rank(id) < Rank(x)
    <3>1. Rank(id) = 2 * r /\ Rank(x) = 2 * (r + 1)
      BY <2>1, <2>4 DEF Rank
    <3> QED
      BY <3>1
  <2> QED
    BY <2>1, <2>5, <2>6, <2>7, <2>8
<1> HIDE DEF To, SlotsOf
<1>7. \A id \in M : id[2] = k => To(id) = Nowhere
  BY DEF To
<1>8. Linked(b)
  <2>1. \A m \in M : Rank(m) \in Nat
    BY <1>3 DEF Rank, Ids3
  <2>2. \A x, i : Nowhere # <<x, i>>
    BY DEF Nowhere
  <2>3. ASSUME NEW m \in M, NEW x \in M, NEW i \in 1 .. 2, LinksTo(b, m, x, i)
        PROVE  /\ m = <<"main", x[2] - 1, 2 * x[3] + i - 1>>
               /\ Rank(m) < Rank(x)
               /\ b[m].winnerTo # b[m].loserTo
    <3>1. To(m) = <<x, i>>
      BY <1>5, <2>2, <2>3 DEF LinksTo
    <3>2. m[2] # k
      BY <1>7, <2>2, <3>1
    <3> QED
      BY <1>5, <1>6, <2>2, <3>1, <3>2
  <2>4. ASSUME NEW m \in M
        PROVE  /\ b[m].winnerTo = Nowhere \/ \E x \in M : \E i \in 1 .. 2 : b[m].winnerTo = <<x, i>>
               /\ b[m].loserTo = Nowhere
    BY <1>5, <1>6, <1>7
  <2>5. ASSUME NEW m \in M, NEW x \in M, NEW i \in 1 .. 2, LinksTo(b, m, x, i)
        PROVE  \A n \in M : LinksTo(b, n, x, i) => n = m
    BY <2>3, <2>5
  <2> QED
    BY <1>4, <2>1, <2>3, <2>4, <2>5 DEF Linked
<1>9. \A id \in M : To(id) \in Links /\ Nowhere \in Links
  <2> SUFFICES ASSUME NEW id \in M PROVE To(id) \in Links
    BY DEF Links
  <2>1. CASE id[2] = k
    BY <1>7, <2>1 DEF Links
  <2>2. CASE id[2] # k
    <3>1. PICK x \in M, i \in 1 .. 2 : To(id) = <<x, i>>
      BY <1>6, <2>2
    <3> QED
      BY <1>3, <3>1 DEF Links
  <2> QED
    BY <2>1, <2>2
<1>10. ASSUME NEW m \in M
       PROVE  /\ m \in Ids3
              /\ \E w, l \in Links :
                   b[m] = makeMatch(m, IF m[1] = "main" /\ m[2] = 1 THEN FirstRound(seq, k, m[3]) ELSE EmptySlots, w, l)
              /\ m[1] = "main" /\ m[2] = 1 => m[3] \in 0 .. (FieldSize[k - 1] - 1)
  <2>1. m[1] = "main" /\ m \in Ids3
    BY <1>3
  <2>2. m[2] = 1 => m[3] \in 0 .. (FieldSize[k - 1] - 1)
    BY <1>3
  <2>3. SlotsOf(m) = IF m[1] = "main" /\ m[2] = 1 THEN FirstRound(seq, k, m[3]) ELSE EmptySlots
    BY <2>1 DEF SlotsOf
  <2>4. b[m] = makeMatch(m, SlotsOf(m), To(m), Nowhere) /\ To(m) \in Links /\ Nowhere \in Links
    BY <1>4, <1>9
  <2>5. \E w, l \in Links : b[m] = makeMatch(m, SlotsOf(m), w, l)
    BY <2>4
  <2> QED
    BY <2>1, <2>2, <2>3, <2>5
<1>11. b = [m \in DOMAIN b |-> b[m]]
  BY <1>2, <1>4
<1> QED
  BY <1>3, <1>4, <1>8, <1>10, <1>11 DEF Drawn

-----------------------------------------------------------------------------
(* The bracket of a double elimination: the winners' tree, the losers' side  *)
(* with two rounds to each further round of the winners, and a final.        *)
LoserIds(k) ==
  UNION {{<<"losers", r, p>> : p \in 0 .. (FieldSize[k - (r + 1) \div 2 - 1] - 1)} : r \in 1 .. (2 * (k - 1))}

FinalId(k) == <<"final", k + 1, 0>>

DropTo(r, p) == IF r = 1 THEN <<<<"losers", 1, p \div 2>>, SlotAfter(p)>>
                ELSE <<<<"losers", 2 * (r - 1), p>>, 2>>

NextTo(k, r, p) == IF r = 2 * (k - 1) THEN <<FinalId(k), 2>>
                   ELSE IF r % 2 = 1 THEN <<<<"losers", r + 1, p>>, 1>>
                   ELSE <<<<"losers", r + 1, p \div 2>>, SlotAfter(p)>>

WinTo(k, r, p) == IF r = k THEN <<FinalId(k), 1>> ELSE <<<<"winners", r + 1, p \div 2>>, SlotAfter(p)>>

DoubleIds(k) == Ids("winners", k) \cup LoserIds(k) \cup {FinalId(k)}

(* The match a slot is filled from.                                          *)
SourceOf(k, x, i) ==
  IF x[1] = "winners" THEN <<"winners", x[2] - 1, 2 * x[3] + i - 1>>
  ELSE IF x[1] = "final" THEN IF i = 1 THEN <<"winners", k, 0>> ELSE <<"losers", 2 * (k - 1), 0>>
  ELSE IF x[2] = 1 THEN <<"winners", 1, 2 * x[3] + i - 1>>
  ELSE IF x[2] % 2 = 1 THEN <<"losers", x[2] - 1, 2 * x[3] + i - 1>>
  ELSE IF i = 2 THEN <<"winners", x[2] \div 2 + 1, x[3]>> ELSE <<"losers", x[2] - 1, x[3]>>

Leads(k, m, to) ==
  \E x \in DoubleIds(k) : \E i \in 1 .. 2 : to = <<x, i>> /\ m = SourceOf(k, x, i) /\ Rank(m) < Rank(x)

(* The losers' rounds by pairs: the s-th pair has the matches of the         *)
(* winners' round after it.                                                  *)
LEMMA LoserIdsAre ==
  ASSUME NEW k \in Nat, k >= 2
  PROVE  \A id : id \in LoserIds(k) <=>
           \E s \in 1 .. (k - 1) : \E r \in {2 * s - 1, 2 * s} : \E p \in 0 .. (FieldSize[k - s - 1] - 1) :
             id = <<"losers", r, p>>
<1>1. ASSUME NEW s \in 1 .. (k - 1), NEW r \in {2 * s - 1, 2 * s}
      PROVE  r \in 1 .. (2 * (k - 1)) /\ (r + 1) \div 2 = s
  OBVIOUS
<1>2. ASSUME NEW r \in 1 .. (2 * (k - 1))
      PROVE  \E s \in 1 .. (k - 1) : r \in {2 * s - 1, 2 * s} /\ (r + 1) \div 2 = s
  <2>1. PICK s \in Int : s = (r + 1) \div 2
    OBVIOUS
  <2>2. s \in 1 .. (k - 1) /\ (r = 2 * s - 1 \/ r = 2 * s)
    BY <2>1
  <2> QED
    BY <2>1, <2>2
<1>3. \A id : id \in LoserIds(k) <=>
        \E r \in 1 .. (2 * (k - 1)) : \E p \in 0 .. (FieldSize[k - (r + 1) \div 2 - 1] - 1) : id = <<"losers", r, p>>
  BY DEF LoserIds
<1>4. ASSUME NEW id, id \in LoserIds(k)
      PROVE  \E s \in 1 .. (k - 1) : \E r \in {2 * s - 1, 2 * s} : \E p \in 0 .. (FieldSize[k - s - 1] - 1) :
               id = <<"losers", r, p>>
  <2>1. PICK r \in 1 .. (2 * (k - 1)) : \E p \in 0 .. (FieldSize[k - (r + 1) \div 2 - 1] - 1) : id = <<"losers", r, p>>
    BY <1>3, <1>4
  <2>2. PICK s \in 1 .. (k - 1) : r \in {2 * s - 1, 2 * s} /\ (r + 1) \div 2 = s
    BY <1>2
  <2>3. \E p \in 0 .. (FieldSize[k - s - 1] - 1) : id = <<"losers", r, p>>
    BY <2>1, <2>2, Zenon
  <2> QED
    BY <2>2, <2>3
<1>5. ASSUME NEW s \in 1 .. (k - 1), NEW r \in {2 * s - 1, 2 * s}, NEW p \in 0 .. (FieldSize[k - s - 1] - 1)
      PROVE  <<"losers", r, p>> \in LoserIds(k)
  <2>1. r \in 1 .. (2 * (k - 1)) /\ (r + 1) \div 2 = s
    BY <1>1
  <2>2. p \in 0 .. (FieldSize[k - (r + 1) \div 2 - 1] - 1)
    BY <2>1, Zenon
  <2> QED
    BY <1>3, <2>1, <2>2
<1> QED
  BY <1>4, <1>5

(* Where the winner of a winners' match goes.                                *)
LEMMA WinLeads ==
  ASSUME NEW k \in Nat, k >= 2, NEW r \in 1 .. k, NEW p \in 0 .. (FieldSize[k - r] - 1)
  PROVE  Leads(k, <<"winners", r, p>>, WinTo(k, r, p)) /\ WinTo(k, r, p)[1][1] # "losers"
<1>1. CASE r = k
  <2>1. p = 0
    <3>1. FieldSize[k - r] = 1
      <4>1. k - r = 0
        BY <1>1
      <4> QED
        BY <4>1, FieldSizeIs
    <3> QED
      BY <3>1
  <2>2. PICK x : x = FinalId(k)
    OBVIOUS
  <2>3. x \in DoubleIds(k) /\ x = <<"final", k + 1, 0>>
    BY <2>2 DEF DoubleIds, FinalId
  <2>4. WinTo(k, r, p) = <<x, 1>>
    BY <1>1, <2>2 DEF WinTo
  <2>5. SourceOf(k, x, 1) = <<"winners", r, p>>
    BY <1>1, <2>1, <2>3 DEF SourceOf
  <2>6. Rank(<<"winners", r, p>>) < Rank(x)
    BY <1>1, <2>3 DEF Rank
  <2>7. 1 \in 1 .. 2
    OBVIOUS
  <2>8. Leads(k, <<"winners", r, p>>, WinTo(k, r, p))
    BY <2>3, <2>4, <2>5, <2>6, <2>7, Zenon DEF Leads
  <2> QED
    BY <2>3, <2>4, <2>8
<1>2. CASE r # k
  <2>1. PICK e \in Nat : e = k - r /\ e >= 1 /\ e - 1 = k - (r + 1)
    <3>1. k - r \in Nat /\ k - r >= 1 /\ (k - r) - 1 = k - (r + 1)
      BY <1>2
    <3> QED
      BY <3>1
  <2>2. p \in 0 .. (FieldSize[e] - 1)
    BY <2>1, Zenon
  <2>3. PICK q \in 0 .. (FieldSize[e - 1] - 1), i \in 1 .. 2 :
           q = p \div 2 /\ i = SlotAfter(p) /\ p = 2 * q + i - 1 /\ q \in Nat
    BY <2>1, <2>2, HalfField
  <2>4. PICK x : x = <<"winners", r + 1, q>>
    OBVIOUS
  <2>5. x \in DoubleIds(k)
    <3>0. r + 1 \in 1 .. k
      BY <1>2
    <3>1. r + 1 \in 1 .. k /\ q \in 0 .. (FieldSize[k - (r + 1)] - 1)
      BY <2>1, <2>3, <3>0, Zenon
    <3>2. x \in Ids("winners", k)
      BY <2>4, <3>1, IdsAre
    <3> QED
      BY <3>2 DEF DoubleIds
  <2>6. WinTo(k, r, p) = <<x, i>>
    BY <1>2, <2>3, <2>4 DEF WinTo
  <2>7. SourceOf(k, x, i) = <<"winners", r, p>>
    <3>1. x[1] = "winners" /\ x[2] = r + 1 /\ x[3] = q
      BY <2>4
    <3>2. x[2] - 1 = r
      BY <3>1
    <3>3. 2 * x[3] + i - 1 = p
      BY <2>3, <3>1, Zenon
    <3> QED
      BY <3>1, <3>2, <3>3, Zenon DEF SourceOf
  <2>8. Rank(<<"winners", r, p>>) < Rank(x)
    BY <2>4 DEF Rank
  <2>9. Leads(k, <<"winners", r, p>>, WinTo(k, r, p))
    BY <2>5, <2>6, <2>7, <2>8, Zenon DEF Leads
  <2> QED
    BY <2>4, <2>6, <2>9
<1> QED
  BY <1>1, <1>2

(* Where the loser of a winners' match goes.                                 *)
LEMMA DropLeads ==
  ASSUME NEW k \in Nat, k >= 2, NEW r \in 1 .. k, NEW p \in 0 .. (FieldSize[k - r] - 1)
  PROVE  Leads(k, <<"winners", r, p>>, DropTo(r, p)) /\ DropTo(r, p)[1][1] = "losers"
<1>1. CASE r = 1
  <2>1. PICK e \in Nat : e = k - r /\ e >= 1 /\ e - 1 = k - 1 - 1
    <3>1. k - r \in Nat /\ k - r >= 1 /\ (k - r) - 1 = k - 1 - 1
      BY <1>1
    <3> QED
      BY <3>1
  <2>2. p \in 0 .. (FieldSize[e] - 1)
    BY <2>1, Zenon
  <2>3. PICK q \in 0 .. (FieldSize[e - 1] - 1), i \in 1 .. 2 :
           q = p \div 2 /\ i = SlotAfter(p) /\ p = 2 * q + i - 1 /\ q \in Nat
    BY <2>1, <2>2, HalfField
  <2>4. PICK x : x = <<"losers", 1, q>>
    OBVIOUS
  <2>5. x \in DoubleIds(k)
    <3>1. PICK s \in 1 .. (k - 1) : s = 1
      OBVIOUS
    <3>2. q \in 0 .. (FieldSize[k - s - 1] - 1)
      BY <2>1, <2>3, <3>1, Zenon
    <3>3. 1 \in {2 * s - 1, 2 * s}
      BY <3>1
    <3>4. x \in LoserIds(k)
      BY <2>4, <3>2, <3>3, LoserIdsAre
    <3> QED
      BY <3>4 DEF DoubleIds
  <2>6. DropTo(r, p) = <<x, i>>
    BY <1>1, <2>3, <2>4 DEF DropTo
  <2>7. SourceOf(k, x, i) = <<"winners", r, p>>
    <3>1. x[1] = "losers" /\ x[2] = 1 /\ x[3] = q
      BY <2>4
    <3>3. 2 * x[3] + i - 1 = p
      BY <2>3, <3>1, Zenon
    <3> QED
      BY <1>1, <3>1, <3>3 DEF SourceOf
  <2>8. Rank(<<"winners", r, p>>) < Rank(x)
    BY <1>1, <2>4 DEF Rank
  <2>9. Leads(k, <<"winners", r, p>>, DropTo(r, p))
    BY <2>5, <2>6, <2>7, <2>8, Zenon DEF Leads
  <2> QED
    BY <2>4, <2>6, <2>9
<1>2. CASE r # 1
  <2>1. PICK s \in 1 .. (k - 1) : s = r - 1 /\ k - s - 1 = k - r
    <3>1. r - 1 \in 1 .. (k - 1) /\ k - (r - 1) - 1 = k - r
      BY <1>2
    <3> QED
      BY <3>1
  <2>2. PICK j \in Nat : j = 2 * (r - 1) /\ j = 2 * s
    BY <2>1
  <2>3. PICK x : x = <<"losers", j, p>>
    OBVIOUS
  <2>4. x \in DoubleIds(k)
    <3>1. p \in 0 .. (FieldSize[k - s - 1] - 1)
      BY <2>1, Zenon
    <3>2. j \in {2 * s - 1, 2 * s}
      BY <2>2
    <3>3. x \in LoserIds(k)
      BY <2>3, <3>1, <3>2, LoserIdsAre
    <3> QED
      BY <3>3 DEF DoubleIds
  <2>5. DropTo(r, p) = <<x, 2>>
    BY <1>2, <2>2, <2>3 DEF DropTo
  <2>6. SourceOf(k, x, 2) = <<"winners", r, p>>
    <3>1. x[1] = "losers" /\ x[2] = j /\ x[3] = p
      BY <2>3
    <3>2. j # 1 /\ j % 2 # 1 /\ j \div 2 + 1 = r
      BY <2>1, <2>2
    <3> QED
      BY <3>1, <3>2 DEF SourceOf
  <2>7. Rank(<<"winners", r, p>>) < Rank(x)
    BY <2>2, <2>3 DEF Rank
  <2>8. 2 \in 1 .. 2
    OBVIOUS
  <2>9. Leads(k, <<"winners", r, p>>, DropTo(r, p))
    BY <2>4, <2>5, <2>6, <2>7, <2>8, Zenon DEF Leads
  <2> QED
    BY <2>3, <2>5, <2>9
<1> QED
  BY <1>1, <1>2

(* Where the winner of a losers' match goes.                                 *)
LEMMA NextLeads ==
  ASSUME NEW k \in Nat, k >= 2, NEW s \in 1 .. (k - 1), NEW r \in {2 * s - 1, 2 * s},
         NEW p \in 0 .. (FieldSize[k - s - 1] - 1)
  PROVE  Leads(k, <<"losers", r, p>>, NextTo(k, r, p))
<1>1. CASE r = 2 * (k - 1)
  <2>1. p = 0
    <3>1. k - s - 1 = 0
      BY <1>1
    <3> QED
      BY <3>1, FieldSizeIs
  <2>2. PICK x : x = FinalId(k)
    OBVIOUS
  <2>3. x \in DoubleIds(k) /\ x = <<"final", k + 1, 0>>
    BY <2>2 DEF DoubleIds, FinalId
  <2>4. NextTo(k, r, p) = <<x, 2>>
    BY <1>1, <2>2 DEF NextTo
  <2>5. SourceOf(k, x, 2) = <<"losers", r, p>>
    BY <1>1, <2>1, <2>3 DEF SourceOf
  <2>6. Rank(<<"losers", r, p>>) < Rank(x)
    BY <1>1, <2>3 DEF Rank
  <2>7. 2 \in 1 .. 2
    OBVIOUS
  <2> QED
    BY <2>3, <2>4, <2>5, <2>6, <2>7, Zenon DEF Leads
<1>2. CASE r = 2 * s - 1
  <2>1. PICK x : x = <<"losers", r + 1, p>>
    OBVIOUS
  <2>2. x \in DoubleIds(k)
    <3>1. r + 1 \in {2 * s - 1, 2 * s}
      BY <1>2
    <3>2. x \in LoserIds(k)
      BY <2>1, <3>1, LoserIdsAre
    <3> QED
      BY <3>2 DEF DoubleIds
  <2>3. NextTo(k, r, p) = <<x, 1>>
    BY <1>2, <2>1 DEF NextTo
  <2>4. SourceOf(k, x, 1) = <<"losers", r, p>>
    <3>1. x[1] = "losers" /\ x[2] = r + 1 /\ x[3] = p
      BY <2>1
    <3>2. r + 1 # 1 /\ (r + 1) % 2 # 1 /\ (r + 1) - 1 = r
      BY <1>2
    <3> QED
      BY <3>1, <3>2 DEF SourceOf
  <2>5. Rank(<<"losers", r, p>>) < Rank(x)
    BY <1>2, <2>1 DEF Rank
  <2>6. 1 \in 1 .. 2
    OBVIOUS
  <2> QED
    BY <2>2, <2>3, <2>4, <2>5, <2>6, Zenon DEF Leads
<1>3. CASE r = 2 * s /\ r # 2 * (k - 1)
  <2>1. PICK e \in Nat : e = k - s - 1 /\ e >= 1 /\ e - 1 = k - (s + 1) - 1
    <3>1. k - s - 1 \in Nat /\ k - s - 1 >= 1 /\ (k - s - 1) - 1 = k - (s + 1) - 1
      BY <1>3
    <3> QED
      BY <3>1
  <2>2. p \in 0 .. (FieldSize[e] - 1)
    BY <2>1, Zenon
  <2>3. PICK q \in 0 .. (FieldSize[e - 1] - 1), i \in 1 .. 2 :
           q = p \div 2 /\ i = SlotAfter(p) /\ p = 2 * q + i - 1 /\ q \in Nat
    BY <2>1, <2>2, HalfField
  <2>4. PICK x : x = <<"losers", r + 1, q>>
    OBVIOUS
  <2>5. x \in DoubleIds(k)
    <3>1. PICK n \in 1 .. (k - 1) : n = s + 1
      BY <1>3
    <3>2. q \in 0 .. (FieldSize[k - n - 1] - 1)
      BY <2>1, <2>3, <3>1, Zenon
    <3>3. r + 1 \in {2 * n - 1, 2 * n}
      BY <1>3, <3>1
    <3>4. x \in LoserIds(k)
      BY <2>4, <3>2, <3>3, LoserIdsAre
    <3> QED
      BY <3>4 DEF DoubleIds
  <2>6. NextTo(k, r, p) = <<x, i>>
    <3>1. r # 2 * (k - 1) /\ r % 2 # 1
      BY <1>3
    <3> QED
      BY <2>3, <2>4, <3>1, Zenon DEF NextTo
  <2>7. SourceOf(k, x, i) = <<"losers", r, p>>
    <3>1. x[1] = "losers" /\ x[2] = r + 1 /\ x[3] = q
      BY <2>4
    <3>2. r + 1 # 1 /\ (r + 1) % 2 = 1 /\ (r + 1) - 1 = r
      BY <1>3
    <3>3. 2 * x[3] + i - 1 = p
      BY <2>3, <3>1, Zenon
    <3> QED
      BY <3>1, <3>2, <3>3 DEF SourceOf
  <2>8. Rank(<<"losers", r, p>>) < Rank(x)
    BY <1>3, <2>4 DEF Rank
  <2> QED
    BY <2>5, <2>6, <2>7, <2>8, Zenon DEF Leads
<1> QED
  BY <1>1, <1>2, <1>3

(* The same, of one match.                                                   *)
LEMMA LoserIdIs ==
  ASSUME NEW k \in Nat, k >= 2, NEW id \in LoserIds(k)
  PROVE  \E s \in 1 .. (k - 1) : \E r \in {2 * s - 1, 2 * s} : \E p \in 0 .. (FieldSize[k - s - 1] - 1) :
           id = <<"losers", r, p>>
  BY LoserIdsAre

(* The three sides of a double elimination have matches of their own.        *)
LEMMA DoubleIdsTyped ==
  ASSUME NEW k \in Nat, k >= 2
  PROVE  /\ \A id \in DoubleIds(k) : id \in Ids3
         /\ \A id \in Ids("winners", k) : id[1] = "winners" /\ id \in DoubleIds(k)
         /\ \A id \in LoserIds(k) : id[1] = "losers"
         /\ FinalId(k)[1] = "final"
<1>1. \A id \in Ids("winners", k) : id \in Ids3 /\ id = <<"winners", id[2], id[3]>>
  <2>1. PICK side : side = "winners"
    OBVIOUS
  <2>2. \A id \in Ids(side, k) : id \in Ids3 /\ id = <<side, id[2], id[3]>>
    BY <2>1, TreeIds
  <2> QED
    BY <2>1, <2>2
<1>2. ASSUME NEW id \in LoserIds(k) PROVE id \in Ids3 /\ id[1] = "losers"
  <2>1. PICK s \in 1 .. (k - 1) : \E r \in {2 * s - 1, 2 * s} : \E p \in 0 .. (FieldSize[k - s - 1] - 1) :
           id = <<"losers", r, p>>
    BY LoserIdsAre
  <2>2. PICK r \in {2 * s - 1, 2 * s}, p \in 0 .. (FieldSize[k - s - 1] - 1) : id = <<"losers", r, p>>
    BY <2>1
  <2>3. r \in Nat \ {0}
    OBVIOUS
  <2>4. p \in Nat
    <3>1. k - s - 1 \in Nat
      OBVIOUS
    <3> QED
      BY <3>1, FieldSizeIs
  <2> QED
    BY <2>2, <2>3, <2>4 DEF Ids3
<1>3. FinalId(k) \in Ids3 /\ FinalId(k)[1] = "final"
  BY DEF FinalId, Ids3
<1> QED
  BY <1>1, <1>2, <1>3 DEF DoubleIds

(* What doubleElimination makes of each match.                               *)
LEMMA DoubleIs ==
  ASSUME NEW seq, NEW k \in Nat, k >= 2, k = RoundsFor(Len(seq)), NEW b, b = doubleElimination(seq)
  PROVE  /\ b = [m \in DOMAIN b |-> b[m]] /\ DOMAIN b = DoubleIds(k)
         /\ \A id \in Ids("winners", k) :
              b[id] = makeMatch(id, IF id[2] = 1 THEN FirstRound(seq, k, id[3]) ELSE EmptySlots,
                                WinTo(k, id[2], id[3]), DropTo(id[2], id[3]))
         /\ \A id \in LoserIds(k) : b[id] = makeMatch(id, EmptySlots, NextTo(k, id[2], id[3]), Nowhere)
         /\ b[FinalId(k)] = makeMatch(FinalId(k), EmptySlots, Nowhere, Nowhere)
<1> DEFINE winners == [id \in Ids("winners", k) |->
              makeMatch(id, IF id[2] = 1 THEN FirstRound(seq, k, id[3]) ELSE EmptySlots,
                        WinTo(k, id[2], id[3]), DropTo(id[2], id[3]))]
           all == DOMAIN winners \cup LoserIds(k) \cup {FinalId(k)}
           double == [id \in all |->
              IF id \in DOMAIN winners THEN winners[id]
              ELSE makeMatch(id, EmptySlots, IF id = FinalId(k) THEN Nowhere ELSE NextTo(k, id[2], id[3]), Nowhere)]
<1>1. b = double
  BY DEF doubleElimination, Tree, WinTo, DropTo, NextTo, LoserIds, FinalId
<1>2. DOMAIN winners = Ids("winners", k) /\ all = DoubleIds(k)
  BY DEF DoubleIds
<1>3. \A id \in Ids("winners", k) :
        winners[id] = makeMatch(id, IF id[2] = 1 THEN FirstRound(seq, k, id[3]) ELSE EmptySlots,
                                WinTo(k, id[2], id[3]), DropTo(id[2], id[3]))
  OBVIOUS
<1> HIDE DEF winners, all
<1>4. DOMAIN b = DoubleIds(k) /\ b = [m \in DOMAIN b |-> b[m]]
  BY <1>1, <1>2
<1>5. \A id \in DoubleIds(k) :
        b[id] = IF id \in Ids("winners", k) THEN winners[id]
                ELSE makeMatch(id, EmptySlots, IF id = FinalId(k) THEN Nowhere ELSE NextTo(k, id[2], id[3]), Nowhere)
  BY <1>1, <1>2
<1>6. \A id \in LoserIds(k) : id \in DoubleIds(k) /\ id \notin Ids("winners", k) /\ id # FinalId(k)
  BY DoubleIdsTyped DEF DoubleIds
<1>7. FinalId(k) \in DoubleIds(k) /\ FinalId(k) \notin Ids("winners", k)
  BY DoubleIdsTyped DEF DoubleIds
<1>8. \A id \in Ids("winners", k) : id \in DoubleIds(k)
  BY DEF DoubleIds
<1> QED
  BY <1>3, <1>4, <1>5, <1>6, <1>7, <1>8

(* The bracket of a double elimination is drawn as one of a single is: every *)
(* link has one source, in the winners' tree, on the losers' side, or in the *)
(* final.                                                                    *)
LEMMA DoubleDrawn ==
  ASSUME NEW seq, Entered(seq), NEW k \in Nat, k >= 2, k = RoundsFor(Len(seq)),
         NEW b, b = doubleElimination(seq)
  PROVE  Drawn(b, seq, k, "winners", Links)
<1>1. PICK M : M = DoubleIds(k)
  OBVIOUS
<1>2. /\ b = [m \in DOMAIN b |-> b[m]] /\ DOMAIN b = M
      /\ \A id \in Ids("winners", k) :
           b[id] = makeMatch(id, IF id[2] = 1 THEN FirstRound(seq, k, id[3]) ELSE EmptySlots,
                             WinTo(k, id[2], id[3]), DropTo(id[2], id[3]))
      /\ \A id \in LoserIds(k) : b[id] = makeMatch(id, EmptySlots, NextTo(k, id[2], id[3]), Nowhere)
      /\ b[FinalId(k)] = makeMatch(FinalId(k), EmptySlots, Nowhere, Nowhere)
  BY <1>1, DoubleIs
<1>3. /\ \A id \in M : id \in Ids3
      /\ \A id \in Ids("winners", k) : id[1] = "winners" /\ id \in M
      /\ \A id \in LoserIds(k) : id[1] = "losers"
      /\ FinalId(k)[1] = "final"
  BY <1>1, DoubleIdsTyped
<1>4. \A m \in M : m \in Ids("winners", k) \/ m \in LoserIds(k) \/ m = FinalId(k)
  BY <1>1 DEF DoubleIds
<1>5. \A x, i : Nowhere # <<x, i>>
  BY DEF Nowhere
<1>6. \A m, to : Leads(k, m, to) => /\ to \in Links /\ to # Nowhere
                                    /\ \E x \in M : \E i \in 1 .. 2 : to = <<x, i>>
                                    /\ \A x \in M : \A i \in 1 .. 2 : to = <<x, i>> => m = SourceOf(k, x, i) /\ Rank(m) < Rank(x)
  <2> SUFFICES ASSUME NEW m, NEW to, Leads(k, m, to)
               PROVE  /\ to \in Links /\ to # Nowhere
                      /\ \E x \in M : \E i \in 1 .. 2 : to = <<x, i>>
                      /\ \A x \in M : \A i \in 1 .. 2 : to = <<x, i>> => m = SourceOf(k, x, i) /\ Rank(m) < Rank(x)
    OBVIOUS
  <2>1. PICK x \in M, i \in 1 .. 2 : to = <<x, i>> /\ m = SourceOf(k, x, i) /\ Rank(m) < Rank(x)
    BY <1>1 DEF Leads
  <2>2. \A y, j : to = <<y, j>> => y = x /\ j = i
    BY <2>1
  <2>3. to \in Links
    BY <1>3, <2>1 DEF Links
  <2> QED
    BY <1>5, <2>1, <2>2, <2>3
<1>a. \A id \in LoserIds(k) : \E s \in 1 .. (k - 1) : \E r \in {2 * s - 1, 2 * s} : \E p \in 0 .. (FieldSize[k - s - 1] - 1) :
        id = <<"losers", r, p>>
  BY LoserIdIs
(* Each match, by its kind.                                                  *)
<1>7. ASSUME NEW m \in M
      PROVE  /\ \E w, l \in Links :
                  b[m] = makeMatch(m, IF m[1] = "winners" /\ m[2] = 1 THEN FirstRound(seq, k, m[3]) ELSE EmptySlots, w, l)
             /\ m[1] = "winners" /\ m[2] = 1 => m[3] \in 0 .. (FieldSize[k - 1] - 1)
             /\ b[m].winnerTo = Nowhere \/ Leads(k, m, b[m].winnerTo)
             /\ b[m].loserTo = Nowhere \/ Leads(k, m, b[m].loserTo)
             /\ b[m].winnerTo = Nowhere \/ b[m].winnerTo # b[m].loserTo
  <2>0. Nowhere \in Links
    BY DEF Links
  <2>1. CASE m \in Ids("winners", k)
    <3>1. PICK r \in 1 .. k : \E p \in 0 .. (FieldSize[k - r] - 1) : m = <<"winners", r, p>>
      BY <2>1, IdsAre
    <3>2. PICK p \in 0 .. (FieldSize[k - r] - 1) : m = <<"winners", r, p>>
      BY <3>1
    <3>3. m[1] = "winners" /\ m[2] = r /\ m[3] = p
      BY <3>2
    <3>4. PICK w, l : /\ w = WinTo(k, r, p) /\ l = DropTo(r, p)
                      /\ Leads(k, m, w) /\ Leads(k, m, l) /\ w # l
      <4>1. Leads(k, m, WinTo(k, r, p)) /\ WinTo(k, r, p)[1][1] # "losers"
        BY <3>2, WinLeads
      <4>2. Leads(k, m, DropTo(r, p)) /\ DropTo(r, p)[1][1] = "losers"
        BY <3>2, DropLeads
      <4> QED
        BY <4>1, <4>2
    <3>5. b[m] = makeMatch(m, IF m[1] = "winners" /\ m[2] = 1 THEN FirstRound(seq, k, m[3]) ELSE EmptySlots, w, l)
      BY <1>2, <2>1, <3>3, <3>4
    <3>6. b[m].winnerTo = w /\ b[m].loserTo = l
      BY <3>5 DEF makeMatch
    <3>7. w \in Links /\ l \in Links
      BY <1>6, <3>4
    <3>8. m[2] = 1 => m[3] \in 0 .. (FieldSize[k - 1] - 1)
      BY <3>3, Zenon
    <3> QED
      BY <3>4, <3>5, <3>6, <3>7, <3>8
  <2>2. CASE m \in LoserIds(k)
    <3>1. PICK s \in 1 .. (k - 1) : \E r \in {2 * s - 1, 2 * s} : \E p \in 0 .. (FieldSize[k - s - 1] - 1) :
             m = <<"losers", r, p>>
      BY <1>a, <2>2
    <3>2. PICK r \in {2 * s - 1, 2 * s}, p \in 0 .. (FieldSize[k - s - 1] - 1) : m = <<"losers", r, p>>
      BY <3>1
    <3>3. m[1] = "losers" /\ m[2] = r /\ m[3] = p
      BY <3>2
    <3>4. PICK w : w = NextTo(k, r, p) /\ Leads(k, m, w)
      BY <3>2, NextLeads
    <3>5. b[m] = makeMatch(m, EmptySlots, w, Nowhere)
      BY <1>2, <2>2, <3>3, <3>4
    <3>6. b[m].winnerTo = w /\ b[m].loserTo = Nowhere
      BY <3>5 DEF makeMatch
    <3>7. w \in Links /\ w # Nowhere
      BY <1>6, <3>4
    <3>8. m[1] # "winners"
      BY <3>3
    <3> QED
      BY <2>0, <3>4, <3>5, <3>6, <3>7, <3>8
  <2>3. CASE m = FinalId(k)
    <3>1. b[m] = makeMatch(m, EmptySlots, Nowhere, Nowhere)
      BY <1>2, <2>3
    <3>2. b[m].winnerTo = Nowhere /\ b[m].loserTo = Nowhere
      BY <3>1 DEF makeMatch
    <3>3. m[1] # "winners"
      BY <1>3, <2>3
    <3> QED
      BY <2>0, <3>1, <3>2, <3>3
  <2> QED
    BY <1>4, <2>1, <2>2, <2>3
<1>8. Linked(b)
  <2>1. \A m \in M : Rank(m) \in Nat
    BY <1>3 DEF Rank, Ids3
  <2>2. ASSUME NEW m \in M, NEW x \in M, NEW i \in 1 .. 2, LinksTo(b, m, x, i)
        PROVE  /\ m = SourceOf(k, x, i)
               /\ Rank(m) < Rank(x)
               /\ b[m].winnerTo # b[m].loserTo
    <3>1. PICK to : to = <<x, i>> /\ (b[m].winnerTo = to \/ b[m].loserTo = to)
      BY <2>2 DEF LinksTo
    <3>2. to # Nowhere
      BY <1>5, <3>1
    <3>3. Leads(k, m, to)
      BY <1>7, <3>1, <3>2
    <3>4. m = SourceOf(k, x, i) /\ Rank(m) < Rank(x)
      BY <1>6, <3>1, <3>3
    <3>5. b[m].winnerTo # b[m].loserTo
      BY <1>7, <3>1, <3>2
    <3> QED
      BY <3>4, <3>5
  <2>3. \A m \in M : /\ b[m].winnerTo = Nowhere \/ \E x \in M : \E i \in 1 .. 2 : b[m].winnerTo = <<x, i>>
                     /\ b[m].loserTo = Nowhere \/ \E x \in M : \E i \in 1 .. 2 : b[m].loserTo = <<x, i>>
    BY <1>6, <1>7
  <2> QED
    BY <1>2, <2>1, <2>2, <2>3 DEF Linked
<1>9. \A p \in 0 .. (FieldSize[k - 1] - 1) : <<"winners", 1, p>> \in M
  <2>1. PICK side \in {"main", "winners"} : side = "winners"
    OBVIOUS
  <2>a. k >= 1
    OBVIOUS
  <2>2. \A p \in 0 .. (FieldSize[k - 1] - 1) : <<side, 1, p>> \in Ids(side, k)
    BY <2>1, <2>a, TreeIds
  <2> QED
    BY <1>3, <2>1, <2>2
<1> QED
  BY <1>2, <1>3, <1>7, <1>8, <1>9 DEF Drawn

(* A sort by a strict order lists nobody twice.                              *)
LEMMA SortsOnce ==
  ASSUME NEW s, NEW R, NEW S, Sorts(s, R, S), \A x \in S : <<x, x>> \notin R
  PROVE  \A i, j \in DOMAIN s : s[i] = s[j] => i = j
<1>1. \A i \in DOMAIN s : i \in Int
  BY DEF Sorts
<1>2. \A i, j \in DOMAIN s : i < j => s[i] # s[j]
  BY DEF Sorts
<1> QED
  BY <1>1, <1>2

(* Who is seeded: everybody who holds a seat, once.                          *)
LEMMA OrderIs ==
  ASSUME NEW t, TypedRow(t)
  PROVE  /\ Entered(order(t))
         /\ \A w : w \in ToSet(order(t)) <=> \E i \in DOMAIN t.players : IsActive(t.players[i]) /\ w = t.players[i].user
<1>0. PICK s : s = t.players
  OBVIOUS
<1>1. s \in Seq(Player) /\ \A i, j \in DOMAIN s : s[i].user = s[j].user => i = j
  BY <1>0 DEF TypedRow
<1>2. PICK I \in SUBSET DOMAIN s : I = {j \in DOMAIN s : IsActive(s[j])}
  OBVIOUS
<1>3. PICK at : /\ Sorts(at, Earlier(I), I)
                /\ filtered(s, I) = [n \in DOMAIN at |-> s[at[n]]]
                /\ filtered(s, I) \in Seq(Player)
  <2>1. \E at : /\ Sorts(at, Earlier(I), I)
                /\ filtered(s, I) = [n \in DOMAIN at |-> s[at[n]]]
                /\ filtered(s, I) \in Seq(Player)
    BY <1>1, FilteredIs
  <2> QED
    BY <2>1
<1>4. PICK seated \in Seq(Player) : seated = filtered(s, I)
  BY <1>3
<1>5. PICK seq : seq = order(t)
  OBVIOUS
<1>6. seq = [n \in DOMAIN seated |-> seated[n].user]
  BY <1>0, <1>2, <1>4, <1>5, Zenon DEF order
<1>7. DOMAIN seq = DOMAIN at /\ \A n \in DOMAIN at : at[n] \in DOMAIN s /\ seq[n] = s[at[n]].user
  BY <1>2, <1>3, <1>4, <1>6 DEF Sorts
<1>8. seq \in Seq(Users)
  <2>0. \A n \in DOMAIN seated : seated[n] \in Player
    OBVIOUS
  <2>1. \A n \in DOMAIN seated : seated[n].user \in Users
    BY <2>0 DEF Player
  <2>2. PICK n \in Nat : DOMAIN seated = 1 .. n
    BY <1>4
  <2> QED
    BY <1>6, <2>1, <2>2
<1>9. \A i, j \in DOMAIN seq : seq[i] = seq[j] => i = j
  <2> SUFFICES ASSUME NEW i \in DOMAIN seq, NEW j \in DOMAIN seq, seq[i] = seq[j] PROVE i = j
    OBVIOUS
  <2>1. at[i] = at[j]
    BY <1>1, <1>7
  <2>2. \A x \in I : <<x, x>> \notin Earlier(I)
    BY <1>1 DEF Earlier
  <2>3. \A p, q \in DOMAIN at : at[p] = at[q] => p = q
    BY <1>3, <2>2, SortsOnce
  <2> QED
    BY <1>7, <2>1, <2>3
<1>10. ASSUME NEW w
       PROVE  w \in ToSet(seq) <=> \E i \in DOMAIN s : IsActive(s[i]) /\ w = s[i].user
  <2>1. w \in ToSet(seq) <=> \E n \in DOMAIN at : w = s[at[n]].user
    BY <1>7 DEF ToSet
  <2>2. \A i : i \in I <=> \E n \in DOMAIN at : at[n] = i
    BY <1>3 DEF Sorts
  <2> QED
    BY <1>2, <2>1, <2>2
<1> QED
  BY <1>0, <1>5, <1>8, <1>9, <1>10 DEF Entered

(* An elimination as it is drawn: everybody seeded has a match to play, or   *)
(* went on by a bye.                                                         *)
Playing(b, U) == BracketShaped(b) /\ Linked(b) /\ Flows(b) /\ \A w \in U : w # Nobody /\ InPlay(b, w)

(* The rounds of a single elimination, and of a double.                      *)
LEMMA SingleRounds ==
  ASSUME NEW seq, NEW k \in Nat, k >= 1, k = RoundsFor(Len(seq)), NEW b, b = singleElimination(seq)
  PROVE  HasRounds(b)
<1>1. DOMAIN b = Ids("main", k)
  BY DEF singleElimination, Tree
<1>2. PICK side : side = "main"
  OBVIOUS
<1>3. \A id \in Ids(side, k) : id[2] \in 1 .. k
  BY <1>2, TreeIds
<1>4. \A m \in DOMAIN b : m[2] \in 0 .. k
  BY <1>1, <1>2, <1>3
<1> QED
  BY <1>4 DEF HasRounds

LEMMA LoserRounds ==
  ASSUME NEW k \in Nat, k >= 2
  PROVE  \A id \in LoserIds(k) : id[2] \in 0 .. (2 * k)
<1> SUFFICES ASSUME NEW id \in LoserIds(k) PROVE id[2] \in 0 .. (2 * k)
  OBVIOUS
<1>1. PICK s \in 1 .. (k - 1) : \E r \in {2 * s - 1, 2 * s} : \E p \in 0 .. (FieldSize[k - s - 1] - 1) :
         id = <<"losers", r, p>>
  BY LoserIdIs
<1>2. PICK r \in {2 * s - 1, 2 * s}, p \in 0 .. (FieldSize[k - s - 1] - 1) : id = <<"losers", r, p>>
  BY <1>1
<1>3. r \in 0 .. (2 * k)
  OBVIOUS
<1> QED
  BY <1>2, <1>3

LEMMA DoubleRounds ==
  ASSUME NEW seq, NEW k \in Nat, k >= 2, k = RoundsFor(Len(seq)), NEW b, b = doubleElimination(seq)
  PROVE  HasRounds(b)
<1>1. DOMAIN b = DoubleIds(k)
  BY DoubleIs
<1>2. PICK n \in Nat : n = 2 * k
  OBVIOUS
<1>3. \A id \in Ids("winners", k) : id[2] \in 0 .. n
  <2>1. PICK side : side = "winners"
    OBVIOUS
  <2>2. \A id \in Ids(side, k) : id[2] \in 1 .. k
    BY <2>1, TreeIds
  <2>3. \A r \in 1 .. k : r \in 0 .. n
    BY <1>2
  <2> QED
    BY <2>1, <2>2, <2>3
<1>4. \A id \in LoserIds(k) : id[2] \in 0 .. n
  BY <1>2, LoserRounds, Zenon
<1>5. FinalId(k)[2] \in 0 .. n
  BY <1>2 DEF FinalId
<1>6. \A m \in DOMAIN b : m[2] \in 0 .. n
  BY <1>1, <1>3, <1>4, <1>5 DEF DoubleIds
<1> QED
  BY <1>6 DEF HasRounds

(* A bracket as generated, its byes resolved, has all its players in play.   *)
LEMMA EliminationBegins ==
  ASSUME NEW t, TypedRow(t), t.format \in Elimination, canStart(t)
  PROVE  Playing(generateBracket(t), ToSet(order(t))) /\ HasRounds(generateBracket(t))
<1>1. PICK seq : seq = order(t)
  OBVIOUS
<1>2. Entered(seq)
  BY <1>1, OrderIs
<1>3. PICK n \in Nat : n = Len(seq)
  BY <1>2 DEF Entered
<1>4. PICK k \in Nat : k = RoundsFor(n) /\ FieldSize[k] >= n /\ (n >= 2 => k >= 1) /\ (n >= 3 => k >= 2)
  BY RoundsFit
<1>5. PICK b, side : /\ generateBracket(t) = resolveByes(b) /\ k >= 1
                     /\ Drawn(b, seq, k, side, Links) /\ HasRounds(b)
  <2>1. CASE t.format \in {"single-elimination", "knockout"}
    <3>1. n >= 2
      BY <1>1, <1>3, <2>1, Zenon DEF canStart
    <3>2. k >= 1
      BY <1>4, <3>1
    <3>3. PICK b : b = singleElimination(seq)
      OBVIOUS
    <3>4. generateBracket(t) = resolveByes(b)
      BY <1>1, <2>1, <3>3 DEF generateBracket
    <3>5. Drawn(b, seq, k, "main", Links)
      BY <1>2, <1>3, <1>4, <3>2, <3>3, SingleDrawn
    <3>6. HasRounds(b)
      BY <1>3, <1>4, <3>2, <3>3, SingleRounds
    <3> QED
      BY <3>2, <3>4, <3>5, <3>6
  <2>2. CASE t.format = "double-elimination"
    <3>1. n >= 3
      BY <1>1, <1>3, <2>2 DEF canStart
    <3>2. k >= 2 /\ k >= 1
      BY <1>4, <3>1
    <3>3. PICK b : b = doubleElimination(seq)
      OBVIOUS
    <3>4. generateBracket(t) = resolveByes(b)
      BY <1>1, <2>2, <3>3 DEF generateBracket
    <3>5. Drawn(b, seq, k, "winners", Links)
      BY <1>2, <1>3, <1>4, <3>2, <3>3, DoubleDrawn
    <3>6. HasRounds(b)
      BY <1>3, <1>4, <3>2, <3>3, DoubleRounds
    <3> QED
      BY <3>2, <3>4, <3>5, <3>6
  <2> QED
    BY <2>1, <2>2 DEF Elimination
<1>6. b \in [DOMAIN b -> MatchOf(Slots, Links)] /\ Fresh(b) /\ Flows(b) /\ \A w \in ToSet(seq) : InPlay(b, w)
  BY <1>2, <1>3, <1>4, <1>5, DrawnFlows
<1>7. Linked(b)
  BY <1>5 DEF Drawn
<1>8. PICK M, V : M = DOMAIN b /\ V = Slots
  OBVIOUS
<1>9. PICK c : c = resolveByes(b)
  OBVIOUS
<1>10. BracketShaped(c) /\ Linked(c) /\ Flows(c) /\ DOMAIN c = DOMAIN b /\ \A w : w # Nobody /\ InPlay(b, w) => InPlay(c, w)
  <2>1. b \in [M -> MatchOf(V, Links)]
    BY <1>6, <1>8
  <2> QED
    BY <1>6, <1>7, <1>9, <2>1, ByesResolved
<1>11. \A w \in ToSet(seq) : w # Nobody
  BY <1>2, NobodyAssumption DEF Entered, ToSet
<1>12. HasRounds(c)
  BY <1>5, <1>10 DEF HasRounds
<1>13. Playing(c, ToSet(seq))
  BY <1>6, <1>10, <1>11 DEF Playing
<1> QED
  BY <1>1, <1>5, <1>9, <1>12, <1>13

-----------------------------------------------------------------------------
(* The circle method.  Of N turning seats, and the first one which stays,    *)
(* the one at place i of the circle in round r.                              *)
LEMMA ModBelow ==
  ASSUME NEW N \in Nat \ {0}, NEW d \in 0 .. (N - 1) PROVE d % N = d
  BY SMT

(* The same below zero: % is that of the modulus, never negative.            *)
LEMMA ModAbove ==
  ASSUME NEW N \in Nat \ {0}, NEW d \in (1 - N) .. (0 - 1) PROVE d % N = d + N
  BY SMT

SeatAt(N, r, i) == IF i = 0 THEN 1 ELSE 2 + ((i - r) % N)

Around(N, r, i) == IF i = 0 THEN 1 ELSE IF i >= r THEN 2 + i - r ELSE 2 + i - r + N

(* The seat in the circle without the modulus.                               *)
LEMMA SeatTurned ==
  ASSUME NEW N \in Nat \ {0}, NEW r \in 1 .. N, NEW i \in 0 .. N
  PROVE  SeatAt(N, r, i) = Around(N, r, i) /\ Around(N, r, i) \in 1 .. (N + 1)
<1>1. CASE i = 0
  BY <1>1 DEF SeatAt, Around
<1>2. CASE i # 0 /\ i >= r
  <2>1. PICK d \in 0 .. (N - 1) : d = i - r
    BY <1>2
  <2>2. d % N = d
    BY ModBelow
  <2> QED
    BY <1>2, <2>1, <2>2 DEF SeatAt, Around
<1>3. CASE i # 0 /\ i < r
  <2>1. PICK d \in (1 - N) .. (0 - 1) : d = i - r
    BY <1>3
  <2>2. d % N = d + N
    BY ModAbove
  <2> QED
    BY <1>3, <2>1, <2>2 DEF SeatAt, Around
<1> QED
  BY <1>1, <1>2, <1>3

(* Two seats are opposite at one place in one round.                         *)
Opposite(N, r, i, p, q) ==
  \/ SeatAt(N, r, i) = p /\ SeatAt(N, r, N - i) = q
  \/ SeatAt(N, r, i) = q /\ SeatAt(N, r, N - i) = p

(* Who sit opposite each other.                                              *)
LEMMA OppositeIs ==
  ASSUME NEW h \in Nat \ {0}, NEW N \in Nat, N = 2 * h - 1, NEW r \in 1 .. N, NEW i \in 0 .. (h - 1), NEW p, NEW q
  PROVE  Opposite(N, r, i, p, q) <=> \/ Around(N, r, i) = p /\ Around(N, r, N - i) = q
                                     \/ Around(N, r, i) = q /\ Around(N, r, N - i) = p
<1>1. N \in Nat \ {0} /\ i \in 0 .. N
  OBVIOUS
<1>2. PICK j \in 0 .. N : j = N - i
  OBVIOUS
<1>3. SeatAt(N, r, i) = Around(N, r, i)
  BY <1>1, SeatTurned
<1>4. SeatAt(N, r, j) = Around(N, r, j)
  BY <1>1, SeatTurned
<1> QED
  BY <1>2, <1>3, <1>4 DEF Opposite

(* Any two seats are opposite in some round.                                 *)
LEMMA SeatsMeet ==
  ASSUME NEW h \in Nat \ {0}, NEW N \in Nat, N = 2 * h - 1, NEW p \in 1 .. (2 * h), NEW q \in 1 .. (2 * h), p < q
  PROVE  \E r \in 1 .. N : \E i \in 0 .. (h - 1) : Opposite(N, r, i, p, q)
<1>1. CASE p = 1
  <2>1. PICK r \in 1 .. N : r = N + 2 - q
    BY <1>1
  <2>2. PICK i \in 0 .. (h - 1) : i = 0
    OBVIOUS
  <2>3. Around(N, r, i) = p /\ Around(N, r, N - i) = q
    BY <1>1, <2>1, <2>2 DEF Around
  <2> QED
    BY <2>3, OppositeIs
<1>2. CASE p # 1
  <2>1. PICK d \in Nat : d = q - p /\ (d % 2 = 0 \/ d % 2 = 1)
    <3>1. q - p \in Nat /\ ((q - p) % 2 = 0 \/ (q - p) % 2 = 1)
      OBVIOUS
    <3> QED
      BY <3>1
  <2>a. 1 <= d /\ d <= 2 * h - 2
    BY <1>2, <2>1
  <2>2. CASE d % 2 = 0
    <3>1. PICK i \in 1 .. (h - 1) : d = 2 * i
      <4>1. PICK i \in Int : i = d \div 2
        OBVIOUS
      <4>2. d = 2 * i
        BY <2>2, <4>1
      <4>3. 1 <= i /\ i <= h - 1
        BY <2>a, <4>2
      <4> QED
        BY <4>2, <4>3
    <3>2. PICK r \in 1 .. N : r = IF i - (q - 2) >= 1 THEN i - (q - 2) ELSE i - (q - 2) + N
      <4>1. PICK e \in Int : e = i - (q - 2) /\ e <= h - 1 /\ e >= 2 - N
        <5>1. i - (q - 2) \in Int /\ i - (q - 2) <= h - 1 /\ i - (q - 2) >= 2 - N
          BY <1>2
        <5> QED
          BY <5>1
      <4>2. CASE e >= 1
        <5>1. e \in 1 .. N
          BY <4>1, <4>2
        <5> QED
          BY <4>1, <4>2, <5>1
      <4>3. CASE ~(e >= 1)
        <5>1. e + N \in 1 .. N
          BY <4>1, <4>3
        <5> QED
          BY <4>1, <4>3, <5>1
      <4> QED
        BY <4>2, <4>3
    <3>3. Around(N, r, i) = q /\ Around(N, r, N - i) = p
      BY <1>2, <2>1, <3>1, <3>2 DEF Around
    <3>4. i \in 0 .. (h - 1)
      OBVIOUS
    <3> QED
      BY <3>3, <3>4, OppositeIs
  <2>3. CASE d % 2 = 1
    <3>1. PICK i \in 1 .. (h - 1) : N - d = 2 * i
      <4>1. PICK i \in Int : i = (N - d) \div 2
        OBVIOUS
      <4>2. N - d = 2 * i
        BY <2>3, <4>1
      <4>3. 1 <= i /\ i <= h - 1
        BY <2>a, <4>2
      <4> QED
        BY <4>2, <4>3
    <3>2. PICK r \in 1 .. N : r = IF i - (p - 2) >= 1 THEN i - (p - 2) ELSE i - (p - 2) + N
      <4>1. PICK e \in Int : e = i - (p - 2) /\ e <= h - 1 /\ e >= 2 - N
        <5>1. i - (p - 2) \in Int /\ i - (p - 2) <= h - 1 /\ i - (p - 2) >= 2 - N
          BY <1>2
        <5> QED
          BY <5>1
      <4>2. CASE e >= 1
        <5>1. e \in 1 .. N
          BY <4>1, <4>2
        <5> QED
          BY <4>1, <4>2, <5>1
      <4>3. CASE ~(e >= 1)
        <5>1. e + N \in 1 .. N
          BY <4>1, <4>3
        <5> QED
          BY <4>1, <4>3, <5>1
      <4> QED
        BY <4>2, <4>3
    <3>3. Around(N, r, i) = p /\ Around(N, r, N - i) = q
      BY <1>2, <2>1, <3>1, <3>2 DEF Around
    <3>4. i \in 0 .. (h - 1)
      OBVIOUS
    <3> QED
      BY <3>3, <3>4, OppositeIs
  <2> QED
    BY <2>1, <2>2, <2>3
<1> QED
  BY <1>1, <1>2

(* And in no other, and at no other place of it.                             *)
LEMMA SeatsMeetOnce ==
  ASSUME NEW h \in Nat \ {0}, NEW N \in Nat, N = 2 * h - 1, NEW p, NEW q,
         NEW r \in 1 .. N, NEW i \in 0 .. (h - 1), Opposite(N, r, i, p, q),
         NEW s \in 1 .. N, NEW j \in 0 .. (h - 1), Opposite(N, s, j, p, q)
  PROVE  r = s /\ i = j
<1>1. \/ Around(N, r, i) = p /\ Around(N, r, N - i) = q
      \/ Around(N, r, i) = q /\ Around(N, r, N - i) = p
  BY OppositeIs
<1>2. \/ Around(N, s, j) = p /\ Around(N, s, N - j) = q
      \/ Around(N, s, j) = q /\ Around(N, s, N - j) = p
  BY OppositeIs
<1>3. \/ Around(N, r, i) = Around(N, s, j) /\ Around(N, r, N - i) = Around(N, s, N - j)
      \/ Around(N, r, i) = Around(N, s, N - j) /\ Around(N, r, N - i) = Around(N, s, j)
  BY <1>1, <1>2
<1>4. PICK a, b, c, d : a = Around(N, r, i) /\ b = Around(N, r, N - i) /\ c = Around(N, s, j) /\ d = Around(N, s, N - j)
  OBVIOUS
<1>5. a = IF i = 0 THEN 1 ELSE IF i >= r THEN 2 + i - r ELSE 2 + i - r + N
  BY <1>4 DEF Around
<1>6. b = IF N - i >= r THEN 2 + N - i - r ELSE 2 + N - i - r + N
  BY <1>4 DEF Around
<1>7. c = IF j = 0 THEN 1 ELSE IF j >= s THEN 2 + j - s ELSE 2 + j - s + N
  BY <1>4 DEF Around
<1>8. d = IF N - j >= s THEN 2 + N - j - s ELSE 2 + N - j - s + N
  BY <1>4 DEF Around
<1>9. (a = c /\ b = d) \/ (a = d /\ b = c)
  BY <1>3, <1>4
<1>10. CASE a = c /\ b = d
  BY <1>5, <1>6, <1>7, <1>8, <1>10
<1>11. CASE a = d /\ b = c
  BY <1>5, <1>6, <1>7, <1>8, <1>11
<1> QED
  BY <1>9, <1>10, <1>11

(* Brackets without progress.                                                *)
Meets(b, m, u, v) ==
  \/ b[m].slots[1] = u /\ b[m].slots[2] = v
  \/ b[m].slots[1] = v /\ b[m].slots[2] = u

Flat(b) == BracketShaped(b) /\ \A m \in DOMAIN b : b[m].winnerTo = Nowhere /\ b[m].loserTo = Nowhere

AllMeet(b, U) ==
  /\ Flat(b)
  /\ \A u, v \in U : u # v => \E m \in DOMAIN b : Meets(b, m, u, v) /\ \A n \in DOMAIN b : Meets(b, n, u, v) => n = m

(* The seats of a round-robin: an odd field gets an empty one.               *)
LEMMA SeatsAre ==
  ASSUME NEW seq, Entered(seq), Len(seq) >= 2,
         NEW seats, seats = IF Len(seq) % 2 = 1 THEN Append(seq, Nobody) ELSE seq
  PROVE  /\ \E h \in Nat \ {0} : Len(seats) = 2 * h
         /\ \A p, q \in 1 .. Len(seats) : seats[p] = seats[q] => p = q
         /\ \A w \in ToSet(seq) : w # Nobody /\ \E p \in 1 .. Len(seats) : seats[p] = w
<1>1. PICK n \in Nat : n = Len(seq) /\ DOMAIN seq = 1 .. n /\ n >= 2
  BY DEF Entered
<1>2. /\ \A p \in 1 .. n : seq[p] \in Users
      /\ \A p, q \in 1 .. n : seq[p] = seq[q] => p = q
  <2>1. \A p \in DOMAIN seq : seq[p] \in Users
    BY DEF Entered
  <2>2. \A p, q \in DOMAIN seq : seq[p] = seq[q] => p = q
    BY DEF Entered
  <2> QED
    BY <1>1, <2>1, <2>2
<1>3. \A w \in ToSet(seq) : \E p \in 1 .. n : seq[p] = w
  BY <1>1 DEF ToSet
<1>4. CASE n % 2 = 1
  <2>1. seats = Append(seq, Nobody)
    BY <1>1, <1>4
  <2>2. Len(seats) = n + 1 /\ seats[n + 1] = Nobody /\ \A p \in 1 .. n : seats[p] = seq[p]
    BY <1>1, <2>1 DEF Entered
  <2>3. PICK h \in Nat \ {0} : n + 1 = 2 * h
    <3>1. PICK h \in Int : h = (n + 1) \div 2
      OBVIOUS
    <3>2. n + 1 = 2 * h
      BY <1>4, <3>1
    <3>3. h \in Nat \ {0}
      BY <3>2
    <3> QED
      BY <3>2, <3>3
  <2>4. \A p \in 1 .. (n + 1) : p \in 1 .. n \/ p = n + 1
    OBVIOUS
  <2>5. \A p \in 1 .. n : p \in 1 .. (n + 1)
    OBVIOUS
  <2>6. \A p, q \in 1 .. (n + 1) : seats[p] = seats[q] => p = q
    BY <1>2, <2>2, <2>4, NobodyAssumption
  <2>7. ASSUME NEW w \in ToSet(seq) PROVE w # Nobody /\ \E p \in 1 .. (n + 1) : seats[p] = w
    BY <1>2, <1>3, <2>2, <2>5, NobodyAssumption
  <2> QED
    BY <2>2, <2>3, <2>6, <2>7
<1>5. CASE n % 2 # 1
  <2>1. seats = seq
    BY <1>1, <1>5
  <2>2. PICK h \in Nat \ {0} : n = 2 * h
    <3>1. PICK h \in Int : h = n \div 2
      OBVIOUS
    <3>2. n = 2 * h
      BY <1>5, <3>1
    <3>3. h \in Nat \ {0}
      BY <1>1, <3>2
    <3> QED
      BY <3>2, <3>3
  <2> QED
    BY <1>1, <1>2, <1>3, <2>1, <2>2, NobodyAssumption
<1> QED
  BY <1>4, <1>5

(* In the rounds of roundRobin any two entrants meet exactly once, the bye   *)
(* of an odd field left out.                                                 *)
LEMMA RoundRobinIs ==
  ASSUME NEW seq, Entered(seq), Len(seq) >= 2, NEW b, b = roundRobin(seq)
  PROVE  AllMeet(b, ToSet(seq))
<1>1. PICK seats : seats = IF Len(seq) % 2 = 1 THEN Append(seq, Nobody) ELSE seq
  OBVIOUS
<1>2. /\ \E h \in Nat \ {0} : Len(seats) = 2 * h
      /\ \A p, q \in 1 .. Len(seats) : seats[p] = seats[q] => p = q
      /\ \A w \in ToSet(seq) : w # Nobody /\ \E p \in 1 .. Len(seats) : seats[p] = w
  BY <1>1, SeatsAre
<1>3. PICK h \in Nat \ {0} : Len(seats) = 2 * h
  BY <1>2
<1>4. PICK N \in Nat : N = 2 * h - 1
  OBVIOUS
<1>5. PICK m \in Nat : m = Len(seats) /\ m = 2 * h /\ m - 1 = N /\ m \div 2 = h
  <2>1. Len(seats) \in Nat /\ Len(seats) - 1 = N /\ Len(seats) \div 2 = h
    BY <1>3, <1>4
  <2> QED
    BY <1>3, <2>1
<1> DEFINE At(r, i) == IF i = 0 THEN seats[1] ELSE seats[2 + ((i - r) % (m - 1))]
           PairAt(r, i) == <<At(r, i), At(r, m - 1 - i)>>
           D == {d \in {"main"} \X (1 .. (m - 1)) \X (0 .. (m \div 2 - 1)) : Nobody \notin ToSet(PairAt(d[2], d[3]))}
<1>6. b = [id \in D |-> makeMatch(id, PairAt(id[2], id[3]), Nowhere, Nowhere)]
  BY <1>1, <1>5, ZenonT(60) DEF roundRobin
<1>7. ASSUME NEW r \in 1 .. N, NEW i \in 0 .. (h - 1)
      PROVE  /\ PairAt(r, i) = <<seats[SeatAt(N, r, i)], seats[SeatAt(N, r, N - i)]>>
             /\ PairAt(r, i) = <<PairAt(r, i)[1], PairAt(r, i)[2]>>
             /\ PairAt(r, i)[1] = seats[SeatAt(N, r, i)] /\ PairAt(r, i)[2] = seats[SeatAt(N, r, N - i)]
             /\ ToSet(PairAt(r, i)) = {seats[SeatAt(N, r, i)], seats[SeatAt(N, r, N - i)]}
             /\ SeatAt(N, r, i) \in 1 .. m /\ SeatAt(N, r, N - i) \in 1 .. m
  <2>1. At(r, i) = seats[SeatAt(N, r, i)]
    BY <1>5 DEF SeatAt
  <2>2. At(r, m - 1 - i) = seats[SeatAt(N, r, N - i)]
    BY <1>5 DEF SeatAt
  <2>3. PICK x, y : x = seats[SeatAt(N, r, i)] /\ y = seats[SeatAt(N, r, N - i)]
    OBVIOUS
  <2>4. PairAt(r, i) = <<x, y>>
    BY <2>1, <2>2, <2>3
  <2>5. ToSet(<<x, y>>) = {x, y}
    <3>1. PICK z : z = <<x, y>>
      OBVIOUS
    <3>2. DOMAIN z = 1 .. 2 /\ z[1] = x /\ z[2] = y /\ \A j : j \in 1 .. 2 <=> j = 1 \/ j = 2
      BY <3>1
    <3>3. ToSet(z) = {x, y}
      BY <3>2 DEF ToSet
    <3> QED
      BY <3>1, <3>3
  <2>6. SeatAt(N, r, i) \in 1 .. m /\ SeatAt(N, r, N - i) \in 1 .. m
    <3>1. N \in Nat \ {0} /\ i \in 0 .. N /\ m = N + 1
      BY <1>4, <1>5
    <3>2. PICK j \in 0 .. N : j = N - i
      BY <3>1
    <3>3. SeatAt(N, r, i) \in 1 .. (N + 1)
      BY <3>1, SeatTurned
    <3>4. SeatAt(N, r, j) \in 1 .. (N + 1)
      BY <3>1, SeatTurned
    <3> QED
      BY <3>1, <3>2, <3>3, <3>4
  <2> HIDE DEF PairAt
  <2> QED
    BY <2>3, <2>4, <2>5, <2>6
<1> HIDE DEF At, PairAt
<1>8. \A d : d \in D <=> \E r \in 1 .. N : \E i \in 0 .. (h - 1) : d = <<"main", r, i>> /\ Nobody \notin ToSet(PairAt(r, i))
  BY <1>5
<1> HIDE DEF D
<1>9. DOMAIN b = D /\ \A id \in D : b[id] = makeMatch(id, PairAt(id[2], id[3]), Nowhere, Nowhere)
  BY <1>6
<1>10. ASSUME NEW id \in D
       PROVE  /\ DOMAIN b[id] = MatchFields /\ b[id].winnerTo = Nowhere /\ b[id].loserTo = Nowhere
              /\ b[id].slots = PairAt(id[2], id[3])
  <2>1. PICK s, x : s = PairAt(id[2], id[3]) /\ x = StateOf(id, s)
    OBVIOUS
  <2>2. b[id] = [slots |-> s, state |-> x, winner |-> Nobody, loser |-> Nobody, winnerTo |-> Nowhere, loserTo |-> Nowhere]
    BY <1>9, <2>1 DEF makeMatch
  <2> QED
    BY <2>1, <2>2 DEF MatchFields
<1>11. ASSUME NEW r \in 1 .. N, NEW i \in 0 .. (h - 1), NEW id \in D, id = <<"main", r, i>>
       PROVE  /\ b[id].slots = <<b[id].slots[1], b[id].slots[2]>>
              /\ b[id].slots[1] = seats[SeatAt(N, r, i)] /\ b[id].slots[2] = seats[SeatAt(N, r, N - i)]
  <2>1. id[2] = r /\ id[3] = i
    BY <1>11
  <2>2. b[id].slots = PairAt(r, i)
    BY <1>10, <2>1
  <2> QED
    BY <1>7, <2>2
<1>12. Flat(b)
  <2>1. ASSUME NEW id \in D PROVE DOMAIN b[id].slots = 1 .. 2
    <3>1. PICK r \in 1 .. N, i \in 0 .. (h - 1) : id = <<"main", r, i>>
      BY <1>8
    <3>2. b[id].slots = <<b[id].slots[1], b[id].slots[2]>>
      BY <1>11, <3>1
    <3> QED
      BY <3>2
  <2> QED
    BY <1>9, <1>10, <2>1 DEF Flat, BracketShaped
<1>13. ASSUME NEW u \in ToSet(seq), NEW v \in ToSet(seq), u # v
       PROVE  \E x \in D : Meets(b, x, u, v) /\ \A n \in D : Meets(b, n, u, v) => n = x
  <2>1. PICK p \in 1 .. m, q \in 1 .. m : seats[p] = u /\ seats[q] = v /\ p # q
    BY <1>2, <1>5, <1>13
  <2>2. u # Nobody /\ v # Nobody
    BY <1>2
  <2>3. PICK r \in 1 .. N, i \in 0 .. (h - 1) : Opposite(N, r, i, p, q)
    <3>1. p \in 1 .. (2 * h) /\ q \in 1 .. (2 * h)
      BY <1>5
    <3>2. CASE p < q
      BY <1>4, <3>1, <3>2, SeatsMeet
    <3>3. CASE q < p
      <4>1. \E r \in 1 .. N : \E i \in 0 .. (h - 1) : Opposite(N, r, i, q, p)
        BY <1>4, <3>1, <3>3, SeatsMeet
      <4> QED
        BY <4>1 DEF Opposite
    <3> QED
      BY <2>1, <3>1, <3>2, <3>3
  <2>4. PICK x : x = <<"main", r, i>>
    OBVIOUS
  <2>5. {seats[SeatAt(N, r, i)], seats[SeatAt(N, r, N - i)]} = {u, v}
    BY <2>1, <2>3 DEF Opposite
  <2>6. x \in D
    <3>1. Nobody \notin ToSet(PairAt(r, i))
      BY <1>7, <2>2, <2>5
    <3> QED
      BY <1>8, <2>4, <3>1
  <2>7. Meets(b, x, u, v)
    <3>1. b[x].slots[1] = seats[SeatAt(N, r, i)] /\ b[x].slots[2] = seats[SeatAt(N, r, N - i)]
      BY <1>11, <2>4, <2>6
    <3> QED
      BY <2>1, <2>3, <3>1 DEF Meets, Opposite
  <2>8. ASSUME NEW n \in D, Meets(b, n, u, v) PROVE n = x
    <3>1. PICK s \in 1 .. N, j \in 0 .. (h - 1) : n = <<"main", s, j>>
      BY <1>8
    <3>2. PICK y, z : y = SeatAt(N, s, j) /\ z = SeatAt(N, s, N - j)
      OBVIOUS
    <3>3. b[n].slots[1] = seats[y] /\ b[n].slots[2] = seats[z]
      BY <1>11, <3>1, <3>2
    <3>4. y \in 1 .. m /\ z \in 1 .. m
      BY <1>7, <3>2
    <3>a. \A e, f \in 1 .. m : seats[e] = seats[f] => e = f
      BY <1>2, <1>5
    <3>b. (seats[y] = seats[p] /\ seats[z] = seats[q]) \/ (seats[y] = seats[q] /\ seats[z] = seats[p])
      BY <2>1, <2>8, <3>3 DEF Meets
    <3>5. (y = p /\ z = q) \/ (y = q /\ z = p)
      BY <3>4, <3>a, <3>b
    <3>6. Opposite(N, s, j, p, q)
      BY <3>2, <3>5 DEF Opposite
    <3>7. r = s /\ i = j
      BY <1>4, <2>3, <3>6, SeatsMeetOnce
    <3> QED
      BY <2>4, <3>1, <3>7
  <2> QED
    BY <2>6, <2>7, <2>8
<1> QED
  BY <1>9, <1>12, <1>13 DEF AllMeet

-----------------------------------------------------------------------------
(* The pairs of a swiss round: nobody is in two.                             *)
Paired(b, U) ==
  /\ Flat(b)
  /\ \A u \in U : \E m \in DOMAIN b : Sits(b, m, u) /\ \A n \in DOMAIN b : Sits(b, n, u) => n = m

InPairs(pairs) == UNION {ToSet(pairs[i]) : i \in DOMAIN pairs}

PairsOnce ==
  {pairs \in Seq(Slots \X Slots) :
     \A i, j \in DOMAIN pairs : \A u : u # Nobody /\ u \in ToSet(pairs[i]) /\ u \in ToSet(pairs[j]) => i = j}

(* A pair has its two.                                                       *)
LEMMA PairHas == \A x, y : ToSet(<<x, y>>) = {x, y}
<1> SUFFICES ASSUME NEW x, NEW y PROVE ToSet(<<x, y>>) = {x, y}
  OBVIOUS
<1>1. PICK z : z = <<x, y>>
  OBVIOUS
<1>2. DOMAIN z = 1 .. 2 /\ z[1] = x /\ z[2] = y /\ \A j : j \in 1 .. 2 <=> j = 1 \/ j = 2
  BY <1>1
<1>3. ToSet(z) = {x, y}
  BY <1>2 DEF ToSet
<1> QED
  BY <1>1, <1>3

(* Who is in some pair.                                                      *)
LEMMA InPairsIs == ASSUME NEW pairs PROVE \A u : u \in InPairs(pairs) <=> \E i \in DOMAIN pairs : u \in ToSet(pairs[i])
  BY Zenon DEF InPairs

(* A new pair of two who are in none puts nobody into two.                   *)
LEMMA PairsGrow ==
  ASSUME NEW pairs \in PairsOnce, NEW u \in Users, u \notin InPairs(pairs), NEW v \in Slots,
         v = Nobody \/ (v # u /\ v \notin InPairs(pairs)), NEW more, more = Append(pairs, <<u, v>>)
  PROVE  more \in PairsOnce /\ u \in InPairs(more) /\ \A w \in InPairs(pairs) : w \in InPairs(more)
<1>1. PICK V : V = Slots \X Slots
  OBVIOUS
<1>2. PICK new \in V : new = <<u, v>>
  BY <1>1 DEF Slots
<1>3. pairs \in Seq(V)
  BY <1>1 DEF PairsOnce
<1>4. PICK n \in Nat : DOMAIN pairs = 1 .. n /\ Len(pairs) = n
  BY <1>3
<1>5. more \in Seq(V) /\ DOMAIN more = 1 .. (n + 1) /\ more[n + 1] = new /\ \A i \in 1 .. n : more[i] = pairs[i]
  BY <1>2, <1>3, <1>4
<1>6. \A i : i \in 1 .. (n + 1) <=> i \in 1 .. n \/ i = n + 1
  OBVIOUS
<1>7. ToSet(new) = {u, v}
  BY <1>2, PairHas
<1>8. \A i \in 1 .. n : \A w : w \in ToSet(pairs[i]) => w \in InPairs(pairs)
  BY <1>4, InPairsIs
<1>9. \A i, j \in 1 .. n : \A w : w # Nobody /\ w \in ToSet(pairs[i]) /\ w \in ToSet(pairs[j]) => i = j
  BY <1>4 DEF PairsOnce
<1>10. ASSUME NEW i \in 1 .. (n + 1), NEW j \in 1 .. (n + 1), NEW w, w # Nobody, w \in ToSet(more[i]), w \in ToSet(more[j])
       PROVE  i = j
  <2>1. CASE i \in 1 .. n /\ j \in 1 .. n
    BY <1>5, <1>9, <1>10, <2>1
  <2>2. CASE i = n + 1 /\ j \in 1 .. n
    BY <1>5, <1>7, <1>8, <1>10, <2>2
  <2>3. CASE j = n + 1 /\ i \in 1 .. n
    BY <1>5, <1>7, <1>8, <1>10, <2>3
  <2> QED
    BY <1>6, <2>1, <2>2, <2>3
<1>11. more \in PairsOnce
  BY <1>1, <1>5, <1>10 DEF PairsOnce
<1>12. u \in InPairs(more)
  BY <1>5, <1>6, <1>7, InPairsIs
<1>13. ASSUME NEW w \in InPairs(pairs) PROVE w \in InPairs(more)
  <2>1. PICK i \in 1 .. n : w \in ToSet(pairs[i])
    BY <1>4, InPairsIs
  <2>2. i \in DOMAIN more /\ w \in ToSet(more[i])
    BY <1>5, <1>6, <2>1
  <2> QED
    BY <2>2, InPairsIs
<1> QED
  BY <1>11, <1>12, <1>13

(* Everybody is paired, taken in turn.                                       *)
LEMMA SwissIs ==
  ASSUME NEW seq, Entered(seq), NEW known, NEW b, b = swissPairing(seq, known)
  PROVE  Paired(b, ToSet(seq))
<1> DEFINE left(a, pairs) == {j \in DOMAIN seq : seq[j] # a /\ seq[j] \notin InPairs(pairs)}
           fresh(a, pairs) == {j \in left(a, pairs) : {a, seq[j]} \notin known}
           first(I) == seq[CHOOSE i \in I : \A j \in I : i <= j]
           partner(a, pairs) ==
             IF fresh(a, pairs) # {} THEN first(fresh(a, pairs))
             ELSE IF left(a, pairs) # {} THEN first(left(a, pairs)) ELSE Nobody
           add(a, pairs) == IF a \in InPairs(pairs) THEN pairs ELSE Append(pairs, <<a, partner(a, pairs)>>)
           Fits(h) == h = [n \in 0 .. Len(seq) |->
                             IF n = 0 THEN <<>>
                             ELSE IF seq[n] \in InPairs(h[n - 1]) THEN h[n - 1]
                             ELSE Append(h[n - 1], <<seq[n], partner(seq[n], h[n - 1])>>)]
           paired == CHOOSE h : Fits(h)
           all == paired[Len(seq)]
<1>1. b = [id \in {<<"main", 1, p>> : p \in 0 .. (Len(all) - 1)} |->
             LET pair == all[id[3] + 1] IN
             [makeMatch(id, pair, Nowhere, Nowhere) EXCEPT !.winner = IF pair[2] = Nobody THEN pair[1] ELSE Nobody]]
  BY Zenon DEF swissPairing, InPairs
<1>2. PICK L \in Nat : L = Len(seq) /\ DOMAIN seq = 1 .. L /\ \A n \in 1 .. L : seq[n] \in Users /\ n \in Nat
  BY DEF Entered
<1>3. PICK G : G = PairsOnce
  OBVIOUS
<1>4. ASSUME NEW I \in SUBSET (1 .. L), I # {} PROVE \E j \in I : first(I) = seq[j]
  <2>1. I \in SUBSET Nat
    BY <1>2
  <2>2. \E i \in I : \A j \in I : i <= j
    BY <1>4, <2>1, LeastNat
  <2>3. (CHOOSE i \in I : \A j \in I : i <= j) \in I
    BY <2>2
  <2> QED
    BY <2>3
<1> HIDE DEF first
<1>5. ASSUME NEW a \in Users, NEW pairs \in G, a \notin InPairs(pairs)
      PROVE  /\ partner(a, pairs) \in Slots
             /\ partner(a, pairs) = Nobody \/ (partner(a, pairs) # a /\ partner(a, pairs) \notin InPairs(pairs))
  <2>1. ASSUME NEW j \in left(a, pairs) PROVE seq[j] \in Slots /\ seq[j] # a /\ seq[j] \notin InPairs(pairs)
    BY <1>2 DEF Slots
  <2>2. left(a, pairs) \in SUBSET (1 .. L) /\ fresh(a, pairs) \in SUBSET (1 .. L) /\ fresh(a, pairs) \subseteq left(a, pairs)
    BY <1>2
  <2> HIDE DEF left, fresh
  <2>3. CASE fresh(a, pairs) # {}
    BY <1>4, <2>1, <2>2, <2>3
  <2>4. CASE fresh(a, pairs) = {} /\ left(a, pairs) # {}
    BY <1>4, <2>1, <2>2, <2>4
  <2>5. CASE fresh(a, pairs) = {} /\ left(a, pairs) = {}
    BY <2>5 DEF Slots
  <2> QED
    BY <2>3, <2>4, <2>5
<1> HIDE DEF partner, left, fresh
<1>6. ASSUME NEW a \in Users, NEW pairs \in G
      PROVE  add(a, pairs) \in G /\ a \in InPairs(add(a, pairs)) /\ \A w \in InPairs(pairs) : w \in InPairs(add(a, pairs))
  <2>1. CASE a \in InPairs(pairs)
    BY <2>1
  <2>2. CASE a \notin InPairs(pairs)
    <3>1. PICK v : v = partner(a, pairs)
      OBVIOUS
    <3>2. v \in Slots /\ (v = Nobody \/ (v # a /\ v \notin InPairs(pairs)))
      BY <1>5, <2>2, <3>1
    <3>3. PICK more : more = Append(pairs, <<a, v>>)
      OBVIOUS
    <3>4. more \in PairsOnce /\ a \in InPairs(more) /\ \A w \in InPairs(pairs) : w \in InPairs(more)
      BY <1>3, <2>2, <3>2, <3>3, PairsGrow
    <3>5. add(a, pairs) = more
      BY <2>2, <3>1, <3>3
    <3> QED
      BY <1>3, <3>4, <3>5
  <2> QED
    BY <2>1, <2>2
<1>7. PICK base : base = <<>>
  OBVIOUS
<1>8. base \in G
  <2>1. PICK V : V = Slots \X Slots
    OBVIOUS
  <2>2. base \in Seq(V) /\ DOMAIN base = {}
    BY <1>7
  <2> QED
    BY <1>3, <2>1, <2>2 DEF PairsOnce
<1>9. PICK step : step = [x \in Nat \X G |-> IF x[1] + 1 \in 1 .. L THEN add(seq[x[1] + 1], x[2]) ELSE x[2]]
  OBVIOUS
<1>10. \A h : Fits(h) <=> h = [n \in 0 .. L |-> IF n = 0 THEN base ELSE add(seq[n], h[n - 1])]
  BY <1>2, <1>7
<1> HIDE DEF add, Fits
<1>11. step \in [Nat \X G -> G]
  <2>1. ASSUME NEW x \in Nat \X G
        PROVE  (IF x[1] + 1 \in 1 .. L THEN add(seq[x[1] + 1], x[2]) ELSE x[2]) \in G
    <3>1. x[1] \in Nat /\ x[2] \in G
      OBVIOUS
    <3>2. x[1] + 1 \in 1 .. L => seq[x[1] + 1] \in Users
      BY <1>2
    <3> QED
      BY <1>6, <3>1, <3>2
  <2> QED
    BY <1>9, <2>1
<1>12. PICK g : RunsFrom(g, G, base, step)
  BY <1>8, <1>11, NatSteps
<1>13. PICK h : h = [n \in 0 .. L |-> g[n]]
  OBVIOUS
<1>14. Fits(h)
  <2>1. ASSUME NEW n \in 0 .. L PROVE h[n] = IF n = 0 THEN base ELSE add(seq[n], h[n - 1])
    <3>1. CASE n = 0
      BY <1>12, <1>13, <3>1 DEF RunsFrom
    <3>2. CASE n # 0
      <4>1. PICK m \in Nat : n = m + 1 /\ m = n - 1 /\ m \in 0 .. L /\ m + 1 \in 1 .. L
        <5>1. n - 1 \in Nat /\ n = (n - 1) + 1 /\ n - 1 \in 0 .. L /\ (n - 1) + 1 \in 1 .. L
          BY <3>2
        <5> QED
          BY <5>1
      <4>2. h[n] = step[<<m, g[m]>>] /\ h[m] = g[m] /\ g[m] \in G
        BY <1>12, <1>13, <4>1 DEF RunsFrom
      <4>3. step[<<m, g[m]>>] = add(seq[m + 1], g[m])
        BY <1>9, <4>1, <4>2
      <4> QED
        BY <3>2, <4>1, <4>2, <4>3
    <3> QED
      BY <3>1, <3>2
  <2>2. PICK k : k = [n \in 0 .. L |-> IF n = 0 THEN base ELSE add(seq[n], h[n - 1])]
    OBVIOUS
  <2>3. h = k
    BY <1>13, <2>1, <2>2
  <2> QED
    BY <1>10, <2>2, <2>3
<1>15. Fits(paired)
  BY <1>14, Zenon
<1> HIDE DEF paired
<1>16. PICK k : k = paired
  OBVIOUS
<1>17. k = [n \in 0 .. L |-> IF n = 0 THEN base ELSE add(seq[n], k[n - 1])]
  BY <1>10, <1>15, <1>16
<1> DEFINE Good(n) == k[n] \in G /\ \A j \in 1 .. n : seq[j] \in InPairs(k[n])
<1>18. \A n \in 0 .. L : Good(n)
  <2> DEFINE Bad == {n \in Nat : n <= L /\ ~Good(n)}
  <2> SUFFICES ASSUME Bad # {} PROVE FALSE
    <3>1. \A n \in 0 .. L : n \in Nat /\ n <= L
      OBVIOUS
    <3> HIDE DEF Good
    <3> QED
      BY <3>1
  <2>1. PICK m \in Bad : \A n \in Bad : m <= n
    <3>1. Bad \in SUBSET Nat
      OBVIOUS
    <3> HIDE DEF Bad
    <3> QED
      BY <3>1, LeastNat
  <2>2. m # 0
    <3>1. ASSUME m = 0 PROVE Good(m)
      <4>1. k[m] = base
        BY <1>17, <3>1
      <4>2. \A j : j \notin 1 .. m
        BY <3>1
      <4> QED
        BY <1>8, <4>1, <4>2
    <3> HIDE DEF Good
    <3> QED
      BY <2>1, <3>1
  <2>3. PICK l \in Nat : m = l + 1 /\ l = m - 1 /\ m \in 1 .. L
    <3>1. m \in Nat /\ m - 1 \in Nat /\ m = (m - 1) + 1 /\ m \in 1 .. L
      BY <2>1, <2>2
    <3> QED
      BY <3>1
  <2>4. Good(l)
    <3>1. l <= L /\ ~(m <= l)
      BY <2>3
    <3> HIDE DEF Good
    <3> QED
      BY <2>1, <2>3, <3>1
  <2>5. k[m] = add(seq[m], k[l])
    BY <1>17, <2>3
  <2>6. k[m] \in G /\ seq[m] \in InPairs(k[m]) /\ \A w \in InPairs(k[l]) : w \in InPairs(k[m])
    <3>1. seq[m] \in Users /\ k[l] \in G
      BY <1>2, <2>3, <2>4
    <3> QED
      BY <1>6, <2>5, <3>1
  <2>7. \A j \in 1 .. m : j \in 1 .. l \/ j = m
    BY <2>3
  <2>8. Good(m)
    BY <2>4, <2>6, <2>7
  <2> HIDE DEF Good
  <2> QED
    BY <2>1, <2>8
<1>19. PICK pairs : pairs = all
  OBVIOUS
<1>20. pairs \in PairsOnce /\ \A w \in ToSet(seq) : w \in InPairs(pairs)
  <2>1. Good(L) /\ pairs = k[L]
    BY <1>2, <1>16, <1>18, <1>19
  <2>2. \A w \in ToSet(seq) : \E j \in 1 .. L : w = seq[j]
    BY <1>2 DEF ToSet
  <2> QED
    BY <1>3, <2>1, <2>2
<1>21. PICK c \in Nat : c = Len(pairs) /\ DOMAIN pairs = 1 .. c
  <2>1. PICK V : V = Slots \X Slots
    OBVIOUS
  <2>2. pairs \in Seq(V)
    BY <1>20, <2>1 DEF PairsOnce
  <2> QED
    BY <2>2
<1>22. PICK D : D = {<<"main", 1, p>> : p \in 0 .. (c - 1)}
  OBVIOUS
<1>23. b = [id \in D |->
             LET pair == pairs[id[3] + 1] IN
             [makeMatch(id, pair, Nowhere, Nowhere) EXCEPT !.winner = IF pair[2] = Nobody THEN pair[1] ELSE Nobody]]
  BY <1>1, <1>19, <1>21, <1>22, Zenon
<1> HIDE DEF all
<1>24. DOMAIN b = D
  BY <1>23
<1>25. ASSUME NEW p \in 0 .. (c - 1), NEW id, id = <<"main", 1, p>>
       PROVE  /\ id \in D /\ p + 1 \in DOMAIN pairs
              /\ b[id].slots = pairs[p + 1] /\ DOMAIN b[id].slots = 1 .. 2
              /\ DOMAIN b[id] = MatchFields /\ b[id].winnerTo = Nowhere /\ b[id].loserTo = Nowhere
              /\ \A u : Sits(b, id, u) <=> u \in ToSet(pairs[p + 1])
  <2>1. id \in D /\ id[3] = p /\ p + 1 \in DOMAIN pairs
    BY <1>21, <1>22, <1>25
  <2>2. PICK pair : pair = pairs[p + 1]
    OBVIOUS
  <2>3. pair \in Slots \X Slots
    <3>1. PICK V : V = Slots \X Slots
      OBVIOUS
    <3>2. pairs \in Seq(V)
      BY <1>20, <3>1 DEF PairsOnce
    <3>3. pair \in V
      BY <2>1, <2>2, <3>2
    <3> QED
      BY <3>1, <3>3
  <2>4. PICK x, y : pair = <<x, y>>
    BY <2>3
  <2>5. PICK w, s : w = (IF pair[2] = Nobody THEN pair[1] ELSE Nobody) /\ s = StateOf(id, pair)
    OBVIOUS
  <2>6. b[id] = [makeMatch(id, pair, Nowhere, Nowhere) EXCEPT !.winner = w]
    BY <1>23, <2>1, <2>2, <2>5
  <2>7. makeMatch(id, pair, Nowhere, Nowhere) =
          [slots |-> pair, state |-> s, winner |-> Nobody, loser |-> Nobody, winnerTo |-> Nowhere, loserTo |-> Nowhere]
    BY <2>5 DEF makeMatch
  <2>8. /\ b[id].slots = pair /\ DOMAIN b[id] = MatchFields
        /\ b[id].winnerTo = Nowhere /\ b[id].loserTo = Nowhere
    BY <2>6, <2>7 DEF MatchFields
  <2>9. ToSet(pair) = {x, y}
    BY <2>4, PairHas
  <2>10. pair[1] = x /\ pair[2] = y /\ DOMAIN pair = 1 .. 2
    BY <2>4
  <2>11. \A u : Sits(b, id, u) <=> u \in ToSet(pair)
    BY <2>8, <2>9, <2>10 DEF Sits
  <2> QED
    BY <2>1, <2>2, <2>8, <2>10, <2>11
<1>26. \A id : id \in D <=> \E p \in 0 .. (c - 1) : id = <<"main", 1, p>>
  BY <1>22
<1>27. Flat(b)
  BY <1>24, <1>25, <1>26 DEF Flat, BracketShaped
<1>28. ASSUME NEW u \in ToSet(seq)
       PROVE  \E x \in D : Sits(b, x, u) /\ \A n \in D : Sits(b, n, u) => n = x
  <2>1. u # Nobody
    BY NobodyAssumption DEF Entered, ToSet
  <2>2. PICK i \in 1 .. c : u \in ToSet(pairs[i])
    BY <1>20, <1>21, InPairsIs
  <2>3. PICK p \in 0 .. (c - 1) : i = p + 1
    <3>1. i - 1 \in 0 .. (c - 1) /\ i = (i - 1) + 1
      OBVIOUS
    <3> QED
      BY <3>1
  <2>4. PICK x : x = <<"main", 1, p>>
    OBVIOUS
  <2>5. x \in D /\ Sits(b, x, u)
    BY <1>25, <2>2, <2>3, <2>4
  <2>6. ASSUME NEW n \in D, Sits(b, n, u) PROVE n = x
    <3>1. PICK q \in 0 .. (c - 1) : n = <<"main", 1, q>>
      BY <1>26
    <3>2. u \in ToSet(pairs[q + 1]) /\ q + 1 \in DOMAIN pairs
      BY <1>25, <2>6, <3>1
    <3>3. i \in DOMAIN pairs
      BY <1>21
    <3>4. q + 1 = i
      BY <1>20, <2>1, <2>2, <3>2, <3>3 DEF PairsOnce
    <3>5. q = p
      BY <2>3, <3>4
    <3> QED
      BY <2>4, <3>1, <3>5
  <2> QED
    BY <2>5, <2>6
<1> QED
  BY <1>24, <1>27, <1>28 DEF Paired

-----------------------------------------------------------------------------
(* The order of a swiss round: who is seeded, by score.                      *)
LEMMA EnteredFinite == ASSUME NEW seq, Entered(seq) PROVE IsFiniteSet(ToSet(seq))
<1>1. seq \in Surjection(DOMAIN seq, ToSet(seq))
  <2>1. seq = [i \in DOMAIN seq |-> seq[i]]
    BY DEF Entered
  <2>2. \A i \in DOMAIN seq : seq[i] \in ToSet(seq)
    BY DEF ToSet
  <2>3. \A w \in ToSet(seq) : \E i \in DOMAIN seq : seq[i] = w
    BY DEF ToSet
  <2>4. seq \in [DOMAIN seq -> ToSet(seq)]
    BY <2>1, <2>2
  <2> QED
    BY <2>3, <2>4 DEF Surjection
<1>2. IsFiniteSet(DOMAIN seq)
  BY DomainFinite DEF Entered
<1> QED
  BY <1>1, <1>2, FS_Surjection

(* byScore lists the seeded players, each once.                              *)
LEMMA ByScoreIs ==
  ASSUME NEW t, TypedRow(t)
  PROVE  Entered(byScore(t)) /\ \A w : w \in ToSet(byScore(t)) <=> w \in ToSet(order(t))
<1>1. PICK seq, S : seq = order(t) /\ S = ToSet(order(t))
  OBVIOUS
<1>2. /\ Entered(seq)
      /\ \A w \in S : \E i \in DOMAIN t.players : t.players[i].user = w
  BY <1>1, OrderIs
<1> DEFINE scoreOf(u) == t.players[CHOOSE i \in DOMAIN t.players : t.players[i].user = u].score
           above(u, v) == \/ scoreOf(u) > scoreOf(v)
                          \/ scoreOf(u) = scoreOf(v) /\ positionOf(seq, u) < positionOf(seq, v)
           above0(u, v) == \/ scoreOf(u) > scoreOf(v)
                           \/ scoreOf(u) = scoreOf(v) /\ positionOf(order(t), u) < positionOf(order(t), v)
<1>3. byScore(t) = inOrder(ToSet(order(t)), {pair \in ToSet(order(t)) \X ToSet(order(t)) : above0(pair[1], pair[2])})
  BY Zenon DEF byScore
<1>4. byScore(t) = inOrder(S, {pair \in S \X S : above(pair[1], pair[2])})
  BY <1>1, <1>3, Zenon
<1>5. ASSUME NEW u \in S PROVE scoreOf(u) \in Nat
  <2>1. \A i \in DOMAIN t.players : t.players[i] \in Player
    BY DEF TypedRow
  <2>2. PICK j : j = CHOOSE i \in DOMAIN t.players : t.players[i].user = u
    OBVIOUS
  <2>3. j \in DOMAIN t.players
    BY <1>2, <2>2
  <2> QED
    BY <2>1, <2>2, <2>3 DEF Player
<1>6. ASSUME NEW u \in S PROVE positionOf(seq, u) \in Nat /\ seq[positionOf(seq, u)] = u
  <2>1. \E i \in DOMAIN seq : seq[i] = u
    BY <1>1 DEF ToSet
  <2>2. positionOf(seq, u) \in DOMAIN seq /\ seq[positionOf(seq, u)] = u
    BY <2>1 DEF positionOf
  <2>3. \A i \in DOMAIN seq : i \in Nat
    BY <1>2 DEF Entered
  <2> QED
    BY <2>2, <2>3
<1>7. PICK a : a = [u \in S |-> scoreOf(u)]
  OBVIOUS
<1>8. PICK z : z = [u \in S |-> positionOf(seq, u)]
  OBVIOUS
<1>9. PICK R : R = {pair \in S \X S : above(pair[1], pair[2])}
  OBVIOUS
<1>10. \A u, v \in S : <<u, v>> \in R <=> (a[u] > a[v] \/ (a[u] = a[v] /\ z[u] < z[v]))
  BY <1>7, <1>8, <1>9
<1>11. \A u \in S : a[u] \in Nat /\ z[u] \in Nat /\ seq[z[u]] = u
  BY <1>5, <1>6, <1>7, <1>8
<1> HIDE DEF above, above0, scoreOf
<1>12. Orders(R, S)
  <2>1. IsFiniteSet(S)
    BY <1>1, <1>2, EnteredFinite
  <2>2. \A u \in S : <<u, u>> \notin R
    BY <1>10, <1>11
  <2>3. \A u, v \in S : u # v => <<u, v>> \in R \/ <<v, u>> \in R
    <3> SUFFICES ASSUME NEW u \in S, NEW v \in S, u # v PROVE <<u, v>> \in R \/ <<v, u>> \in R
      OBVIOUS
    <3>1. z[u] # z[v]
      BY <1>11
    <3>2. a[u] \in Nat /\ a[v] \in Nat /\ z[u] \in Nat /\ z[v] \in Nat
      BY <1>11
    <3> QED
      BY <1>10, <3>1, <3>2
  <2>4. \A u, v, w \in S : <<u, v>> \in R /\ <<v, w>> \in R => <<u, w>> \in R
    <3> SUFFICES ASSUME NEW u \in S, NEW v \in S, NEW w \in S, <<u, v>> \in R, <<v, w>> \in R PROVE <<u, w>> \in R
      OBVIOUS
    <3>1. a[u] \in Nat /\ a[v] \in Nat /\ a[w] \in Nat /\ z[u] \in Nat /\ z[v] \in Nat /\ z[w] \in Nat
      BY <1>11
    <3> QED
      BY <1>10, <3>1
  <2> QED
    BY <2>1, <2>2, <2>3, <2>4 DEF Orders
<1>13. PICK s : s = byScore(t)
  OBVIOUS
<1>14. Sorts(s, R, S)
  BY <1>4, <1>9, <1>12, <1>13, InOrderSorts
<1>15. \A i, j \in DOMAIN s : s[i] = s[j] => i = j
  BY <1>12, <1>14, SortsOnce DEF Orders
<1>16. s \in Seq(Users)
  <2>1. S \subseteq Users
    BY <1>1, <1>2 DEF Entered, ToSet
  <2>2. s \in Seq(S)
    BY <1>14 DEF Sorts
  <2> QED
    BY <2>1, <2>2
<1>17. \A w : w \in ToSet(s) <=> w \in S
  BY <1>14 DEF Sorts, ToSet
<1> QED
  BY <1>1, <1>13, <1>15, <1>16, <1>17 DEF Entered

(* How the players of a row go on through its bracket.                       *)
Carries(format, b, U) ==
  /\ format \in Elimination => Playing(b, U) /\ HasRounds(b)
  /\ format = "round-robin" => AllMeet(b, U)
  /\ format = "swiss" => Paired(b, U)
  /\ format \notin Elimination \cup {"round-robin", "swiss"} => b = Nowhere

Bracketed(t) == Carries(t.format, t.bracket, Active(t))

(* A bracket that carries all carries fewer.                                 *)
LEMMA FewerFit == ASSUME NEW format, NEW b, NEW U, Carries(format, b, U), NEW V, V \subseteq U PROVE Carries(format, b, V)
<1>1. Playing(b, U) => Playing(b, V)
  BY DEF Playing
<1>2. AllMeet(b, U) => AllMeet(b, V)
  BY DEF AllMeet
<1>3. Paired(b, U) => Paired(b, V)
  BY DEF Paired
<1> QED
  BY <1>1, <1>2, <1>3, Zenon DEF Carries

(* What generateBracket returns carries the players it was drawn for.        *)
LEMMA BracketBegins ==
  ASSUME NEW t, TypedRow(t), canStart(t)
  PROVE  Carries(t.format, generateBracket(t), ToSet(order(t)))
<1>1. PICK b, seq : b = generateBracket(t) /\ seq = order(t)
  OBVIOUS
<1>2. Entered(seq)
  BY <1>1, OrderIs
<1>3. ASSUME t.format = "round-robin" PROVE AllMeet(b, ToSet(seq))
  <2>1. Len(seq) >= 2
    BY <1>1, <1>3 DEF canStart
  <2>2. b = roundRobin(seq)
    BY <1>1, <1>3 DEF generateBracket
  <2> QED
    BY <1>2, <2>1, <2>2, RoundRobinIs
<1>4. ASSUME t.format = "swiss" PROVE Paired(b, ToSet(seq))
  <2>1. PICK by, known : by = byScore(t) /\ known = met(t)
    OBVIOUS
  <2>2. b = swissPairing(by, known)
    BY <1>1, <1>4, <2>1 DEF generateBracket
  <2>3. Entered(by) /\ \A w : w \in ToSet(by) <=> w \in ToSet(seq)
    BY <1>1, <2>1, ByScoreIs
  <2>4. Paired(b, ToSet(by))
    BY <2>2, <2>3, SwissIs
  <2> QED
    BY <2>3, <2>4 DEF Paired
<1>5. ASSUME t.format \notin Elimination \cup {"round-robin", "swiss"} PROVE b = Nowhere
  BY <1>1, <1>5 DEF generateBracket, Elimination
<1>6. ASSUME t.format \in Elimination PROVE Playing(b, ToSet(seq)) /\ HasRounds(b)
  BY <1>1, <1>6, EliminationBegins
<1>7. t.format \in Elimination => t.format # "round-robin" /\ t.format # "swiss"
  BY DEF Elimination
<1> QED
  BY <1>1, <1>3, <1>4, <1>5, <1>6, Zenon DEF Carries

(* A report.  Who loses a match is out, or goes on to where it sends losers. *)
LEMMA FlatOn ==
  ASSUME NEW b, Flat(b), NEW c, NEW m \in DOMAIN b, NEW u, NEW v, Over(b, c, m, u, v)
  PROVE  /\ Flat(c) /\ \A U : AllMeet(b, U) => AllMeet(c, U)
         /\ \A U : Paired(b, U) => Paired(c, U)
<1>1. /\ BracketShaped(c) /\ DOMAIN c = DOMAIN b
      /\ \A y \in DOMAIN b : c[y].winnerTo = b[y].winnerTo /\ c[y].loserTo = b[y].loserTo
      /\ \A y \in DOMAIN b : c[y].slots = b[y].slots
  BY DEF Over
<1>2. Flat(c)
  BY <1>1 DEF Flat
<1>3. \A y \in DOMAIN b : \A w, x : /\ Meets(c, y, w, x) <=> Meets(b, y, w, x)
                                    /\ Sits(c, y, w) <=> Sits(b, y, w)
  BY <1>1 DEF Meets, Sits
<1>4. ASSUME NEW U, AllMeet(b, U) PROVE AllMeet(c, U)
  <2>1. ASSUME NEW w \in U, NEW x \in U, w # x
        PROVE  \E y \in DOMAIN c : Meets(c, y, w, x) /\ \A n \in DOMAIN c : Meets(c, n, w, x) => n = y
    <3>1. PICK y \in DOMAIN b : Meets(b, y, w, x) /\ \A n \in DOMAIN b : Meets(b, n, w, x) => n = y
      BY <1>4, <2>1 DEF AllMeet
    <3> QED
      BY <1>1, <1>3, <3>1
  <2> QED
    BY <1>2, <2>1 DEF AllMeet
<1>5. ASSUME NEW U, Paired(b, U) PROVE Paired(c, U)
  <2>1. ASSUME NEW w \in U
        PROVE  \E y \in DOMAIN c : Sits(c, y, w) /\ \A n \in DOMAIN c : Sits(c, n, w) => n = y
    <3>1. PICK y \in DOMAIN b : Sits(b, y, w) /\ \A n \in DOMAIN b : Sits(b, n, w) => n = y
      BY <1>5 DEF Paired
    <3> QED
      BY <1>1, <1>3, <3>1
  <2> QED
    BY <1>2, <2>1 DEF Paired
<1> QED
  BY <1>2, <1>4, <1>5

(* Reporting a result carries on all who are not out by it.                  *)
LEMMA ReportFits ==
  ASSUME NEW t, NEW m, NEW u, canReport(t, m, u), NEW U, Carries(t.format, t.bracket, U), NEW b, b = t.bracket,
         NEW v, v = opponent(b[m], u),
         NEW c, c = advanced([b EXCEPT ![m] = [@ EXCEPT !.winner = u, !.loser = v, !.state = "completed"]], b[m], u, v)
  PROVE  Carries(t.format, c, IF DropsOut(t, b[m]) THEN U \ {v} ELSE U)
<1>1. m \in DOMAIN b /\ Open(b, m) /\ u \in ToSet(b[m].slots) /\ u # Nobody
  BY DEF canReport, Open
<1>2. PICK done : done = [b EXCEPT ![m] = [@ EXCEPT !.winner = u, !.loser = v, !.state = "completed"]]
  OBVIOUS
<1>3. c = advanced(done, b[m], u, v)
  BY <1>2
<1>4. ASSUME BracketShaped(b) PROVE Over(b, done, m, u, v) /\ Decides(b, m, u, v)
  <2>1. Over(b, done, m, u, v)
    BY <1>1, <1>2, <1>4, EndingMatch
  <2>2. \A i : i \in DOMAIN b[m].slots <=> i = 1 \/ i = 2
    BY <1>1, <1>4 DEF BracketShaped
  <2>3. u = b[m].slots[1] \/ u = b[m].slots[2]
    BY <1>1, <2>2 DEF ToSet
  <2>4. v = IF b[m].slots[1] = u THEN b[m].slots[2] ELSE b[m].slots[1]
    BY DEF opponent
  <2> QED
    BY <1>1, <2>1, <2>3, <2>4 DEF Decides
<1>5. CASE t.format \in Elimination
  <2>1. BracketShaped(b) /\ Linked(b) /\ Flows(b) /\ HasRounds(b) /\ \A w \in U : w # Nobody /\ InPlay(b, w)
    BY <1>5 DEF Carries, Playing
  <2>2. PICK match : match = b[m]
    OBVIOUS
  <2>3. After(b, c, m, u, v)
    BY <1>1, <1>3, <1>4, <2>1, <2>2, Advancing
  <2>4. BracketShaped(c) /\ Linked(c) /\ Flows(c)
    <3>1. BracketShaped(c)
      BY <2>3 DEF After
    <3>2. Linked(c)
      BY <2>1, <2>3, LinkedOn
    <3>3. Flows(c)
      BY <1>4, <2>1, <2>3, FlowsOn
    <3> QED
      BY <3>1, <3>2, <3>3
  <2>5. ASSUME NEW w \in (IF DropsOut(t, b[m]) THEN U \ {v} ELSE U) PROVE w # Nobody /\ InPlay(c, w)
    <3>1. w \in U /\ w # Nobody /\ InPlay(b, w)
      BY <2>1
    <3>2. w # v \/ b[m].loserTo # Nowhere
      BY <1>5 DEF DropsOut
    <3> QED
      BY <1>4, <2>1, <2>3, <3>1, <3>2, PlayOn
  <2>6. Playing(c, IF DropsOut(t, b[m]) THEN U \ {v} ELSE U) /\ HasRounds(c)
    <3>1. DOMAIN c = DOMAIN b
      BY <2>3 DEF After
    <3>2. HasRounds(c)
      BY <2>1, <3>1 DEF HasRounds
    <3> QED
      BY <2>4, <2>5, <3>2 DEF Playing
  <2>7. t.format # "round-robin" /\ t.format # "swiss"
    BY <1>5 DEF Elimination
  <2> QED
    BY <1>5, <2>6, <2>7 DEF Carries
<1>6. CASE t.format \in {"round-robin", "swiss"}
  <2>1. Flat(b) /\ (t.format = "round-robin" => AllMeet(b, U)) /\ (t.format = "swiss" => Paired(b, U))
    BY <1>6 DEF Carries, AllMeet, Paired
  <2>2. b[m].winnerTo = Nowhere /\ b[m].loserTo = Nowhere
    BY <1>1, <2>1 DEF Flat
  <2>3. c = done
    BY <1>3, <2>2 DEF advanced
  <2>4. Over(b, c, m, u, v)
    BY <1>4, <2>1, <2>3 DEF Flat
  <2>5. (t.format = "round-robin" => AllMeet(c, U)) /\ (t.format = "swiss" => Paired(c, U))
    BY <1>1, <2>1, <2>4, FlatOn
  <2>6. t.format \notin Elimination
    BY <1>6 DEF Elimination
  <2>7. ~DropsOut(t, b[m])
    BY <2>6 DEF DropsOut
  <2> QED
    BY <1>6, <2>5, <2>6, <2>7 DEF Carries
<1>7. CASE t.format \notin Elimination \cup {"round-robin", "swiss"}
  <2>1. b = <<>>
    BY <1>7 DEF Carries, Nowhere
  <2> QED
    BY <1>1, <2>1
<1> QED
  BY <1>5, <1>6, <1>7

-----------------------------------------------------------------------------
(* Who is active in a row.                                                   *)
LEMMA ActiveIs ==
  ASSUME NEW t
  PROVE  \A w : w \in Active(t) <=> \E i \in DOMAIN t.players : t.players[i].user = w /\ t.players[i].status = "active"
  BY DEF Active, usersOf

(* Entries changed one by one make nobody active.                            *)
LEMMA NoneActive ==
  ASSUME NEW t, NEW next, DOMAIN next.players = DOMAIN t.players,
         \A i \in DOMAIN t.players :
           /\ next.players[i].user = t.players[i].user
           /\ next.players[i].status = "active" => t.players[i].status = "active"
  PROVE  Active(next) \subseteq Active(t)
  BY ActiveIs

(* What a call makes of a row keeps its players in the bracket.              *)
LEMMA ResultBracketed ==
  ASSUME NEW t, NEW what, TypedCall(what, t), Held("save", what, t), Bracketed(t), NEW next, next = Result(t, what)
  PROVE  Bracketed(next)
<1>0. /\ DOMAIN t = RowFields /\ "status" \in RowFields /\ "players" \in RowFields /\ "fee" \in RowFields
      /\ "awards" \in RowFields /\ "bracket" \in RowFields /\ "format" \in RowFields
      /\ TypedRow(t) /\ \A i \in DOMAIN t.players : t.players[i] \in Player
  BY DEF TypedCall, TypedRow, RowShaped, RowFields
<1>1. CASE next.format = t.format /\ next.bracket = t.bracket /\ Active(next) \subseteq Active(t)
  BY <1>1, FewerFit DEF Bracketed
<1>2. CASE what.op \in {"open", "update", "cancel", "complete"}
  <2>1. next.format = t.format /\ next.bracket = t.bracket /\ next.players = t.players
    <3>1. CASE what.op = "open"
      <4>1. next = [t EXCEPT !.status = "registration"]
        BY <3>1 DEF Result
      <4> QED
        BY <1>0, <4>1
    <3>2. CASE what.op = "update"
      <4>1. next = [t EXCEPT !.fee = what.fee]
        BY <3>2 DEF Result
      <4> QED
        BY <1>0, <4>1
    <3>3. CASE what.op = "cancel"
      <4>1. next = [t EXCEPT !.status = "cancelled"]
        BY <3>3 DEF Result
      <4> QED
        BY <1>0, <4>1
    <3>4. CASE what.op = "complete"
      <4>1. PICK awards : next = [t EXCEPT !.status = "completed", !.awards = awards]
        BY <3>4 DEF Result, completed
      <4> QED
        BY <1>0, <4>1
    <3> QED
      BY <1>2, <3>1, <3>2, <3>3, <3>4
  <2>2. Active(next) \subseteq Active(t)
    BY <2>1, NoneActive
  <2> QED
    BY <1>1, <2>1, <2>2
<1>3. CASE what.op = "start"
  <2>1. PICK S, B : S = (IF isFinal(t) THEN t.status ELSE "live") /\ B = generateBracket(t)
    OBVIOUS
  <2>2. PICK P :
          P = [i \in DOMAIN t.players |->
                 IF IsActive(t.players[i])
                 THEN [t.players[i] EXCEPT !.status = "active", !.seed = positionOf(order(t), t.players[i].user)]
                 ELSE t.players[i]]
    BY Zenon
  <2>3. next = [t EXCEPT !.status = S, !.players = P, !.bracket = B]
    <3>1. next = started(t)
      BY <1>3 DEF Result
    <3> QED
      BY <2>1, <2>2, <3>1, Zenon DEF started
  <2>4. next.players = P /\ DOMAIN P = DOMAIN t.players
    BY <1>0, <2>2, <2>3
  <2>5. next.bracket = B /\ next.format = t.format
    BY <1>0, <2>3
  <2>6. ASSUME NEW i \in DOMAIN t.players
        PROVE  P[i].user = t.players[i].user /\ (P[i].status = "active" => IsActive(t.players[i]))
    <3>1. DOMAIN t.players[i] = {"user", "status", "seed", "score", "checkedIn"}
      BY <1>0 DEF Player
    <3>2. CASE IsActive(t.players[i])
      <4>1. PICK n : P[i] = [t.players[i] EXCEPT !.status = "active", !.seed = n]
        BY <2>2, <3>2, Zenon
      <4> QED
        BY <3>1, <3>2, <4>1
    <3>3. CASE ~IsActive(t.players[i])
      <4>1. P[i] = t.players[i]
        BY <2>2, <3>3, Zenon
      <4>2. t.players[i].status # "active"
        BY <3>3 DEF IsActive
      <4> QED
        BY <4>1, <4>2
    <3> QED
      BY <3>2, <3>3
  <2>7. ASSUME NEW w \in Active(next) PROVE w \in ToSet(order(t))
    <3>1. PICK i \in DOMAIN t.players : P[i].user = w /\ P[i].status = "active"
      BY <2>4, ActiveIs
    <3>2. IsActive(t.players[i]) /\ w = t.players[i].user
      BY <2>6, <3>1
    <3> QED
      BY <1>0, <3>2, OrderIs
  <2>8. canStart(t)
    BY <1>3 DEF Held, Accepts
  <2>9. PICK U : U = ToSet(order(t))
    OBVIOUS
  <2>10. Carries(t.format, B, U)
    BY <1>0, <2>1, <2>8, <2>9, BracketBegins
  <2>11. Active(next) \subseteq U
    BY <2>7, <2>9
  <2>12. Carries(t.format, B, Active(next))
    BY <2>10, <2>11, FewerFit
  <2> QED
    BY <2>5, <2>12 DEF Bracketed
<1>4. CASE what.op = "report"
  <2>1. PICK m, u : m = what.match /\ u = what.winner
    OBVIOUS
  <2>2. PICK b : b = t.bracket
    OBVIOUS
  <2>3. PICK v : v = opponent(b[m], u)
    OBVIOUS
  <2>4. PICK P :
          P = [i \in DOMAIN t.players |->
                 [t.players[i] EXCEPT
                    !.score = IF t.players[i].user = u /\ t.format \in ScoredFormats
                              THEN t.players[i].score + WIN_POINTS ELSE t.players[i].score,
                    !.status = IF t.players[i].user = v /\ DropsOut(t, b[m])
                               THEN "eliminated" ELSE t.players[i].status]]
    BY Zenon
  <2>5. PICK c :
          c = advanced([b EXCEPT ![m] = [@ EXCEPT !.winner = u, !.loser = v, !.state = "completed"]], b[m], u, v)
    OBVIOUS
  <2>6. next = [t EXCEPT !.bracket = c, !.players = P]
    <3>1. next = reported(t, m, u)
      BY <1>4, <2>1 DEF Result
    <3> QED
      BY <2>2, <2>3, <2>4, <2>5, <3>1, Zenon DEF reported
  <2>7. next.players = P /\ DOMAIN P = DOMAIN t.players
    BY <1>0, <2>4, <2>6
  <2>8. next.bracket = c /\ next.format = t.format
    BY <1>0, <2>6
  <2>9. ASSUME NEW i \in DOMAIN t.players
        PROVE  /\ P[i].user = t.players[i].user
               /\ P[i].status = "active" => /\ t.players[i].status = "active"
                                            /\ ~(t.players[i].user = v /\ DropsOut(t, b[m]))
    <3>1. PICK score : score = IF t.players[i].user = u /\ t.format \in ScoredFormats
                               THEN t.players[i].score + WIN_POINTS ELSE t.players[i].score
      OBVIOUS
    <3>2. PICK fate : fate = IF t.players[i].user = v /\ DropsOut(t, b[m])
                             THEN "eliminated" ELSE t.players[i].status
      OBVIOUS
    <3>3. P[i] = [t.players[i] EXCEPT !.score = score, !.status = fate]
      BY <2>4, <3>1, <3>2, Zenon
    <3>4. DOMAIN t.players[i] = {"user", "status", "seed", "score", "checkedIn"}
      BY <1>0 DEF Player
    <3>5. P[i].user = t.players[i].user /\ P[i].status = fate
      BY <3>3, <3>4
    <3> QED
      BY <3>2, <3>5
  <2>10. PICK U : U = IF DropsOut(t, b[m]) THEN Active(t) \ {v} ELSE Active(t)
    OBVIOUS
  <2>11. Active(next) \subseteq U
    <3>1. ASSUME NEW w \in Active(next) PROVE w \in Active(t) /\ ~(w = v /\ DropsOut(t, b[m]))
      <4>1. PICK i \in DOMAIN t.players : P[i].user = w /\ P[i].status = "active"
        BY <2>7, ActiveIs
      <4>2. t.players[i].user = w /\ t.players[i].status = "active" /\ ~(w = v /\ DropsOut(t, b[m]))
        BY <2>9, <4>1
      <4> QED
        BY <4>2, ActiveIs
    <3> QED
      BY <2>10, <3>1
  <2>12. canReport(t, m, u)
    BY <1>4, <2>1 DEF Held, Accepts
  <2>13. Carries(t.format, c, U)
    <3>1. PICK A : A = Active(t)
      OBVIOUS
    <3>2. Carries(t.format, t.bracket, A)
      BY <3>1 DEF Bracketed
    <3>3. Carries(t.format, c, IF DropsOut(t, b[m]) THEN A \ {v} ELSE A)
      BY <2>2, <2>3, <2>5, <2>12, <3>2, ReportFits
    <3> QED
      BY <2>10, <3>1, <3>3
  <2>14. Carries(t.format, c, Active(next))
    BY <2>11, <2>13, FewerFit
  <2> QED
    BY <2>8, <2>14 DEF Bracketed
<1>5. CASE what.op \in {"checkIn", "withdraw"}
  <2>1. PICK P :
          /\ next = [t EXCEPT !.players = P] /\ DOMAIN P = DOMAIN t.players
          /\ \A i \in DOMAIN t.players :
               P[i] \in {t.players[i], [t.players[i] EXCEPT !.checkedIn = TRUE],
                         [t.players[i] EXCEPT !.status = "withdrawn"]}
    <3>1. CASE what.op = "checkIn"
      <4>1. PICK P : P = [i \in DOMAIN t.players |-> IF t.players[i].user = what.user
                                                     THEN [t.players[i] EXCEPT !.checkedIn = TRUE] ELSE t.players[i]]
        OBVIOUS
      <4>2. next = [t EXCEPT !.players = P]
        BY <3>1, <4>1 DEF Result, checkedIn, changed
      <4>3. DOMAIN P = DOMAIN t.players
        BY <4>1
      <4>4. \A i \in DOMAIN t.players :
              P[i] \in {t.players[i], [t.players[i] EXCEPT !.checkedIn = TRUE],
                        [t.players[i] EXCEPT !.status = "withdrawn"]}
        BY <4>1, Zenon
      <4> QED
        BY <4>2, <4>3, <4>4, Zenon
    <3>2. CASE what.op = "withdraw"
      <4>1. PICK P : P = [i \in DOMAIN t.players |-> IF t.players[i].user = what.user
                                                     THEN [t.players[i] EXCEPT !.status = "withdrawn"]
                                                     ELSE t.players[i]]
        OBVIOUS
      <4>2. next = [t EXCEPT !.players = P]
        BY <3>2, <4>1 DEF Result, withdrawn, changed
      <4>3. DOMAIN P = DOMAIN t.players
        BY <4>1
      <4>4. \A i \in DOMAIN t.players :
              P[i] \in {t.players[i], [t.players[i] EXCEPT !.checkedIn = TRUE],
                        [t.players[i] EXCEPT !.status = "withdrawn"]}
        BY <4>1, Zenon
      <4> QED
        BY <4>2, <4>3, <4>4, Zenon
    <3> QED
      BY <1>5, <3>1, <3>2
  <2>2. next.players = P
    BY <1>0, <2>1
  <2>3. next.bracket = t.bracket /\ next.format = t.format
    BY <1>0, <2>1
  <2>4. ASSUME NEW i \in DOMAIN t.players
        PROVE  P[i].user = t.players[i].user /\ (P[i].status = "active" => t.players[i].status = "active")
    <3>1. DOMAIN t.players[i] = {"user", "status", "seed", "score", "checkedIn"}
      BY <1>0 DEF Player
    <3>2. P[i] \in {t.players[i], [t.players[i] EXCEPT !.checkedIn = TRUE],
                    [t.players[i] EXCEPT !.status = "withdrawn"]}
      BY <2>1
    <3> QED
      BY <3>1, <3>2
  <2>5. Active(next) \subseteq Active(t)
    BY <2>1, <2>2, <2>4, NoneActive
  <2> QED
    BY <1>1, <2>3, <2>5
<1>6. CASE what.op = "register"
  <2>1. PICK seat : seat = IF Len(t.players) >= t.capacity THEN "waitlisted" ELSE "registered"
    OBVIOUS
  <2>2. PICK new : new = [user |-> what.user, status |-> seat, seed |-> 0, score |-> 0, checkedIn |-> t.autoCheckIn]
    OBVIOUS
  <2>3. new.status # "active"
    BY <2>1, <2>2
  <2>4. PICK P : P = Append(t.players, new)
    OBVIOUS
  <2>5. next = [t EXCEPT !.players = P]
    BY <1>6, <2>1, <2>2, <2>4 DEF Result, registered
  <2>6. next.players = P
    BY <1>0, <2>5
  <2>7. next.bracket = t.bracket /\ next.format = t.format
    BY <1>0, <2>5
  <2>8. PICK n \in Nat : n = Len(t.players) /\ DOMAIN t.players = 1 .. n
    BY <1>0 DEF TypedRow
  <2>9. /\ DOMAIN P = 1 .. (n + 1) /\ P[n + 1] = new
        /\ \A i \in 1 .. n : P[i] = t.players[i]
    BY <1>0, <2>4, <2>8 DEF TypedRow
  <2>10. \A i \in 1 .. (n + 1) : i \in 1 .. n \/ i = n + 1
    OBVIOUS
  <2>11. ASSUME NEW w \in Active(next) PROVE w \in Active(t)
    <3>1. PICK i \in DOMAIN P : P[i].user = w /\ P[i].status = "active"
      BY <2>6, ActiveIs
    <3>2. i \in 1 .. n
      BY <2>3, <2>9, <2>10, <3>1
    <3>3. t.players[i].user = w /\ t.players[i].status = "active" /\ i \in DOMAIN t.players
      BY <2>8, <2>9, <3>1, <3>2
    <3> QED
      BY <3>3, ActiveIs
  <2> QED
    BY <1>1, <2>7, <2>11
<1> QED
  BY <1>2, <1>3, <1>4, <1>5, <1>6 DEF Held, TournamentOps

(* A bracket that carries its players places them.                           *)
LEMMA FlowPlaces ==
  ASSUME NEW b, Flows(b), BracketShaped(b), NEW u, u # Nobody, InPlay(b, u)
  PROVE  \/ Cardinality(unfinished(b, u)) = 1
         \/ unfinished(b, u) = {} /\ (isChampion(b, u) \/ isStranded(b, u))
<1>1. ASSUME NEW m \in DOMAIN b PROVE \A w : w \in ToSet(b[m].slots) <=> Sits(b, m, w)
  <2>1. \A i : i \in DOMAIN b[m].slots <=> i = 1 \/ i = 2
    BY DEF BracketShaped
  <2> QED
    BY <2>1 DEF ToSet, Sits
<1>2. \A m : m \in unfinished(b, u) <=> m \in DOMAIN b /\ Sits(b, m, u) /\ Open(b, m)
  BY <1>1 DEF unfinished, Open
<1>3. CASE unfinished(b, u) # {}
  <2>1. PICK m : m \in unfinished(b, u)
    BY <1>3
  <2>2. \A x : x \in unfinished(b, u) => x = m
    BY <1>2, <2>1 DEF Flows
  <2>3. unfinished(b, u) = {m}
    BY <2>1, <2>2
  <2> QED
    BY <2>3, FS_Singleton
<1>4. CASE unfinished(b, u) = {}
  <2>1. \A m \in DOMAIN b : ~(Open(b, m) /\ Sits(b, m, u))
    BY <1>2, <1>4
  <2>2. CASE \E m \in DOMAIN b : b[m].winner = u /\ b[m].winnerTo = Nowhere
    BY <1>4, <2>2 DEF isChampion
  <2>3. CASE \E m \in DOMAIN b : ~Open(b, m) /\ Sits(b, m, u) /\ b[m].winner # u /\ b[m].loser # u
    <3>1. PICK m \in DOMAIN b : ~Open(b, m) /\ Sits(b, m, u) /\ b[m].winner # u /\ b[m].loser # u
      BY <2>3
    <3>2. u \in ToSet(b[m].slots) /\ b[m].state = "completed" /\ u \notin {b[m].winner, b[m].loser}
      BY <1>1, <3>1 DEF Open
    <3> QED
      BY <1>4, <3>2 DEF isStranded
  <2> QED
    BY <2>1, <2>2, <2>3 DEF InPlay
<1> QED
  BY <1>3, <1>4

(* Who is carried is placed.                                                 *)
LEMMA BracketedPlaced == ASSUME NEW t, Bracketed(t) PROVE Placed(t)
<1>1. PICK b, U : b = t.bracket /\ U = Active(t)
  OBVIOUS
<1>2. Carries(t.format, b, U)
  BY <1>1 DEF Bracketed
<1>3. ASSUME BracketShaped(b), NEW m \in DOMAIN b
      PROVE  DOMAIN b[m].slots = 1 .. 2 /\ ToSet(b[m].slots) = {b[m].slots[1], b[m].slots[2]}
  <2>1. DOMAIN b[m].slots = 1 .. 2 /\ \A i : i \in 1 .. 2 <=> i = 1 \/ i = 2
    BY <1>3 DEF BracketShaped
  <2>2. \A w : w \in ToSet(b[m].slots) <=> w = b[m].slots[1] \/ w = b[m].slots[2]
    BY <2>1 DEF ToSet
  <2> QED
    BY <2>1, <2>2
<1>4. CASE t.format \in Elimination
  <2>1. Playing(t.bracket, Active(t))
    BY <1>1, <1>2, <1>4 DEF Carries
  <2>2. t.format # "round-robin" /\ t.format # "swiss"
    BY <1>4 DEF Elimination
  <2>3. \A u \in Active(t) : \/ Cardinality(unfinished(t.bracket, u)) = 1
                              \/ /\ unfinished(t.bracket, u) = {}
                                 /\ isChampion(t.bracket, u) \/ isStranded(t.bracket, u)
    BY <2>1, FlowPlaces DEF Playing
  <2> QED
    BY <1>4, <2>2, <2>3, ZenonT(30) DEF Placed
<1>5. CASE t.format = "round-robin"
  <2>1. AllMeet(b, U) /\ t.format \notin Elimination
    BY <1>2, <1>5 DEF Carries, Elimination
  <2>2. BracketShaped(b)
    BY <2>1 DEF AllMeet, Flat
  <2>3. ASSUME NEW u \in U, NEW v \in U, u # v PROVE Cardinality(meetings(b, u, v)) = 1
    <3>1. PICK m \in DOMAIN b : Meets(b, m, u, v) /\ \A n \in DOMAIN b : Meets(b, n, u, v) => n = m
      BY <2>1, <2>3 DEF AllMeet
    <3>2. \A n \in DOMAIN b : Meets(b, n, u, v) <=> {u, v} = ToSet(b[n].slots)
      <4> SUFFICES ASSUME NEW n \in DOMAIN b PROVE Meets(b, n, u, v) <=> {u, v} = ToSet(b[n].slots)
        OBVIOUS
      <4>1. PICK x, y : x = b[n].slots[1] /\ y = b[n].slots[2]
        OBVIOUS
      <4>2. ToSet(b[n].slots) = {x, y}
        BY <1>3, <2>2, <4>1
      <4>3. Meets(b, n, u, v) <=> (x = u /\ y = v) \/ (x = v /\ y = u)
        BY <4>1 DEF Meets
      <4>4. {u, v} = {x, y} <=> (x = u /\ y = v) \/ (x = v /\ y = u)
        BY <2>3
      <4> QED
        BY <4>2, <4>3, <4>4
    <3>3. meetings(b, u, v) = {m}
      BY <3>1, <3>2 DEF meetings
    <3> QED
      BY <3>3, FS_Singleton
  <2> QED
    BY <1>1, <1>5, <2>1, <2>3 DEF Placed
<1>6. CASE t.format = "swiss"
  <2>1. Paired(b, U) /\ t.format \notin Elimination
    BY <1>2, <1>6 DEF Carries, Elimination
  <2>2. BracketShaped(b)
    BY <2>1 DEF Paired, Flat
  <2>3. ASSUME NEW u \in U PROVE Cardinality(matchesOf(b, u)) = 1
    <3>1. PICK m \in DOMAIN b : Sits(b, m, u) /\ \A n \in DOMAIN b : Sits(b, n, u) => n = m
      BY <2>1 DEF Paired
    <3>2. \A n \in DOMAIN b : Sits(b, n, u) <=> u \in ToSet(b[n].slots)
      BY <1>3, <2>2 DEF Sits
    <3>3. matchesOf(b, u) = {m}
      BY <3>1, <3>2 DEF matchesOf
    <3> QED
      BY <3>3, FS_Singleton
  <2> QED
    BY <1>1, <1>6, <2>1, <2>3 DEF Placed
<1>7. CASE t.format \notin Elimination \cup {"round-robin", "swiss"}
  BY <1>1, <1>2, <1>7 DEF Carries, Placed
<1> QED
  BY <1>4, <1>5, <1>6, <1>7

(* The invariant behind the brackets: the row, and what calls have read of it,*)
(* carries its players.                                                      *)
BracketsInv ==
  /\ HeldInv
  /\ Bracketed(row)
  /\ \A c \in TCalls : tpc[c] = "idle" \/ Bracketed(tseen[c])

(* Every step keeps the brackets.                                            *)
LEMMA BracketsStep == BracketsInv /\ [TournamentNext]_tvars => BracketsInv'
<1> SUFFICES ASSUME BracketsInv, [TournamentNext]_tvars PROVE BracketsInv'
  OBVIOUS
<1>1. HeldInv'
  BY HeldStep DEF BracketsInv
<1>2. CASE TournamentNext
  <2>1. PICK c \in TCalls : RowsMoved(c)
    BY <1>2, RowsMove DEF BracketsInv
  <2>2. Bracketed(row')
    BY <2>1, ResultBracketed DEF RowsMoved, BracketsInv
  <2>3. \A d \in TCalls : tpc'[d] = "idle" \/ Bracketed(tseen'[d])
    BY <2>1 DEF RowsMoved, BracketsInv
  <2> QED
    BY <1>1, <2>2, <2>3 DEF BracketsInv, Bracketed, Active, usersOf
<1>3. CASE UNCHANGED tvars
  <2>1. row' = row /\ tpc' = tpc /\ tseen' = tseen
    BY <1>3 DEF tvars, tcalls
  <2>2. Bracketed(row')
    BY <2>1 DEF BracketsInv
  <2>3. \A d \in TCalls : tpc'[d] = "idle" \/ Bracketed(tseen'[d])
    BY <2>1 DEF BracketsInv
  <2> QED
    BY <1>1, <2>2, <2>3 DEF BracketsInv, Bracketed, Active, usersOf
<1> QED
  BY <1>2, <1>3

(* They begin so: nobody is entered, nothing is drawn.                       *)
LEMMA BracketsStart == TournamentInit => BracketsInv
<1> SUFFICES ASSUME TournamentInit PROVE BracketsInv
  OBVIOUS
<1>1. PICK s \in Setups : row = Created(s)
  BY DEF TournamentInit
<1>2. row.players = <<>> /\ row.bracket = Nowhere
  BY <1>1 DEF Created
<1>3. \A w : w \notin Active(row)
  BY <1>2, ActiveIs
<1>4. DOMAIN row.bracket = {}
  BY <1>2 DEF Nowhere
<1>5. Playing(row.bracket, Active(row)) /\ AllMeet(row.bracket, Active(row)) /\ Paired(row.bracket, Active(row))
  BY <1>3, <1>4 DEF Playing, AllMeet, Paired, Flat, BracketShaped, Linked, Flows
<1>6. HasRounds(row.bracket)
  BY <1>4 DEF HasRounds
<1>7. Bracketed(row)
  BY <1>2, <1>5, <1>6 DEF Bracketed, Carries
<1> QED
  BY <1>7, HeldStart DEF TournamentInit, BracketsInv

LEMMA BracketsAlways == TournamentSpec => []BracketsInv
  BY BracketsStart, BracketsStep, PTL DEF TournamentSpec

(* No player is lost in a bracket, and none is in two matches at once: byes, *)
(* reports in any order, withdrawals and second drawings, for fields of any  *)
(* size in every format.                                                     *)
THEOREM PlayersPlacedCorrect == TournamentSpec => []PlayersPlaced
<1>1. TournamentSpec => []BracketsInv
  BY BracketsAlways
<1>2. BracketsInv => PlayersPlaced
  BY BracketedPlaced DEF BracketsInv, PlayersPlaced
<1> QED
  BY <1>1, <1>2, PTL
-----------------------------------------------------------------------------
(* When a tournament is completed its awards add up to its pool to the last  *)
(* unit, whatever players, ties, tiers and shares: what a tier gives and     *)
(* nobody holds goes to the first; and nothing is awarded exactly if nobody  *)
(* is left to take anything (prizes.ts:26-75), while calls do not overlap.   *)
THEOREM AwardsSumToPoolCorrect == TournamentSpec => AwardsSumToPool
<1> DEFINE A == (~toverlapped /\ completes /\ row.prize.type # "fixed")
                  => IF hasTakers(row) THEN awarded(row') = computePool(row) ELSE row'.awards = <<>>
<1>1. ASSUME PrizesInv, BracketsInv, TournamentNext, ~toverlapped, completes, row.prize.type # "fixed"
      PROVE  IF hasTakers(row) THEN awarded(row') = computePool(row) ELSE row'.awards = <<>>
  <2>1. PICK c \in TCalls : RowsMoved(c)
    BY <1>1, RowsMove DEF PrizesInv
  <2>2. tpc[c] = "save" /\ Held("save", tcall[c], tseen[c]) /\ TypedCall(tcall[c], tseen[c])
        /\ row' = Result(tseen[c], tcall[c])
    BY <1>1, <2>1 DEF RowsMoved, completes
  <2>3. tseen[c] = row
    BY <1>1, <2>2 DEF PrizesInv, PaidInv, Following
  <2>4. PICK t, what, next : t = row /\ what = tcall[c] /\ next = row'
    OBVIOUS
  <2>5. TypedCall(what, t) /\ Held("save", what, t) /\ next = Result(t, what)
        /\ t.status # "completed" /\ next.status = "completed"
    BY <1>1, <2>2, <2>3, <2>4 DEF completes
  <2>6. next = completed(t)
    BY <2>5, OnlyCompletes DEF Held
  <2>7. Funded(t) /\ TypedRow(t) /\ (t.format \in Elimination => HasRounds(t.bracket))
    BY <1>1, <2>4, <2>5 DEF PrizesInv, TypedCall, BracketsInv, Bracketed, Carries
  <2>8. PICK s : s = distributePrizes(t)
    OBVIOUS
  <2>9. next.awards = s
    BY <2>6, <2>7, <2>8, CompletedAwards
  <2>10. IF hasTakers(t) THEN \E U, R : s \in Seq(Award(U, R)) /\ AddsUp(s, computePool(t)) ELSE s = <<>>
    BY <1>1, <2>4, <2>7, <2>8, PrizesAdd
  <2>11. ASSUME hasTakers(t) PROVE awarded(next) = computePool(t)
    <3>1. PICK U, R : s \in Seq(Award(U, R)) /\ AddsUp(s, computePool(t))
      BY <2>10, <2>11
    <3>2. IsFiniteSet(DOMAIN next.awards)
      BY <2>9, <3>1, DomainFinite
    <3>3. PICK a : a = [i \in DOMAIN next.awards |-> next.awards[i].amount]
      OBVIOUS
    <3>4. awarded(next) = SumFunctionOnSet(a, DOMAIN next.awards)
      BY <3>2, <3>3, AwardedIsSum
    <3> QED
      BY <2>9, <3>1, <3>3, <3>4 DEF AddsUp, Amounts
  <2>12. ~hasTakers(t) => next.awards = <<>>
    BY <2>9, <2>10
  <2> QED
    BY <2>4, <2>11, <2>12
<1>2. PrizesInv /\ BracketsInv /\ [TournamentNext]_tvars => [A]_tvars
  <2> SUFFICES ASSUME PrizesInv, BracketsInv, TournamentNext PROVE A
    OBVIOUS
  <2> QED
    BY <1>1
<1> QED
  BY <1>2, PrizesAlways, BracketsAlways, PTL DEF TournamentSpec, AwardsSumToPool
=============================================================================
