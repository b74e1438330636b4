-------------------------- MODULE TournamentEngine --------------------------
(* tournament-core: lifecycle, registration, brackets, match reports,        *)
(* standings and prizes, as pure operators on a tournament's record.         *)
(*                                                                           *)
(* A participant is named by its user: one user has at most one entry in a   *)
(* record.  Ratings are never given, so seeds are the order of registration; *)
(* where ids (which are random) break a tie, that order does too.            *)
EXTENDS Integers, SequencesExt

CONSTANT Nobody \* an empty slot, a match without winner or loser

Elimination == {"single-elimination", "double-elimination", "knockout"}

ScoredFormats == {"round-robin", "swiss", "leaderboard"}

WIN_POINTS == 3
-----------------------------------------------------------------------------
(* lifecycle.ts                                                              *)
Transitions ==
  [draft        |-> {"scheduled", "registration", "cancelled"},
   scheduled    |-> {"registration", "cancelled"},
   registration |-> {"checkin", "live", "cancelled"},
   checkin      |-> {"live", "cancelled"},
   live         |-> {"completed", "cancelled"},
   completed    |-> {},
   cancelled    |-> {}]

Statuses == DOMAIN Transitions

canTransition(t, to) == to \in Transitions[t.status]

isFinal(t) == Transitions[t.status] = {}

(* Mutant: registration ends when it opens.                                  *)
acceptsEarlyRegistration(t) == t.status \in {"draft", "scheduled"}

acceptsRegistration(t) == t.status \in {"draft", "scheduled", "registration"}
-----------------------------------------------------------------------------
usersOf(t) == {t.players[i].user : i \in DOMAIN t.players}

positionOf(s, e) == CHOOSE i \in DOMAIN s : s[i] = e

(* The elements of S in the order of the pairs R: each has as many before it *)
(* as its place says.                                                        *)
inOrder(S, R) ==
  [n \in 1..Cardinality(S) |-> CHOOSE x \in S : Cardinality({y \in S : <<y, x>> \in R}) = n - 1]

(* The elements of a sequence at the indices I.                              *)
filtered(s, I) ==
  LET at == inOrder(I, {pair \in I \X I : pair[1] < pair[2]}) IN [n \in DOMAIN at |-> s[at[n]]]

(* The players with the entry of u changed to f(entry).                      *)
changed(t, u, f(_)) ==
  [t EXCEPT !.players = [i \in DOMAIN @ |-> IF @[i].user = u THEN f(@[i]) ELSE @[i]]]

(* A seat, or past capacity a place on the waiting list.                     *)
registered(t, u, autoCheckIn) ==
  LET seat == IF Len(t.players) >= t.capacity THEN "waitlisted" ELSE "registered" IN
  [t EXCEPT !.players = Append(@, [user |-> u, status |-> seat, seed |-> 0, score |-> 0,
                                   checkedIn |-> autoCheckIn])]

checkedIn(t, u) == changed(t, u, LAMBDA p : [p EXCEPT !.checkedIn = TRUE])

withdrawn(t, u) == changed(t, u, LAMBDA p : [p EXCEPT !.status = "withdrawn"])
-----------------------------------------------------------------------------
(* bracket.ts.  A match is named <<side, round, position>>; winnerTo and     *)
(* loserTo name a match and one of its two slots.                            *)
Nowhere == <<>>

(* The fields a bracket may have: 2^k slots.                                 *)
FieldSize[k \in Nat] == IF k = 0 THEN 1 ELSE 2 * FieldSize[k - 1]

RoundsFor(n) == CHOOSE k \in 0..n : FieldSize[k] >= n /\ \A j \in 0..(k - 1) : FieldSize[j] < n

(* refreshState                                                              *)
StateOf(id, slots) ==
  IF Nobody \notin {slots[1], slots[2]} THEN "ready"
  ELSE IF slots[1] # slots[2] /\ id[2] = 1 /\ id[1] # "losers" THEN "bye" ELSE "pending"

makeMatch(id, slots, winnerTo, loserTo) ==
  [slots |-> slots, state |-> StateOf(id, slots), winner |-> Nobody, loser |-> Nobody,
   winnerTo |-> winnerTo, loserTo |-> loserTo]

(* The seeds in the order of the slots of a field of 2^k: the strong meet    *)
(* late.                                                                     *)
standardSeedOrder[k \in Nat] ==
  IF k <= 1 THEN <<1, 2>>
  ELSE LET s == standardSeedOrder[k - 1] IN
       [i \in 1..FieldSize[k] |-> IF i % 2 = 1 THEN s[(i + 1) \div 2] ELSE FieldSize[k] + 1 - s[i \div 2]]

Seeded(order, n) == IF n <= Len(order) THEN order[n] ELSE Nobody

(* Mutant: the winners of two matches go to one slot.                        *)
SlotAfterFirst(p) == 1

SlotAfter(p) == (p % 2) + 1

Ids(side, k) == UNION {{<<side, r, p>> : p \in 0..(FieldSize[k - r] - 1)} : r \in 1..k}

FirstRound(order, k, p) ==
  LET seeds == standardSeedOrder[k] IN
  <<Seeded(order, seeds[2 * p + 1]), Seeded(order, seeds[2 * p + 2])>>

EmptySlots == <<Nobody, Nobody>>

(* The tree of one side, its last winner going to `last', its losers where   *)
(* dropTo says.                                                              *)
Tree(order, side, last, dropTo(_, _)) ==
  LET k == RoundsFor(Len(order)) IN
  [id \in Ids(side, k) |->
     LET r == id[2]
         p == id[3] IN
     makeMatch(id, IF r = 1 THEN FirstRound(order, k, p) ELSE EmptySlots,
               IF r = k THEN last ELSE <<<<side, r + 1, p \div 2>>, SlotAfter(p)>>,
               dropTo(r, p))]

singleElimination(order) == Tree(order, "main", Nowhere, LAMBDA r, p : Nowhere)

doubleElimination(order) ==
  LET k      == RoundsFor(Len(order))
      last   == 2 * (k - 1)
      final  == <<"final", k + 1, 0>>
      losers == UNION {{<<"losers", r, p>> : p \in 0..(FieldSize[k - (r + 1) \div 2 - 1] - 1)}
                       : r \in 1..last}
      drop(r, p) == IF r = 1 THEN <<<<"losers", 1, p \div 2>>, SlotAfter(p)>>
                    ELSE <<<<"losers", 2 * (r - 1), p>>, 2>>
      next(r, p) == IF r = last THEN <<final, 2>>
                    ELSE IF r % 2 = 1 THEN <<<<"losers", r + 1, p>>, 1>>
                    ELSE <<<<"losers", r + 1, p \div 2>>, SlotAfter(p)>> IN
  LET winners == Tree(order, "winners", <<final, 1>>, drop) IN
  [id \in DOMAIN winners \cup losers \cup {final} |->
     IF id \in DOMAIN winners THEN winners[id]
     ELSE makeMatch(id, EmptySlots, IF id = final THEN Nowhere ELSE next(id[2], id[3]), Nowhere)]

(* The circle method: the first stays, the others turn by one each round; a  *)
(* match against the bye of an odd field is left out.                        *)
roundRobin(order) ==
  LET seats == IF Len(order) % 2 = 1 THEN Append(order, Nobody) ELSE order
      m     == Len(seats)
      at(r, i)   == IF i = 0 THEN seats[1] ELSE seats[2 + ((i - r) % (m - 1))]
      pair(r, i) == <<at(r, i), at(r, m - 1 - i)>>
      meeting(id) == Nobody \notin ToSet(pair(id[2], id[3])) IN
  [id \in {d \in {"main"} \X (1..(m - 1)) \X (0..(m \div 2 - 1)) : meeting(d)} |->
     makeMatch(id, pair(id[2], id[3]), Nowhere, Nowhere)]

(* Each player in turn meets the first one left whom it has not met, or else *)
(* the first one left; the last of an odd field is let through.              *)
swissPairing(order, met) ==
  LET used(pairs)    == UNION {ToSet(pairs[i]) : i \in DOMAIN pairs}
      left(a, pairs) == {j \in DOMAIN order : order[j] # a /\ order[j] \notin used(pairs)}
      fresh(a, pairs) == {j \in left(a, pairs) : {a, order[j]} \notin met}
      first(I)       == order[CHOOSE i \in I : \A j \in I : i <= j]
      partner(a, pairs) ==
        IF fresh(a, pairs) # {} THEN first(fresh(a, pairs))
        ELSE IF left(a, pairs) # {} THEN first(left(a, pairs)) ELSE Nobody
      paired[n \in 0..Len(order)] ==
        IF n = 0 THEN <<>>
        ELSE IF order[n] \in used(paired[n - 1]) THEN paired[n - 1]
        ELSE Append(paired[n - 1], <<order[n], partner(order[n], paired[n - 1])>>)
      pairs == paired[Len(order)] IN
  [id \in {<<"main", 1, p>> : p \in 0..(Len(pairs) - 1)} |->
     LET pair == pairs[id[3] + 1] IN
     [makeMatch(id, pair, Nowhere, Nowhere) EXCEPT !.winner = IF pair[2] = Nobody THEN pair[1] ELSE Nobody]]

(* place: a player comes into a slot; two players make a match ready.        *)
place(b, to, u) ==
  LET match == b[to[1]]
      slots == [match.slots EXCEPT ![to[2]] = u]
      full  == Nobody \notin {slots[1], slots[2]}
      state == IF full /\ match.state # "completed" THEN "ready" ELSE match.state IN
  [b EXCEPT ![to[1]] = [match EXCEPT !.slots = slots, !.state = state]]

(* resolveByes: who has no opponent in the first round goes on.              *)
resolveByes(b) ==
  LET through(m) == CHOOSE u \in ToSet(b[m].slots) : u # Nobody
      won(m, acc) == [acc EXCEPT ![m] = [@ EXCEPT !.winner = through(m), !.state = "completed"]]
      on(m, acc)  == IF b[m].winnerTo = Nowhere THEN acc ELSE place(acc, b[m].winnerTo, through(m)) IN
  FoldSet(LAMBDA m, acc : on(m, won(m, acc)), b, {m \in DOMAIN b : b[m].state = "bye"})
-----------------------------------------------------------------------------
(* engine.ts: start.  Who holds a seat becomes active and is seeded; nobody  *)
(* is taken from the waiting list.                                           *)
IsActive(p) == p.status \in {"registered", "active"}

order(t) ==
  LET seated == filtered(t.players, {i \in DOMAIN t.players : IsActive(t.players[i])}) IN
  [n \in DOMAIN seated |-> seated[n].user]

canStart(t) ==
  CASE t.format \in {"single-elimination", "knockout", "round-robin"} -> Len(order(t)) >= 2
    [] t.format = "double-elimination" -> Len(order(t)) >= 3
    [] OTHER -> TRUE

met(t) == {ToSet(t.bracket[m].slots) : m \in DOMAIN t.bracket}

(* A swiss round pairs the players by score.                                 *)
byScore(t) ==
  LET scoreOf(u) == t.players[CHOOSE i \in DOMAIN t.players : t.players[i].user = u].score
      above(u, v) == \/ scoreOf(u) > scoreOf(v)
                     \/ scoreOf(u) = scoreOf(v) /\ positionOf(order(t), u) < positionOf(order(t), v) IN
  inOrder(ToSet(order(t)), {pair \in ToSet(order(t)) \X ToSet(order(t)) : above(pair[1], pair[2])})

generateBracket(t) ==
  CASE t.format \in {"single-elimination", "knockout"} -> resolveByes(singleElimination(order(t)))
    [] t.format = "double-elimination" -> resolveByes(doubleElimination(order(t)))
    [] t.format = "round-robin" -> roundRobin(order(t))
    [] t.format = "swiss" -> swissPairing(byScore(t), met(t))
    [] OTHER -> Nowhere

(* A final status stays, but its bracket is drawn again all the same.        *)
started(t) ==
  LET seat(p) == IF IsActive(p) THEN [p EXCEPT !.status = "active", !.seed = positionOf(order(t), p.user)]
                 ELSE p IN
  [t EXCEPT !.status  = IF isFinal(t) THEN @ ELSE "live",
            !.players = [i \in DOMAIN @ |-> seat(@[i])],
            !.bracket = generateBracket(t)]
-----------------------------------------------------------------------------
(* reportMatch: the state of a match is only asked whether it is completed.  *)
canReport(t, m, u) ==
  /\ m \in DOMAIN t.bracket
  /\ t.bracket[m].state # "completed"
  /\ u \in ToSet(t.bracket[m].slots) \ {Nobody}

opponent(match, u) == IF match.slots[1] = u THEN match.slots[2] ELSE match.slots[1]

(* advance: a player who drops into the losers' side is not out yet.         *)
DropsOut(t, match) == match.loserTo = Nowhere /\ t.format \in Elimination

advanced(b, match, u, v) ==
  LET won == IF match.winnerTo = Nowhere THEN b ELSE place(b, match.winnerTo, u) IN
  IF v = Nobody \/ match.loserTo = Nowhere THEN won ELSE place(won, match.loserTo, v)

reported(t, m, u) ==
  LET match == t.bracket[m]
      v     == opponent(match, u)
      done  == [t.bracket EXCEPT ![m] = [@ EXCEPT !.winner = u, !.loser = v, !.state = "completed"]]
      score(p)  == IF p.user = u /\ t.format \in ScoredFormats THEN p.score + WIN_POINTS ELSE p.score
      fate(p)   == IF p.user = v /\ DropsOut(t, match) THEN "eliminated" ELSE p.status
      after(p)  == [p EXCEPT !.score = score(p), !.status = fate(p)] IN
  [t EXCEPT !.bracket = advanced(done, match, u, v),
            !.players = [i \in DOMAIN @ |-> after(@[i])]]
-----------------------------------------------------------------------------
(* standings: in an elimination, by the round in which a player dropped out  *)
(* (never, if the bracket does not say so); in the others by score.  Equal   *)
(* players share a rank.                                                     *)
Never == 1000

roundOut(t, u) ==
  LET lost == {m \in DOMAIN t.bracket : /\ t.bracket[m].state = "completed"
                                        /\ t.bracket[m].loser = u
                                        /\ t.bracket[m].loserTo = Nowhere} IN
  IF lost = {} THEN Never ELSE Max({m[2] : m \in lost})

merit(t, p) == IF t.format \in Elimination THEN roundOut(t, p.user) ELSE p.score

(* Who was never seeded comes first among equals in an elimination, and last *)
(* in the others.                                                            *)
seedOf(t, p) == IF p.seed = 0 /\ t.format \notin Elimination THEN Never ELSE p.seed

inRanking(t) == {i \in DOMAIN t.players : t.players[i].status # "withdrawn"}

standings(t) ==
  LET m(i) == merit(t, t.players[i])
      s(i) == seedOf(t, t.players[i])
      before(i, j) == \/ m(i) > m(j)
                      \/ m(i) = m(j) /\ s(i) < s(j)
                      \/ m(i) = m(j) /\ s(i) = s(j) /\ i < j
      rank(i) == 1 + Cardinality({j \in inRanking(t) : m(j) > m(i)})
      by == inOrder(inRanking(t), {pair \in inRanking(t) \X inRanking(t) : before(pair[1], pair[2])}) IN
  [n \in DOMAIN by |-> [user |-> t.players[by[n]].user, rank |-> rank(by[n])]]
-----------------------------------------------------------------------------
(* prizes.ts.  Amounts count the smallest unit, shares are percentages.      *)
computePool(t) ==
  t.prize.guaranteed + ((t.fee * Cardinality(inRanking(t)) * t.prize.contribution) \div 100)

(* The first takes what an even split leaves.  Mutant: it is dropped.        *)
ShareRoundedDown(total, n, i) == total \div n

Share(total, n, i) == (total \div n) + (IF i = 1 THEN total % n ELSE 0)

splitAmong(entries, total) ==
  [i \in DOMAIN entries |-> [user |-> entries[i].user, rank |-> entries[i].rank,
                             amount |-> Share(total, Len(entries), i)]]

inRange(ranked, from, to) == filtered(ranked, {i \in DOMAIN ranked : ranked[i].rank \in from..to})

(* The tiers by the rank they begin with, equal ones as they are given.      *)
inTurn(tiers) ==
  LET before(i, j) == tiers[i].from < tiers[j].from \/ (tiers[i].from = tiers[j].from /\ i < j)
      by == inOrder(DOMAIN tiers, {pair \in (DOMAIN tiers) \X (DOMAIN tiers) : before(pair[1], pair[2])}) IN
  [n \in DOMAIN by |-> tiers[by[n]]]

(* Cut from the pool tier after tier; the first award takes the rest.        *)
byTiers(given, ranked, pool) ==
  LET tiers == inTurn(given)
      cut(tier) == (pool * tier.share) \div 100
      in(tier)  == inRange(ranked, tier.from, tier.to)
      give(acc, tier) ==
        IF in(tier) = <<>> THEN acc
        ELSE [awards |-> acc.awards \o splitAmong(in(tier), cut(tier)), given |-> acc.given + cut(tier)]
      upTo[n \in 0..Len(tiers)] ==
        IF n = 0 THEN [awards |-> <<>>, given |-> 0] ELSE give(upTo[n - 1], tiers[n])
      all == upTo[Len(tiers)] IN
  IF all.awards = <<>> THEN <<>>
  ELSE [all.awards EXCEPT ![1].amount = @ + (pool - all.given)]

fixedPrizes(tiers, ranked) ==
  LET paid(tier) == LET entries == inRange(ranked, tier.from, tier.to) IN
                    [i \in DOMAIN entries |-> [user |-> entries[i].user, rank |-> entries[i].rank,
                                              amount |-> tier.share]] IN
  FoldLeft(LAMBDA acc, tier : acc \o paid(tier), <<>>, tiers)

(* All, if no tier says how many.                                            *)
top(tiers, ranked) ==
  IF tiers = <<>> THEN ranked ELSE SubSeq(ranked, 1, Min({Len(ranked), tiers[1].to}))

distributePrizes(t) ==
  LET ranked == standings(t)
      pool   == computePool(t) IN
  IF ranked = <<>> THEN <<>>
  ELSE CASE t.prize.type = "winner-take-all" -> splitAmong(inRange(ranked, 1, 1), pool)
         [] t.prize.type = "even-split" -> splitAmong(top(t.prize.tiers, ranked), pool)
         [] t.prize.type = "fixed" -> fixedPrizes(t.prize.tiers, ranked)
         [] OTHER -> byTiers(t.prize.tiers, ranked, pool)

completed(t) == [t EXCEPT !.status = "completed", !.awards = distributePrizes(t)]
=============================================================================
