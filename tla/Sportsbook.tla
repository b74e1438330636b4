----------------------------- MODULE Sportsbook -----------------------------
(* Sports betting: sports-betting.service.ts with the settlement rules of    *)
(* sports-engine, over the catalogue of sports-catalog.service.ts.           *)
(*                                                                           *)
(* A match is one JSON row, a player's slips are one JSON list in Redis that *)
(* lapses seven days after its last writing; calls read them, change them    *)
(* and write them back whole.  Slips carry no currency (place gives them     *)
(* none), so settling one moves no money.  Odds are whole numbers; stakes    *)
(* are one.                                                                  *)
EXTENDS Integers, SequencesExt

CONSTANTS SCalls,   \* requests that can be in flight at once
          Fixtures, \* match -> what an administrator may enter for it:
                    \* market -> [settlement, line, selections -> side]
          Feeds,    \* match -> results an administrator may attach to it
          Books,    \* bound: the wagers of a player (sequences of <<match, market,
                    \* selection>>), how many bets, the odds an administrator may
                    \* set, and whether calls overlap
          MaxPayout,
          MaxSlips  \* MAX_BETS

Offered(m, fixture) ==
  UNION {{<<m, k, s>> : s \in DOMAIN fixture[k].selections} : k \in DOMAIN fixture}

Selections == UNION {UNION {Offered(m, fixture) : fixture \in Fixtures[m]} : m \in DOMAIN Fixtures}

ASSUME SportsAssumption ==
  /\ MaxSlips \in Nat \ {0}
  /\ \A b \in Books : /\ b.odds \subseteq Nat
                     /\ \A w \in b.wagers : w \in Seq(Selections) /\ w # <<>>

VARIABLES book,        \* one of Books
          matches,     \* match rows
          slips,       \* the player's list, the latest first
          placed,      \* number of slips built
          counter,     \* of slips built by this process
          scall,       \* call -> where it is, and what it read
          soverlapped  \* some call began while another was under way

svars == <<book, matches, slips, placed, counter, scall, soverlapped>>

SRest == [step |-> "idle"]

NoResult == [settled |-> FALSE]

OpenMatch(fixture) ==
  [status |-> "scheduled", result |-> NoResult,
   markets |-> fixture,
   open |-> [k \in DOMAIN fixture |-> TRUE],
   odds |-> [k \in DOMAIN fixture |-> [s \in DOMAIN fixture[k].selections |-> 2]]]

betOn == {ref[1] : ref \in UNION {ToSet(w) : w \in book.wagers}}

SportsInit ==
  /\ book \in Books
  /\ matches = [m \in {} |-> NoResult]
  /\ slips = <<>>
  /\ placed = 0
  /\ counter = 0
  /\ scall = [c \in SCalls |-> SRest]
  /\ soverlapped = FALSE

SportsQuiet == \A c \in SCalls : scall[c] = SRest

SGo(c, next) == scall' = [scall EXCEPT ![c] = next]

SBegin(c, next) ==
  /\ scall[c] = SRest
  /\ SportsQuiet \/ book.overlaps
  /\ SGo(c, next)
  /\ soverlapped' = (soverlapped \/ ~SportsQuiet)
  /\ UNCHANGED <<book, matches, slips, placed, counter>>
-----------------------------------------------------------------------------
(* settlement.ts.  A feed says for some markets who won or what the value    *)
(* was, and which selections are void.                                       *)
sideOutcome(side, value, line) ==
  CASE value = line    -> "void"
    [] side = "over"   -> IF value > line THEN "won" ELSE "lost"
    [] side = "under"  -> IF value < line THEN "won" ELSE "lost"
    [] side = "home"   -> IF value + line > 0 THEN "won" ELSE "lost"
    [] side = "away"   -> IF value + line < 0 THEN "won" ELSE "lost"
    [] OTHER           -> "pending"

settleSelection(market, k, s, feed) ==
  CASE s \in feed.voids -> "void"
    [] market.settlement = "line" /\ k \in DOMAIN feed.lines ->
         sideOutcome(market.selections[s], feed.lines[k], market.line)
    [] market.settlement = "outright" /\ k \in DOMAIN feed.winners ->
         IF s \in feed.winners[k] THEN "won" ELSE "lost"
    [] OTHER -> "pending"

isOffered(row, k, s) == k \in DOMAIN row.markets /\ s \in DOMAIN row.markets[k].selections

(* What the result of its own match makes of a leg; void, if the match was   *)
(* entered anew without its market or selection.                             *)
legStatus(leg, found) ==
  LET row == found[leg.match] IN
  IF isOffered(row, leg.market, leg.selection)
  THEN settleSelection(row.markets[leg.market], leg.market, leg.selection, row.result.feed)
  ELSE "void"

(* Mutant: legs that are undecided are looked for last.                      *)
statusIfAnyWon(statuses) ==
  CASE "lost" \in statuses    -> "lost"
    [] "won" \in statuses     -> "won"
    [] "pending" \in statuses -> "pending"
    [] OTHER                  -> "void"

statusOf(statuses) ==
  CASE "lost" \in statuses    -> "lost"
    [] "pending" \in statuses -> "pending"
    [] statuses = {"void"}    -> "void"
    [] OTHER                  -> "won"

productOf(odds, S) == FoldFunctionOnSet(LAMBDA o, p : p * o, 1, odds, S)

(* Statuses are kept by the id of the selection alone: of legs with one id,  *)
(* in other markets or other matches, the last decides for all.              *)
lastLeg(slip, s) ==
  CHOOSE i \in DOMAIN slip.legs : /\ slip.legs[i].selection = s
                                  /\ \A j \in DOMAIN slip.legs : slip.legs[j].selection = s => j <= i

statusById(slip, found, s) == legStatus(slip.legs[lastLeg(slip, s)], found)

(* `own' is no field of the code's: what the leg's own match said of it.     *)
settledLegs(slip, found) ==
  [i \in DOMAIN slip.legs |->
     [slip.legs[i] EXCEPT !.status = statusById(slip, found, slip.legs[i].selection),
                          !.own = legStatus(slip.legs[i], found)]]

(* Void legs collapse to odds of one; a slip that is void as a whole returns *)
(* its stake.                                                                *)
withLegs(slip, legs) ==
  LET factors == [i \in DOMAIN legs |-> IF legs[i].status = "won" THEN legs[i].odds ELSE 1]
      status == statusOf({legs[i].status : i \in DOMAIN legs}) IN
  [slip EXCEPT !.legs = legs, !.status = status,
               !.returned = CASE status = "won"  -> productOf(factors, DOMAIN legs)
                              [] status = "void" -> 1
                              [] OTHER           -> 0]

settleSlip(slip, found) == withLegs(slip, settledLegs(slip, found))
-----------------------------------------------------------------------------
(* place: every selection is looked up in turn, with odds as they stand.     *)
isOpen(m, k, s) ==
  /\ m \in DOMAIN matches
  /\ matches[m].status \notin {"finished", "settled", "cancelled"}
  /\ isOffered(matches[m], k, s)
  /\ matches[m].open[k]

Place(c) ==
  /\ placed < book.bets
  /\ \E refs \in book.wagers : SBegin(c, [step |-> "resolve", refs |-> refs, legs |-> <<>>])

ResolveLeg(c) ==
  /\ scall[c].step = "resolve"
  /\ LET ref == Head(scall[c].refs)
         leg == [match |-> ref[1], market |-> ref[2], selection |-> ref[3],
                 odds |-> matches[ref[1]].odds[ref[2]][ref[3]], status |-> "pending", own |-> "pending"] IN
     SGo(c, IF ~isOpen(ref[1], ref[2], ref[3]) THEN SRest
            ELSE [step |-> IF Len(scall[c].refs) = 1 THEN "load" ELSE "resolve",
                  refs |-> Tail(scall[c].refs), legs |-> Append(scall[c].legs, leg)])
  /\ UNCHANGED <<book, matches, slips, placed, counter, soverlapped>>

(* The engine validates the slip (no two legs of a market, the cap on the    *)
(* return) and gives it the next id of its process; then the list is loaded, *)
(* and saved with the slip at its head.  `bet' is the place of a slip among  *)
(* all that were ever built (the code keeps the moment, createdAt).          *)
price(legs) == productOf([i \in DOMAIN legs |-> legs[i].odds], DOMAIN legs)

isValid(legs) ==
  /\ \A i, j \in DOMAIN legs : i # j => legs[i].market # legs[j].market
  /\ price(legs) <= MaxPayout

LoadSlips(c) ==
  /\ scall[c].step = "load"
  /\ LET slip == [bet |-> placed + 1, id |-> counter + 1, legs |-> scall[c].legs,
                  status |-> "pending", returned |-> price(scall[c].legs)]
         kept == IF Len(slips) < MaxSlips THEN slips ELSE SubSeq(slips, 1, MaxSlips - 1) IN
     IF isValid(scall[c].legs)
     THEN /\ placed' = placed + 1
          /\ counter' = counter + 1
          /\ SGo(c, [step |-> "save", slips |-> <<slip>> \o kept])
     ELSE /\ SGo(c, SRest)
          /\ UNCHANGED <<placed, counter>>
  /\ UNCHANGED <<book, matches, slips, soverlapped>>

SaveSlips(c) ==
  /\ scall[c].step = "save"
  /\ slips' = scall[c].slips
  /\ SGo(c, SRest)
  /\ UNCHANGED <<book, matches, placed, counter, soverlapped>>

(* The list lapses in Redis, seven days after it was saved.                  *)
ListExpires ==
  /\ slips' = <<>>
  /\ UNCHANGED <<book, matches, placed, counter, scall, soverlapped>>

(* A restart ends the calls under way, and ids are counted from one again.   *)
ProcessRestarts ==
  /\ counter' = 0
  /\ scall' = [c \in SCalls |-> SRest]
  /\ UNCHANGED <<book, matches, slips, placed, soverlapped>>
-----------------------------------------------------------------------------
(* settlePending: the list is loaded once; the matches of each pending slip  *)
(* are looked up in turn; the list is saved at the end if a slip changed.    *)
Sweep(c) ==
  SBegin(c, [step |-> "sweep", slips |-> slips, next |-> 1, changed |-> FALSE])

(* Mutant: slips that are settled are settled again.                         *)
anySlip(list, next) == {i \in DOMAIN list : i >= next}

pendingFrom(list, next) == {i \in DOMAIN list : i >= next /\ list[i].status = "pending"}

hasResults(slip) ==
  \A i \in DOMAIN slip.legs :
    /\ slip.legs[i].match \in DOMAIN matches
    /\ matches[slip.legs[i].match].result.settled

SweepOne(c) ==
  /\ scall[c].step = "sweep"
  /\ LET k    == scall[c]
         todo == pendingFrom(k.slips, k.next)
         i    == CHOOSE i \in todo : \A j \in todo : i <= j
         done == settleSlip(k.slips[i], matches) IN
     IF todo = {} THEN SGo(c, IF k.changed THEN [step |-> "save", slips |-> k.slips] ELSE SRest)
     ELSE IF hasResults(k.slips[i]) /\ done.status # "pending"
     THEN SGo(c, [k EXCEPT !.slips[i] = done, !.next = i + 1, !.changed = TRUE])
     ELSE SGo(c, [k EXCEPT !.next = i + 1])
  /\ UNCHANGED <<book, matches, slips, placed, counter, soverlapped>>
-----------------------------------------------------------------------------
(* The catalogue: a change reads the row of a match and writes it back.      *)
settledBy(row, feed) ==
  [row EXCEPT !.status = "settled", !.result = [settled |-> TRUE, feed |-> feed],
              !.open = [k \in DOMAIN @ |-> FALSE]]

repriced(row, k) == {[row EXCEPT !.odds[k][s] = o] : s \in DOMAIN row.odds[k], o \in book.odds}

suspended(row, k) == [row EXCEPT !.open[k] = ~@]

changesOf(m, row) ==
  {[row EXCEPT !.status = status] : status \in {"scheduled", "finished"}}
    \cup (UNION {repriced(row, k) \cup {suspended(row, k)} : k \in DOMAIN row.open})
    \cup {settledBy(row, feed) : feed \in Feeds[m]}

ChangeMatch(c) ==
  /\ \A d \in SCalls : scall[d].step # "saveMatch" \* bound
  /\ \E m \in DOMAIN matches : \E row \in changesOf(m, matches[m]) :
       SBegin(c, [step |-> "saveMatch", match |-> m, row |-> row])

writeMatch(m, row) == matches' = [n \in DOMAIN matches \cup {m} |-> IF n = m THEN row ELSE matches[n]]

SaveMatch(c) ==
  /\ scall[c].step = "saveMatch"
  /\ writeMatch(scall[c].match, scall[c].row)
  /\ SGo(c, SRest)
  /\ UNCHANGED <<book, slips, placed, counter, soverlapped>>

(* upsertMatch and removeMatch read nothing of the row.                      *)
UpsertMatch ==
  /\ \E m \in betOn : \E fixture \in Fixtures[m] : writeMatch(m, OpenMatch(fixture))
  /\ UNCHANGED <<book, slips, placed, counter, scall, soverlapped>>

RemoveMatch ==
  /\ \E m \in DOMAIN matches : matches' = [n \in DOMAIN matches \ {m} |-> matches[n]]
  /\ UNCHANGED <<book, slips, placed, counter, scall, soverlapped>>

SportsNext ==
  \/ \E c \in SCalls :
       \/ Place(c) \/ ResolveLeg(c) \/ LoadSlips(c) \/ SaveSlips(c)
       \/ Sweep(c) \/ SweepOne(c)
       \/ ChangeMatch(c) \/ SaveMatch(c)
  \/ UpsertMatch
  \/ RemoveMatch
  \/ ListExpires
  \/ ProcessRestarts

SportsSpec == SportsInit /\ [][SportsNext]_svars
-----------------------------------------------------------------------------
SlipStatuses == {"pending", "won", "lost", "void"}

(* Type invariant.                                                           *)
SportsTypeOK ==
  /\ DOMAIN matches \subseteq DOMAIN Fixtures
  /\ counter \in 0..placed
  /\ Len(slips) <= MaxSlips
  /\ \A i \in DOMAIN slips : /\ slips[i].bet \in 1..placed /\ slips[i].id \in 1..placed
                             /\ slips[i].status \in SlipStatuses
                             /\ \A j \in DOMAIN slips[i].legs : slips[i].legs[j].status \in SlipStatuses

(* What the legs make of a slip: lost by any lost leg, else paid the odds of *)
(* its won legs, and pending as long as a leg is.                            *)
followsLegs(slip) ==
  LET legs == slip.legs
      odds == [j \in DOMAIN legs |-> legs[j].odds]
      with(status) == {j \in DOMAIN legs : legs[j].status = status} IN
  slip.status # "pending" =>
    /\ slip.status = "lost" <=> with("lost") # {}
    /\ with("lost") = {} => with("pending") = {}
    /\ slip.returned = IF with("lost") # {} THEN 0 ELSE productOf(odds, with("won"))

(* The legs of a settled slip stand as the results of their own matches had  *)
(* it.                                                                       *)
followsMatches(slip) ==
  slip.status # "pending" => \A j \in DOMAIN slip.legs : slip.legs[j].status = slip.legs[j].own

(* No two legs have the same selection id.                                   *)
hasApartLegs(slip) ==
  \A i, j \in DOMAIN slip.legs : i # j => slip.legs[i].selection # slip.legs[j].selection

(* A settled slip is what its legs make of it, whatever became of odds,      *)
(* markets and matches since it was placed: lost by any lost leg, else paid  *)
(* the odds of its won legs as they were when it was placed, and never       *)
(* settled with a leg undecided; and if no two of its legs share the id of a *)
(* selection, each leg is what its own match made of it                      *)
(* (settlement.ts:65-107, engine.ts:40-56, sports-betting.service.ts:104-    *)
(* 139).                                                                     *)
SlipFollowsLegs ==
  \A i \in DOMAIN slips :
    followsLegs(slips[i]) /\ (hasApartLegs(slips[i]) => followsMatches(slips[i]))

(* src/games/sports-engine/src/engine.ts:36: "Each leg's status is derived   *)
(* from its match result" - of legs that share the id of a selection, too.   *)
LegsFollowMatches == \A i \in DOMAIN slips : followsMatches(slips[i])

betsOf(list) == {list[i].bet : i \in DOMAIN list}

slipOf(list, b) == list[CHOOSE i \in DOMAIN list : list[i].bet = b]

(* When calls do not overlap, restarts and lapses of the list in between: a  *)
(* settled slip is never settled again, not when the match gets another      *)
(* result, is reopened or removed; and no slip drops out of a list that is   *)
(* not full, unless the whole list lapsed (sports-betting.service.ts:22,     *)
(* 92-93, 110, 169).                                                         *)
SlipsSettleOnce ==
  [][~soverlapped =>
       /\ \A b \in betsOf(slips) \cap betsOf(slips') :
            slipOf(slips, b).status # "pending" => slipOf(slips', b) = slipOf(slips, b)
       /\ \/ betsOf(slips) \subseteq betsOf(slips')
          \/ Len(slips') = MaxSlips
          \/ slips' = <<>>]_svars
=============================================================================
