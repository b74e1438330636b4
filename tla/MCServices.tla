----------------------------- MODULE MCServices -----------------------------
(* Small instances of the services.                                          *)
EXTENDS Services

(* Tournaments: three players in a bracket of four, and for the calls that   *)
(* overlap one place with a waiting list.                                    *)
Tier(from, to, share) == [from |-> from, to |-> to, share |-> share]

Prize(type, tiers) == [type |-> type, guaranteed |-> 1, contribution |-> 100, tiers |-> tiers]

TopTwo == Prize("top-n", <<Tier(1, 1, 50), Tier(2, 2, 33)>>)

(* For ranks that nobody may hold: of tied players all are first.            *)
RunnersUp == Prize("top-n", <<Tier(2, 3, 100)>>)

Setup(format, prize) ==
  [format |-> format, capacity |-> 3, fee |-> 1, prize |-> prize,
   lateJoin |-> FALSE, autoCheckIn |-> TRUE, invited |-> Users]

OnePlace(invited, fee) ==
  [Setup("leaderboard", Prize("fixed", <<Tier(1, 1, 1)>>))
     EXCEPT !.capacity = 1, !.fee = fee, !.invited = invited]

(* Where three may pay for one place, a row holds two: the third is refused. *)
MCSetups ==
  {Setup("single-elimination", TopTwo),
   Setup("double-elimination", Prize("winner-take-all", <<>>)),
   Setup("round-robin", Prize("even-split", <<Tier(1, 2, 0)>>)),
   Setup("swiss", RunnersUp),
   [Setup("single-elimination", TopTwo) EXCEPT !.capacity = 2, !.lateJoin = TRUE],
   OnePlace(Users, 1)}
  \cup {OnePlace(pair, 0) : pair \in {S \in SUBSET Users : Cardinality(S) = 2}}

MCMayOverlap(t) == t.invited # Users /\ t.status \in {"draft", "registration"}

(* Sessions: which operations meet, with how many sessions and tokens.       *)
Scope(ops, most, tokensMost) == [ops |-> ops, sessions |-> most, tokens |-> tokensMost]

MCScopes ==
  {Scope({"login"}, 4, 0),
   Scope({"login", "rotate", "revoke"}, 1, 3),
   Scope({"login", "rotate", "expire"}, 2, 2),
   Scope({"login", "rotate", "suspend"}, 2, 3),
   Scope({"login", "revokeAll"}, 2, 0),
   Scope({"login", "change", "reset"}, 2, 0),
   Scope({"login", "verify", "reset"}, 2, 0),
   Scope({"login", "wrong", "reset"}, 1, 0)}

(* Tables: hands only, rounds only, and both without a game session.         *)
MCTables ==
  {[hands |-> TRUE, rounds |-> FALSE, bound |-> TRUE],
   [hands |-> FALSE, rounds |-> TRUE, bound |-> TRUE],
   [hands |-> TRUE, rounds |-> TRUE, bound |-> FALSE]}

MCPays(nonce, hits) == (nonce + hits) % 3

(* Sports: a match with a winner market, one whose winner has the same id,   *)
(* and two with a total whose value may fall on the line.  One of these may  *)
(* be entered anew without the selection that was bet on, or with a side     *)
(* that settlement does not know.  A feed may leave the market out.          *)
NoWinners == [k \in {} |-> {}]

Feed(winners, lines, voids) == [winners |-> winners, lines |-> lines, voids |-> voids]

Winner(k) == k :> [settlement |-> "outright", line |-> 0, selections |-> ("h" :> "none")]

Total(s, side) == "t" :> [settlement |-> "line", line |-> 1, selections |-> (s :> side)]

MCFixtures ==
  "m1" :> {Winner("w")}
  @@ "m2" :> {Total("o", "over")}
  @@ "m3" :> {Winner("v")}
  @@ "m4" :> {Total("o", "over"), Total("u", "under"), Total("o", "none")}

TotalFeeds == {Feed(NoWinners, "t" :> value, {}) : value \in 0..2} \cup {Feed(NoWinners, NoWinners, {})}

MCFeeds ==
  "m1" :> {Feed("w" :> {"h"}, NoWinners, {}), Feed(NoWinners, NoWinners, {"h"})}
  @@ "m2" :> TotalFeeds
  @@ "m3" :> {Feed("v" :> winners, NoWinners, {}) : winners \in {{}, {"h"}}}
  @@ "m4" :> TotalFeeds

WinnerLeg == <<"m1", "w", "h">>

TotalLeg(m) == <<m, "t", "o">>

NamesakeLeg == <<"m3", "v", "h">>

Book(wagers, bets, odds, overlaps) ==
  [wagers |-> wagers, bets |-> bets, odds |-> odds, overlaps |-> overlaps]

MCBooks ==
  {Book({<<WinnerLeg, TotalLeg("m2")>>}, 1, {}, FALSE),
   Book({<<WinnerLeg, NamesakeLeg>>}, 1, {}, FALSE),
   Book({<<TotalLeg("m4")>>}, 1, {3}, FALSE),
   Book({<<WinnerLeg>>}, 3, {}, FALSE),
   Book({<<WinnerLeg>>, <<WinnerLeg, WinnerLeg>>}, 1, {7}, FALSE),
   Book({<<WinnerLeg>>}, 1, {}, TRUE)}

MCSymmetry == Permutations(TCalls) \cup Permutations(Users)
=============================================================================
