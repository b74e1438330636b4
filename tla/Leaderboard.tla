---------------------------- MODULE Leaderboard -----------------------------
(* One leaderboard (leaderboard.service.ts): entries with score and rank in  *)
(* the database, and a sorted set of scores in Redis that serves reads as    *)
(* long as it is there.  A submission is four steps; another one, or its     *)
(* death, may come between any two of them.                                  *)
EXTENDS Integers, FiniteSets

CONSTANTS BCalls,  \* submissions that can be in flight at once
          Ranked,  \* the users who submit
          Scores,
          Nothing  \* the user of a call at rest

ASSUME LeaderboardAssumption == IsFiniteSet(Ranked) /\ Nothing \notin Ranked /\ Scores \subseteq Int

VARIABLES sorted,  \* user -> score, in Redis
          entries, \* user -> [score, rank], in the database
          bcall,   \* call -> where it is, whose score it submits, what it read
          alone,   \* the latest submission overlapped no other and did not die
          drifted  \* users of submissions that died, or overlapped one of theirs

bvars == <<sorted, entries, bcall, alone, drifted>>

BRest == [step |-> "idle", user |-> Nothing]

BoardInit ==
  /\ sorted = [u \in {} |-> 0]
  /\ entries = [u \in {} |-> 0]
  /\ bcall = [c \in BCalls |-> BRest]
  /\ alone = TRUE
  /\ drifted = {}

BGo(c, next) == bcall' = [bcall EXCEPT ![c] = next]

BoardQuiet == \A c \in BCalls : bcall[c] = BRest

(* submit: the score of the sorted set is replaced, better or not.           *)
Submit(c) ==
  \E u \in Ranked, s \in Scores :
    /\ bcall[c] = BRest
    /\ BGo(c, [step |-> "entry", user |-> u, score |-> s])
    /\ sorted' = [v \in {u} \cup DOMAIN sorted |-> IF v = u THEN s ELSE sorted[v]]
    /\ alone' = BoardQuiet
    /\ drifted' = drifted \cup {v \in {u} : \E d \in BCalls \ {c} : bcall[d].user = v}
    /\ UNCHANGED entries

upsert(u, s) ==
  [v \in {u} \cup DOMAIN entries |-> IF v = u THEN [score |-> s, rank |-> 0] ELSE entries[v]]

UpsertEntry(c) ==
  /\ bcall[c].step = "entry"
  /\ entries' = upsert(bcall[c].user, bcall[c].score)
  /\ BGo(c, [step |-> "read", user |-> bcall[c].user])
  /\ UNCHANGED <<sorted, alone, drifted>>

(* recomputeRanks: equal scores share a rank, and the ranks after them are   *)
(* skipped; the ranks are computed on the scores that were read.             *)
(* Mutant: a tie takes the last of its places, not the first.                *)
rankAfterTies(scores, u) == Cardinality({v \in DOMAIN scores : scores[v] >= scores[u]})

rankOf(scores, u) == 1 + Cardinality({v \in DOMAIN scores : scores[v] > scores[u]})

ReadScores(c) ==
  /\ bcall[c].step = "read"
  /\ BGo(c, [step |-> "ranks", user |-> bcall[c].user,
             scores |-> [u \in DOMAIN entries |-> entries[u].score]])
  /\ UNCHANGED <<sorted, entries, alone, drifted>>

WriteRanks(c) ==
  /\ bcall[c].step = "ranks"
  /\ LET scores == bcall[c].scores IN
     entries' = [u \in DOMAIN entries |->
                   IF u \in DOMAIN scores THEN [entries[u] EXCEPT !.rank = rankOf(scores, u)]
                   ELSE entries[u]]
  /\ BGo(c, BRest)
  /\ UNCHANGED <<sorted, alone, drifted>>

SubmitDies(c) ==
  /\ bcall[c] # BRest
  /\ BGo(c, BRest)
  /\ alone' = FALSE
  /\ drifted' = drifted \cup {bcall[c].user}
  /\ UNCHANGED <<sorted, entries>>

BoardNext ==
  \E c \in BCalls :
    \/ Submit(c)
    \/ UpsertEntry(c)
    \/ ReadScores(c)
    \/ WriteRanks(c)
    \/ SubmitDies(c)

BoardSpec == BoardInit /\ [][BoardNext]_bvars
-----------------------------------------------------------------------------
(* Type invariant.                                                           *)
BoardTypeOK ==
  /\ DOMAIN sorted \subseteq Ranked /\ DOMAIN entries \subseteq DOMAIN sorted
  /\ \A u \in DOMAIN entries : entries[u] \in [score : Scores, rank : 0..Cardinality(Ranked)]
  /\ drifted \subseteq Ranked

(* After a submission that ran alone to its end every rank is one more than  *)
(* the number of better entries, whatever overlapping or dying ones had      *)
(* left; and nobody whose own submissions ended and did not overlap is left  *)
(* without a rank, or with another score in Redis than in the database       *)
(* (leaderboard.service.ts:59-94).                                           *)
RanksFollowScores ==
  /\ (BoardQuiet /\ alone) =>
       \A u \in DOMAIN entries :
         entries[u].rank = 1 + Cardinality({v \in DOMAIN entries : entries[v].score > entries[u].score})
  /\ \A u \in DOMAIN entries \ drifted :
       (\A c \in BCalls : bcall[c].user # u) => entries[u].rank > 0 /\ sorted[u] = entries[u].score

(* leaderboard.service.ts:76 "Recompute dense ranks from current scores" and *)
(* src/docs/tournament-engine.md:76: the rank of a score is its place among  *)
(* the different scores.  (RanksFollowScores says what the code does.)       *)
RanksAreDense ==
  (BoardQuiet /\ alone) =>
    \A u \in DOMAIN entries :
      entries[u].rank = 1 + Cardinality({s \in {entries[v].score : v \in DOMAIN entries} : s > entries[u].score})
=============================================================================
