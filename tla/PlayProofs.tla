------------------------------ MODULE PlayProofs ------------------------------
(* Proofs about what a player plays at: tables (GameTable), the runtime of a *)
(* session (GameRuntime), leaderboards (Leaderboard) and bets (Sportsbook).  *)
EXTENDS GameTable, GameRuntime, Leaderboard, Sportsbook, SequenceTheorems, SumProofs

(* What a round pays is an amount.                                           *)
PaysTyped == \A round, hits \in Nat : Pays(round, hits) \in Nat
-----------------------------------------------------------------------------
(* What the variables hold.                                                  *)
Hand == [round : Nat, stake : Stakes, hits : Nat]

TableRecord == [nonce : Nat, hand : Hand \cup {NoHand}]

RoundResult == [round : Nat, stake : Stakes, win : Nat]

Persisting == {"record", "tally", "reserve", "settle"}

CallTyped(k) ==
  \/ k = GRest
  \/ k.step = "write" /\ k.record \in TableRecord
  \/ k.step = "bust" /\ k.record \in TableRecord /\ k.record.hand \in Hand
  \/ k.step = "finish" /\ k.record \in TableRecord /\ k.result \in RoundResult
  \/ k \in [step : Persisting, result : RoundResult] /\ opened.bound
  \/ k.step \in {"complete", "delete"}

TableTyped ==
  /\ opened \in Tables
  /\ grecord \in TableRecord \cup {NoTable}
  /\ DOMAIN gcall = GCalls
  /\ \A c \in GCalls : CallTyped(gcall[c])
  /\ gresults \in Seq(RoundResult)
  /\ gsession \in [rounds : Nat, bet : Nat, win : Nat, completed : BOOLEAN]

LEMMA GoesTo ==
  ASSUME DOMAIN gcall = GCalls, NEW c \in GCalls, NEW next, GGo(c, next)
  PROVE  /\ DOMAIN gcall' = GCalls
         /\ gcall'[c] = next
         /\ \A d \in GCalls : d # c => gcall'[d] = gcall[d]
  BY DEF GGo

LEMMA CallsTyped ==
  ASSUME TableTyped, NEW c \in GCalls, NEW next, GGo(c, next), opened' = opened,
         CallTyped(next)
  PROVE  DOMAIN gcall' = GCalls /\ \A d \in GCalls : CallTyped(gcall[d])'
<1>1. DOMAIN gcall' = GCalls
  BY GoesTo DEF TableTyped
<1>2. ASSUME NEW d \in GCalls PROVE CallTyped(gcall[d])'
  <2>1. PICK k : k = gcall'[d]
    OBVIOUS
  <2>2. CallTyped(k)
    BY <2>1, GoesTo DEF TableTyped
  <2>3. CallTyped(k)'
    BY <2>2 DEF CallTyped
  <2> QED
    BY <2>1, <2>3 DEF CallTyped
<1> QED
  BY <1>1, <1>2

LEMMA NoHandApart == NoHand \notin Hand
  BY GameTableAssumption DEF Hand, NoHand

LEMMA RecordTyped ==
  ASSUME NEW r \in TableRecord
  PROVE  /\ r # NoTable
         /\ r.nonce \in Nat /\ r.hand \in Hand \cup {NoHand}
         /\ nextRound(r) \in TableRecord
         /\ nextRound(r).nonce = r.nonce + 1 /\ nextRound(r).hand = r.hand
         /\ finished(r) \in TableRecord
         /\ finished(r).nonce = r.nonce + 1 /\ finished(r).hand = NoHand
<1>1. r.nonce \in Nat /\ r.hand \in Hand \cup {NoHand} /\ r # NoTable
  BY DEF TableRecord, NoTable
<1>2. ASSUME NEW s \in TableRecord
      PROVE  /\ nextRound(s) \in TableRecord
             /\ nextRound(s).nonce = s.nonce + 1 /\ nextRound(s).hand = s.hand
  BY DEF TableRecord, nextRound
<1>3. PICK s, h : h = NoHand /\ s = [r EXCEPT !.hand = h]
  OBVIOUS
<1>4. s \in TableRecord /\ s.nonce = r.nonce /\ s.hand = h
  BY <1>3 DEF TableRecord
<1>5. finished(r) = nextRound(s)
  BY <1>3 DEF finished
<1> QED
  BY <1>1, <1>2, <1>3, <1>4, <1>5

LEMMA ResultTyped ==
  ASSUME PaysTyped, NEW round \in Nat, NEW stake \in Stakes, NEW hits \in Nat
  PROVE  /\ resultOf(round, stake, hits) \in RoundResult
         /\ resultOf(round, stake, hits).round = round
<1>1. Pays(round, hits) \in Nat
  BY DEF PaysTyped
<1>2. stake \in Nat
  BY GameTableAssumption
<1>3. stake * Pays(round, hits) \in Nat
  BY <1>1, <1>2
<1> QED
  BY <1>3 DEF resultOf, RoundResult

LEMMA TypedInit == TableInit => TableTyped
  BY DEF TableInit, TableTyped, TableRecord, CallTyped

(* What a call that reads the table goes to.                                 *)
LEMMA Reading ==
  ASSUME TableTyped, NEW c \in GCalls, NEW next, Reads(c, next), CallTyped(next)
  PROVE  TableTyped'
<1>1. GGo(c, next) /\ UNCHANGED <<opened, grecord, gresults, gsession>>
  BY DEF Reads
<1> QED
  BY <1>1, CallsTyped DEF TableTyped

LEMMA PlayReads ==
  ASSUME TableTyped, PaysTyped, NEW c \in GCalls, Play(c)
  PROVE  \E next : /\ Reads(c, next) /\ CallTyped(next)
                   /\ opened.rounds
                   /\ grecord \in TableRecord
                   /\ next.step = "finish"
                   /\ next.result.round = grecord.nonce
                   /\ next.record.nonce = grecord.nonce + 1
                   /\ next.record.hand = grecord.hand
<1>1. PICK stake \in Stakes :
        Reads(c, [step |-> "finish", record |-> nextRound(grecord),
                  result |-> resultOf(grecord.nonce, stake, 0)])
  BY DEF Play
<1>2. PICK next : next = [step |-> "finish", record |-> nextRound(grecord),
                          result |-> resultOf(grecord.nonce, stake, 0)]
  OBVIOUS
<1>3. Reads(c, next)
  BY <1>1, <1>2
<1>4. grecord \in TableRecord
  BY <1>3 DEF Reads, TableTyped
<1>5. /\ resultOf(grecord.nonce, stake, 0) \in RoundResult
      /\ resultOf(grecord.nonce, stake, 0).round = grecord.nonce
  BY <1>4, RecordTyped, ResultTyped
<1>6. /\ next.step = "finish" /\ next.record = nextRound(grecord)
      /\ next.result = resultOf(grecord.nonce, stake, 0)
  BY <1>2
<1>7. CallTyped(next)
  BY <1>4, <1>5, <1>6, RecordTyped DEF CallTyped
<1> QED
  BY <1>3, <1>4, <1>5, <1>6, <1>7, RecordTyped DEF Play

LEMMA HandReads ==
  ASSUME TableTyped, NEW c \in GCalls, Deal(c) \/ Hit(c)
  PROVE  \E next : /\ Reads(c, next) /\ CallTyped(next)
                   /\ opened.hands
                   /\ grecord \in TableRecord
                   /\ next.step \in {"write", "bust"}
                   /\ next.record \in TableRecord
                   /\ next.record.nonce = grecord.nonce
                   /\ next.record.hand \in Hand
                   /\ \/ next.record.hand.round = grecord.nonce
                      \/ /\ grecord.hand \in Hand
                         /\ next.record.hand.round = grecord.hand.round
<1>1. CASE Deal(c)
  <2>1. PICK stake \in Stakes :
          Reads(c, [step |-> "write",
                    record |-> [grecord EXCEPT !.hand = [round |-> grecord.nonce, stake |-> stake,
                                                         hits |-> 0]]])
    BY <1>1 DEF Deal
  <2>2. PICK next, r, h : /\ h = [round |-> grecord.nonce, stake |-> stake, hits |-> 0]
                          /\ r = [grecord EXCEPT !.hand = h]
                          /\ next = [step |-> "write", record |-> r]
    OBVIOUS
  <2>3. Reads(c, next)
    BY <2>1, <2>2
  <2>4. grecord \in TableRecord
    BY <2>3 DEF Reads, TableTyped
  <2>5. h \in Hand /\ h.round = grecord.nonce
    BY <2>2, <2>4 DEF Hand, TableRecord
  <2>6. r \in TableRecord /\ r.hand = h /\ r.nonce = grecord.nonce
    BY <2>2, <2>4, <2>5 DEF TableRecord
  <2>7. next.step = "write" /\ next.record = r
    BY <2>2
  <2> QED
    BY <1>1, <2>3, <2>4, <2>5, <2>6, <2>7 DEF CallTyped, Deal
<1>2. CASE Hit(c)
  <2>1. PICK next, r : /\ r = [grecord EXCEPT !.hand.hits = @ + 1]
                       /\ next = [step |-> IF r.hand.hits > MaxHits THEN "bust" ELSE "write",
                                  record |-> r]
    OBVIOUS
  <2>2. Reads(c, next) /\ grecord # NoTable /\ grecord.hand # NoHand
    BY <1>2, <2>1 DEF Hit
  <2>3. grecord \in TableRecord /\ grecord.hand \in Hand
    BY <2>2, RecordTyped DEF TableTyped
  <2>4. /\ r = [grecord EXCEPT !.hand = r.hand]
        /\ r.hand = [grecord.hand EXCEPT !.hits = @ + 1]
    BY <2>1, <2>3 DEF TableRecord
  <2>5. r.hand \in Hand /\ r.hand.round = grecord.hand.round
    BY <2>3, <2>4 DEF Hand
  <2>6. r \in TableRecord /\ r.nonce = grecord.nonce
    BY <2>3, <2>4, <2>5 DEF TableRecord
  <2>7. next.step \in {"write", "bust"} /\ next.record = r
    BY <2>1
  <2> QED
    BY <1>2, <2>2, <2>3, <2>5, <2>6, <2>7 DEF CallTyped, Hit
<1> QED
  BY <1>1, <1>2

LEMMA StandReads ==
  ASSUME TableTyped, PaysTyped, NEW c \in GCalls, Stand(c)
  PROVE  \E next : /\ Reads(c, next) /\ CallTyped(next)
                   /\ grecord \in TableRecord /\ grecord.hand \in Hand
                   /\ next.step = "finish"
                   /\ next.result.round = grecord.hand.round
                   /\ next.record.nonce = grecord.nonce + 1
                   /\ next.record.hand = NoHand
<1>1. PICK next, r : /\ r = handResult(grecord.hand)
                     /\ next = [step |-> "finish", record |-> finished(grecord), result |-> r]
  OBVIOUS
<1>2. Reads(c, next) /\ grecord # NoTable /\ grecord.hand # NoHand
  BY <1>1 DEF Stand
<1>3. grecord \in TableRecord /\ grecord.hand \in Hand
  BY <1>2, RecordTyped DEF TableTyped
<1>4. r \in RoundResult /\ r.round = grecord.hand.round
  BY <1>1, <1>3, ResultTyped DEF handResult, Hand
<1>5. next.step = "finish" /\ next.record = finished(grecord) /\ next.result = r
  BY <1>1
<1> QED
  BY <1>2, <1>3, <1>4, <1>5, RecordTyped DEF CallTyped

(* Where a call goes on from what it read.                                   *)
LEMMA BustGoes ==
  ASSUME TableTyped, PaysTyped, NEW c \in GCalls, WriteBust(c)
  PROVE  \E next : /\ GGo(c, next) /\ CallTyped(next)
                   /\ next.step = "finish"
                   /\ next.result.round = gcall[c].record.hand.round
                   /\ next.record.nonce = gcall[c].record.nonce + 1
                   /\ next.record.hand = NoHand
<1>1. PICK next, r, k : /\ k = gcall[c].record
                        /\ r = handResult(k.hand)
                        /\ next = [step |-> "finish", record |-> finished(k), result |-> r]
  OBVIOUS
<1>2. GGo(c, next) /\ gcall[c].step = "bust"
  BY <1>1 DEF WriteBust
<1>3. k \in TableRecord /\ k.hand \in Hand
  BY <1>1, <1>2 DEF TableTyped, CallTyped, GRest, Persisting
<1>4. r \in RoundResult /\ r.round = k.hand.round
  BY <1>1, <1>3, ResultTyped DEF handResult, Hand
<1>5. next.step = "finish" /\ next.record = finished(k) /\ next.result = r
  BY <1>1
<1> QED
  BY <1>1, <1>2, <1>3, <1>4, <1>5, RecordTyped DEF CallTyped

LEMMA Persists ==
  ASSUME TableTyped, NEW c \in GCalls, gcall[c].step \in Persisting
  PROVE  /\ gcall[c] \in [step : Persisting, result : RoundResult]
         /\ opened.bound
         /\ \A s \in Persisting :
              /\ [gcall[c] EXCEPT !.step = s] = [step |-> s, result |-> gcall[c].result]
              /\ CallTyped([gcall[c] EXCEPT !.step = s])
<1>1. gcall[c] \in [step : Persisting, result : RoundResult] /\ opened.bound
  BY DEF TableTyped, CallTyped, GRest, Persisting
<1>2. \A s \in Persisting : [gcall[c] EXCEPT !.step = s] = [step |-> s, result |-> gcall[c].result]
  BY <1>1
<1> QED
  BY <1>1, <1>2 DEF CallTyped

LEMMA TypedStep == PaysTyped /\ TableTyped /\ [TableNext]_gvars => TableTyped'
<1> SUFFICES ASSUME PaysTyped, TableTyped, [TableNext]_gvars PROVE TableTyped'
  OBVIOUS
<1>0. opened \in Tables /\ opened.bound \in BOOLEAN
  BY GameTableAssumption DEF TableTyped
<1>1. CASE UNCHANGED gvars
  BY <1>1 DEF gvars, TableTyped, CallTyped
<1>2. ASSUME NEW c \in GCalls, Play(c) \/ Deal(c) \/ Hit(c) \/ Stand(c)
      PROVE  TableTyped'
  <2>1. \E next : Reads(c, next) /\ CallTyped(next)
    BY <1>2, PlayReads, HandReads, StandReads
  <2> QED
    BY <2>1, Reading
<1>3. ASSUME NEW c \in GCalls, EndTable(c) PROVE TableTyped'
  <2>1. PICK next : next = [step |-> "complete"]
    OBVIOUS
  <2>2. Reads(c, next) /\ CallTyped(next)
    BY <1>3, <2>1 DEF EndTable, CallTyped
  <2> QED
    BY <2>2, Reading
<1>r. CallTyped(GRest)
  BY DEF CallTyped
<1>4. ASSUME NEW c \in GCalls, Write(c) PROVE TableTyped'
  <2>1. gcall[c].record \in TableRecord
    BY <1>4 DEF Write, TableTyped, CallTyped, GRest, Persisting
  <2>2. /\ GGo(c, GRest) /\ grecord' = gcall[c].record
        /\ UNCHANGED <<opened, gresults, gsession>>
    BY <1>4 DEF Write
  <2> QED
    BY <1>r, <2>1, <2>2, CallsTyped DEF TableTyped
<1>5. ASSUME NEW c \in GCalls, WriteBust(c) PROVE TableTyped'
  <2>1. gcall[c].record \in TableRecord
    BY <1>5 DEF WriteBust, TableTyped, CallTyped, GRest, Persisting
  <2>2. PICK next : GGo(c, next) /\ CallTyped(next)
    BY <1>5, BustGoes
  <2>3. grecord' = gcall[c].record /\ UNCHANGED <<opened, gresults, gsession>>
    BY <1>5 DEF WriteBust
  <2> QED
    BY <2>1, <2>2, <2>3, CallsTyped DEF TableTyped
<1>6. ASSUME NEW c \in GCalls, FinishRound(c) PROVE TableTyped'
  <2>1. gcall[c].record \in TableRecord /\ gcall[c].result \in RoundResult
    BY <1>6 DEF FinishRound, TableTyped, CallTyped, GRest, Persisting
  <2>2. PICK next : next = IF opened.bound THEN [step |-> "record", result |-> gcall[c].result]
                           ELSE GRest
    OBVIOUS
  <2>3. /\ GGo(c, next) /\ grecord' = gcall[c].record
        /\ UNCHANGED <<opened, gresults, gsession>>
    BY <1>6, <2>2 DEF FinishRound
  <2>4. CallTyped(next)
    BY <2>1, <2>2 DEF CallTyped, Persisting
  <2> QED
    BY <2>1, <2>3, <2>4, CallsTyped DEF TableTyped
<1>7. ASSUME NEW c \in GCalls, RecordResult(c) PROVE TableTyped'
  <2>1. PICK next : next = [gcall[c] EXCEPT !.step = "tally"]
    OBVIOUS
  <2>2. CallTyped(next) /\ gcall[c].result \in RoundResult
    BY <1>7, <2>1, Persists DEF RecordResult, Persisting
  <2>3. /\ GGo(c, next) /\ gresults' = Append(gresults, gcall[c].result)
        /\ UNCHANGED <<opened, grecord, gsession>>
    BY <1>7, <2>1 DEF RecordResult
  <2> QED
    BY <2>2, <2>3, CallsTyped DEF TableTyped
<1>8. ASSUME NEW c \in GCalls, Tally(c) PROVE TableTyped'
  <2>1. PICK next : next = [gcall[c] EXCEPT !.step = "reserve"]
    OBVIOUS
  <2>2. CallTyped(next) /\ gcall[c].result \in RoundResult
    BY <1>8, <2>1, Persists DEF Tally, Persisting
  <2>3. /\ GGo(c, next) /\ gsession' = tally(gsession, gcall[c].result)
        /\ UNCHANGED <<opened, grecord, gresults>>
    BY <1>8, <2>1 DEF Tally
  <2>4. gsession' \in [rounds : Nat, bet : Nat, win : Nat, completed : BOOLEAN]
    <3>1. PICK s, k : s = gsession /\ k = gcall[c].result
      OBVIOUS
    <3>2. k.stake \in Nat /\ k.win \in Nat
      BY <2>2, <3>1, GameTableAssumption DEF RoundResult
    <3>3. s \in [rounds : Nat, bet : Nat, win : Nat, completed : BOOLEAN]
      BY <3>1 DEF TableTyped
    <3>4. PICK x, y, z : x = s.rounds + 1 /\ y = s.bet + k.stake /\ z = s.win + k.win
      OBVIOUS
    <3>5. x \in Nat /\ y \in Nat /\ z \in Nat
      BY <3>2, <3>3, <3>4
    <3>6. tally(s, k) = [s EXCEPT !.rounds = x, !.bet = y, !.win = z]
      BY <3>3, <3>4 DEF tally
    <3>7. tally(s, k) \in [rounds : Nat, bet : Nat, win : Nat, completed : BOOLEAN]
      BY <3>3, <3>5, <3>6
    <3> QED
      BY <2>3, <3>1, <3>7
  <2> QED
    BY <2>2, <2>3, <2>4, CallsTyped DEF TableTyped
<1>9. ASSUME NEW c \in GCalls, StakeRound(c) PROVE TableTyped'
  <2>1. PICK next : next = [gcall[c] EXCEPT !.step = "settle"]
    OBVIOUS
  <2>2. CallTyped(next)
    BY <1>9, <2>1, Persists DEF StakeRound, Persisting
  <2>3. /\ GGo(c, next) \/ GGo(c, GRest)
        /\ UNCHANGED <<opened, grecord, gresults, gsession>>
    BY <1>9, <2>1 DEF StakeRound
  <2> QED
    BY <1>r, <2>2, <2>3, CallsTyped DEF TableTyped
<1>10. ASSUME NEW c \in GCalls, SettleRound(c) \/ SettleRoundFails(c) \/ Delete(c)
       PROVE  TableTyped'
  <2>1. /\ GGo(c, GRest) /\ grecord' \in {grecord, NoTable}
        /\ UNCHANGED <<opened, gresults, gsession>>
    BY <1>10 DEF SettleRound, SettleRoundFails, Delete
  <2> QED
    BY <1>r, <2>1, CallsTyped DEF TableTyped
<1>11. ASSUME NEW c \in GCalls, CompleteSession(c) PROVE TableTyped'
  <2>1. PICK next : next = [step |-> "delete"]
    OBVIOUS
  <2>2. /\ GGo(c, next) /\ CallTyped(next)
        /\ gsession' = [gsession EXCEPT !.completed = opened.bound]
        /\ UNCHANGED <<opened, grecord, gresults>>
    BY <1>11, <2>1 DEF CompleteSession, CallTyped
  <2> QED
    BY <1>0, <2>2, CallsTyped DEF TableTyped
<1> QED
  BY <1>1, <1>2, <1>3, <1>4, <1>5, <1>6, <1>7, <1>8, <1>9, <1>10, <1>11 DEF TableNext

LEMMA TypedAlways == ASSUME PaysTyped PROVE TableSpec => []TableTyped
  BY TypedInit, TypedStep, PTL DEF TableSpec

LEMMA TypedTables == ASSUME TableTyped PROVE TableTypeOK
<1>1. ASSUME grecord \in TableRecord
      PROVE  grecord.nonce \in Nat /\ DOMAIN grecord.hand = DOMAIN NoHand
  <2>1. PICK h : h = grecord.hand
    OBVIOUS
  <2>2. grecord.nonce \in Nat /\ h \in Hand \cup {NoHand}
    BY <1>1, <2>1 DEF TableRecord
  <2>3. DOMAIN h = DOMAIN NoHand
    BY <2>2 DEF Hand, NoHand
  <2> QED
    BY <2>1, <2>2, <2>3
<1>2. \A i \in DOMAIN gresults : gresults[i].round \in Nat /\ gresults[i].stake \in Stakes
  <2>1. gresults \in Seq(RoundResult)
    BY DEF TableTyped
  <2>2. \A i \in DOMAIN gresults : gresults[i] \in RoundResult
    BY <2>1
  <2> QED
    BY <2>2 DEF RoundResult
<1> QED
  BY <1>1, <1>2 DEF TableTyped, TableTypeOK

(* Type invariant, for all tables, stakes and calls.                         *)
THEOREM TableTypeCorrect ==
  ASSUME PaysTyped
  PROVE  TableSpec => []TableTypeOK
<1>1. TableTyped => TableTypeOK
  BY TypedTables
<1> QED
  BY <1>1, TypedAlways, PTL
-----------------------------------------------------------------------------
(* When one call follows another, a round is played, recorded and paid       *)
(* before the next one gets a nonce.                                         *)
Paid(r) ==
  \/ r.round \in unfunded
  \/ /\ r.round \in DOMAIN wallet
     /\ wallet[r.round].stake = r.stake
     /\ IF wallet[r.round].open THEN wallet[r.round].failed ELSE wallet[r.round].win = r.win

Apart == ~goverlapped /\ ~(opened.hands /\ opened.rounds)

OneAtATime ==
  ~goverlapped =>
    \A c, d \in GCalls : gcall[c] # GRest /\ gcall[d] # GRest => c = d

(* Nothing is in the wallet under the nonce of the next round, and a hand in *)
(* progress is played under that nonce.                                      *)
HandStands(r) == r.hand = NoHand \/ (opened.hands /\ r.hand.round = r.nonce)

RecordOrdered ==
  /\ DOMAIN wallet \subseteq Nat
  /\ grecord # NoTable => /\ HandStands(grecord)
                          /\ \A k \in DOMAIN wallet : k < grecord.nonce

(* What a call carries from the record it read.                              *)
CallOrdered(k) ==
  /\ k.step \in {"write", "bust"} =>
       /\ grecord # NoTable /\ k.record.nonce = grecord.nonce
       /\ opened.hands /\ k.record.hand \in Hand
       /\ k.record.hand.round = k.record.nonce
  /\ k.step = "finish" =>
       /\ grecord # NoTable /\ k.record.nonce = grecord.nonce + 1
       /\ k.record.hand = NoHand
       /\ k.result.round = grecord.nonce
  /\ k.step \in Persisting => grecord # NoTable /\ grecord.nonce = k.result.round + 1
  /\ k.step \in Persisting \ {"settle"} => k.result.round \notin DOMAIN wallet
  /\ k.step = "settle" => /\ k.result.round \in DOMAIN wallet
                          /\ wallet[k.result.round] = Reservation(k.result.stake)

Pays1(k, r) == k.step \in Persisting \ {"record"} /\ k.result = r

PaidOrPaying ==
  \A i \in DOMAIN gresults :
    Paid(gresults[i]) \/ \E c \in GCalls : Pays1(gcall[c], gresults[i])

Ordered ==
  Apart => RecordOrdered /\ PaidOrPaying /\ \A c \in GCalls : CallOrdered(gcall[c])

TableInv == TableTyped /\ OneAtATime /\ Ordered

LEMMA RestOrdered == CallOrdered(GRest) /\ CallOrdered(GRest)' /\ \A r : ~Pays1(GRest, r)
  BY DEF CallOrdered, GRest, Persisting, Pays1

(* The call that acts is the only one under way.                             *)
Alone(c) == \A d \in GCalls : d # c => gcall[d] = GRest

LEMMA AloneKept ==
  ASSUME TableTyped, NEW c \in GCalls, Alone(c), NEW next, GGo(c, next)
  PROVE  /\ Alone(c)'
         /\ gcall'[c] = next
         /\ \A d, e \in GCalls : gcall'[d] # GRest /\ gcall'[e] # GRest => d = e
BY GoesTo DEF TableTyped, Alone

LEMMA OneAtATimeStep == TableTyped /\ OneAtATime /\ [TableNext]_gvars => OneAtATime'
<1> SUFFICES ASSUME TableTyped, OneAtATime, [TableNext]_gvars, ~goverlapped'
             PROVE  \A d, e \in GCalls : gcall'[d] # GRest /\ gcall'[e] # GRest => d = e
  BY DEF OneAtATime
<1>1. ASSUME NEW c \in GCalls, NEW next, Reads(c, next)
      PROVE  \A d, e \in GCalls : gcall'[d] # GRest /\ gcall'[e] # GRest => d = e
  <2>1. GGo(c, next) /\ TableQuiet
    BY <1>1 DEF Reads
  <2>2. Alone(c)
    BY <2>1 DEF TableQuiet, Alone
  <2> QED
    BY <2>1, <2>2, AloneKept
<1>2. ASSUME NEW c \in GCalls, NEW next, GGo(c, next), goverlapped' = goverlapped,
             gcall[c] # GRest
      PROVE  \A d, e \in GCalls : gcall'[d] # GRest /\ gcall'[e] # GRest => d = e
  <2>1. Alone(c)
    BY <1>2 DEF OneAtATime, Alone
  <2> QED
    BY <1>2, <2>1, AloneKept
<1>3. ASSUME NEW c \in GCalls, Play(c) \/ Deal(c) \/ Hit(c) \/ Stand(c) \/ EndTable(c)
      PROVE  \E next : Reads(c, next)
  BY <1>3 DEF Play, Deal, Hit, Stand, EndTable
<1>4. ASSUME NEW c \in GCalls,
             \/ Write(c) \/ WriteBust(c) \/ FinishRound(c)
             \/ RecordResult(c) \/ Tally(c) \/ StakeRound(c)
             \/ SettleRound(c) \/ SettleRoundFails(c)
             \/ CompleteSession(c) \/ Delete(c)
      PROVE  goverlapped' = goverlapped /\ gcall[c] # GRest /\ \E next : GGo(c, next)
  BY <1>4 DEF Write, WriteBust, FinishRound, RecordResult, Tally, StakeRound, SettleRound,
     SettleRoundFails, CompleteSession, Delete, GRest
<1>5. CASE UNCHANGED gvars
  BY <1>5 DEF gvars, OneAtATime
<1> QED
  BY <1>1, <1>2, <1>3, <1>4, <1>5 DEF TableNext

(* What must hold after a step, of the call that made it.                    *)
LEMMA OrderedTo ==
  ASSUME TableTyped, NEW c \in GCalls, Alone(c), NEW next, GGo(c, next),
         RecordOrdered', CallOrdered(next)',
         \A i \in DOMAIN gresults' : Paid(gresults[i])' \/ Pays1(next, gresults'[i])
  PROVE  Ordered'
<1>1. gcall'[c] = next /\ \A d \in GCalls : d # c => gcall'[d] = GRest
  BY GoesTo DEF TableTyped, Alone
<1>2. \A d \in GCalls : CallOrdered(gcall[d])'
  <2> SUFFICES ASSUME NEW d \in GCalls PROVE CallOrdered(gcall[d])'
    OBVIOUS
  <2>1. PICK k : k = gcall'[d]
    OBVIOUS
  <2>2. CallOrdered(k)'
    BY <1>1, <2>1, RestOrdered
  <2> QED
    BY <2>1, <2>2 DEF CallOrdered, Reservation
<1>3. PaidOrPaying'
  BY <1>1 DEF PaidOrPaying, Pays1
<1> QED
  BY <1>2, <1>3 DEF Ordered

LEMMA AllPaid ==
  ASSUME PaidOrPaying, NEW c \in GCalls, Alone(c)
  PROVE  \A i \in DOMAIN gresults : Paid(gresults[i]) \/ Pays1(gcall[c], gresults[i])
  BY RestOrdered DEF PaidOrPaying, Alone

(* What is paid stays paid.                                                  *)
LEMMA PaidStays ==
  ASSUME unfunded \subseteq unfunded',
         \A k \in DOMAIN wallet : (wallet[k].open => wallet[k].failed) =>
           k \in DOMAIN wallet' /\ wallet'[k] = wallet[k]
  PROVE  \A r : Paid(r) => Paid(r)'
  BY DEF Paid

LEMMA ReadsOrdered ==
  ASSUME TableInv, Apart', NEW c \in GCalls, NEW next, Reads(c, next), CallOrdered(next)
  PROVE  Ordered'
<1>1. /\ GGo(c, next) /\ TableQuiet /\ Apart
      /\ UNCHANGED <<opened, grecord, gresults, gsession, wallet, unfunded>>
  BY DEF Reads, Apart
<1>2. Alone(c) /\ gcall[c] = GRest
  BY <1>1 DEF TableQuiet, Alone
<1>3. TableTyped /\ RecordOrdered /\ PaidOrPaying
  BY <1>1 DEF TableInv, Ordered
<1>4. \A i \in DOMAIN gresults : Paid(gresults[i])
  BY <1>2, <1>3, AllPaid, RestOrdered
<1>5. \A i \in DOMAIN gresults' : Paid(gresults[i])'
  BY <1>1, <1>4 DEF Paid
<1>6. RecordOrdered' /\ CallOrdered(next)'
  BY <1>1, <1>3 DEF RecordOrdered, CallOrdered, HandStands, Reservation
<1> QED
  BY <1>1, <1>2, <1>3, <1>5, <1>6, OrderedTo

LEMMA BeginOrdered ==
  ASSUME TableInv, PaysTyped, Apart', NEW c \in GCalls,
         Play(c) \/ Deal(c) \/ Hit(c) \/ Stand(c) \/ EndTable(c)
  PROVE  Ordered'
<1>1. ASSUME NEW next, Reads(c, next)
      PROVE  /\ Apart /\ RecordOrdered /\ grecord # NoTable /\ TableTyped
             /\ HandStands(grecord)
  BY <1>1 DEF Reads, Apart, TableInv, Ordered, RecordOrdered
<1>2. CASE Play(c)
  <2>1. PICK next : /\ Reads(c, next)
                    /\ opened.rounds
                    /\ grecord \in TableRecord
                    /\ next.step = "finish"
                    /\ next.result.round = grecord.nonce
                    /\ next.record.nonce = grecord.nonce + 1
                    /\ next.record.hand = grecord.hand
    BY <1>2, PlayReads DEF TableInv
  <2>2. grecord.hand = NoHand /\ grecord # NoTable
    BY <1>1, <2>1 DEF HandStands, Apart
  <2>3. CallOrdered(next)
    BY <2>1, <2>2 DEF CallOrdered, Persisting
  <2> QED
    BY <2>1, <2>3, ReadsOrdered
<1>3. CASE Deal(c) \/ Hit(c)
  <2>1. PICK next : /\ Reads(c, next)
                    /\ opened.hands
                    /\ grecord \in TableRecord
                    /\ next.step \in {"write", "bust"}
                    /\ next.record \in TableRecord
                    /\ next.record.nonce = grecord.nonce
                    /\ next.record.hand \in Hand
                    /\ \/ next.record.hand.round = grecord.nonce
                       \/ /\ grecord.hand \in Hand
                          /\ next.record.hand.round = grecord.hand.round
    BY <1>3, HandReads DEF TableInv
  <2>2. grecord # NoTable /\ HandStands(grecord)
    BY <1>1, <2>1
  <2>3. next.record.hand.round = grecord.nonce
    BY <2>1, <2>2, NoHandApart DEF HandStands
  <2>4. CallOrdered(next)
    BY <2>1, <2>2, <2>3 DEF CallOrdered, Persisting
  <2> QED
    BY <2>1, <2>4, ReadsOrdered
<1>4. CASE Stand(c)
  <2>1. PICK next : /\ Reads(c, next)
                    /\ grecord \in TableRecord /\ grecord.hand \in Hand
                    /\ next.step = "finish"
                    /\ next.result.round = grecord.hand.round
                    /\ next.record.nonce = grecord.nonce + 1
                    /\ next.record.hand = NoHand
    BY <1>4, StandReads DEF TableInv
  <2>2. grecord # NoTable /\ HandStands(grecord)
    BY <1>1, <2>1
  <2>3. grecord.hand.round = grecord.nonce
    BY <2>1, <2>2, NoHandApart DEF HandStands
  <2>4. CallOrdered(next)
    BY <2>1, <2>2, <2>3 DEF CallOrdered, Persisting
  <2> QED
    BY <2>1, <2>4, ReadsOrdered
<1>5. CASE EndTable(c)
  <2>1. PICK next : next = [step |-> "complete"]
    OBVIOUS
  <2>2. Reads(c, next) /\ next.step = "complete"
    BY <1>5, <2>1 DEF EndTable
  <2>3. CallOrdered(next)
    BY <2>2 DEF CallOrdered, Persisting
  <2> QED
    BY <2>2, <2>3, ReadsOrdered
<1> QED
  BY <1>2, <1>3, <1>4, <1>5

LEMMA ProceedOrdered ==
  ASSUME TableInv, PaysTyped, Apart, NEW c \in GCalls,
         Write(c) \/ WriteBust(c) \/ FinishRound(c) \/ CompleteSession(c) \/ Delete(c)
  PROVE  Ordered'
<1>t. /\ TableTyped /\ RecordOrdered /\ PaidOrPaying /\ CallOrdered(gcall[c])
      /\ \A i \in DOMAIN gresults : Paid(gresults[i]) \/ \E d \in GCalls : Pays1(gcall[d], gresults[i])
  BY DEF TableInv, Ordered, PaidOrPaying
<1>1. /\ gcall[c].step \in {"write", "bust", "finish", "complete", "delete"}
      /\ UNCHANGED <<opened, gresults, wallet, unfunded>>
  BY DEF Write, WriteBust, FinishRound, CompleteSession, Delete
<1>2. Alone(c)
  BY <1>1 DEF TableInv, OneAtATime, Apart, Alone, GRest
<1>3. \A i \in DOMAIN gresults : Paid(gresults[i])
  BY <1>1, <1>2, <1>t, AllPaid DEF Pays1, Persisting
<1>4. \A i \in DOMAIN gresults' : Paid(gresults[i])'
  BY <1>1, <1>3 DEF Paid
<1>5. ASSUME NEW next, GGo(c, next), RecordOrdered', CallOrdered(next)' PROVE Ordered'
  BY <1>2, <1>4, <1>5, <1>t, OrderedTo
<1>6. CASE Write(c)
  <2>1. PICK k : k = gcall[c].record
    OBVIOUS
  <2>2. /\ GGo(c, GRest) /\ grecord' = k
        /\ grecord # NoTable /\ k.nonce = grecord.nonce
        /\ opened.hands /\ k.hand.round = k.nonce
    BY <1>6, <1>t, <2>1 DEF Write, CallOrdered
  <2>3. RecordOrdered'
    BY <1>1, <1>t, <2>2 DEF RecordOrdered, HandStands
  <2> QED
    BY <1>5, <2>2, <2>3, RestOrdered
<1>7. CASE WriteBust(c)
  <2>1. PICK k : k = gcall[c].record
    OBVIOUS
  <2>2. /\ grecord' = k /\ k \in TableRecord
        /\ grecord # NoTable /\ k.nonce = grecord.nonce
        /\ opened.hands /\ k.hand.round = k.nonce
    BY <1>7, <1>t, <2>1 DEF WriteBust, CallOrdered, TableTyped, CallTyped, GRest, Persisting
  <2>3. RecordOrdered'
    BY <1>1, <1>t, <2>2 DEF RecordOrdered, HandStands
  <2>4. PICK next : /\ GGo(c, next)
                    /\ next.step = "finish"
                    /\ next.result.round = k.hand.round
                    /\ next.record.nonce = k.nonce + 1
                    /\ next.record.hand = NoHand
    BY <1>7, <1>t, <2>1, BustGoes
  <2>5. grecord' # NoTable
    BY <2>2, RecordTyped
  <2>6. CallOrdered(next)'
    BY <2>2, <2>4, <2>5 DEF CallOrdered, Persisting
  <2> QED
    BY <1>5, <2>3, <2>4, <2>6
<1>8. CASE FinishRound(c)
  <2>1. PICK k, r : k = gcall[c].record /\ r = gcall[c].result
    OBVIOUS
  <2>2. /\ grecord' = k /\ k \in TableRecord /\ r \in RoundResult
        /\ grecord # NoTable /\ k.nonce = grecord.nonce + 1 /\ k.hand = NoHand
        /\ r.round = grecord.nonce
    BY <1>8, <1>t, <2>1 DEF FinishRound, CallOrdered, TableTyped, CallTyped, GRest, Persisting
  <2>3. \A j \in DOMAIN wallet : j \in Nat /\ j < grecord.nonce
    BY <1>t, <2>2 DEF RecordOrdered
  <2>4. grecord.nonce \in Nat
    BY <2>2 DEF RoundResult
  <2>5. /\ \A j \in DOMAIN wallet : j < k.nonce
        /\ r.round \notin DOMAIN wallet
    BY <2>2, <2>3, <2>4
  <2>6. RecordOrdered'
    BY <1>1, <1>t, <2>2, <2>5 DEF RecordOrdered, HandStands
  <2>7. PICK next : next = IF opened.bound THEN [step |-> "record", result |-> r] ELSE GRest
    OBVIOUS
  <2>8. GGo(c, next)
    BY <1>8, <2>1, <2>7 DEF FinishRound
  <2>9. grecord' # NoTable
    BY <2>2, RecordTyped
  <2>10. CASE opened.bound
    <3>1. next.step = "record" /\ next.result = r
      BY <2>7, <2>10
    <3>2. CallOrdered(next)'
      BY <1>1, <2>2, <2>5, <2>9, <3>1 DEF CallOrdered, Persisting
    <3> QED
      BY <1>5, <2>6, <2>8, <3>2
  <2>11. CASE ~opened.bound
    BY <1>5, <2>6, <2>7, <2>8, <2>11, RestOrdered
  <2> QED
    BY <2>10, <2>11
<1>9. CASE CompleteSession(c)
  <2>1. PICK next : next = [step |-> "delete"]
    OBVIOUS
  <2>2. GGo(c, next) /\ grecord' = grecord /\ next.step = "delete"
    BY <1>9, <2>1 DEF CompleteSession
  <2>3. RecordOrdered' /\ CallOrdered(next)'
    BY <1>1, <1>t, <2>2 DEF RecordOrdered, HandStands, CallOrdered, Persisting
  <2> QED
    BY <1>5, <2>2, <2>3
<1>10. CASE Delete(c)
  <2>1. GGo(c, GRest) /\ grecord' = NoTable
    BY <1>10 DEF Delete
  <2>2. RecordOrdered'
    BY <1>1, <1>t, <2>1 DEF RecordOrdered
  <2> QED
    BY <1>5, <2>1, <2>2, RestOrdered
<1> QED
  BY <1>6, <1>7, <1>8, <1>9, <1>10

LEMMA PersistOrdered ==
  ASSUME TableInv, Apart, NEW c \in GCalls,
         RecordResult(c) \/ Tally(c) \/ StakeRound(c) \/ SettleRound(c) \/ SettleRoundFails(c)
  PROVE  Ordered'
<1>t. /\ TableTyped /\ RecordOrdered /\ PaidOrPaying /\ CallOrdered(gcall[c])
      /\ gresults \in Seq(RoundResult)
  BY DEF TableInv, Ordered, TableTyped
<1>1. gcall[c].step \in Persisting /\ UNCHANGED <<opened, grecord>>
  BY DEF RecordResult, Tally, StakeRound, SettleRound, SettleRoundFails, Persisting
<1>2. Alone(c)
  BY <1>1 DEF TableInv, OneAtATime, Apart, Alone, GRest, Persisting
<1>3. \A i \in DOMAIN gresults : Paid(gresults[i]) \/ Pays1(gcall[c], gresults[i])
  BY <1>2, <1>t, AllPaid
<1>4. PICK r : r = gcall[c].result
  OBVIOUS
<1>5. /\ r \in RoundResult /\ grecord # NoTable /\ grecord.nonce = r.round + 1
      /\ gcall[c].step # "settle" => r.round \notin DOMAIN wallet
      /\ gcall[c].step = "settle" => /\ r.round \in DOMAIN wallet
                                     /\ wallet[r.round] = Reservation(r.stake)
  BY <1>1, <1>4, <1>t, Persists DEF CallOrdered
<1>6. ASSUME NEW next, GGo(c, next), RecordOrdered', CallOrdered(next)',
             \A i \in DOMAIN gresults' : Paid(gresults[i])' \/ Pays1(next, gresults'[i])
      PROVE  Ordered'
  BY <1>2, <1>6, <1>t, OrderedTo
<1>7. ASSUME NEW s \in Persisting
      PROVE  \E next : /\ next = [gcall[c] EXCEPT !.step = s]
                       /\ next.step = s /\ next.result = r
  <2>1. PICK next : next = [gcall[c] EXCEPT !.step = s]
    OBVIOUS
  <2>2. gcall[c] \in [step : Persisting, result : RoundResult]
    BY <1>1, <1>t, Persists
  <2>3. next.step = s /\ next.result = r
    BY <1>4, <2>1, <2>2
  <2> QED
    BY <2>1, <2>3
<1>8. CASE RecordResult(c)
  <2>1. PICK next : /\ next = [gcall[c] EXCEPT !.step = "tally"]
                    /\ next.step = "tally" /\ next.result = r
    BY <1>7 DEF Persisting
  <2>2. /\ GGo(c, next) /\ gresults' = Append(gresults, r) /\ gcall[c].step = "record"
        /\ UNCHANGED <<wallet, unfunded>>
    BY <1>4, <1>8, <2>1 DEF RecordResult
  <2>3. \A i \in DOMAIN gresults : Paid(gresults[i])
    BY <1>3, <2>2 DEF Pays1
  <2>4. \A i \in DOMAIN gresults' : \/ i \in DOMAIN gresults /\ gresults'[i] = gresults[i]
                                    \/ gresults'[i] = r
    BY <1>t, <1>5, <2>2
  <2>5. \A i \in DOMAIN gresults' : Paid(gresults[i])' \/ Pays1(next, gresults'[i])
    BY <2>1, <2>2, <2>3, <2>4 DEF Paid, Pays1, Persisting
  <2>6. RecordOrdered'
    BY <1>1, <1>t, <2>2 DEF RecordOrdered, HandStands
  <2>7. CallOrdered(next)'
    BY <1>1, <1>5, <2>1, <2>2 DEF CallOrdered, Persisting
  <2> QED
    BY <1>6, <2>2, <2>5, <2>6, <2>7
<1>9. CASE Tally(c)
  <2>1. PICK next : /\ next = [gcall[c] EXCEPT !.step = "reserve"]
                    /\ next.step = "reserve" /\ next.result = r
    BY <1>7 DEF Persisting
  <2>2. /\ GGo(c, next) /\ gcall[c].step = "tally"
        /\ UNCHANGED <<gresults, wallet, unfunded>>
    BY <1>9, <2>1 DEF Tally
  <2>3. \A i \in DOMAIN gresults' : Paid(gresults[i])' \/ Pays1(next, gresults'[i])
    BY <1>3, <1>4, <2>1, <2>2 DEF Paid, Pays1, Persisting
  <2>4. RecordOrdered'
    BY <1>1, <1>t, <2>2 DEF RecordOrdered, HandStands
  <2>5. CallOrdered(next)'
    BY <1>1, <1>5, <2>1, <2>2 DEF CallOrdered, Persisting
  <2> QED
    BY <1>6, <2>2, <2>3, <2>4, <2>5
<1>10. CASE StakeRound(c)
  <2>1. gcall[c].step = "reserve" /\ gresults' = gresults /\ r.round \notin DOMAIN wallet
    BY <1>5, <1>10 DEF StakeRound
  <2>2. PICK next : /\ next = [gcall[c] EXCEPT !.step = "settle"]
                    /\ next.step = "settle" /\ next.result = r
    BY <1>7 DEF Persisting
  <2>3. CASE GGo(c, next) /\ ReserveBet(r.round, r.stake) /\ unfunded' = unfunded
    <3>1. PICK x : x = Reservation(r.stake)
      OBVIOUS
    <3>2. wallet' = also({r.round}, x)
      BY <2>1, <2>3, <3>1 DEF ReserveBet, IsOpen
    <3>3. /\ DOMAIN wallet' = DOMAIN wallet \cup {r.round}
          /\ wallet'[r.round] = x
          /\ \A j \in DOMAIN wallet : wallet'[j] = wallet[j]
      BY <2>1, <3>2 DEF also
    <3>4. \A s : Paid(s) => Paid(s)'
      BY <2>3, <3>3, PaidStays
    <3>5. \A i \in DOMAIN gresults' : Paid(gresults[i])' \/ Pays1(next, gresults'[i])
      <4> SUFFICES ASSUME NEW i \in DOMAIN gresults
                   PROVE  Paid(gresults[i])' \/ Pays1(next, gresults[i])
        BY <2>1
      <4>1. PICK s : s = gresults[i]
        OBVIOUS
      <4>2. Paid(s)' \/ Pays1(next, s)
        BY <1>3, <1>4, <2>2, <3>4, <4>1 DEF Pays1, Persisting
      <4> QED
        BY <2>1, <4>1, <4>2 DEF Paid
    <3>6. r.round \in Nat /\ r.round < grecord.nonce
      BY <1>5 DEF RoundResult
    <3>7. RecordOrdered'
      BY <1>1, <1>t, <3>3, <3>6 DEF RecordOrdered, HandStands
    <3>8. CallOrdered(next)'
      BY <1>1, <1>5, <2>2, <3>1, <3>3 DEF CallOrdered, Persisting, Reservation
    <3> QED
      BY <1>6, <2>3, <3>5, <3>7, <3>8
  <2>4. CASE GGo(c, GRest) /\ BetRefused(r.round) /\ unfunded' = unfunded \cup {r.round}
    <3>1. wallet' = wallet
      BY <2>4 DEF BetRefused
    <3>2. \A s : Paid(s) => Paid(s)'
      BY <2>4, <3>1, PaidStays
    <3>3. Paid(r)'
      BY <2>4 DEF Paid
    <3>4. \A i \in DOMAIN gresults' : Paid(gresults[i])' \/ Pays1(GRest, gresults'[i])
      <4> SUFFICES ASSUME NEW i \in DOMAIN gresults
                   PROVE  Paid(gresults[i])'
        BY <2>1
      <4>1. PICK s : s = gresults[i]
        OBVIOUS
      <4>2. Paid(s)'
        BY <1>3, <1>4, <3>2, <3>3, <4>1 DEF Pays1
      <4> QED
        BY <2>1, <4>1, <4>2 DEF Paid
    <3>5. RecordOrdered'
      BY <1>1, <1>t, <3>1 DEF RecordOrdered, HandStands
    <3> QED
      BY <1>6, <2>4, <3>4, <3>5, RestOrdered
  <2> QED
    BY <1>4, <1>10, <2>1, <2>2, <2>3, <2>4 DEF StakeRound
<1>11. CASE SettleRound(c) \/ SettleRoundFails(c)
  <2>1. /\ gcall[c].step = "settle" /\ gresults' = gresults /\ unfunded' = unfunded
        /\ GGo(c, GRest)
        /\ SettleBet(r.round, r.win) \/ SettleBetFails(r.round, r.win)
        /\ r.round \in DOMAIN wallet /\ wallet[r.round] = Reservation(r.stake)
    BY <1>4, <1>5, <1>11 DEF SettleRound, SettleRoundFails
  <2>2. PICK x : /\ wallet' = [wallet EXCEPT ![r.round] = x]
                 /\ x.stake = r.stake /\ IF x.open THEN x.failed ELSE x.win = r.win
    <3>1. PICK w, y : w = Reservation(r.stake) /\ y = committed(w, r.win)
      OBVIOUS
    <3>2. w = [stake |-> r.stake, win |-> 0, open |-> TRUE, failed |-> FALSE]
      BY <3>1 DEF Reservation
    <3>3. DOMAIN y = {"stake", "win", "open", "failed"} /\ y.stake = r.stake /\ y.win = r.win /\ y.open = FALSE
      <4>1. w.open /\ DOMAIN w = {"stake", "win", "open", "failed"} /\ w.stake = r.stake
        BY <3>2
      <4>2. y = [w EXCEPT !.win = r.win, !.open = FALSE]
        BY <3>1, <4>1 DEF committed
      <4>3. PICK n : n = r.win
        OBVIOUS
      <4> QED
        BY <4>1, <4>2, <4>3
    <3>4. CASE SettleBet(r.round, r.win)
      <4>1. PICK x : x = [y EXCEPT !.failed = FALSE]
        OBVIOUS
      <4>2. x.stake = r.stake /\ IF x.open THEN x.failed ELSE x.win = r.win
        BY <3>3, <4>1
      <4>3. wallet' = [wallet EXCEPT ![r.round] = x]
        BY <2>1, <3>1, <3>4, <4>1 DEF SettleBet
      <4> QED
        BY <4>2, <4>3
    <3>5. CASE SettleBetFails(r.round, r.win)
      <4>1. PICK v \in {w, y} : wallet' = [wallet EXCEPT ![r.round] = [v EXCEPT !.failed = TRUE]]
        BY <2>1, <3>1, <3>5 DEF SettleBetFails
      <4>2. PICK x : x = [v EXCEPT !.failed = TRUE]
        OBVIOUS
      <4>3. x.stake = r.stake /\ IF x.open THEN x.failed ELSE x.win = r.win
        BY <3>2, <3>3, <4>2
      <4> QED
        BY <4>1, <4>2, <4>3
    <3> QED
      BY <2>1, <3>4, <3>5
  <2>3. /\ DOMAIN wallet' = DOMAIN wallet /\ wallet'[r.round] = x
        /\ \A j \in DOMAIN wallet : j # r.round => wallet'[j] = wallet[j]
    BY <2>1, <2>2
  <2>w. \A j \in DOMAIN wallet : (wallet[j].open => wallet[j].failed) =>
          j \in DOMAIN wallet' /\ wallet'[j] = wallet[j]
    BY <2>1, <2>3 DEF Reservation
  <2>4. \A s : Paid(s) => Paid(s)'
    BY <2>1, <2>w, PaidStays
  <2>5. Paid(r)'
    BY <2>1, <2>2, <2>3 DEF Paid
  <2>6. \A i \in DOMAIN gresults' : Paid(gresults[i])' \/ Pays1(GRest, gresults'[i])
    <3> SUFFICES ASSUME NEW i \in DOMAIN gresults
                 PROVE  Paid(gresults[i])'
      BY <2>1
    <3>1. PICK s : s = gresults[i]
      OBVIOUS
    <3>2. Paid(s)'
      BY <1>3, <1>4, <2>4, <2>5, <3>1 DEF Pays1
    <3> QED
      BY <2>1, <3>1, <3>2 DEF Paid
  <2>7. RecordOrdered'
    BY <1>1, <1>t, <2>3 DEF RecordOrdered, HandStands
  <2> QED
    BY <1>6, <2>1, <2>6, <2>7, RestOrdered
<1> QED
  BY <1>8, <1>9, <1>10, <1>11

LEMMA OrderedStep == PaysTyped /\ TableInv /\ [TableNext]_gvars => TableInv'
<1> SUFFICES ASSUME PaysTyped, TableInv, [TableNext]_gvars PROVE TableInv'
  OBVIOUS
<1>1. TableTyped' /\ OneAtATime'
  BY TypedStep, OneAtATimeStep DEF TableInv
<1>2. CASE UNCHANGED gvars
  BY <1>1, <1>2 DEF gvars, TableInv, Ordered, Apart, RecordOrdered, HandStands, PaidOrPaying,
     Paid, Pays1, CallOrdered, Reservation
<1>3. ASSUME NEW c \in GCalls,
             \/ Write(c) \/ WriteBust(c) \/ FinishRound(c)
             \/ RecordResult(c) \/ Tally(c) \/ StakeRound(c)
             \/ SettleRound(c) \/ SettleRoundFails(c)
             \/ CompleteSession(c) \/ Delete(c)
      PROVE  goverlapped' = goverlapped /\ opened' = opened
  BY <1>3 DEF Write, WriteBust, FinishRound, RecordResult, Tally, StakeRound, SettleRound,
     SettleRoundFails, CompleteSession, Delete
<1>4. CASE ~Apart'
  BY <1>1, <1>4 DEF TableInv, Ordered
<1>5. CASE Apart' /\ TableNext
  <2>1. PICK c \in GCalls :
          \/ Play(c) \/ Deal(c) \/ Hit(c) \/ Stand(c) \/ EndTable(c)
          \/ Write(c) \/ WriteBust(c) \/ FinishRound(c)
          \/ RecordResult(c) \/ Tally(c) \/ StakeRound(c)
          \/ SettleRound(c) \/ SettleRoundFails(c)
          \/ CompleteSession(c) \/ Delete(c)
    BY <1>5 DEF TableNext
  <2>2. CASE Play(c) \/ Deal(c) \/ Hit(c) \/ Stand(c) \/ EndTable(c)
    BY <1>1, <1>5, <2>2, BeginOrdered DEF TableInv
  <2>3. CASE Write(c) \/ WriteBust(c) \/ FinishRound(c) \/ CompleteSession(c) \/ Delete(c)
    BY <1>1, <1>3, <1>5, <2>3, ProceedOrdered DEF TableInv, Apart
  <2>4. CASE RecordResult(c) \/ Tally(c) \/ StakeRound(c) \/ SettleRound(c) \/ SettleRoundFails(c)
    BY <1>1, <1>3, <1>5, <2>4, PersistOrdered DEF TableInv, Apart
  <2> QED
    BY <2>1, <2>2, <2>3, <2>4
<1> QED
  BY <1>2, <1>4, <1>5

LEMMA InvInit == TableInit => TableInv
<1> SUFFICES ASSUME TableInit PROVE TableInv
  OBVIOUS
<1>1. /\ \A c \in GCalls : gcall[c] = GRest
      /\ grecord.hand = NoHand
      /\ DOMAIN wallet = {} /\ DOMAIN gresults = {}
  BY DEF TableInit, NoMoves
<1>2. RecordOrdered /\ PaidOrPaying
  BY <1>1 DEF RecordOrdered, HandStands, PaidOrPaying
<1>3. \A c \in GCalls : CallOrdered(gcall[c])
  BY <1>1, RestOrdered
<1> QED
  BY <1>1, <1>2, <1>3, TypedInit DEF TableInv, OneAtATime, Ordered

(* Played one call after another, every round that was recorded is settled   *)
(* with the very stake and win of its result, unless its stake was refused   *)
(* or its settlement failed, which may leave it open, but not settled with   *)
(* something else (persistResult after the record with the next nonce was    *)
(* written; settleImmediate, which throws on).                               *)
THEOREM RecordedCorrect ==
  ASSUME PaysTyped
  PROVE  TableSpec => []RecordedIsPaid
<1>1. ASSUME TableInv PROVE RecordedIsPaid
  <2> SUFFICES ASSUME TableQuiet, Apart, NEW i \in DOMAIN gresults
               PROVE  Paid(gresults[i])
    BY DEF RecordedIsPaid, Apart, Paid
  <2>1. PaidOrPaying
    BY <1>1 DEF TableInv, Ordered
  <2> QED
    BY <2>1, RestOrdered DEF PaidOrPaying, TableQuiet
<1> QED
  BY <1>1, InvInit, OrderedStep, PTL DEF TableSpec
-----------------------------------------------------------------------------
(* The totals: what they lack is with the calls about to add it.             *)
Field == {"stake", "win"}

LEMMA FieldTyped == \A r \in RoundResult, field \in Field : r[field] \in Nat
<1>1. \A r \in RoundResult : r.stake \in Nat /\ r.win \in Nat
  BY GameTableAssumption DEF RoundResult
<1>2. \A r \in RoundResult : r["stake"] \in Nat /\ r["win"] \in Nat
  BY <1>1
<1> QED
  BY <1>2 DEF Field

LEMMA SumsTyped ==
  ASSUME TableTyped, NEW field \in Field
  PROVE  /\ IsFiniteSet(Untallied) /\ IsFiniteSet(DOMAIN gresults)
         /\ Untallied \subseteq GCalls
         /\ \A c \in Untallied : gcall[c].result \in RoundResult /\ toCome(field)[c] \in Int
         /\ \A i \in DOMAIN gresults : gresults[i] \in RoundResult /\ ofResults(field)[i] \in Int
         /\ SumFunctionOnSet(toCome(field), Untallied) \in Int
         /\ SumFunctionOnSet(ofResults(field), DOMAIN gresults) \in Int
         /\ Cardinality(Untallied) \in Nat
<1>1. IsFiniteSet(Untallied) /\ Untallied \subseteq GCalls
  BY GameTableFinite, FS_Subset DEF Untallied
<1>2. IsFiniteSet(DOMAIN gresults)
  <2>1. gresults \in Seq(RoundResult)
    BY DEF TableTyped
  <2>2. DOMAIN gresults = 1 .. Len(gresults) /\ Len(gresults) \in Nat
    BY <2>1
  <2> QED
    BY <2>2, FS_Interval
<1>3. \A c \in Untallied : gcall[c].result \in RoundResult
  BY Persists DEF Untallied, Persisting
<1>4. \A c \in Untallied : toCome(field)[c] \in Int
  BY <1>3, FieldTyped DEF toCome
<1>5. \A i \in DOMAIN gresults : gresults[i] \in RoundResult
  BY DEF TableTyped
<1>6. \A i \in DOMAIN gresults : ofResults(field)[i] \in Int
  BY <1>5, FieldTyped DEF ofResults
<1> QED
  BY <1>1, <1>2, <1>3, <1>4, <1>5, <1>6, SumIsInt, FS_CardinalityType

(* A step that writes no result and counts none.                             *)
LEMMA AccountKept ==
  ASSUME TableTyped, NEW field \in Field, NEW total, Accounted(field, total),
         gresults' = gresults, Untallied' = Untallied,
         \A c \in Untallied : gcall'[c] = gcall[c]
  PROVE  Accounted(field, total)'
<1>1. \A c \in Untallied : toCome(field)'[c] = toCome(field)[c]
  BY DEF toCome
<1>2. SumFunctionOnSet(toCome(field)', Untallied') = SumFunctionOnSet(toCome(field), Untallied)
  BY <1>1, SumsTyped, SumSame
<1>3. ofResults(field)' = ofResults(field)
  BY DEF ofResults
<1> QED
  BY <1>2, <1>3 DEF Accounted

LEMMA AccountRecorded ==
  ASSUME TableTyped, NEW field \in Field, NEW total \in Nat, Accounted(field, total),
         NEW c \in GCalls, RecordResult(c)
  PROVE  Accounted(field, total)'
<1>1. PICK r, next : r = gcall[c].result /\ next = [gcall[c] EXCEPT !.step = "tally"]
  OBVIOUS
<1>2. /\ GGo(c, next) /\ gresults' = Append(gresults, r) /\ gcall[c].step = "record"
  BY <1>1 DEF RecordResult
<1>3. next.step = "tally" /\ next.result = r /\ r \in RoundResult
  BY <1>1, <1>2, Persists DEF Persisting
<1>4. /\ gcall'[c] = next /\ DOMAIN gcall' = GCalls
      /\ \A d \in GCalls : d # c => gcall'[d] = gcall[d]
  BY <1>2, GoesTo DEF TableTyped
<1>5. /\ Untallied' = Untallied \cup {c} /\ c \notin Untallied
      /\ \A d \in Untallied : gcall'[d] = gcall[d]
  BY <1>2, <1>3, <1>4 DEF Untallied
<1>6. r[field] \in Int
  BY <1>3, FieldTyped
<1>7. SumFunctionOnSet(toCome(field)', Untallied') =
        SumFunctionOnSet(toCome(field), Untallied) + r[field]
  <2>1. PICK f, g, S : f = toCome(field) /\ g = toCome(field)' /\ S = Untallied
    OBVIOUS
  <2>2. (\A d \in S : g[d] = f[d]) /\ g[c] = r[field]
    BY <1>3, <1>4, <1>5, <2>1 DEF toCome
  <2>3. IsFiniteSet(S) /\ c \notin S /\ \A d \in S \cup {c} : g[d] \in Int
    BY <1>5, <1>6, <2>1, <2>2, SumsTyped
  <2>4. SumFunctionOnSet(g, S \cup {c}) = SumFunctionOnSet(g, S) + g[c]
    BY <2>3, SumWith
  <2>5. SumFunctionOnSet(g, S) = SumFunctionOnSet(f, S)
    BY <2>2, <2>3, SumSame
  <2> QED
    BY <1>5, <2>1, <2>2, <2>4, <2>5
<1>8. SumFunctionOnSet(ofResults(field)', DOMAIN gresults') =
        SumFunctionOnSet(ofResults(field), DOMAIN gresults) + r[field]
  <2>1. PICK f, g, S, n : /\ f = ofResults(field) /\ g = ofResults(field)'
                          /\ S = DOMAIN gresults /\ n = Len(gresults) + 1
    OBVIOUS
  <2>2. gresults \in Seq(RoundResult)
    BY DEF TableTyped
  <2>3. /\ DOMAIN gresults' = S \cup {n} /\ n \notin S
        /\ gresults'[n] = r
        /\ \A i \in S : gresults'[i] = gresults[i]
    BY <1>2, <1>3, <2>1, <2>2
  <2>4. (\A i \in S : g[i] = f[i]) /\ g[n] = r[field]
    BY <2>1, <2>3 DEF ofResults
  <2>5. IsFiniteSet(S) /\ \A i \in S \cup {n} : g[i] \in Int
    BY <1>6, <2>1, <2>4, SumsTyped
  <2>6. SumFunctionOnSet(g, S \cup {n}) = SumFunctionOnSet(g, S) + g[n]
    BY <2>3, <2>5, SumWith
  <2>7. SumFunctionOnSet(g, S) = SumFunctionOnSet(f, S)
    BY <2>4, <2>5, SumSame
  <2> QED
    BY <2>1, <2>3, <2>4, <2>6, <2>7
<1>9. PICK a, b : /\ a = SumFunctionOnSet(toCome(field), Untallied)
                  /\ b = SumFunctionOnSet(ofResults(field), DOMAIN gresults)
  OBVIOUS
<1>10. a \in Int /\ b \in Int /\ total + a = b
  BY <1>9, SumsTyped DEF Accounted
<1>11. total + (a + r[field]) = b + r[field]
  BY <1>6, <1>10
<1> QED
  BY <1>7, <1>8, <1>9, <1>11 DEF Accounted

LEMMA AccountTallied ==
  ASSUME TableTyped, NEW field \in Field, NEW total \in Nat, Accounted(field, total),
         NEW c \in GCalls, Tally(c), NEW x, x = gcall[c].result[field]
  PROVE  Accounted(field, total + x)'
<1>1. PICK r, next : r = gcall[c].result /\ next = [gcall[c] EXCEPT !.step = "reserve"]
  OBVIOUS
<1>2. /\ GGo(c, next) /\ gresults' = gresults /\ gcall[c].step = "tally"
  BY <1>1 DEF Tally
<1>3. next.step = "reserve" /\ r \in RoundResult
  BY <1>1, <1>2, Persists DEF Persisting
<1>4. /\ gcall'[c] = next /\ DOMAIN gcall' = GCalls
      /\ \A d \in GCalls : d # c => gcall'[d] = gcall[d]
  BY <1>2, GoesTo DEF TableTyped
<1>5. /\ Untallied' = Untallied \ {c} /\ c \in Untallied
      /\ \A d \in Untallied' : gcall'[d] = gcall[d]
  BY <1>2, <1>3, <1>4 DEF Untallied
<1>6. x \in Int /\ x = r[field]
  BY <1>1, <1>3, FieldTyped
<1>7. /\ SumFunctionOnSet(toCome(field), Untallied)
           = x + SumFunctionOnSet(toCome(field)', Untallied')
      /\ SumFunctionOnSet(toCome(field)', Untallied') \in Int
  <2>1. PICK f, g, S, T : /\ f = toCome(field) /\ g = toCome(field)'
                          /\ S = Untallied /\ T = Untallied \ {c}
    OBVIOUS
  <2>2. (\A d \in T : g[d] = f[d]) /\ f[c] = x
    BY <1>1, <1>5, <1>6, <2>1 DEF toCome
  <2>3. IsFiniteSet(S) /\ c \in S /\ \A d \in S : f[d] \in Int
    BY <1>5, <2>1, SumsTyped
  <2>4. IsFiniteSet(T) /\ T = S \ {c}
    BY <2>1, <2>3, FS_Subset
  <2>5. SumFunctionOnSet(f, S) = f[c] + SumFunctionOnSet(f, S \ {c})
    BY <2>3, SumWithout
  <2>6. SumFunctionOnSet(g, T) = SumFunctionOnSet(f, T)
    BY <2>2, <2>4, SumSame
  <2>7. \A d \in T : g[d] \in Int
    BY <2>2, <2>3, <2>4
  <2>8. SumFunctionOnSet(g, T) \in Int
    BY <2>4, <2>7, SumIsInt
  <2> QED
    BY <1>5, <2>1, <2>2, <2>4, <2>5, <2>6, <2>8
<1>8. ofResults(field)' = ofResults(field)
  BY <1>2 DEF ofResults
<1>9. PICK a, b, e : /\ a = SumFunctionOnSet(toCome(field), Untallied)
                     /\ b = SumFunctionOnSet(ofResults(field), DOMAIN gresults)
                     /\ e = SumFunctionOnSet(toCome(field)', Untallied')
  OBVIOUS
<1>10. b \in Int /\ total + a = b /\ a = x + e /\ e \in Int
  BY <1>7, <1>9, SumsTyped DEF Accounted
<1>11. (total + x) + e = b
  BY <1>6, <1>10
<1>12. SumFunctionOnSet(ofResults(field)', DOMAIN gresults') = b
  BY <1>2, <1>8, <1>9
<1> QED
  BY <1>9, <1>11, <1>12 DEF Accounted

RoundsCounted == gsession.rounds + Cardinality(Untallied) = Len(gresults)

Totalled ==
  /\ RoundsCounted
  /\ Accounted("stake", gsession.bet)
  /\ Accounted("win", gsession.win)

(* A step that leaves results and sums alone.                                *)
LEMMA TotalsKept ==
  ASSUME TableTyped, Totalled, gresults' = gresults, Untallied' = Untallied,
         \A c \in Untallied : gcall'[c] = gcall[c],
         gsession'.rounds = gsession.rounds, gsession'.bet = gsession.bet,
         gsession'.win = gsession.win
  PROVE  Totalled'
<1>1. PICK b, w : b = gsession.bet /\ w = gsession.win
  OBVIOUS
<1>2. Accounted("stake", b)' /\ Accounted("win", w)'
  BY <1>1, AccountKept DEF Totalled, Field
<1>3. RoundsCounted'
  BY DEF Totalled, RoundsCounted
<1> QED
  BY <1>1, <1>2, <1>3 DEF Totalled, Accounted

LEMMA TotalsStep == PaysTyped /\ TableTyped /\ Totalled /\ [TableNext]_gvars => Totalled'
<1> SUFFICES ASSUME PaysTyped, TableTyped, Totalled, [TableNext]_gvars PROVE Totalled'
  OBVIOUS
<1>0. PICK n, b, w : n = gsession.rounds /\ b = gsession.bet /\ w = gsession.win
  OBVIOUS
<1>t. n \in Nat /\ b \in Nat /\ w \in Nat
  BY <1>0 DEF TableTyped
<1>1. ASSUME NEW c \in GCalls, NEW next, GGo(c, next),
             gcall[c].step # "tally", next.step # "tally", gresults' = gresults,
             gsession'.rounds = n, gsession'.bet = b, gsession'.win = w
      PROVE  Totalled'
  <2>1. /\ gcall'[c] = next /\ DOMAIN gcall' = GCalls
        /\ \A d \in GCalls : d # c => gcall'[d] = gcall[d]
    BY <1>1, GoesTo DEF TableTyped
  <2>2. Untallied' = Untallied /\ \A d \in Untallied : gcall'[d] = gcall[d]
    BY <1>1, <2>1 DEF Untallied
  <2> QED
    BY <1>0, <1>1, <2>2, TotalsKept
<1>2. CASE UNCHANGED gvars
  <2>1. Untallied' = Untallied
    BY <1>2 DEF gvars, Untallied
  <2> QED
    BY <1>2, <2>1, TotalsKept DEF gvars
<1>3. ASSUME NEW c \in GCalls, NEW next, Reads(c, next), next.step # "tally"
      PROVE  Totalled'
  BY <1>0, <1>1, <1>3 DEF Reads, GRest
<1>4. ASSUME NEW c \in GCalls, Play(c) \/ Deal(c) \/ Hit(c) \/ Stand(c) PROVE Totalled'
  <2>1. \E next : Reads(c, next) /\ next.step # "tally"
    BY <1>4, PlayReads, HandReads, StandReads
  <2> QED
    BY <1>3, <2>1
<1>5. ASSUME NEW c \in GCalls, EndTable(c) PROVE Totalled'
  <2>1. PICK next : next = [step |-> "complete"]
    OBVIOUS
  <2> QED
    BY <1>3, <1>5, <2>1 DEF EndTable
<1>6. ASSUME NEW c \in GCalls, Write(c) \/ SettleRound(c) \/ SettleRoundFails(c) \/ Delete(c)
      PROVE  Totalled'
  BY <1>0, <1>1, <1>6 DEF Write, SettleRound, SettleRoundFails, Delete, GRest
<1>7. ASSUME NEW c \in GCalls, WriteBust(c) PROVE Totalled'
  <2>1. PICK next : GGo(c, next) /\ next.step = "finish"
    BY <1>7, BustGoes
  <2> QED
    BY <1>0, <1>1, <1>7, <2>1 DEF WriteBust
<1>8. ASSUME NEW c \in GCalls, FinishRound(c) PROVE Totalled'
  <2>1. PICK next : next = IF opened.bound THEN [step |-> "record", result |-> gcall[c].result]
                           ELSE GRest
    OBVIOUS
  <2>2. GGo(c, next) /\ next.step # "tally"
    BY <1>8, <2>1 DEF FinishRound, GRest
  <2> QED
    BY <1>0, <1>1, <1>8, <2>2 DEF FinishRound
<1>9. ASSUME NEW c \in GCalls, StakeRound(c) PROVE Totalled'
  <2>1. PICK next : next = [gcall[c] EXCEPT !.step = "settle"]
    OBVIOUS
  <2>2. next.step = "settle" /\ gcall[c].step = "reserve"
    BY <1>9, <2>1, Persists DEF StakeRound, Persisting
  <2>3. GGo(c, next) \/ GGo(c, GRest)
    BY <1>9, <2>1 DEF StakeRound
  <2> QED
    BY <1>0, <1>1, <1>9, <2>2, <2>3 DEF StakeRound, GRest
<1>10. ASSUME NEW c \in GCalls, CompleteSession(c) PROVE Totalled'
  <2>1. PICK next : next = [step |-> "delete"]
    OBVIOUS
  <2>2. GGo(c, next) /\ next.step = "delete"
    BY <1>10, <2>1 DEF CompleteSession
  <2>3. gsession'.rounds = n /\ gsession'.bet = b /\ gsession'.win = w
    BY <1>0, <1>10 DEF CompleteSession, TableTyped
  <2> QED
    BY <1>1, <1>10, <2>2, <2>3 DEF CompleteSession
<1>11. ASSUME NEW c \in GCalls, RecordResult(c) PROVE Totalled'
  <2>1. gsession' = gsession
    BY <1>11 DEF RecordResult
  <2>2. Accounted("stake", b)' /\ Accounted("win", w)'
    BY <1>0, <1>t, <1>11, AccountRecorded DEF Totalled, Field
  <2>3. RoundsCounted'
    <3>1. PICK r, next : r = gcall[c].result /\ next = [gcall[c] EXCEPT !.step = "tally"]
      OBVIOUS
    <3>2. /\ GGo(c, next) /\ gresults' = Append(gresults, r) /\ gcall[c].step = "record"
          /\ gresults \in Seq(RoundResult) /\ r \in RoundResult /\ next.step = "tally"
      BY <1>11, <3>1, Persists DEF RecordResult, Persisting, TableTyped
    <3>3. /\ gcall'[c] = next /\ DOMAIN gcall' = GCalls
          /\ \A d \in GCalls : d # c => gcall'[d] = gcall[d]
      BY <3>2, GoesTo DEF TableTyped
    <3>4. Untallied' = Untallied \cup {c} /\ c \notin Untallied
      BY <3>2, <3>3 DEF Untallied
    <3>5. Cardinality(Untallied') = Cardinality(Untallied) + 1 /\ Cardinality(Untallied) \in Nat
      BY <3>4, SumsTyped, FS_AddElement DEF Field
    <3>6. Len(gresults') = Len(gresults) + 1 /\ Len(gresults) \in Nat
      BY <3>2
    <3> QED
      BY <1>0, <1>t, <2>1, <3>5, <3>6 DEF Totalled, RoundsCounted
  <2> QED
    BY <1>0, <2>1, <2>2, <2>3 DEF Totalled, Accounted
<1>12. ASSUME NEW c \in GCalls, Tally(c) PROVE Totalled'
  <2>1. PICK r, next, x, y : /\ r = gcall[c].result /\ next = [gcall[c] EXCEPT !.step = "reserve"]
                             /\ x = r["stake"] /\ y = r["win"]
    OBVIOUS
  <2>2. /\ GGo(c, next) /\ gresults' = gresults /\ gcall[c].step = "tally"
        /\ r \in RoundResult /\ next.step = "reserve"
        /\ gsession' = tally(gsession, r)
    BY <1>12, <2>1, Persists DEF Tally, Persisting
  <2>3. Accounted("stake", b + x)' /\ Accounted("win", w + y)'
    BY <1>0, <1>t, <1>12, <2>1, AccountTallied DEF Totalled, Field
  <2>4. gsession'.rounds = n + 1 /\ gsession'.bet = b + x /\ gsession'.win = w + y
    BY <1>0, <2>1, <2>2 DEF tally, TableTyped
  <2>5. RoundsCounted'
    <3>1. /\ gcall'[c] = next /\ DOMAIN gcall' = GCalls
          /\ \A d \in GCalls : d # c => gcall'[d] = gcall[d]
      BY <2>2, GoesTo DEF TableTyped
    <3>2. Untallied' = Untallied \ {c} /\ c \in Untallied
      BY <2>2, <3>1 DEF Untallied
    <3>3. Cardinality(Untallied') = Cardinality(Untallied) - 1 /\ Cardinality(Untallied) \in Nat
      BY <3>2, SumsTyped, FS_RemoveElement DEF Field
    <3> QED
      BY <1>0, <1>t, <2>2, <2>4, <3>3 DEF Totalled, RoundsCounted
  <2> QED
    BY <2>3, <2>4, <2>5 DEF Totalled, Accounted
<1> QED
  BY <1>2, <1>4, <1>5, <1>6, <1>7, <1>8, <1>9, <1>10, <1>11, <1>12 DEF TableNext

(* The totals of a session are those of its results, however calls overlap,  *)
(* but for what is on its way from the one to the other (persistResult).     *)
THEOREM TableTotalsCorrect ==
  ASSUME PaysTyped
  PROVE  TableSpec => []TotalsFollowResults
<1>1. ASSUME TableInit PROVE Totalled
  <2>1. Untallied = {} /\ DOMAIN gresults = {} /\ Len(gresults) = 0
    BY <1>1 DEF TableInit, Untallied, GRest
  <2>2. gsession.rounds = 0 /\ gsession.bet = 0 /\ gsession.win = 0
    BY <1>1 DEF TableInit
  <2> QED
    BY <2>1, <2>2, SumOfNothing, FS_EmptySet DEF Totalled, RoundsCounted, Accounted
<1>2. Totalled => TotalsFollowResults
  BY DEF Totalled, RoundsCounted, TotalsFollowResults
<1> QED
  BY <1>1, <1>2, TypedAlways, TotalsStep, PTL DEF TableSpec
-----------------------------------------------------------------------------
(* The runtimes of a session.  What the variables hold; a runtime that is    *)
(* being started or destroyed is one call's, and not hosted.                 *)
RuntimeObject == [status : LifecycleStatuses, listeners : {0, 1}]

Call == [step : {"idle", "start", "load", "advance", "join", "act", "destroy", "forget"},
         then : {"idle", "join", "act", "forget"}, runtime : Nat]

RuntimeTyped ==
  /\ exists \in BOOLEAN /\ broadcasting \in BOOLEAN /\ disturbed \in BOOLEAN
  /\ runtimes \in Seq(RuntimeObject)
  /\ hosted \in 0 .. Len(runtimes)
  /\ hcall \in [HCalls -> Call]
  /\ \A c \in HCalls :
       hcall[c].step \in {"start", "load", "advance"} => hcall[c].then \in {"join", "act"}

Starting(c) == hcall[c].step = "advance"

WorksOnRuntime(c) == hcall[c].step \in {"advance", "destroy"}

RuntimesApart ==
  /\ \A c \in HCalls :
       WorksOnRuntime(c) => hcall[c].runtime \in DOMAIN runtimes /\ hcall[c].runtime # hosted
  /\ \A c \in HCalls : Starting(c) => runtimes[hcall[c].runtime].status \in DOMAIN TRANSITIONS
  /\ \A c, d \in HCalls :
       Starting(c) /\ WorksOnRuntime(d) /\ hcall[c].runtime = hcall[d].runtime => c = d

HostedRuns == hosted # 0 => runtimes[hosted].status = "RUNNING"

(* Listeners are attached once per session.                                  *)
HeardOnce == ~broadcasting => \A r \in DOMAIN runtimes : runtimes[r].listeners = 0

(* As long as starts did not overlap and nothing was stopped.                *)
Undisturbed ==
  ~disturbed =>
    /\ \A c \in HCalls : hcall[c].step # "destroy"
    /\ \A c, d \in HCalls : isStarting(c) /\ isStarting(d) => c = d
    /\ \A c \in HCalls : isStarting(c) => hosted = 0
    /\ \A c \in HCalls : hcall[c].step \in {"join", "act"} => hosted # 0
    /\ broadcasting => hosted # 0 /\ runtimes[hosted].listeners = 1
    /\ \A r \in DOMAIN runtimes : runtimes[r].status = "RUNNING" => r = hosted

RuntimeInv == RuntimeTyped /\ RuntimesApart /\ HostedRuns /\ HeardOnce /\ Undisturbed

(* A runtime that is being started is in a status with a next one.           *)
LEMMA Lifecycle ==
  /\ LifecycleStatuses = {"IDLE", "INITIALIZING", "LOADING_CONFIG", "LOADING_ASSETS", "READY",
                          "STARTING", "RUNNING", "ERROR", "DESTROYED"}
  /\ DOMAIN TRANSITIONS = {"IDLE", "INITIALIZING", "LOADING_CONFIG", "LOADING_ASSETS", "READY",
                           "STARTING"}
  /\ \A s \in DOMAIN TRANSITIONS :
       /\ TRANSITIONS[s] \in (DOMAIN TRANSITIONS \cup {"RUNNING"})
       /\ canMove(s, TRANSITIONS[s]) /\ canMove(s, "ERROR")
<1>1. DOMAIN TRANSITIONS = {"IDLE", "INITIALIZING", "LOADING_CONFIG", "LOADING_ASSETS", "READY",
                            "STARTING"}
  BY DEF TRANSITIONS
<1>2. /\ TRANSITIONS["IDLE"] = "INITIALIZING"
      /\ TRANSITIONS["INITIALIZING"] = "LOADING_CONFIG"
      /\ TRANSITIONS["LOADING_CONFIG"] = "LOADING_ASSETS"
      /\ TRANSITIONS["LOADING_ASSETS"] = "READY"
      /\ TRANSITIONS["READY"] = "STARTING"
      /\ TRANSITIONS["STARTING"] = "RUNNING"
  BY DEF TRANSITIONS
<1>3. \A s \in DOMAIN TRANSITIONS : TRANSITIONS[s] \in (DOMAIN TRANSITIONS \cup {"RUNNING"})
  BY <1>1, <1>2
<1>4. \A s \in DOMAIN TRANSITIONS : canMove(s, TRANSITIONS[s]) /\ canMove(s, "ERROR")
  BY <1>1 DEF canMove
<1>5. LifecycleStatuses = {"IDLE", "INITIALIZING", "LOADING_CONFIG", "LOADING_ASSETS", "READY",
                           "STARTING", "RUNNING", "ERROR", "DESTROYED"}
  BY <1>1 DEF LifecycleStatuses
<1> QED
  BY <1>1, <1>3, <1>4, <1>5

LEMMA CallGoes ==
  ASSUME RuntimeTyped, NEW c \in HCalls, NEW next \in Call, HGo(c, next),
         next.step \in {"start", "load", "advance"} => next.then \in {"join", "act"}
  PROVE  /\ hcall' \in [HCalls -> Call]
         /\ hcall'[c] = next
         /\ \A d \in HCalls : d # c => hcall'[d] = hcall[d]
         /\ \A d \in HCalls :
              hcall'[d].step \in {"start", "load", "advance"} => hcall'[d].then \in {"join", "act"}
  BY DEF HGo, RuntimeTyped

(* The status of a runtime that is being started moves.                      *)
LEMMA Moves ==
  ASSUME RuntimeTyped, NEW r \in DOMAIN runtimes, NEW to \in LifecycleStatuses, move(r, to),
         canMove(runtimes[r].status, to)
  PROVE  /\ runtimes' \in Seq(RuntimeObject) /\ Len(runtimes') = Len(runtimes)
         /\ DOMAIN runtimes' = DOMAIN runtimes
         /\ runtimes'[r].status = to /\ runtimes'[r].listeners = runtimes[r].listeners
         /\ \A q \in DOMAIN runtimes : q # r => runtimes'[q] = runtimes[q]
<1>1. PICK o : o = [runtimes[r] EXCEPT !.status = to]
  OBVIOUS
<1>2. runtimes \in Seq(RuntimeObject) /\ runtimes[r] \in RuntimeObject
  BY DEF RuntimeTyped
<1>3. o \in RuntimeObject /\ o.status = to /\ o.listeners = runtimes[r].listeners
  BY <1>1, <1>2 DEF RuntimeObject
<1>4. runtimes' = [runtimes EXCEPT ![r] = o]
  BY <1>1, <1>2 DEF move
<1> QED
  BY <1>2, <1>3, <1>4

LEMMA RuntimeInit1 == RuntimeInit => RuntimeInv
<1> SUFFICES ASSUME RuntimeInit PROVE RuntimeInv
  OBVIOUS
<1>1. /\ \A c \in HCalls : hcall[c] = HRest
      /\ DOMAIN runtimes = {} /\ Len(runtimes) = 0 /\ hosted = 0
      /\ broadcasting = FALSE /\ disturbed = FALSE
  BY DEF RuntimeInit
<1>2. HRest \in Call /\ HRest.step = "idle"
  BY DEF HRest, Call
<1>3. hcall \in [HCalls -> Call]
  BY <1>2 DEF RuntimeInit
<1>4. runtimes \in Seq(RuntimeObject) /\ hosted \in 0 .. Len(runtimes)
  <2>1. runtimes = <<>> /\ hosted = 0
    BY DEF RuntimeInit
  <2> QED
    BY <2>1
<1>6. exists \in BOOLEAN /\ broadcasting \in BOOLEAN /\ disturbed \in BOOLEAN
  BY DEF RuntimeInit
<1>5. RuntimeTyped
  BY <1>1, <1>2, <1>3, <1>4, <1>6 DEF RuntimeTyped
<1> QED
  BY <1>1, <1>2, <1>5 DEF RuntimeInv, RuntimesApart, HostedRuns, HeardOnce, Undisturbed, Starting,
     WorksOnRuntime, isStarting, HRest

(* A call goes on, and what is made and hosted stays as it is.               *)
LEMMA CallGoesOn ==
  ASSUME RuntimeInv, NEW c \in HCalls, NEW next \in Call, HGo(c, next),
         next.step \in {"idle", "start", "load", "join", "act", "forget"},
         next.step \in {"start", "load"} => next.then \in {"join", "act"},
         exists' \in BOOLEAN, UNCHANGED <<runtimes, hosted, broadcasting>>,
         disturbed' \in BOOLEAN, disturbed => disturbed',
         ~disturbed' /\ next.step = "load" => hosted = 0 /\ \A d \in HCalls : ~isStarting(d),
         ~disturbed' /\ next.step \in {"join", "act"} => hosted # 0
  PROVE  RuntimeInv'
<1>1. /\ hcall' \in [HCalls -> Call]
      /\ hcall'[c] = next
      /\ \A d \in HCalls : d # c => hcall'[d] = hcall[d]
      /\ \A d \in HCalls :
           hcall'[d].step \in {"start", "load", "advance"} => hcall'[d].then \in {"join", "act"}
  BY CallGoes DEF RuntimeInv
<1>2. RuntimeTyped'
  BY <1>1 DEF RuntimeInv, RuntimeTyped
<1>3. RuntimesApart'
  BY <1>1 DEF RuntimeInv, RuntimesApart, Starting, WorksOnRuntime
<1>4. HostedRuns' /\ HeardOnce'
  BY DEF RuntimeInv, HostedRuns, HeardOnce
<1>5. Undisturbed'
  <2> SUFFICES ASSUME ~disturbed' PROVE
        /\ \A d \in HCalls : hcall'[d].step # "destroy"
        /\ \A d, e \in HCalls : isStarting(d)' /\ isStarting(e)' => d = e
        /\ \A d \in HCalls : isStarting(d)' => hosted' = 0
        /\ \A d \in HCalls : hcall'[d].step \in {"join", "act"} => hosted' # 0
        /\ broadcasting' => hosted' # 0 /\ runtimes'[hosted'].listeners = 1
        /\ \A r \in DOMAIN runtimes' : runtimes'[r].status = "RUNNING" => r = hosted'
    BY DEF Undisturbed
  <2>1. ~disturbed
    BY DEF RuntimeInv, RuntimeTyped
  <2>2. /\ \A d \in HCalls : hcall[d].step # "destroy"
        /\ \A d, e \in HCalls : isStarting(d) /\ isStarting(e) => d = e
        /\ \A d \in HCalls : isStarting(d) => hosted = 0
        /\ \A d \in HCalls : hcall[d].step \in {"join", "act"} => hosted # 0
        /\ broadcasting => hosted # 0 /\ runtimes[hosted].listeners = 1
        /\ \A r \in DOMAIN runtimes : runtimes[r].status = "RUNNING" => r = hosted
    BY <2>1 DEF RuntimeInv, Undisturbed
  <2>3. isStarting(c)' => next.step = "load"
    BY <1>1 DEF isStarting
  <2>4. \A d \in HCalls : d # c => (isStarting(d)' <=> isStarting(d))
    BY <1>1 DEF isStarting
  <2> QED
    BY <1>1, <2>2, <2>3, <2>4
<1> QED
  BY <1>2, <1>3, <1>4, <1>5 DEF RuntimeInv

(* join and action begin.                                                    *)
LEMMA EntersStep ==
  ASSUME RuntimeInv, NEW c \in HCalls, Enter(c) PROVE RuntimeInv'
<1>0. PICK then \in {"join", "act"} : HGo(c, [step |-> "start", then |-> then, runtime |-> 0])
  BY DEF Enter
<1>1. PICK next : next = [step |-> "start", then |-> then, runtime |-> 0]
  OBVIOUS
<1>4. HGo(c, next)
  BY <1>0, <1>1
<1>2. next \in Call /\ next.step = "start" /\ next.then \in {"join", "act"}
  BY <1>1 DEF Call
<1>3. exists' \in BOOLEAN /\ disturbed' \in BOOLEAN
  BY DEF Enter, RuntimeInv, RuntimeTyped
<1> QED
  BY <1>4, <1>2, <1>3, CallGoesOn DEF Enter

(* The next step of a call, the rest of it unchanged.                        *)
LEMMA StepTyped ==
  ASSUME RuntimeTyped, NEW c \in HCalls,
         NEW next \in {"idle", "start", "load", "advance", "join", "act", "destroy", "forget"},
         HStep(c, next)
  PROVE  \E k \in Call : /\ HGo(c, k)
                         /\ k.step = next /\ k.then = hcall[c].then /\ k.runtime = hcall[c].runtime
<1>1. PICK k : k = [hcall[c] EXCEPT !.step = next]
  OBVIOUS
<1>2. hcall[c] \in Call
  BY DEF RuntimeTyped
<1>3. k \in Call /\ k.step = next /\ k.then = hcall[c].then /\ k.runtime = hcall[c].runtime
  BY <1>1, <1>2 DEF Call
<1> QED
  BY <1>1, <1>3 DEF HStep

(* start reads whether a runtime is hosted.                                  *)
LEMMA FindsStep ==
  ASSUME RuntimeInv, NEW c \in HCalls, FindRuntime(c) PROVE RuntimeInv'
<1> DEFINE next == IF isHosted THEN hcall[c].then ELSE "load"
<1>1. hcall[c] \in Call /\ hcall[c].then \in {"join", "act"} /\ hcall[c].step = "start"
  BY DEF FindRuntime, RuntimeInv, RuntimeTyped
<1>2. next \in {"load", "join", "act"} /\ (next = "load" => hosted = 0) /\ (next # "load" => hosted # 0)
  BY <1>1 DEF isHosted
<1>3. HStep(c, next)
  BY DEF FindRuntime
<1>4. PICK k \in Call : /\ HGo(c, k)
                        /\ k.step = next /\ k.then = hcall[c].then
  <2> HIDE DEF next
  <2> QED
    BY <1>2, <1>3, StepTyped DEF RuntimeInv
<1>5. disturbed' \in BOOLEAN /\ (disturbed => disturbed') /\ exists' \in BOOLEAN
  BY DEF FindRuntime, RuntimeInv, RuntimeTyped
<1>6. ~disturbed' /\ hosted = 0 => \A d \in HCalls : ~isStarting(d)
  BY DEF FindRuntime, isHosted
<1>7. UNCHANGED <<runtimes, hosted, broadcasting>>
  BY DEF FindRuntime
<1> HIDE DEF next
<1> QED
  BY <1>1, <1>2, <1>4, <1>5, <1>6, <1>7, CallGoesOn

LEMMA RestTyped == HRest \in Call /\ HRest.step = "idle"
  BY DEF HRest, Call

(* A call ends.                                                              *)
LEMMA CallEnds ==
  ASSUME RuntimeInv, NEW c \in HCalls, HEnd(c), exists' \in BOOLEAN,
         UNCHANGED <<runtimes, hosted, broadcasting, disturbed>>
  PROVE  RuntimeInv'
<1>1. HGo(c, HRest) /\ HRest \in Call /\ HRest.step = "idle"
  BY RestTyped DEF HEnd
<1>2. disturbed' \in BOOLEAN /\ (disturbed => disturbed')
  BY DEF RuntimeInv, RuntimeTyped
<1> QED
  BY <1>1, <1>2, CallGoesOn

LEMMA ActsStep == ASSUME RuntimeInv, NEW c \in HCalls, Act(c) PROVE RuntimeInv'
<1>1. exists' \in BOOLEAN
  BY DEF Act, RuntimeInv, RuntimeTyped
<1> QED
  BY <1>1, CallEnds DEF Act

LEMMA ForgetsStep == ASSUME RuntimeInv, NEW c \in HCalls, ForgetRecord(c) PROVE RuntimeInv'
<1>1. exists' \in BOOLEAN
  BY DEF ForgetRecord
<1> QED
  BY <1>1, CallEnds DEF ForgetRecord

(* A runtime is made, for the call to start: no other call works on it.      *)
LEMMA LoadsStep ==
  ASSUME RuntimeInv, NEW c \in HCalls, LoadRuntime(c) PROVE RuntimeInv'
<1>1. PICK new : new = [status |-> "IDLE", listeners |-> 0]
  OBVIOUS
<1>2. new \in RuntimeObject /\ new.status = "IDLE" /\ new.listeners = 0
  BY <1>1, Lifecycle DEF RuntimeObject
<1>3. runtimes \in Seq(RuntimeObject) /\ runtimes' = Append(runtimes, new)
  BY <1>1 DEF LoadRuntime, RuntimeInv, RuntimeTyped
<1>4. PICK n \in Nat : n = Len(runtimes)
  BY <1>3
<1>5. /\ runtimes' \in Seq(RuntimeObject) /\ Len(runtimes') = n + 1
      /\ runtimes'[n + 1] = new /\ \A r \in DOMAIN runtimes : runtimes'[r] = runtimes[r]
      /\ DOMAIN runtimes = 1 .. n /\ DOMAIN runtimes' = 1 .. n + 1
  BY <1>2, <1>3, <1>4
<1>6. PICK m : m = n + 1
  OBVIOUS
<1>a. PICK next : next = [hcall[c] EXCEPT !.step = "advance", !.runtime = m]
  OBVIOUS
<1>7. hcall[c] \in Call /\ hcall[c].step = "load" /\ hcall[c].then \in {"join", "act"}
  BY DEF LoadRuntime, RuntimeInv, RuntimeTyped
<1>8. next \in Call /\ next.step = "advance" /\ next.runtime = n + 1 /\ next.then = hcall[c].then
  <2>1. m \in Nat
    BY <1>4, <1>6
  <2> QED
    BY <1>6, <1>7, <1>a, <2>1 DEF Call
<1>9. HGo(c, next)
  BY <1>5, <1>6, <1>a DEF LoadRuntime
<1>10. /\ hcall' \in [HCalls -> Call]
       /\ hcall'[c] = next
       /\ \A d \in HCalls : d # c => hcall'[d] = hcall[d]
       /\ \A d \in HCalls :
            hcall'[d].step \in {"start", "load", "advance"} => hcall'[d].then \in {"join", "act"}
  BY <1>7, <1>8, <1>9, CallGoes DEF RuntimeInv
<1>11. UNCHANGED <<exists, hosted, broadcasting, disturbed>> /\ hosted \in 0 .. n
  BY <1>4 DEF LoadRuntime, RuntimeInv, RuntimeTyped
<1>12. RuntimeTyped'
  BY <1>5, <1>10, <1>11 DEF RuntimeInv, RuntimeTyped
<1>13. RuntimesApart'
  <2>1. \A d \in HCalls : d # c /\ WorksOnRuntime(d) => hcall[d].runtime \in 1 .. n
    BY <1>5 DEF RuntimeInv, RuntimesApart
  <2>2. \A d \in HCalls : WorksOnRuntime(d)' => hcall'[d].runtime \in DOMAIN runtimes' /\ hcall'[d].runtime # hosted'
    BY <1>5, <1>8, <1>10, <1>11, <2>1 DEF RuntimeInv, RuntimesApart, WorksOnRuntime
  <2>3. \A d \in HCalls : Starting(d)' => runtimes'[hcall'[d].runtime].status \in DOMAIN TRANSITIONS
    BY <1>2, <1>5, <1>8, <1>10, <2>1, Lifecycle DEF RuntimeInv, RuntimesApart, WorksOnRuntime, Starting
  <2>4. \A d, e \in HCalls :
          Starting(d)' /\ WorksOnRuntime(e)' /\ hcall'[d].runtime = hcall'[e].runtime => d = e
    BY <1>8, <1>10, <2>1 DEF RuntimeInv, RuntimesApart, WorksOnRuntime, Starting
  <2> QED
    BY <2>2, <2>3, <2>4 DEF RuntimesApart
<1>14. HostedRuns' /\ HeardOnce'
  BY <1>2, <1>5, <1>11 DEF RuntimeInv, HostedRuns, HeardOnce
<1>15. Undisturbed'
  <2>1. \A d \in HCalls : isStarting(d)' <=> isStarting(d)
    BY <1>7, <1>8, <1>10 DEF isStarting
  <2>2. /\ hcall'[c].step = "advance"
        /\ \A d \in HCalls : d # c => hcall'[d].step = hcall[d].step
    BY <1>8, <1>10
  <2>3. \A r \in DOMAIN runtimes' : runtimes'[r].status = "RUNNING" => r \in DOMAIN runtimes
    BY <1>2, <1>5
  <2>4. hosted # 0 => runtimes'[hosted] = runtimes[hosted]
    BY <1>5, <1>11
  <2> QED
    BY <1>5, <1>11, <2>1, <2>2, <2>3, <2>4 DEF RuntimeInv, Undisturbed
<1> QED
  BY <1>12, <1>13, <1>14, <1>15 DEF RuntimeInv

(* initialize and start go one status on; once it runs, the runtime is       *)
(* hosted.                                                                   *)
LEMMA AdvancesStep ==
  ASSUME RuntimeInv, NEW c \in HCalls, Advance(c) PROVE RuntimeInv'
<1>1. PICK r, to : r = hcall[c].runtime /\ to = TRANSITIONS[runtimes[r].status]
  OBVIOUS
<1>2. hcall[c] \in Call /\ hcall[c].step = "advance" /\ hcall[c].then \in {"join", "act"}
  BY DEF Advance, RuntimeInv, RuntimeTyped
<1>3. r \in DOMAIN runtimes /\ r # hosted /\ runtimes[r].status \in DOMAIN TRANSITIONS
  BY <1>1, <1>2 DEF RuntimeInv, RuntimesApart, WorksOnRuntime, Starting
<1>4. /\ move(r, to) /\ hosted' = IF to = "RUNNING" THEN r ELSE hosted
      /\ HStep(c, IF to = "RUNNING" THEN hcall[c].then ELSE "advance")
      /\ UNCHANGED <<exists, broadcasting, disturbed>>
  BY <1>1 DEF Advance, Hosts
<1>5. to \in DOMAIN TRANSITIONS \cup {"RUNNING"} /\ canMove(runtimes[r].status, to)
  BY <1>1, <1>3, Lifecycle
<1>6. /\ runtimes' \in Seq(RuntimeObject) /\ Len(runtimes') = Len(runtimes)
      /\ DOMAIN runtimes' = DOMAIN runtimes
      /\ runtimes'[r].status = to /\ runtimes'[r].listeners = runtimes[r].listeners
      /\ \A q \in DOMAIN runtimes : q # r => runtimes'[q] = runtimes[q]
  BY <1>3, <1>4, <1>5, Moves DEF RuntimeInv, LifecycleStatuses
<1>7. PICK k \in Call : /\ HGo(c, k) /\ k.then = hcall[c].then /\ k.runtime = r
                        /\ k.step = IF to = "RUNNING" THEN hcall[c].then ELSE "advance"
  <2>1. PICK next : next = IF to = "RUNNING" THEN hcall[c].then ELSE "advance"
    OBVIOUS
  <2>2. next \in {"advance", "join", "act"}
    BY <1>2, <2>1
  <2>3. HStep(c, next)
    BY <1>4, <2>1
  <2> QED
    BY <1>1, <2>1, <2>2, <2>3, StepTyped DEF RuntimeInv
<1>8. /\ hcall' \in [HCalls -> Call]
      /\ hcall'[c] = k
      /\ \A d \in HCalls : d # c => hcall'[d] = hcall[d]
      /\ \A d \in HCalls :
           hcall'[d].step \in {"start", "load", "advance"} => hcall'[d].then \in {"join", "act"}
  BY <1>2, <1>7, CallGoes DEF RuntimeInv
<1>9. r \in 1 .. Len(runtimes) /\ hosted \in 0 .. Len(runtimes) /\ hosted' \in 0 .. Len(runtimes)
      /\ r # 0
  BY <1>3, <1>4 DEF RuntimeInv, RuntimeTyped
<1>10. RuntimeTyped'
  BY <1>4, <1>6, <1>8, <1>9 DEF RuntimeInv, RuntimeTyped
<1>11. \A d \in HCalls : d # c /\ WorksOnRuntime(d) => hcall[d].runtime # r
  BY <1>1, <1>2 DEF RuntimeInv, RuntimesApart, Starting
<1>12. /\ WorksOnRuntime(c)' <=> to # "RUNNING"
       /\ Starting(c)' <=> to # "RUNNING"
       /\ \A d \in HCalls : d # c => /\ WorksOnRuntime(d)' <=> WorksOnRuntime(d)
                                     /\ Starting(d)' <=> Starting(d)
  BY <1>2, <1>7, <1>8 DEF WorksOnRuntime, Starting
<1>13. RuntimesApart'
  <2>1. \A d \in HCalls : WorksOnRuntime(d)' => hcall'[d].runtime \in DOMAIN runtimes' /\ hcall'[d].runtime # hosted'
    BY <1>3, <1>4, <1>6, <1>7, <1>8, <1>11, <1>12 DEF RuntimeInv, RuntimesApart
  <2>2. \A d \in HCalls : Starting(d)' => runtimes'[hcall'[d].runtime].status \in DOMAIN TRANSITIONS
    <3> SUFFICES ASSUME NEW d \in HCalls, Starting(d)'
                 PROVE runtimes'[hcall'[d].runtime].status \in DOMAIN TRANSITIONS
      OBVIOUS
    <3>1. CASE d = c
      BY <1>5, <1>6, <1>7, <1>8, <1>12, <3>1
    <3>2. CASE d # c
      BY <1>6, <1>8, <1>11, <1>12, <3>2 DEF RuntimeInv, RuntimesApart, WorksOnRuntime, Starting
    <3> QED
      BY <3>1, <3>2
  <2>3. \A d, e \in HCalls :
          Starting(d)' /\ WorksOnRuntime(e)' /\ hcall'[d].runtime = hcall'[e].runtime => d = e
    BY <1>7, <1>8, <1>11, <1>12 DEF RuntimeInv, RuntimesApart, WorksOnRuntime, Starting
  <2> QED
    BY <2>1, <2>2, <2>3 DEF RuntimesApart
<1>14. HostedRuns'
  <2>1. CASE to = "RUNNING"
    BY <1>4, <1>6, <2>1 DEF HostedRuns
  <2>2. CASE to # "RUNNING"
    <3>1. hosted' = hosted /\ (hosted # 0 => hosted \in DOMAIN runtimes)
      BY <1>4, <2>2 DEF RuntimeInv, RuntimeTyped
    <3> QED
      BY <1>3, <1>6, <3>1 DEF RuntimeInv, HostedRuns
  <2> QED
    BY <2>1, <2>2
<1>15. HeardOnce'
  BY <1>3, <1>4, <1>6 DEF RuntimeInv, HeardOnce
<1>16. Undisturbed'
  <2> SUFFICES ASSUME ~disturbed' PROVE
        /\ \A d \in HCalls : hcall'[d].step # "destroy"
        /\ \A d, e \in HCalls : isStarting(d)' /\ isStarting(e)' => d = e
        /\ \A d \in HCalls : isStarting(d)' => hosted' = 0
        /\ \A d \in HCalls : hcall'[d].step \in {"join", "act"} => hosted' # 0
        /\ broadcasting' => hosted' # 0 /\ runtimes'[hosted'].listeners = 1
        /\ \A q \in DOMAIN runtimes' : runtimes'[q].status = "RUNNING" => q = hosted'
    BY DEF Undisturbed
  <2>1. /\ \A d \in HCalls : hcall[d].step # "destroy"
        /\ \A d, e \in HCalls : isStarting(d) /\ isStarting(e) => d = e
        /\ \A d \in HCalls : isStarting(d) => hosted = 0
        /\ \A d \in HCalls : hcall[d].step \in {"join", "act"} => hosted # 0
        /\ broadcasting => hosted # 0 /\ runtimes[hosted].listeners = 1
        /\ \A q \in DOMAIN runtimes : runtimes[q].status = "RUNNING" => q = hosted
    BY <1>4 DEF RuntimeInv, Undisturbed
  <2>2. isStarting(c) /\ hosted = 0 /\ \A d \in HCalls : d # c => ~isStarting(d)
    BY <1>2, <2>1 DEF isStarting
  <2>3. \A d \in HCalls : d # c => ~isStarting(d)' /\ hcall'[d].step \notin {"join", "act", "destroy"}
    BY <1>8, <2>1, <2>2 DEF isStarting
  <2>4. hcall'[c].step # "destroy" /\ (isStarting(c)' => to # "RUNNING")
        /\ (hcall'[c].step \in {"join", "act"} => to = "RUNNING")
    BY <1>2, <1>7, <1>8 DEF isStarting
  <2>5. ~broadcasting' /\ \A q \in DOMAIN runtimes : runtimes[q].status # "RUNNING"
    BY <1>4, <1>9, <2>1, <2>2 DEF RuntimeInv, RuntimeTyped
  <2>6. \A q \in DOMAIN runtimes' : runtimes'[q].status = "RUNNING" => q = r /\ to = "RUNNING"
    BY <1>6, <2>5
  <2> QED
    BY <1>4, <1>9, <2>2, <2>3, <2>4, <2>5, <2>6
<1> QED
  BY <1>10, <1>13, <1>14, <1>15, <1>16 DEF RuntimeInv

(* A hook throws.                                                            *)
LEMMA FailsStep ==
  ASSUME RuntimeInv, NEW c \in HCalls, StartFails(c) PROVE RuntimeInv'
<1>1. PICK r : r = hcall[c].runtime
  OBVIOUS
<1>2. hcall[c] \in Call /\ hcall[c].step = "advance"
  BY DEF StartFails, RuntimeInv, RuntimeTyped
<1>3. r \in DOMAIN runtimes /\ r # hosted /\ runtimes[r].status \in DOMAIN TRANSITIONS
  BY <1>1, <1>2 DEF RuntimeInv, RuntimesApart, WorksOnRuntime, Starting
<1>4. move(r, "ERROR") /\ HGo(c, HRest) /\ UNCHANGED <<exists, hosted, broadcasting, disturbed>>
  BY <1>1 DEF StartFails, HEnd
<1>5. canMove(runtimes[r].status, "ERROR") /\ "ERROR" \in LifecycleStatuses
  BY <1>3, Lifecycle
<1>6. /\ runtimes' \in Seq(RuntimeObject) /\ Len(runtimes') = Len(runtimes)
      /\ DOMAIN runtimes' = DOMAIN runtimes
      /\ runtimes'[r].status = "ERROR" /\ runtimes'[r].listeners = runtimes[r].listeners
      /\ \A q \in DOMAIN runtimes : q # r => runtimes'[q] = runtimes[q]
  BY <1>3, <1>4, <1>5, Moves DEF RuntimeInv
<1>7. /\ hcall' \in [HCalls -> Call]
      /\ hcall'[c].step = "idle"
      /\ \A d \in HCalls : d # c => hcall'[d] = hcall[d]
      /\ \A d \in HCalls :
           hcall'[d].step \in {"start", "load", "advance"} => hcall'[d].then \in {"join", "act"}
  BY <1>4, RestTyped, CallGoes DEF RuntimeInv
<1>8. hosted \in 0 .. Len(runtimes) /\ (hosted # 0 => hosted \in DOMAIN runtimes)
  BY DEF RuntimeInv, RuntimeTyped
<1>9. RuntimeTyped'
  BY <1>4, <1>6, <1>7 DEF RuntimeInv, RuntimeTyped
<1>10. \A d \in HCalls : d # c /\ WorksOnRuntime(d) => hcall[d].runtime # r
  BY <1>1, <1>2 DEF RuntimeInv, RuntimesApart, Starting
<1>11. /\ ~WorksOnRuntime(c)' /\ ~Starting(c)' /\ ~isStarting(c)'
       /\ \A d \in HCalls : d # c => /\ WorksOnRuntime(d)' <=> WorksOnRuntime(d)
                                     /\ Starting(d)' <=> Starting(d)
                                     /\ isStarting(d)' <=> isStarting(d)
  BY <1>7 DEF WorksOnRuntime, Starting, isStarting
<1>12. RuntimesApart'
  <2>1. \A d \in HCalls : WorksOnRuntime(d)' => hcall'[d].runtime \in DOMAIN runtimes' /\ hcall'[d].runtime # hosted'
    BY <1>4, <1>6, <1>7, <1>11 DEF RuntimeInv, RuntimesApart
  <2>2. \A d \in HCalls : Starting(d)' => runtimes'[hcall'[d].runtime].status \in DOMAIN TRANSITIONS
    BY <1>6, <1>7, <1>10, <1>11 DEF RuntimeInv, RuntimesApart, WorksOnRuntime, Starting
  <2>3. \A d, e \in HCalls :
          Starting(d)' /\ WorksOnRuntime(e)' /\ hcall'[d].runtime = hcall'[e].runtime => d = e
    BY <1>7, <1>11 DEF RuntimeInv, RuntimesApart
  <2> QED
    BY <2>1, <2>2, <2>3 DEF RuntimesApart
<1>13. HostedRuns' /\ HeardOnce'
  BY <1>3, <1>4, <1>6, <1>8 DEF RuntimeInv, HostedRuns, HeardOnce
<1>14. Undisturbed'
  <2>1. \A q \in DOMAIN runtimes' : runtimes'[q].status = "RUNNING" => runtimes[q].status = "RUNNING"
    BY <1>6
  <2>2. hosted # 0 => runtimes'[hosted] = runtimes[hosted]
    BY <1>3, <1>6, <1>8
  <2>3. \A d \in HCalls : hcall'[d].step \in {"join", "act", "destroy"} => hcall'[d] = hcall[d]
    BY <1>7
  <2>4. \A d \in HCalls : isStarting(d)' => isStarting(d)
    BY <1>11
  <2> QED
    BY <1>4, <1>6, <2>1, <2>2, <2>3, <2>4 DEF RuntimeInv, Undisturbed
<1> QED
  BY <1>9, <1>12, <1>13, <1>14 DEF RuntimeInv

(* The first to join a room attaches its broadcaster to what is hosted.      *)
LEMMA JoinsStep ==
  ASSUME RuntimeInv, NEW c \in HCalls, Join(c) PROVE RuntimeInv'
<1>1. /\ hcall[c].step = "join" /\ broadcasting' = TRUE /\ HGo(c, HRest)
      /\ UNCHANGED <<exists, hosted, disturbed>>
      /\ runtimes' = IF ~broadcasting /\ hosted # 0
                       THEN [runtimes EXCEPT ![hosted].listeners = @ + 1] ELSE runtimes
  BY DEF Join, HEnd, needsBroadcaster, attachListener, isHosted
<1>2. /\ hcall' \in [HCalls -> Call]
      /\ hcall'[c].step = "idle"
      /\ \A d \in HCalls : d # c => hcall'[d] = hcall[d]
      /\ \A d \in HCalls :
           hcall'[d].step \in {"start", "load", "advance"} => hcall'[d].then \in {"join", "act"}
  BY <1>1, RestTyped, CallGoes DEF RuntimeInv
<1>3. runtimes \in Seq(RuntimeObject) /\ hosted \in 0 .. Len(runtimes)
      /\ (hosted # 0 => hosted \in DOMAIN runtimes)
  BY DEF RuntimeInv, RuntimeTyped
<1>4. /\ runtimes' \in Seq(RuntimeObject) /\ Len(runtimes') = Len(runtimes)
      /\ DOMAIN runtimes' = DOMAIN runtimes
      /\ \A r \in DOMAIN runtimes : runtimes'[r].status = runtimes[r].status
      /\ ~broadcasting /\ hosted # 0 => runtimes'[hosted].listeners = 1
      /\ broadcasting => runtimes' = runtimes
  <2>1. CASE ~broadcasting /\ hosted # 0
    <3>1. PICK o : o = [runtimes[hosted] EXCEPT !.listeners = @ + 1]
      OBVIOUS
    <3>2. runtimes[hosted] \in RuntimeObject /\ runtimes[hosted].listeners = 0
      BY <1>3, <2>1 DEF RuntimeInv, HeardOnce
    <3>3. o \in RuntimeObject /\ o.status = runtimes[hosted].status /\ o.listeners = 1
      BY <3>1, <3>2 DEF RuntimeObject
    <3>4. runtimes' = [runtimes EXCEPT ![hosted] = o]
      BY <1>1, <1>3, <2>1, <3>1
    <3> QED
      BY <1>3, <2>1, <3>3, <3>4
  <2>2. CASE ~(~broadcasting /\ hosted # 0)
    BY <1>1, <1>3, <2>2
  <2> QED
    BY <2>1, <2>2
<1>5. RuntimeTyped'
  BY <1>1, <1>2, <1>4 DEF RuntimeInv, RuntimeTyped
<1>6. /\ ~WorksOnRuntime(c)' /\ ~Starting(c)' /\ ~isStarting(c)'
      /\ \A d \in HCalls : d # c => /\ WorksOnRuntime(d)' <=> WorksOnRuntime(d)
                                    /\ Starting(d)' <=> Starting(d)
                                    /\ isStarting(d)' <=> isStarting(d)
  BY <1>2 DEF WorksOnRuntime, Starting, isStarting
<1>7. RuntimesApart'
  <2>1. \A d \in HCalls : WorksOnRuntime(d)' => WorksOnRuntime(d) /\ hcall'[d] = hcall[d]
    BY <1>2, <1>6
  <2>2. \A d \in HCalls : Starting(d)' => WorksOnRuntime(d) /\ Starting(d) /\ hcall'[d] = hcall[d]
    BY <1>2, <1>6 DEF Starting, WorksOnRuntime
  <2>3. \A d \in HCalls : Starting(d)' => runtimes'[hcall'[d].runtime].status \in DOMAIN TRANSITIONS
    BY <1>4, <2>2 DEF RuntimeInv, RuntimesApart
  <2> QED
    BY <1>1, <1>4, <2>1, <2>2, <2>3 DEF RuntimeInv, RuntimesApart
<1>8. HostedRuns' /\ HeardOnce'
  BY <1>1, <1>3, <1>4 DEF RuntimeInv, HostedRuns, HeardOnce
<1>9. Undisturbed'
  <2>1. \A d \in HCalls : isStarting(d)' => isStarting(d)
    BY <1>6
  <2>2. \A d \in HCalls : hcall'[d].step \in {"join", "act", "destroy"} => hcall'[d] = hcall[d]
    BY <1>2
  <2>3. ~disturbed => hosted # 0 /\ runtimes'[hosted].listeners = 1
    BY <1>1, <1>4 DEF RuntimeInv, Undisturbed
  <2> QED
    BY <1>1, <1>4, <2>1, <2>2, <2>3 DEF RuntimeInv, Undisturbed
<1> QED
  BY <1>5, <1>7, <1>8, <1>9 DEF RuntimeInv

(* What is hosted is taken out of the map, to be destroyed.                  *)
LEMMA StopsStep ==
  ASSUME RuntimeInv, NEW c \in HCalls, hcall[c] = HRest, NEW then \in {"idle", "forget"},
         stopping(c, then), UNCHANGED <<exists, runtimes, broadcasting>>
  PROVE  RuntimeInv'
<1>1. PICK next : next = [step |-> IF isHosted THEN "destroy" ELSE then, then |-> then, runtime |-> hosted]
  OBVIOUS
<1>2. HGo(c, next) /\ hosted' = 0 /\ disturbed' = (disturbed \/ isHosted)
  BY <1>1 DEF stopping
<1>3. /\ runtimes \in Seq(RuntimeObject) /\ hosted \in 0 .. Len(runtimes)
      /\ (hosted # 0 => hosted \in DOMAIN runtimes)
  BY DEF RuntimeInv, RuntimeTyped
<1>4. /\ next \in Call /\ next.runtime = hosted
      /\ next.step = (IF hosted # 0 THEN "destroy" ELSE then)
  BY <1>1, <1>3 DEF Call, isHosted
<1>5. /\ hcall' \in [HCalls -> Call]
      /\ hcall'[c] = next
      /\ \A d \in HCalls : d # c => hcall'[d] = hcall[d]
      /\ \A d \in HCalls :
           hcall'[d].step \in {"start", "load", "advance"} => hcall'[d].then \in {"join", "act"}
  BY <1>2, <1>4, CallGoes DEF RuntimeInv
<1>6. RuntimeTyped'
  <2>1. disturbed' \in BOOLEAN
    BY <1>2 DEF RuntimeInv, RuntimeTyped
  <2> QED
    BY <1>2, <1>3, <1>5, <2>1 DEF RuntimeInv, RuntimeTyped
<1>7. /\ WorksOnRuntime(c)' <=> hosted # 0
      /\ ~Starting(c)' /\ ~isStarting(c)'
      /\ \A d \in HCalls : d # c => /\ WorksOnRuntime(d)' <=> WorksOnRuntime(d)
                                    /\ Starting(d)' <=> Starting(d)
                                    /\ isStarting(d)' <=> isStarting(d)
  BY <1>4, <1>5 DEF WorksOnRuntime, Starting, isStarting
<1>8. RuntimesApart'
  <2>1. \A d \in HCalls : d # c /\ WorksOnRuntime(d) =>
          /\ hcall[d].runtime # hosted /\ hcall[d].runtime # 0
          /\ hcall[d].runtime \in DOMAIN runtimes
    BY <1>3 DEF RuntimeInv, RuntimesApart
  <2>2. \A d \in HCalls : WorksOnRuntime(d)' => hcall'[d].runtime \in DOMAIN runtimes' /\ hcall'[d].runtime # hosted'
    BY <1>2, <1>3, <1>4, <1>5, <1>7, <2>1
  <2>3. \A d \in HCalls : Starting(d)' => d # c /\ Starting(d) /\ WorksOnRuntime(d)
    BY <1>7 DEF Starting, WorksOnRuntime
  <2>4. \A d \in HCalls : Starting(d)' => runtimes'[hcall'[d].runtime].status \in DOMAIN TRANSITIONS
    BY <1>5, <2>3 DEF RuntimeInv, RuntimesApart
  <2>5. \A d, e \in HCalls :
          Starting(d)' /\ WorksOnRuntime(e)' /\ hcall'[d].runtime = hcall'[e].runtime => d = e
    BY <1>4, <1>5, <1>7, <2>1, <2>3 DEF RuntimeInv, RuntimesApart
  <2> QED
    BY <2>2, <2>4, <2>5 DEF RuntimesApart
<1>9. HostedRuns' /\ HeardOnce'
  BY <1>2 DEF RuntimeInv, HostedRuns, HeardOnce
<1>10. Undisturbed'
  <2>1. ~disturbed' => ~disturbed /\ hosted = 0
    BY <1>2 DEF isHosted
  <2>2. \A d \in HCalls : isStarting(d)' => isStarting(d)
    BY <1>7
  <2>3. hosted = 0 => \A d \in HCalls : hcall'[d].step \in {"join", "act", "destroy"} => hcall'[d] = hcall[d]
    BY <1>4, <1>5
  <2> QED
    BY <1>2, <2>1, <2>2, <2>3 DEF RuntimeInv, Undisturbed
<1> QED
  BY <1>6, <1>8, <1>9, <1>10 DEF RuntimeInv

LEMMA DestroysStep ==
  ASSUME RuntimeInv, NEW c \in HCalls, DestroyRuntime(c) PROVE RuntimeInv'
<1>1. PICK r, gone : r = hcall[c].runtime /\ gone = [status |-> "DESTROYED", listeners |-> 0]
  OBVIOUS
<1>2. gone \in RuntimeObject /\ gone.status = "DESTROYED" /\ gone.listeners = 0
  BY <1>1, Lifecycle DEF RuntimeObject
<1>3. hcall[c] \in Call /\ hcall[c].step = "destroy"
  BY DEF DestroyRuntime, RuntimeInv, RuntimeTyped
<1>4. r \in DOMAIN runtimes /\ r # hosted
  BY <1>1, <1>3 DEF RuntimeInv, RuntimesApart, WorksOnRuntime
<1>5. /\ runtimes' = [runtimes EXCEPT ![r] = gone] \/ runtimes' = runtimes
      /\ IF hcall[c].then = "idle" THEN HEnd(c) ELSE HStep(c, hcall[c].then)
      /\ UNCHANGED <<exists, hosted, broadcasting, disturbed>>
  BY <1>1 DEF DestroyRuntime
<1>6. /\ runtimes \in Seq(RuntimeObject) /\ hosted \in 0 .. Len(runtimes)
      /\ (hosted # 0 => hosted \in DOMAIN runtimes)
  BY DEF RuntimeInv, RuntimeTyped
<1>7. /\ runtimes' \in Seq(RuntimeObject) /\ Len(runtimes') = Len(runtimes)
      /\ DOMAIN runtimes' = DOMAIN runtimes
      /\ \A q \in DOMAIN runtimes : q # r => runtimes'[q] = runtimes[q]
      /\ runtimes'[r] = gone \/ runtimes'[r] = runtimes[r]
  BY <1>2, <1>4, <1>5, <1>6
<1>8. PICK k \in Call : HGo(c, k) /\ k.step \in {"idle", "join", "act", "forget"}
  <2>1. CASE hcall[c].then = "idle"
    BY <1>5, <2>1, RestTyped DEF HEnd
  <2>2. CASE hcall[c].then # "idle"
    <3>1. HStep(c, hcall[c].then) /\ hcall[c].then \in {"join", "act", "forget"}
      BY <1>3, <1>5, <2>2 DEF Call
    <3> QED
      BY <3>1, StepTyped DEF RuntimeInv
  <2> QED
    BY <2>1, <2>2
<1>9. /\ hcall' \in [HCalls -> Call]
      /\ hcall'[c] = k
      /\ \A d \in HCalls : d # c => hcall'[d] = hcall[d]
      /\ \A d \in HCalls :
           hcall'[d].step \in {"start", "load", "advance"} => hcall'[d].then \in {"join", "act"}
  BY <1>8, CallGoes DEF RuntimeInv
<1>10. RuntimeTyped'
  BY <1>5, <1>6, <1>7, <1>9 DEF RuntimeInv, RuntimeTyped
<1>11. /\ ~WorksOnRuntime(c)' /\ ~Starting(c)'
       /\ \A d \in HCalls : d # c => /\ WorksOnRuntime(d)' <=> WorksOnRuntime(d)
                                     /\ Starting(d)' <=> Starting(d)
  BY <1>8, <1>9 DEF WorksOnRuntime, Starting
<1>12. RuntimesApart'
  <2>1. \A d \in HCalls : WorksOnRuntime(d)' => d # c /\ WorksOnRuntime(d) /\ hcall'[d] = hcall[d]
    BY <1>9, <1>11
  <2>2. \A d \in HCalls : Starting(d)' =>
          /\ d # c /\ Starting(d) /\ WorksOnRuntime(d) /\ hcall'[d] = hcall[d]
          /\ hcall[d].runtime # r
    BY <1>1, <1>3, <1>9, <1>11 DEF RuntimeInv, RuntimesApart, Starting, WorksOnRuntime
  <2>3. \A d \in HCalls : Starting(d)' => runtimes'[hcall'[d].runtime].status \in DOMAIN TRANSITIONS
    BY <1>7, <2>2 DEF RuntimeInv, RuntimesApart
  <2> QED
    BY <1>5, <1>7, <2>1, <2>2, <2>3 DEF RuntimeInv, RuntimesApart
<1>13. HostedRuns' /\ HeardOnce'
  BY <1>2, <1>4, <1>5, <1>6, <1>7 DEF RuntimeInv, HostedRuns, HeardOnce
<1>14. Undisturbed'
  BY <1>3, <1>5 DEF RuntimeInv, Undisturbed
<1> QED
  BY <1>10, <1>12, <1>13, <1>14 DEF RuntimeInv

(* A restart leaves no runtime alive.                                        *)
LEMMA RestartStep == ASSUME RuntimeInv, Restart PROVE RuntimeInv'
<1>1. PICK gone : gone = [status |-> "DESTROYED", listeners |-> 0]
  OBVIOUS
<1>2. gone \in RuntimeObject /\ gone.status = "DESTROYED" /\ gone.listeners = 0
  BY <1>1, Lifecycle DEF RuntimeObject
<1>3. /\ runtimes' = [r \in DOMAIN runtimes |-> gone] /\ hosted' = 0 /\ broadcasting' = FALSE
      /\ hcall' = [c \in HCalls |-> HRest] /\ disturbed' = FALSE /\ exists' = exists
  BY <1>1 DEF Restart
<1>4. PICK n \in Nat : DOMAIN runtimes = 1 .. n
  BY DEF RuntimeInv, RuntimeTyped
<1>5. /\ runtimes' \in Seq(RuntimeObject) /\ Len(runtimes') = n /\ DOMAIN runtimes' = 1 .. n
      /\ \A r \in DOMAIN runtimes' : runtimes'[r] = gone
  BY <1>2, <1>3, <1>4
<1>6. hcall' \in [HCalls -> Call] /\ \A c \in HCalls : hcall'[c].step = "idle"
  BY <1>3, RestTyped
<1>7. exists' \in BOOLEAN /\ broadcasting' \in BOOLEAN /\ disturbed' \in BOOLEAN
  BY <1>3 DEF RuntimeInv, RuntimeTyped
<1>8. RuntimeTyped'
  BY <1>3, <1>5, <1>6, <1>7 DEF RuntimeTyped
<1> QED
  BY <1>2, <1>3, <1>5, <1>6, <1>8 DEF RuntimeInv, RuntimesApart, HostedRuns, HeardOnce, Undisturbed,
     Starting, WorksOnRuntime, isStarting

LEMMA RuntimeStep == RuntimeInv /\ [RuntimeNext]_hvars => RuntimeInv'
<1> SUFFICES ASSUME RuntimeInv, [RuntimeNext]_hvars PROVE RuntimeInv'
  OBVIOUS
<1>1. CASE UNCHANGED hvars
  BY <1>1 DEF hvars, RuntimeInv, RuntimeTyped, RuntimesApart, HostedRuns, HeardOnce, Undisturbed,
     Starting, WorksOnRuntime, isStarting
<1>2. ASSUME NEW c \in HCalls, EndRuntime(c) PROVE RuntimeInv'
  BY <1>2, StopsStep DEF EndRuntime
<1>3. ASSUME NEW c \in HCalls, Idle(c) PROVE RuntimeInv'
  BY <1>3, StopsStep DEF Idle
<1>4. CASE RecordExpires
  BY <1>4 DEF RecordExpires, RuntimeInv, RuntimeTyped, RuntimesApart, HostedRuns, HeardOnce,
     Undisturbed, Starting, WorksOnRuntime, isStarting
<1> QED
  BY <1>1, <1>2, <1>3, <1>4, EntersStep, FindsStep, LoadsStep, AdvancesStep, FailsStep, JoinsStep,
     ActsStep, DestroysStep, ForgetsStep, RestartStep DEF RuntimeNext

(* What is hosted runs, no event of a session reaches its room twice, and    *)
(* while nothing disturbed it, every event reaches a room that was joined    *)
(* and no runtime goes on unhosted (RoomHearsRuntime): whatever the calls    *)
(* and wherever they are interrupted by others or by a restart.              *)
THEOREM RoomCorrect == RuntimeSpec => []RoomHearsRuntime
<1>1. RuntimeInv => RoomHearsRuntime
  <2> SUFFICES ASSUME RuntimeInv PROVE RoomHearsRuntime
    OBVIOUS
  <2>2. \A r \in DOMAIN runtimes : runtimes[r] \in RuntimeObject
    BY DEF RuntimeInv, RuntimeTyped
  <2>1. \A r \in DOMAIN runtimes : runtimes[r].listeners <= 1
    BY <2>2 DEF RuntimeObject
  <2> QED
    BY <2>1 DEF RuntimeInv, HostedRuns, Undisturbed, RoomHearsRuntime, isHosted
<1> QED
  BY <1>1, RuntimeInit1, RuntimeStep, PTL DEF RuntimeSpec

(* What is hosted is an object that was made, in a status of the lifecycle.  *)
THEOREM RuntimeTypeCorrect == RuntimeSpec => []RuntimeTypeOK
<1>1. RuntimeInv => RuntimeTypeOK
  <2> SUFFICES ASSUME RuntimeInv PROVE RuntimeTypeOK
    OBVIOUS
  <2>1. \A r \in DOMAIN runtimes : runtimes[r] \in RuntimeObject
    BY DEF RuntimeInv, RuntimeTyped
  <2>2. \A r \in DOMAIN runtimes : runtimes[r].status \in LifecycleStatuses /\ runtimes[r].listeners \in Nat
    BY <2>1 DEF RuntimeObject
  <2> QED
    BY <2>2 DEF RuntimeInv, RuntimeTyped, RuntimeTypeOK
<1> QED
  BY <1>1, RuntimeInit1, RuntimeStep, PTL DEF RuntimeSpec
-----------------------------------------------------------------------------
(* A leaderboard.  What the variables hold.                                  *)
ScoresRead == UNION {[D -> Scores] : D \in SUBSET Ranked}

Submission ==
  [step : {"idle"}, user : {Nothing}]
  \cup [step : {"entry"}, user : Ranked, score : Scores]
  \cup [step : {"read"}, user : Ranked]
  \cup [step : {"ranks"}, user : Ranked, scores : ScoresRead]

Entry == [score : Scores, rank : 0 .. Cardinality(Ranked)]

BoardTyped ==
  /\ DOMAIN sorted \subseteq Ranked /\ DOMAIN entries \subseteq DOMAIN sorted
  /\ sorted \in [DOMAIN sorted -> Scores]
  /\ entries \in [DOMAIN entries -> Entry]
  /\ bcall \in [BCalls -> Submission]
  /\ drifted \subseteq Ranked
  /\ alone \in BOOLEAN
  /\ \A c \in BCalls : /\ bcall[c].step = "entry" => bcall[c].user \in DOMAIN sorted
                       /\ bcall[c].step \in {"read", "ranks"} => bcall[c].user \in DOMAIN entries

(* The user of an undrifted submission has no other at work; his score is    *)
(* the one it brought, and once it is over he has a rank.                    *)
Submits(c, u) == bcall[c].user = u

Settled(u) ==
  /\ \A c, d \in BCalls : Submits(c, u) /\ Submits(d, u) => c = d
  /\ \A c \in BCalls : Submits(c, u) =>
       /\ bcall[c].step = "entry" => bcall[c].score = sorted[u]
       /\ bcall[c].step \in {"read", "ranks"} => entries[u].score = sorted[u]
       /\ bcall[c].step = "ranks" => u \in DOMAIN bcall[c].scores
  /\ (\A c \in BCalls : ~Submits(c, u)) /\ u \in DOMAIN entries =>
       entries[u].rank > 0 /\ sorted[u] = entries[u].score

(* A submission that runs alone ranks the scores that are there.             *)
RanksFollow ==
  \A u \in DOMAIN entries :
    entries[u].rank = 1 + Cardinality({v \in DOMAIN entries : entries[v].score > entries[u].score})

RankedAlone ==
  alone =>
    /\ \A c, d \in BCalls : bcall[c] # BRest /\ bcall[d] # BRest => c = d
    /\ \A c \in BCalls : bcall[c].step = "ranks" =>
         bcall[c].scores = [u \in DOMAIN entries |-> entries[u].score]
    /\ BoardQuiet => RanksFollow

BoardInv == BoardTyped /\ RankedAlone /\ \A u \in Ranked \ drifted : Settled(u)

(* What a submission at each step holds.                                     *)
LEMMA Submissions ==
  ASSUME NEW k \in Submission
  PROVE  /\ k.step \in {"idle", "entry", "read", "ranks"}
         /\ k.step = "idle" <=> k = BRest
         /\ k.step = "idle" <=> k.user = Nothing
         /\ k.step # "idle" => k.user \in Ranked
         /\ k.step = "entry" => k.score \in Scores
         /\ k.step = "ranks" => k.scores \in ScoresRead
<1>1. CASE k \in [step : {"idle"}, user : {Nothing}]
  BY <1>1, LeaderboardAssumption DEF BRest
<1>2. CASE k \in [step : {"entry"}, user : Ranked, score : Scores]
  BY <1>2, LeaderboardAssumption DEF BRest
<1>3. CASE k \in [step : {"read"}, user : Ranked]
  BY <1>3, LeaderboardAssumption DEF BRest
<1>4. CASE k \in [step : {"ranks"}, user : Ranked, scores : ScoresRead]
  BY <1>4, LeaderboardAssumption DEF BRest
<1> QED
  BY <1>1, <1>2, <1>3, <1>4 DEF Submission

LEMMA BRestTyped == BRest \in Submission /\ BRest.step = "idle" /\ BRest.user = Nothing
  BY DEF BRest, Submission

LEMMA BoardGoes ==
  ASSUME BoardTyped, NEW c \in BCalls, NEW next \in Submission, BGo(c, next)
  PROVE  /\ bcall' \in [BCalls -> Submission]
         /\ bcall'[c] = next
         /\ \A d \in BCalls : d # c => bcall'[d] = bcall[d]
  BY DEF BGo, BoardTyped

(* The users who are ahead of one are finitely many, and he is not of them.  *)
LEMMA RanksTyped ==
  ASSUME NEW scores \in ScoresRead, NEW u \in DOMAIN scores
  PROVE  rankOf(scores, u) \in 0 .. Cardinality(Ranked) /\ rankOf(scores, u) > 0
<1>1. PICK D \in SUBSET Ranked : scores \in [D -> Scores]
  BY DEF ScoresRead
<1> DEFINE ahead == {v \in DOMAIN scores : scores[v] > scores[u]}
<1>2. DOMAIN scores = D /\ u \in Ranked /\ scores[u] \in Int
  BY <1>1, LeaderboardAssumption
<1>3. ahead \subseteq Ranked \ {u}
  BY <1>1, <1>2
<1>4. IsFiniteSet(Ranked \ {u}) /\ Cardinality(Ranked \ {u}) = Cardinality(Ranked) - 1
  BY <1>2, FS_RemoveElement, LeaderboardAssumption
<1>5. IsFiniteSet(ahead) /\ Cardinality(ahead) <= Cardinality(Ranked \ {u})
  BY <1>3, <1>4, FS_Subset
<1>6. Cardinality(ahead) \in Nat /\ Cardinality(Ranked) \in Nat
  BY <1>5, FS_CardinalityType, LeaderboardAssumption
<1>7. rankOf(scores, u) = 1 + Cardinality(ahead)
  BY DEF rankOf
<1> HIDE DEF ahead
<1> QED
  BY <1>4, <1>5, <1>6, <1>7

LEMMA BoardInit1 == BoardInit => BoardInv
<1> SUFFICES ASSUME BoardInit PROVE BoardInv
  OBVIOUS
<1>1. /\ \A c \in BCalls : bcall[c].step = "idle" /\ bcall[c].user = Nothing /\ bcall[c] = BRest
      /\ bcall \in [BCalls -> Submission]
      /\ DOMAIN sorted = {} /\ DOMAIN entries = {} /\ drifted = {}
  BY BRestTyped DEF BoardInit
<1>2. sorted \in [DOMAIN sorted -> Scores] /\ entries \in [DOMAIN entries -> Entry]
      /\ alone \in BOOLEAN
  BY <1>1 DEF BoardInit
<1>3. BoardTyped
  BY <1>1, <1>2 DEF BoardTyped
<1>4. RankedAlone
  BY <1>1 DEF RankedAlone, RanksFollow
<1>5. \A u \in Ranked : Settled(u)
  BY <1>1, LeaderboardAssumption DEF Settled, Submits
<1> QED
  BY <1>3, <1>4, <1>5 DEF BoardInv

LEMMA SubmitStep == ASSUME BoardInv, NEW c \in BCalls, Submit(c) PROVE BoardInv'
<1>1. PICK u \in Ranked, s \in Scores :
        /\ bcall[c] = BRest
        /\ BGo(c, [step |-> "entry", user |-> u, score |-> s])
        /\ sorted' = [v \in {u} \cup DOMAIN sorted |-> IF v = u THEN s ELSE sorted[v]]
        /\ alone' = BoardQuiet
        /\ drifted' = drifted \cup {v \in {u} : \E d \in BCalls \ {c} : bcall[d].user = v}
        /\ entries' = entries
  BY DEF Submit
<1>2. PICK next : next = [step |-> "entry", user |-> u, score |-> s]
  OBVIOUS
<1>3. next \in Submission /\ next.step = "entry" /\ next.user = u /\ next.score = s
  BY <1>2 DEF Submission
<1>4. /\ bcall' \in [BCalls -> Submission]
      /\ bcall'[c] = next
      /\ \A d \in BCalls : d # c => bcall'[d] = bcall[d]
  BY <1>1, <1>2, <1>3, BoardGoes DEF BoardInv
<1>5. /\ DOMAIN sorted' = {u} \cup DOMAIN sorted /\ sorted'[u] = s
      /\ \A v \in DOMAIN sorted : v # u => sorted'[v] = sorted[v]
      /\ sorted' \in [DOMAIN sorted' -> Scores]
  BY <1>1 DEF BoardInv, BoardTyped
<1>6. BoardTyped'
  <2>1. alone' \in BOOLEAN
    BY <1>1 DEF BoardQuiet
  <2>2. \A d \in BCalls : /\ bcall'[d].step = "entry" => bcall'[d].user \in DOMAIN sorted'
                          /\ bcall'[d].step \in {"read", "ranks"} => bcall'[d].user \in DOMAIN entries'
    BY <1>1, <1>3, <1>4, <1>5 DEF BoardInv, BoardTyped
  <2> QED
    BY <1>1, <1>4, <1>5, <2>1, <2>2 DEF BoardInv, BoardTyped
<1>7. RankedAlone'
  BY <1>1, <1>3, <1>4, BRestTyped DEF RankedAlone, BoardQuiet
<1>8. ASSUME NEW v \in Ranked \ drifted' PROVE Settled(v)'
  <2>1. Settled(v) /\ ~Submits(c, v)
    BY <1>1, <1>8, BRestTyped, LeaderboardAssumption DEF BoardInv, Submits
  <2>2. CASE v = u
    <3>1. \A d \in BCalls : Submits(d, v)' => d = c
      BY <1>1, <1>4, <1>8, <2>2 DEF Submits
    <3> QED
      BY <1>3, <1>4, <1>5, <2>2, <3>1 DEF Settled, Submits
  <2>3. CASE v # u
    <3>1. \A d \in BCalls : /\ Submits(d, v)' <=> Submits(d, v)
                            /\ Submits(d, v)' => bcall'[d] = bcall[d]
      BY <1>3, <1>4, <2>1, <2>3 DEF Submits
    <3>2. v \in DOMAIN sorted => sorted'[v] = sorted[v]
      BY <1>5, <2>3
    <3>3. \A d \in BCalls : Submits(d, v) => v \in DOMAIN sorted
      BY <1>8, Submissions, LeaderboardAssumption DEF BoardInv, BoardTyped, Submits
    <3>4. v \in DOMAIN entries => v \in DOMAIN sorted
      BY DEF BoardInv, BoardTyped
    <3> QED
      BY <1>1, <2>1, <3>1, <3>2, <3>3, <3>4 DEF Settled
  <2> QED
    BY <2>2, <2>3
<1> QED
  BY <1>6, <1>7, <1>8 DEF BoardInv

LEMMA UpsertStep == ASSUME BoardInv, NEW c \in BCalls, UpsertEntry(c) PROVE BoardInv'
<1>1. PICK u, s, new, next :
        /\ u = bcall[c].user /\ s = bcall[c].score
        /\ new = [score |-> s, rank |-> 0] /\ next = [step |-> "read", user |-> u]
  OBVIOUS
<1>2. /\ bcall[c] \in Submission /\ bcall[c].step = "entry"
      /\ u \in Ranked /\ s \in Scores /\ u \in DOMAIN sorted
  BY <1>1, Submissions DEF UpsertEntry, BoardInv, BoardTyped
<1>3. next \in Submission /\ next.step = "read" /\ next.user = u
  BY <1>1, <1>2 DEF Submission
<1>4. new \in Entry /\ new.score = s
  BY <1>1, <1>2, FS_CardinalityType, LeaderboardAssumption DEF Entry
<1>5. /\ bcall' \in [BCalls -> Submission]
      /\ bcall'[c] = next
      /\ \A d \in BCalls : d # c => bcall'[d] = bcall[d]
  BY <1>1, <1>3, BoardGoes DEF BoardInv, UpsertEntry
<1>6. UNCHANGED <<sorted, alone, drifted>>
      /\ entries' = [v \in {u} \cup DOMAIN entries |-> IF v = u THEN new ELSE entries[v]]
  BY <1>1 DEF UpsertEntry, upsert
<1>7. /\ DOMAIN entries' = {u} \cup DOMAIN entries /\ entries'[u] = new
      /\ \A v \in DOMAIN entries : v # u => entries'[v] = entries[v]
      /\ entries' \in [DOMAIN entries' -> Entry]
  BY <1>4, <1>6 DEF BoardInv, BoardTyped
<1>8. BoardTyped'
  <2>2. \A d \in BCalls : /\ bcall'[d].step = "entry" => bcall'[d].user \in DOMAIN sorted'
                          /\ bcall'[d].step \in {"read", "ranks"} => bcall'[d].user \in DOMAIN entries'
    BY <1>3, <1>5, <1>6, <1>7 DEF BoardInv, BoardTyped
  <2> QED
    BY <1>2, <1>5, <1>6, <1>7, <2>2 DEF BoardInv, BoardTyped
<1>9. RankedAlone'
  <2>1. bcall[c] # BRest /\ bcall'[c] # BRest
    BY <1>2, <1>3, <1>5, BRestTyped
  <2>2. alone => \A d \in BCalls : d # c => bcall'[d] = BRest
    BY <1>5, <2>1 DEF BoardInv, RankedAlone
  <2> QED
    BY <1>3, <1>5, <1>6, <2>1, <2>2, BRestTyped DEF RankedAlone, BoardQuiet
<1>10. ASSUME NEW v \in Ranked \ drifted' PROVE Settled(v)'
  <2>1. Settled(v)
    BY <1>6, <1>10 DEF BoardInv
  <2>2. \A d \in BCalls : /\ Submits(d, v)' <=> Submits(d, v)
                          /\ d # c => bcall'[d] = bcall[d]
    BY <1>1, <1>3, <1>5 DEF Submits
  <2>3. CASE v = u
    <3>1. Submits(c, v) /\ \A d \in BCalls : Submits(d, v) => d = c
      BY <1>1, <2>1, <2>3 DEF Settled, Submits
    <3>2. entries'[u].score = sorted[u]
      BY <1>1, <1>2, <1>4, <1>7, <2>1, <2>3, <3>1 DEF Settled
    <3> QED
      BY <1>3, <1>5, <1>6, <2>2, <2>3, <3>1, <3>2 DEF Settled
  <2>4. CASE v # u
    <3>1. ~Submits(c, v)
      BY <1>1, <2>4 DEF Submits
    <3>2. \A d \in BCalls : Submits(d, v) /\ bcall[d].step \in {"read", "ranks"} => v \in DOMAIN entries
      BY DEF BoardInv, BoardTyped, Submits
    <3>3. (v \in DOMAIN entries' <=> v \in DOMAIN entries) /\ (v \in DOMAIN entries => entries'[v] = entries[v])
      BY <1>7, <2>4
    <3> QED
      BY <1>6, <2>1, <2>2, <3>1, <3>2, <3>3 DEF Settled
  <2> QED
    BY <2>3, <2>4
<1> QED
  BY <1>8, <1>9, <1>10 DEF BoardInv

LEMMA ReadStep == ASSUME BoardInv, NEW c \in BCalls, ReadScores(c) PROVE BoardInv'
<1>1. PICK u, read, next :
        /\ u = bcall[c].user /\ read = [v \in DOMAIN entries |-> entries[v].score]
        /\ next = [step |-> "ranks", user |-> u, scores |-> read]
  OBVIOUS
<1>2. /\ bcall[c] \in Submission /\ bcall[c].step = "read" /\ u \in Ranked /\ u \in DOMAIN entries
  BY <1>1, Submissions DEF ReadScores, BoardInv, BoardTyped
<1>3. read \in ScoresRead /\ DOMAIN read = DOMAIN entries
  <2>1. \A v \in DOMAIN entries : entries[v].score \in Scores
    BY DEF BoardInv, BoardTyped, Entry
  <2>2. DOMAIN entries \in SUBSET Ranked /\ read \in [DOMAIN entries -> Scores]
    BY <1>1, <2>1 DEF BoardInv, BoardTyped
  <2> QED
    BY <2>2 DEF ScoresRead
<1>4. next \in Submission /\ next.step = "ranks" /\ next.user = u /\ next.scores = read
  BY <1>1, <1>2, <1>3 DEF Submission
<1>5. /\ bcall' \in [BCalls -> Submission]
      /\ bcall'[c] = next
      /\ \A d \in BCalls : d # c => bcall'[d] = bcall[d]
  BY <1>1, <1>4, BoardGoes DEF BoardInv, ReadScores
<1>6. UNCHANGED <<sorted, entries, alone, drifted>>
  BY DEF ReadScores
<1>7. BoardTyped'
  BY <1>2, <1>4, <1>5, <1>6 DEF BoardInv, BoardTyped
<1>8. RankedAlone'
  <2>1. bcall[c] # BRest /\ bcall'[c] # BRest
    BY <1>2, <1>4, <1>5, BRestTyped
  <2>2. alone => \A d \in BCalls : d # c => bcall'[d] = BRest
    BY <1>5, <2>1 DEF BoardInv, RankedAlone
  <2> QED
    BY <1>1, <1>4, <1>5, <1>6, <2>1, <2>2, BRestTyped DEF RankedAlone, BoardQuiet
<1>9. ASSUME NEW v \in Ranked \ drifted' PROVE Settled(v)'
  <2>1. Settled(v)
    BY <1>6, <1>9 DEF BoardInv
  <2>2. \A d \in BCalls : /\ Submits(d, v)' <=> Submits(d, v)
                          /\ d # c => bcall'[d] = bcall[d]
    BY <1>1, <1>4, <1>5 DEF Submits
  <2>3. Submits(c, v) => v = u
    BY <1>1 DEF Submits
  <2> QED
    BY <1>2, <1>3, <1>4, <1>5, <1>6, <2>1, <2>2, <2>3 DEF Settled
<1> QED
  BY <1>7, <1>8, <1>9 DEF BoardInv

LEMMA WriteStep == ASSUME BoardInv, NEW c \in BCalls, WriteRanks(c) PROVE BoardInv'
<1>1. PICK u, scores : u = bcall[c].user /\ scores = bcall[c].scores
  OBVIOUS
<1>2. /\ bcall[c] \in Submission /\ bcall[c].step = "ranks" /\ u \in Ranked /\ u \in DOMAIN entries
      /\ scores \in ScoresRead
  BY <1>1, Submissions DEF WriteRanks, BoardInv, BoardTyped
<1>3. /\ bcall' \in [BCalls -> Submission]
      /\ bcall'[c] = BRest
      /\ \A d \in BCalls : d # c => bcall'[d] = bcall[d]
  BY BRestTyped, BoardGoes DEF BoardInv, WriteRanks
<1>4. /\ UNCHANGED <<sorted, alone, drifted>>
      /\ entries' = [v \in DOMAIN entries |->
                       IF v \in DOMAIN scores THEN [entries[v] EXCEPT !.rank = rankOf(scores, v)]
                       ELSE entries[v]]
  BY <1>1 DEF WriteRanks
<1>5. ASSUME NEW v \in DOMAIN entries
      PROVE  /\ entries'[v] \in Entry
             /\ entries'[v].score = entries[v].score
             /\ v \in DOMAIN scores => /\ entries'[v].rank = rankOf(scores, v)
                                       /\ entries'[v].rank > 0
             /\ v \notin DOMAIN scores => entries'[v].rank = entries[v].rank
  <2>1. entries[v] \in Entry
    BY DEF BoardInv, BoardTyped
  <2>2. CASE v \in DOMAIN scores
    <3>1. PICK n \in 0 .. Cardinality(Ranked) : n = rankOf(scores, v) /\ n > 0
      BY <1>2, <2>2, RanksTyped
    <3>2. entries'[v] = [entries[v] EXCEPT !.rank = n]
      BY <1>4, <2>2, <3>1
    <3> QED
      BY <2>1, <2>2, <3>1, <3>2 DEF Entry
  <2>3. CASE v \notin DOMAIN scores
    BY <1>4, <2>1, <2>3
  <2> QED
    BY <2>2, <2>3
<1>6. DOMAIN entries' = DOMAIN entries /\ entries' \in [DOMAIN entries -> Entry]
  BY <1>4, <1>5
<1>7. BoardTyped'
  BY <1>3, <1>4, <1>6, BRestTyped DEF BoardInv, BoardTyped
<1>8. RankedAlone'
  <2> SUFFICES ASSUME alone
               PROVE  /\ \A d \in BCalls : bcall'[d] = BRest
                      /\ RanksFollow'
    BY <1>4, BRestTyped DEF RankedAlone
  <2>1. bcall[c] # BRest
    BY <1>2, BRestTyped
  <2>2. \A d \in BCalls : bcall'[d] = BRest
    BY <1>3, <2>1 DEF BoardInv, RankedAlone
  <2>3. scores = [v \in DOMAIN entries |-> entries[v].score]
    BY <1>1, <1>2 DEF BoardInv, RankedAlone
  <2>4. ASSUME NEW v \in DOMAIN entries
        PROVE  entries'[v].rank = 1 + Cardinality({w \in DOMAIN entries' : entries'[w].score > entries'[v].score})
    <3>1. {w \in DOMAIN scores : scores[w] > scores[v]}
          = {w \in DOMAIN entries' : entries'[w].score > entries'[v].score}
      BY <1>5, <1>6, <2>3
    <3>2. entries'[v].rank = rankOf(scores, v)
      BY <1>5, <2>3
    <3> QED
      BY <3>1, <3>2 DEF rankOf
  <2> QED
    BY <1>6, <2>2, <2>4 DEF RanksFollow
<1>9. ASSUME NEW v \in Ranked \ drifted' PROVE Settled(v)'
  <2>1. Settled(v)
    BY <1>4, <1>9 DEF BoardInv
  <2>2. ~Submits(c, v)' /\ \A d \in BCalls : d # c => (Submits(d, v)' <=> Submits(d, v)) /\ bcall'[d] = bcall[d]
    BY <1>3, <1>9, BRestTyped, LeaderboardAssumption DEF Submits
  <2>3. Submits(c, v) <=> v = u
    BY <1>1 DEF Submits
  <2>4. \A d \in BCalls : Submits(d, v) /\ bcall[d].step \in {"read", "ranks"} => v \in DOMAIN entries
    BY DEF BoardInv, BoardTyped, Submits
  <2>5. CASE v = u
    <3>1. entries[v].score = sorted[v] /\ v \in DOMAIN scores /\ \A d \in BCalls : Submits(d, v) => d = c
      BY <1>1, <1>2, <2>1, <2>3, <2>5 DEF Settled
    <3> QED
      BY <1>2, <1>4, <1>5, <2>2, <2>5, <3>1 DEF Settled
  <2>6. CASE v # u
    <3>1. ~Submits(c, v)
      BY <2>3, <2>6
    <3> QED
      BY <1>4, <1>5, <1>6, <2>1, <2>2, <2>4, <3>1 DEF Settled
  <2> QED
    BY <2>5, <2>6
<1> QED
  BY <1>7, <1>8, <1>9 DEF BoardInv

LEMMA DiesStep == ASSUME BoardInv, NEW c \in BCalls, SubmitDies(c) PROVE BoardInv'
<1>1. /\ bcall' \in [BCalls -> Submission]
      /\ bcall'[c] = BRest
      /\ \A d \in BCalls : d # c => bcall'[d] = bcall[d]
  BY BRestTyped, BoardGoes DEF BoardInv, SubmitDies
<1>2. /\ UNCHANGED <<sorted, entries>> /\ alone' = FALSE /\ drifted' = drifted \cup {bcall[c].user}
      /\ bcall[c].user \in Ranked
  BY Submissions DEF SubmitDies, BoardInv, BoardTyped
<1>3. BoardTyped'
  BY <1>1, <1>2, BRestTyped DEF BoardInv, BoardTyped
<1>4. RankedAlone'
  BY <1>2 DEF RankedAlone
<1>5. ASSUME NEW v \in Ranked \ drifted' PROVE Settled(v)'
  <2>1. Settled(v) /\ ~Submits(c, v)
    BY <1>2, <1>5 DEF BoardInv, Submits
  <2>2. ~Submits(c, v)' /\ \A d \in BCalls : d # c => (Submits(d, v)' <=> Submits(d, v)) /\ bcall'[d] = bcall[d]
    BY <1>1, <1>5, BRestTyped, LeaderboardAssumption DEF Submits
  <2> QED
    BY <1>2, <2>1, <2>2 DEF Settled
<1> QED
  BY <1>3, <1>4, <1>5 DEF BoardInv

LEMMA BoardStep == BoardInv /\ [BoardNext]_bvars => BoardInv'
<1>1. BoardInv /\ UNCHANGED bvars => BoardInv'
  BY DEF bvars, BoardInv, BoardTyped, RankedAlone, RanksFollow, Settled, Submits, BoardQuiet
<1> QED
  BY <1>1, SubmitStep, UpsertStep, ReadStep, WriteStep, DiesStep DEF BoardNext

(* What the leaderboard holds, whatever submissions overlap or die: the      *)
(* ranks are those of as many users as there are.                            *)
THEOREM BoardTypeCorrect == BoardSpec => []BoardTypeOK
<1>1. BoardInv => BoardTypeOK
  BY DEF BoardInv, BoardTyped, BoardTypeOK, Entry
<1> QED
  BY <1>1, BoardInit1, BoardStep, PTL DEF BoardSpec

(* After a submission that ran alone to its end the ranks follow from the    *)
(* scores; who never overlapped or died has a rank, and one score in both    *)
(* stores (RanksFollowScores).                                               *)
THEOREM RanksCorrect == BoardSpec => []RanksFollowScores
<1>1. BoardInv => RanksFollowScores
  <2> SUFFICES ASSUME BoardInv PROVE RanksFollowScores
    OBVIOUS
  <2>1. \A u \in DOMAIN entries : u \in Ranked
    BY DEF BoardInv, BoardTyped
  <2> QED
    BY <2>1 DEF BoardInv, RankedAlone, RanksFollow, Settled, Submits, RanksFollowScores
<1> QED
  BY <1>1, BoardInit1, BoardStep, PTL DEF BoardSpec
-----------------------------------------------------------------------------
(* Bets.  What slips and rows hold.                                          *)
Leg ==
  [match : DOMAIN Fixtures, market : {r[2] : r \in Selections}, selection : {r[3] : r \in Selections},
   odds : Int, status : SlipStatuses, own : SlipStatuses]

Slip == [bet : Nat, id : Nat, legs : Seq(Leg), status : SlipStatuses, returned : Int]

SoundSlip == {slip \in Slip : followsLegs(slip) /\ (hasApartLegs(slip) => followsMatches(slip))}

RowTyped(m, r) ==
  /\ DOMAIN r = {"status", "result", "markets", "open", "odds"}
  /\ r.markets \in Fixtures[m]
  /\ DOMAIN r.odds = DOMAIN r.markets
  /\ \A k \in DOMAIN r.markets :
       /\ DOMAIN r.odds[k] = DOMAIN r.markets[k].selections
       /\ \A s \in DOMAIN r.markets[k].selections : r.odds[k][s] \in Int

(* The odds of a slip are multiplied as a product is.                        *)
LEMMA OddsProduct ==
  ASSUME NEW S, IsFiniteSet(S), NEW odds
  PROVE  productOf(odds, S) = Product(odds, S)
<1> DEFINE h == CHOOSE g : Products(odds, S, g)
<1>1. productOf(odds, S) = h[S]
  BY DEF productOf, FoldFunctionOnSet, MapThenFoldSet, Products, Pick
<1>2. Product(odds, S) = h[S]
  BY Zenon DEF Product
<1> QED
  BY <1>1, <1>2

LEMMA LegsFinite ==
  ASSUME NEW legs \in Seq(Leg)
  PROVE  IsFiniteSet(DOMAIN legs) /\ \A i \in DOMAIN legs : legs[i] \in Leg
<1>1. PICK n \in Nat : DOMAIN legs = 1 .. n
  OBVIOUS
<1>2. IsFiniteSet(1 .. n)
  BY <1>1, FS_Interval
<1> QED
  BY <1>1, <1>2

LEMMA SettledStatus ==
  ASSUME NEW market, NEW k, NEW s, NEW feed
  PROVE  settleSelection(market, k, s, feed) \in SlipStatuses
<1>1. \A side, value, line : sideOutcome(side, value, line) \in SlipStatuses
  BY DEF sideOutcome, SlipStatuses
<1> QED
  BY <1>1 DEF settleSelection, SlipStatuses

LEMMA LegSettled ==
  ASSUME NEW leg, NEW found
  PROVE  legStatus(leg, found) \in SlipStatuses
<1>1. PICK row : row = found[leg.match]
  OBVIOUS
<1>2. legStatus(leg, found) = IF isOffered(row, leg.market, leg.selection)
                              THEN settleSelection(row.markets[leg.market], leg.market, leg.selection, row.result.feed)
                              ELSE "void"
  BY <1>1, Zenon DEF legStatus
<1>3. settleSelection(row.markets[leg.market], leg.market, leg.selection, row.result.feed) \in SlipStatuses
  BY SettledStatus, Zenon
<1> QED
  BY <1>2, <1>3 DEF SlipStatuses

(* A selection that only one leg has is decided by that leg.                 *)
LEMMA LastLegIs ==
  ASSUME NEW slip, NEW n \in Nat, DOMAIN slip.legs = 1 .. n, hasApartLegs(slip), NEW i \in 1 .. n
  PROVE  lastLeg(slip, slip.legs[i].selection) = i
<1>1. PICK s, x : s = slip.legs[i].selection /\ x = lastLeg(slip, s)
  OBVIOUS
<1>2. \A j \in 1 .. n : slip.legs[j].selection = s => j = i
  BY <1>1 DEF hasApartLegs
<1>3. \A j \in 1 .. n : slip.legs[j].selection = s => j <= i
  BY <1>2
<1>4. x \in 1 .. n /\ slip.legs[x].selection = s
  BY <1>1, <1>3, Zenon DEF lastLeg
<1> QED
  BY <1>1, <1>2, <1>4

(* A slip is settled as its legs are.                                        *)
LEMMA SettledSound ==
  ASSUME NEW slip \in Slip, NEW found
  PROVE  /\ settleSlip(slip, found) \in SoundSlip
         /\ settleSlip(slip, found).bet = slip.bet /\ settleSlip(slip, found).id = slip.id
<1>1. PICK legs : legs = settledLegs(slip, found)
  OBVIOUS
<1>2. PICK factors : factors = [i \in DOMAIN legs |-> IF legs[i].status = "won" THEN legs[i].odds ELSE 1]
  OBVIOUS
<1>3. PICK status : status = statusOf({legs[i].status : i \in DOMAIN legs})
  OBVIOUS
<1>4. PICK returned : returned = CASE status = "won"  -> productOf(factors, DOMAIN legs)
                                   [] status = "void" -> 1
                                   [] OTHER           -> 0
  OBVIOUS
<1>5. PICK done : done = [slip EXCEPT !.legs = legs, !.status = status, !.returned = returned]
  OBVIOUS
<1>6. settleSlip(slip, found) = done
  <2>1. settleSlip(slip, found) = withLegs(slip, legs)
    BY <1>1 DEF settleSlip
  <2> QED
    BY <2>1, <1>2, <1>3, <1>4, <1>5, Zenon DEF withLegs
<1>7. DOMAIN slip = {"bet", "id", "legs", "status", "returned"} /\ slip.bet \in Nat /\ slip.id \in Nat
      /\ slip.legs \in Seq(Leg)
  BY DEF Slip
<1>8. PICK n \in Nat : DOMAIN slip.legs = 1 .. n
  BY <1>7
<1>9. DOMAIN legs = 1 .. n
      /\ \A i \in 1 .. n :
           /\ legs[i] \in Leg /\ legs[i].selection = slip.legs[i].selection
           /\ legs[i].status = statusById(slip, found, slip.legs[i].selection)
           /\ legs[i].own = legStatus(slip.legs[i], found)
  <2>1. DOMAIN legs = 1 .. n
    BY <1>1, <1>8 DEF settledLegs
  <2>2. ASSUME NEW i \in 1 .. n
        PROVE  /\ legs[i] \in Leg /\ legs[i].selection = slip.legs[i].selection
               /\ legs[i].status = statusById(slip, found, slip.legs[i].selection)
               /\ legs[i].own = legStatus(slip.legs[i], found)
    <3>1. PICK l, st, own : l = slip.legs[i] /\ st = statusById(slip, found, l.selection)
                            /\ own = legStatus(l, found)
      OBVIOUS
    <3>2. legs[i] = [l EXCEPT !.status = st, !.own = own]
      BY <1>1, <1>8, <3>1 DEF settledLegs
    <3>3. l \in Leg
      BY <1>7, <1>8, <3>1
    <3>4. st \in SlipStatuses
      BY <3>1, LegSettled, Zenon DEF statusById
    <3>5. own \in SlipStatuses
      BY <3>1, LegSettled, Zenon
    <3>6. legs[i] \in Leg /\ legs[i].selection = l.selection /\ legs[i].status = st /\ legs[i].own = own
      BY <3>2, <3>3, <3>4, <3>5 DEF Leg
    <3> QED
      BY <3>1, <3>6
  <2> QED
    BY <2>1, <2>2
<1>10. legs \in Seq(Leg)
  <2>1. legs \in [1 .. n -> Leg]
    BY <1>1, <1>8, <1>9 DEF settledLegs
  <2> QED
    BY <2>1
<1>11. status \in SlipStatuses
  BY <1>3 DEF statusOf, SlipStatuses
<1>12. PICK W : W = {j \in DOMAIN legs : legs[j].status = "won"}
  OBVIOUS
<1>13. PICK odds : odds = [j \in DOMAIN legs |-> legs[j].odds]
  OBVIOUS
<1>14. productOf(factors, DOMAIN legs) \in Int /\ productOf(factors, DOMAIN legs) = productOf(odds, W)
  <2>1. IsFiniteSet(DOMAIN legs) /\ W \subseteq DOMAIN legs /\ (DOMAIN legs) \cap W = W
    BY <1>10, <1>12, LegsFinite
  <2>2. IsFiniteSet(W)
    BY <2>1, FS_Subset
  <2>3. \A x \in DOMAIN legs : factors[x] \in Int /\ (x \notin W => factors[x] = 1)
                               /\ (x \in W => factors[x] = odds[x])
    BY <1>2, <1>9, <1>12, <1>13 DEF Leg
  <2>4. Product(factors, DOMAIN legs) = Product(factors, W)
    BY <2>1, <2>3, ProductOfSome
  <2>5. Product(factors, W) = Product(odds, W)
    BY <2>1, <2>2, <2>3, ProductSame
  <2>6. Product(factors, DOMAIN legs) \in Int
    BY <2>1, <2>3, ProductIsInt
  <2> QED
    BY <2>1, <2>2, <2>4, <2>5, <2>6, OddsProduct
<1>23. returned \in Int
  BY <1>4, <1>14
<1>15. done \in Slip /\ done.bet = slip.bet /\ done.id = slip.id /\ done.legs = legs /\ done.status = status
       /\ done.returned = returned
  BY <1>5, <1>7, <1>10, <1>11, <1>23 DEF Slip
<1>16. PICK L, P : L = {j \in DOMAIN legs : legs[j].status = "lost"}
                   /\ P = {j \in DOMAIN legs : legs[j].status = "pending"}
  OBVIOUS
<1>17. \A i \in DOMAIN legs : legs[i].status \in SlipStatuses
  BY <1>9 DEF Leg
<1>18. PICK T : T = {legs[i].status : i \in DOMAIN legs}
  OBVIOUS
<1>19. status = statusOf(T) /\ ("lost" \in T <=> L # {}) /\ ("pending" \in T <=> P # {})
       /\ (T = {"void"} => W = {})
  BY <1>3, <1>12, <1>16, <1>18
<1>20. W = {} => productOf(odds, W) = 1
  BY OddsProduct, ProductOfNothing, FS_EmptySet
<1>21. status # "pending" =>
         /\ status = "lost" <=> L # {}
         /\ L = {} => P = {}
         /\ returned = IF L # {} THEN 0 ELSE productOf(odds, W)
  BY <1>4, <1>14, <1>19, <1>20 DEF statusOf
<1>22. followsLegs(done)
  BY <1>12, <1>13, <1>15, <1>16, <1>21 DEF followsLegs
<1>24. hasApartLegs(done) => followsMatches(done)
  <2>1. SUFFICES ASSUME hasApartLegs(done), NEW i \in 1 .. n PROVE legs[i].status = legs[i].own
    BY <1>9, <1>15, Zenon DEF followsMatches
  <2>2. hasApartLegs(slip)
    BY <2>1, <1>8, <1>9, <1>15 DEF hasApartLegs
  <2>3. lastLeg(slip, slip.legs[i].selection) = i
    BY <2>2, <1>8, LastLegIs
  <2> QED
    BY <2>3, <1>9 DEF statusById
<1> QED
  BY <1>6, <1>15, <1>22, <1>24 DEF SoundSlip

(* A selection names a match of the fixtures.                                *)
LEMMA SelectionMatch == ASSUME NEW r \in Selections PROVE r[1] \in DOMAIN Fixtures
<1>1. PICK m \in DOMAIN Fixtures : r \in UNION {Offered(m, fixture) : fixture \in Fixtures[m]}
  BY DEF Selections
<1>2. PICK fixture \in Fixtures[m] : r \in Offered(m, fixture)
  BY <1>1, Zenon
<1>3. PICK k \in DOMAIN fixture : r \in {<<m, k, s>> : s \in DOMAIN fixture[k].selections}
  BY <1>2 DEF Offered
<1>4. PICK s \in DOMAIN fixture[k].selections : r = <<m, k, s>>
  BY <1>3
<1> QED
  BY <1>4

LEMMA BooksTyped ==
  ASSUME NEW b \in Books
  PROVE  b.odds \subseteq Nat /\ \A w \in b.wagers : w \in Seq(Selections) /\ w # <<>>
  BY SportsAssumption

(* Rows of matches stay well formed.                                         *)
LEMMA OpenTyped == ASSUME NEW m, NEW f \in Fixtures[m] PROVE RowTyped(m, OpenMatch(f))
<1>1. PICK r : r = OpenMatch(f)
  OBVIOUS
<1>3. PICK odds : odds = [k \in DOMAIN f |-> [s \in DOMAIN f[k].selections |-> 2]]
  OBVIOUS
<1>4. DOMAIN r = {"status", "result", "markets", "open", "odds"} /\ r.odds = odds /\ r.markets = f
  BY <1>1, <1>3 DEF OpenMatch
<1>5. DOMAIN odds = DOMAIN f /\ \A k \in DOMAIN f : odds[k] = [s \in DOMAIN f[k].selections |-> 2]
  BY <1>3
<1> QED
  BY <1>1, <1>4, <1>5 DEF RowTyped

LEMMA SameOddsTyped ==
  ASSUME NEW m, NEW r, RowTyped(m, r), NEW next,
         DOMAIN next = {"status", "result", "markets", "open", "odds"}, next.odds = r.odds,
         next.markets = r.markets
  PROVE  RowTyped(m, next)
  BY DEF RowTyped

LEMMA RepricedTyped ==
  ASSUME NEW m, NEW r, RowTyped(m, r), NEW k, NEW s, NEW o \in Int, NEW next,
         next = [r EXCEPT !.odds[k][s] = o]
  PROVE  RowTyped(m, next)
<1>1. PICK odds, prices : odds = r.odds /\ prices = [odds[k] EXCEPT ![s] = o]
  OBVIOUS
<1>2. PICK new : new = [odds EXCEPT ![k] = prices]
  OBVIOUS
<1>3. next = [r EXCEPT !.odds = new]
  BY <1>1, <1>2, Zenon
<1>m. PICK f : f = r.markets /\ f \in Fixtures[m]
  BY DEF RowTyped
<1>4. DOMAIN next = {"status", "result", "markets", "open", "odds"} /\ next.odds = new /\ next.markets = f
  BY <1>3, <1>m DEF RowTyped
<1>5. /\ DOMAIN new = DOMAIN odds
      /\ \A j \in DOMAIN odds : new[j] = IF j = k THEN prices ELSE odds[j]
      /\ DOMAIN prices = DOMAIN odds[k]
      /\ \A x \in DOMAIN odds[k] : prices[x] = IF x = s THEN o ELSE odds[k][x]
  BY <1>1, <1>2
<1>6. /\ DOMAIN odds = DOMAIN f
      /\ \A j \in DOMAIN f : /\ DOMAIN odds[j] = DOMAIN f[j].selections
                             /\ \A x \in DOMAIN f[j].selections : odds[j][x] \in Int
  BY <1>1, <1>m DEF RowTyped
<1>7. ASSUME NEW j \in DOMAIN f
      PROVE  /\ DOMAIN new[j] = DOMAIN f[j].selections
             /\ \A x \in DOMAIN f[j].selections : new[j][x] \in Int
  <2>1. CASE j = k
    BY <1>5, <1>6, <2>1
  <2>2. CASE j # k
    BY <1>5, <1>6, <2>2
  <2> QED
    BY <2>1, <2>2
<1> QED
  BY <1>m, <1>4, <1>5, <1>6, <1>7 DEF RowTyped

LEMMA ChangedTyped ==
  ASSUME book \in Books, NEW m, NEW r, RowTyped(m, r), NEW next \in changesOf(m, r)
  PROVE  RowTyped(m, next)
<1>1. CASE \E st : next = [r EXCEPT !.status = st]
  <2>1. PICK st : next = [r EXCEPT !.status = st]
    BY <1>1
  <2>2. DOMAIN next = {"status", "result", "markets", "open", "odds"} /\ next.odds = r.odds
        /\ next.markets = r.markets
    BY <2>1 DEF RowTyped
  <2> QED
    BY <2>2, SameOddsTyped
<1>2. CASE \E k : next \in repriced(r, k)
  <2>1. PICK k : next \in {[r EXCEPT !.odds[k][s] = o] : s \in DOMAIN r.odds[k], o \in book.odds}
    BY <1>2 DEF repriced
  <2>2. PICK s \in DOMAIN r.odds[k] : \E o \in book.odds : next = [r EXCEPT !.odds[k][s] = o]
    BY <2>1
  <2>3. PICK o \in book.odds : next = [r EXCEPT !.odds[k][s] = o]
    BY <2>2, Zenon
  <2>4. o \in Int
    BY BooksTyped
  <2> QED
    BY <2>3, <2>4, RepricedTyped
<1>3. CASE \E k : next = suspended(r, k)
  <2>1. PICK k : next = suspended(r, k)
    BY <1>3
  <2>2. DOMAIN next = {"status", "result", "markets", "open", "odds"} /\ next.odds = r.odds
        /\ next.markets = r.markets
    BY <2>1 DEF RowTyped, suspended
  <2> QED
    BY <2>2, SameOddsTyped
<1>4. CASE \E feed : next = settledBy(r, feed)
  <2>1. PICK feed : next = settledBy(r, feed)
    BY <1>4
  <2>2. PICK result, open : result = [settled |-> TRUE, feed |-> feed] /\ open = [k \in DOMAIN r.open |-> FALSE]
    OBVIOUS
  <2>3. next = [r EXCEPT !.status = "settled", !.result = result, !.open = open]
    BY <2>1, <2>2 DEF settledBy
  <2>4. DOMAIN next = {"status", "result", "markets", "open", "odds"} /\ next.odds = r.odds
        /\ next.markets = r.markets
    BY <2>3 DEF RowTyped
  <2> QED
    BY <2>4, SameOddsTyped
<1>5. \/ next \in {[r EXCEPT !.status = status] : status \in {"scheduled", "finished"}}
      \/ next \in UNION {repriced(r, k) \cup {suspended(r, k)} : k \in DOMAIN r.open}
      \/ next \in {settledBy(r, feed) : feed \in Feeds[m]}
  BY DEF changesOf
<1>6. ASSUME next \in {[r EXCEPT !.status = status] : status \in {"scheduled", "finished"}}
      PROVE  \E st : next = [r EXCEPT !.status = st]
  BY <1>6, Zenon
<1>7. ASSUME next \in UNION {repriced(r, k) \cup {suspended(r, k)} : k \in DOMAIN r.open}
      PROVE  \E k : next \in repriced(r, k) \/ next = suspended(r, k)
  <2>1. PICK k : next \in repriced(r, k) \cup {suspended(r, k)}
    BY <1>7, Zenon
  <2> QED
    BY <2>1, Zenon
<1>8. ASSUME next \in {settledBy(r, feed) : feed \in Feeds[m]}
      PROVE  \E feed : next = settledBy(r, feed)
  BY <1>8, Zenon
<1> QED
  BY <1>1, <1>2, <1>3, <1>4, <1>5, <1>6, <1>7, <1>8, Zenon

(* The list of a player: no two slips of a bet, and no more than it may hold. *)
Distinct(list) == \A i, j \in DOMAIN list : list[i].bet = list[j].bet => i = j

Listed(list, n) ==
  /\ list \in Seq(SoundSlip)
  /\ Len(list) <= MaxSlips
  /\ Distinct(list)
  /\ \A i \in DOMAIN list : list[i].bet \in 1 .. n /\ list[i].id \in 1 .. n

BetCall(k, n) ==
  \/ k = SRest
  \/ k.step = "resolve" /\ k.refs \in Seq(Selections) /\ k.refs # <<>> /\ k.legs \in Seq(Leg)
  \/ k.step = "load" /\ k.legs \in Seq(Leg)
  \/ k.step = "save" /\ Listed(k.slips, n)
  \/ /\ k.step = "sweep" /\ Listed(k.slips, n)
     /\ DOMAIN k = {"step", "slips", "next", "changed"}
  \/ k.step = "saveMatch" /\ k.match \in DOMAIN Fixtures /\ RowTyped(k.match, k.row)

MatchesTyped ==
  /\ DOMAIN matches \subseteq DOMAIN Fixtures
  /\ \A m \in DOMAIN matches : RowTyped(m, matches[m])

SportsInv ==
  /\ book \in Books
  /\ MatchesTyped
  /\ placed \in Nat /\ counter \in 0 .. placed
  /\ Listed(slips, placed)
  /\ DOMAIN scall = SCalls
  /\ \A c \in SCalls : BetCall(scall[c], placed)

LEMMA SGoes ==
  ASSUME DOMAIN scall = SCalls, NEW c \in SCalls, NEW next, SGo(c, next)
  PROVE  DOMAIN scall' = SCalls /\ scall'[c] = next /\ \A d \in SCalls : d # c => scall'[d] = scall[d]
  BY DEF SGo

(* More bets leave a call as it was.                                         *)
LEMMA MoreBets ==
  ASSUME NEW k, NEW n \in Nat, NEW p \in Nat, n <= p
  PROVE  /\ \A list : Listed(list, n) => Listed(list, p)
         /\ BetCall(k, n) => BetCall(k, p)
<1>1. ASSUME NEW list, Listed(list, n) PROVE Listed(list, p)
  <2>1. \A i \in DOMAIN list : list[i].bet \in 1 .. p /\ list[i].id \in 1 .. p
    BY <1>1 DEF Listed
  <2> QED
    BY <1>1, <2>1 DEF Listed
<1> QED
  BY <1>1, Zenon DEF BetCall

(* A call that goes on keeps the invariant.                                  *)
LEMMA BetGoesOn ==
  ASSUME SportsInv, NEW c \in SCalls, NEW next, SGo(c, next), UNCHANGED <<book, matches, slips>>,
         placed' \in Nat, placed <= placed', counter' \in 0 .. placed', BetCall(next, placed')
  PROVE  SportsInv'
<1>1. DOMAIN scall' = SCalls /\ scall'[c] = next /\ \A d \in SCalls : d # c => scall'[d] = scall[d]
  BY SGoes, Zenon DEF SportsInv
<1>2. \A d \in SCalls : BetCall(scall'[d], placed')
  BY <1>1, MoreBets DEF SportsInv
<1>3. Listed(slips', placed')
  BY MoreBets DEF SportsInv
<1> QED
  BY <1>1, <1>2, <1>3 DEF SportsInv, MatchesTyped

(* Bets are laid on matches of the fixtures.                                 *)
LEMMA BetOnFixtures == ASSUME book \in Books PROVE betOn \subseteq DOMAIN Fixtures
<1>1. ASSUME NEW m \in betOn PROVE m \in DOMAIN Fixtures
  <2>1. PICK ref \in UNION {ToSet(w) : w \in book.wagers} : m = ref[1]
    BY <1>1 DEF betOn
  <2>2. PICK w \in book.wagers : ref \in ToSet(w)
    BY <2>1
  <2>3. w \in Seq(Selections)
    BY BooksTyped
  <2>4. ref \in Selections
    BY <2>2, <2>3 DEF ToSet
  <2> QED
    BY <2>1, <2>4, SelectionMatch
<1> QED
  BY <1>1

LEMMA SportsInit1 == SportsInit => SportsInv
<1> SUFFICES ASSUME SportsInit PROVE SportsInv
  OBVIOUS
<1>1. book \in Books /\ placed = 0 /\ counter = 0 /\ slips = <<>> /\ scall = [c \in SCalls |-> SRest]
  BY DEF SportsInit
<1>2. DOMAIN matches = {}
  BY DEF SportsInit
<1>3. MatchesTyped
  BY <1>2 DEF MatchesTyped
<1>4. Listed(slips, placed)
  BY <1>1, SportsAssumption DEF Listed, Distinct
<1> QED
  BY <1>1, <1>3, <1>4 DEF SportsInv, BetCall

LEMMA SBegins ==
  ASSUME SportsInv, NEW c \in SCalls, NEW next, SBegin(c, next), BetCall(next, placed)
  PROVE  SportsInv'
<1>1. SGo(c, next) /\ UNCHANGED <<book, matches, slips, placed, counter>>
  BY DEF SBegin
<1>2. placed \in Nat /\ counter \in 0 .. placed
  BY DEF SportsInv
<1> QED
  BY <1>1, <1>2, BetGoesOn

LEMMA PlaceStep == ASSUME SportsInv, NEW c \in SCalls, Place(c) PROVE SportsInv'
<1>1. PICK refs \in book.wagers : SBegin(c, [step |-> "resolve", refs |-> refs, legs |-> <<>>])
  BY DEF Place
<1>2. refs \in Seq(Selections) /\ refs # <<>>
  BY BooksTyped DEF SportsInv
<1>3. PICK next : next = [step |-> "resolve", refs |-> refs, legs |-> <<>>]
  OBVIOUS
<1>4. <<>> \in Seq(Leg)
  OBVIOUS
<1>5. BetCall(next, placed)
  BY <1>2, <1>3, <1>4 DEF BetCall
<1> QED
  BY <1>1, <1>3, <1>5, SBegins

LEMMA ResolveStep == ASSUME SportsInv, NEW c \in SCalls, ResolveLeg(c) PROVE SportsInv'
<1>1. PICK k, ref : k = scall[c] /\ ref = Head(scall[c].refs)
  OBVIOUS
<1>2. k.refs \in Seq(Selections) /\ k.refs # <<>> /\ k.legs \in Seq(Leg)
  <2>1. k.step = "resolve" /\ BetCall(k, placed)
    BY <1>1, Zenon DEF ResolveLeg, SportsInv
  <2> QED
    BY <2>1 DEF BetCall, SRest
<1>3. ref \in Selections /\ Tail(k.refs) \in Seq(Selections)
  BY <1>1, <1>2
<1>4. PICK leg : leg = [match |-> ref[1], market |-> ref[2], selection |-> ref[3],
                        odds |-> matches[ref[1]].odds[ref[2]][ref[3]], status |-> "pending",
                        own |-> "pending"]
  OBVIOUS
<1>5. PICK rest, legs : rest = Tail(k.refs) /\ legs = Append(k.legs, leg)
  OBVIOUS
<1>6. PICK next : next = [step |-> IF Len(k.refs) = 1 THEN "load" ELSE "resolve", refs |-> rest, legs |-> legs]
  OBVIOUS
<1>7. SGo(c, IF ~isOpen(ref[1], ref[2], ref[3]) THEN SRest ELSE next)
      /\ UNCHANGED <<book, matches, slips, placed, counter>>
  BY <1>1, <1>4, <1>5, <1>6, Zenon DEF ResolveLeg
<1>8. ASSUME isOpen(ref[1], ref[2], ref[3]) PROVE BetCall(next, placed)
  <2>1. ref[1] \in DOMAIN matches
    BY <1>8 DEF isOpen
  <2>2. ref[2] \in DOMAIN matches[ref[1]].markets
        /\ ref[3] \in DOMAIN matches[ref[1]].markets[ref[2]].selections
    BY <1>8 DEF isOpen, isOffered
  <2>3. RowTyped(ref[1], matches[ref[1]]) /\ ref[1] \in DOMAIN Fixtures
    BY <2>1 DEF SportsInv, MatchesTyped
  <2>4. matches[ref[1]].odds[ref[2]][ref[3]] \in Int
    BY <2>2, <2>3 DEF RowTyped
  <2>5. ref[2] \in {r[2] : r \in Selections} /\ ref[3] \in {r[3] : r \in Selections}
    BY <1>3
  <2>6. leg \in Leg
    BY <1>4, <2>3, <2>4, <2>5 DEF Leg, SlipStatuses
  <2>7. legs \in Seq(Leg)
    BY <1>2, <1>5, <2>6
  <2>8. next.step = "resolve" \/ next.step = "load"
    BY <1>6
  <2>9. next.step = "resolve" => next.refs # <<>>
    <3>1. Len(k.refs) \in Nat \ {0} /\ Len(rest) = Len(k.refs) - 1 /\ Len(<<>>) = 0
      BY <1>2, <1>5
    <3>2. Len(k.refs) # 1 => Len(rest) # 0
      BY <3>1
    <3>3. next.step = "resolve" => Len(k.refs) # 1
      BY <1>6
    <3>4. next.refs = rest
      BY <1>6
    <3> QED
      BY <3>1, <3>2, <3>3, <3>4, Zenon
  <2>10. next.refs \in Seq(Selections) /\ next.legs \in Seq(Leg)
    BY <1>3, <1>5, <1>6, <2>7
  <2> QED
    BY <2>8, <2>9, <2>10, Zenon DEF BetCall
<1>9. BetCall(SRest, placed) /\ placed \in Nat /\ counter \in 0 .. placed
  BY DEF BetCall, SportsInv
<1> QED
  <2>1. CASE isOpen(ref[1], ref[2], ref[3])
    <3>1. SGo(c, next)
      BY <1>7, <2>1
    <3> QED
      BY <3>1, <1>7, <1>8, <1>9, <2>1, BetGoesOn
  <2>2. CASE ~isOpen(ref[1], ref[2], ref[3])
    <3>1. SGo(c, SRest)
      BY <1>7, <2>2
    <3> QED
      BY <3>1, <1>7, <1>9, BetGoesOn
  <2> QED
    BY <2>1, <2>2

LEMMA PriceTyped == ASSUME NEW legs \in Seq(Leg) PROVE price(legs) \in Int
<1>1. PICK odds : odds = [i \in DOMAIN legs |-> legs[i].odds]
  OBVIOUS
<1>2. \A i \in DOMAIN legs : odds[i] \in Int
  BY <1>1, LegsFinite DEF Leg
<1>3. Product(odds, DOMAIN legs) \in Int
  BY <1>2, LegsFinite, ProductIsInt
<1> QED
  BY <1>1, <1>3, LegsFinite, OddsProduct DEF price

(* What a slip settles, and what a list keeps.                               *)
Kept(old, new) ==
  \A i \in DOMAIN old, j \in DOMAIN new :
    old[i].bet = new[j].bet /\ old[i].status # "pending" => new[j] = old[i]

Grown(old, new) == (\A i \in DOMAIN old : \E j \in DOMAIN new : new[j].bet = old[i].bet) \/ Len(new) = MaxSlips

Follows(old, new) == Kept(old, new) /\ Grown(old, new)

(* A new slip is put at the head of the list, the oldest dropped if it was   *)
(* full.                                                                     *)
LEMMA HeadedBy ==
  ASSUME NEW n \in Nat, NEW list, Listed(list, n), NEW slip \in SoundSlip, slip.bet = n + 1,
         slip.id \in 1 .. n + 1,
         NEW kept, kept = IF Len(list) < MaxSlips THEN list ELSE SubSeq(list, 1, MaxSlips - 1),
         NEW new, new = <<slip>> \o kept
  PROVE  Listed(new, n + 1) /\ Follows(list, new)
<1>1. PICK m : m = IF Len(list) < MaxSlips THEN Len(list) ELSE MaxSlips - 1
  OBVIOUS
<1>2. list \in Seq(SoundSlip) /\ Len(list) \in Nat /\ MaxSlips \in Nat \ {0} /\ Len(list) <= MaxSlips
  BY SportsAssumption DEF Listed
<1>3. m \in Nat /\ m < MaxSlips /\ m <= Len(list) /\ (m = Len(list) \/ m + 1 = MaxSlips)
  BY <1>1, <1>2
<1>4. kept \in Seq(SoundSlip) /\ Len(kept) = m /\ \A i \in 1 .. m : kept[i] = list[i]
  <2>1. CASE Len(list) < MaxSlips
    BY <2>1, <1>1, <1>2
  <2>2. CASE ~(Len(list) < MaxSlips)
    <3>1. kept = SubSeq(list, 1, m)
      BY <2>2, <1>1
    <3>2. \A i \in 1 .. m : list[i] \in SoundSlip
      BY <1>2, <1>3
    <3> QED
      BY <3>1, <3>2, <1>2, <1>3, SubSeqProperties
  <2> QED
    BY <2>1, <2>2
<1>5. new \in Seq(SoundSlip) /\ Len(new) = m + 1
      /\ new[1] = slip /\ \A j \in 2 .. m + 1 : new[j] = list[j - 1]
  BY <1>3, <1>4
<1>6. DOMAIN new = 1 .. m + 1 /\ DOMAIN list = 1 .. Len(list)
  BY <1>2, <1>3, <1>5
<1>7. \A i \in DOMAIN list : list[i].bet \in 1 .. n /\ list[i].id \in 1 .. n
  BY DEF Listed
<1>8. \A j \in 2 .. m + 1 : j - 1 \in DOMAIN list /\ j - 1 \in Nat /\ new[j] = list[j - 1]
  <2>1. \A j \in 2 .. m + 1 : j - 1 \in 1 .. m
    BY <1>3
  <2>2. 1 .. m \subseteq DOMAIN list
    <3>1. \A l \in Nat : m <= l => 1 .. m \subseteq 1 .. l
      BY <1>3
    <3>2. PICK l : l = Len(list)
      OBVIOUS
    <3>3. l \in Nat /\ m <= l /\ DOMAIN list = 1 .. l
      BY <3>2, <1>2, <1>3
    <3> QED
      BY <3>1, <3>3, Zenon
  <2> QED
    BY <2>1, <2>2, <1>5
<1>9. \A j \in DOMAIN new : j = 1 \/ j \in 2 .. m + 1
  <2>1. \A j \in 1 .. m + 1 : j = 1 \/ j \in 2 .. m + 1
    BY <1>3
  <2> QED
    BY <2>1, <1>6
<1>10. \A j \in DOMAIN new : new[j].bet \in 1 .. n + 1 /\ new[j].id \in 1 .. n + 1
  <2>1. 1 .. n \subseteq 1 .. n + 1 /\ n + 1 \in 1 .. n + 1
    OBVIOUS
  <2>2. ASSUME NEW j \in DOMAIN new PROVE new[j].bet \in 1 .. n + 1 /\ new[j].id \in 1 .. n + 1
    <3>1. CASE j = 1
      BY <2>1, <3>1, <1>5
    <3>2. CASE j # 1
      <4>1. j - 1 \in DOMAIN list /\ new[j] = list[j - 1]
        BY <2>2, <3>2, <1>8, <1>9
      <4>2. new[j].bet \in 1 .. n /\ new[j].id \in 1 .. n
        BY <4>1, <1>7
      <4> QED
        BY <2>1, <4>2, Zenon
    <3> QED
      BY <3>1, <3>2
  <2> QED
    BY <2>2
<1>11. Distinct(new)
  <2>2. \A j \in DOMAIN new : j # 1 => new[j].bet \in 1 .. n
    <3>1. ASSUME NEW j \in DOMAIN new, j # 1 PROVE new[j].bet \in 1 .. n
      <4>1. j - 1 \in DOMAIN list /\ new[j] = list[j - 1]
        BY <3>1, <1>8, <1>9
      <4> QED
        BY <4>1, <1>7, Zenon
    <3> QED
      BY <3>1
  <2>3. new[1].bet \notin 1 .. n
    <3>1. n + 1 \notin 1 .. n
      OBVIOUS
    <3>2. new[1].bet = n + 1
      BY <1>5, Zenon
    <3> QED
      BY <3>1, <3>2, Zenon
  <2>1. ASSUME NEW i \in DOMAIN new, NEW j \in DOMAIN new, new[i].bet = new[j].bet
        PROVE  i = j
    <3>1. CASE i = 1 /\ j # 1
      BY <2>1, <2>2, <2>3, <3>1, Zenon
    <3>2. CASE j = 1 /\ i # 1
      BY <2>1, <2>2, <2>3, <3>2, Zenon
    <3>3. CASE i # 1 /\ j # 1
      <4>1. i \in 2 .. m + 1 /\ j \in 2 .. m + 1
        BY <3>3, <1>9
      <4>2. i - 1 \in DOMAIN list /\ j - 1 \in DOMAIN list /\ list[i - 1].bet = list[j - 1].bet
        BY <2>1, <4>1, <1>8
      <4>3. i - 1 = j - 1
        BY <4>2 DEF Listed, Distinct
      <4> QED
        BY <4>1, <4>3
    <3> QED
      BY <3>1, <3>2, <3>3
  <2> QED
    BY <2>1 DEF Distinct
<1>12. Kept(list, new)
  <2>1. ASSUME NEW i \in DOMAIN list, NEW j \in DOMAIN new, list[i].bet = new[j].bet
        PROVE  new[j] = list[i]
    <3>1. j # 1
      BY <2>1, <1>5, <1>7
    <3>2. j - 1 \in DOMAIN list /\ new[j] = list[j - 1]
      BY <3>1, <1>8, <1>9
    <3>3. i = j - 1
      BY <2>1, <3>2 DEF Listed, Distinct
    <3> QED
      BY <3>2, <3>3
  <2> QED
    BY <2>1 DEF Kept
<1>13. Grown(list, new)
  <2>1. ASSUME m = Len(list), NEW i \in DOMAIN list PROVE \E j \in DOMAIN new : new[j].bet = list[i].bet
    <3>1. i + 1 \in 2 .. m + 1 /\ i + 1 \in DOMAIN new /\ (i + 1) - 1 = i
      BY <2>1, <1>2, <1>6
    <3> QED
      BY <3>1, <1>8
  <2> QED
    BY <2>1, <1>3, <1>5 DEF Grown
<1>14. Len(new) <= MaxSlips
  BY <1>2, <1>3, <1>5
<1> QED
  BY <1>5, <1>10, <1>11, <1>12, <1>13, <1>14, Zenon DEF Listed, Follows

(* A new slip is sound: nothing is settled yet.                              *)
LEMMA NewSlipSound ==
  ASSUME NEW legs \in Seq(Leg), NEW n \in Nat, NEW id \in Nat, NEW slip,
         slip = [bet |-> n + 1, id |-> id, legs |-> legs, status |-> "pending", returned |-> price(legs)]
  PROVE  slip \in SoundSlip /\ slip.bet = n + 1 /\ slip.id = id
<1>1. price(legs) \in Int
  BY PriceTyped
<1>2. PICK p \in Int : p = price(legs)
  BY <1>1
<1>3. slip = [bet |-> n + 1, id |-> id, legs |-> legs, status |-> "pending", returned |-> p]
  BY <1>2
<1>4. slip \in Slip /\ slip.status = "pending" /\ slip.bet = n + 1 /\ slip.id = id
  BY <1>3 DEF Slip, SlipStatuses
<1>5. followsLegs(slip) /\ followsMatches(slip)
  BY <1>4 DEF followsLegs, followsMatches
<1> QED
  BY <1>4, <1>5 DEF SoundSlip

(* What loading the list makes of a call.                                    *)
LEMMA Loads ==
  ASSUME SportsInv, NEW c \in SCalls, LoadSlips(c)
  PROVE  /\ UNCHANGED <<book, matches, slips, soverlapped>>
         /\ \/ SGo(c, SRest) /\ UNCHANGED <<placed, counter>>
            \/ \E new : /\ SGo(c, [step |-> "save", slips |-> new])
                        /\ placed' = placed + 1 /\ counter' = counter + 1
                        /\ Listed(new, placed + 1)
                        /\ Follows(slips, new)
<1>1. PICK legs : legs = scall[c].legs
  OBVIOUS
<1>2. legs \in Seq(Leg)
  <2>1. scall[c].step = "load" /\ BetCall(scall[c], placed)
    BY Zenon DEF LoadSlips, SportsInv
  <2> QED
    BY <1>1, <2>1 DEF BetCall, SRest
<1>3. PICK slip : slip = [bet |-> placed + 1, id |-> counter + 1, legs |-> legs, status |-> "pending",
                         returned |-> price(legs)]
  OBVIOUS
<1>4. PICK kept : kept = IF Len(slips) < MaxSlips THEN slips ELSE SubSeq(slips, 1, MaxSlips - 1)
  OBVIOUS
<1>5. PICK new : new = <<slip>> \o kept
  OBVIOUS
<1>6. /\ IF isValid(legs)
         THEN placed' = placed + 1 /\ counter' = counter + 1 /\ SGo(c, [step |-> "save", slips |-> new])
         ELSE SGo(c, SRest) /\ UNCHANGED <<placed, counter>>
      /\ UNCHANGED <<book, matches, slips, soverlapped>>
  BY <1>1, <1>3, <1>4, <1>5, Zenon DEF LoadSlips
<1>7. placed \in Nat /\ Listed(slips, placed) /\ counter \in 0 .. placed
  BY DEF SportsInv
<1>10. counter + 1 \in Nat /\ counter + 1 \in 1 .. placed + 1
  BY <1>7
<1>8. slip \in SoundSlip /\ slip.bet = placed + 1 /\ slip.id \in 1 .. placed + 1
  <2>1. slip \in SoundSlip /\ slip.bet = placed + 1 /\ slip.id = counter + 1
    BY <1>2, <1>3, <1>7, <1>10, NewSlipSound
  <2> QED
    BY <1>10, <2>1
<1>9. Listed(new, placed + 1) /\ Follows(slips, new)
  BY <1>4, <1>5, <1>7, <1>8, HeadedBy
<1> QED
  BY <1>6, <1>9, Zenon

LEMMA LoadStep == ASSUME SportsInv, NEW c \in SCalls, LoadSlips(c) PROVE SportsInv'
<1>1. placed \in Nat /\ counter \in 0 .. placed
  BY DEF SportsInv
<1>2. UNCHANGED <<book, matches, slips>>
  BY Loads
<1>3. CASE SGo(c, SRest) /\ UNCHANGED <<placed, counter>>
  <2>1. BetCall(SRest, placed')
    BY DEF BetCall
  <2> QED
    BY <1>1, <1>2, <1>3, <2>1, BetGoesOn
<1>4. CASE \E new : /\ SGo(c, [step |-> "save", slips |-> new])
                    /\ placed' = placed + 1 /\ counter' = counter + 1
                    /\ Listed(new, placed + 1)
  <2>1. PICK new : /\ SGo(c, [step |-> "save", slips |-> new])
                   /\ placed' = placed + 1 /\ counter' = counter + 1
                   /\ Listed(new, placed + 1)
    BY <1>4
  <2>2. PICK next : next = [step |-> "save", slips |-> new]
    OBVIOUS
  <2>3. BetCall(next, placed')
    BY <2>1, <2>2 DEF BetCall
  <2>4. placed' \in Nat /\ placed <= placed' /\ counter' \in 0 .. placed'
    BY <1>1, <2>1
  <2> QED
    BY <1>2, <2>1, <2>2, <2>3, <2>4, BetGoesOn
<1> QED
  BY <1>3, <1>4, Loads, Zenon

LEMMA SaveSlipsStep == ASSUME SportsInv, NEW c \in SCalls, SaveSlips(c) PROVE SportsInv'
<1>1. scall[c].step = "save" /\ slips' = scall[c].slips /\ SGo(c, SRest)
      /\ UNCHANGED <<book, matches, placed, counter>>
  BY DEF SaveSlips
<1>2. Listed(slips', placed)
  <2>1. BetCall(scall[c], placed)
    BY DEF SportsInv
  <2> QED
    BY <1>1, <2>1 DEF BetCall, SRest
<1>3. DOMAIN scall' = SCalls /\ scall'[c] = SRest /\ \A d \in SCalls : d # c => scall'[d] = scall[d]
  BY <1>1, SGoes, Zenon DEF SportsInv
<1>4. \A d \in SCalls : BetCall(scall'[d], placed)
  BY <1>3 DEF SportsInv, BetCall
<1> QED
  BY <1>1, <1>2, <1>3, <1>4 DEF SportsInv, MatchesTyped

LEMMA SweepStep == ASSUME SportsInv, NEW c \in SCalls, Sweep(c) PROVE SportsInv'
<1>1. PICK next : next = [step |-> "sweep", slips |-> slips, next |-> 1, changed |-> FALSE]
  OBVIOUS
<1>2. SBegin(c, next)
  BY <1>1 DEF Sweep
<1>3. next.step = "sweep" /\ next.slips = slips /\ DOMAIN next = {"step", "slips", "next", "changed"}
  BY <1>1
<1>4. BetCall(next, placed)
  BY <1>3 DEF BetCall, SportsInv
<1> QED
  BY <1>2, <1>4, SBegins

(* A non-empty set of places of a list has a first one.                      *)
LEMMA FirstPlace ==
  ASSUME NEW n \in Nat, NEW T, T \subseteq 1 .. n, T # {}
  PROVE  \E i \in T : \A j \in T : i <= j
<1>1. PICK S : S = {1 .. i : i \in T}
  OBVIOUS
<1>2. \A i \in T : i \in Nat /\ 1 .. i \subseteq 1 .. n
  OBVIOUS
<1>3. S \in SUBSET (SUBSET (1 .. n)) /\ S # {}
  BY <1>1, <1>2
<1>4. IsFiniteSet(1 .. n)
  BY FS_Interval
<1>5. PICK m \in S : \A s \in S : s \subseteq m => s = m
  <2>1. PICK U : U = 1 .. n
    OBVIOUS
  <2>2. IsFiniteSet(U) /\ S \in SUBSET (SUBSET U) /\ S # {}
    BY <1>3, <1>4, <2>1
  <2> QED
    BY <2>2, LeastSet
<1>6. PICK i \in T : m = 1 .. i
  BY <1>1, <1>5
<1>7. ASSUME NEW j \in T, j < i PROVE FALSE
  <2>1. 1 .. j \in S /\ 1 .. j \subseteq m
    BY <1>1, <1>2, <1>6, <1>7
  <2>2. 1 .. j = 1 .. i
    BY <1>5, <1>6, <2>1
  <2>3. i \in 1 .. i /\ i \notin 1 .. j
    BY <1>2, <1>7
  <2> QED
    BY <2>2, <2>3
<1> QED
  BY <1>2, <1>7

(* A sweep settles what is pending and leaves the rest of its list alone.    *)
Resettled(old, new) ==
  /\ Len(new) = Len(old) /\ DOMAIN new = DOMAIN old
  /\ \A i \in DOMAIN old : /\ new[i].bet = old[i].bet
                           /\ old[i].status # "pending" => new[i] = old[i]

LEMMA ResettledFollows ==
  ASSUME NEW a, NEW old, NEW new, Follows(a, old), Resettled(old, new)
  PROVE  Follows(a, new)
<1>1. Kept(a, new)
  <2>1. ASSUME NEW i \in DOMAIN a, NEW j \in DOMAIN new, a[i].bet = new[j].bet, a[i].status # "pending"
        PROVE  new[j] = a[i]
    <3>1. j \in DOMAIN old /\ old[j].bet = a[i].bet
      BY <2>1 DEF Resettled
    <3>2. old[j] = a[i]
      BY <2>1, <3>1 DEF Follows, Kept
    <3> QED
      BY <2>1, <3>1, <3>2 DEF Resettled
  <2> QED
    BY <2>1 DEF Kept
<1>2. Grown(a, new)
  BY DEF Follows, Grown, Resettled
<1> QED
  BY <1>1, <1>2 DEF Follows

LEMMA SettleOne ==
  ASSUME NEW n \in Nat, NEW list, Listed(list, n), NEW i \in DOMAIN list, list[i].status = "pending",
         NEW done \in SoundSlip, done.bet = list[i].bet, done.id = list[i].id, NEW new, new = [list EXCEPT ![i] = done]
  PROVE  Listed(new, n) /\ Resettled(list, new)
<1>1. list \in Seq(SoundSlip) /\ Len(list) <= MaxSlips /\ Distinct(list)
      /\ \A j \in DOMAIN list : list[j].bet \in 1 .. n /\ list[j].id \in 1 .. n
  BY DEF Listed
<1>2. new \in Seq(SoundSlip) /\ Len(new) = Len(list)
  BY <1>1, ExceptSeq
<1>3. DOMAIN new = DOMAIN list /\ \A j \in DOMAIN list : new[j] = IF j = i THEN done ELSE list[j]
  OBVIOUS
<1>4. \A j \in DOMAIN list : new[j].bet = list[j].bet /\ new[j].id = list[j].id
  BY <1>3
<1>5. Resettled(list, new)
  BY <1>2, <1>3, <1>4 DEF Resettled
<1>6. Distinct(new)
  <2>1. ASSUME NEW x \in DOMAIN new, NEW y \in DOMAIN new, new[x].bet = new[y].bet PROVE x = y
    <3>1. x \in DOMAIN list /\ y \in DOMAIN list /\ list[x].bet = list[y].bet
      BY <1>3, <1>4, <2>1
    <3> QED
      BY <1>1, <3>1 DEF Distinct
  <2> QED
    BY <2>1 DEF Distinct
<1>7. \A j \in DOMAIN new : new[j].bet \in 1 .. n /\ new[j].id \in 1 .. n
  BY <1>1, <1>3, <1>4, Zenon
<1> QED
  BY <1>1, <1>2, <1>5, <1>6, <1>7 DEF Listed

LEMMA Sweeps ==
  ASSUME SportsInv, NEW c \in SCalls, SweepOne(c)
  PROVE  /\ UNCHANGED <<book, matches, slips, placed, counter, soverlapped>>
         /\ scall[c].step = "sweep"
         /\ \/ SGo(c, SRest)
            \/ \E next : /\ SGo(c, next) /\ next.step \in {"sweep", "save"}
                         /\ BetCall(next, placed)
                         /\ Resettled(scall[c].slips, next.slips)
<1>1. PICK k : k = scall[c]
  OBVIOUS
<1>2. k.step = "sweep" /\ Listed(k.slips, placed) /\ DOMAIN k = {"step", "slips", "next", "changed"}
  <2>1. k.step = "sweep" /\ BetCall(k, placed)
    BY <1>1, Zenon DEF SweepOne, SportsInv
  <2> QED
    BY <2>1 DEF BetCall, SRest
<1>3. PICK list : list = k.slips
  OBVIOUS
<1>4. PICK todo : todo = pendingFrom(k.slips, k.next)
  OBVIOUS
<1>5. PICK i : i = CHOOSE x \in todo : \A y \in todo : x <= y
  OBVIOUS
<1>6. PICK done : done = settleSlip(list[i], matches)
  OBVIOUS
<1>7. PICK new : new = [list EXCEPT ![i] = done]
  OBVIOUS
<1>8. PICK saved : saved = [step |-> "save", slips |-> list]
  OBVIOUS
<1>9. PICK settled : settled = [k EXCEPT !.slips = new, !.next = i + 1, !.changed = TRUE]
  OBVIOUS
<1>10. PICK passed : passed = [k EXCEPT !.next = i + 1]
  OBVIOUS
<1>11. [k EXCEPT !.slips[i] = done, !.next = i + 1, !.changed = TRUE] = settled
  BY <1>3, <1>7, <1>9, Zenon
<1>12. /\ IF todo = {} THEN SGo(c, IF k.changed THEN saved ELSE SRest)
          ELSE IF hasResults(list[i]) /\ done.status # "pending"
          THEN SGo(c, [k EXCEPT !.slips[i] = done, !.next = i + 1, !.changed = TRUE])
          ELSE SGo(c, passed)
       /\ UNCHANGED <<book, matches, slips, placed, counter, soverlapped>>
  BY <1>1, <1>3, <1>4, <1>5, <1>6, <1>8, <1>10, Zenon DEF SweepOne
<1>13. list \in Seq(SoundSlip) /\ placed \in Nat
  BY <1>2, <1>3 DEF Listed, SportsInv
<1>14. Resettled(list, list)
  BY DEF Resettled
<1>15. ASSUME todo = {}, SGo(c, saved)
       PROVE \E next : /\ SGo(c, next) /\ next.step \in {"sweep", "save"}
                       /\ BetCall(next, placed) /\ Resettled(scall[c].slips, next.slips)
  <2>1. saved.step = "save" /\ saved.slips = list
    BY <1>8
  <2>2. BetCall(saved, placed)
    BY <1>2, <1>3, <2>1 DEF BetCall
  <2> QED
    BY <1>1, <1>3, <1>14, <1>15, <2>1, <2>2
<1>16. passed.step = "sweep" /\ passed.slips = list /\ DOMAIN passed = {"step", "slips", "next", "changed"}
  BY <1>2, <1>3, <1>10
<1>17. ASSUME SGo(c, passed)
       PROVE \E next : /\ SGo(c, next) /\ next.step \in {"sweep", "save"}
                       /\ BetCall(next, placed) /\ Resettled(scall[c].slips, next.slips)
  <2>1. BetCall(passed, placed)
    BY <1>2, <1>3, <1>16 DEF BetCall
  <2> QED
    BY <1>1, <1>3, <1>14, <1>16, <1>17, <2>1
<1>18. settled.step = "sweep" /\ settled.slips = new /\ DOMAIN settled = {"step", "slips", "next", "changed"}
  BY <1>2, <1>9
<1>19. ASSUME todo # {}
       PROVE  i \in DOMAIN list /\ list[i].status = "pending"
  <2>1. PICK n \in Nat : DOMAIN list = 1 .. n
    BY <1>13
  <2>2. todo \subseteq 1 .. n
    BY <1>3, <1>4, <2>1 DEF pendingFrom
  <2>3. \E x \in todo : \A y \in todo : x <= y
    BY <1>19, <2>2, FirstPlace
  <2>4. i \in todo
    BY <1>5, <2>3, Zenon
  <2> QED
    BY <1>3, <1>4, <2>4 DEF pendingFrom
<1>20. ASSUME todo # {}, SGo(c, settled)
       PROVE \E next : /\ SGo(c, next) /\ next.step \in {"sweep", "save"}
                       /\ BetCall(next, placed) /\ Resettled(scall[c].slips, next.slips)
  <2>1. i \in DOMAIN list /\ list[i].status = "pending"
    BY <1>19, <1>20
  <2>2. list[i] \in Slip
    BY <1>13, <2>1 DEF SoundSlip
  <2>3. done \in SoundSlip /\ done.bet = list[i].bet /\ done.id = list[i].id
    BY <1>6, <2>2, SettledSound
  <2>4. Listed(new, placed) /\ Resettled(list, new)
    BY <1>2, <1>3, <1>7, <1>13, <2>1, <2>3, SettleOne
  <2>5. BetCall(settled, placed)
    BY <1>18, <2>4 DEF BetCall
  <2> QED
    BY <1>1, <1>3, <1>18, <1>20, <2>4, <2>5
<1>21. CASE todo = {}
  BY <1>1, <1>2, <1>12, <1>15, <1>21, Zenon
<1>22. CASE todo # {}
  BY <1>1, <1>2, <1>11, <1>12, <1>17, <1>20, <1>22, Zenon
<1> QED
  BY <1>21, <1>22

LEMMA SweepOneStep == ASSUME SportsInv, NEW c \in SCalls, SweepOne(c) PROVE SportsInv'
<1>1. UNCHANGED <<book, matches, slips, placed, counter>> /\ placed \in Nat /\ counter \in 0 .. placed
  BY Sweeps DEF SportsInv
<1>2. BetCall(SRest, placed)
  BY DEF BetCall
<1>3. CASE SGo(c, SRest)
  BY <1>1, <1>2, <1>3, BetGoesOn
<1>4. CASE \E next : SGo(c, next) /\ BetCall(next, placed)
  <2>1. PICK next : SGo(c, next) /\ BetCall(next, placed)
    BY <1>4
  <2> QED
    BY <1>1, <2>1, BetGoesOn
<1> QED
  BY <1>3, <1>4, Sweeps, Zenon

LEMMA ChangeMatchStep == ASSUME SportsInv, NEW c \in SCalls, ChangeMatch(c) PROVE SportsInv'
<1>1. PICK m \in DOMAIN matches : \E row \in changesOf(m, matches[m]) :
        SBegin(c, [step |-> "saveMatch", match |-> m, row |-> row])
  BY DEF ChangeMatch
<1>2. PICK row \in changesOf(m, matches[m]) : SBegin(c, [step |-> "saveMatch", match |-> m, row |-> row])
  BY <1>1
<1>3. PICK next : next = [step |-> "saveMatch", match |-> m, row |-> row]
  OBVIOUS
<1>4. m \in DOMAIN Fixtures /\ RowTyped(m, matches[m]) /\ book \in Books
  BY DEF SportsInv, MatchesTyped
<1>5. RowTyped(m, row)
  BY <1>4, ChangedTyped
<1>6. BetCall(next, placed)
  BY <1>3, <1>4, <1>5 DEF BetCall
<1> QED
  BY <1>2, <1>3, <1>6, SBegins

(* Writing a row that is typed.                                              *)
LEMMA WriteTyped ==
  ASSUME MatchesTyped, NEW m \in DOMAIN Fixtures, NEW row, RowTyped(m, row), writeMatch(m, row)
  PROVE  MatchesTyped'
<1>1. PICK new : new = [n \in DOMAIN matches \cup {m} |-> IF n = m THEN row ELSE matches[n]]
  OBVIOUS
<1>2. matches' = new
  BY <1>1 DEF writeMatch
<1>3. DOMAIN new = DOMAIN matches \cup {m}
      /\ \A n \in DOMAIN matches \cup {m} : new[n] = IF n = m THEN row ELSE matches[n]
  BY <1>1
<1>4. \A n \in DOMAIN new : n \in DOMAIN Fixtures /\ RowTyped(n, new[n])
  BY <1>3, Zenon DEF MatchesTyped
<1> QED
  BY <1>2, <1>4 DEF MatchesTyped, RowTyped

LEMMA SaveMatchStep == ASSUME SportsInv, NEW c \in SCalls, SaveMatch(c) PROVE SportsInv'
<1>1. /\ scall[c].step = "saveMatch" /\ writeMatch(scall[c].match, scall[c].row) /\ SGo(c, SRest)
      /\ UNCHANGED <<book, slips, placed, counter>>
  BY DEF SaveMatch
<1>2. scall[c].match \in DOMAIN Fixtures /\ RowTyped(scall[c].match, scall[c].row)
  <2>1. BetCall(scall[c], placed)
    BY DEF SportsInv
  <2> QED
    BY <1>1, <2>1 DEF BetCall, SRest
<1>3. MatchesTyped'
  BY <1>1, <1>2, WriteTyped DEF SportsInv
<1>4. DOMAIN scall' = SCalls /\ scall'[c] = SRest /\ \A d \in SCalls : d # c => scall'[d] = scall[d]
  BY <1>1, SGoes, Zenon DEF SportsInv
<1>5. \A d \in SCalls : BetCall(scall'[d], placed)
  BY <1>4 DEF SportsInv, BetCall
<1> QED
  BY <1>1, <1>3, <1>4, <1>5 DEF SportsInv

LEMMA UpsertMatchStep == SportsInv /\ UpsertMatch => SportsInv'
<1> SUFFICES ASSUME SportsInv, UpsertMatch PROVE SportsInv'
  OBVIOUS
<1>1. PICK m \in betOn : \E fixture \in Fixtures[m] : writeMatch(m, OpenMatch(fixture))
  BY DEF UpsertMatch
<1>2. PICK fixture \in Fixtures[m] : writeMatch(m, OpenMatch(fixture))
  BY <1>1
<1>4. m \in DOMAIN Fixtures
  BY BetOnFixtures DEF SportsInv
<1>3. MatchesTyped'
  BY <1>2, <1>4, OpenTyped, WriteTyped DEF SportsInv
<1> QED
  BY <1>3 DEF UpsertMatch, SportsInv

LEMMA RemoveMatchStep == SportsInv /\ RemoveMatch => SportsInv'
<1> SUFFICES ASSUME SportsInv, RemoveMatch PROVE SportsInv'
  OBVIOUS
<1>1. PICK m \in DOMAIN matches : matches' = [n \in DOMAIN matches \ {m} |-> matches[n]]
  BY DEF RemoveMatch
<1>2. MatchesTyped'
  <2>1. PICK new : new = [n \in DOMAIN matches \ {m} |-> matches[n]]
    OBVIOUS
  <2>2. matches' = new
    BY <1>1, <2>1
  <2>3. \A n \in DOMAIN new : n \in DOMAIN matches /\ new[n] = matches[n]
    BY <2>1
  <2>4. \A n \in DOMAIN new : n \in DOMAIN Fixtures /\ RowTyped(n, new[n])
    BY <2>3, Zenon DEF SportsInv, MatchesTyped
  <2> QED
    BY <2>2, <2>4 DEF MatchesTyped, RowTyped
<1> QED
  BY <1>2 DEF RemoveMatch, SportsInv

LEMMA ExpiresStep == SportsInv /\ ListExpires => SportsInv'
<1> SUFFICES ASSUME SportsInv, ListExpires PROVE SportsInv'
  OBVIOUS
<1>1. slips' = <<>> /\ UNCHANGED <<book, matches, placed, counter, scall>>
  BY DEF ListExpires
<1>2. Listed(slips', placed)
  BY <1>1, SportsAssumption DEF Listed, Distinct
<1> QED
  BY <1>1, <1>2 DEF SportsInv, MatchesTyped

LEMMA RestartsStep == SportsInv /\ ProcessRestarts => SportsInv'
<1> SUFFICES ASSUME SportsInv, ProcessRestarts PROVE SportsInv'
  OBVIOUS
<1>1. counter' = 0 /\ scall' = [c \in SCalls |-> SRest] /\ UNCHANGED <<book, matches, slips, placed>>
  BY DEF ProcessRestarts
<1>2. counter' \in 0 .. placed'
  BY <1>1 DEF SportsInv
<1>3. DOMAIN scall' = SCalls /\ \A c \in SCalls : BetCall(scall'[c], placed)
  BY <1>1 DEF BetCall
<1> QED
  BY <1>1, <1>2, <1>3 DEF SportsInv, MatchesTyped

LEMMA SportsStep == SportsInv /\ [SportsNext]_svars => SportsInv'
<1> SUFFICES ASSUME SportsInv, [SportsNext]_svars PROVE SportsInv'
  OBVIOUS
<1>1. CASE \E c \in SCalls :
             \/ Place(c) \/ ResolveLeg(c) \/ LoadSlips(c) \/ SaveSlips(c)
             \/ Sweep(c) \/ SweepOne(c)
             \/ ChangeMatch(c) \/ SaveMatch(c)
  BY <1>1, PlaceStep, ResolveStep, LoadStep, SaveSlipsStep, SweepStep, SweepOneStep, ChangeMatchStep,
     SaveMatchStep
<1>2. CASE UNCHANGED svars
  BY <1>2 DEF svars, SportsInv, MatchesTyped
<1> QED
  BY <1>1, <1>2, UpsertMatchStep, RemoveMatchStep, ExpiresStep, RestartsStep DEF SportsNext

(* A settled slip is what its legs make of it, whatever became of odds,      *)
(* markets and matches since it was placed, and its legs are what their own  *)
(* matches made of them unless two share the id of a selection; however      *)
(* calls overlap, lists lapse and the process restarts.                      *)
THEOREM SlipsCorrect == SportsSpec => []SlipFollowsLegs
<1>1. SportsInv => SlipFollowsLegs
  <2>1. ASSUME SportsInv, NEW i \in DOMAIN slips
        PROVE  followsLegs(slips[i]) /\ (hasApartLegs(slips[i]) => followsMatches(slips[i]))
    <3>1. slips \in Seq(SoundSlip)
      BY <2>1 DEF SportsInv, Listed
    <3>2. slips[i] \in SoundSlip
      BY <3>1, <2>1
    <3> QED
      BY <3>2 DEF SoundSlip
  <2> QED
    BY <2>1 DEF SlipFollowsLegs
<1> QED
  BY <1>1, SportsInit1, SportsStep, PTL DEF SportsSpec

(* The types of the bets.                                                    *)
THEOREM SportsTypeCorrect == SportsSpec => []SportsTypeOK
<1>1. SportsInv => SportsTypeOK
  <2>1. SUFFICES ASSUME SportsInv PROVE SportsTypeOK
    OBVIOUS
  <2>2. slips \in Seq(SoundSlip) /\ Len(slips) <= MaxSlips 
        /\ \A i \in DOMAIN slips : slips[i].bet \in 1 .. placed /\ slips[i].id \in 1 .. placed
    BY <2>1 DEF SportsInv, Listed
  <2>3. ASSUME NEW i \in DOMAIN slips
        PROVE  slips[i].status \in SlipStatuses /\ slips[i].legs \in Seq(Leg)
    <3>1. slips[i] \in Slip
      BY <2>2 DEF SoundSlip
    <3> QED
      BY <3>1 DEF Slip
  <2>4. ASSUME NEW i \in DOMAIN slips, NEW j \in DOMAIN slips[i].legs
        PROVE  slips[i].legs[j].status \in SlipStatuses
    <3>1. slips[i].legs[j] \in Leg
      BY <2>3, <2>4, LegsFinite
    <3> QED
      BY <3>1 DEF Leg
  <2>5. DOMAIN matches \subseteq DOMAIN Fixtures /\ counter \in 0 .. placed
    BY <2>1 DEF SportsInv, MatchesTyped
  <2> QED
    BY <2>2, <2>3, <2>4, <2>5 DEF SportsTypeOK
<1> QED
  BY <1>1, SportsInit1, SportsStep, PTL DEF SportsSpec

(* While no calls overlapped one is under way at most, and the list it works *)
(* on follows from the list as it stands: this is what makes a whole list    *)
(* safe to write back.                                                       *)
InTurn ==
  \/ soverlapped
  \/ /\ \A c, d \in SCalls : scall[c] # SRest /\ scall[d] # SRest => c = d
     /\ \A c \in SCalls : scall[c].step \in {"sweep", "save"} => Follows(slips, scall[c].slips)

LEMMA RestIsIdle == \A k : k.step # "idle" => k # SRest
  BY DEF SRest

LEMMA FollowsItself == ASSUME NEW n, NEW list, Listed(list, n) PROVE Follows(list, list)
<1>1. Kept(list, list)
  BY DEF Listed, Distinct, Kept
<1>2. Grown(list, list)
  BY DEF Grown
<1> QED
  BY <1>1, <1>2 DEF Follows

LEMMA TurnGoesOn ==
  ASSUME SportsInv, InTurn, NEW c \in SCalls, scall[c] # SRest, NEW next, SGo(c, next),
         UNCHANGED <<slips, soverlapped>>,
         ~soverlapped /\ next.step \in {"sweep", "save"} => Follows(slips, next.slips)
  PROVE  InTurn'
<1>1. scall'[c] = next /\ \A d \in SCalls : d # c => scall'[d] = scall[d]
  BY SGoes, Zenon DEF SportsInv
<1>2. CASE soverlapped
  BY <1>2 DEF InTurn
<1>3. CASE ~soverlapped
  <2>1. /\ \A a, b \in SCalls : scall[a] # SRest /\ scall[b] # SRest => a = b
        /\ \A a \in SCalls : scall[a].step \in {"sweep", "save"} => Follows(slips, scall[a].slips)
    BY <1>3 DEF InTurn
  <2>2. \A a \in SCalls : scall'[a] # SRest => a = c
    BY <1>1, <2>1, Zenon
  <2>3. ASSUME NEW a \in SCalls, scall'[a].step \in {"sweep", "save"}
        PROVE  Follows(slips', scall'[a].slips)
    <3>1. CASE a = c
      BY <1>1, <1>3, <2>3, <3>1, Zenon DEF Follows, Kept, Grown
    <3>2. CASE a # c
      <4>1. scall'[a] = scall[a]
        BY <1>1, <3>2
      <4>2. Follows(slips, scall[a].slips)
        BY <2>1, <2>3, <4>1
      <4>3. slips' = slips
        OBVIOUS
      <4> QED
        BY <4>1, <4>2, <4>3, Zenon
    <3> QED
      BY <3>1, <3>2
  <2> QED
    BY <2>2, <2>3, Zenon DEF InTurn
<1> QED
  BY <1>2, <1>3

LEMMA TurnBegins ==
  ASSUME SportsInv, InTurn, NEW c \in SCalls, NEW next, SBegin(c, next),
         next.step \in {"sweep", "save"} => Follows(slips, next.slips)
  PROVE  InTurn'
<1>1. SGo(c, next) /\ slips' = slips /\ soverlapped' = (soverlapped \/ ~SportsQuiet)
  BY DEF SBegin
<1>2. scall'[c] = next /\ \A d \in SCalls : d # c => scall'[d] = scall[d]
  BY <1>1, SGoes, Zenon DEF SportsInv
<1>3. CASE soverlapped \/ ~SportsQuiet
  BY <1>1, <1>3 DEF InTurn
<1>4. CASE ~soverlapped /\ SportsQuiet
  <2>1. \A d \in SCalls : d # c => scall'[d] = SRest
    BY <1>2, <1>4 DEF SportsQuiet
  <2>2. \A a, b \in SCalls : scall'[a] # SRest /\ scall'[b] # SRest => a = b
    BY <2>1, Zenon
  <2>3. ASSUME NEW a \in SCalls, scall'[a].step \in {"sweep", "save"}
        PROVE  Follows(slips, scall'[a].slips)
    <3>1. a = c
      BY <2>1, <2>3, RestIsIdle DEF SRest
    <3> QED
      BY <1>2, <2>3, <3>1, Zenon
  <2> QED
    BY <1>1, <2>2, <2>3, Zenon DEF InTurn, Follows, Kept, Grown
<1> QED
  BY <1>3, <1>4

LEMMA TurnsStep ==
  ASSUME SportsInv, InTurn, NEW c \in SCalls,
         Place(c) \/ ResolveLeg(c) \/ LoadSlips(c) \/ Sweep(c) \/ SweepOne(c) \/ ChangeMatch(c)
  PROVE  InTurn' /\ slips' = slips
<1>1. SRest.step = "idle"
  BY DEF SRest
<1>2. CASE Place(c)
  <2>1. PICK refs : SBegin(c, [step |-> "resolve", refs |-> refs, legs |-> <<>>])
    BY <1>2 DEF Place
  <2>2. PICK next : next = [step |-> "resolve", refs |-> refs, legs |-> <<>>]
    OBVIOUS
  <2>3. next.step \notin {"sweep", "save"}
    BY <2>2
  <2>4. SBegin(c, next)
    BY <2>1, <2>2
  <2> QED
    BY <2>3, <2>4, TurnBegins DEF SBegin
<1>3. CASE ResolveLeg(c)
  <2>1. scall[c].step = "resolve" /\ UNCHANGED <<slips, soverlapped>>
    BY <1>3, Zenon DEF ResolveLeg
  <2>2. \E next : SGo(c, next) /\ next.step \notin {"sweep", "save"}
    <3>1. PICK ref : ref = Head(scall[c].refs)
      OBVIOUS
    <3>2. PICK leg : leg = [match |-> ref[1], market |-> ref[2], selection |-> ref[3],
                            odds |-> matches[ref[1]].odds[ref[2]][ref[3]], status |-> "pending",
                        own |-> "pending"]
      OBVIOUS
    <3>3. PICK to : to = [step |-> IF Len(scall[c].refs) = 1 THEN "load" ELSE "resolve",
                          refs |-> Tail(scall[c].refs), legs |-> Append(scall[c].legs, leg)]
      OBVIOUS
    <3>4. SGo(c, IF ~isOpen(ref[1], ref[2], ref[3]) THEN SRest ELSE to)
      BY <1>3, <3>1, <3>2, <3>3, Zenon DEF ResolveLeg
    <3>5. to.step \notin {"sweep", "save"}
      BY <3>3
    <3> QED
      BY <1>1, <3>4, <3>5
  <2>3. PICK next : SGo(c, next) /\ next.step \notin {"sweep", "save"}
    BY <2>2
  <2> QED
    BY <2>1, <2>3, RestIsIdle, TurnGoesOn
<1>4. CASE LoadSlips(c)
  <2>1. scall[c] # SRest /\ UNCHANGED <<slips, soverlapped>>
    BY <1>1, <1>4 DEF LoadSlips
  <2>2. CASE SGo(c, SRest)
    BY <1>1, <2>1, <2>2, TurnGoesOn
  <2>3. CASE \E new : SGo(c, [step |-> "save", slips |-> new]) /\ Follows(slips, new)
    <3>1. PICK new : SGo(c, [step |-> "save", slips |-> new]) /\ Follows(slips, new)
      BY <2>3
    <3>2. PICK next : next = [step |-> "save", slips |-> new]
      OBVIOUS
    <3>3. next.slips = new
      BY <3>2
    <3> QED
      BY <2>1, <3>1, <3>2, <3>3, TurnGoesOn
  <2> QED
    BY <1>4, <2>2, <2>3, Loads, Zenon
<1>5. CASE Sweep(c)
  <2>1. PICK next : next = [step |-> "sweep", slips |-> slips, next |-> 1, changed |-> FALSE]
    OBVIOUS
  <2>2. SBegin(c, next) /\ next.slips = slips
    BY <1>5, <2>1 DEF Sweep
  <2>3. Follows(slips, slips)
    BY FollowsItself DEF SportsInv
  <2> QED
    BY <2>2, <2>3, TurnBegins DEF SBegin
<1>6. CASE SweepOne(c)
  <2>1. scall[c].step = "sweep" /\ scall[c] # SRest /\ UNCHANGED <<slips, soverlapped>>
    BY <1>1, <1>6, Sweeps
  <2>2. CASE SGo(c, SRest)
    BY <1>1, <2>1, <2>2, TurnGoesOn
  <2>3. CASE \E next : SGo(c, next) /\ Resettled(scall[c].slips, next.slips)
    <3>1. PICK next : SGo(c, next) /\ Resettled(scall[c].slips, next.slips)
      BY <2>3
    <3>2. ~soverlapped => Follows(slips, scall[c].slips)
      BY <2>1 DEF InTurn
    <3>3. ~soverlapped => Follows(slips, next.slips)
      BY <3>1, <3>2, ResettledFollows
    <3> QED
      BY <2>1, <3>1, <3>3, TurnGoesOn
  <2> QED
    BY <1>6, <2>2, <2>3, Sweeps, Zenon
<1>7. CASE ChangeMatch(c)
  <2>1. PICK m, row : SBegin(c, [step |-> "saveMatch", match |-> m, row |-> row])
    BY <1>7 DEF ChangeMatch
  <2>2. PICK next : next = [step |-> "saveMatch", match |-> m, row |-> row]
    OBVIOUS
  <2>3. next.step \notin {"sweep", "save"}
    BY <2>2
  <2>4. SBegin(c, next)
    BY <2>1, <2>2
  <2> QED
    BY <2>3, <2>4, TurnBegins DEF SBegin
<1> QED
  BY <1>2, <1>3, <1>4, <1>5, <1>6, <1>7

LEMMA SaveTurns ==
  ASSUME SportsInv, InTurn, NEW c \in SCalls, SaveSlips(c)
  PROVE  InTurn' /\ (~soverlapped => Follows(slips, slips'))
<1>1. scall[c].step = "save" /\ slips' = scall[c].slips /\ SGo(c, SRest) /\ soverlapped' = soverlapped
  BY DEF SaveSlips
<1>2. scall'[c] = SRest /\ \A d \in SCalls : d # c => scall'[d] = scall[d]
  BY <1>1, SGoes, Zenon DEF SportsInv
<1>3. SRest.step = "idle" /\ scall[c] # SRest
  BY <1>1 DEF SRest
<1>4. CASE soverlapped
  BY <1>1, <1>4 DEF InTurn
<1>5. CASE ~soverlapped
  <2>1. /\ \A a, b \in SCalls : scall[a] # SRest /\ scall[b] # SRest => a = b
        /\ Follows(slips, scall[c].slips)
    BY <1>1, <1>5 DEF InTurn
  <2>2. \A d \in SCalls : scall'[d] = SRest
    BY <1>2, <1>3, <2>1, Zenon
  <2>3. InTurn'
    BY <1>3, <2>2 DEF InTurn
  <2> QED
    BY <1>1, <2>1, <2>3
<1> QED
  BY <1>4, <1>5

(* A list that follows another settles nothing twice and drops nothing.      *)
LEMMA FollowsSettled ==
  ASSUME NEW old, NEW new, Follows(old, new)
  PROVE  /\ \A b \in betsOf(old) \cap betsOf(new) :
              slipOf(old, b).status # "pending" => slipOf(new, b) = slipOf(old, b)
         /\ betsOf(old) \subseteq betsOf(new) \/ Len(new) = MaxSlips
<1>1. ASSUME NEW list, NEW b \in betsOf(list)
      PROVE  \E i \in DOMAIN list : list[i].bet = b /\ slipOf(list, b) = list[i]
  <2>1. PICK i : i = CHOOSE x \in DOMAIN list : list[x].bet = b
    OBVIOUS
  <2>2. \E x \in DOMAIN list : list[x].bet = b
    BY DEF betsOf
  <2>3. i \in DOMAIN list /\ list[i].bet = b
    BY <2>1, <2>2, Zenon
  <2>4. slipOf(list, b) = list[i]
    BY <2>1 DEF slipOf
  <2> QED
    BY <2>3, <2>4
<1>2. ASSUME NEW b \in betsOf(old) \cap betsOf(new), slipOf(old, b).status # "pending"
      PROVE  slipOf(new, b) = slipOf(old, b)
  <2>1. PICK i \in DOMAIN old : old[i].bet = b /\ slipOf(old, b) = old[i]
    BY <1>1
  <2>2. PICK j \in DOMAIN new : new[j].bet = b /\ slipOf(new, b) = new[j]
    BY <1>1
  <2> QED
    BY <1>2, <2>1, <2>2 DEF Follows, Kept
<1>3. betsOf(old) \subseteq betsOf(new) \/ Len(new) = MaxSlips
  <2>1. ASSUME \A i \in DOMAIN old : \E j \in DOMAIN new : new[j].bet = old[i].bet,
               NEW b \in betsOf(old)
        PROVE  b \in betsOf(new)
    <3>1. PICK i \in DOMAIN old : old[i].bet = b
      BY DEF betsOf
    <3>2. PICK j \in DOMAIN new : new[j].bet = b
      BY <2>1, <3>1
    <3> QED
      BY <3>2 DEF betsOf
  <2> QED
    BY <2>1, Zenon DEF Follows, Grown
<1> QED
  BY <1>2, <1>3, Zenon

SettlesOnce ==
  ~soverlapped =>
     /\ \A b \in betsOf(slips) \cap betsOf(slips') :
          slipOf(slips, b).status # "pending" => slipOf(slips', b) = slipOf(slips, b)
     /\ \/ betsOf(slips) \subseteq betsOf(slips')
        \/ Len(slips') = MaxSlips
        \/ slips' = <<>>

LEMMA SettleStep == SportsInv /\ InTurn /\ [SportsNext]_svars => InTurn' /\ [SettlesOnce]_svars
<1> SUFFICES ASSUME SportsInv, InTurn, [SportsNext]_svars PROVE InTurn' /\ [SettlesOnce]_svars
  OBVIOUS
<1>1. Follows(slips, slips)
  BY FollowsItself DEF SportsInv
<1>2. ASSUME slips' = slips PROVE SettlesOnce
  BY <1>1, <1>2, FollowsSettled DEF SettlesOnce
<1>3. ASSUME ~soverlapped => Follows(slips, slips') PROVE SettlesOnce
  BY <1>3, FollowsSettled DEF SettlesOnce
<1>4. CASE \E c \in SCalls : Place(c) \/ ResolveLeg(c) \/ LoadSlips(c) \/ Sweep(c) \/ SweepOne(c) \/ ChangeMatch(c)
  BY <1>2, <1>4, TurnsStep
<1>5. CASE \E c \in SCalls : SaveSlips(c)
  BY <1>3, <1>5, SaveTurns
<1>6. ASSUME NEW c \in SCalls, SaveMatch(c) PROVE InTurn' /\ slips' = slips
  <2>1. SGo(c, SRest) /\ UNCHANGED <<slips, soverlapped>> /\ scall[c] # SRest
    BY <1>6 DEF SaveMatch, SRest
  <2>2. SRest.step \notin {"sweep", "save"}
    BY DEF SRest
  <2> QED
    BY <2>1, <2>2, TurnGoesOn
<1>7. CASE UpsertMatch \/ RemoveMatch \/ UNCHANGED svars
  <2>1. UNCHANGED <<slips, scall, soverlapped>>
    BY <1>7 DEF UpsertMatch, RemoveMatch, svars
  <2> QED
    BY <1>2, <2>1 DEF InTurn
<1>8. CASE ListExpires
  <2>1. slips' = <<>> /\ UNCHANGED <<scall, soverlapped>>
    BY <1>8 DEF ListExpires
  <2>2. \A list : Follows(<<>>, list)
    BY DEF Follows, Kept, Grown
  <2>3. InTurn'
    BY <2>1, <2>2 DEF InTurn
  <2>4. betsOf(slips') = {}
    BY <2>1 DEF betsOf
  <2> QED
    BY <2>1, <2>3, <2>4 DEF SettlesOnce
<1>9. CASE ProcessRestarts
  <2>1. scall' = [c \in SCalls |-> SRest] /\ slips' = slips /\ SRest.step = "idle"
    BY <1>9 DEF ProcessRestarts, SRest
  <2>2. \A c \in SCalls : scall'[c] = SRest
    BY <2>1
  <2>3. InTurn'
    BY <2>1, <2>2 DEF InTurn
  <2> QED
    BY <1>2, <2>1, <2>3
<1> QED
  BY <1>2, <1>4, <1>5, <1>6, <1>7, <1>8, <1>9, Zenon DEF SportsNext

(* A settled slip is never settled again and no slip drops out of a list     *)
(* that is not full unless the whole list lapsed, while calls do not overlap *)
(* but for restarts of the process.                                          *)
THEOREM SettleOnceCorrect == SportsSpec => SlipsSettleOnce
<1>1. SportsInit => InTurn
  BY DEF SportsInit, InTurn, SRest
<1>2. SportsSpec => [][SettlesOnce]_svars
  BY <1>1, SportsInit1, SportsStep, SettleStep, PTL DEF SportsSpec
<1> QED
  BY <1>2 DEF SlipsSettleOnce, SettlesOnce
=============================================================================
