-------------------------- MODULE CrashSessionProofs --------------------------
(* Proofs about CrashSession, for any requests in flight, stakes and         *)
(* multipliers.                                                              *)
EXTENDS CrashSession, SequenceTheorems, SumProofs

(* Crash points are multipliers, like those a player cashes out at.          *)
CrashPointsTyped == \A n \in Nat : CrashPoint(n) \in Nat
-----------------------------------------------------------------------------
(* What the variables hold.                                                  *)
Rounds == Bets \cup {NoRound}

Table == [nonce : Nat, active : Rounds]

StartCall == [op : {"start"}, socket : BOOLEAN, bet : Bets]

SettleCall == [op : {"settle"}, socket : BOOLEAN, at : Multipliers \cup {0}]

EndCall == [op : {"end"}]

Asked == StartCall \cup SettleCall \cup EndCall \cup {NoCall}

Row == [nonce : Nat, bet : Nat \ {0}, win : Nat]

Payment == [bet : Nat \ {0}, win : Nat, open : BOOLEAN]

(* The steps of a settlement, and those of them whose result is on record.   *)
Written == {"totals", "reserve", "commit", "settled"}

Settling == {"settle", "result"} \cup Written

Steps == {"idle", "read", "start", "arm", "end", "delete"} \cup Settling

TableTyped ==
  /\ record \in Table \cup {Gone}
  /\ timer \in [set : {TRUE}, nonce : Nat] \cup {NoTimer}

(* A call is where its request and the table it read allow it to be.         *)
CallTyped(c) ==
  \/ pc[c] = "idle"
  \/ pc[c] = "read" /\ call[c] \in SettleCall
  \/ /\ pc[c] \in {"start", "arm"}
     /\ call[c] \in StartCall
     /\ seen[c] \in Table /\ seen[c].active = NoRound
  \/ /\ pc[c] \in Settling
     /\ call[c] \in SettleCall
     /\ seen[c] \in Table /\ seen[c].active \in Bets
  \/ pc[c] \in {"end", "delete"} /\ call[c] \in EndCall

CallsTyped ==
  /\ pc \in [Calls -> Steps]
  /\ call \in [Calls -> Asked]
  /\ seen \in [Calls -> Table \cup {Gone}]
  /\ \A c \in Calls : CallTyped(c)

BooksTyped ==
  /\ results \in Seq(Row)
  /\ session \in [rounds : Nat, bet : Nat, win : Nat, completed : BOOLEAN]
  /\ wallet \in [DOMAIN wallet -> Payment]
  /\ DOMAIN wallet \subseteq Nat

HistoryTyped == overHttp \in BOOLEAN /\ overlapped \in BOOLEAN /\ restarted \in BOOLEAN

Typed == TableTyped /\ CallsTyped /\ BooksTyped /\ HistoryTyped

(* Stakes and multipliers are numbers.                                       *)
LEMMA Numbers ==
  /\ \A m \in Multipliers : m \in Nat
  /\ \A b \in Bets : b.bet \in Nat \ {0} /\ b.auto \in Nat
<1>1. \A m \in Multipliers : m \in Nat \ {0}
  BY CrashSessionAssumption
<1>2. \A b \in Bets : b \in [bet : Nat \ {0}, auto : Nat]
  BY CrashSessionAssumption
<1> QED
  BY <1>1, <1>2

(* No table is a missing one, no stake is none, no request is none.          *)
LEMMA Distinct ==
  /\ Gone \notin Table
  /\ NoRound \notin Bets /\ Bets \subseteq [bet : Nat \ {0}, auto : Nat]
  /\ NoCall \notin StartCall \cup SettleCall \cup EndCall
<1>1. ASSUME Gone \in Table
      PROVE  FALSE
  <2>1. DOMAIN Gone = {"nonce", "active"}
    BY <1>1 DEF Table
  <2>2. DOMAIN Gone = {"gone"}
    BY DEF Gone
  <2> QED
    BY <2>1, <2>2
<1>2. NoRound \notin Bets
  BY CrashSessionAssumption DEF NoRound
<1>3. NoCall \notin StartCall \cup SettleCall \cup EndCall
  BY DEF NoCall, StartCall, SettleCall, EndCall
<1> QED
  BY <1>1, <1>2, <1>3, CrashSessionAssumption

(* The earliest of two cash-outs, one of them made, is one of them.          *)
LEMMA EarliestIn ==
  ASSUME NEW a \in Nat, NEW b \in Nat
  PROVE  LET asked == {m \in {a, b} : m # 0} IN
         asked # {} => Min(asked) \in asked
<1> DEFINE asked == {m \in {a, b} : m # 0}
<1>1. SUFFICES ASSUME asked # {}
               PROVE  \E x \in asked : \A y \in asked : x <= y
  BY DEF Min
<1>2. CASE a = 0 \/ b = 0
  BY <1>1, <1>2
<1>3. CASE a # 0 /\ b # 0 /\ a <= b
  BY <1>3
<1>4. CASE a # 0 /\ b # 0 /\ b <= a
  BY <1>4
<1> QED
  BY <1>2, <1>3, <1>4

(* What a cash-out pays is nothing, or a multiplier before the crash.        *)
LEMMA CashedOut ==
  ASSUME NEW r \in Table, NEW at \in Nat
  PROVE  /\ cashedOut(r, at) \in Nat
         /\ cashedOut(r, at) > 0 => cashedOut(r, at) < CrashPoint(r.nonce)
<1>1. r.active.auto \in Nat
  BY CrashSessionAssumption DEF Table, Rounds, NoRound
<1> DEFINE asked == {m \in {r.active.auto, at} : m # 0}
<1>2. asked # {} => Min(asked) \in asked
  BY <1>1, EarliestIn
<1>3. cashedOut(r, at) =
        IF asked # {} /\ Min(asked) < CrashPoint(r.nonce) THEN Min(asked) ELSE 0
  BY DEF cashedOut
<1>4. asked \subseteq Nat
  BY <1>1
<1> DEFINE cap == CrashPoint(r.nonce)
<1> HIDE DEF asked, cap
<1>5. CASE asked # {} /\ Min(asked) < cap
  <2>1. cashedOut(r, at) = Min(asked) /\ Min(asked) \in Nat
    BY <1>2, <1>3, <1>4, <1>5 DEF cap
  <2> QED
    BY <1>5, <2>1 DEF cap
<1>6. CASE ~(asked # {} /\ Min(asked) < cap)
  <2>1. cashedOut(r, at) = 0
    BY <1>3, <1>6 DEF cap
  <2> QED
    BY <2>1
<1> QED
  BY <1>5, <1>6

(* A settlement's result is a row of its round, with the round's stake.      *)
LEMMA OutcomeTyped ==
  ASSUME NEW c \in Calls, seen[c] \in Table, seen[c].active \in Bets,
         call[c] \in SettleCall
  PROVE  /\ Outcome(c) \in Row
         /\ Outcome(c).nonce = seen[c].nonce
         /\ Outcome(c).bet = seen[c].active.bet
         /\ Outcome(c).win = seen[c].active.bet * cashedOut(seen[c], call[c].at)
<1>1. call[c].at \in Nat
  <2>1. call[c].at \in Multipliers \cup {0}
    BY DEF SettleCall
  <2> QED
    BY <2>1, Numbers
<1>2. cashedOut(seen[c], call[c].at) \in Nat
  BY <1>1, CashedOut
<1>3. seen[c].nonce \in Nat /\ seen[c].active.bet \in Nat \ {0}
  BY CrashSessionAssumption DEF Table
<1>4. seen[c].active.bet * cashedOut(seen[c], call[c].at) \in Nat
  BY <1>2, <1>3
<1> QED
  BY <1>3, <1>4 DEF Outcome, Row
-----------------------------------------------------------------------------
(* A call moves to a step that its request and its table allow; the others   *)
(* stay where they are.                                                      *)
LEMMA CallMoves ==
  ASSUME CallsTyped, NEW c \in Calls, NEW step \in Steps, NEW what \in Asked,
         NEW read \in Table \cup {Gone},
         pc' = [pc EXCEPT ![c] = step],
         call' = [call EXCEPT ![c] = what],
         seen' = [seen EXCEPT ![c] = read],
         CallTyped(c)'
  PROVE  CallsTyped'
<1>1. /\ pc' \in [Calls -> Steps] /\ call' \in [Calls -> Asked]
      /\ seen' \in [Calls -> Table \cup {Gone}]
  BY DEF CallsTyped
<1>2. ASSUME NEW d \in Calls, d # c
      PROVE  CallTyped(d)'
  <2>1. pc'[d] = pc[d] /\ call'[d] = call[d] /\ seen'[d] = seen[d]
    BY <1>2 DEF CallsTyped
  <2>2. CallTyped(d)
    BY DEF CallsTyped
  <2> QED
    BY <2>1, <2>2 DEF CallTyped
<1> QED
  BY <1>1, <1>2 DEF CallsTyped

(* A call that only goes to its next step.                                   *)
LEMMA CallGoes ==
  ASSUME CallsTyped, NEW c \in Calls, NEW step, Goto(c, step),
         UNCHANGED <<call, seen>>,
         \/ pc[c] \in {"start", "arm"} /\ step \in {"start", "arm"}
         \/ pc[c] \in Settling /\ step \in Settling
         \/ pc[c] \in {"end", "delete"} /\ step \in {"end", "delete"}
  PROVE  /\ CallsTyped'
         /\ pc' = [pc EXCEPT ![c] = step]
<1>1. /\ pc' = [pc EXCEPT ![c] = step]
      /\ call' = [call EXCEPT ![c] = call[c]]
      /\ seen' = [seen EXCEPT ![c] = seen[c]]
      /\ call[c] \in Asked /\ seen[c] \in Table \cup {Gone}
  BY DEF CallsTyped, Goto
<1>2. step \in Steps
  BY DEF Steps, Settling
<1>3. pc'[c] = step /\ call'[c] = call[c] /\ seen'[c] = seen[c]
  BY <1>1 DEF CallsTyped
<1>4. CallTyped(c)
  BY DEF CallsTyped
<1>5. CallTyped(c)'
  BY <1>3, <1>4 DEF CallTyped, Settling, Written
<1> QED
  BY <1>1, <1>2, <1>5, CallMoves

(* A call that is over.                                                      *)
LEMMA CallEnds ==
  ASSUME CallsTyped, NEW c \in Calls, Finish(c)
  PROVE  CallsTyped' /\ pc' = [pc EXCEPT ![c] = "idle"]
<1>1. /\ pc' = [pc EXCEPT ![c] = "idle"]
      /\ call' = [call EXCEPT ![c] = NoCall]
      /\ seen' = [seen EXCEPT ![c] = Gone]
  BY DEF Finish, Goto
<1>2. "idle" \in Steps /\ NoCall \in Asked
  BY DEF Steps, Asked
<1>3. CallTyped(c)'
  BY <1>1 DEF CallTyped, CallsTyped
<1> QED
  BY <1>1, <1>2, <1>3, CallMoves

(* A request that the table accepts.                                         *)
LEMMA CallBegins ==
  ASSUME Typed, NEW c \in Calls, NEW what \in StartCall \cup SettleCall \cup EndCall,
         Request(c, what)
  PROVE  /\ CallsTyped'
         /\ record \in Table
         /\ what \in StartCall => record.active = NoRound
         /\ what \in SettleCall => record.active \in Bets
         /\ pc' = [pc EXCEPT ![c] = what.op]
         /\ call' = [call EXCEPT ![c] = what]
         /\ seen' = [seen EXCEPT ![c] = record]
<1>1. /\ pc' = [pc EXCEPT ![c] = what.op]
      /\ call' = [call EXCEPT ![c] = what]
      /\ seen' = [seen EXCEPT ![c] = record]
      /\ record # Gone
      /\ what.op = "start" => record.active = NoRound
      /\ what.op = "settle" => record.active # NoRound
  BY DEF Request, Goto, Accepts
<1>2. record \in Table /\ record.active \in Bets \cup {NoRound}
  BY <1>1 DEF Typed, TableTyped, Table, Rounds
<1>3. /\ what \in StartCall => what.op = "start"
      /\ what \in SettleCall => what.op = "settle"
      /\ what \in EndCall => what.op = "end"
  BY DEF StartCall, SettleCall, EndCall
<1>4. what.op \in Steps /\ what \in Asked
  BY <1>3 DEF Steps, Settling, Asked
<1>5. pc'[c] = what.op /\ call'[c] = what /\ seen'[c] = record /\ CallsTyped
  BY <1>1 DEF Typed, CallsTyped
<1>6. CallTyped(c)'
  BY <1>1, <1>2, <1>3, <1>5 DEF CallTyped, Settling
<1> QED
  BY <1>1, <1>2, <1>3, <1>4, <1>5, <1>6, CallMoves

(* What the step a call has come to says of its request and its table.       *)
LEMMA CallStands ==
  ASSUME CallsTyped, NEW c \in Calls
  PROVE  /\ pc[c] = "read" => call[c] \in SettleCall
         /\ pc[c] \in {"start", "arm"} =>
              /\ call[c] \in StartCall /\ call[c].bet \in Bets
              /\ seen[c] \in Table /\ seen[c].active = NoRound
         /\ pc[c] \in Settling =>
              /\ call[c] \in SettleCall
              /\ seen[c] \in Table /\ seen[c].active \in Bets
              /\ Outcome(c) \in Row
              /\ Outcome(c).nonce = seen[c].nonce
              /\ Outcome(c).bet = seen[c].active.bet
         /\ pc[c] \in {"end", "delete"} => call[c] \in EndCall
<1>1. CallTyped(c)
  BY DEF CallsTyped
<1>2. /\ pc[c] = "read" => call[c] \in SettleCall
      /\ pc[c] \in {"start", "arm"} =>
           call[c] \in StartCall /\ seen[c] \in Table /\ seen[c].active = NoRound
      /\ pc[c] \in Settling =>
           call[c] \in SettleCall /\ seen[c] \in Table /\ seen[c].active \in Bets
      /\ pc[c] \in {"end", "delete"} => call[c] \in EndCall
  BY <1>1 DEF CallTyped, Settling, Written
<1>3. \A what \in StartCall : what.bet \in Bets
  BY DEF StartCall
<1> QED
  BY <1>2, <1>3, OutcomeTyped

(* A table whose round is over.                                              *)
LEMMA ClearedTable ==
  ASSUME NEW r \in Table
  PROVE  /\ Cleared(r) \in Table
         /\ Cleared(r).nonce = r.nonce + 1
         /\ Cleared(r).active = NoRound
<1>1. r.nonce \in Nat /\ NoRound \in Rounds
  BY DEF Table, Rounds
<1>2. r = [nonce |-> r.nonce, active |-> r.active]
  BY DEF Table
<1>3. Cleared(r) = [nonce |-> r.nonce + 1, active |-> NoRound]
  <2>1. DOMAIN r = {"nonce", "active"}
    BY DEF Table
  <2>2. Cleared(r) = [f \in {"nonce", "active"} |->
                        IF f = "nonce" THEN r.nonce + 1 ELSE NoRound]
    BY <2>1, Zenon DEF Cleared
  <2> QED
    BY <2>2
<1> QED
  BY <1>1, <1>3 DEF Table

(* What reserve and commit do to the payments.                               *)
LEMMA PaymentsTyped ==
  ASSUME BooksTyped, NEW n \in Nat, NEW p \in Payment
  PROVE  LET more == [m \in DOMAIN wallet \cup {n} |-> IF m = n THEN p ELSE wallet[m]]
             same == [wallet EXCEPT ![n] = p]
         IN  /\ more \in [DOMAIN more -> Payment] /\ DOMAIN more \subseteq Nat
             /\ DOMAIN more = DOMAIN wallet \cup {n}
             /\ more[n] = p
             /\ \A m \in DOMAIN wallet : m # n => more[m] = wallet[m]
             /\ same \in [DOMAIN same -> Payment] /\ DOMAIN same \subseteq Nat
             /\ DOMAIN same = DOMAIN wallet
             /\ n \in DOMAIN wallet => same[n] = p
             /\ \A m \in DOMAIN wallet : m # n => same[m] = wallet[m]
  BY DEF BooksTyped

(* The steps of one call.                                                    *)
LEMMA ProceedTyped ==
  ASSUME Typed, NEW c \in Calls, Proceed(c)
  PROVE  Typed'
<1>t. TableTyped /\ CallsTyped /\ BooksTyped /\ HistoryTyped
  BY DEF Typed
<1>s. /\ {"start", "arm"} \subseteq Steps /\ Settling \subseteq Steps
      /\ Settling = {"settle", "result", "totals", "reserve", "commit", "settled"}
  BY DEF Steps, Settling, Written
<1>u. UNCHANGED history => HistoryTyped'
  BY <1>t DEF HistoryTyped, history
<1>b. UNCHANGED books => BooksTyped'
  BY <1>t DEF BooksTyped, books
<1>v. UNCHANGED table => TableTyped'
  BY <1>t DEF TableTyped, table
<1>1. ASSUME Read(c)
      PROVE  Typed'
  <2>0. TableTyped' /\ BooksTyped' /\ HistoryTyped' /\ pc[c] = "read"
    BY <1>1, <1>u, <1>b, <1>v DEF Read
  <2>1. CASE Accepts(call[c].op)
    <3>1. /\ record # Gone
          /\ call[c].op = "settle" => record.active # NoRound
          /\ pc' = [pc EXCEPT ![c] = call[c].op]
          /\ call' = [call EXCEPT ![c] = call[c]]
          /\ seen' = [seen EXCEPT ![c] = record]
      BY <1>t, <1>1, <2>1 DEF Read, Accepts, Goto, CallsTyped
    <3>2. call[c] \in SettleCall /\ call[c].op = "settle"
      BY <1>t, <2>0, CallStands DEF SettleCall
    <3>3. record \in Table /\ record.active \in Bets
      BY <1>t, <3>1, <3>2 DEF TableTyped, Table, Rounds
    <3>4. pc'[c] = "settle" /\ call'[c] = call[c] /\ seen'[c] = record
      BY <1>t, <3>1, <3>2 DEF CallsTyped
    <3>5. CallTyped(c)'
      BY <1>s, <3>2, <3>3, <3>4 DEF CallTyped
    <3>6. "settle" \in Steps /\ call[c] \in Asked
      BY <1>s, <3>2 DEF Asked
    <3>7. CallsTyped'
      BY <1>t, <3>1, <3>2, <3>3, <3>5, <3>6, CallMoves
    <3> QED
      BY <2>0, <3>7 DEF Typed
  <2>2. CASE ~Accepts(call[c].op)
    BY <1>t, <1>1, <2>0, <2>2, CallEnds DEF Read, Typed
  <2> QED
    BY <2>1, <2>2
<1>2. ASSUME OpenRound(c)
      PROVE  Typed'
  <2>1. /\ BooksTyped' /\ HistoryTyped' /\ pc[c] = "start"
        /\ timer' = timer
        /\ record' = [seen[c] EXCEPT !.active = call[c].bet]
    BY <1>2, <1>u, <1>b DEF OpenRound
  <2>2. seen[c] \in Table /\ call[c].bet \in Bets
    BY <1>t, <2>1, CallStands
  <2>3. record' \in Table
    BY <2>1, <2>2 DEF Table, Rounds
  <2>4. TableTyped'
    BY <1>t, <2>1, <2>3 DEF TableTyped
  <2>5. CallsTyped'
    BY <1>t, <1>2, <2>1, CallGoes, CallEnds DEF OpenRound
  <2> QED
    BY <2>1, <2>4, <2>5 DEF Typed
<1>3. ASSUME Arm(c)
      PROVE  Typed'
  <2>1. /\ BooksTyped' /\ HistoryTyped' /\ CallsTyped' /\ pc[c] = "arm"
        /\ record' = record
        /\ timer' = timer \/ timer' = Armed(seen[c].nonce)
    BY <1>t, <1>3, <1>u, <1>b, CallEnds DEF Arm
  <2>2. seen[c].nonce \in Nat
    BY <1>t, <2>1, CallStands DEF Table
  <2>3. TableTyped'
    <3>1. Armed(seen[c].nonce) \in [set : {TRUE}, nonce : Nat]
      BY <2>2 DEF Armed
    <3> QED
      BY <1>t, <2>1, <3>1 DEF TableTyped
  <2> QED
    BY <2>1, <2>3 DEF Typed
<1>4. ASSUME CloseRound(c)
      PROVE  Typed'
  <2>1. /\ BooksTyped' /\ HistoryTyped' /\ CallsTyped' /\ pc[c] = "settle"
        /\ timer' = timer
        /\ record' = Cleared(seen[c])
    BY <1>s, <1>t, <1>4, <1>u, <1>b, CallGoes DEF CloseRound, After
  <2>2. seen[c] \in Table
    BY <1>s, <1>t, <2>1, CallStands
  <2>3. record' \in Table
    BY <2>1, <2>2, ClearedTable
  <2>4. TableTyped'
    BY <1>t, <2>1, <2>3 DEF TableTyped
  <2> QED
    BY <2>1, <2>4 DEF Typed
<1>5. ASSUME CreateResult(c)
      PROVE  Typed'
  <2>1. /\ TableTyped' /\ HistoryTyped' /\ CallsTyped' /\ pc[c] = "result"
        /\ results' = Append(results, Outcome(c))
        /\ UNCHANGED <<session, wallet>>
    BY <1>s, <1>t, <1>5, <1>u, <1>v, CallGoes DEF CreateResult, After
  <2>2. Outcome(c) \in Row
    BY <1>s, <1>t, <2>1, CallStands
  <2>3. BooksTyped'
    BY <1>t, <2>1, <2>2 DEF BooksTyped
  <2> QED
    BY <2>1, <2>3 DEF Typed
<1>6. ASSUME UpdateSession(c)
      PROVE  Typed'
  <2>1. /\ TableTyped' /\ HistoryTyped' /\ CallsTyped' /\ pc[c] = "totals"
        /\ session' = Incremented(session, c)
        /\ UNCHANGED <<results, wallet>>
    BY <1>s, <1>t, <1>6, <1>u, <1>v, CallGoes DEF UpdateSession, After
  <2>2. Outcome(c).bet \in Nat /\ Outcome(c).win \in Nat
    BY <1>s, <1>t, <2>1, CallStands DEF Row
  <2>3. BooksTyped'
    <3>1. /\ session \in [rounds : Nat, bet : Nat, win : Nat, completed : BOOLEAN]
          /\ session.rounds \in Nat /\ session.bet \in Nat /\ session.win \in Nat
      BY <1>t DEF BooksTyped
    <3>2. /\ session.bet + Outcome(c).bet \in Nat
          /\ session.win + Outcome(c).win \in Nat
          /\ session.rounds + 1 \in Nat
      BY <2>2, <3>1
    <3>3. session' \in [rounds : Nat, bet : Nat, win : Nat, completed : BOOLEAN]
      BY <2>1, <3>1, <3>2 DEF Incremented
    <3> QED
      BY <1>t, <2>1, <3>3 DEF BooksTyped
  <2> QED
    BY <2>1, <2>3 DEF Typed
<1>7. ASSUME Reserve(c)
      PROVE  Typed'
  <2> DEFINE n == Outcome(c).nonce
  <2>1. /\ TableTyped' /\ HistoryTyped' /\ pc[c] = "reserve"
        /\ UNCHANGED <<results, session>>
    BY <1>7, <1>u, <1>v DEF Reserve
  <2>2. CallsTyped'
    BY <1>s, <1>t, <1>7, <2>1, CallGoes, CallEnds DEF Reserve, After
  <2>3. n \in Nat /\ Opened(c) \in Payment
    BY <1>s, <1>t, <2>1, CallStands DEF Row, Opened, Payment
  <2>4. \/ wallet' = wallet
        \/ wallet' = [m \in DOMAIN wallet \cup {n} |-> IF m = n THEN Opened(c) ELSE wallet[m]]
    BY <1>7 DEF Reserve
  <2>5. wallet' \in [DOMAIN wallet' -> Payment] /\ DOMAIN wallet' \subseteq Nat
    <3> HIDE DEF n
    <3>1. CASE wallet' = wallet
      BY <1>t, <3>1 DEF BooksTyped
    <3> QED
      BY <1>t, <2>3, <2>4, <3>1, PaymentsTyped
  <2> QED
    BY <1>t, <2>1, <2>2, <2>5 DEF Typed, BooksTyped
<1>8. ASSUME Commit(c)
      PROVE  Typed'
  <2> DEFINE o == Outcome(c)
             p == [wallet[o.nonce] EXCEPT !.win = o.win, !.open = FALSE]
  <2>1. /\ TableTyped' /\ HistoryTyped' /\ CallsTyped' /\ pc[c] = "commit"
        /\ UNCHANGED <<results, session>>
    BY <1>s, <1>t, <1>8, <1>u, <1>v, CallGoes DEF Commit, After
  <2>2. o.nonce \in Nat /\ o.win \in Nat
    BY <1>s, <1>t, <2>1, CallStands DEF Row
  <2>3. wallet' = [wallet EXCEPT ![o.nonce] = IF wallet[o.nonce].open THEN p
                                              ELSE wallet[o.nonce]]
    BY <1>8 DEF Commit
  <2>4. wallet' \in [DOMAIN wallet' -> Payment] /\ DOMAIN wallet' \subseteq Nat
    <3>1. CASE o.nonce \in DOMAIN wallet
      <4>1. wallet[o.nonce] \in Payment
        BY <1>t, <3>1 DEF BooksTyped
      <4>2. (IF wallet[o.nonce].open THEN p ELSE wallet[o.nonce]) \in Payment
        BY <2>2, <4>1 DEF Payment
      <4> HIDE DEF o, p
      <4> QED
        BY <1>t, <2>2, <2>3, <4>2, PaymentsTyped
    <3>2. CASE o.nonce \notin DOMAIN wallet
      <4> HIDE DEF o, p
      <4>1. wallet' = wallet
        BY <1>t, <2>3, <3>2 DEF BooksTyped
      <4> QED
        BY <1>t, <4>1 DEF BooksTyped
    <3> QED
      BY <3>1, <3>2
  <2> QED
    BY <1>t, <2>1, <2>4 DEF Typed, BooksTyped
<1>9. ASSUME Settled(c)
      PROVE  Typed'
  <2>1. /\ HistoryTyped' /\ CallsTyped' /\ BooksTyped'
        /\ record' = record /\ timer' \in {timer, NoTimer}
    BY <1>t, <1>9, <1>u, <1>b, CallEnds DEF Settled
  <2>2. TableTyped'
    BY <1>t, <2>1 DEF TableTyped
  <2> QED
    BY <2>1, <2>2 DEF Typed
<1>10. ASSUME Complete(c)
       PROVE  Typed'
  <2>1. /\ TableTyped' /\ HistoryTyped' /\ CallsTyped'
        /\ session' = [session EXCEPT !.completed = TRUE]
        /\ UNCHANGED <<results, wallet>>
    BY <1>t, <1>10, <1>u, <1>v, CallGoes DEF Complete
  <2>2. BooksTyped'
    BY <1>t, <2>1 DEF BooksTyped
  <2> QED
    BY <2>1, <2>2 DEF Typed
<1>11. ASSUME Delete(c)
       PROVE  Typed'
  <2>1. /\ HistoryTyped' /\ CallsTyped' /\ BooksTyped'
        /\ record' = Gone /\ timer' = timer
    BY <1>t, <1>11, <1>u, <1>b, CallEnds DEF Delete, Deleted
  <2>2. TableTyped'
    BY <1>t, <2>1 DEF TableTyped
  <2> QED
    BY <2>1, <2>2 DEF Typed
<1> QED
  BY <1>1, <1>2, <1>3, <1>4, <1>5, <1>6, <1>7, <1>8, <1>9, <1>10, <1>11 DEF Proceed

(* What the player asks for.                                                 *)
LEMMA Asking ==
  ASSUME NEW c \in Calls, Start(c) \/ Cashout(c) \/ Resolve(c) \/ End(c)
  PROVE  \E what \in StartCall \cup SettleCall \cup EndCall :
           /\ Request(c, what)
           /\ what \in StartCall /\ ~overHttp' => what.socket
           /\ overHttp' \in BOOLEAN \/ overHttp' = overHttp
           /\ overHttp => overHttp'
<1>1. CASE Start(c)
  <2>1. PICK socket \in BOOLEAN, b \in Bets :
          /\ Request(c, [op |-> "start", socket |-> socket, bet |-> b])
          /\ overHttp' = (overHttp \/ ~socket)
    BY <1>1 DEF Start
  <2> DEFINE what == [op |-> "start", socket |-> socket, bet |-> b]
  <2>2. what \in StartCall /\ what.socket = socket
    BY DEF StartCall
  <2> HIDE DEF what
  <2>3. Request(c, what)
    BY <2>1 DEF what
  <2> QED
    BY <2>1, <2>2, <2>3
<1>2. CASE Cashout(c)
  <2>1. PICK socket \in BOOLEAN, at \in Multipliers :
          /\ Request(c, [op |-> "settle", socket |-> socket, at |-> at])
          /\ overHttp' = overHttp
    BY <1>2 DEF Cashout
  <2> DEFINE what == [op |-> "settle", socket |-> socket, at |-> at]
  <2>2. what \in SettleCall /\ what \notin StartCall
    BY DEF SettleCall, StartCall
  <2> HIDE DEF what
  <2>3. Request(c, what)
    BY <2>1 DEF what
  <2> QED
    BY <2>1, <2>2, <2>3
<1>3. CASE Resolve(c)
  <2> DEFINE what == [op |-> "settle", socket |-> FALSE, at |-> 0]
  <2>1. what \in SettleCall /\ what \notin StartCall
    BY DEF SettleCall, StartCall
  <2>2. Request(c, what) /\ overHttp' = overHttp
    BY <1>3 DEF Resolve
  <2> HIDE DEF what
  <2> QED
    BY <2>1, <2>2
<1>4. CASE End(c)
  <2> DEFINE what == [op |-> "end"]
  <2>1. what \in EndCall /\ what \notin StartCall
    BY DEF EndCall, StartCall
  <2>2. Request(c, what) /\ overHttp' = overHttp
    BY <1>4 DEF End
  <2> HIDE DEF what
  <2> QED
    BY <2>1, <2>2
<1> QED
  BY <1>1, <1>2, <1>3, <1>4

(* The timer that fires asks for the crash outcome of the round.             *)
LEMMA Firing ==
  ASSUME Typed, FireBust
  PROVE  /\ CallsTyped'
         /\ Bust \in Calls /\ Idle(Bust)
         /\ pc' = [pc EXCEPT ![Bust] = "read"]
         /\ call'[Bust] \in SettleCall /\ ~call'[Bust].socket
         /\ call' = [call EXCEPT ![Bust] = call'[Bust]]
         /\ timer' = NoTimer
         /\ overlapped' = (overlapped \/ ~Quiet)
         /\ UNCHANGED <<record, seen, books, overHttp, restarted>>
<1> DEFINE what == [op |-> "settle", socket |-> FALSE, at |-> 0]
<1>1. /\ Bust \in Calls /\ Idle(Bust)
      /\ pc' = [pc EXCEPT ![Bust] = "read"]
      /\ call' = [call EXCEPT ![Bust] = what]
      /\ timer' = NoTimer
      /\ overlapped' = (overlapped \/ ~Quiet)
      /\ UNCHANGED <<record, seen, books, overHttp, restarted>>
  BY DEF FireBust, Goto, Calls
<1>2. what \in SettleCall /\ what.socket = FALSE
  BY DEF SettleCall
<1> HIDE DEF what
<1>3. pc'[Bust] = "read" /\ call'[Bust] = what /\ seen' = [seen EXCEPT ![Bust] = seen[Bust]]
  BY <1>1 DEF Typed, CallsTyped
<1>4. CallTyped(Bust)'
  BY <1>2, <1>3 DEF CallTyped
<1>5. /\ "read" \in Steps /\ what \in Asked /\ seen[Bust] \in Table \cup {Gone}
      /\ CallsTyped
  BY <1>1, <1>2 DEF Steps, Asked, Typed, CallsTyped
<1>6. CallsTyped'
  BY <1>1, <1>3, <1>4, <1>5, CallMoves
<1> QED
  BY <1>1, <1>2, <1>3, <1>6

LEMMA TypedInit == Init => Typed
<1> SUFFICES ASSUME Init
             PROVE  Typed
  OBVIOUS
<1>1. TableTyped
  BY DEF Init, TableTyped, Table, Rounds, NoTimer
<1>2. CallsTyped
  BY DEF Init, CallsTyped, CallTyped, Steps, Asked
<1>3. BooksTyped
  BY DEF Init, BooksTyped
<1> QED
  BY <1>1, <1>2, <1>3 DEF Typed, HistoryTyped, Init

LEMMA TypedStep == Typed /\ [Next]_vars => Typed'
<1> SUFFICES ASSUME Typed, [Next]_vars
             PROVE  Typed'
  OBVIOUS
<1>t. TableTyped /\ CallsTyped /\ BooksTyped /\ HistoryTyped
  BY DEF Typed
<1>b. UNCHANGED books => BooksTyped'
  BY <1>t DEF BooksTyped, books
<1>1. ASSUME NEW c \in Players, Start(c) \/ Cashout(c) \/ Resolve(c) \/ End(c)
      PROVE  Typed'
  <2>0. c \in Calls
    BY DEF Calls
  <2>1. PICK what \in StartCall \cup SettleCall \cup EndCall :
          Request(c, what) /\ (overHttp' \in BOOLEAN \/ overHttp' = overHttp)
    BY <1>1, <2>0, Asking
  <2>2. CallsTyped'
    BY <2>0, <2>1, CallBegins
  <2>3. /\ TableTyped' /\ BooksTyped'
        /\ overlapped' \in BOOLEAN /\ restarted' = restarted
    BY <1>t, <1>b, <2>1 DEF Request, table, TableTyped
  <2> QED
    BY <1>t, <2>1, <2>2, <2>3 DEF Typed, HistoryTyped
<1>2. ASSUME NEW c \in Calls, Proceed(c)
      PROVE  Typed'
  BY <1>2, ProceedTyped
<1>3. CASE FireBust
  <2>1. /\ CallsTyped' /\ BooksTyped' /\ record' = record /\ timer' = NoTimer
        /\ overlapped' \in BOOLEAN /\ UNCHANGED <<overHttp, restarted>>
    BY <1>b, <1>3, Firing
  <2> QED
    BY <1>t, <2>1 DEF Typed, TableTyped, HistoryTyped
<1>4. CASE Expire
  <2>1. BooksTyped' /\ record' = Gone /\ UNCHANGED <<timer, pc, call, seen, history>>
    BY <1>b, <1>4 DEF Expire, calls
  <2>2. CallsTyped'
    BY <1>t, <2>1 DEF CallsTyped, CallTyped
  <2>3. TableTyped' /\ HistoryTyped'
    BY <1>t, <2>1 DEF TableTyped, HistoryTyped, history
  <2> QED
    BY <2>1, <2>2, <2>3 DEF Typed
<1>5. CASE Restart
  <2>1. /\ BooksTyped' /\ record' = record /\ timer' = NoTimer
        /\ UNCHANGED <<overHttp, overlapped>> /\ restarted' = TRUE
    BY <1>b, <1>5 DEF Restart
  <2>2. CallsTyped'
    BY <1>5 DEF Restart, CallsTyped, CallTyped, Steps, Asked
  <2>3. TableTyped' /\ HistoryTyped'
    BY <1>t, <2>1 DEF TableTyped, HistoryTyped
  <2> QED
    BY <2>1, <2>2, <2>3 DEF Typed
<1>6. CASE UNCHANGED vars
  <2>1. BooksTyped' /\ UNCHANGED <<record, timer, pc, call, seen, history>>
    BY <1>b, <1>6 DEF vars, table, calls
  <2>2. CallsTyped'
    BY <1>t, <2>1 DEF CallsTyped, CallTyped
  <2>3. TableTyped' /\ HistoryTyped'
    BY <1>t, <2>1 DEF TableTyped, HistoryTyped, history
  <2> QED
    BY <2>1, <2>2, <2>3 DEF Typed
<1> QED
  BY <1>1, <1>2, <1>3, <1>4, <1>5, <1>6 DEF Next

LEMMA AlwaysTyped == Spec => []Typed
  BY TypedInit, TypedStep, PTL DEF Spec

(* Whatever interleaves, the table is a table, the round in it one that was  *)
(* asked for, and no result or payment has a stake of nothing.               *)
THEOREM TypeCorrect == Spec => []TypeOK
<1>1. Typed => TypeOK
  <2> SUFFICES ASSUME Typed
               PROVE  TypeOK
    OBVIOUS
  <2>1. record # Gone => record.nonce \in Nat /\ record.active \in Bets \cup {NoRound}
    BY DEF Typed, TableTyped, Table, Rounds
  <2>2. timer # NoTimer => timer.nonce \in Nat
    BY DEF Typed, TableTyped
  <2>3. ASSUME NEW c \in Calls, pc[c] # "idle"
        PROVE  call[c] # NoCall
    <3>1. CallTyped(c)
      BY DEF Typed, CallsTyped
    <3> QED
      BY <2>3, <3>1, Distinct DEF CallTyped
  <2>4. \A i \in DOMAIN results : results[i] \in [nonce : Nat, bet : Nat \ {0}, win : Nat]
    <3>1. \A i \in DOMAIN results : results[i] \in Row
      BY DEF Typed, BooksTyped
    <3> QED
      BY <3>1 DEF Row
  <2>5. session.bet \in Nat /\ session.win \in Nat
    BY DEF Typed, BooksTyped
  <2>6. \A n \in DOMAIN wallet : wallet[n] \in [bet : Nat \ {0}, win : Nat, open : BOOLEAN]
    BY DEF Typed, BooksTyped, Payment
  <2> QED
    BY <2>1, <2>2, <2>3, <2>4, <2>5, <2>6 DEF TypeOK
<1> QED
  BY <1>1, AlwaysTyped, PTL
-----------------------------------------------------------------------------
(* A settlement writes its result before anything else ...                   *)
HasRow(c) == \E i \in DOMAIN results : results[i] = Outcome(c)

RowsFirst == \A c \in Calls : pc[c] \in Written => HasRow(c)

(* ... and takes its stake and its win from it.                              *)
PaidByRow(n) ==
  /\ \E i \in RoundRows(n) : results[i].bet = wallet[n].bet
  /\ ~wallet[n].open => \E i \in RoundRows(n) : results[i].win = wallet[n].win
  /\ wallet[n].open => wallet[n].win = 0

HasPayment(c) == pc[c] = "commit" => Outcome(c).nonce \in DOMAIN wallet

Recorded ==
  /\ RowsFirst
  /\ \A n \in DOMAIN wallet : PaidByRow(n)
  /\ \A c \in Calls : HasPayment(c)

(* What a call read and asked settles what its outcome is.                   *)
LEMMA OutcomeStays ==
  ASSUME NEW c, call'[c] = call[c], seen'[c] = seen[c]
  PROVE  Outcome(c)' = Outcome(c)
  BY DEF Outcome

(* Rows are only added.                                                      *)
RowsGrow ==
  \A i \in DOMAIN results : i \in DOMAIN results' /\ results'[i] = results[i]

(* A call is no further in its settlement than it was.                       *)
NoFurther(c) ==
  /\ pc'[c] \in Written =>
       pc[c] \in Written /\ call'[c] = call[c] /\ seen'[c] = seen[c]
  /\ pc'[c] = "commit" => pc[c] = "commit"

LEMMA RowsStay ==
  ASSUME RowsGrow
  PROVE  /\ \A n : \A i \in RoundRows(n) : i \in RoundRows(n)' /\ results'[i] = results[i]
         /\ \A n : PaidByRow(n) /\ wallet'[n] = wallet[n] => PaidByRow(n)'
         /\ \A c : HasRow(c) /\ Outcome(c)' = Outcome(c) => HasRow(c)'
<1>1. \A n : \A i \in RoundRows(n) : i \in RoundRows(n)' /\ results'[i] = results[i]
  BY DEF RowsGrow, RoundRows
<1>2. ASSUME NEW n, PaidByRow(n), wallet'[n] = wallet[n]
      PROVE  PaidByRow(n)'
  BY <1>1, <1>2 DEF PaidByRow
<1>3. ASSUME NEW c, HasRow(c), Outcome(c)' = Outcome(c)
      PROVE  HasRow(c)'
  BY <1>3 DEF RowsGrow, HasRow
<1> QED
  BY <1>1, <1>2, <1>3

(* A step that settles nothing.                                              *)
LEMMA RecordedKept ==
  ASSUME Recorded, RowsGrow, wallet' = wallet,
         \A c \in Calls : HasRow(c)' \/ NoFurther(c),
         \A c \in Calls : NoFurther(c) \/ pc'[c] # "commit"
  PROVE  Recorded'
<1>1. RowsFirst'
  BY RowsStay, OutcomeStays DEF Recorded, RowsFirst, NoFurther
<1>2. \A n \in DOMAIN wallet' : PaidByRow(n)'
  BY RowsStay DEF Recorded
<1>3. ASSUME NEW c \in Calls
      PROVE  HasPayment(c)'
  <2>1. CASE pc'[c] = "commit"
    <3>1. pc[c] = "commit" /\ Outcome(c)' = Outcome(c)
      BY <2>1, OutcomeStays DEF NoFurther, Written
    <3> QED
      BY <3>1 DEF Recorded, HasPayment
  <2>2. CASE pc'[c] # "commit"
    BY <2>2 DEF HasPayment
  <2> QED
    BY <2>1, <2>2
<1> QED
  BY <1>1, <1>2, <1>3 DEF Recorded

(* Only one call moves in a step.                                            *)
Acts(c) ==
  \A d \in Calls : d # c => pc'[d] = pc[d] /\ call'[d] = call[d] /\ seen'[d] = seen[d]

LEMMA Acting ==
  ASSUME Typed, NEW c \in Calls
  PROVE  /\ \A step : Goto(c, step) /\ UNCHANGED <<call, seen>> =>
              /\ Acts(c)
              /\ pc'[c] = step /\ call'[c] = call[c] /\ seen'[c] = seen[c]
         /\ Finish(c) => Acts(c) /\ pc'[c] = "idle"
         /\ \A what : Request(c, what) =>
              /\ Acts(c)
              /\ pc'[c] = what.op /\ call'[c] = what /\ seen'[c] = record
         /\ Read(c) =>
              /\ Acts(c)
              /\ pc'[c] = "idle" \/ (pc'[c] = "settle" /\ call'[c] = call[c] /\ seen'[c] = record)
<1>1. /\ pc \in [Calls -> Steps] /\ call \in [Calls -> Asked]
      /\ seen \in [Calls -> Table \cup {Gone}]
      /\ CallsTyped
  BY DEF Typed, CallsTyped
<1>2. Read(c) =>
        /\ Acts(c)
        /\ pc'[c] = "idle" \/ (pc'[c] = "settle" /\ call'[c] = call[c] /\ seen'[c] = record)
  <2> SUFFICES ASSUME Read(c)
               PROVE  /\ Acts(c)
                      /\ \/ pc'[c] = "idle"
                         \/ pc'[c] = "settle" /\ call'[c] = call[c] /\ seen'[c] = record
    OBVIOUS
  <2>1. call[c] \in SettleCall
    BY <1>1, CallStands DEF Read
  <2>2. call[c].op = "settle"
    BY <2>1 DEF SettleCall
  <2> QED
    BY <1>1, <2>2 DEF Read, Finish, Goto, Acts
<1> QED
  BY <1>1, <1>2 DEF Goto, Finish, Request, Acts

LEMMA ProceedActs ==
  ASSUME Typed, NEW c \in Calls, Proceed(c)
  PROVE  Acts(c)
<1>1. CASE OpenRound(c) \/ Arm(c) \/ CloseRound(c) \/ CreateResult(c) \/ UpdateSession(c)
  BY <1>1, Acting DEF OpenRound, Arm, CloseRound, CreateResult, UpdateSession
<1>2. CASE Reserve(c) \/ Commit(c) \/ Settled(c) \/ Complete(c) \/ Delete(c)
  BY <1>2, Acting DEF Reserve, Commit, Settled, Complete, Delete
<1>3. CASE Read(c)
  BY <1>3, Acting
<1> QED
  BY <1>1, <1>2, <1>3 DEF Proceed

LEMMA OthersNoFurther ==
  ASSUME NEW c \in Calls, Acts(c)
  PROVE  \A d \in Calls : d # c => NoFurther(d)
  BY DEF Acts, NoFurther

(* The steps of one call.                                                    *)
LEMMA ProceedRecorded ==
  ASSUME Typed, Recorded, NEW c \in Calls, Proceed(c)
  PROVE  Recorded'
<1>a. Acts(c) /\ \A d \in Calls : d # c => NoFurther(d)
  BY ProceedActs, OthersNoFurther
<1>s. /\ Settling = {"settle", "result", "totals", "reserve", "commit", "settled"}
      /\ Written = {"totals", "reserve", "commit", "settled"}
  BY DEF Settling, Written
<1>t. CallsTyped /\ BooksTyped
  BY DEF Typed
<1>g. results' = results => RowsGrow
  BY DEF RowsGrow
<1>1. ASSUME UNCHANGED <<results, wallet>>, pc'[c] \notin Written
      PROVE  Recorded'
  <2>1. NoFurther(c)
    BY <1>s, <1>1 DEF NoFurther
  <2> QED
    BY <1>a, <1>g, <1>1, <2>1, RecordedKept
<1>2. CASE Read(c) \/ OpenRound(c) \/ Arm(c) \/ CloseRound(c)
  <2>1. UNCHANGED <<results, wallet>>
    BY <1>2 DEF Read, OpenRound, Arm, CloseRound, books
  <2>2. pc'[c] \in {"idle", "settle", "arm", "result"}
    BY <1>2, Acting DEF OpenRound, Arm, CloseRound, After
  <2> QED
    BY <1>s, <1>1, <2>1, <2>2
<1>3. CASE Settled(c) \/ Complete(c) \/ Delete(c)
  <2>1. UNCHANGED <<results, wallet>>
    BY <1>3 DEF Settled, Complete, Delete, books
  <2>2. pc'[c] \in {"idle", "delete"}
    BY <1>3, Acting DEF Settled, Complete, Delete
  <2> QED
    BY <1>s, <1>1, <2>1, <2>2
<1>4. CASE CreateResult(c)
  <2>1. /\ pc[c] = "result"
        /\ results' = Append(results, Outcome(c)) /\ wallet' = wallet
        /\ pc'[c] = "totals" /\ call'[c] = call[c] /\ seen'[c] = seen[c]
    BY <1>4, Acting DEF CreateResult, After
  <2>2. Outcome(c) \in Row /\ results \in Seq(Row)
    BY <1>s, <1>t, <2>1, CallStands DEF BooksTyped
  <2>3. RowsGrow /\ \E i \in DOMAIN results' : results'[i] = Outcome(c)
    <3> DEFINE o == Outcome(c)
    <3> HIDE DEF o
    <3>1. results' = Append(results, o) /\ o \in Row
      BY <2>1, <2>2 DEF o
    <3>2. Len(results) \in Nat /\ DOMAIN results = 1 .. Len(results)
      BY <2>2
    <3>3. /\ RowsGrow /\ Len(results) + 1 \in DOMAIN results'
          /\ results'[Len(results) + 1] = o
      BY <2>2, <3>1, <3>2 DEF RowsGrow
    <3> QED
      BY <3>3 DEF o
  <2>4. HasRow(c)'
    BY <2>1, <2>3, OutcomeStays DEF HasRow
  <2> QED
    BY <1>a, <2>1, <2>3, <2>4, RecordedKept
<1>5. CASE UpdateSession(c)
  <2>1. /\ pc[c] = "totals" /\ pc'[c] = "reserve"
        /\ call'[c] = call[c] /\ seen'[c] = seen[c]
        /\ UNCHANGED <<results, wallet>>
    BY <1>5, Acting DEF UpdateSession, After
  <2>2. NoFurther(c)
    BY <1>s, <2>1 DEF NoFurther
  <2> QED
    BY <1>a, <1>g, <2>1, <2>2, RecordedKept
<1>6. CASE Reserve(c)
  <2>n. PICK n : n = Outcome(c).nonce
    OBVIOUS
  <2>0. pc[c] = "reserve" /\ UNCHANGED <<results>>
    BY <1>6 DEF Reserve
  <2>o. Outcome(c) \in Row /\ HasRow(c)
    BY <1>s, <1>t, <2>0, CallStands DEF Recorded, RowsFirst
  <2>1. CASE Finish(c) /\ wallet' = wallet
    BY <1>s, <1>1, <2>0, <2>1, Acting
  <2>2. ASSUME Goto(c, "commit"), UNCHANGED <<call, seen>>,
               n \in DOMAIN wallet', RowsGrow,
               \A m \in DOMAIN wallet' : PaidByRow(m)'
        PROVE  Recorded'
    <3>1. /\ pc'[c] = "commit" /\ call'[c] = call[c] /\ seen'[c] = seen[c]
          /\ \A d \in Calls : d # c => pc'[d] = pc[d]
          /\ call' = call /\ seen' = seen
      BY <1>a, <2>2, Acting DEF Acts
    <3>2. \A d \in Calls : Outcome(d)' = Outcome(d)
      BY <3>1, OutcomeStays
    <3>3. \A d \in Calls : HasRow(d)' <=> HasRow(d)
      BY <2>0, <3>2 DEF HasRow
    <3>4. RowsFirst'
      BY <2>o, <3>1, <3>3 DEF Recorded, RowsFirst
    <3>5. DOMAIN wallet \subseteq DOMAIN wallet'
      BY <1>6 DEF Reserve
    <3>6. \A d \in Calls : HasPayment(d)'
      BY <2>n, <2>2, <3>1, <3>2, <3>5 DEF Recorded, HasPayment
    <3> QED
      BY <2>2, <3>4, <3>6 DEF Recorded
  <2>3. CASE /\ Goto(c, After.reserve) /\ UNCHANGED <<call, seen, wallet>>
             /\ IsOpen(n)
    <3>1. \A m \in DOMAIN wallet' : PaidByRow(m)'
      BY <1>g, <2>0, <2>3, RowsStay DEF Recorded
    <3> QED
      BY <1>g, <2>0, <2>2, <2>3, <3>1 DEF IsOpen, After
  <2>4. CASE /\ Goto(c, After.reserve) /\ UNCHANGED <<call, seen>>
             /\ n \notin DOMAIN wallet
             /\ wallet' = [m \in DOMAIN wallet \cup {n} |-> IF m = n THEN Opened(c) ELSE wallet[m]]
    <3>1. /\ DOMAIN wallet' = DOMAIN wallet \cup {n}
          /\ wallet'[n] = Opened(c)
          /\ \A m \in DOMAIN wallet : wallet'[m] = wallet[m]
      BY <2>4
    <3>2. Opened(c).bet = Outcome(c).bet /\ Opened(c).win = 0 /\ Opened(c).open = TRUE
      BY DEF Opened
    <3>3. PaidByRow(n)'
      <4>1. PICK i \in DOMAIN results : results[i] = Outcome(c)
        BY <2>o DEF HasRow
      <4>2. i \in RoundRows(n)'
        BY <2>n, <2>0, <4>1 DEF RoundRows
      <4> QED
        BY <2>0, <3>1, <3>2, <4>1, <4>2 DEF PaidByRow
    <3>4. \A m \in DOMAIN wallet : PaidByRow(m)'
      BY <1>g, <2>0, <3>1, RowsStay DEF Recorded
    <3> QED
      BY <1>g, <2>0, <2>2, <2>4, <3>1, <3>3, <3>4 DEF After
  <2> QED
    BY <1>6, <2>n, <2>1, <2>3, <2>4 DEF Reserve
<1>7. CASE Commit(c)
  <2> DEFINE o == Outcome(c)
             p == [wallet[o.nonce] EXCEPT !.win = o.win, !.open = FALSE]
  <2>n. PICK n : n = o.nonce
    OBVIOUS
  <2>1. /\ pc[c] = "commit" /\ pc'[c] = "settled"
        /\ call' = call /\ seen' = seen /\ results' = results
        /\ wallet' = [wallet EXCEPT ![o.nonce] = IF wallet[o.nonce].open THEN p
                                                 ELSE wallet[o.nonce]]
    BY <1>7, Acting DEF Commit, After
  <2>2. o \in Row /\ HasRow(c) /\ o.nonce \in DOMAIN wallet
    BY <1>s, <1>t, <2>1, CallStands DEF Recorded, RowsFirst, HasPayment
  <2>3. \A d \in Calls : Outcome(d)' = Outcome(d)
    BY <2>1, OutcomeStays
  <2>4. RowsFirst'
    <3>1. \A d \in Calls : HasRow(d)' <=> HasRow(d)
      BY <2>1, <2>3 DEF HasRow
    <3> QED
      BY <1>a, <2>2, <3>1 DEF Recorded, RowsFirst, Acts
  <2>5. wallet[o.nonce] \in Payment /\ DOMAIN wallet' = DOMAIN wallet
    BY <1>t, <2>1, <2>2 DEF BooksTyped
  <2>6. \A d \in Calls : HasPayment(d)'
    <3>1. \A d \in Calls : pc'[d] = "commit" => pc[d] = "commit"
      BY <1>a, <2>1 DEF Acts
    <3> QED
      BY <2>3, <2>5, <3>1 DEF Recorded, HasPayment
  <2>7. ASSUME NEW m \in DOMAIN wallet', wallet'[m] = wallet[m]
        PROVE  PaidByRow(m)'
    BY <1>g, <2>1, <2>5, <2>7, RowsStay DEF Recorded
  <2>8. ASSUME wallet[n].open
        PROVE  PaidByRow(n)'
    <3>1. /\ wallet'[n].bet = wallet[n].bet
          /\ wallet'[n].win = o.win
          /\ ~wallet'[n].open
      <4>1. wallet'[n] = p
        <5> HIDE DEF o, p
        <5> QED
          BY <1>t, <2>n, <2>1, <2>2, <2>8 DEF BooksTyped
      <4>2. /\ p.bet = wallet[n].bet /\ p.win = o.win /\ p.open = FALSE
        BY <2>n, <2>5 DEF Payment
      <4> QED
        BY <4>1, <4>2
    <3>2. PaidByRow(n)
      BY <2>n, <2>2 DEF Recorded
    <3>3. PICK i \in DOMAIN results : results[i] = o
      BY <2>2 DEF HasRow
    <3>4. i \in RoundRows(n) /\ results[i].win = o.win
      BY <2>n, <3>3 DEF RoundRows
    <3>5. RoundRows(n)' = RoundRows(n)
      BY <2>1 DEF RoundRows
    <3> HIDE DEF o
    <3> QED
      BY <2>1, <3>1, <3>2, <3>4, <3>5 DEF PaidByRow
  <2>9. \A m \in DOMAIN wallet' : m # n \/ ~wallet[n].open => wallet'[m] = wallet[m]
    <3> HIDE DEF o, p
    <3> QED
      BY <1>t, <2>n, <2>1, <2>5 DEF BooksTyped
  <2>10. \A m \in DOMAIN wallet' : PaidByRow(m)'
    BY <2>7, <2>8, <2>9
  <2> QED
    BY <2>4, <2>6, <2>10 DEF Recorded
<1> QED
  BY <1>2, <1>3, <1>4, <1>5, <1>6, <1>7 DEF Proceed

LEMMA RecordedStep == Typed /\ Recorded /\ [Next]_vars => Recorded'
<1> SUFFICES ASSUME Typed, Recorded, [Next]_vars
             PROVE  Recorded'
  OBVIOUS
<1>0. ASSUME UNCHANGED <<results, wallet>>, \A c \in Calls : NoFurther(c)
      PROVE  Recorded'
  BY <1>0, RecordedKept DEF RowsGrow
<1>1. ASSUME NEW c \in Players, Start(c) \/ Cashout(c) \/ Resolve(c) \/ End(c)
      PROVE  Recorded'
  <2>0. c \in Calls
    BY DEF Calls
  <2>1. PICK what \in StartCall \cup SettleCall \cup EndCall : Request(c, what)
    BY <1>1, <2>0, Asking
  <2>2. Acts(c) /\ pc'[c] = what.op /\ UNCHANGED <<results, wallet>>
    BY <2>0, <2>1, Acting DEF Request, books
  <2>3. what.op \notin Written
    BY DEF StartCall, SettleCall, EndCall, Written
  <2>4. NoFurther(c)
    BY <2>2, <2>3 DEF NoFurther, Written
  <2> QED
    BY <1>0, <2>0, <2>2, <2>4, OthersNoFurther
<1>2. ASSUME NEW c \in Calls, Proceed(c)
      PROVE  Recorded'
  BY <1>2, ProceedRecorded
<1>3. CASE FireBust
  <2>1. /\ pc' = [pc EXCEPT ![Bust] = "read"]
        /\ call' = [call EXCEPT ![Bust] = call'[Bust]]
        /\ UNCHANGED <<seen, results, wallet>>
    BY <1>3, Firing DEF books
  <2>2. ASSUME NEW c \in Calls
        PROVE  NoFurther(c)
    BY <2>1 DEF NoFurther, Written, Typed, CallsTyped
  <2> QED
    BY <1>0, <2>1, <2>2
<1>4. CASE Expire
  BY <1>0, <1>4 DEF Expire, calls, books, NoFurther
<1>5. CASE Restart
  <2>1. UNCHANGED <<results, wallet>> /\ \A c \in Calls : pc'[c] = "idle"
    BY <1>5 DEF Restart, books
  <2> QED
    BY <1>0, <2>1 DEF NoFurther, Written
<1>6. CASE UNCHANGED vars
  BY <1>0, <1>6 DEF vars, calls, books, NoFurther
<1> QED
  BY <1>1, <1>2, <1>3, <1>4, <1>5, <1>6 DEF Next

LEMMA AlwaysRecorded == Spec => []Recorded
<1>1. Init => Recorded
  BY DEF Init, Recorded, RowsFirst, Written, HasPayment
<1> QED
  BY <1>1, AlwaysTyped, RecordedStep, PTL DEF Spec
-----------------------------------------------------------------------------
(* No row's win is at or above the crash point of its round.                 *)
BelowCrash(r) == r.win > 0 => r.win < r.bet * CrashPoint(r.nonce)

RowsBelow == \A i \in DOMAIN results : BelowCrash(results[i])

LEMMA TimesLess ==
  ASSUME NEW b \in Nat \ {0}, NEW x \in Nat, NEW y \in Nat, x < y
  PROVE  b * x < b * y
  OBVIOUS

LEMMA OutcomeBelow ==
  ASSUME CrashPointsTyped, CallsTyped, NEW c \in Calls, pc[c] \in Settling
  PROVE  BelowCrash(Outcome(c))
<1> DEFINE b   == seen[c].active.bet
           out == cashedOut(seen[c], call[c].at)
           cap == CrashPoint(seen[c].nonce)
<1>1. call[c] \in SettleCall /\ seen[c] \in Table /\ seen[c].active \in Bets
  BY CallStands
<1>2. call[c].at \in Nat
  <2>1. call[c].at \in Multipliers \cup {0}
    BY <1>1 DEF SettleCall
  <2> QED
    BY <2>1, Numbers
<1>3. out \in Nat /\ (out > 0 => out < cap)
  BY <1>1, <1>2, CashedOut
<1>4. b \in Nat \ {0} /\ cap \in Nat
  BY <1>1, Numbers DEF Table, CrashPointsTyped
<1>5. Outcome(c).win = b * out /\ Outcome(c).bet = b /\ Outcome(c).nonce = seen[c].nonce
  BY <1>1, OutcomeTyped
<1> HIDE DEF b, out
<1>6. CASE out = 0
  <2>1. b * out = 0
    BY <1>4, <1>6
  <2> QED
    BY <1>5, <2>1 DEF BelowCrash
<1>7. CASE out > 0
  <2>1. b * out < b * cap
    <3> HIDE DEF cap
    <3> QED
      BY <1>3, <1>4, <1>7, TimesLess
  <2> QED
    BY <1>5, <2>1 DEF BelowCrash
<1> QED
  BY <1>3, <1>6, <1>7

LEMMA RowsBelowStep ==
  ASSUME CrashPointsTyped
  PROVE  Typed /\ RowsBelow /\ [Next]_vars => RowsBelow'
<1> SUFFICES ASSUME Typed, RowsBelow, [Next]_vars
             PROVE  RowsBelow'
  OBVIOUS
<1>1. CASE \E c \in Calls : CreateResult(c)
  <2>1. PICK c \in Calls : CreateResult(c)
    BY <1>1
  <2>2. PICK o : o = Outcome(c)
    OBVIOUS
  <2>3. /\ pc[c] = "result" /\ results' = Append(results, o)
        /\ results \in Seq(Row)
    BY <2>1, <2>2 DEF CreateResult, Typed, BooksTyped
  <2>4. BelowCrash(o) /\ o \in Row
    BY <2>2, <2>3, OutcomeBelow, CallStands DEF Typed, Settling
  <2>5. \A i \in DOMAIN results' : results'[i] = o \/ (i \in DOMAIN results /\ results'[i] = results[i])
    BY <2>3, <2>4
  <2> QED
    BY <2>4, <2>5 DEF RowsBelow
<1>2. CASE results' = results
  BY <1>2 DEF RowsBelow
<1>3. ASSUME NEW c \in Calls, Proceed(c)
      PROVE  CreateResult(c) \/ results' = results
  BY <1>3 DEF Proceed, Read, OpenRound, Arm, CloseRound, UpdateSession, Reserve, Commit,
              Settled, Complete, Delete, books
<1>4. ASSUME NEW c \in Calls, Start(c) \/ Cashout(c) \/ Resolve(c) \/ End(c)
      PROVE  results' = results
  BY <1>4 DEF Start, Cashout, Resolve, End, Request, books
<1>5. FireBust \/ Expire \/ Restart \/ UNCHANGED vars => results' = results
  BY DEF FireBust, Expire, Restart, vars, books
<1> QED
  BY <1>1, <1>2, <1>3, <1>4, <1>5 DEF Next, Calls

(* However the automatic cash-out, the manual one and the bust timer race,   *)
(* what the wallet paid for a round is less than its stake times the crash   *)
(* point: a multiplier at or after the crash is never paid.                  *)
THEOREM PaidCorrect ==
  ASSUME CrashPointsTyped
  PROVE  Spec => []PaidBelowCrash
<1>1. Init => RowsBelow
  BY DEF Init, RowsBelow
<1>2. Typed /\ Recorded /\ RowsBelow => PaidBelowCrash
  <2> SUFFICES ASSUME Typed, Recorded, RowsBelow, NEW n \in DOMAIN wallet, wallet[n].win > 0
               PROVE  \E i \in RoundRows(n) : wallet[n].win < results[i].bet * CrashPoint(n)
    BY DEF PaidBelowCrash
  <2>1. PaidByRow(n) /\ wallet[n].open \in BOOLEAN
    BY DEF Recorded, Typed, BooksTyped, Payment
  <2>2. PICK i \in RoundRows(n) : results[i].win = wallet[n].win
    BY <2>1 DEF PaidByRow
  <2>3. i \in DOMAIN results /\ results[i].nonce = n
    BY DEF RoundRows
  <2> QED
    BY <2>2, <2>3 DEF RowsBelow, BelowCrash
<1> QED
  BY <1>1, <1>2, AlwaysTyped, AlwaysRecorded, RowsBelowStep, PTL DEF Spec
-----------------------------------------------------------------------------
(* No round from number n on has a result or a payment.                      *)
Fresh(n) ==
  /\ \A i \in DOMAIN results : results[i].nonce < n
  /\ \A m \in DOMAIN wallet : m < n

(* Where the only call under way stands.                                     *)
Alone(c) ==
  /\ \A d \in Calls : d # c => pc[d] = "idle"
  /\ pc[c] \in {"start", "settle"} => record \in {seen[c], Gone} /\ Fresh(seen[c].nonce)
  /\ pc[c] = "arm" => (record # Gone => record.nonce = seen[c].nonce)
  /\ pc[c] \in {"result"} \cup Written =>
       (record # Gone => record.active = NoRound /\ record.nonce = seen[c].nonce + 1)
  /\ pc[c] = "result" => Fresh(seen[c].nonce)
  /\ pc[c] \in {"totals", "reserve"} => \A m \in DOMAIN wallet : m < seen[c].nonce
  /\ pc[c] = "commit" => wallet[seen[c].nonce].bet = seen[c].active.bet

OneRowEach ==
  \A i, j \in DOMAIN results : results[i].nonce = results[j].nonce => i = j

FreshTable == record # Gone => Fresh(record.nonce)

(* A payment made has a row that is its whole account.                       *)
Accounted(n) ==
  ~wallet[n].open =>
    \E i \in RoundRows(n) : results[i].bet = wallet[n].bet /\ results[i].win = wallet[n].win

(* As long as no two calls overlapped ...                                    *)
Sequential ==
  ~overlapped =>
    /\ \A c \in Calls : pc[c] # "idle" => Alone(c)
    /\ OneRowEach
    /\ FreshTable
    /\ \A n \in DOMAIN wallet : Accounted(n)

(* A step that changes neither results nor payments.                         *)
LEMMA SequentialKept ==
  ASSUME Sequential, ~overlapped, UNCHANGED <<results, wallet>>,
         \A c \in Calls : pc'[c] # "idle" => Alone(c)', FreshTable'
  PROVE  Sequential'
<1>1. OneRowEach'
  BY DEF Sequential, OneRowEach
<1>2. \A n \in DOMAIN wallet' : Accounted(n)'
  BY DEF Sequential, Accounted, RoundRows
<1> QED
  BY <1>1, <1>2 DEF Sequential

(* A call that is alone stays alone.                                         *)
LEMMA StaysAlone ==
  ASSUME Sequential, ~overlapped, NEW c \in Calls, Acts(c), pc[c] # "idle"
  PROVE  /\ Alone(c)
         /\ \A d \in Calls : d # c => pc'[d] = "idle"
         /\ OneRowEach /\ FreshTable /\ \A n \in DOMAIN wallet : Accounted(n)
  BY DEF Sequential, Alone, Acts

LEMMA ProceedSequential ==
  ASSUME Typed, Recorded, Sequential, ~overlapped, NEW c \in Calls, Proceed(c)
  PROVE  Sequential'
<1>s. /\ Settling = {"settle", "result", "totals", "reserve", "commit", "settled"}
      /\ Written = {"totals", "reserve", "commit", "settled"}
  BY DEF Settling, Written
<1>t. TableTyped /\ CallsTyped /\ BooksTyped
  BY DEF Typed
<1>0. pc[c] # "idle"
  BY DEF Proceed, Read, OpenRound, Arm, CloseRound, CreateResult, UpdateSession, Reserve,
         Commit, Settled, Complete, Delete
<1>a. /\ Alone(c) /\ Acts(c)
      /\ \A d \in Calls : d # c => pc'[d] = "idle"
      /\ OneRowEach /\ FreshTable /\ \A n \in DOMAIN wallet : Accounted(n)
  BY <1>0, ProceedActs, StaysAlone
<1>k. ASSUME UNCHANGED <<results, wallet>>, pc'[c] # "idle" => Alone(c)', FreshTable'
      PROVE  Sequential'
  BY <1>a, <1>k, SequentialKept
<1>f. UNCHANGED <<results, wallet>> => \A n : Fresh(n)' <=> Fresh(n)
  BY DEF Fresh
<1>1. CASE Read(c)
  <2>1. UNCHANGED <<results, wallet, record>>
    BY <1>1 DEF Read, books, table
  <2>2. FreshTable'
    BY <1>a, <2>1 DEF FreshTable, Fresh
  <2>3. CASE pc'[c] = "idle"
    BY <1>k, <2>1, <2>2, <2>3
  <2>4. CASE pc'[c] # "idle"
    <3>1. pc'[c] = "settle" /\ seen'[c] = record /\ record # Gone
      BY <1>0, <1>1, <2>4, Acting DEF Read, Accepts, Finish, Goto, Typed, CallsTyped
    <3>2. Fresh(seen[c].nonce)'
      BY <2>1, <2>2, <3>1 DEF FreshTable
    <3>3. Alone(c)'
      BY <1>a, <1>s, <2>1, <3>1, <3>2 DEF Alone
    <3> QED
      BY <1>k, <2>1, <2>2, <3>3
  <2> QED
    BY <2>3, <2>4
<1>2. CASE OpenRound(c)
  <2>1. /\ pc[c] = "start" /\ UNCHANGED <<results, wallet>>
        /\ record' = [seen[c] EXCEPT !.active = call[c].bet]
        /\ pc'[c] = "idle" \/ (pc'[c] = "arm" /\ seen'[c] = seen[c])
    BY <1>2, Acting DEF OpenRound, books
  <2>2. seen[c] \in Table /\ Fresh(seen[c].nonce)
    BY <1>a, <1>t, <2>1, CallStands DEF Alone
  <2>3. record'.nonce = seen[c].nonce
    BY <2>1, <2>2 DEF Table
  <2>4. FreshTable'
    BY <2>1, <2>2, <2>3 DEF FreshTable, Fresh
  <2>5. pc'[c] # "idle" => Alone(c)'
    BY <1>a, <1>s, <2>1, <2>3 DEF Alone
  <2> QED
    BY <1>k, <2>1, <2>4, <2>5
<1>3. CASE Arm(c) \/ Settled(c)
  <2>1. UNCHANGED <<results, wallet, record>> /\ pc'[c] = "idle"
    BY <1>3, Acting DEF Arm, Settled, books
  <2>2. FreshTable'
    BY <1>a, <2>1 DEF FreshTable, Fresh
  <2> QED
    BY <1>k, <2>1, <2>2
<1>4. CASE CloseRound(c)
  <2>1. /\ pc[c] = "settle" /\ pc'[c] = "result" /\ seen'[c] = seen[c]
        /\ UNCHANGED <<results, wallet>>
        /\ record' = Cleared(seen[c])
    BY <1>4, Acting DEF CloseRound, After, books
  <2>2. seen[c] \in Table /\ Fresh(seen[c].nonce)
    BY <1>a, <1>s, <1>t, <2>1, CallStands DEF Alone
  <2>3. record'.nonce = seen[c].nonce + 1 /\ record'.active = NoRound
    BY <2>1, <2>2, ClearedTable
  <2>4. Fresh(seen[c].nonce)' /\ FreshTable'
    <3>1. seen[c].nonce \in Nat
      BY <2>2 DEF Table
    <3>2. /\ \A i \in DOMAIN results : results[i].nonce \in Nat
          /\ \A m \in DOMAIN wallet : m \in Nat
      <4>1. \A i \in DOMAIN results : results[i] \in Row
        BY <1>t DEF BooksTyped
      <4> QED
        BY <1>t, <4>1 DEF BooksTyped, Row
    <3> QED
      BY <2>1, <2>2, <2>3, <3>1, <3>2 DEF FreshTable, Fresh
  <2>5. Alone(c)'
    BY <1>a, <1>s, <2>1, <2>3, <2>4 DEF Alone
  <2> QED
    BY <1>k, <2>1, <2>4, <2>5
<1>5. CASE CreateResult(c)
  <2>o. PICK o : o = Outcome(c)
    OBVIOUS
  <2>1. /\ pc[c] = "result" /\ pc'[c] = "totals" /\ seen'[c] = seen[c]
        /\ UNCHANGED <<wallet, record>>
        /\ results' = Append(results, o)
        /\ results \in Seq(Row)
    BY <1>5, <1>t, <2>o, Acting DEF CreateResult, After, BooksTyped, table
  <2>2. /\ o \in Row /\ o.nonce = seen[c].nonce /\ seen[c].nonce \in Nat
        /\ Fresh(seen[c].nonce)
    BY <1>a, <1>s, <1>t, <2>o, <2>1, CallStands DEF Alone, Table
  <2>3. /\ DOMAIN results' = DOMAIN results \cup {Len(results) + 1}
        /\ Len(results) + 1 \notin DOMAIN results
        /\ results'[Len(results) + 1] = o
        /\ \A i \in DOMAIN results : results'[i] = results[i]
    BY <2>1, <2>2
  <2>4. \A i \in DOMAIN results : results[i].nonce \in Nat /\ results[i].nonce < o.nonce
    <3>1. \A i \in DOMAIN results : results[i] \in Row
      BY <2>1
    <3> QED
      BY <2>2, <3>1 DEF Fresh, Row
  <2>5. OneRowEach'
    <3>1. \A i, j \in DOMAIN results : results'[i].nonce = results'[j].nonce => i = j
      BY <1>a, <2>3 DEF OneRowEach
    <3>2. \A i \in DOMAIN results : results'[i].nonce # results'[Len(results) + 1].nonce
      BY <2>2, <2>3, <2>4
    <3> QED
      BY <2>3, <3>1, <3>2 DEF OneRowEach
  <2>6. record # Gone => record.nonce = seen[c].nonce + 1 /\ record.active = NoRound
    BY <1>a, <2>1 DEF Alone
  <2>7. FreshTable'
    <3> SUFFICES ASSUME record # Gone
                 PROVE  Fresh(record.nonce)'
      BY <2>1 DEF FreshTable
    <3>1. Fresh(record.nonce)
      BY <1>a DEF FreshTable
    <3>2. \A i \in DOMAIN results' : results'[i].nonce < record.nonce
      BY <2>2, <2>3, <2>6, <3>1 DEF Fresh
    <3> QED
      BY <2>1, <3>1, <3>2 DEF Fresh
  <2>8. Alone(c)'
    BY <1>a, <1>s, <2>1, <2>2, <2>6 DEF Alone, Fresh
  <2>9. \A n \in DOMAIN wallet' : Accounted(n)'
    BY <1>a, <2>1, <2>3 DEF Accounted, RoundRows
  <2> QED
    BY <1>a, <2>5, <2>7, <2>8, <2>9 DEF Sequential
<1>6. CASE UpdateSession(c)
  <2>1. /\ pc[c] = "totals" /\ pc'[c] = "reserve" /\ seen'[c] = seen[c]
        /\ UNCHANGED <<results, wallet, record>>
    BY <1>6, Acting DEF UpdateSession, After, table
  <2>2. FreshTable'
    BY <1>a, <2>1 DEF FreshTable, Fresh
  <2>3. Alone(c)'
    BY <1>a, <1>s, <2>1 DEF Alone
  <2> QED
    BY <1>k, <2>1, <2>2, <2>3
<1>7. CASE Reserve(c)
  <2>n. PICK n : n = seen[c].nonce
    OBVIOUS
  <2>1. /\ pc[c] = "reserve" /\ UNCHANGED <<results, record>>
    BY <1>7 DEF Reserve, table
  <2>2. /\ Outcome(c).nonce = n /\ n \in Nat
        /\ \A m \in DOMAIN wallet : m < n /\ m \in Nat
        /\ record # Gone => record.nonce = n + 1 /\ record.active = NoRound
        /\ Outcome(c).bet = seen[c].active.bet
    BY <1>a, <1>s, <1>t, <2>n, <2>1, CallStands DEF Alone, Table, BooksTyped
  <2>3. n \notin DOMAIN wallet /\ ~IsOpen(n)
    BY <2>2 DEF IsOpen
  <2>4. CASE Finish(c) /\ wallet' = wallet
    <3>1. FreshTable' /\ pc'[c] = "idle"
      BY <1>a, <2>1, <2>4, Acting DEF FreshTable, Fresh
    <3> QED
      BY <1>k, <2>1, <2>4, <3>1
  <2>5. CASE /\ Goto(c, After.reserve) /\ UNCHANGED <<call, seen>>
             /\ wallet' = [m \in DOMAIN wallet \cup {n} |->
                             IF m = n THEN Opened(c) ELSE wallet[m]]
    <3>1. /\ pc'[c] = "commit" /\ seen'[c] = seen[c]
          /\ DOMAIN wallet' = DOMAIN wallet \cup {n}
          /\ wallet'[n] = Opened(c)
          /\ \A m \in DOMAIN wallet : wallet'[m] = wallet[m]
      BY <2>3, <2>5, Acting DEF After
    <3>2. wallet'[n].bet = seen[c].active.bet /\ wallet'[n].open = TRUE
      BY <2>2, <3>1 DEF Opened
    <3>3. Alone(c)'
      BY <1>a, <1>s, <2>n, <2>1, <2>2, <3>1, <3>2 DEF Alone
    <3>4. FreshTable'
      BY <1>a, <2>1, <2>2, <3>1 DEF FreshTable, Fresh
    <3>5. \A m \in DOMAIN wallet' : Accounted(m)'
      BY <1>a, <2>1, <3>1, <3>2 DEF Accounted, RoundRows
    <3>6. OneRowEach'
      BY <1>a, <2>1 DEF OneRowEach
    <3> QED
      BY <1>a, <3>3, <3>4, <3>5, <3>6 DEF Sequential
  <2> QED
    BY <1>7, <2>2, <2>3, <2>4, <2>5 DEF Reserve
<1>8. CASE Commit(c)
  <2>n. PICK n : n = seen[c].nonce
    OBVIOUS
  <2>o. PICK o : o = Outcome(c)
    OBVIOUS
  <2>1. /\ pc[c] = "commit" /\ pc'[c] = "settled" /\ seen'[c] = seen[c]
        /\ UNCHANGED <<results, record>>
        /\ wallet' = [wallet EXCEPT ![o.nonce] =
                        IF wallet[o.nonce].open
                        THEN [wallet[o.nonce] EXCEPT !.win = o.win, !.open = FALSE]
                        ELSE wallet[o.nonce]]
    BY <1>8, <2>o, Acting DEF Commit, After, table
  <2>2. /\ o.nonce = n /\ n \in DOMAIN wallet
        /\ o.bet = seen[c].active.bet /\ wallet[n].bet = o.bet
    BY <1>a, <1>s, <1>t, <2>n, <2>o, <2>1, CallStands DEF Alone, Recorded, HasPayment
  <2>3. wallet[n] \in Payment /\ DOMAIN wallet' = DOMAIN wallet
    BY <1>t, <2>1, <2>2 DEF BooksTyped
  <2>4. \A m \in DOMAIN wallet : m # n \/ ~wallet[n].open => wallet'[m] = wallet[m]
    BY <1>t, <2>1, <2>2 DEF BooksTyped
  <2>5. ASSUME wallet[n].open
        PROVE  Accounted(n)'
    <3> DEFINE p == [wallet[n] EXCEPT !.win = o.win, !.open = FALSE]
    <3>1. wallet'[n] = p
      BY <1>t, <2>1, <2>2, <2>5 DEF BooksTyped
    <3>2. p.bet = o.bet /\ p.win = o.win
      BY <2>2, <2>3 DEF Payment
    <3>3. PICK i \in DOMAIN results : results[i] = o
      BY <1>s, <2>o, <2>1 DEF Recorded, RowsFirst, HasRow
    <3>4. i \in RoundRows(n)'
      BY <2>1, <2>2, <3>3 DEF RoundRows
    <3> QED
      BY <2>1, <3>1, <3>2, <3>3, <3>4 DEF Accounted
  <2>6. \A m \in DOMAIN wallet' : Accounted(m)'
    <3>1. ASSUME NEW m \in DOMAIN wallet, wallet'[m] = wallet[m]
          PROVE  Accounted(m)'
      <4>1. Accounted(m) /\ RoundRows(m)' = RoundRows(m)
        BY <1>a, <2>1 DEF RoundRows
      <4> QED
        BY <2>1, <3>1, <4>1 DEF Accounted
    <3> QED
      BY <2>3, <2>4, <2>5, <3>1
  <2>7. Alone(c)'
    BY <1>a, <1>s, <2>1 DEF Alone
  <2>8. FreshTable' /\ OneRowEach'
    BY <1>a, <2>1, <2>3 DEF FreshTable, Fresh, OneRowEach
  <2> QED
    BY <1>a, <2>6, <2>7, <2>8 DEF Sequential
<1>9. CASE Complete(c)
  <2>1. /\ UNCHANGED <<results, wallet, record>> /\ pc'[c] = "delete"
    BY <1>9, Acting DEF Complete, table
  <2>2. FreshTable'
    BY <1>a, <2>1 DEF FreshTable, Fresh
  <2>3. Alone(c)'
    BY <1>a, <1>s, <2>1 DEF Alone
  <2> QED
    BY <1>k, <2>1, <2>2, <2>3
<1>10. CASE Delete(c)
  <2>1. /\ UNCHANGED <<results, wallet>> /\ record' = Gone /\ pc'[c] = "idle"
    BY <1>10, Acting DEF Delete, Deleted, books
  <2> QED
    BY <1>k, <2>1 DEF FreshTable
<1> QED
  BY <1>1, <1>2, <1>3, <1>4, <1>5, <1>6, <1>7, <1>8, <1>9, <1>10 DEF Proceed

(* A request or the timer, beginning when nothing else is under way.         *)
LEMMA BeginsAlone ==
  ASSUME NEW c \in Calls, Acts(c), Quiet,
         UNCHANGED <<record, results, wallet>>, FreshTable,
         \/ pc'[c] \in {"read", "end"}
         \/ pc'[c] \in {"start", "settle"} /\ seen'[c] = record /\ record # Gone
  PROVE  /\ FreshTable'
         /\ \A d \in Calls : pc'[d] # "idle" => Alone(d)'
<1>1. \A d \in Calls : d # c => pc'[d] = "idle"
  BY DEF Acts, Quiet, Idle
<1>2. FreshTable'
  BY DEF FreshTable, Fresh
<1>3. Alone(c)'
  BY <1>1, <1>2 DEF Alone, FreshTable, Written
<1> QED
  BY <1>1, <1>2, <1>3

LEMMA SequentialStep == Typed /\ Recorded /\ Sequential /\ [Next]_vars => Sequential'
<1> SUFFICES ASSUME Typed, Recorded, Sequential, [Next]_vars, ~overlapped'
             PROVE  Sequential'
  BY DEF Sequential
<1>1. ASSUME NEW c \in Players, Start(c) \/ Cashout(c) \/ Resolve(c) \/ End(c)
      PROVE  Sequential'
  <2>0. c \in Calls
    BY DEF Calls
  <2>1. PICK what \in StartCall \cup SettleCall \cup EndCall : Request(c, what)
    BY <1>1, <2>0, Asking
  <2>2. /\ Acts(c) /\ pc'[c] = what.op /\ seen'[c] = record /\ record # Gone
        /\ UNCHANGED <<record, results, wallet>>
        /\ ~overlapped /\ Quiet
    BY <2>0, <2>1, Acting DEF Request, Accepts, table, books, Quiet
  <2>3. what.op \in {"start", "settle", "end"}
    BY DEF StartCall, SettleCall, EndCall
  <2>4. FreshTable
    BY <2>2 DEF Sequential
  <2> QED
    BY <2>0, <2>2, <2>3, <2>4, BeginsAlone, SequentialKept
<1>2. ASSUME NEW c \in Calls, Proceed(c)
      PROVE  Sequential'
  <2>1. overlapped' = overlapped
    BY <1>2 DEF Proceed, Read, OpenRound, Arm, CloseRound, CreateResult, UpdateSession,
                Reserve, Commit, Settled, Complete, Delete, history
  <2> QED
    BY <1>2, <2>1, ProceedSequential
<1>3. CASE FireBust
  <2>1. /\ Bust \in Calls /\ pc' = [pc EXCEPT ![Bust] = "read"]
        /\ call' = [call EXCEPT ![Bust] = call'[Bust]]
        /\ UNCHANGED <<seen, record, results, wallet>>
        /\ ~overlapped /\ Quiet
    BY <1>3, Firing DEF books, Quiet
  <2>2. Acts(Bust) /\ pc'[Bust] = "read" /\ FreshTable
    BY <2>1 DEF Acts, Typed, CallsTyped, Sequential
  <2> QED
    BY <2>1, <2>2, BeginsAlone, SequentialKept
<1>4. CASE Expire
  <2>1. UNCHANGED <<pc, call, seen, results, wallet, overlapped>> /\ record' = Gone
    BY <1>4 DEF Expire, calls, books, history
  <2>2. \A c \in Calls : pc'[c] # "idle" => Alone(c)'
    BY <2>1 DEF Sequential, Alone, Fresh
  <2> QED
    BY <2>1, <2>2, SequentialKept DEF FreshTable
<1>5. CASE Restart
  <2>1. /\ \A c \in Calls : pc'[c] = "idle"
        /\ UNCHANGED <<record, results, wallet, overlapped>>
    BY <1>5 DEF Restart, books
  <2>2. FreshTable'
    BY <2>1 DEF Sequential, FreshTable, Fresh
  <2> QED
    BY <2>1, <2>2, SequentialKept
<1>6. CASE UNCHANGED vars
  <2>1. UNCHANGED <<pc, call, seen, record, results, wallet, overlapped>>
    BY <1>6 DEF vars, table, calls, books, history
  <2>2. /\ \A c \in Calls : pc'[c] # "idle" => Alone(c)'
        /\ FreshTable'
    BY <2>1 DEF Sequential, Alone, Fresh, FreshTable
  <2> QED
    BY <2>1, <2>2, SequentialKept
<1> QED
  BY <1>1, <1>2, <1>3, <1>4, <1>5, <1>6 DEF Next

LEMMA AlwaysSequential == Spec => []Sequential
<1>1. Init => Sequential
  BY DEF Init, Sequential, OneRowEach, FreshTable, Fresh
<1> QED
  BY <1>1, AlwaysTyped, AlwaysRecorded, SequentialStep, PTL DEF Spec

(* No money moves for a round that is not on record, however the calls       *)
(* interleave; unless they overlapped one row accounts for stake and win.    *)
THEOREM RecordedCorrect == Spec => []PaymentIsRecorded
<1>1. Recorded /\ Sequential => PaymentIsRecorded
  BY DEF Recorded, PaidByRow, Sequential, Accounted, PaymentIsRecorded
<1> QED
  BY <1>1, AlwaysRecorded, AlwaysSequential, PTL

(* With one call after another, over restarts and expiries too, a round has  *)
(* at most one result and the one in progress has none.                      *)
THEOREM FreshCorrect == Spec => []RoundsAreFresh
<1>1. ASSUME NEW n, OneRowEach
      PROVE  Cardinality(RoundRows(n)) <= 1
  <2>1. CASE RoundRows(n) = {}
    BY <2>1, FS_EmptySet
  <2>2. CASE RoundRows(n) # {}
    <3>1. PICK i : i \in RoundRows(n)
      BY <2>2
    <3>2. RoundRows(n) = {i}
      BY <1>1, <3>1 DEF OneRowEach, RoundRows
    <3> QED
      BY <3>2, FS_Singleton
  <2> QED
    BY <2>1, <2>2
<1>2. Typed /\ Sequential => RoundsAreFresh
  <2> SUFFICES ASSUME Typed, Sequential, ~overlapped
               PROVE  /\ RoundResolvedOnce
                      /\ record # Gone /\ record.active # NoRound =>
                           RoundRows(record.nonce) = {}
    BY DEF RoundsAreFresh
  <2>1. OneRowEach /\ FreshTable
    BY DEF Sequential
  <2>2. RoundResolvedOnce
    BY <1>1, <2>1 DEF RoundResolvedOnce
  <2>3. ASSUME record # Gone, NEW i \in DOMAIN results, results[i].nonce = record.nonce
        PROVE  FALSE
    <3>1. record.nonce \in Nat
      BY <2>3 DEF Typed, TableTyped, Table
    <3> QED
      BY <2>1, <2>3, <3>1 DEF FreshTable, Fresh
  <2> QED
    BY <2>2, <2>3 DEF RoundRows
<1> QED
  BY <1>2, AlwaysTyped, AlwaysSequential, PTL
-----------------------------------------------------------------------------
(* ... and the backend was not restarted: a round over the socket has its    *)
(* timer set, or a call is about to set it or to end the round, ...          *)
ArmedOrOver ==
  OneAtATime /\ ~overHttp =>
    /\ \A c \in Calls : pc[c] = "start" => call[c].socket
    /\ record # Gone /\ record.active # NoRound =>
         timer = Armed(record.nonce) \/ \E c \in Calls : pc[c] \in {"arm", "read", "settle"}

(* ... and a completed session's table is gone, or about to be.              *)
EndedOrEnding ==
  OneAtATime /\ session.completed =>
    /\ record = Gone \/ \E c \in Calls : pc[c] = "delete"
    /\ \A c \in Calls : pc[c] \notin {"start", "settle"}

LEMMA ProceedOneByOne ==
  ASSUME Typed, Sequential, ArmedOrOver, EndedOrEnding, OneAtATime,
         NEW c \in Calls, Proceed(c)
  PROVE  ArmedOrOver' /\ EndedOrEnding'
<1>s. Written = {"totals", "reserve", "commit", "settled"}
  BY DEF Written
<1>0. pc[c] # "idle"
  BY DEF Proceed, Read, OpenRound, Arm, CloseRound, CreateResult, UpdateSession, Reserve,
         Commit, Settled, Complete, Delete
<1>a. /\ Alone(c) /\ Acts(c)
      /\ \A d \in Calls : d # c => pc'[d] = "idle" /\ pc[d] = "idle"
  BY <1>0, ProceedActs, StaysAlone DEF OneAtATime, Alone
<1>t. CallsTyped
  BY DEF Typed
<1>1. CASE Read(c)
  <2>1. /\ pc[c] = "read" /\ UNCHANGED <<record, timer, session, overHttp>>
        /\ \/ pc'[c] = "idle" /\ (record = Gone \/ record.active = NoRound)
           \/ pc'[c] = "settle" /\ record # Gone
    <3>1. call[c].op = "settle"
      BY <1>1, <1>t, CallStands DEF Read, SettleCall
    <3> QED
      BY <1>1, <3>1, Acting DEF Read, Accepts, table, books, history, Finish, Goto, Typed,
                                CallsTyped
  <2>2. session.completed => record = Gone
    BY <1>a, <2>1 DEF EndedOrEnding
  <2> QED
    BY <1>a, <2>1, <2>2 DEF EndedOrEnding, ArmedOrOver
<1>2. CASE OpenRound(c)
  <2>1. /\ pc[c] = "start" /\ UNCHANGED <<timer, session, overHttp>>
        /\ call[c].socket => pc'[c] = "arm"
        /\ pc'[c] \in {"arm", "idle"}
    BY <1>2, Acting DEF OpenRound, books, history
  <2>2. ~session.completed
    BY <2>1 DEF EndedOrEnding
  <2>3. EndedOrEnding'
    BY <2>1, <2>2 DEF EndedOrEnding
  <2>4. ~overHttp => pc'[c] = "arm"
    BY <2>1 DEF ArmedOrOver
  <2>5. ArmedOrOver'
    BY <1>a, <2>1, <2>4 DEF ArmedOrOver
  <2> QED
    BY <2>3, <2>5
<1>3. CASE Arm(c)
  <2>1. /\ pc[c] = "arm" /\ UNCHANGED <<record, session, overHttp>>
        /\ pc'[c] = "idle"
        /\ record # Gone => timer' = Armed(seen[c].nonce)
    BY <1>3, Acting DEF Arm, books, history
  <2>2. record # Gone => record.nonce = seen[c].nonce
    BY <1>a, <2>1 DEF Alone
  <2>3. session.completed => record = Gone
    BY <1>a, <2>1 DEF EndedOrEnding
  <2>4. EndedOrEnding'
    BY <1>a, <2>1, <2>3 DEF EndedOrEnding
  <2>5. record' # Gone => timer' = Armed(record'.nonce)
    BY <2>1, <2>2
  <2>6. Armed(record.nonce)' = Armed(record'.nonce)
    BY DEF Armed
  <2>7. ArmedOrOver'
    BY <1>a, <2>1, <2>5, <2>6 DEF ArmedOrOver
  <2> QED
    BY <2>4, <2>7
<1>4. CASE CloseRound(c)
  <2>1. /\ pc[c] = "settle" /\ pc'[c] = "result"
        /\ UNCHANGED <<session, overHttp>>
        /\ record' = Cleared(seen[c])
    BY <1>4, Acting DEF CloseRound, After, books, history
  <2>2. seen[c] \in Table
    BY <1>t, <2>1, CallStands DEF Settling
  <2>3. record'.active = NoRound
    BY <2>1, <2>2, ClearedTable
  <2>4. ~session.completed
    BY <2>1 DEF EndedOrEnding
  <2> QED
    BY <1>a, <2>1, <2>3, <2>4 DEF EndedOrEnding, ArmedOrOver
<1>5. CASE CreateResult(c) \/ UpdateSession(c) \/ Reserve(c) \/ Commit(c) \/ Settled(c)
  <2>1. /\ pc[c] \in {"result"} \cup Written /\ UNCHANGED <<record, overHttp>>
    BY <1>s, <1>5 DEF CreateResult, UpdateSession, Reserve, Commit, Settled, table, history
  <2>2. session'.completed = session.completed
    BY <1>5 DEF CreateResult, UpdateSession, Reserve, Commit, Settled, books, Incremented,
                Typed, BooksTyped
  <2>3. pc'[c] \notin {"start", "settle", "delete"}
    BY <1>5, Acting DEF CreateResult, UpdateSession, Reserve, Commit, Settled, After
  <2>4. record # Gone => record.active = NoRound
    BY <1>a, <2>1 DEF Alone
  <2>5. session.completed => record = Gone
    BY <1>a, <1>s, <2>1 DEF EndedOrEnding
  <2> QED
    BY <1>a, <2>1, <2>2, <2>3, <2>4, <2>5 DEF EndedOrEnding, ArmedOrOver
<1>6. CASE Complete(c)
  <2>1. /\ pc[c] = "end" /\ pc'[c] = "delete" /\ UNCHANGED <<record, timer, overHttp>>
    BY <1>6, Acting DEF Complete, table, history
  <2>2. ArmedOrOver'
    BY <1>a, <2>1 DEF ArmedOrOver, Armed
  <2>3. EndedOrEnding'
    BY <1>a, <2>1 DEF EndedOrEnding
  <2> QED
    BY <2>2, <2>3
<1>7. CASE Delete(c)
  <2>1. record' = Gone /\ pc'[c] = "idle"
    BY <1>7, Acting DEF Delete, Deleted
  <2> QED
    BY <1>a, <2>1 DEF EndedOrEnding, ArmedOrOver
<1> QED
  BY <1>1, <1>2, <1>3, <1>4, <1>5, <1>6, <1>7 DEF Proceed

LEMMA OneByOneStep ==
  Typed /\ Sequential /\ ArmedOrOver /\ EndedOrEnding /\ [Next]_vars
    => ArmedOrOver' /\ EndedOrEnding'
<1> SUFFICES ASSUME Typed, Sequential, ArmedOrOver, EndedOrEnding, [Next]_vars, OneAtATime'
             PROVE  ArmedOrOver' /\ EndedOrEnding'
  BY DEF ArmedOrOver, EndedOrEnding
<1>1. ASSUME NEW c \in Players, Start(c) \/ Cashout(c) \/ Resolve(c) \/ End(c)
      PROVE  ArmedOrOver' /\ EndedOrEnding'
  <2>0. c \in Calls
    BY DEF Calls
  <2>1. PICK what \in StartCall \cup SettleCall \cup EndCall :
          /\ Request(c, what)
          /\ what \in StartCall /\ ~overHttp' => what.socket
          /\ overHttp => overHttp'
    BY <1>1, <2>0, Asking
  <2>2. /\ Acts(c) /\ pc'[c] = what.op /\ call'[c] = what
        /\ record # Gone
        /\ UNCHANGED <<record, timer, session>>
        /\ OneAtATime /\ Quiet
    BY <2>0, <2>1, Acting DEF Request, Accepts, table, books, Quiet, OneAtATime
  <2>3. \A d \in Calls : pc[d] = "idle" /\ (d # c => pc'[d] = "idle")
    BY <2>2 DEF Quiet, Idle, Acts
  <2>4. ~session.completed
    BY <2>2, <2>3 DEF EndedOrEnding
  <2>5. what.op = "start" => what \in StartCall
    BY DEF StartCall, SettleCall, EndCall
  <2>6. ArmedOrOver'
    BY <2>1, <2>2, <2>3, <2>5 DEF ArmedOrOver, Armed
  <2>7. EndedOrEnding'
    BY <2>2, <2>4 DEF EndedOrEnding
  <2> QED
    BY <2>6, <2>7
<1>2. ASSUME NEW c \in Calls, Proceed(c)
      PROVE  ArmedOrOver' /\ EndedOrEnding'
  <2>1. UNCHANGED <<overlapped, restarted>>
    BY <1>2 DEF Proceed, Read, OpenRound, Arm, CloseRound, CreateResult, UpdateSession,
                Reserve, Commit, Settled, Complete, Delete, history
  <2>2. OneAtATime
    BY <2>1 DEF OneAtATime
  <2> QED
    BY <1>2, <2>2, ProceedOneByOne
<1>3. CASE FireBust
  <2>1. /\ Bust \in Calls /\ pc' = [pc EXCEPT ![Bust] = "read"]
        /\ UNCHANGED <<record, session, overHttp>>
        /\ OneAtATime /\ Quiet
    <3>1. ~overlapped' /\ ~restarted'
      BY DEF OneAtATime
    <3>2. overlapped' = (overlapped \/ ~Quiet) /\ restarted' = restarted
      BY <1>3, Firing
    <3>3. OneAtATime /\ Quiet
      BY <3>1, <3>2 DEF OneAtATime, Quiet
    <3> QED
      BY <1>3, <3>3, Firing DEF books
  <2>2. pc'[Bust] = "read" /\ \A d \in Calls : d # Bust => pc'[d] = "idle"
    BY <2>1 DEF Typed, CallsTyped, Quiet, Idle
  <2>3. session.completed => record = Gone
    BY <2>1 DEF EndedOrEnding, Quiet, Idle
  <2> QED
    BY <2>1, <2>2, <2>3 DEF ArmedOrOver, EndedOrEnding
<1>4. CASE Expire
  <2>1. UNCHANGED <<pc, call, session, overHttp, overlapped, restarted>> /\ record' = Gone
    BY <1>4 DEF Expire, calls, books, history
  <2> QED
    BY <2>1 DEF ArmedOrOver, EndedOrEnding, OneAtATime
<1>5. CASE Restart
  BY <1>5 DEF Restart, OneAtATime
<1>6. CASE UNCHANGED vars
  <2>1. UNCHANGED <<pc, call, record, timer, session, overHttp, overlapped, restarted>>
    BY <1>6 DEF vars, table, calls, books, history
  <2> QED
    BY <2>1 DEF ArmedOrOver, EndedOrEnding, OneAtATime, Armed
<1> QED
  BY <1>1, <1>2, <1>3, <1>4, <1>5, <1>6 DEF Next

LEMMA AlwaysOneByOne == Spec => [](ArmedOrOver /\ EndedOrEnding)
<1>1. Init => ArmedOrOver /\ EndedOrEnding
  BY DEF Init, ArmedOrOver, EndedOrEnding
<1> QED
  BY <1>1, AlwaysTyped, AlwaysSequential, OneByOneStep, PTL DEF Spec

(* A round started over the socket has a timer of its own for as long as it  *)
(* is in progress: none left by an earlier round, and none missing.          *)
THEOREM ArmedCorrect == Spec => []RoundIsArmed
<1>1. ArmedOrOver => RoundIsArmed
  BY DEF ArmedOrOver, RoundIsArmed, Quiet, Idle, Armed
<1> QED
  BY <1>1, AlwaysOneByOne, PTL

(* A table that was ended, its server seed revealed, takes no further round. *)
THEOREM EndedCorrect == Spec => []EndedIsGone
<1>1. EndedOrEnding => EndedIsGone
  BY DEF EndedOrEnding, EndedIsGone, Quiet, Idle
<1> QED
  BY <1>1, AlwaysOneByOne, PTL
-----------------------------------------------------------------------------
(* The totals and the results, as sums of integers.                          *)
LEMMA SumsTyped ==
  ASSUME Typed
  PROVE  /\ IsFiniteSet(Pending) /\ Pending \subseteq Calls
         /\ Cardinality(Pending) \in Nat
         /\ \A c \in Pending : owed[c] \in Int /\ owed[c] = Outcome(c).win
         /\ IsFiniteSet(DOMAIN results)
         /\ \A i \in DOMAIN results : won[i] \in Int /\ won[i] = results[i].win
         /\ SumFunctionOnSet(owed, Pending) \in Int
         /\ SumFunctionOnSet(won, DOMAIN results) \in Int
<1>1. IsFiniteSet(Pending) /\ Pending \subseteq Calls
  <2>1. IsFiniteSet(Calls)
    BY CrashSessionFinite, FS_AddElement DEF Calls
  <2>2. Pending \in SUBSET Calls
    BY DEF Pending
  <2> QED
    BY <2>1, <2>2, FS_Subset
<1>2. \A c \in Pending : owed[c] \in Int /\ owed[c] = Outcome(c).win
  <2>1. \A c \in Pending : c \in Calls /\ pc[c] \in Settling
    BY DEF Pending, Settling, Written
  <2>2. \A c \in Pending : Outcome(c) \in Row
    BY <2>1, CallStands DEF Typed
  <2>3. \A c \in Pending : Outcome(c).win \in Int
    BY <2>2 DEF Row
  <2> QED
    BY <2>3 DEF owed
<1>3. results \in Seq(Row)
  BY DEF Typed, BooksTyped
<1>4. IsFiniteSet(DOMAIN results)
  BY <1>3, FS_Interval
<1>5. \A i \in DOMAIN results : won[i] \in Int /\ won[i] = results[i].win
  <2>1. \A i \in DOMAIN results : results[i] \in Row
    BY <1>3
  <2>2. \A i \in DOMAIN results : results[i].win \in Int
    BY <2>1 DEF Row
  <2> QED
    BY <2>2 DEF won
<1> QED
  BY <1>1, <1>2, <1>4, <1>5, SumIsInt, FS_CardinalityType

(* A step that writes no result and counts none.                             *)
LEMMA TotalsKept ==
  ASSUME Typed, TotalsMatchResults, restarted' = restarted,
         results' = results,
         session'.rounds = session.rounds, session'.win = session.win,
         Pending' = Pending,
         \A c \in Pending : call'[c] = call[c] /\ seen'[c] = seen[c]
  PROVE  TotalsMatchResults'
<1>1. \A c \in Pending : owed'[c] = owed[c]
  BY OutcomeStays DEF owed
<1>2. SumFunctionOnSet(owed', Pending') = SumFunctionOnSet(owed, Pending)
  BY <1>1, SumsTyped, SumSame
<1>3. won' = won
  BY DEF won
<1> QED
  BY <1>2, <1>3 DEF TotalsMatchResults

LEMMA ProceedTotals ==
  ASSUME Typed, TotalsMatchResults, NEW c \in Calls, Proceed(c)
  PROVE  TotalsMatchResults'
<1>a. Acts(c)
  BY ProceedActs
<1>t. CallsTyped /\ BooksTyped
  BY DEF Typed
<1>r. restarted' = restarted
  BY DEF Proceed, Read, OpenRound, Arm, CloseRound, CreateResult, UpdateSession, Reserve,
         Commit, Settled, Complete, Delete, history
<1>1. ASSUME results' = results, session'.rounds = session.rounds,
             session'.win = session.win, pc[c] # "totals", pc'[c] # "totals"
      PROVE  TotalsMatchResults'
  <2>1. Pending' = Pending /\ c \notin Pending
    BY <1>a, <1>1 DEF Pending, Acts
  <2>2. \A d \in Pending : call'[d] = call[d] /\ seen'[d] = seen[d]
    BY <1>a, <2>1 DEF Pending, Acts
  <2> QED
    BY <1>r, <1>1, <2>1, <2>2, TotalsKept
<1>2. CASE Read(c) \/ OpenRound(c) \/ Arm(c) \/ CloseRound(c)
  <2>1. results' = results /\ session' = session /\ pc[c] # "totals"
    BY <1>2 DEF Read, OpenRound, Arm, CloseRound, books
  <2>2. pc'[c] # "totals"
    BY <1>2, Acting DEF Read, OpenRound, Arm, CloseRound, After
  <2> QED
    BY <1>1, <2>1, <2>2
<1>3. CASE Reserve(c) \/ Commit(c) \/ Settled(c) \/ Complete(c) \/ Delete(c)
  <2>1. /\ results' = results /\ pc[c] # "totals"
        /\ session' = session \/ session' = [session EXCEPT !.completed = TRUE]
    BY <1>3 DEF Reserve, Commit, Settled, Complete, Delete, books
  <2>2. pc'[c] # "totals"
    BY <1>3, Acting DEF Reserve, Commit, Settled, Complete, Delete, After
  <2>3. session'.rounds = session.rounds /\ session'.win = session.win
    BY <1>t, <2>1 DEF BooksTyped
  <2> QED
    BY <1>1, <2>1, <2>2, <2>3
<1>4. CASE CreateResult(c)
  <2>o. PICK o : o = Outcome(c)
    OBVIOUS
  <2>1. /\ pc[c] = "result" /\ pc'[c] = "totals"
        /\ call'[c] = call[c] /\ seen'[c] = seen[c]
        /\ results' = Append(results, o) /\ session' = session
        /\ results \in Seq(Row)
    BY <1>4, <1>t, <2>o, Acting DEF CreateResult, After, BooksTyped
  <2>2. Outcome(c)' = o /\ o \in Row
    BY <1>t, <2>o, <2>1, OutcomeStays, CallStands DEF Settling
  <2>3. /\ Pending' = Pending \cup {c} /\ c \notin Pending
        /\ \A d \in Pending : call'[d] = call[d] /\ seen'[d] = seen[d]
    BY <1>a, <2>1 DEF Pending, Acts
  <2>4. Cardinality(Pending') = Cardinality(Pending) + 1
    BY <2>3, SumsTyped, FS_AddElement
  <2>5. SumFunctionOnSet(owed', Pending') = SumFunctionOnSet(owed, Pending) + o.win
    <3>1. \A d \in Pending : owed'[d] = owed[d]
      BY <2>3, OutcomeStays DEF owed
    <3>2. SumFunctionOnSet(owed', Pending) = SumFunctionOnSet(owed, Pending)
      BY <3>1, SumsTyped, SumSame
    <3>3. owed'[c] = o.win
      BY <2>2, <2>3 DEF owed
    <3>4. \A d \in Pending \cup {c} : owed'[d] \in Int
      BY <2>2, <2>3, <3>1, <3>3, SumsTyped DEF Row
    <3>5. SumFunctionOnSet(owed', Pending \cup {c}) = SumFunctionOnSet(owed', Pending) + owed'[c]
      <4>1. PICK f : f = owed'
        OBVIOUS
      <4>2. PICK S : S = Pending
        OBVIOUS
      <4>3. /\ IsFiniteSet(S) /\ c \notin S
            /\ \A d \in S \cup {c} : f[d] \in Int
        BY <2>3, <3>4, <4>1, <4>2, SumsTyped
      <4>4. SumFunctionOnSet(f, S \cup {c}) = SumFunctionOnSet(f, S) + f[c]
        BY <4>3, SumWith
      <4> QED
        BY <4>1, <4>2, <4>4
    <3> QED
      BY <2>3, <3>2, <3>3, <3>5
  <2>6. SumFunctionOnSet(won', DOMAIN results') = SumFunctionOnSet(won, DOMAIN results) + o.win
    <3> DEFINE n == Len(results) + 1
    <3>1. /\ DOMAIN results' = DOMAIN results \cup {n} /\ n \notin DOMAIN results
          /\ results'[n] = o
          /\ \A i \in DOMAIN results : results'[i] = results[i]
      BY <2>1, <2>2
    <3> HIDE DEF n
    <3>2. won'[n] = o.win /\ \A i \in DOMAIN results : won'[i] = won[i]
      BY <3>1 DEF won
    <3>3. SumFunctionOnSet(won', DOMAIN results) = SumFunctionOnSet(won, DOMAIN results)
      BY <3>2, SumsTyped, SumSame
    <3>4. \A i \in DOMAIN results \cup {n} : won'[i] \in Int
      BY <2>2, <3>2, SumsTyped DEF Row
    <3>5. SumFunctionOnSet(won', DOMAIN results \cup {n}) =
            SumFunctionOnSet(won', DOMAIN results) + won'[n]
      <4>1. IsFiniteSet(DOMAIN results)
        BY SumsTyped
      <4> QED
        BY <3>1, <3>4, <4>1, SumWith
    <3> QED
      BY <3>1, <3>2, <3>3, <3>5
  <2>7. Len(results') = Len(results) + 1 /\ Len(results) \in Nat
    BY <2>1
  <2>8. session.rounds \in Nat /\ session.win \in Nat /\ o.win \in Nat
    BY <1>t, <2>2 DEF BooksTyped, Row
  <2>9. /\ SumFunctionOnSet(owed, Pending) \in Int
        /\ SumFunctionOnSet(won, DOMAIN results) \in Int
        /\ Cardinality(Pending) \in Nat
    BY SumsTyped
  <2> QED
    BY <1>r, <2>1, <2>4, <2>5, <2>6, <2>7, <2>8, <2>9, SMTT(30) DEF TotalsMatchResults
<1>5. CASE UpdateSession(c)
  <2>o. PICK o : o = Outcome(c)
    OBVIOUS
  <2>1. /\ pc[c] = "totals" /\ pc'[c] = "reserve"
        /\ results' = results
        /\ session' = Incremented(session, c)
    BY <1>5, Acting DEF UpdateSession, After
  <2>2. /\ Pending' = Pending \ {c} /\ c \in Pending
        /\ \A d \in Pending' : call'[d] = call[d] /\ seen'[d] = seen[d]
    BY <1>a, <2>1 DEF Pending, Acts
  <2>3. Cardinality(Pending') = Cardinality(Pending) - 1
    BY <2>2, SumsTyped, FS_RemoveElement
  <2>4. SumFunctionOnSet(owed, Pending) = o.win + SumFunctionOnSet(owed', Pending')
    <3>1. \A d \in Pending' : owed'[d] = owed[d]
      BY <2>2, OutcomeStays DEF owed
    <3>2. SumFunctionOnSet(owed, Pending') = SumFunctionOnSet(owed', Pending')
      BY <2>2, <3>1, SumsTyped, SumSame, FS_RemoveElement
    <3>3. SumFunctionOnSet(owed, Pending) = owed[c] + SumFunctionOnSet(owed, Pending \ {c})
      BY <2>2, SumsTyped, SumWithout
    <3>4. owed[c] = o.win
      BY <2>o, <2>2, SumsTyped
    <3> QED
      BY <2>2, <3>2, <3>3, <3>4
  <2>5. won' = won
    BY <2>1 DEF won
  <2>6. session.rounds \in Nat /\ session.win \in Nat /\ o.win \in Nat
    BY <1>t, <2>o, <2>1, CallStands DEF BooksTyped, Row, Settling, Written
  <2>7. session'.rounds = session.rounds + 1 /\ session'.win = session.win + o.win
    BY <1>t, <2>o, <2>1 DEF Incremented, BooksTyped
  <2>8. SumFunctionOnSet(owed', Pending') \in Int
    <3>1. \A d \in Pending' : owed'[d] = owed[d] /\ owed[d] \in Int
      BY <2>2, OutcomeStays, SumsTyped DEF owed
    <3>2. IsFiniteSet(Pending')
      BY <2>2, SumsTyped, FS_RemoveElement
    <3> QED
      BY <3>1, <3>2, SumIsInt
  <2>9. /\ SumFunctionOnSet(won, DOMAIN results) \in Int
        /\ Cardinality(Pending) \in Nat
    BY SumsTyped
  <2> QED
    BY <1>r, <2>1, <2>3, <2>4, <2>5, <2>6, <2>7, <2>8, <2>9, SMTT(30) DEF TotalsMatchResults
<1> QED
  BY <1>2, <1>3, <1>4, <1>5 DEF Proceed

LEMMA TotalsStep == Typed /\ TotalsMatchResults /\ [Next]_vars => TotalsMatchResults'
<1> SUFFICES ASSUME Typed, TotalsMatchResults, [Next]_vars
             PROVE  TotalsMatchResults'
  OBVIOUS
<1>1. ASSUME NEW c \in Players, Start(c) \/ Cashout(c) \/ Resolve(c) \/ End(c)
      PROVE  TotalsMatchResults'
  <2>0. c \in Calls
    BY DEF Calls
  <2>1. PICK what \in StartCall \cup SettleCall \cup EndCall : Request(c, what)
    BY <1>1, <2>0, Asking
  <2>2. /\ Acts(c) /\ pc'[c] = what.op /\ pc[c] = "idle"
        /\ UNCHANGED <<results, session, restarted>>
    BY <2>0, <2>1, Acting DEF Request, books, Idle
  <2>3. what.op # "totals"
    BY DEF StartCall, SettleCall, EndCall
  <2>4. Pending' = Pending /\ c \notin Pending
    BY <2>2, <2>3 DEF Pending, Acts
  <2>5. \A d \in Pending : call'[d] = call[d] /\ seen'[d] = seen[d]
    BY <2>2, <2>4 DEF Pending, Acts
  <2> QED
    BY <2>2, <2>4, <2>5, TotalsKept
<1>2. ASSUME NEW c \in Calls, Proceed(c)
      PROVE  TotalsMatchResults'
  BY <1>2, ProceedTotals
<1>3. CASE FireBust
  <2>1. /\ pc[Bust] = "idle" /\ pc' = [pc EXCEPT ![Bust] = "read"]
        /\ call' = [call EXCEPT ![Bust] = call'[Bust]]
        /\ UNCHANGED <<seen, results, session, restarted>>
    BY <1>3, Firing DEF books, Idle
  <2>2. Pending' = Pending /\ \A d \in Pending : call'[d] = call[d] /\ seen'[d] = seen[d]
    BY <2>1 DEF Pending, Typed, CallsTyped
  <2> QED
    BY <2>1, <2>2, TotalsKept
<1>4. CASE Expire \/ UNCHANGED vars
  <2>1. UNCHANGED <<pc, call, seen, results, session, restarted>>
    BY <1>4 DEF Expire, vars, calls, books, history
  <2>2. Pending' = Pending
    BY <2>1 DEF Pending
  <2> QED
    BY <2>1, <2>2, TotalsKept
<1>5. CASE Restart
  BY <1>5 DEF Restart, TotalsMatchResults
<1> QED
  BY <1>1, <1>2, <1>3, <1>4, <1>5 DEF Next

(* Until a restart loses a call between the two, the totals of the session   *)
(* and the wins of its results are the same, also when calls overlap.        *)
THEOREM TotalsCorrect == Spec => []TotalsMatchResults
<1>1. Init => TotalsMatchResults
  <2> SUFFICES ASSUME Init
               PROVE  TotalsMatchResults
    OBVIOUS
  <2>1. Pending = {} /\ DOMAIN results = {} /\ Len(results) = 0
    BY DEF Init, Pending
  <2>2. session.rounds = 0 /\ session.win = 0
    BY DEF Init
  <2> QED
    BY <2>1, <2>2, SumOfNothing, FS_EmptySet DEF TotalsMatchResults
<1> QED
  BY <1>1, AlwaysTyped, TotalsStep, PTL DEF Spec
=============================================================================
