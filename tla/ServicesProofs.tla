---------------------------- MODULE ServicesProofs ----------------------------
(* Proofs about rewards (Rewards) and sessions (AuthSession), and about the  *)
(* services side by side (Services).                                         *)
EXTENDS Services, PlayProofs, TournamentProofs

(* Rewards.  What the variables hold.                                        *)
ClaimKey == {"claim"} \X Nat

BonusKey == {"bonus"} \X Nat

RewardClaim == [kind : Kinds, status : {"PENDING", "CLAIMED"}, worthless : BOOLEAN]

BonusWallet == [origin : ClaimKey \cup {<<"request">>}, required : Nat, wagered : Nat,
                balance : 0 .. 1, status : {"ACTIVE", "CLOSED"}]

Claiming == [step : {"credit", "bonus", "mark"}, on : ClaimKey, paying : BOOLEAN]

Wagering == [step : {"wager"}, on : BonusKey, progress : Nat]

Converting == [step : {"close", "pay"}, on : BonusKey]

Cash == {"CASH", "CASHBACK"}

RewardCallTyped(k) ==
  \/ k = RRest
  \/ k \in Claiming /\ k.on[2] \in DOMAIN claims
  \/ k \in Wagering \cup Converting /\ k.on[2] \in DOMAIN bonuses

RewardsTyped ==
  /\ claims \in Seq(RewardClaim)
  /\ bonuses \in Seq(BonusWallet)
  /\ moves \in Seq(ClaimKey \cup BonusKey)
  /\ DOMAIN rcall = RCalls
  /\ rlost \subseteq DOMAIN bonuses
  /\ \A c \in RCalls : RewardCallTyped(rcall[c])

(* Only cash is credited, and only a bonus claim is given a bonus.           *)
Credited(key) == \E n \in DOMAIN moves : moves[n] = key

Given(key) == \E b \in DOMAIN bonuses : bonuses[b].origin = key

ByKind ==
  /\ \A i \in Nat : Credited(<<"claim", i>>) => i \in DOMAIN claims /\ claims[i].kind \in Cash
  /\ \A i \in Nat : Given(<<"claim", i>>) => i \in DOMAIN claims /\ claims[i].kind = "BONUS"
  /\ \A c \in RCalls :
       /\ rcall[c].step = "credit" => claims[rcall[c].on[2]].kind \in Cash /\ rcall[c].paying
       /\ rcall[c].step = "bonus" => claims[rcall[c].on[2]].kind = "BONUS" /\ rcall[c].paying

(* A claim that is settled, or about to be, was paid.                        *)
PaidFirst(i) ==
  /\ claims[i].kind \in Cash => Credited(<<"claim", i>>)
  /\ claims[i].kind = "BONUS" => Given(<<"claim", i>>)

SettledIsPaid ==
  /\ \A i \in DOMAIN claims : claims[i].status = "CLAIMED" /\ ~claims[i].worthless => PaidFirst(i)
  /\ \A c \in RCalls : rcall[c].step = "mark" /\ rcall[c].paying => PaidFirst(rcall[c].on[2])

(* A bonus claim no two calls shared is given one bonus, by the call that is *)
(* at work on it or by the one that marked it claimed.                       *)
GivenOnce(i) ==
  LET key == <<"claim", i>> IN
  key \notin rshared =>
    /\ \A c, d \in RCalls : rcall[c].on = key /\ rcall[d].on = key => c = d
    /\ \A a, b \in DOMAIN bonuses : bonuses[a].origin = key /\ bonuses[b].origin = key => a = b
    /\ \A c \in RCalls : rcall[c].on = key /\ rcall[c].step = "bonus" => ~Given(key)
    /\ claims[i].status = "PENDING" /\ (\A c \in RCalls : rcall[c].on # key) => ~Given(key)

(* A bonus is emptied before it is credited.                                 *)
EmptiedFirst(b) ==
  LET key == <<"bonus", b>> IN
  /\ Credited(key) => bonuses[b].balance = 0
  /\ \A c \in RCalls : rcall[c].step = "pay" /\ rcall[c].on = key => bonuses[b].balance = 0
  /\ bonuses[b].balance = 0 /\ ~Credited(key) =>
       b \in rlost \/ \E c \in RCalls : rcall[c].step = "pay" /\ rcall[c].on = key

CreditedOnce == \A m, n \in DOMAIN moves : moves[m] = moves[n] => m = n

RewardsInv ==
  /\ RewardsTyped /\ CreditedOnce /\ ByKind /\ SettledIsPaid
  /\ \A i \in DOMAIN claims : GivenOnce(i)
  /\ \A b \in DOMAIN bonuses : EmptiedFirst(b)
  /\ \A b \in Nat : Credited(<<"bonus", b>>) => b \in DOMAIN bonuses

(* What a call at each step holds.                                           *)
LEMMA RewardCalls ==
  ASSUME NEW k, RewardCallTyped(k)
  PROVE  /\ k.step \in {"idle", "credit", "bonus", "mark", "wager", "close", "pay"}
         /\ k.step = "idle" <=> k = RRest
         /\ k.step = "idle" => k.on = <<"none">>
         /\ k.step \in {"credit", "bonus", "mark"} =>
              /\ k \in Claiming /\ k.on[2] \in Nat /\ k.on = <<"claim", k.on[2]>>
              /\ k.on[2] \in DOMAIN claims
         /\ k.step = "wager" => k \in Wagering
         /\ k.step \in {"close", "pay"} => k \in Converting
         /\ k.step \in {"wager", "close", "pay"} =>
              /\ k.on[2] \in Nat /\ k.on = <<"bonus", k.on[2]>> /\ k.on[2] \in DOMAIN bonuses
<1>1. CASE k = RRest
  BY <1>1 DEF RRest
<1>2. CASE k \in Claiming /\ k.on[2] \in DOMAIN claims
  <2>1. k.step \in {"credit", "bonus", "mark"} /\ k.on \in ClaimKey /\ k # RRest
    BY <1>2 DEF Claiming, RRest
  <2>2. k.on[2] \in Nat /\ k.on = <<"claim", k.on[2]>>
    BY <2>1 DEF ClaimKey
  <2> QED
    BY <1>2, <2>1, <2>2
<1>3. CASE k \in Wagering \cup Converting /\ k.on[2] \in DOMAIN bonuses
  <2>1. k.step \in {"wager", "close", "pay"} /\ k.on \in BonusKey /\ k # RRest
    BY <1>3 DEF Wagering, Converting, RRest
  <2>2. k.on[2] \in Nat /\ k.on = <<"bonus", k.on[2]>>
    BY <2>1 DEF BonusKey
  <2>3. (k.step = "wager" => k \in Wagering) /\ (k.step \in {"close", "pay"} => k \in Converting)
    BY <1>3 DEF Wagering, Converting
  <2> QED
    BY <1>3, <2>1, <2>2, <2>3
<1> QED
  BY <1>1, <1>2, <1>3 DEF RewardCallTyped

LEMMA KeysApart ==
  /\ \A i, j : <<"claim", i>> = <<"claim", j>> => i = j
  /\ \A i, j : <<"bonus", i>> = <<"bonus", j>> => i = j
  /\ \A i, j : <<"claim", i>> # <<"bonus", j>> /\ <<"bonus", j>> # <<"claim", i>>
  /\ \A i : <<"claim", i>> # <<"none">> /\ <<"bonus", i>> # <<"none">>
  /\ \A i : <<"claim", i>> # <<"request">>
  OBVIOUS

LEMMA RewardGoes ==
  ASSUME RewardsTyped, NEW c \in RCalls, NEW next, RGo(c, next)
  PROVE  /\ DOMAIN rcall' = RCalls
         /\ rcall'[c] = next
         /\ \A d \in RCalls : d # c => rcall'[d] = rcall[d]
  BY DEF RGo, RewardsTyped

(* Nothing is credited or given but by a change of moves or bonuses.         *)
LEMMA CreditedKept == UNCHANGED moves => \A key : Credited(key)' <=> Credited(key)
  BY DEF Credited

LEMMA GivenKept == UNCHANGED bonuses => \A key : Given(key)' <=> Given(key)
  BY DEF Given

LEMMA RewardsInit1 == RewardsInit => RewardsInv
<1> SUFFICES ASSUME RewardsInit PROVE RewardsInv
  OBVIOUS
<1>1. /\ claims = <<>> /\ bonuses = <<>> /\ moves = <<>> /\ rlost = {}
      /\ DOMAIN rcall = RCalls /\ \A c \in RCalls : rcall[c] = RRest
  BY DEF RewardsInit
<1>2. \A c \in RCalls : rcall[c].step = "idle"
  BY <1>1 DEF RRest
<1>3. DOMAIN claims = {} /\ DOMAIN bonuses = {} /\ DOMAIN moves = {}
  BY <1>1
<1>4. claims \in Seq(RewardClaim) /\ bonuses \in Seq(BonusWallet) /\ moves \in Seq(ClaimKey \cup BonusKey)
  BY <1>1
<1>5. RewardsTyped
  BY <1>1, <1>4 DEF RewardsTyped, RewardCallTyped
<1>6. \A key : ~Credited(key) /\ ~Given(key)
  BY <1>3 DEF Credited, Given
<1> QED
  BY <1>2, <1>3, <1>5, <1>6 DEF RewardsInv, CreditedOnce, ByKind, SettledIsPaid

(* A call begins; it finds a claim pending, or a bonus.                      *)
LEMMA RewardBegins ==
  ASSUME RewardsInv, NEW c \in RCalls, NEW next, RewardCallTyped(next), RBegin(c, next),
         next.step \in {"credit", "bonus", "mark", "wager", "close"},
         next.step = "credit" => claims[next.on[2]].kind \in Cash /\ next.paying,
         next.step = "bonus" => claims[next.on[2]].kind = "BONUS" /\ next.paying,
         next.step = "mark" /\ next.paying => PaidFirst(next.on[2]),
         next.step \in {"credit", "bonus", "mark"} => claims[next.on[2]].status = "PENDING"
  PROVE  RewardsInv'
<1>1. /\ rcall[c] = RRest /\ RGo(c, next) /\ UNCHANGED <<claims, bonuses, moves, rlost>>
      /\ rshared' = rshared \cup {on \in {next.on} : \E d \in RCalls \ {c} : rcall[d].on = on}
  BY DEF RBegin, rewardRows
<1>2. /\ DOMAIN rcall' = RCalls
      /\ rcall'[c] = next
      /\ \A d \in RCalls : d # c => rcall'[d] = rcall[d]
  BY <1>1, RewardGoes DEF RewardsInv
<1>3. RewardsTyped'
  BY <1>1, <1>2 DEF RewardsInv, RewardsTyped, RewardCallTyped
<1>4. /\ \A key : Credited(key)' <=> Credited(key)
      /\ \A key : Given(key)' <=> Given(key)
      /\ \A i : PaidFirst(i)' <=> PaidFirst(i)
  BY <1>1 DEF Credited, Given, PaidFirst
<1>5. CreditedOnce' /\ ByKind' /\ SettledIsPaid'
  <2>1. CreditedOnce'
    BY <1>1 DEF RewardsInv, CreditedOnce
  <2>2. ByKind'
    BY <1>1, <1>2, <1>4 DEF RewardsInv, ByKind
  <2>3. SettledIsPaid'
    BY <1>1, <1>2, <1>4 DEF RewardsInv, SettledIsPaid
  <2> QED
    BY <2>1, <2>2, <2>3
<1>6. rcall[c].on = <<"none">>
  BY <1>1 DEF RRest
<1>7. ASSUME NEW i \in DOMAIN claims PROVE GivenOnce(i)'
  <2>1. PICK key : key = <<"claim", i>> /\ key # <<"none">>
    BY KeysApart
  <2> SUFFICES ASSUME key \notin rshared'
               PROVE  /\ \A d, e \in RCalls : rcall'[d].on = key /\ rcall'[e].on = key => d = e
                      /\ \A a, b \in DOMAIN bonuses : bonuses[a].origin = key /\ bonuses[b].origin = key => a = b
                      /\ \A d \in RCalls : rcall'[d].on = key /\ rcall'[d].step = "bonus" => ~Given(key)
                      /\ claims[i].status = "PENDING" /\ (\A d \in RCalls : rcall'[d].on # key) => ~Given(key)
    BY <1>1, <1>4, <2>1 DEF GivenOnce
  <2>2. /\ \A d, e \in RCalls : rcall[d].on = key /\ rcall[e].on = key => d = e
        /\ \A a, b \in DOMAIN bonuses : bonuses[a].origin = key /\ bonuses[b].origin = key => a = b
        /\ \A d \in RCalls : rcall[d].on = key /\ rcall[d].step = "bonus" => ~Given(key)
        /\ claims[i].status = "PENDING" /\ (\A d \in RCalls : rcall[d].on # key) => ~Given(key)
    BY <1>1, <1>7, <2>1 DEF RewardsInv, GivenOnce
  <2>3. CASE next.on = key
    <3>1. \A d \in RCalls : rcall[d].on # key
      BY <1>1, <1>6, <2>1, <2>3
    <3>2. next.step = "bonus" => claims[i].status = "PENDING"
      <4>1. next.step = "bonus" => next.on[2] = i
        BY <2>1, <2>3, RewardCalls, KeysApart
      <4> QED
        BY <4>1
    <3> QED
      BY <1>2, <2>2, <2>3, <3>1, <3>2
  <2>4. CASE next.on # key
    BY <1>2, <1>6, <2>1, <2>2, <2>4
  <2> QED
    BY <2>3, <2>4
<1>8. ASSUME NEW b \in DOMAIN bonuses PROVE EmptiedFirst(b)'
  <2>1. EmptiedFirst(b)
    BY <1>8 DEF RewardsInv
  <2>2. rcall[c].step # "pay" /\ rcall'[c].step # "pay"
    BY <1>1, <1>2 DEF RRest
  <2> QED
    BY <1>1, <1>2, <1>4, <2>1, <2>2 DEF EmptiedFirst
<1> QED
  BY <1>1, <1>3, <1>4, <1>5, <1>7, <1>8 DEF RewardsInv

LEMMA ClaimStep == ASSUME RewardsInv, NEW c \in RCalls, ClaimReward(c) PROVE RewardsInv'
<1>1. PICK i \in DOMAIN claims, currency \in BOOLEAN :
        /\ claims[i].status = "PENDING"
        /\ RBegin(c, [on |-> <<"claim", i>>, paying |-> currency,
                      step |-> CASE currency /\ claims[i].kind \in {"CASH", "CASHBACK"} -> "credit"
                                 [] currency /\ claims[i].kind = "BONUS" -> "bonus"
                                 [] OTHER -> "mark"])
  BY DEF ClaimReward
<1>2. PICK step : step = CASE currency /\ claims[i].kind \in {"CASH", "CASHBACK"} -> "credit"
                           [] currency /\ claims[i].kind = "BONUS" -> "bonus"
                           [] OTHER -> "mark"
  OBVIOUS
<1>3. /\ step \in {"credit", "bonus", "mark"}
      /\ step = "credit" => currency /\ claims[i].kind \in Cash
      /\ step = "bonus" => currency /\ claims[i].kind = "BONUS"
      /\ step = "mark" /\ currency => claims[i].kind \notin Cash /\ claims[i].kind # "BONUS"
  BY <1>2 DEF Cash
<1>4. PICK next : next = [on |-> <<"claim", i>>, paying |-> currency, step |-> step]
  OBVIOUS
<1>5. i \in Nat
  BY DEF RewardsInv, RewardsTyped
<1>6. next \in Claiming /\ next.on[2] = i /\ next.step = step /\ next.paying = currency
  BY <1>3, <1>4, <1>5 DEF Claiming, ClaimKey
<1>7. RewardCallTyped(next)
  BY <1>6 DEF RewardCallTyped
<1>8. RBegin(c, next)
  BY <1>1, <1>2, <1>4
<1>9. next.step = "mark" /\ next.paying => PaidFirst(next.on[2])
  BY <1>3, <1>6 DEF PaidFirst
<1> QED
  BY <1>1, <1>3, <1>6, <1>7, <1>8, <1>9, RewardBegins

LEMMA WagerStep == ASSUME RewardsInv, NEW c \in RCalls, Wager(c) PROVE RewardsInv'
<1>1. PICK b \in DOMAIN bonuses :
        RBegin(c, [on |-> <<"bonus", b>>, step |-> "wager", progress |-> bonuses[b].wagered + 1])
  BY DEF Wager
<1>2. PICK next : next = [on |-> <<"bonus", b>>, step |-> "wager", progress |-> bonuses[b].wagered + 1]
  OBVIOUS
<1>3. bonuses[b] \in BonusWallet /\ b \in Nat
  BY DEF RewardsInv, RewardsTyped
<1>4. bonuses[b].wagered + 1 \in Nat
  BY <1>3 DEF BonusWallet
<1>5. next \in Wagering /\ next.on[2] = b /\ next.step = "wager"
  BY <1>2, <1>3, <1>4 DEF Wagering, BonusKey
<1>6. RewardCallTyped(next)
  BY <1>5 DEF RewardCallTyped
<1> QED
  BY <1>1, <1>2, <1>5, <1>6, RewardBegins

LEMMA ConvertStep == ASSUME RewardsInv, NEW c \in RCalls, Convert(c) PROVE RewardsInv'
<1>1. PICK b \in DOMAIN bonuses : RBegin(c, [on |-> <<"bonus", b>>, step |-> "close"])
  BY DEF Convert
<1>2. PICK next : next = [on |-> <<"bonus", b>>, step |-> "close"]
  OBVIOUS
<1>3. b \in Nat
  BY DEF RewardsInv, RewardsTyped
<1>5. next \in Converting /\ next.on[2] = b /\ next.step = "close"
  BY <1>2, <1>3 DEF Converting, BonusKey
<1>6. RewardCallTyped(next)
  BY <1>5 DEF RewardCallTyped
<1> QED
  BY <1>1, <1>2, <1>5, <1>6, RewardBegins

(* A new claim is pending, and no call and no payment is about it.           *)
LEMMA GrantsReward == ASSUME RewardsInv, GrantReward PROVE RewardsInv'
<1>1. PICK new \in RewardClaim : claims' = Append(claims, new) /\ new.status = "PENDING"
  <2>1. PICK kind \in Kinds : claims' = Append(claims, [kind |-> kind, status |-> "PENDING", worthless |-> FALSE])
    BY DEF GrantReward
  <2>2. PICK new : new = [kind |-> kind, status |-> "PENDING", worthless |-> FALSE]
    OBVIOUS
  <2>3. new \in RewardClaim /\ new.status = "PENDING"
    BY <2>2 DEF RewardClaim
  <2> QED
    BY <2>1, <2>2, <2>3
<1>2. UNCHANGED <<bonuses, moves, rcall, rshared, rlost>>
  BY DEF GrantReward
<1>3. PICK n \in Nat : n = Len(claims) /\ claims \in Seq(RewardClaim)
  BY DEF RewardsInv, RewardsTyped
<1>4. /\ claims' \in Seq(RewardClaim) /\ DOMAIN claims = 1 .. n /\ DOMAIN claims' = 1 .. n + 1
      /\ claims'[n + 1] = new /\ \A i \in DOMAIN claims : claims'[i] = claims[i]
  BY <1>1, <1>3
<1>5. RewardsTyped'
  BY <1>2, <1>4 DEF RewardsInv, RewardsTyped, RewardCallTyped
<1>6. /\ \A key : Credited(key)' <=> Credited(key)
      /\ \A key : Given(key)' <=> Given(key)
  BY <1>2 DEF Credited, Given
<1>7. \A c \in RCalls : rcall[c].step \in {"credit", "bonus", "mark"} => rcall[c].on[2] \in DOMAIN claims
  BY RewardCalls DEF RewardsInv, RewardsTyped
<1>8. CreditedOnce' /\ ByKind'
  BY <1>2, <1>4, <1>6, <1>7 DEF RewardsInv, CreditedOnce, ByKind
<1>9. \A i \in DOMAIN claims : PaidFirst(i)' <=> PaidFirst(i)
  BY <1>4, <1>6 DEF PaidFirst
<1>10. SettledIsPaid'
  BY <1>1, <1>2, <1>4, <1>7, <1>9 DEF RewardsInv, SettledIsPaid
<1>11. ASSUME NEW i \in DOMAIN claims' PROVE GivenOnce(i)'
  <2>1. CASE i \in DOMAIN claims
    <3>1. GivenOnce(i) /\ claims'[i] = claims[i]
      BY <1>4, <2>1 DEF RewardsInv
    <3> QED
      BY <1>2, <1>6, <3>1 DEF GivenOnce
  <2>2. CASE i \notin DOMAIN claims
    <3>1. ~Given(<<"claim", i>>)
      BY <1>4, <2>2 DEF RewardsInv, ByKind
    <3>2. \A c \in RCalls : rcall[c].on # <<"claim", i>>
      <4> SUFFICES ASSUME NEW c \in RCalls, rcall[c].on = <<"claim", i>> PROVE FALSE
        OBVIOUS
      <4>1. RewardCallTyped(rcall[c])
        BY DEF RewardsInv, RewardsTyped
      <4> QED
        BY <2>2, <4>1, RewardCalls, KeysApart
    <3>3. \A b \in DOMAIN bonuses : bonuses[b].origin # <<"claim", i>>
      BY <3>1 DEF Given
    <3> QED
      BY <1>2, <1>6, <3>1, <3>2, <3>3 DEF GivenOnce
  <2> QED
    BY <2>1, <2>2
<1>12. ASSUME NEW b \in DOMAIN bonuses PROVE EmptiedFirst(b)'
  BY <1>2, <1>6 DEF RewardsInv, EmptiedFirst
<1> QED
  BY <1>2, <1>5, <1>6, <1>8, <1>10, <1>11, <1>12 DEF RewardsInv

(* A bonus wallet is made, for a claim or on request.                        *)
LEMMA BonusMade ==
  ASSUME RewardsTyped, NEW origin \in ClaimKey \cup {<<"request">>}, NEW required \in Nat,
         bonuses' = Append(bonuses, BonusFor(origin, required))
  PROVE  /\ bonuses' \in Seq(BonusWallet)
         /\ \E n \in Nat :
              /\ DOMAIN bonuses = 1 .. n /\ DOMAIN bonuses' = 1 .. n + 1
              /\ bonuses'[n + 1].origin = origin /\ bonuses'[n + 1].balance = 1
              /\ \A b \in DOMAIN bonuses : bonuses'[b] = bonuses[b]
         /\ \A key : Given(key)' <=> (Given(key) \/ key = origin)
<1>1. PICK new : new = BonusFor(origin, required)
  OBVIOUS
<1>2. new \in BonusWallet /\ new.origin = origin /\ new.balance = 1
  BY <1>1 DEF BonusFor, BonusWallet
<1>3. PICK n \in Nat : n = Len(bonuses) /\ bonuses \in Seq(BonusWallet)
  BY DEF RewardsTyped
<1>4. /\ bonuses' \in Seq(BonusWallet) /\ DOMAIN bonuses = 1 .. n /\ DOMAIN bonuses' = 1 .. n + 1
      /\ bonuses'[n + 1] = new /\ \A b \in DOMAIN bonuses : bonuses'[b] = bonuses[b]
  BY <1>1, <1>2, <1>3
<1>5. n + 1 \in DOMAIN bonuses' /\ \A b \in DOMAIN bonuses' : b \in DOMAIN bonuses \/ b = n + 1
  BY <1>4
<1>6. \A b \in DOMAIN bonuses : b \in DOMAIN bonuses'
  BY <1>4
<1>7. \A key : Given(key)' <=> (Given(key) \/ key = origin)
  BY <1>2, <1>4, <1>5, <1>6 DEF Given
<1> QED
  BY <1>2, <1>4, <1>7

(* Nothing was credited for it, and no call is paying it.                    *)
LEMMA BonusIsNew ==
  ASSUME RewardsInv, NEW n \in Nat, DOMAIN bonuses = 1 .. n, DOMAIN bonuses' = 1 .. n + 1,
         bonuses'[n + 1].balance = 1, \A b \in DOMAIN bonuses : bonuses'[b] = bonuses[b],
         UNCHANGED moves, rlost \subseteq rlost',
         \A d \in RCalls : rcall[d].step = "pay" => rcall'[d] = rcall[d],
         \A d \in RCalls : rcall'[d].step = "pay" => rcall'[d] = rcall[d]
  PROVE  /\ \A b \in DOMAIN bonuses' : EmptiedFirst(b)'
         /\ \A b \in Nat : Credited(<<"bonus", b>>)' => b \in DOMAIN bonuses'
<1>1. \A key : Credited(key)' <=> Credited(key)
  BY DEF Credited
<1>2. \A b \in Nat : Credited(<<"bonus", b>>) => b \in DOMAIN bonuses
  BY DEF RewardsInv
<1>3. ASSUME NEW b \in DOMAIN bonuses PROVE EmptiedFirst(b)'
  <2>1. PICK key : key = <<"bonus", b>>
    OBVIOUS
  <2>2. /\ Credited(key) => bonuses[b].balance = 0
        /\ \A d \in RCalls : rcall[d].step = "pay" /\ rcall[d].on = key => bonuses[b].balance = 0
        /\ bonuses[b].balance = 0 /\ ~Credited(key) =>
             b \in rlost \/ \E d \in RCalls : rcall[d].step = "pay" /\ rcall[d].on = key
    BY <1>3, <2>1 DEF RewardsInv, EmptiedFirst
  <2>3. bonuses'[b] = bonuses[b] /\ (Credited(key)' <=> Credited(key)) /\ (b \in rlost => b \in rlost')
    BY <1>1, <1>3
  <2>4. /\ Credited(key)' => bonuses'[b].balance = 0
        /\ \A d \in RCalls : rcall'[d].step = "pay" /\ rcall'[d].on = key => bonuses'[b].balance = 0
        /\ bonuses'[b].balance = 0 /\ ~Credited(key)' =>
             b \in rlost' \/ \E d \in RCalls : rcall'[d].step = "pay" /\ rcall'[d].on = key
    BY <2>2, <2>3
  <2> QED
    BY <2>1, <2>4 DEF EmptiedFirst
<1>4. EmptiedFirst(n + 1)'
  <2>1. ~Credited(<<"bonus", n + 1>>)
    BY <1>2
  <2>2. ASSUME NEW d \in RCalls, rcall'[d].step = "pay" PROVE rcall'[d].on # <<"bonus", n + 1>>
    <3>1. RewardCallTyped(rcall[d]) /\ rcall[d].step = "pay" /\ rcall'[d] = rcall[d]
      BY <2>2 DEF RewardsInv, RewardsTyped
    <3>2. rcall[d].on = <<"bonus", rcall[d].on[2]>> /\ rcall[d].on[2] \in 1 .. n
      BY <3>1, RewardCalls
    <3> QED
      BY <3>1, <3>2, KeysApart
  <2> QED
    BY <1>1, <2>1, <2>2 DEF EmptiedFirst
<1> QED
  BY <1>1, <1>2, <1>3, <1>4

LEMMA GrantsBonus == ASSUME RewardsInv, GrantBonus PROVE RewardsInv'
<1>1. PICK required \in Nat : bonuses' = Append(bonuses, BonusFor(<<"request">>, required))
  BY RewardsAssumption DEF GrantBonus
<1>2. UNCHANGED <<claims, moves, rcall, rshared, rlost>>
  BY DEF GrantBonus
<1>3. PICK n \in Nat :
        /\ bonuses' \in Seq(BonusWallet)
        /\ DOMAIN bonuses = 1 .. n /\ DOMAIN bonuses' = 1 .. n + 1
        /\ bonuses'[n + 1].origin = <<"request">> /\ bonuses'[n + 1].balance = 1
        /\ \A b \in DOMAIN bonuses : bonuses'[b] = bonuses[b]
        /\ \A key : Given(key)' <=> (Given(key) \/ key = <<"request">>)
  BY <1>1, BonusMade DEF RewardsInv
<1>4. \A i : Given(<<"claim", i>>)' <=> Given(<<"claim", i>>)
  BY <1>3, KeysApart
<1>5. \A key : Credited(key)' <=> Credited(key)
  BY <1>2 DEF Credited
<1>6. RewardsTyped'
  BY <1>2, <1>3 DEF RewardsInv, RewardsTyped, RewardCallTyped
<1>7. CreditedOnce' /\ ByKind'
  BY <1>2, <1>4, <1>5 DEF RewardsInv, CreditedOnce, ByKind
<1>8. \A i : PaidFirst(i)' <=> PaidFirst(i)
  <2>1. \A i : Credited(<<"claim", i>>)' <=> Credited(<<"claim", i>>)
    BY <1>5
  <2> SUFFICES ASSUME NEW i PROVE PaidFirst(i)' <=> PaidFirst(i)
    OBVIOUS
  <2>2. PICK key : key = <<"claim", i>>
    OBVIOUS
  <2>3. (Credited(key)' <=> Credited(key)) /\ (Given(key)' <=> Given(key)) /\ claims' = claims
    BY <1>2, <1>4, <2>1, <2>2
  <2> QED
    BY <2>2, <2>3 DEF PaidFirst
<1>9. SettledIsPaid'
  BY <1>2, <1>8 DEF RewardsInv, SettledIsPaid
<1>10. ASSUME NEW i \in DOMAIN claims PROVE GivenOnce(i)'
  <2>1. GivenOnce(i)
    BY <1>10 DEF RewardsInv
  <2>2. \A b \in DOMAIN bonuses' : bonuses'[b].origin = <<"claim", i>> =>
          b \in DOMAIN bonuses /\ bonuses[b].origin = <<"claim", i>>
    BY <1>3, KeysApart
  <2> QED
    BY <1>2, <1>4, <2>1, <2>2 DEF GivenOnce
<1>11. /\ \A b \in DOMAIN bonuses' : EmptiedFirst(b)'
       /\ \A b \in Nat : Credited(<<"bonus", b>>)' => b \in DOMAIN bonuses'
  BY <1>2, <1>3, BonusIsNew
<1> QED
  BY <1>2, <1>6, <1>7, <1>9, <1>10, <1>11 DEF RewardsInv

LEMMA BonusClaimStep == ASSUME RewardsInv, NEW c \in RCalls, BonusClaim(c) PROVE RewardsInv'
<1>1. PICK i, key, k, next :
        /\ k = rcall[c] /\ key = k.on /\ i = key[2]
        /\ next = [k EXCEPT !.step = "mark"]
  OBVIOUS
<1>2. /\ k.step = "bonus" /\ k \in Claiming /\ i \in Nat /\ key = <<"claim", i>> /\ i \in DOMAIN claims
      /\ claims[i].kind = "BONUS" /\ k.paying
  <2>1. RewardCallTyped(k) /\ k.step = "bonus"
    BY <1>1 DEF BonusClaim, RewardsInv, RewardsTyped
  <2> QED
    BY <1>1, <2>1, RewardCalls DEF RewardsInv, ByKind
<1>3. /\ next \in Claiming /\ next.step = "mark" /\ next.on = key /\ next.paying = k.paying
      /\ RewardCallTyped(next)
  BY <1>1, <1>2 DEF Claiming, RewardCallTyped
<1>4. UNCHANGED <<claims, moves, rshared, rlost>> /\ RGo(c, next)
      /\ bonuses' = Append(bonuses, BonusFor(key, 0))
  BY <1>1 DEF BonusClaim
<1>5. PICK n \in Nat :
        /\ bonuses' \in Seq(BonusWallet)
        /\ DOMAIN bonuses = 1 .. n /\ DOMAIN bonuses' = 1 .. n + 1
        /\ bonuses'[n + 1].origin = key /\ bonuses'[n + 1].balance = 1
        /\ \A b \in DOMAIN bonuses : bonuses'[b] = bonuses[b]
        /\ \A q : Given(q)' <=> (Given(q) \/ q = key)
  <2>1. key \in ClaimKey
    BY <1>2 DEF ClaimKey
  <2> QED
    BY <1>4, <2>1, BonusMade DEF RewardsInv
<1>6. /\ DOMAIN rcall' = RCalls
      /\ rcall'[c] = next
      /\ \A d \in RCalls : d # c => rcall'[d] = rcall[d]
  BY <1>4, RewardGoes DEF RewardsInv
<1>7. \A q : Credited(q)' <=> Credited(q)
  BY <1>4 DEF Credited
<1>8. RewardsTyped'
  <2>2. DOMAIN claims' = DOMAIN claims /\ \A b \in DOMAIN bonuses : b \in DOMAIN bonuses'
    BY <1>4, <1>5
  <2>3. \A d \in RCalls : RewardCallTyped(rcall[d])
    BY DEF RewardsInv, RewardsTyped
  <2>4. RewardCallTyped(next)'
    BY <1>2, <1>3, <2>2 DEF RewardCallTyped
  <2>5. ASSUME NEW d \in RCalls, d # c PROVE RewardCallTyped(rcall[d])'
    BY <1>6, <2>2, <2>3, <2>5 DEF RewardCallTyped
  <2>1. \A d \in RCalls : RewardCallTyped(rcall[d])'
    BY <1>6, <2>4, <2>5
  <2> QED
    BY <1>4, <1>5, <1>6, <2>1 DEF RewardsInv, RewardsTyped
<1>9. CreditedOnce'
  BY <1>4 DEF RewardsInv, CreditedOnce
<1>10. ByKind'
  <2>1. \A j \in Nat : Given(<<"claim", j>>)' => j \in DOMAIN claims /\ claims[j].kind = "BONUS"
    BY <1>2, <1>5, KeysApart DEF RewardsInv, ByKind
  <2> QED
    BY <1>3, <1>4, <1>6, <1>7, <2>1 DEF RewardsInv, ByKind
<1>11. SettledIsPaid'
  <2>1. \A j : PaidFirst(j) => PaidFirst(j)'
    BY <1>4, <1>5, <1>7 DEF PaidFirst
  <2>2. PaidFirst(i)'
    BY <1>2, <1>4, <1>5 DEF PaidFirst, Cash
  <2> QED
    BY <1>1, <1>3, <1>4, <1>6, <2>1, <2>2 DEF RewardsInv, SettledIsPaid
<1>12. ASSUME NEW j \in DOMAIN claims PROVE GivenOnce(j)'
  <2>1. GivenOnce(j)
    BY <1>12 DEF RewardsInv
  <2>2. CASE j = i
    <3>1. \A b \in DOMAIN bonuses : key \notin rshared => bonuses[b].origin # key
      BY <1>1, <1>2, <2>1, <2>2 DEF GivenOnce, Given
    <3>2. \A d \in RCalls : key \notin rshared /\ rcall'[d].on = key => d = c
      BY <1>1, <1>2, <1>6, <2>1, <2>2 DEF GivenOnce
    <3>3. \A b \in DOMAIN bonuses' : key \notin rshared /\ bonuses'[b].origin = key => b = n + 1
      BY <1>5, <3>1
    <3> QED
      BY <1>2, <1>3, <1>4, <1>6, <2>2, <3>2, <3>3 DEF GivenOnce
  <2>3. CASE j # i
    <3>1. <<"claim", j>> # key
      BY <1>2, <2>3, KeysApart
    <3>2. \A d \in RCalls : /\ rcall'[d].on = <<"claim", j>> <=> rcall[d].on = <<"claim", j>>
                            /\ rcall'[d].on = <<"claim", j>> => rcall'[d] = rcall[d]
      BY <1>1, <1>3, <1>6, <3>1
    <3>3. \A b \in DOMAIN bonuses' : bonuses'[b].origin = <<"claim", j>> =>
            b \in DOMAIN bonuses /\ bonuses[b].origin = <<"claim", j>>
      <4>1. PICK q : q = <<"claim", j>> /\ q # key
        BY <3>1
      <4>2. \A b \in DOMAIN bonuses' : b = n + 1 \/ b \in DOMAIN bonuses
        BY <1>5
      <4> QED
        BY <1>5, <4>1, <4>2
    <3>4. Given(<<"claim", j>>)' <=> Given(<<"claim", j>>)
      BY <1>5, <3>1
    <3> QED
      BY <1>4, <2>1, <3>2, <3>3, <3>4 DEF GivenOnce
  <2> QED
    BY <2>2, <2>3
<1>13. /\ \A b \in DOMAIN bonuses' : EmptiedFirst(b)'
       /\ \A b \in Nat : Credited(<<"bonus", b>>)' => b \in DOMAIN bonuses'
  <2>1. \A d \in RCalls : /\ rcall[d].step = "pay" => rcall'[d] = rcall[d]
                          /\ rcall'[d].step = "pay" => rcall'[d] = rcall[d]
    BY <1>1, <1>2, <1>3, <1>6
  <2> QED
    BY <1>4, <1>5, <2>1, BonusIsNew
<1> QED
  BY <1>4, <1>8, <1>9, <1>10, <1>11, <1>12, <1>13 DEF RewardsInv

(* A credit: what was credited stays, and the key is credited once.          *)
LEMMA CreditsOnce ==
  ASSUME RewardsTyped, CreditedOnce, NEW key \in ClaimKey \cup BonusKey, creditOnce(key)
  PROVE  /\ moves' \in Seq(ClaimKey \cup BonusKey)
         /\ CreditedOnce'
         /\ \A q : Credited(q)' <=> (Credited(q) \/ q = key)
<1>1. CASE Credited(key)
  <2>1. moves' = moves
    BY <1>1 DEF creditOnce, Credited
  <2> QED
    BY <1>1, <2>1 DEF RewardsTyped, CreditedOnce, Credited
<1>2. CASE ~Credited(key)
  <2>1. moves' = Append(moves, key)
    BY <1>2 DEF creditOnce, Credited
  <2>2. PICK n \in Nat : n = Len(moves) /\ moves \in Seq(ClaimKey \cup BonusKey)
    BY DEF RewardsTyped
  <2>3. /\ moves' \in Seq(ClaimKey \cup BonusKey) /\ DOMAIN moves = 1 .. n /\ DOMAIN moves' = 1 .. n + 1
        /\ moves'[n + 1] = key /\ \A m \in DOMAIN moves : moves'[m] = moves[m]
    BY <2>1, <2>2
  <2>4. \A m \in DOMAIN moves' : m \in DOMAIN moves \/ m = n + 1
    BY <2>3
  <2>5. n + 1 \in DOMAIN moves' /\ \A m \in DOMAIN moves : m \in DOMAIN moves' /\ moves[m] # key
    BY <1>2, <2>3 DEF Credited
  <2>6. CreditedOnce'
    BY <2>3, <2>4, <2>5 DEF CreditedOnce
  <2>7. \A q : Credited(q)' <=> (Credited(q) \/ q = key)
    BY <2>3, <2>4, <2>5 DEF Credited
  <2> QED
    BY <2>3, <2>6, <2>7
<1> QED
  BY <1>1, <1>2

LEMMA RRestTyped == RRest.step = "idle" /\ RRest.on = <<"none">>
  BY DEF RRest

LEMMA CreditStep == ASSUME RewardsInv, NEW c \in RCalls, CreditClaim(c) PROVE RewardsInv'
<1>1. PICK i, key, k : k = rcall[c] /\ key = k.on /\ i = key[2]
  OBVIOUS
<1>2. /\ k.step = "credit" /\ k \in Claiming /\ i \in Nat /\ key = <<"claim", i>> /\ i \in DOMAIN claims
      /\ claims[i].kind \in Cash /\ k.paying
  <2>1. RewardCallTyped(k) /\ k.step = "credit"
    BY <1>1 DEF CreditClaim, RewardsInv, RewardsTyped
  <2> QED
    BY <1>1, <2>1, RewardCalls DEF RewardsInv, ByKind
<1>3. UNCHANGED <<claims, bonuses, rshared, rlost>>
  BY DEF CreditClaim, rewardRows
<1>4. PICK next :
        /\ RGo(c, next) /\ RewardCallTyped(next)
        /\ moves' \in Seq(ClaimKey \cup BonusKey) /\ CreditedOnce'
        /\ \/ /\ next.step = "mark" /\ next.on = key
              /\ \A q : Credited(q)' <=> (Credited(q) \/ q = key)
           \/ /\ next.step = "idle" /\ next.on = <<"none">>
              /\ \A q : Credited(q)' <=> Credited(q)
  <2>1. CASE creditOnce(key) /\ RGo(c, [k EXCEPT !.step = "mark"])
    <3>1. PICK next : next = [k EXCEPT !.step = "mark"]
      OBVIOUS
    <3>2. next \in Claiming /\ next.step = "mark" /\ next.on = key
      BY <1>1, <1>2, <3>1 DEF Claiming
    <3>3. RewardCallTyped(next) /\ key \in ClaimKey
      BY <1>1, <1>2, <3>2 DEF RewardCallTyped, ClaimKey
    <3> QED
      BY <2>1, <3>1, <3>2, <3>3, CreditsOnce DEF RewardsInv
  <2>2. CASE UNCHANGED moves /\ RGo(c, RRest)
    <3>1. CreditedOnce' /\ \A q : Credited(q)' <=> Credited(q)
      BY <2>2 DEF RewardsInv, CreditedOnce, Credited
    <3>2. RewardCallTyped(RRest) /\ moves' \in Seq(ClaimKey \cup BonusKey)
      BY <2>2 DEF RewardCallTyped, RewardsInv, RewardsTyped
    <3> QED
      BY <2>2, <3>1, <3>2, RRestTyped
  <2> QED
    BY <1>1, <2>1, <2>2 DEF CreditClaim
<1>5. /\ DOMAIN rcall' = RCalls
      /\ rcall'[c] = next
      /\ \A d \in RCalls : d # c => rcall'[d] = rcall[d]
  BY <1>4, RewardGoes DEF RewardsInv
<1>6. RewardsTyped'
  BY <1>3, <1>4, <1>5 DEF RewardsInv, RewardsTyped, RewardCallTyped
<1>7. /\ \A q : Given(q)' <=> Given(q)
      /\ \A q : Credited(q) => Credited(q)'
      /\ \A q : q # key => (Credited(q)' <=> Credited(q))
      /\ next.step = "mark" => Credited(key)'
  BY <1>3, <1>4 DEF Given
<1>8. ByKind'
  <2>1. \A j \in Nat : Credited(<<"claim", j>>)' => j \in DOMAIN claims /\ claims[j].kind \in Cash
    BY <1>2, <1>7, KeysApart DEF RewardsInv, ByKind
  <2> QED
    BY <1>3, <1>4, <1>5, <1>7, <2>1 DEF RewardsInv, ByKind
<1>9. SettledIsPaid'
  <2>1. \A j : PaidFirst(j) => PaidFirst(j)'
    BY <1>3, <1>7 DEF PaidFirst
  <2>2. next.step = "mark" => next.on[2] = i /\ PaidFirst(i)'
    BY <1>1, <1>2, <1>3, <1>4, <1>7 DEF PaidFirst, Cash
  <2> QED
    BY <1>3, <1>4, <1>5, <2>1, <2>2 DEF RewardsInv, SettledIsPaid
<1>10. ASSUME NEW j \in DOMAIN claims PROVE GivenOnce(j)'
  <2>1. GivenOnce(j)
    BY <1>10 DEF RewardsInv
  <2>2. ~Given(key)
    BY <1>2 DEF RewardsInv, ByKind, Cash
  <2>3. \A d \in RCalls : /\ rcall'[d].on = <<"claim", j>> => rcall[d].on = <<"claim", j>>
                          /\ rcall[d].on = <<"claim", j>> => rcall'[d].on = <<"claim", j>> \/ <<"claim", j>> = key
                          /\ rcall'[d].step = "bonus" => rcall[d].step = "bonus"
    BY <1>1, <1>4, <1>5, KeysApart
  <2> QED
    BY <1>3, <1>7, <2>1, <2>2, <2>3 DEF GivenOnce
<1>11. ASSUME NEW b \in DOMAIN bonuses PROVE EmptiedFirst(b)'
  <2>1. EmptiedFirst(b)
    BY <1>11 DEF RewardsInv
  <2>2. Credited(<<"bonus", b>>)' <=> Credited(<<"bonus", b>>)
    BY <1>2, <1>7, KeysApart
  <2>3. \A d \in RCalls : /\ rcall'[d].step = "pay" => rcall'[d] = rcall[d]
                          /\ rcall[d].step = "pay" => rcall'[d] = rcall[d]
    BY <1>1, <1>2, <1>4, <1>5
  <2> QED
    BY <1>3, <2>1, <2>2, <2>3 DEF EmptiedFirst
<1>12. \A b \in Nat : Credited(<<"bonus", b>>)' => b \in DOMAIN bonuses
  BY <1>2, <1>7, KeysApart DEF RewardsInv
<1> QED
  BY <1>3, <1>4, <1>6, <1>8, <1>9, <1>10, <1>11, <1>12 DEF RewardsInv

LEMMA MarkStep == ASSUME RewardsInv, NEW c \in RCalls, MarkClaimed(c) PROVE RewardsInv'
<1>1. PICK i, key, k : k = rcall[c] /\ key = k.on /\ i = key[2]
  OBVIOUS
<1>2. /\ k.step = "mark" /\ k \in Claiming /\ i \in Nat /\ key = <<"claim", i>> /\ i \in DOMAIN claims
      /\ k.paying \in BOOLEAN
  <2>1. RewardCallTyped(k) /\ k.step = "mark"
    BY <1>1 DEF MarkClaimed, RewardsInv, RewardsTyped
  <2> QED
    BY <1>1, <2>1, RewardCalls DEF Claiming
<1>3. UNCHANGED <<bonuses, moves, rshared, rlost>> /\ RGo(c, RRest)
  BY DEF MarkClaimed
<1>4. PICK new \in RewardClaim :
        /\ claims' = [claims EXCEPT ![i] = new]
        /\ new.kind = claims[i].kind /\ new.status = "CLAIMED" /\ (~new.worthless => k.paying)
  <2>1. PICK w : w = (claims[i].worthless \/ ~k.paying)
    OBVIOUS
  <2>2. PICK new : new = [claims[i] EXCEPT !.status = "CLAIMED", !.worthless = w]
    OBVIOUS
  <2>3. claims \in Seq(RewardClaim) /\ claims[i] \in RewardClaim
    BY <1>2 DEF RewardsInv, RewardsTyped
  <2>4. w \in BOOLEAN /\ (~w => k.paying)
    BY <1>2, <2>1, <2>3 DEF RewardClaim
  <2>5. new \in RewardClaim /\ new.kind = claims[i].kind /\ new.status = "CLAIMED" /\ new.worthless = w
    BY <2>2, <2>3, <2>4 DEF RewardClaim
  <2>6. claims' = [claims EXCEPT ![i].status = "CLAIMED", ![i].worthless = @ \/ ~k.paying]
    BY <1>1 DEF MarkClaimed
  <2>7. claims' = [claims EXCEPT ![i] = new]
    BY <1>2, <2>1, <2>2, <2>3, <2>6
  <2> QED
    BY <2>4, <2>5, <2>7
<1>5. /\ claims' \in Seq(RewardClaim) /\ DOMAIN claims' = DOMAIN claims /\ claims'[i] = new
      /\ \A j \in DOMAIN claims : j # i => claims'[j] = claims[j]
      /\ \A j \in DOMAIN claims : claims'[j].kind = claims[j].kind
  <2>1. claims \in Seq(RewardClaim)
    BY DEF RewardsInv, RewardsTyped
  <2> QED
    BY <1>2, <1>4, <2>1
<1>6. /\ DOMAIN rcall' = RCalls
      /\ rcall'[c] = RRest
      /\ \A d \in RCalls : d # c => rcall'[d] = rcall[d]
  BY <1>3, RewardGoes DEF RewardsInv
<1>7. RewardsTyped'
  BY <1>3, <1>5, <1>6 DEF RewardsInv, RewardsTyped, RewardCallTyped
<1>8. /\ \A q : Given(q)' <=> Given(q)
      /\ \A q : Credited(q)' <=> Credited(q)
  BY <1>3 DEF Given, Credited
<1>9. \A d \in RCalls : /\ rcall'[d].step # "idle" => rcall'[d] = rcall[d]
                        /\ rcall'[d].step \in {"credit", "bonus", "mark"} => rcall[d].on[2] \in DOMAIN claims
  BY <1>6, RRestTyped, RewardCalls DEF RewardsInv, RewardsTyped
<1>10. CreditedOnce' /\ ByKind'
  <2>1. CreditedOnce'
    BY <1>3 DEF RewardsInv, CreditedOnce
  <2> QED
    BY <1>5, <1>8, <1>9, <2>1 DEF RewardsInv, ByKind
<1>11. SettledIsPaid'
  <2>1. \A j \in DOMAIN claims : PaidFirst(j)' <=> PaidFirst(j)
    BY <1>5, <1>8 DEF PaidFirst
  <2>2. k.paying => PaidFirst(i)
    BY <1>1, <1>2 DEF RewardsInv, SettledIsPaid
  <2> QED
    BY <1>2, <1>4, <1>5, <1>9, <2>1, <2>2 DEF RewardsInv, SettledIsPaid
<1>12. ASSUME NEW j \in DOMAIN claims PROVE GivenOnce(j)'
  <2>1. GivenOnce(j)
    BY <1>12 DEF RewardsInv
  <2>2. \A d \in RCalls : rcall'[d].on = <<"claim", j>> => rcall'[d] = rcall[d]
    BY <1>6, RRestTyped, KeysApart
  <2>3. CASE j = i
    <3>1. claims'[j].status # "PENDING"
      BY <1>4, <1>5, <2>3
    <3> QED
      BY <1>3, <1>8, <2>1, <2>2, <3>1 DEF GivenOnce
  <2>4. CASE j # i
    <3>1. claims'[j] = claims[j] /\ \A d \in RCalls : rcall[d].on = <<"claim", j>> => rcall'[d] = rcall[d]
      BY <1>1, <1>2, <1>5, <1>6, <2>4, KeysApart
    <3> QED
      BY <1>3, <1>8, <2>1, <2>2, <3>1 DEF GivenOnce
  <2> QED
    BY <2>3, <2>4
<1>13. ASSUME NEW b \in DOMAIN bonuses PROVE EmptiedFirst(b)'
  <2>1. EmptiedFirst(b)
    BY <1>13 DEF RewardsInv
  <2>2. \A d \in RCalls : /\ rcall'[d].step = "pay" => rcall'[d] = rcall[d]
                          /\ rcall[d].step = "pay" => rcall'[d] = rcall[d]
    BY <1>1, <1>2, <1>6, RRestTyped
  <2> QED
    BY <1>3, <1>8, <2>1, <2>2 DEF EmptiedFirst
<1> QED
  BY <1>3, <1>5, <1>7, <1>8, <1>10, <1>11, <1>12, <1>13 DEF RewardsInv

(* A call on a bonus wallet changes that wallet, and not what it is for.     *)
LEMMA BonusWritten ==
  ASSUME RewardsTyped, NEW b \in DOMAIN bonuses, NEW new \in BonusWallet,
         bonuses' = [bonuses EXCEPT ![b] = new], new.origin = bonuses[b].origin
  PROVE  /\ bonuses' \in Seq(BonusWallet) /\ DOMAIN bonuses' = DOMAIN bonuses /\ bonuses'[b] = new
         /\ \A a \in DOMAIN bonuses : a # b => bonuses'[a] = bonuses[a]
         /\ \A a \in DOMAIN bonuses : bonuses'[a].origin = bonuses[a].origin
         /\ \A key : Given(key)' <=> Given(key)
<1>1. bonuses \in Seq(BonusWallet)
  BY DEF RewardsTyped
<1>2. /\ bonuses' \in Seq(BonusWallet) /\ DOMAIN bonuses' = DOMAIN bonuses /\ bonuses'[b] = new
      /\ \A a \in DOMAIN bonuses : a # b => bonuses'[a] = bonuses[a]
      /\ \A a \in DOMAIN bonuses : bonuses'[a].origin = bonuses[a].origin
  BY <1>1
<1>3. \A key : Given(key)' <=> Given(key)
  BY <1>2 DEF Given
<1> QED
  BY <1>2, <1>3

(* What its step leaves alone: claims, their payments, and other wallets.    *)
LEMMA BonusCalls ==
  ASSUME RewardsInv, NEW c \in RCalls, NEW b \in DOMAIN bonuses, rcall[c].on = <<"bonus", b>>,
         NEW next, RGo(c, next), RewardCallTyped(next),
         \/ next = RRest
         \/ next.on = rcall[c].on /\ next.step = "pay",
         UNCHANGED <<claims, rshared>>, rlost \subseteq rlost', rlost' \subseteq DOMAIN bonuses,
         bonuses' \in Seq(BonusWallet), DOMAIN bonuses' = DOMAIN bonuses,
         \A a \in DOMAIN bonuses : a # b => bonuses'[a] = bonuses[a],
         \A a \in DOMAIN bonuses : bonuses'[a].origin = bonuses[a].origin,
         \A key : Given(key)' <=> Given(key),
         moves' \in Seq(ClaimKey \cup BonusKey), CreditedOnce',
         \A key : key # <<"bonus", b>> => (Credited(key)' <=> Credited(key)),
         EmptiedFirst(b)'
  PROVE  RewardsInv'
<1>1. /\ DOMAIN rcall' = RCalls
      /\ rcall'[c] = next
      /\ \A d \in RCalls : d # c => rcall'[d] = rcall[d]
  BY RewardGoes DEF RewardsInv
<1>2. RewardsTyped'
  BY <1>1 DEF RewardsInv, RewardsTyped, RewardCallTyped
<1>3. \A i : Credited(<<"claim", i>>)' <=> Credited(<<"claim", i>>)
  BY KeysApart
<1>4. \A d \in RCalls : rcall'[d].step \in {"credit", "bonus", "mark"} =>
        /\ rcall'[d] = rcall[d]
        /\ rcall[d].on[2] \in DOMAIN claims
  BY <1>1, RRestTyped, RewardCalls DEF RewardsInv, RewardsTyped
<1>5. ByKind'
  BY <1>3, <1>4 DEF RewardsInv, ByKind
<1>6. \A i : PaidFirst(i)' <=> PaidFirst(i)
  <2> SUFFICES ASSUME NEW i PROVE PaidFirst(i)' <=> PaidFirst(i)
    OBVIOUS
  <2>1. PICK key : key = <<"claim", i>>
    OBVIOUS
  <2>2. (Credited(key)' <=> Credited(key)) /\ (Given(key)' <=> Given(key)) /\ claims' = claims
    BY <1>3, <2>1
  <2> QED
    BY <2>1, <2>2 DEF PaidFirst
<1>7. SettledIsPaid'
  BY <1>4, <1>6 DEF RewardsInv, SettledIsPaid
<1>8. ASSUME NEW i \in DOMAIN claims PROVE GivenOnce(i)'
  <2>1. GivenOnce(i)
    BY <1>8 DEF RewardsInv
  <2>2. \A d \in RCalls : /\ rcall'[d].on = <<"claim", i>> => rcall'[d] = rcall[d]
                          /\ rcall[d].on = <<"claim", i>> => rcall'[d] = rcall[d]
    BY <1>1, RRestTyped, KeysApart
  <2> QED
    BY <2>1, <2>2 DEF GivenOnce
<1>9. ASSUME NEW a \in DOMAIN bonuses, a # b PROVE EmptiedFirst(a)'
  <2>1. PICK key : key = <<"bonus", a>> /\ key # <<"bonus", b>> /\ key # <<"none">>
    BY <1>9, KeysApart
  <2>2. /\ Credited(key) => bonuses[a].balance = 0
        /\ \A d \in RCalls : rcall[d].step = "pay" /\ rcall[d].on = key => bonuses[a].balance = 0
        /\ bonuses[a].balance = 0 /\ ~Credited(key) =>
             a \in rlost \/ \E d \in RCalls : rcall[d].step = "pay" /\ rcall[d].on = key
    BY <1>9, <2>1 DEF RewardsInv, EmptiedFirst
  <2>3. \A d \in RCalls : (rcall'[d].on = key \/ rcall[d].on = key) => rcall'[d] = rcall[d]
    BY <1>1, <2>1, RRestTyped
  <2>4. (Credited(key)' <=> Credited(key)) /\ bonuses'[a] = bonuses[a]
    BY <1>9, <2>1
  <2>5. /\ Credited(key)' => bonuses'[a].balance = 0
        /\ \A d \in RCalls : rcall'[d].step = "pay" /\ rcall'[d].on = key => bonuses'[a].balance = 0
        /\ bonuses'[a].balance = 0 /\ ~Credited(key)' =>
             a \in rlost' \/ \E d \in RCalls : rcall'[d].step = "pay" /\ rcall'[d].on = key
    BY <2>2, <2>3, <2>4
  <2> QED
    BY <2>1, <2>5 DEF EmptiedFirst
<1>10. ASSUME NEW a \in Nat, Credited(<<"bonus", a>>)' PROVE a \in DOMAIN bonuses
  <2>1. CASE a = b
    BY <2>1
  <2>2. CASE a # b
    BY <1>10, <2>2, KeysApart DEF RewardsInv
  <2> QED
    BY <2>1, <2>2
<1> QED
  BY <1>2, <1>5, <1>7, <1>8, <1>9, <1>10 DEF RewardsInv

(* The call that works on a bonus wallet.                                    *)
LEMMA BonusCall ==
  ASSUME RewardsInv, NEW c \in RCalls, rcall[c].step \in {"wager", "close", "pay"}
  PROVE  \E b \in DOMAIN bonuses :
           /\ rcall[c].on = <<"bonus", b>> /\ rcall[c].on[2] = b /\ b \in Nat
           /\ bonuses \in Seq(BonusWallet) /\ bonuses[b] \in BonusWallet
           /\ rcall[c].on \in BonusKey /\ EmptiedFirst(b)
<1>1. RewardCallTyped(rcall[c])
  BY DEF RewardsInv, RewardsTyped
<1>2. PICK b \in DOMAIN bonuses : rcall[c].on = <<"bonus", b>> /\ rcall[c].on[2] = b /\ b \in Nat
  BY <1>1, RewardCalls
<1>3. bonuses \in Seq(BonusWallet)
  BY DEF RewardsInv, RewardsTyped
<1> QED
  BY <1>2, <1>3 DEF RewardsInv, BonusKey

LEMMA WriteWagerStep == ASSUME RewardsInv, NEW c \in RCalls, WriteWager(c) PROVE RewardsInv'
<1>1. rcall[c].step = "wager" /\ rcall[c].progress \in Nat
  <2>1. RewardCallTyped(rcall[c]) /\ rcall[c].step = "wager"
    BY DEF WriteWager, RewardsInv, RewardsTyped
  <2> QED
    BY <2>1, RewardCalls DEF Wagering
<1>2. PICK b \in DOMAIN bonuses :
        /\ rcall[c].on = <<"bonus", b>> /\ rcall[c].on[2] = b
        /\ bonuses \in Seq(BonusWallet) /\ bonuses[b] \in BonusWallet /\ EmptiedFirst(b)
  BY <1>1, BonusCall
<1>3. PICK new : new = [bonuses[b] EXCEPT !.wagered = rcall[c].progress]
  OBVIOUS
<1>4. new \in BonusWallet /\ new.origin = bonuses[b].origin /\ new.balance = bonuses[b].balance
  BY <1>1, <1>2, <1>3 DEF BonusWallet
<1>5. /\ bonuses' = [bonuses EXCEPT ![b] = new] /\ RGo(c, RRest)
      /\ UNCHANGED <<claims, moves, rshared, rlost>>
  BY <1>2, <1>3 DEF WriteWager
<1>6. /\ bonuses' \in Seq(BonusWallet) /\ DOMAIN bonuses' = DOMAIN bonuses /\ bonuses'[b] = new
      /\ \A a \in DOMAIN bonuses : a # b => bonuses'[a] = bonuses[a]
      /\ \A a \in DOMAIN bonuses : bonuses'[a].origin = bonuses[a].origin
      /\ \A key : Given(key)' <=> Given(key)
  BY <1>4, <1>5, BonusWritten DEF RewardsInv
<1>7. /\ moves' \in Seq(ClaimKey \cup BonusKey) /\ CreditedOnce' /\ rlost' \subseteq DOMAIN bonuses
      /\ \A key : Credited(key)' <=> Credited(key)
  BY <1>5 DEF RewardsInv, RewardsTyped, CreditedOnce, Credited
<1>8. EmptiedFirst(b)'
  <2>1. /\ DOMAIN rcall' = RCalls
        /\ rcall'[c] = RRest
        /\ \A d \in RCalls : d # c => rcall'[d] = rcall[d]
    BY <1>5, RewardGoes DEF RewardsInv
  <2>2. \A d \in RCalls : (rcall'[d].step = "pay" \/ rcall[d].step = "pay") => rcall'[d] = rcall[d]
    BY <1>1, <2>1, RRestTyped
  <2> QED
    BY <1>2, <1>4, <1>5, <1>6, <1>7, <2>2 DEF EmptiedFirst
<1>9. RewardCallTyped(RRest)
  BY DEF RewardCallTyped
<1> QED
  BY <1>2, <1>5, <1>6, <1>7, <1>8, <1>9, BonusCalls

LEMMA CloseStep == ASSUME RewardsInv, NEW c \in RCalls, CloseBonus(c) PROVE RewardsInv'
<1>1. rcall[c].step = "close" /\ rcall[c] \in Converting
  <2>1. RewardCallTyped(rcall[c]) /\ rcall[c].step = "close"
    BY DEF CloseBonus, RewardsInv, RewardsTyped
  <2> QED
    BY <2>1, RewardCalls
<1>2. PICK b \in DOMAIN bonuses :
        /\ rcall[c].on = <<"bonus", b>> /\ rcall[c].on[2] = b
        /\ bonuses \in Seq(BonusWallet) /\ bonuses[b] \in BonusWallet /\ EmptiedFirst(b)
  BY <1>1, BonusCall
<1>3. PICK new : new = [bonuses[b] EXCEPT !.balance = 0, !.status = "CLOSED"]
  OBVIOUS
<1>4. new \in BonusWallet /\ new.origin = bonuses[b].origin /\ new.balance = 0
  <2>1. PICK z, s : z \in 0 .. 1 /\ z = 0 /\ s \in {"ACTIVE", "CLOSED"} /\ s = "CLOSED"
    OBVIOUS
  <2>2. new = [bonuses[b] EXCEPT !.balance = z, !.status = s]
    BY <1>3, <2>1
  <2> QED
    BY <1>2, <2>1, <2>2 DEF BonusWallet
<1>5. PICK next : next = [rcall[c] EXCEPT !.step = "pay"]
  OBVIOUS
<1>6. next \in Converting /\ next.on = rcall[c].on /\ next.step = "pay" /\ RewardCallTyped(next)
  BY <1>1, <1>2, <1>5 DEF Converting, RewardCallTyped
<1>7. /\ bonuses' = [bonuses EXCEPT ![b] = new] /\ RGo(c, next)
      /\ UNCHANGED <<claims, moves, rshared, rlost>>
  <2>1. bonuses' = [bonuses EXCEPT ![b].balance = 0, ![b].status = "CLOSED"]
    BY <1>2 DEF CloseBonus
  <2>2. bonuses' = [bonuses EXCEPT ![b] = new]
    BY <1>2, <1>3, <2>1
  <2> QED
    BY <1>5, <2>2 DEF CloseBonus
<1>8. /\ bonuses' \in Seq(BonusWallet) /\ DOMAIN bonuses' = DOMAIN bonuses /\ bonuses'[b] = new
      /\ \A a \in DOMAIN bonuses : a # b => bonuses'[a] = bonuses[a]
      /\ \A a \in DOMAIN bonuses : bonuses'[a].origin = bonuses[a].origin
      /\ \A key : Given(key)' <=> Given(key)
  BY <1>4, <1>7, BonusWritten DEF RewardsInv
<1>9. /\ moves' \in Seq(ClaimKey \cup BonusKey) /\ CreditedOnce' /\ rlost' \subseteq DOMAIN bonuses
      /\ \A key : Credited(key)' <=> Credited(key)
  BY <1>7 DEF RewardsInv, RewardsTyped, CreditedOnce, Credited
<1>10. EmptiedFirst(b)'
  <2>1. rcall'[c] = next
    BY <1>7, RewardGoes DEF RewardsInv
  <2> QED
    BY <1>2, <1>4, <1>6, <1>8, <2>1 DEF EmptiedFirst
<1> QED
  BY <1>2, <1>6, <1>7, <1>8, <1>9, <1>10, BonusCalls

LEMMA PayStep == ASSUME RewardsInv, NEW c \in RCalls, PayBonus(c) PROVE RewardsInv'
<1>1. rcall[c].step = "pay"
  BY DEF PayBonus
<1>2. PICK b \in DOMAIN bonuses :
        /\ rcall[c].on = <<"bonus", b>> /\ rcall[c].on[2] = b /\ rcall[c].on \in BonusKey
        /\ bonuses \in Seq(BonusWallet) /\ EmptiedFirst(b)
  BY <1>1, BonusCall
<1>a. PICK key \in BonusKey : key = rcall[c].on /\ key = <<"bonus", b>>
  BY <1>2
<1>3. UNCHANGED <<claims, bonuses, rshared>> /\ RGo(c, RRest)
  BY DEF PayBonus, rewardRows
<1>4. bonuses[b].balance = 0 /\ rlost \subseteq DOMAIN bonuses
  BY <1>1, <1>2 DEF EmptiedFirst, RewardsInv, RewardsTyped
<1>5. \A q : Given(q)' <=> Given(q)
  BY <1>3 DEF Given
<1>6. /\ moves' \in Seq(ClaimKey \cup BonusKey) /\ CreditedOnce'
      /\ \A q : q # key => (Credited(q)' <=> Credited(q))
      /\ Credited(key)' \/ b \in rlost'
      /\ rlost \subseteq rlost' /\ rlost' \subseteq DOMAIN bonuses
  <2>1. CASE creditOnce(rcall[c].on) /\ UNCHANGED rlost
    <3>2. /\ moves' \in Seq(ClaimKey \cup BonusKey)
          /\ CreditedOnce'
          /\ \A q : Credited(q)' <=> (Credited(q) \/ q = key)
      BY <1>a, <2>1, CreditsOnce DEF RewardsInv
    <3> QED
      BY <1>4, <2>1, <3>2
  <2>2. CASE UNCHANGED moves /\ rlost' = rlost \cup {b}
    BY <1>4, <2>2 DEF RewardsInv, RewardsTyped, CreditedOnce, Credited
  <2> QED
    BY <1>2, <2>1, <2>2 DEF PayBonus
<1>7. EmptiedFirst(b)'
  <2>1. bonuses'[b].balance = 0
    BY <1>3, <1>4
  <2>2. Credited(<<"bonus", b>>)' \/ b \in rlost'
    BY <1>a, <1>6
  <2> QED
    BY <2>1, <2>2 DEF EmptiedFirst
<1>8. RewardCallTyped(RRest)
  BY DEF RewardCallTyped
<1> QED
  BY <1>2, <1>3, <1>5, <1>6, <1>7, <1>8, <1>a, BonusCalls


LEMMA CallDiesStep == ASSUME RewardsInv, NEW c \in RCalls, CallDies(c) PROVE RewardsInv'
<1>1. PICK k : k = rcall[c] /\ k # RRest /\ RewardCallTyped(k)
  BY DEF CallDies, RewardsInv, RewardsTyped
<1>2. /\ UNCHANGED <<claims, bonuses, moves>> /\ RGo(c, RRest)
      /\ rlost' = rlost \cup (IF k.step = "pay" THEN {k.on[2]} ELSE {})
      /\ rshared' = rshared \cup {k.on}
  BY <1>1 DEF CallDies, rewardRows
<1>3. /\ DOMAIN rcall' = RCalls
      /\ rcall'[c] = RRest
      /\ \A d \in RCalls : d # c => rcall'[d] = rcall[d]
  BY <1>2, RewardGoes DEF RewardsInv
<1>4. rlost \subseteq rlost' /\ rlost' \subseteq DOMAIN bonuses
  BY <1>1, <1>2, RewardCalls DEF RewardsInv, RewardsTyped
<1>5. RewardsTyped'
  BY <1>2, <1>3, <1>4 DEF RewardsInv, RewardsTyped, RewardCallTyped
<1>6. /\ \A q : Given(q)' <=> Given(q)
      /\ \A q : Credited(q)' <=> Credited(q)
      /\ \A i : PaidFirst(i)' <=> PaidFirst(i)
  BY <1>2 DEF Given, Credited, PaidFirst
<1>7. \A d \in RCalls : rcall'[d].step # "idle" => rcall'[d] = rcall[d]
  BY <1>3, RRestTyped
<1>8. CreditedOnce' /\ ByKind' /\ SettledIsPaid'
  <2>1. CreditedOnce'
    BY <1>2 DEF RewardsInv, CreditedOnce
  <2>2. ByKind'
    BY <1>2, <1>6, <1>7 DEF RewardsInv, ByKind
  <2>3. SettledIsPaid'
    BY <1>2, <1>6, <1>7 DEF RewardsInv, SettledIsPaid
  <2> QED
    BY <2>1, <2>2, <2>3
<1>9. ASSUME NEW i \in DOMAIN claims PROVE GivenOnce(i)'
  <2>1. GivenOnce(i)
    BY <1>9 DEF RewardsInv
  <2>2. CASE k.on = <<"claim", i>>
    BY <1>2, <2>2 DEF GivenOnce
  <2>3. CASE k.on # <<"claim", i>>
    <3>1. \A d \in RCalls : (rcall'[d].on = <<"claim", i>> \/ rcall[d].on = <<"claim", i>>) => rcall'[d] = rcall[d]
      BY <1>1, <1>3, <2>3, RRestTyped, KeysApart
    <3> QED
      BY <1>2, <1>6, <2>1, <3>1 DEF GivenOnce
  <2> QED
    BY <2>2, <2>3
<1>10. ASSUME NEW b \in DOMAIN bonuses PROVE EmptiedFirst(b)'
  <2>1. PICK key : key = <<"bonus", b>>
    OBVIOUS
  <2>2. /\ Credited(key) => bonuses[b].balance = 0
        /\ \A d \in RCalls : rcall[d].step = "pay" /\ rcall[d].on = key => bonuses[b].balance = 0
        /\ bonuses[b].balance = 0 /\ ~Credited(key) =>
             b \in rlost \/ \E d \in RCalls : rcall[d].step = "pay" /\ rcall[d].on = key
    BY <1>10, <2>1 DEF RewardsInv, EmptiedFirst
  <2>3. k.step = "pay" /\ k.on = key => b \in rlost'
    <3>1. k.step = "pay" /\ k.on = key => k.on[2] = b
      BY <1>1, <2>1, RewardCalls, KeysApart
    <3> QED
      BY <1>2, <3>1
  <2>4. \A d \in RCalls : d # c => rcall'[d] = rcall[d]
    BY <1>3
  <2>5. /\ Credited(key)' => bonuses'[b].balance = 0
        /\ \A d \in RCalls : rcall'[d].step = "pay" /\ rcall'[d].on = key => bonuses'[b].balance = 0
        /\ bonuses'[b].balance = 0 /\ ~Credited(key)' =>
             b \in rlost' \/ \E d \in RCalls : rcall'[d].step = "pay" /\ rcall'[d].on = key
    BY <1>1, <1>2, <1>4, <1>6, <1>7, <2>2, <2>3, <2>4
  <2> QED
    BY <2>1, <2>5 DEF EmptiedFirst
<1> QED
  BY <1>2, <1>5, <1>6, <1>8, <1>9, <1>10 DEF RewardsInv

LEMMA RewardsStep == RewardsInv /\ [RewardsNext]_rvars => RewardsInv'
<1>1. ASSUME RewardsInv, UNCHANGED rvars PROVE RewardsInv'
  <2>1. UNCHANGED <<claims, bonuses, moves, rcall, rshared, rlost>>
    BY <1>1 DEF rvars, rewardRows
  <2>2. /\ \A q : Given(q)' <=> Given(q)
        /\ \A q : Credited(q)' <=> Credited(q)
        /\ \A i : PaidFirst(i)' <=> PaidFirst(i)
    BY <2>1 DEF Given, Credited, PaidFirst
  <2>3. RewardsTyped' /\ CreditedOnce'
    BY <1>1, <2>1 DEF RewardsInv, RewardsTyped, RewardCallTyped, CreditedOnce
  <2>4. ByKind' /\ SettledIsPaid'
    BY <1>1, <2>1, <2>2 DEF RewardsInv, ByKind, SettledIsPaid
  <2>5. \A i \in DOMAIN claims : GivenOnce(i)'
    <3> SUFFICES ASSUME NEW i \in DOMAIN claims PROVE GivenOnce(i)'
      OBVIOUS
    <3>1. GivenOnce(i)
      BY <1>1 DEF RewardsInv
    <3> QED
      BY <2>1, <3>1 DEF GivenOnce, Given
  <2>6. \A b \in DOMAIN bonuses : EmptiedFirst(b)'
    <3> SUFFICES ASSUME NEW b \in DOMAIN bonuses PROVE EmptiedFirst(b)'
      OBVIOUS
    <3>1. EmptiedFirst(b)
      BY <1>1 DEF RewardsInv
    <3> QED
      BY <2>1, <3>1 DEF EmptiedFirst, Credited
  <2> QED
    BY <1>1, <2>1, <2>2, <2>3, <2>4, <2>5, <2>6 DEF RewardsInv
<1> QED
  BY <1>1, GrantsReward, GrantsBonus, ClaimStep, CreditStep, BonusClaimStep, MarkStep, WagerStep,
     WriteWagerStep, ConvertStep, CloseStep, PayStep, CallDiesStep DEF RewardsNext

(* What the counts of the property say of keys that are used once.           *)
LEMMA PaidCounts ==
  ASSUME CreditedOnce, NEW key
  PROVE  paid(key) = IF Credited(key) THEN 1 ELSE 0
<1>1. CASE Credited(key)
  <2>1. PICK m \in DOMAIN moves : moves[m] = key
    BY <1>1 DEF Credited
  <2>2. {n \in DOMAIN moves : moves[n] = key} = {m}
    BY <2>1 DEF CreditedOnce
  <2> QED
    BY <1>1, <2>2, FS_Singleton DEF paid
<1>2. CASE ~Credited(key)
  <2>1. {n \in DOMAIN moves : moves[n] = key} = {}
    BY <1>2 DEF Credited
  <2> QED
    BY <1>2, <2>1, FS_EmptySet DEF paid
<1> QED
  BY <1>1, <1>2

LEMMA GivenCounts ==
  ASSUME RewardsTyped, NEW key
  PROVE  /\ given(key) \in Nat /\ (Given(key) => given(key) >= 1) /\ (~Given(key) => given(key) = 0)
         /\ (\A a, b \in DOMAIN bonuses : bonuses[a].origin = key /\ bonuses[b].origin = key => a = b)
              => given(key) <= 1
<1> DEFINE G == {b \in DOMAIN bonuses : bonuses[b].origin = key}
<1>1. PICK n \in Nat : DOMAIN bonuses = 1 .. n
  BY DEF RewardsTyped
<1>2. IsFiniteSet(1 .. n)
  BY <1>1, FS_Interval
<1>3. IsFiniteSet(G) /\ Cardinality(G) \in Nat /\ given(key) = Cardinality(G)
  BY <1>1, <1>2, FS_Subset, FS_CardinalityType DEF given
<1>4. G # {} <=> Given(key)
  BY DEF Given
<1>5. G = {} <=> Cardinality(G) = 0
  BY <1>3, FS_EmptySet
<1>6. ASSUME \A a, b \in DOMAIN bonuses : bonuses[a].origin = key /\ bonuses[b].origin = key => a = b
      PROVE  Cardinality(G) <= 1
  <2>1. CASE G = {}
    BY <1>5, <2>1
  <2>2. CASE G # {}
    <3>1. PICK a \in G : G = {a}
      BY <1>6, <2>2
    <3> QED
      BY <3>1, FS_Singleton
  <2> QED
    BY <2>1, <2>2
<1> HIDE DEF G
<1> QED
  BY <1>3, <1>4, <1>5, <1>6

(* Whatever races, fails half-way or is repeated, a reward or bonus is       *)
(* neither paid twice nor lost, but for those the property names             *)
(* (RewardsPaidOnce).                                                        *)
THEOREM RewardsCorrect == RewardsSpec => []RewardsPaidOnce
<1>1. RewardsInv => RewardsPaidOnce
  <2> SUFFICES ASSUME RewardsInv PROVE RewardsPaidOnce
    OBVIOUS
  <2>1. \A key : paid(key) = IF Credited(key) THEN 1 ELSE 0
    BY PaidCounts DEF RewardsInv
  <2>2. ASSUME NEW i \in DOMAIN claims, NEW key, key = <<"claim", i>>,
               NEW done, done = (claims[i].status = "CLAIMED" /\ ~claims[i].worthless)
        PROVE  CASE claims[i].kind \in {"CASH", "CASHBACK"} ->
                      paid(key) <= 1 /\ (done => paid(key) = 1)
                 [] claims[i].kind = "BONUS" ->
                      /\ done => given(key) >= 1
                      /\ key \notin rshared => given(key) <= 1
                 [] OTHER -> paid(key) + given(key) = 0
    <3>1. i \in Nat
      BY DEF RewardsInv, RewardsTyped
    <3>2. /\ given(key) \in Nat /\ (Given(key) => given(key) >= 1) /\ (~Given(key) => given(key) = 0)
          /\ (\A a, b \in DOMAIN bonuses : bonuses[a].origin = key /\ bonuses[b].origin = key => a = b)
               => given(key) <= 1
      BY GivenCounts DEF RewardsInv
    <3>3. done => PaidFirst(i)
      BY <2>2 DEF RewardsInv, SettledIsPaid
    <3>4. CASE claims[i].kind \in Cash
      BY <2>1, <2>2, <3>3, <3>4 DEF PaidFirst, Cash
    <3>5. CASE claims[i].kind = "BONUS"
      <4>1. key \notin rshared => given(key) <= 1
        BY <2>2, <3>2 DEF RewardsInv, GivenOnce
      <4>2. done => given(key) >= 1
        BY <2>2, <3>2, <3>3, <3>5 DEF PaidFirst
      <4> QED
        BY <3>5, <4>1, <4>2
    <3>6. CASE claims[i].kind \notin Cash /\ claims[i].kind # "BONUS"
      <4>1. ~Credited(key) /\ ~Given(key)
        BY <2>2, <3>1, <3>6 DEF RewardsInv, ByKind
      <4>2. paid(key) = 0 /\ given(key) = 0
        BY <2>1, <3>2, <4>1
      <4> QED
        BY <3>6, <4>2 DEF Cash
    <3> QED
      BY <3>4, <3>5, <3>6
  <2>3. ASSUME NEW b \in DOMAIN bonuses, NEW key, key = <<"bonus", b>>
        PROVE  /\ paid(key) + bonuses[b].balance <= 1
               /\ paid(key) + bonuses[b].balance = 0 => (\E c \in RCalls : rcall[c].on = key) \/ b \in rlost
    <3>1. bonuses[b].balance \in {0, 1}
      <4>1. bonuses[b] \in BonusWallet
        BY DEF RewardsInv, RewardsTyped
      <4> QED
        BY <4>1 DEF BonusWallet
    <3>2. /\ Credited(key) => bonuses[b].balance = 0
          /\ bonuses[b].balance = 0 /\ ~Credited(key) =>
               b \in rlost \/ \E c \in RCalls : rcall[c].step = "pay" /\ rcall[c].on = key
      BY <2>3 DEF RewardsInv, EmptiedFirst
    <3>3. (Credited(key) => paid(key) = 1) /\ (~Credited(key) => paid(key) = 0)
      BY <2>1
    <3> QED
      BY <3>1, <3>2, <3>3
  <2> QED
    BY <2>2, <2>3 DEF RewardsPaidOnce
<1> QED
  BY <1>1, RewardsInit1, RewardsStep, PTL DEF RewardsSpec

THEOREM RewardsTypeCorrect == RewardsSpec => []RewardsTypeOK
<1>1. RewardsInv => RewardsTypeOK
  <2> SUFFICES ASSUME RewardsInv PROVE RewardsTypeOK
    OBVIOUS
  <2>1. \A i \in DOMAIN claims : claims[i] \in RewardClaim
    BY DEF RewardsInv, RewardsTyped
  <2>2. \A b \in DOMAIN bonuses : bonuses[b] \in BonusWallet
    BY DEF RewardsInv, RewardsTyped
  <2>3. \A i \in DOMAIN claims : claims[i].kind \in Kinds /\ claims[i].status \in {"PENDING", "CLAIMED"}
    BY <2>1 DEF RewardClaim
  <2>4. \A b \in DOMAIN bonuses : bonuses[b].balance \in 0 .. 1 /\ bonuses[b].status \in {"ACTIVE", "CLOSED"}
    BY <2>2 DEF BonusWallet
  <2> QED
    BY <2>3, <2>4 DEF RewardsInv, RewardsTyped, RewardsTypeOK
<1> QED
  BY <1>1, RewardsInit1, RewardsStep, PTL DEF RewardsSpec
-----------------------------------------------------------------------------
(* Sessions.  What the variables hold.                                       *)
SessionRow == [status : {"ACTIVE", "REVOKED"}, cached : BOOLEAN, expired : BOOLEAN, password : Nat,
               by : {"login", "verify"}, since : Nat]

AccountRow == [status : {"ACTIVE", "SUSPENDED"}, password : Nat, failed : Nat, locked : BOOLEAN,
               twoFactor : BOOLEAN]

ChallengeRow == [password : Nat, open : BOOLEAN]

TokenRow == [session : Nat, status : {"ACTIVE", "USED", "REVOKED", "EXPIRED"}]

AuthSteps ==
  {"idle", "revoke", "others", "password", "lock", "challenge", "code", "limit", "create", "token", "cache",
   "reuse", "expire", "user", "replace", "used", "touch", "change", "reset", "lapse"}

AuthOps == {"none", "revoke", "revokeAll", "login", "verify", "rotate", "change", "reset"}

AuthCall == [step : AuthSteps, op : AuthOps, session : Nat, token : Nat, password : Nat,
             revoking : SUBSET Nat, clearing : SUBSET Nat, then : {"idle", "create"}]

LogsIn(k) == k.op \in {"login", "verify"}

(* The password itself is shown by a login, not by the answer to its         *)
(* challenge.                                                                *)
ShowsPassword(k) == k.op = "login"

Issues(k) == k.op \in {"login", "verify", "rotate"}

(* Which steps a call takes, and what it holds there.                        *)
AuthStepTyped(k) ==
  \/ k = Rest
  \/ LogsIn(k) /\ k.session = 0
       /\ k.step \in {"password", "lock", "challenge", "code", "limit", "create"}
  \/ LogsIn(k) /\ k.session = 0 /\ k.step = "revoke" /\ k.then = "create"
  \/ LogsIn(k) /\ k.session # 0 /\ k.step \in {"token", "cache"}
  \/ /\ k.op = "rotate" /\ k.session # 0
     /\ k.token \in DOMAIN tokens /\ tokens[k.token].session = k.session
     /\ \/ k.step \in {"reuse", "user", "replace", "used", "touch", "cache"}
        \/ k.step = "expire" /\ sessions[k.session].expired
        \/ k.step = "revoke" /\ k.then = "idle" /\ k.revoking \cup k.clearing = {k.session}
  \/ k.op \in {"revoke", "revokeAll", "change", "reset"} /\ k.step = "revoke" /\ k.then = "idle"
  \/ k.op \in {"revokeAll", "change", "reset"} /\ k.step = "others"
  \/ k.op = "change" /\ k.session # 0 /\ k.step = "change"
  \/ k.op = "reset" /\ k.session = 0 /\ k.step \in {"reset", "lapse"}

AuthCallTyped(k) ==
  /\ k \in AuthCall
  /\ worksOn(k) \subseteq 0 .. Len(sessions)
  /\ \A s \in k.revoking : s \in DOMAIN sessions
  /\ \A s \in k.clearing : s \in DOMAIN sessions /\ sessions[s].status = "REVOKED"
  /\ k.step # "revoke" => k.revoking = {} /\ k.clearing = {}
  /\ AuthStepTyped(k)

AuthTyped ==
  /\ sessions \in Seq(SessionRow)
  /\ tokens \in Seq(TokenRow)
  /\ \A t \in DOMAIN tokens : tokens[t].session \in DOMAIN sessions
  /\ account \in AccountRow
  /\ DOMAIN acall = ACalls
  /\ \A c \in ACalls : AuthCallTyped(acall[c])

(* The reset links and the challenges.                                       *)
LinksTyped == DOMAIN links \subseteq Nat /\ challenges \in Seq(ChallengeRow)

(* What `raced' says of what it leaves out.                                  *)
NobodyElseAt(s) ==
  \A c, d \in ACalls : Issues(acall[c]) /\ c # d => s \notin worksOn(acall[c]) \cap worksOn(acall[d])

Unraced ==
  /\ \A s \in DOMAIN sessions \ raced : NobodyElseAt(s)
  /\ \A c \in ACalls \ raced : Issues(acall[c]) => \A d \in ACalls : ~setsPassword(acall[d])

(* A session that is revoked is no more issued tokens, and leaves the cache. *)
OverWhenRevoked(s) ==
  sessions[s].status = "REVOKED" =>
    /\ activeTokens(s) = {}
    /\ sessions[s].cached => \E c \in ACalls : s \in acall[c].clearing
    /\ \A c \in ACalls : Issues(acall[c]) /\ acall[c].session = s =>
         acall[c].step \in {"reuse", "expire", "revoke"}

(* How many tokens a session has while one is issued, and otherwise.         *)
TokensAt(k, T) ==
  /\ k.step = "token" => T = {}
  /\ k.step \in {"user", "replace"} => T = {k.token}
  /\ k.step = "used" => \E n \in T : n # k.token /\ T = {k.token, n}
  /\ k.step \in {"touch", "cache"} => \E n \in T : T = {n}

LeftAlone(s) ==
  \A c \in ACalls : s \notin acall[c].revoking /\ (Issues(acall[c]) => acall[c].session # s)

OneTokenWhenActive(s) ==
  sessions[s].status = "ACTIVE" /\ ~sessions[s].expired =>
    /\ \A c \in ACalls : Issues(acall[c]) /\ acall[c].session = s => TokensAt(acall[c], activeTokens(s))
    /\ LeftAlone(s) => \E n \in activeTokens(s) : activeTokens(s) = {n}

AuthInv ==
  /\ AuthTyped /\ Unraced
  /\ \A s \in DOMAIN sessions \ raced : OverWhenRevoked(s) /\ OneTokenWhenActive(s)

(* What a session was opened with, and what is allowed of it: the password   *)
(* the account has, or the answer to a challenge since that was set.         *)
SameOrigin(new, old) == new.password = old.password /\ new.by = old.by /\ new.since = old.since

OpenedWith(session, password) ==
  session.password = password \/ (session.by = "verify" /\ session.since = password)

(* Any other session is about to be revoked.                                 *)
HasPassword(s) ==
  sessions[s].status = "ACTIVE" =>
    \/ OpenedWith(sessions[s], account.password)
    \/ \E c \in ACalls : /\ setsPassword(acall[c])
                         /\ s \in acall[c].revoking \/ (acall[c].step = "others" /\ acall[c].session # s)

PasswordInv ==
  /\ AuthTyped /\ Unraced
  /\ \A s \in DOMAIN sessions \ raced : HasPassword(s)
  /\ \A c \in ACalls \ raced : ShowsPassword(acall[c]) => acall[c].password = account.password

(* The logins that have counted the sessions and not opened theirs: the      *)
(* sessions they are not about to revoke leave room for them, but for the    *)
(* logins they cannot have counted.                                          *)
Opening(k) == LogsIn(k) /\ (k.step = "create" \/ k.step = "revoke")

spared(X) == activeSessions \ UNION {acall[c].revoking : c \in X}

LimitInv ==
  /\ AuthTyped
  /\ \A X \in SUBSET ACalls : (\A c \in X : Opening(acall[c])) =>
       Cardinality(spared(X)) + Cardinality(X) <= MaxActive - 1 + Cardinality(ACalls)

LEMMA SessionRows ==
  ASSUME AuthTyped
  PROVE  /\ Len(sessions) \in Nat /\ DOMAIN sessions = 1 .. Len(sessions)
         /\ Len(tokens) \in Nat /\ DOMAIN tokens = 1 .. Len(tokens)
         /\ \A s \in DOMAIN sessions : sessions[s] \in SessionRow /\ s \in Nat /\ s # 0
         /\ \A t \in DOMAIN tokens : tokens[t] \in TokenRow /\ t \in Nat
  BY DEF AuthTyped

LEMMA ChallengeRows ==
  ASSUME LinksTyped
  PROVE  \A n \in DOMAIN challenges : n \in Nat /\ challenges[n].password \in Nat
<1>1. \A n \in DOMAIN challenges : n \in Nat /\ challenges[n] \in ChallengeRow
  BY DEF LinksTyped
<1> QED
  BY <1>1 DEF ChallengeRow

LEMMA RestCall ==
  /\ Rest \in AuthCall /\ Rest.step = "idle" /\ Rest.op = "none" /\ Rest.session = 0
  /\ Rest.revoking = {} /\ Rest.clearing = {} /\ worksOn(Rest) = {0}
  /\ ~Issues(Rest) /\ ~LogsIn(Rest) /\ ~setsPassword(Rest) /\ ~Opening(Rest)
<1>1. /\ Rest.step = "idle" /\ Rest.op = "none" /\ Rest.session = 0
      /\ Rest.revoking = {} /\ Rest.clearing = {} /\ Rest \in AuthCall
  <2>1. {} \in SUBSET Nat
    OBVIOUS
  <2> QED
    BY <2>1 DEF Rest, AuthCall, AuthSteps, AuthOps
<1> QED
  BY <1>1 DEF worksOn, Issues, LogsIn, setsPassword, Opening

LEMMA RestCallTyped == ASSUME AuthTyped PROVE AuthCallTyped(Rest)
  BY RestCall, SessionRows DEF AuthCallTyped, AuthStepTyped

(* What a call is, that begins, takes a step or is to revoke.                *)
LEMMA Called ==
  ASSUME NEW op \in AuthOps, NEW step \in AuthSteps, NEW new, new = calling(op, step)
  PROVE  /\ new \in AuthCall /\ new.step = step /\ new.op = op /\ new.session = 0 /\ new.token = 0
         /\ new.password = 0 /\ new.revoking = {} /\ new.clearing = {} /\ new.then = "idle"
  BY RestCall DEF calling, Rest, AuthCall

LEMMA Stepped ==
  ASSUME NEW k \in AuthCall, NEW step \in AuthSteps, NEW new, new = [k EXCEPT !.step = step]
  PROVE  /\ new \in AuthCall /\ new.step = step /\ new.op = k.op /\ new.session = k.session
         /\ new.token = k.token /\ new.password = k.password /\ new.revoking = k.revoking
         /\ new.clearing = k.clearing /\ new.then = k.then
  BY DEF AuthCall

LEMMA RevokesThen ==
  ASSUME NEW k \in AuthCall, NEW S, S \subseteq Nat, NEW then \in {"idle", "create"},
         NEW new, new = revokeThen(k, S, then)
  PROVE  /\ new \in AuthCall /\ new.op = k.op /\ new.session = k.session /\ new.token = k.token
         /\ new.password = k.password /\ new.clearing = k.clearing
         /\ S = {} => new.step = then /\ new.revoking = k.revoking
         /\ S # {} => new.step = "revoke" /\ new.then = then /\ new.revoking = S
<1>1. CASE S = {}
  <2>1. new = [k EXCEPT !.step = then] /\ then \in AuthSteps
    BY <1>1 DEF revokeThen, AuthSteps
  <2> QED
    BY <1>1, <2>1, Stepped
<1>2. CASE S # {}
  <2>1. new = [k EXCEPT !.step = "revoke", !.revoking = S, !.then = then]
    BY <1>2 DEF revokeThen
  <2> QED
    BY <1>2, <2>1 DEF AuthCall, AuthSteps
<1> QED
  BY <1>1, <1>2

LEMMA AuthCallGoes ==
  ASSUME AuthTyped, NEW c \in ACalls, NEW next, Go(c, next)
  PROVE  /\ DOMAIN acall' = ACalls
         /\ acall'[c] = IF next.step = "idle" THEN Rest ELSE next
         /\ \A d \in ACalls : d # c => acall'[d] = acall[d]
  BY DEF Go, AuthTyped

(* Rows are added, and end, but are not taken back.                          *)
Grows ==
  /\ sessions' \in Seq(SessionRow) /\ tokens' \in Seq(TokenRow)
  /\ Len(sessions) <= Len(sessions') /\ DOMAIN tokens \subseteq DOMAIN tokens'
  /\ \A s \in DOMAIN sessions : /\ sessions[s].status = "REVOKED" => sessions'[s].status = "REVOKED"
                                /\ sessions[s].expired => sessions'[s].expired
  /\ \A t \in DOMAIN tokens : tokens'[t].session = tokens[t].session
  /\ \A t \in DOMAIN tokens' : tokens'[t].session \in DOMAIN sessions'
  /\ account' \in AccountRow

LEMMA StaysTyped ==
  ASSUME AuthTyped, Grows, NEW k, AuthCallTyped(k)
  PROVE  AuthCallTyped(k)'
<1>1. /\ Len(sessions) \in Nat /\ DOMAIN sessions = 1 .. Len(sessions) /\ Len(sessions') \in Nat
      /\ DOMAIN sessions' = 1 .. Len(sessions')
  BY SessionRows DEF Grows
<1>2. DOMAIN sessions \subseteq DOMAIN sessions' /\ 0 .. Len(sessions) \subseteq 0 .. Len(sessions')
  BY <1>1 DEF Grows
<1>3. k.session \in 0 .. Len(sessions) /\ (k.session # 0 => k.session \in DOMAIN sessions)
  BY <1>1 DEF AuthCallTyped, worksOn
<1>4. AuthStepTyped(k)'
  BY <1>3 DEF AuthCallTyped, AuthStepTyped, LogsIn, Grows
<1>5. worksOn(k) \subseteq 0 .. Len(sessions')
  BY <1>2 DEF AuthCallTyped
<1> QED
  BY <1>2, <1>4, <1>5 DEF AuthCallTyped, Grows

LEMMA TypedGo ==
  ASSUME AuthTyped, Grows, NEW c \in ACalls, NEW next, Go(c, next),
         next.step = "idle" \/ AuthCallTyped(next)'
  PROVE  AuthTyped'
<1>1. /\ DOMAIN acall' = ACalls
      /\ acall'[c] = IF next.step = "idle" THEN Rest ELSE next
      /\ \A d \in ACalls : d # c => acall'[d] = acall[d]
  BY AuthCallGoes
<1>2. AuthCallTyped(Rest)'
  BY RestCallTyped, StaysTyped
<1>3. ASSUME NEW d \in ACalls PROVE AuthCallTyped(acall[d])'
  <2>1. PICK k : k = acall[d] /\ AuthCallTyped(k)
    BY DEF AuthTyped
  <2>2. AuthCallTyped(k)'
    BY <2>1, StaysTyped
  <2>3. PICK new : new = acall'[d]
    OBVIOUS
  <2>4. AuthCallTyped(new)'
    <3>1. new = Rest \/ new = next \/ new = k
      BY <1>1, <2>1, <2>3
    <3>2. new = next /\ next # Rest => next.step # "idle" \/ new = k
      BY <1>1, <2>1, <2>3
    <3> QED
      BY <1>2, <2>2, <3>1, <3>2
  <2> QED
    BY <2>3, <2>4
<1>4. /\ sessions' \in Seq(SessionRow) /\ tokens' \in Seq(TokenRow)
      /\ \A t \in DOMAIN tokens' : tokens'[t].session \in DOMAIN sessions'
      /\ account' \in AccountRow
  BY DEF Grows
<1> QED
  BY <1>1, <1>3, <1>4 DEF AuthTyped

(* A step that opens no session, issues no token and ends none: it changes   *)
(* what the call holds, and perhaps the password.                            *)
SameRows ==
  /\ sessions' \in Seq(SessionRow) /\ Len(sessions') = Len(sessions)
  /\ \A s \in DOMAIN sessions : /\ sessions'[s].status = sessions[s].status
                                /\ sessions'[s].cached = sessions[s].cached
                                /\ sessions'[s].expired = sessions[s].expired
  /\ tokens' = tokens

SamePassword == sessions' = sessions /\ account'.password = account.password

PlainTurn(k, next) ==
  \/ next.step = "idle"
  \/ ~Issues(next)
  \/ Issues(next) /\ next.session = 0
  \/ /\ k = Rest /\ next.op = "rotate"
     /\ next.step \in {"reuse", "expire"} \/ (next.step = "user" /\ next.token \in activeTokens(next.session))
  \/ /\ Issues(k) /\ Issues(next) /\ next.session = k.session /\ next.token = k.token
     /\ \/ next.step = "revoke" /\ next.revoking = {next.session}
        \/ k.step = "user" /\ next.step = "replace"
        \/ k.step = "touch" /\ next.step = "cache"

PasswordTurn(k, next) ==
  \/ /\ SamePassword
     /\ setsPassword(k) /\ k.step = "others" =>
          \A s \in DOMAIN sessions : sessions[s].status = "ACTIVE" /\ s # k.session =>
            s \in next.revoking /\ next.step = "revoke" /\ setsPassword(next)
  \/ /\ setsPassword(next) /\ next.step = "others"
     /\ \A s \in DOMAIN sessions : s = next.session => sessions'[s].password = account'.password

Plain(c, k, next) ==
  /\ Go(c, next) /\ SameRows /\ account' \in AccountRow
  /\ k = acall[c] /\ k.step # "revoke" /\ k.step # "create" /\ next.clearing = {}
  /\ next.step = "idle" \/ AuthCallTyped(next)
  /\ PlainTurn(k, next)
  /\ Issues(k) /\ k.session # 0 => next.step # "idle" /\ Issues(next) /\ next.session = k.session
  /\ PasswordTurn(k, next)
  /\ ShowsPassword(next) /\ next.step # "idle" =>
       \/ ShowsPassword(k) /\ next.password = k.password
       \/ k = Rest /\ next.password = account.password
  /\ Opening(next) => Cardinality(activeSessions \ next.revoking) <= MaxActive - 1

LEMMA RowsKept ==
  ASSUME AuthTyped, UNCHANGED <<sessions, tokens>>, account'.password = account.password
  PROVE  SameRows /\ SamePassword
  BY DEF AuthTyped, SameRows, SamePassword

(* A call that rests begins anew; it opens nothing yet.                      *)
LEMMA BeginsPlain ==
  ASSUME AuthTyped, NEW c \in ACalls, NEW next, Begin(c, next), AuthCallTyped(next), next.clearing = {},
         UNCHANGED <<sessions, tokens, account>>, ~Opening(next),
         PlainTurn(Rest, next), ShowsPassword(next) => next.password = account.password
  PROVE  Plain(c, Rest, next)
<1>1. acall[c].step = "idle" /\ Go(c, next)
  BY DEF Begin, At
<1>2. acall[c] = Rest
  BY <1>1 DEF AuthTyped, AuthCallTyped, AuthStepTyped
<1>3. SameRows /\ SamePassword /\ account' \in AccountRow
  BY RowsKept DEF AuthTyped
<1>4. PasswordTurn(Rest, next)
  BY <1>3, RestCall DEF PasswordTurn
<1> QED
  BY <1>1, <1>2, <1>3, <1>4, RestCall DEF Plain

(* A call goes on to its next step and stays what it is.                     *)
LEMMA StepsPlain ==
  ASSUME AuthTyped, NEW c \in ACalls, NEW step \in AuthSteps, GoTo(c, step), NEW k, k = acall[c],
         NEW next, next = [k EXCEPT !.step = step],
         k.step \notin {"revoke", "create", "others"}, step # "create", step # "revoke",
         SameRows, SamePassword, account' \in AccountRow,
         step = "idle" \/ AuthStepTyped(next),
         Issues(k) /\ k.session # 0 =>
           (k.step = "user" /\ step = "replace") \/ (k.step = "touch" /\ step = "cache")
  PROVE  Plain(c, k, next)
<1>2. k \in AuthCall /\ AuthCallTyped(k)
  BY DEF AuthTyped, AuthCallTyped
<1>3. /\ next \in AuthCall /\ next.step = step /\ next.op = k.op /\ next.session = k.session
      /\ next.token = k.token /\ next.password = k.password /\ next.revoking = k.revoking
      /\ next.clearing = k.clearing /\ next.then = k.then
  BY <1>2, Stepped
<1>4. k.revoking = {} /\ k.clearing = {}
  BY <1>2 DEF AuthCallTyped
<1>5. next.step = "idle" \/ AuthCallTyped(next)
  <2>1. worksOn(next) = worksOn(k)
    BY <1>3 DEF worksOn
  <2>2. next.step = "idle" \/ AuthStepTyped(next)
    BY <1>3
  <2> QED
    BY <1>2, <1>3, <1>4, <2>1, <2>2 DEF AuthCallTyped
<1>6. Go(c, next)
  BY DEF GoTo
<1>7. PlainTurn(k, next) /\ PasswordTurn(k, next) /\ ~Opening(next)
  BY <1>3 DEF PlainTurn, PasswordTurn, Opening, Issues
<1> QED
  BY <1>3, <1>4, <1>5, <1>6, <1>7 DEF Plain, Issues, LogsIn, ShowsPassword

(* The calls of a login.                                                     *)
LEMMA LoginTurns ==
  ASSUME AuthTyped, NEW c \in ACalls,
         WrongPassword(c) \/ Lock(c) \/ RightPassword(c) \/ Challenge(c) \/ RightCode(c)
  PROVE  \E k, next : Plain(c, k, next)
<1>1. PICK k : k = acall[c] /\ AuthCallTyped(k)
  BY DEF AuthTyped
<1>2. k.step \in {"password", "lock", "challenge", "code"}
  BY <1>1 DEF WrongPassword, Lock, RightPassword, Challenge, RightCode, At
<1>3. LogsIn(k) /\ k.session = 0 /\ k # Rest
  BY <1>1, <1>2, RestCall DEF AuthCallTyped, AuthStepTyped
<1>4. PICK step \in {"lock", "idle", "challenge", "limit"} : GoTo(c, step)
  BY DEF WrongPassword, Lock, RightPassword, Challenge, RightCode
<1>5. step \in AuthSteps /\ step # "create" /\ step # "revoke"
  BY <1>4 DEF AuthSteps
<1>6. UNCHANGED <<sessions, tokens>>
  BY DEF WrongPassword, Lock, RightPassword, Challenge, RightCode, rows
<1>7. account \in AccountRow
  BY DEF AuthTyped
<1>8. account' \in AccountRow /\ account'.password = account.password
  <2>2. CASE WrongPassword(c)
    <3>1. PICK failed \in Nat : failed = account.failed + 1
      BY <1>7 DEF AccountRow
    <3>2. account' = [account EXCEPT !.failed = failed]
      BY <2>2, <3>1 DEF WrongPassword
    <3> QED
      BY <1>7, <3>2 DEF AccountRow
  <2>3. CASE Lock(c)
    <3>1. PICK on \in BOOLEAN : on = TRUE
      OBVIOUS
    <3>2. account' = [account EXCEPT !.locked = on]
      BY <2>3, <3>1 DEF Lock
    <3> QED
      BY <1>7, <3>2 DEF AccountRow
  <2>4. CASE RightPassword(c)
    <3>1. PICK off \in BOOLEAN : off = FALSE
      OBVIOUS
    <3>2. PICK none \in Nat : none = 0
      OBVIOUS
    <3>3. account' = [account EXCEPT !.failed = none, !.locked = off]
      BY <2>4, <3>1, <3>2 DEF RightPassword
    <3> QED
      BY <1>7, <3>3 DEF AccountRow
  <2>5. CASE Challenge(c) \/ RightCode(c)
    BY <1>7, <2>5 DEF Challenge, RightCode
  <2> QED
    BY <2>2, <2>3, <2>4, <2>5
<1>9. SameRows /\ SamePassword
  BY <1>6, <1>8, RowsKept
<1>10. PICK next : next = [k EXCEPT !.step = step]
  OBVIOUS
<1>11. k \in AuthCall
  BY <1>1 DEF AuthCallTyped
<1>12. next.step = step /\ next.op = k.op /\ next.session = k.session
  BY <1>5, <1>10, <1>11, Stepped
<1>13. step = "idle" \/ AuthStepTyped(next)
  BY <1>3, <1>4, <1>12 DEF AuthStepTyped, LogsIn
<1> QED
  BY <1>1, <1>2, <1>3, <1>4, <1>5, <1>8, <1>9, <1>10, <1>13, StepsPlain

LEMMA LinkTurns ==
  ASSUME AuthTyped, NEW c \in ACalls, LinkLapsed(c)
  PROVE  \E k, next : Plain(c, k, next)
<1>1. PICK k : k = acall[c] /\ AuthCallTyped(k)
  BY DEF AuthTyped
<1>2. k.step = "lapse" /\ GoTo(c, "idle") /\ UNCHANGED <<sessions, tokens, account>>
  BY <1>1 DEF LinkLapsed, At, rows
<1>3. ~Issues(k)
  BY <1>1, <1>2, RestCall DEF AuthCallTyped, AuthStepTyped, Issues, LogsIn
<1>4. SameRows /\ SamePassword /\ account' \in AccountRow
  BY <1>2, RowsKept DEF AuthTyped
<1>5. PICK next : next = [k EXCEPT !.step = "idle"]
  OBVIOUS
<1>6. "idle" \in AuthSteps
  BY DEF AuthSteps
<1> QED
  BY <1>1, <1>2, <1>3, <1>4, <1>5, <1>6, StepsPlain

LEMMA TouchTurns ==
  ASSUME AuthTyped, NEW c \in ACalls, Touch(c)
  PROVE  \E k, next : Plain(c, k, next)
<1>1. PICK k : k = acall[c] /\ AuthCallTyped(k)
  BY DEF AuthTyped
<1>2. k.step = "touch" /\ GoTo(c, "cache") /\ UNCHANGED <<sessions, tokens, account>>
  BY <1>1 DEF Touch, At
<1>4. SameRows /\ SamePassword /\ account' \in AccountRow
  BY <1>2, RowsKept DEF AuthTyped
<1>5. PICK next : next = [k EXCEPT !.step = "cache"]
  OBVIOUS
<1>6. "cache" \in AuthSteps /\ k \in AuthCall
  BY <1>1 DEF AuthSteps, AuthCallTyped
<1>7. next.step = "cache" /\ next.op = k.op /\ next.session = k.session /\ next.token = k.token
  BY <1>5, <1>6, Stepped
<1>8. AuthStepTyped(next)
  BY <1>1, <1>2, <1>7, RestCall DEF AuthCallTyped, AuthStepTyped, LogsIn
<1> QED
  BY <1>1, <1>2, <1>4, <1>5, <1>6, <1>8, StepsPlain

LEMMA ReadUserTurns ==
  ASSUME AuthTyped, NEW c \in ACalls, ReadUser(c)
  PROVE  \E k, next : Plain(c, k, next)
<1>1. PICK k : k = acall[c] /\ AuthCallTyped(k)
  BY DEF AuthTyped
<1>2. k.step = "user" /\ UNCHANGED <<sessions, tokens, account>>
  BY <1>1 DEF ReadUser, At, rows
<1>3. SameRows /\ SamePassword /\ account' \in AccountRow
  BY <1>2, RowsKept DEF AuthTyped
<1>4. k \in AuthCall /\ k.revoking = {} /\ k.clearing = {}
  BY <1>1, <1>2 DEF AuthCallTyped
<1>5. /\ k.op = "rotate" /\ k.session # 0 /\ k # Rest
      /\ k.token \in DOMAIN tokens /\ tokens[k.token].session = k.session
  BY <1>1, <1>2, RestCall DEF AuthCallTyped, AuthStepTyped
<1>6. k.session \in DOMAIN sessions
  BY <1>1, <1>5, SessionRows DEF AuthCallTyped, worksOn
<1>7. CASE GoTo(c, "replace")
  <2>1. PICK next : next = [k EXCEPT !.step = "replace"]
    OBVIOUS
  <2>2. "replace" \in AuthSteps
    BY DEF AuthSteps
  <2>3. next.step = "replace" /\ next.op = k.op /\ next.session = k.session /\ next.token = k.token
    BY <1>4, <2>1, <2>2, Stepped
  <2>4. AuthStepTyped(next)
    BY <1>5, <2>3 DEF AuthStepTyped
  <2> QED
    BY <1>1, <1>2, <1>3, <1>7, <2>1, <2>2, <2>4, StepsPlain
<1>8. CASE Go(c, revokeThen(k, {k.session}, "idle"))
  <2>1. PICK next : next = revokeThen(k, {k.session}, "idle")
    OBVIOUS
  <2>2. {k.session} \subseteq Nat /\ {k.session} # {}
    BY <1>4 DEF AuthCall
  <2>3. /\ next \in AuthCall /\ next.op = k.op /\ next.session = k.session /\ next.token = k.token
        /\ next.clearing = {} /\ next.step = "revoke" /\ next.then = "idle" /\ next.revoking = {k.session}
    BY <1>4, <2>1, <2>2, RevokesThen
  <2>4. AuthStepTyped(next)
    BY <1>5, <2>3 DEF AuthStepTyped
  <2>5. worksOn(next) \subseteq 0 .. Len(sessions)
    BY <1>1, <2>3 DEF AuthCallTyped, worksOn
  <2>6. AuthCallTyped(next)
    BY <1>6, <2>3, <2>4, <2>5 DEF AuthCallTyped
  <2>7. PlainTurn(k, next) /\ PasswordTurn(k, next) /\ ~Opening(next) /\ Issues(next) /\ ~ShowsPassword(next)
    BY <1>2, <1>3, <1>5, <2>3 DEF PlainTurn, PasswordTurn, Opening, Issues, LogsIn, ShowsPassword
  <2> QED
    BY <1>1, <1>2, <1>3, <1>8, <2>1, <2>3, <2>6, <2>7 DEF Plain
<1> QED
  BY <1>1, <1>7, <1>8 DEF ReadUser

(* The calls that begin.                                                     *)
LEMMA RevokeBegins ==
  ASSUME AuthTyped, NEW c \in ACalls, Revoke(c)
  PROVE  \E k, next : Plain(c, k, next)
<1>1. PICK s \in DOMAIN sessions : Begin(c, revokeThen(calling("revoke", "idle"), {s}, "idle"))
  BY DEF Revoke
<1>2. UNCHANGED <<sessions, tokens, account>>
  BY DEF Revoke, rows
<1>3. PICK called : called = calling("revoke", "idle")
  OBVIOUS
<1>4. "revoke" \in AuthOps /\ "idle" \in AuthSteps
  BY DEF AuthOps, AuthSteps
<1>5. /\ called \in AuthCall /\ called.op = "revoke" /\ called.session = 0 /\ called.clearing = {}
  BY <1>3, <1>4, Called
<1>6. {s} \subseteq Nat /\ s \in 0 .. Len(sessions)
  BY SessionRows
<1>7. PICK next : next = revokeThen(called, {s}, "idle")
  OBVIOUS
<1>8. /\ next \in AuthCall /\ next.op = "revoke" /\ next.session = 0 /\ next.clearing = {}
      /\ next.step = "revoke" /\ next.then = "idle" /\ next.revoking = {s}
  BY <1>5, <1>6, <1>7, RevokesThen
<1>9. worksOn(next) \subseteq 0 .. Len(sessions)
  BY <1>6, <1>8, SessionRows DEF worksOn
<1>10. AuthCallTyped(next)
  BY <1>1, <1>8, <1>9 DEF AuthCallTyped, AuthStepTyped
<1>11. PlainTurn(Rest, next) /\ ~ShowsPassword(next) /\ ~Opening(next)
  BY <1>8 DEF PlainTurn, Issues, LogsIn, ShowsPassword, Opening
<1>12. Plain(c, Rest, next)
  BY <1>1, <1>2, <1>3, <1>7, <1>8, <1>10, <1>11, BeginsPlain
<1> QED
  BY <1>12

LEMMA RevokeAllBegins ==
  ASSUME AuthTyped, NEW c \in ACalls, RevokeAll(c)
  PROVE  \E k, next : Plain(c, k, next)
<1>1. PICK s \in 0 .. Len(sessions) : Begin(c, [calling("revokeAll", "others") EXCEPT !.session = s])
  BY DEF RevokeAll
<1>2. UNCHANGED <<sessions, tokens, account>>
  BY DEF RevokeAll, rows
<1>3. PICK called : called = calling("revokeAll", "others")
  OBVIOUS
<1>4. "revokeAll" \in AuthOps /\ "others" \in AuthSteps
  BY DEF AuthOps, AuthSteps
<1>5. /\ called \in AuthCall /\ called.step = "others" /\ called.op = "revokeAll"
      /\ called.revoking = {} /\ called.clearing = {}
  BY <1>3, <1>4, Called
<1>6. PICK next : next = [called EXCEPT !.session = s]
  OBVIOUS
<1>7. /\ next \in AuthCall /\ next.step = "others" /\ next.op = "revokeAll" /\ next.session = s
      /\ next.revoking = {} /\ next.clearing = {}
  BY <1>5, <1>6, SessionRows DEF AuthCall
<1>8. worksOn(next) \subseteq 0 .. Len(sessions)
  BY <1>7 DEF worksOn
<1>9. AuthCallTyped(next)
  BY <1>7, <1>8 DEF AuthCallTyped, AuthStepTyped
<1>10. PlainTurn(Rest, next) /\ ~ShowsPassword(next) /\ ~Opening(next)
  BY <1>7 DEF PlainTurn, Issues, LogsIn, ShowsPassword, Opening
<1>11. Plain(c, Rest, next)
  BY <1>1, <1>2, <1>3, <1>6, <1>7, <1>9, <1>10, BeginsPlain
<1> QED
  BY <1>11

LEMMA LoginBegins ==
  ASSUME AuthTyped, LinksTyped, NEW c \in ACalls, Login(c) \/ Verify(c)
  PROVE  \E k, next : Plain(c, k, next)
<1>1. PICK op \in {"login", "verify"}, step \in {"password", "code"}, token \in Nat, password \in Nat :
        /\ Begin(c, [calling(op, step) EXCEPT !.token = token, !.password = password])
        /\ op = "login" => password = account.password
  <2>1. account.password \in Nat
    BY DEF AuthTyped, AccountRow
  <2>2. CASE Login(c)
    <3>1. PICK none \in Nat : none = 0
      OBVIOUS
    <3>2. PICK called : called = calling("login", "password")
      OBVIOUS
    <3>3. "login" \in AuthOps /\ "password" \in AuthSteps
      BY DEF AuthOps, AuthSteps
    <3>4. called \in AuthCall /\ called.token = none
      BY <3>1, <3>2, <3>3, Called
    <3>5. [called EXCEPT !.token = none, !.password = account.password]
            = [called EXCEPT !.password = account.password]
      BY <2>1, <3>4 DEF AuthCall
    <3>6. Begin(c, [called EXCEPT !.password = account.password])
      BY <2>2, <3>2 DEF Login
    <3>7. Begin(c, [called EXCEPT !.token = none, !.password = account.password])
      BY <3>5, <3>6
    <3> QED
      BY <2>1, <3>2, <3>7
  <2>3. CASE Verify(c)
    <3>1. PICK n \in DOMAIN challenges :
            Begin(c, [calling("verify", "code") EXCEPT !.token = n, !.password = challenges[n].password])
      BY <2>3 DEF Verify
    <3>2. n \in Nat /\ challenges[n].password \in Nat
      BY <3>1, ChallengeRows
    <3> QED
      BY <3>1, <3>2
  <2> QED
    BY <2>2, <2>3
<1>2. UNCHANGED <<sessions, tokens, account>>
  BY DEF Login, Verify, rows
<1>3. PICK called : called = calling(op, step)
  OBVIOUS
<1>4. op \in AuthOps /\ step \in AuthSteps
  BY DEF AuthOps, AuthSteps
<1>5. /\ called \in AuthCall /\ called.step = step /\ called.op = op /\ called.session = 0
      /\ called.revoking = {} /\ called.clearing = {}
  BY <1>3, <1>4, Called
<1>7. PICK next : next = [called EXCEPT !.token = token, !.password = password]
  OBVIOUS
<1>8. /\ next \in AuthCall /\ next.step = step /\ next.op = op /\ next.session = 0
      /\ next.revoking = {} /\ next.clearing = {} /\ next.password = password
  BY <1>5, <1>7 DEF AuthCall
<1>9. worksOn(next) \subseteq 0 .. Len(sessions)
  BY <1>8, SessionRows DEF worksOn
<1>10. AuthCallTyped(next)
  BY <1>1, <1>8, <1>9 DEF AuthCallTyped, AuthStepTyped, LogsIn
<1>11. PlainTurn(Rest, next) /\ ~Opening(next) /\ (ShowsPassword(next) => next.password = account.password)
  BY <1>1, <1>8 DEF PlainTurn, Issues, Opening, ShowsPassword
<1>12. Begin(c, next)
  BY <1>1, <1>3, <1>7
<1>13. Plain(c, Rest, next)
  BY <1>2, <1>8, <1>10, <1>11, <1>12, BeginsPlain
<1> QED
  BY <1>13

LEMMA RotateBegins ==
  ASSUME AuthTyped, NEW c \in ACalls, Rotate(c)
  PROVE  \E k, next : Plain(c, k, next)
<1>1. PICK t \in DOMAIN tokens :
        Begin(c, [calling("rotate", CASE tokens[t].status # "ACTIVE" -> "reuse"
                                      [] sessions[tokens[t].session].expired -> "expire"
                                      [] OTHER -> "user")
                    EXCEPT !.token = t, !.session = tokens[t].session])
  BY Zenon DEF Rotate
<1>2. PICK s : s = tokens[t].session
  OBVIOUS
<1>3. PICK step : step = CASE tokens[t].status # "ACTIVE" -> "reuse"
                           [] sessions[s].expired -> "expire"
                           [] OTHER -> "user"
  OBVIOUS
<1>4. /\ step \in {"reuse", "expire", "user"}
      /\ step = "expire" => sessions[s].expired
      /\ step = "user" => tokens[t].status = "ACTIVE"
  <2>1. CASE tokens[t].status # "ACTIVE"
    BY <1>3, <2>1
  <2>2. CASE tokens[t].status = "ACTIVE" /\ sessions[s].expired
    BY <1>3, <2>2
  <2>3. CASE tokens[t].status = "ACTIVE" /\ ~sessions[s].expired
    BY <1>3, <2>3
  <2> QED
    BY <2>1, <2>2, <2>3
<1>5. UNCHANGED <<sessions, tokens, account>>
  BY DEF Rotate, rows
<1>6. PICK called : called = calling("rotate", step)
  OBVIOUS
<1>7. "rotate" \in AuthOps /\ step \in AuthSteps
  BY <1>4 DEF AuthOps, AuthSteps
<1>8. /\ called \in AuthCall /\ called.step = step /\ called.op = "rotate"
      /\ called.revoking = {} /\ called.clearing = {}
  BY <1>6, <1>7, Called
<1>9. s \in DOMAIN sessions /\ s \in Nat /\ s # 0 /\ t \in Nat /\ s \in 0 .. Len(sessions)
  BY <1>2, SessionRows DEF AuthTyped
<1>10. PICK next : next = [called EXCEPT !.token = t, !.session = s]
  OBVIOUS
<1>11. /\ next \in AuthCall /\ next.step = step /\ next.op = "rotate" /\ next.session = s
       /\ next.token = t /\ next.revoking = {} /\ next.clearing = {}
  BY <1>8, <1>9, <1>10 DEF AuthCall
<1>12. worksOn(next) \subseteq 0 .. Len(sessions)
  BY <1>9, <1>11 DEF worksOn
<1>13. AuthCallTyped(next)
  BY <1>1, <1>2, <1>4, <1>9, <1>11, <1>12 DEF AuthCallTyped, AuthStepTyped
<1>14. PlainTurn(Rest, next) /\ ~ShowsPassword(next) /\ ~Opening(next)
  <2>1. step = "user" => t \in activeTokens(s)
    BY <1>1, <1>2, <1>4 DEF activeTokens
  <2> QED
    BY <1>4, <1>11, <2>1 DEF PlainTurn, LogsIn, ShowsPassword, Opening
<1>15. Begin(c, next)
  BY <1>1, <1>2, <1>3, <1>6, <1>10
<1>16. Plain(c, Rest, next)
  BY <1>5, <1>11, <1>13, <1>14, <1>15, BeginsPlain
<1> QED
  BY <1>16

LEMMA PasswordBegins ==
  ASSUME AuthTyped, LinksTyped, NEW c \in ACalls, ChangePassword(c) \/ Reset(c)
  PROVE  \E k, next : Plain(c, k, next)
<1>1. UNCHANGED <<sessions, tokens, account>>
  BY DEF ChangePassword, Reset, rows
<1>2. /\ {"change", "reset"} \subseteq AuthOps
      /\ {"change", "reset", "lapse"} \subseteq AuthSteps
  BY DEF AuthOps, AuthSteps
<1>3. CASE ChangePassword(c)
  <2>1. PICK s \in DOMAIN sessions : Begin(c, [calling("change", "change") EXCEPT !.session = s])
    BY <1>3 DEF ChangePassword
  <2>2. PICK called : called = calling("change", "change")
    OBVIOUS
  <2>3. /\ called \in AuthCall /\ called.step = "change" /\ called.op = "change"
        /\ called.revoking = {} /\ called.clearing = {}
    BY <1>2, <2>2, Called
  <2>4. PICK next : next = [called EXCEPT !.session = s]
    OBVIOUS
  <2>5. s \in Nat /\ s # 0 /\ s \in 0 .. Len(sessions)
    BY SessionRows
  <2>6. /\ next \in AuthCall /\ next.step = "change" /\ next.op = "change" /\ next.session = s
        /\ next.revoking = {} /\ next.clearing = {}
    BY <2>3, <2>4, <2>5 DEF AuthCall
  <2>7. worksOn(next) \subseteq 0 .. Len(sessions)
    BY <2>5, <2>6, SessionRows DEF worksOn
  <2>8. AuthCallTyped(next)
    BY <2>5, <2>6, <2>7 DEF AuthCallTyped, AuthStepTyped
  <2>9. PlainTurn(Rest, next) /\ ~ShowsPassword(next) /\ ~Opening(next)
    BY <2>6 DEF PlainTurn, Issues, LogsIn, ShowsPassword, Opening
  <2>10. Plain(c, Rest, next)
    BY <1>1, <2>1, <2>2, <2>4, <2>6, <2>8, <2>9, BeginsPlain
  <2> QED
    BY <2>10
<1>4. CASE Reset(c)
  <2>1. PICK l \in Nat, step \in {"reset", "lapse"} : Begin(c, [calling("reset", step) EXCEPT !.token = l])
    BY <1>4 DEF Reset, LinksTyped
  <2>2. PICK called : called = calling("reset", step)
    OBVIOUS
  <2>3. /\ called \in AuthCall /\ called.step = step /\ called.op = "reset" /\ called.session = 0
        /\ called.revoking = {} /\ called.clearing = {}
    BY <1>2, <2>2, Called
  <2>4. PICK next : next = [called EXCEPT !.token = l]
    OBVIOUS
  <2>5. /\ next \in AuthCall /\ next.step = step /\ next.op = "reset" /\ next.session = 0
        /\ next.revoking = {} /\ next.clearing = {}
    BY <2>3, <2>4 DEF AuthCall
  <2>6. worksOn(next) \subseteq 0 .. Len(sessions)
    BY <2>5, SessionRows DEF worksOn
  <2>7. AuthCallTyped(next)
    BY <2>1, <2>5, <2>6 DEF AuthCallTyped, AuthStepTyped
  <2>8. PlainTurn(Rest, next) /\ ~ShowsPassword(next) /\ ~Opening(next)
    BY <2>1, <2>5 DEF PlainTurn, Issues, LogsIn, ShowsPassword, Opening
  <2>9. Plain(c, Rest, next)
    BY <1>1, <2>1, <2>2, <2>4, <2>5, <2>7, <2>8, BeginsPlain
  <2> QED
    BY <2>9
<1> QED
  BY <1>3, <1>4

(* The calls that look for sessions to revoke.                               *)
LEMMA OthersTurns ==
  ASSUME AuthTyped, NEW c \in ACalls, Others(c)
  PROVE  \E k, next : Plain(c, k, next)
<1>1. PICK k : k = acall[c] /\ AuthCallTyped(k)
  BY DEF AuthTyped
<1>2. k.step = "others" /\ UNCHANGED <<sessions, tokens, account>>
  BY <1>1 DEF Others, At, rows
<1>3. SameRows /\ SamePassword /\ account' \in AccountRow
  BY <1>2, RowsKept DEF AuthTyped
<1>4. k \in AuthCall /\ k.revoking = {} /\ k.clearing = {}
  BY <1>1, <1>2 DEF AuthCallTyped
<1>5. k.op \in {"revokeAll", "change", "reset"}
  BY <1>1, <1>2, RestCall DEF AuthCallTyped, AuthStepTyped
<1>6. PICK S : S = others(k.session)
  OBVIOUS
<1>7. S \subseteq DOMAIN sessions /\ S \subseteq Nat
      /\ \A s \in DOMAIN sessions : sessions[s].status = "ACTIVE" /\ s # k.session => s \in S
  BY <1>6, SessionRows DEF others
<1>8. PICK next : next = revokeThen(k, S, "idle")
  OBVIOUS
<1>9. /\ next \in AuthCall /\ next.op = k.op /\ next.session = k.session /\ next.clearing = {}
      /\ S = {} => next.step = "idle" /\ next.revoking = {}
      /\ S # {} => next.step = "revoke" /\ next.then = "idle" /\ next.revoking = S
  BY <1>4, <1>7, <1>8, RevokesThen
<1>10. worksOn(next) \subseteq 0 .. Len(sessions)
  <2>1. S \subseteq 0 .. Len(sessions)
    BY <1>7, SessionRows
  <2> QED
    BY <1>1, <1>9, <2>1 DEF AuthCallTyped, worksOn
<1>11. next.step = "idle" \/ AuthCallTyped(next)
  BY <1>5, <1>7, <1>9, <1>10 DEF AuthCallTyped, AuthStepTyped
<1>12. /\ PlainTurn(k, next) /\ ~Issues(k) /\ ~ShowsPassword(next) /\ ~Opening(next)
  BY <1>5, <1>9 DEF PlainTurn, Issues, LogsIn, ShowsPassword, Opening
<1>13. PasswordTurn(k, next)
  BY <1>3, <1>7, <1>9 DEF PasswordTurn, setsPassword
<1>14. Go(c, next)
  BY <1>1, <1>6, <1>8 DEF Others
<1> QED
  BY <1>1, <1>2, <1>3, <1>9, <1>11, <1>12, <1>13, <1>14 DEF Plain

LEMMA LimitTurns ==
  ASSUME AuthTyped, NEW c \in ACalls, Limit(c)
  PROVE  \E k, next : Plain(c, k, next)
<1>1. PICK k : k = acall[c] /\ AuthCallTyped(k)
  BY DEF AuthTyped
<1>2. k.step = "limit" /\ UNCHANGED <<sessions, tokens, account>>
  BY <1>1 DEF Limit, At, rows
<1>3. SameRows /\ SamePassword /\ account' \in AccountRow
  BY <1>2, RowsKept DEF AuthTyped
<1>4. k \in AuthCall /\ k.revoking = {} /\ k.clearing = {}
  BY <1>1, <1>2 DEF AuthCallTyped
<1>5. LogsIn(k) /\ k.session = 0
  BY <1>1, <1>2, RestCall DEF AuthCallTyped, AuthStepTyped
<1>6. PICK S \in SUBSET activeSessions :
        /\ Cardinality(S) = overflow(Cardinality(activeSessions))
        /\ Go(c, revokeThen(k, S, "create"))
  BY <1>1 DEF Limit
<1>7. S \subseteq DOMAIN sessions /\ S \subseteq Nat /\ IsFiniteSet(activeSessions)
  <2>1. activeSessions \subseteq 1 .. Len(sessions)
    BY SessionRows DEF activeSessions
  <2>2. IsFiniteSet(1 .. Len(sessions))
    BY SessionRows, FS_Interval
  <2> QED
    BY <2>1, <2>2, FS_Subset, SessionRows
<1>8. PICK next : next = revokeThen(k, S, "create")
  OBVIOUS
<1>9. /\ next \in AuthCall /\ next.op = k.op /\ next.session = k.session /\ next.clearing = {}
      /\ next.password = k.password /\ next.revoking = S
      /\ S = {} => next.step = "create"
      /\ S # {} => next.step = "revoke" /\ next.then = "create"
  <2>1. PICK then \in {"idle", "create"} : then = "create"
    OBVIOUS
  <2>2. next = revokeThen(k, S, then)
    BY <1>8, <2>1
  <2>3. /\ next \in AuthCall /\ next.op = k.op /\ next.session = k.session /\ next.token = k.token
        /\ next.password = k.password /\ next.clearing = k.clearing
        /\ S = {} => next.step = then /\ next.revoking = k.revoking
        /\ S # {} => next.step = "revoke" /\ next.then = then /\ next.revoking = S
    BY <1>4, <1>7, <2>2, RevokesThen
  <2> QED
    BY <1>4, <2>1, <2>3
<1>10. worksOn(next) \subseteq 0 .. Len(sessions)
  <2>1. S \subseteq 0 .. Len(sessions)
    BY <1>7, SessionRows
  <2> QED
    BY <1>1, <1>9, <2>1 DEF AuthCallTyped, worksOn
<1>11. AuthCallTyped(next)
  <2>1. LogsIn(next) /\ next.session = 0
    BY <1>5, <1>9 DEF LogsIn
  <2>2. AuthStepTyped(next)
    BY <1>9, <2>1 DEF AuthStepTyped
  <2> QED
    BY <1>7, <1>9, <1>10, <2>2 DEF AuthCallTyped
<1>12. PlainTurn(k, next) /\ PasswordTurn(k, next)
  BY <1>2, <1>3, <1>5, <1>9 DEF PlainTurn, PasswordTurn, Issues, LogsIn
<1>13. Cardinality(activeSessions \ S) <= MaxActive - 1
  <2>1. Cardinality(activeSessions) \in Nat /\ MaxActive \in Nat \ {0}
    BY <1>7, FS_CardinalityType, AuthAssumption
  <2>2. Cardinality(activeSessions \ S) = Cardinality(activeSessions) - Cardinality(activeSessions \cap S)
    BY <1>7, FS_Difference
  <2>3. activeSessions \cap S = S
    BY <1>6
  <2> QED
    BY <1>6, <2>1, <2>2, <2>3 DEF overflow
<1> QED
  BY <1>1, <1>2, <1>3, <1>5, <1>6, <1>8, <1>9, <1>11, <1>12, <1>13 DEF Plain, ShowsPassword

(* The calls that set a password.                                            *)
LEMMA PasswordTurns ==
  ASSUME AuthTyped, NEW c \in ACalls, WritePassword(c) \/ UseLink(c)
  PROVE  \E k, next : Plain(c, k, next)
<1>1. PICK k : k = acall[c] /\ AuthCallTyped(k)
  BY DEF AuthTyped
<1>2. k.step \in {"change", "reset"} /\ GoTo(c, "others") /\ UNCHANGED tokens
  BY <1>1 DEF WritePassword, UseLink, At, rows
<1>3. /\ k.op \in {"change", "reset"} /\ k # Rest
      /\ k.step = "change" => k.session # 0
  BY <1>1, <1>2, RestCall DEF AuthCallTyped, AuthStepTyped, LogsIn
<1>4. k \in AuthCall /\ k.revoking = {} /\ k.clearing = {}
  BY <1>1, <1>2 DEF AuthCallTyped
<1>5. PICK next : next = [k EXCEPT !.step = "others"]
  OBVIOUS
<1>6. "others" \in AuthSteps
  BY DEF AuthSteps
<1>7. /\ next \in AuthCall /\ next.step = "others" /\ next.op = k.op /\ next.session = k.session
      /\ next.revoking = {} /\ next.clearing = {}
  BY <1>4, <1>5, <1>6, Stepped
<1>8. AuthCallTyped(next)
  BY <1>1, <1>3, <1>7 DEF AuthCallTyped, AuthStepTyped, worksOn
<1>9. account \in AccountRow
  BY DEF AuthTyped
<1>10. PICK password \in Nat : password = account.password + 1
  BY <1>9 DEF AccountRow
<1>11. account' \in AccountRow /\ account'.password = password
  <2>1. CASE WritePassword(c)
    <3>1. account' = [account EXCEPT !.password = password]
      BY <1>10, <2>1 DEF WritePassword
    <3> QED
      BY <1>9, <3>1 DEF AccountRow
  <2>2. CASE UseLink(c)
    <3>1. PICK none \in Nat, off \in BOOLEAN : none = 0 /\ off = FALSE
      OBVIOUS
    <3>2. account' = [account EXCEPT !.password = password, !.failed = none, !.locked = off]
      BY <1>10, <2>2, <3>1 DEF UseLink
    <3> QED
      BY <1>9, <3>2 DEF AccountRow
  <2> QED
    BY <2>1, <2>2
<1>12. /\ SameRows
       /\ \A s \in DOMAIN sessions : s = next.session => sessions'[s].password = password
  <2>1. CASE WritePassword(c)
    <3>1. k.session \in DOMAIN sessions
      <4>1. k.session # 0
        BY <1>1, <1>3, <2>1 DEF WritePassword, At
      <4> QED
        BY <1>1, <4>1, SessionRows DEF AuthCallTyped, worksOn
    <3>2. PICK s : s = k.session /\ s \in DOMAIN sessions
      BY <3>1
    <3>3. sessions' = [sessions EXCEPT ![s].password = password]
      BY <1>1, <1>10, <2>1, <3>2 DEF WritePassword
    <3>4. sessions[s] \in SessionRow
      BY <3>2, SessionRows
    <3>5. PICK newRow : newRow = [sessions[s] EXCEPT !.password = password]
      OBVIOUS
    <3>6. /\ newRow \in SessionRow /\ newRow.password = password /\ newRow.status = sessions[s].status
          /\ newRow.cached = sessions[s].cached /\ newRow.expired = sessions[s].expired
      BY <3>4, <3>5 DEF SessionRow
    <3>7. sessions' = [sessions EXCEPT ![s] = newRow]
      BY <3>3, <3>5
    <3>8. /\ sessions' \in Seq(SessionRow) /\ Len(sessions') = Len(sessions) /\ sessions'[s] = newRow
          /\ \A r \in DOMAIN sessions : r # s => sessions'[r] = sessions[r]
      BY <3>2, <3>6, <3>7 DEF AuthTyped
    <3> QED
      BY <1>2, <1>7, <3>2, <3>6, <3>8 DEF SameRows
  <2>2. CASE UseLink(c)
    <3>1. sessions' = sessions
      BY <2>2 DEF UseLink, rows
    <3>2. next.session = 0
      BY <1>1, <1>3, <1>7, <2>2, RestCall DEF UseLink, At, AuthCallTyped, AuthStepTyped, LogsIn
    <3> QED
      BY <1>2, <3>1, <3>2, SessionRows DEF SameRows, AuthTyped
  <2> QED
    BY <2>1, <2>2
<1>13. PlainTurn(k, next) /\ ~ShowsPassword(next) /\ ~Opening(next) /\ ~Issues(k)
  BY <1>3, <1>7 DEF PlainTurn, Issues, LogsIn, ShowsPassword, Opening
<1>14. PasswordTurn(k, next)
  BY <1>3, <1>7, <1>11, <1>12 DEF PasswordTurn, setsPassword
<1>15. Go(c, next)
  BY <1>1, <1>2, <1>5 DEF GoTo
<1> QED
  BY <1>1, <1>2, <1>7, <1>8, <1>11, <1>12, <1>13, <1>14, <1>15 DEF Plain

LEMMA SameGrows ==
  ASSUME AuthTyped, SameRows, account' \in AccountRow
  PROVE  Grows
<1>1. DOMAIN sessions' = DOMAIN sessions
  BY SessionRows DEF SameRows
<1> QED
  BY <1>1, SessionRows DEF AuthTyped, SameRows, Grows

LEMMA PlainTyped ==
  ASSUME AuthTyped, NEW c \in ACalls, NEW k, NEW next, Plain(c, k, next)
  PROVE  AuthTyped'
<1>1. Grows
  BY SameGrows DEF Plain
<1> QED
  BY <1>1, StaysTyped, TypedGo DEF Plain

(* A step of a call that changes one session, s, or its tokens.              *)
Turned(c, k, new, s) ==
  /\ k = acall[c] /\ new = acall'[c] /\ \A d \in ACalls : d # c => acall'[d] = acall[d]
  /\ AuthTyped' /\ Len(sessions') = Len(sessions) /\ s \in DOMAIN sessions /\ account' = account
  /\ \A r \in DOMAIN sessions :
       /\ SameOrigin(sessions'[r], sessions[r])
       /\ r # s => /\ sessions'[r] = sessions[r] /\ activeTokens(r)' = activeTokens(r)
                   /\ (r \in new.revoking <=> r \in k.revoking) /\ (r \in new.clearing <=> r \in k.clearing)
  /\ Issues(k) => k.session \in {0, s}
  /\ Issues(new) => new.session \in {0, s}
  /\ LogsIn(new) => LogsIn(k) /\ new.op = k.op /\ new.password = k.password
  /\ setsPassword(k) => /\ sessions'[s].status = "REVOKED" /\ k.step = "revoke"
                        /\ new = Rest \/ setsPassword(new)
  /\ Opening(new) => Opening(k) /\ sessions'[s].status = "REVOKED"

(* The sessions after one of them was changed.                               *)
LEMMA OneChanged ==
  ASSUME AuthTyped, NEW s \in DOMAIN sessions, NEW newRow \in SessionRow, sessions' = [sessions EXCEPT ![s] = newRow]
  PROVE  /\ sessions' \in Seq(SessionRow) /\ Len(sessions') = Len(sessions) /\ sessions'[s] = newRow
         /\ \A r \in DOMAIN sessions : r # s => sessions'[r] = sessions[r]
  BY DEF AuthTyped

LEMMA OneGrows ==
  ASSUME AuthTyped, NEW s \in DOMAIN sessions, sessions' \in Seq(SessionRow), Len(sessions') = Len(sessions),
         \A r \in DOMAIN sessions : r # s => sessions'[r] = sessions[r],
         sessions[s].status = "REVOKED" => sessions'[s].status = "REVOKED",
         sessions[s].expired => sessions'[s].expired,
         tokens' \in Seq(TokenRow), DOMAIN tokens \subseteq DOMAIN tokens',
         \A t \in DOMAIN tokens : tokens'[t].session = tokens[t].session,
         \A t \in DOMAIN tokens' : t \in DOMAIN tokens \/ tokens'[t].session = s,
         account' = account
  PROVE  Grows /\ DOMAIN sessions' = DOMAIN sessions
<1>1. DOMAIN sessions' = DOMAIN sessions /\ Len(sessions) <= Len(sessions')
  BY SessionRows
<1>2. \A r \in DOMAIN sessions : /\ sessions[r].status = "REVOKED" => sessions'[r].status = "REVOKED"
                                /\ sessions[r].expired => sessions'[r].expired
  <2> SUFFICES ASSUME NEW r \in DOMAIN sessions
               PROVE  /\ sessions[r].status = "REVOKED" => sessions'[r].status = "REVOKED"
                      /\ sessions[r].expired => sessions'[r].expired
    OBVIOUS
  <2>1. CASE r = s
    BY <2>1
  <2>2. CASE r # s
    BY <2>2
  <2> QED
    BY <2>1, <2>2
<1>3. \A t \in DOMAIN tokens' : tokens'[t].session \in DOMAIN sessions'
  BY <1>1 DEF AuthTyped
<1>4. account' \in AccountRow
  BY DEF AuthTyped
<1> QED
  BY <1>1, <1>2, <1>3, <1>4 DEF Grows

LEMMA Revokes ==
  ASSUME AuthTyped, NEW c \in ACalls, RevokeOne(c)
  PROVE  \E k, new, s :
           /\ Turned(c, k, new, s) /\ AuthCallTyped(k)
           /\ k.step = "revoke" /\ s \in k.revoking
           /\ sessions'[s].status = "REVOKED" /\ sessions'[s].cached = sessions[s].cached
           /\ activeTokens(s)' = {} /\ s \in new.clearing
           /\ new.step = "revoke"
<1>1. PICK k : k = acall[c] /\ AuthCallTyped(k)
  BY DEF AuthTyped
<1>2. k.step = "revoke" /\ k \in AuthCall /\ account' = account
  BY <1>1 DEF RevokeOne, At, AuthCallTyped
<1>3. PICK s \in acall[c].revoking :
        /\ revokeSession(s)
        /\ Go(c, [acall[c] EXCEPT !.revoking = @ \ {s}, !.clearing = @ \cup {s}])
  BY Zenon DEF RevokeOne
<1>4. s \in DOMAIN sessions /\ s \in Nat
  BY <1>1, <1>3, SessionRows DEF AuthCallTyped
<1>5. PICK newRow : newRow = [sessions[s] EXCEPT !.status = "REVOKED"]
  OBVIOUS
<1>6. /\ newRow \in SessionRow /\ newRow.status = "REVOKED" /\ newRow.cached = sessions[s].cached
      /\ newRow.expired = sessions[s].expired /\ SameOrigin(newRow, sessions[s])
  BY <1>4, <1>5, SessionRows DEF SessionRow, SameOrigin
<1>7. sessions' = [sessions EXCEPT ![s] = newRow]
  BY <1>3, <1>5 DEF revokeSession
<1>8. /\ sessions' \in Seq(SessionRow) /\ Len(sessions') = Len(sessions) /\ sessions'[s] = newRow
      /\ \A r \in DOMAIN sessions : r # s => sessions'[r] = sessions[r]
  BY <1>4, <1>6, <1>7, OneChanged
<1>9. tokens' = [t \in DOMAIN tokens |->
                   IF tokens[t].session = s /\ tokens[t].status = "ACTIVE"
                   THEN [tokens[t] EXCEPT !.status = "REVOKED"] ELSE tokens[t]]
  BY <1>3 DEF revokeSession
<1>10. ASSUME NEW t \in DOMAIN tokens
       PROVE  /\ tokens'[t] \in TokenRow /\ tokens'[t].session = tokens[t].session
              /\ tokens'[t].status = "ACTIVE" <=> tokens[t].status = "ACTIVE" /\ tokens[t].session # s
  <2>1. tokens[t] \in TokenRow
    BY SessionRows
  <2>2. PICK token : token = [tokens[t] EXCEPT !.status = "REVOKED"]
    OBVIOUS
  <2>3. token \in TokenRow /\ token.session = tokens[t].session /\ token.status = "REVOKED"
    BY <2>1, <2>2 DEF TokenRow
  <2>4. tokens'[t] = IF tokens[t].session = s /\ tokens[t].status = "ACTIVE" THEN token ELSE tokens[t]
    BY <1>9, <2>2
  <2> QED
    BY <2>1, <2>3, <2>4
<1>11. DOMAIN tokens' = DOMAIN tokens /\ tokens' \in Seq(TokenRow)
  BY <1>9, <1>10, SessionRows
<1>12. \A r : activeTokens(r)' = IF r = s THEN {} ELSE activeTokens(r)
  BY <1>10, <1>11 DEF activeTokens
<1>13. DOMAIN sessions' = DOMAIN sessions
  BY <1>8, SessionRows
<1>14. Grows
  BY <1>2, <1>4, <1>6, <1>8, <1>10, <1>11, OneGrows
<1>15. PICK R, C : R = k.revoking \ {s} /\ C = k.clearing \cup {s}
  OBVIOUS
<1>16. R \in SUBSET Nat /\ C \in SUBSET Nat
  BY <1>2, <1>4, <1>15 DEF AuthCall
<1>17. PICK next : next = [k EXCEPT !.revoking = R, !.clearing = C]
  OBVIOUS
<1>18. /\ next \in AuthCall /\ next.step = "revoke" /\ next.op = k.op /\ next.session = k.session
       /\ next.token = k.token /\ next.password = k.password /\ next.then = k.then
       /\ next.revoking = R /\ next.clearing = C
  BY <1>2, <1>16, <1>17 DEF AuthCall
<1>19. Go(c, next)
  BY <1>1, <1>3, <1>15, <1>17
<1>20. worksOn(next) = worksOn(k) /\ R \cup C = k.revoking \cup k.clearing
  BY <1>1, <1>3, <1>15, <1>18 DEF worksOn
<1>21. AuthCallTyped(k)'
  BY <1>1, <1>14, StaysTyped
<1>22. AuthStepTyped(next)'
  <2>1. k # Rest
    BY <1>2, RestCall
  <2> QED
    BY <1>2, <1>18, <1>20, <1>21, <2>1 DEF AuthCallTyped, AuthStepTyped, LogsIn
<1>23. AuthCallTyped(next)'
  BY <1>6, <1>8, <1>13, <1>4, <1>15, <1>18, <1>20, <1>21, <1>22 DEF AuthCallTyped
<1>24. AuthTyped'
  BY <1>14, <1>19, <1>23, TypedGo
<1>25. acall'[c] = next /\ \A d \in ACalls : d # c => acall'[d] = acall[d]
  BY <1>18, <1>19, AuthCallGoes
<1>26. Issues(k) => k.session \in {0, s}
  <2>1. k.op = "rotate" => k.revoking \cup k.clearing = {k.session}
    BY <1>1, <1>2, RestCall DEF AuthCallTyped, AuthStepTyped, LogsIn
  <2>2. LogsIn(k) => k.session = 0
    BY <1>1, <1>2, RestCall DEF AuthCallTyped, AuthStepTyped, LogsIn
  <2> QED
    BY <1>1, <1>3, <2>1, <2>2 DEF Issues, LogsIn
<1>27. Turned(c, k, next, s)
  BY <1>1, <1>2, <1>4, <1>6, <1>8, <1>12, <1>15, <1>18, <1>24, <1>25, <1>26
     DEF Turned, Issues, LogsIn, setsPassword, Opening, SameOrigin
<1> QED
  BY <1>1, <1>2, <1>3, <1>6, <1>8, <1>12, <1>15, <1>18, <1>27

(* A call at work on a session goes on; the rows of that session change.     *)
LEMMA GoesOn ==
  ASSUME AuthTyped, NEW c \in ACalls, NEW k, k = acall[c], Issues(k), k.session # 0,
         k.step \notin {"idle", "revoke", "create"}, NEW s, s = k.session,
         NEW step \in {"idle", "used", "touch", "cache"}, GoTo(c, step),
         step = "cache" \/ k.op = "rotate" \/ step = "idle",
         Grows, Len(sessions') = Len(sessions), account' = account,
         \A r \in DOMAIN sessions :
           /\ SameOrigin(sessions'[r], sessions[r])
           /\ r # s => sessions'[r] = sessions[r] /\ activeTokens(r)' = activeTokens(r)
  PROVE  \E new : /\ Turned(c, k, new, s)
                  /\ step = "idle" => new = Rest
                  /\ step # "idle" => /\ new.step = step /\ new.op = k.op /\ new.session = s
                                      /\ new.token = k.token
                  /\ new.revoking = {} /\ new.clearing = {}
<1>1. AuthCallTyped(k) /\ k \in AuthCall /\ k # Rest /\ k.revoking = {} /\ k.clearing = {}
  BY RestCall DEF AuthTyped, AuthCallTyped
<1>2. s \in DOMAIN sessions
  BY <1>1, SessionRows DEF AuthCallTyped, worksOn
<1>3. PICK next : next = [k EXCEPT !.step = step]
  OBVIOUS
<1>4. step \in AuthSteps
  BY DEF AuthSteps
<1>5. /\ next \in AuthCall /\ next.step = step /\ next.op = k.op /\ next.session = k.session
      /\ next.token = k.token /\ next.password = k.password /\ next.revoking = {} /\ next.clearing = {}
  BY <1>1, <1>3, <1>4, Stepped
<1>6. Go(c, next)
  BY <1>3 DEF GoTo
<1>7. AuthCallTyped(k)'
  BY <1>1, StaysTyped
<1>8. next.step = "idle" \/ AuthStepTyped(next)'
  <2>1. CASE k.op = "rotate"
    <3>1. k.token \in DOMAIN tokens' /\ tokens'[k.token].session = k.session
      BY <1>1, <1>7, <2>1 DEF AuthCallTyped, AuthStepTyped, LogsIn
    <3> QED
      BY <1>5, <2>1, <3>1 DEF AuthStepTyped
  <2>2. CASE k.op # "rotate"
    BY <1>5, <2>2 DEF AuthStepTyped, LogsIn, Issues
  <2> QED
    BY <2>1, <2>2
<1>9. next.step = "idle" \/ AuthCallTyped(next)'
  BY <1>5, <1>7, <1>8 DEF AuthCallTyped, worksOn
<1>10. AuthTyped'
  BY <1>6, <1>9, TypedGo
<1>11. PICK new : new = IF next.step = "idle" THEN Rest ELSE next
  OBVIOUS
<1>12. acall'[c] = new /\ \A d \in ACalls : d # c => acall'[d] = acall[d]
  BY <1>6, <1>11, AuthCallGoes
<1>13. /\ step = "idle" => new = Rest
       /\ step # "idle" => /\ new.step = step /\ new.op = k.op /\ new.session = s
                           /\ new.token = k.token /\ new.password = k.password
       /\ new.revoking = {} /\ new.clearing = {}
       /\ step = "idle" => ~Issues(new) /\ ~LogsIn(new) /\ ~Opening(new)
  BY <1>5, <1>11, RestCall
<1>14. ~Opening(new) /\ ~setsPassword(k)
  BY <1>5, <1>13 DEF Opening, setsPassword, Issues
<1>15. LogsIn(new) => LogsIn(k) /\ new.op = k.op /\ new.password = k.password
  BY <1>13 DEF LogsIn
<1>16. Turned(c, k, new, s)
  BY <1>1, <1>2, <1>10, <1>12, <1>13, <1>14, <1>15 DEF Turned
<1> QED
  BY <1>13, <1>16

LEMMA Caches ==
  ASSUME AuthTyped, NEW c \in ACalls, Cache(c)
  PROVE  \E k, new, s :
           /\ Turned(c, k, new, s) /\ AuthCallTyped(k)
           /\ k.step = "cache" /\ Issues(k) /\ k.session = s
           /\ sessions'[s].status = sessions[s].status /\ sessions'[s].expired = sessions[s].expired
           /\ activeTokens(s)' = activeTokens(s) /\ new = Rest
<1>1. PICK k : k = acall[c] /\ AuthCallTyped(k)
  BY DEF AuthTyped
<1>2. k.step = "cache" /\ GoTo(c, "idle") /\ UNCHANGED <<tokens, account>>
  BY <1>1 DEF Cache, At
<1>3. Issues(k) /\ k.session # 0
  BY <1>1, <1>2, RestCall DEF AuthCallTyped, AuthStepTyped, LogsIn, Issues
<1>4. PICK s \in DOMAIN sessions : s = k.session
  BY <1>1, <1>3, SessionRows DEF AuthCallTyped, worksOn
<1>5. PICK cached \in BOOLEAN : cached = ~sessions[s].expired
  BY SessionRows DEF SessionRow
<1>6. PICK newRow : newRow = [sessions[s] EXCEPT !.cached = cached]
  OBVIOUS
<1>7. /\ newRow \in SessionRow /\ newRow.status = sessions[s].status
      /\ newRow.expired = sessions[s].expired /\ SameOrigin(newRow, sessions[s])
  BY <1>6, SessionRows DEF SessionRow, SameOrigin
<1>8. sessions' = [sessions EXCEPT ![s] = newRow]
  BY <1>1, <1>4, <1>5, <1>6 DEF Cache
<1>9. /\ sessions' \in Seq(SessionRow) /\ Len(sessions') = Len(sessions) /\ sessions'[s] = newRow
      /\ \A r \in DOMAIN sessions : r # s => sessions'[r] = sessions[r]
  BY <1>7, <1>8, OneChanged
<1>10. \A r : activeTokens(r)' = activeTokens(r)
  BY <1>2 DEF activeTokens
<1>11. Grows
  BY <1>2, <1>7, <1>9, OneGrows DEF AuthTyped
<1>12. \E new : Turned(c, k, new, s) /\ new = Rest
  BY <1>1, <1>2, <1>3, <1>4, <1>7, <1>9, <1>10, <1>11, GoesOn DEF SameOrigin
<1> QED
  BY <1>1, <1>2, <1>3, <1>4, <1>7, <1>9, <1>10, <1>12

(* The tokens after one was issued, or one was changed.                      *)
LEMMA TokenIssued ==
  ASSUME AuthTyped, NEW s \in DOMAIN sessions, persistRefreshToken(s),
         UNCHANGED <<sessions, account>>
  PROVE  /\ Grows
         /\ \A r \in DOMAIN sessions : r # s => activeTokens(r)' = activeTokens(r)
         /\ \E n : n \notin DOMAIN tokens /\ activeTokens(s)' = activeTokens(s) \cup {n}
<1>1. PICK token : token = [session |-> s, status |-> "ACTIVE"]
  OBVIOUS
<1>2. token \in TokenRow /\ token.session = s /\ token.status = "ACTIVE"
  BY <1>1, SessionRows DEF TokenRow
<1>3. tokens' = Append(tokens, token)
  BY <1>1 DEF persistRefreshToken
<1>4. PICK n : n = Len(tokens) + 1
  OBVIOUS
<1>5. /\ tokens' \in Seq(TokenRow) /\ n \notin DOMAIN tokens
      /\ DOMAIN tokens' = DOMAIN tokens \cup {n} /\ tokens'[n] = token
      /\ \A t \in DOMAIN tokens : tokens'[t] = tokens[t]
  BY <1>2, <1>3, <1>4 DEF AuthTyped
<1>6. Grows
  BY <1>2, <1>5, OneGrows DEF AuthTyped
<1>7. \A r \in DOMAIN sessions : r # s => activeTokens(r)' = activeTokens(r)
  BY <1>2, <1>5 DEF activeTokens
<1>8. activeTokens(s)' = activeTokens(s) \cup {n}
  BY <1>2, <1>5 DEF activeTokens
<1> QED
  BY <1>5, <1>6, <1>7, <1>8

LEMMA TokenMarked ==
  ASSUME AuthTyped, NEW t \in DOMAIN tokens, NEW status \in {"USED", "EXPIRED"}, markToken(t, status),
         NEW s, s = tokens[t].session, UNCHANGED <<sessions, account>>
  PROVE  /\ Grows
         /\ \A r \in DOMAIN sessions : r # s => activeTokens(r)' = activeTokens(r)
         /\ activeTokens(s)' = activeTokens(s) \ {t}
<1>1. PICK token : token = [tokens[t] EXCEPT !.status = status]
  OBVIOUS
<1>2. token \in TokenRow /\ token.session = s /\ token.status # "ACTIVE"
  BY <1>1, SessionRows DEF TokenRow
<1>3. tokens' = [tokens EXCEPT ![t] = token]
  BY <1>1 DEF markToken
<1>4. /\ tokens' \in Seq(TokenRow) /\ DOMAIN tokens' = DOMAIN tokens /\ tokens'[t] = token
      /\ \A u \in DOMAIN tokens : u # t => tokens'[u] = tokens[u]
  BY <1>2, <1>3 DEF AuthTyped
<1>5. s \in DOMAIN sessions
  BY DEF AuthTyped
<1>6. \A u \in DOMAIN tokens : tokens'[u].session = tokens[u].session
  BY <1>2, <1>4
<1>7. Grows
  BY <1>4, <1>5, <1>6, OneGrows DEF AuthTyped
<1>8. \A r \in DOMAIN sessions : r # s => activeTokens(r)' = activeTokens(r)
  BY <1>2, <1>4 DEF activeTokens
<1>9. activeTokens(s)' = activeTokens(s) \ {t}
  BY <1>2, <1>4 DEF activeTokens
<1> QED
  BY <1>7, <1>8, <1>9

LEMMA Issuing ==
  ASSUME AuthTyped, NEW c \in ACalls, FirstToken(c) \/ Replace(c)
  PROVE  \E k, new, s, n :
           /\ Turned(c, k, new, s) /\ AuthCallTyped(k)
           /\ Issues(k) /\ k.session = s /\ Issues(new) /\ new.session = s /\ new.token = k.token
           /\ new.revoking = {} /\ new.clearing = {}
           /\ \/ k.step = "token" /\ new.step = "cache"
              \/ k.step = "replace" /\ new.step = "used" /\ k.token \in DOMAIN tokens
           /\ sessions'[s] = sessions[s]
           /\ n \notin DOMAIN tokens /\ activeTokens(s)' = activeTokens(s) \cup {n}
<1>1. PICK k : k = acall[c] /\ AuthCallTyped(k)
  BY DEF AuthTyped
<1>2. /\ persistRefreshToken(k.session) /\ UNCHANGED <<sessions, account>>
      /\ \/ k.step = "token" /\ GoTo(c, "cache")
         \/ k.step = "replace" /\ GoTo(c, "used")
  BY <1>1 DEF FirstToken, Replace, At
<1>3. /\ Issues(k) /\ k.session # 0
      /\ k.step = "replace" => k.op = "rotate" /\ k.token \in DOMAIN tokens
  BY <1>1, <1>2, RestCall DEF AuthCallTyped, AuthStepTyped, LogsIn, Issues
<1>4. PICK s \in DOMAIN sessions : s = k.session
  BY <1>1, <1>3, SessionRows DEF AuthCallTyped, worksOn
<1>5. /\ Grows
      /\ \A r \in DOMAIN sessions : r # s => activeTokens(r)' = activeTokens(r)
      /\ \E n : n \notin DOMAIN tokens /\ activeTokens(s)' = activeTokens(s) \cup {n}
  BY <1>2, <1>4, TokenIssued
<1>6. PICK step \in {"used", "cache"} :
        GoTo(c, step) /\ ((k.step = "token" /\ step = "cache") \/ (k.step = "replace" /\ step = "used"))
  BY <1>2
<1>7. PICK new : /\ Turned(c, k, new, s) /\ new.step = step /\ new.op = k.op /\ new.session = s
                 /\ new.token = k.token /\ new.revoking = {} /\ new.clearing = {}
  BY <1>1, <1>2, <1>3, <1>4, <1>5, <1>6, GoesOn DEF SameOrigin
<1> QED
  BY <1>1, <1>2, <1>3, <1>4, <1>5, <1>6, <1>7 DEF Issues

LEMMA Marking ==
  ASSUME AuthTyped, NEW c \in ACalls, MarkUsed(c) \/ TokenExpired(c)
  PROVE  \E k, new, s :
           /\ Turned(c, k, new, s) /\ AuthCallTyped(k)
           /\ k.op = "rotate" /\ k.session = s
           /\ \/ /\ k.step = "used" /\ new.step = "touch" /\ new.op = "rotate" /\ new.session = s
              \/ /\ k.step = "expire" /\ new = Rest /\ sessions[s].expired
           /\ new.revoking = {} /\ new.clearing = {}
           /\ sessions'[s] = sessions[s]
           /\ activeTokens(s)' = activeTokens(s) \ {k.token}
<1>1. PICK k : k = acall[c] /\ AuthCallTyped(k)
  BY DEF AuthTyped
<1>2. PICK status \in {"USED", "EXPIRED"}, step \in {"idle", "touch"} :
        /\ markToken(k.token, status) /\ UNCHANGED <<sessions, account>> /\ GoTo(c, step)
        /\ (k.step = "used" /\ step = "touch") \/ (k.step = "expire" /\ step = "idle")
  BY <1>1 DEF MarkUsed, TokenExpired, At
<1>3. /\ k.op = "rotate" /\ k.session # 0
      /\ k.token \in DOMAIN tokens /\ tokens[k.token].session = k.session
      /\ k.step = "expire" => sessions[k.session].expired
  BY <1>1, <1>2, RestCall DEF AuthCallTyped, AuthStepTyped, LogsIn
<1>4. PICK s \in DOMAIN sessions : s = k.session
  BY <1>1, <1>3, SessionRows DEF AuthCallTyped, worksOn
<1>5. PICK t \in DOMAIN tokens : t = k.token
  BY <1>3
<1>6. /\ Grows
      /\ \A r \in DOMAIN sessions : r # s => activeTokens(r)' = activeTokens(r)
      /\ activeTokens(s)' = activeTokens(s) \ {t}
  <2>1. markToken(t, status) /\ s = tokens[t].session
    BY <1>2, <1>3, <1>4, <1>5
  <2> QED
    BY <1>2, <2>1, TokenMarked
<1>7. Issues(k)
  BY <1>3 DEF Issues
<1>8. PICK new : /\ Turned(c, k, new, s)
                 /\ step = "idle" => new = Rest
                 /\ step # "idle" => new.step = step /\ new.op = k.op /\ new.session = s
                 /\ new.revoking = {} /\ new.clearing = {}
  BY <1>1, <1>2, <1>3, <1>4, <1>6, <1>7, GoesOn DEF SameOrigin
<1> QED
  BY <1>1, <1>2, <1>3, <1>4, <1>5, <1>6, <1>8

LEMMA Clears ==
  ASSUME AuthTyped, NEW c \in ACalls, ClearOne(c)
  PROVE  \E k, new, s :
           /\ Turned(c, k, new, s) /\ AuthCallTyped(k)
           /\ k.step = "revoke" /\ s \in k.clearing
           /\ sessions'[s].status = "REVOKED" /\ sessions'[s].cached = FALSE
           /\ activeTokens(s)' = activeTokens(s)
           /\ new = Rest \/ LogsIn(new) \/ (new.step = "revoke" /\ new.op = k.op)
           /\ LogsIn(new) => new.session = 0
<1>1. PICK k : k = acall[c] /\ AuthCallTyped(k)
  BY DEF AuthTyped
<1>2. k.step = "revoke" /\ k \in AuthCall /\ UNCHANGED <<tokens, account>>
  BY <1>1 DEF ClearOne, At, AuthCallTyped
<1>3. PICK s \in acall[c].clearing :
        /\ sessions' = [sessions EXCEPT ![s].cached = FALSE]
        /\ Go(c, [acall[c] EXCEPT !.clearing = @ \ {s},
                   !.step = IF acall[c].revoking = {} /\ acall[c].clearing = {s} THEN acall[c].then ELSE @])
  BY Zenon DEF ClearOne
<1>4. s \in DOMAIN sessions /\ s \in Nat /\ sessions[s].status = "REVOKED" /\ s \in k.clearing
  BY <1>1, <1>3, SessionRows DEF AuthCallTyped
<1>5. PICK no \in BOOLEAN : no = FALSE
  OBVIOUS
<1>6. PICK newRow : newRow = [sessions[s] EXCEPT !.cached = no]
  OBVIOUS
<1>7. /\ newRow \in SessionRow /\ newRow.status = "REVOKED" /\ newRow.cached = FALSE
      /\ newRow.expired = sessions[s].expired /\ SameOrigin(newRow, sessions[s])
  BY <1>4, <1>5, <1>6, SessionRows DEF SessionRow, SameOrigin
<1>8. sessions' = [sessions EXCEPT ![s] = newRow]
  BY <1>3, <1>5, <1>6
<1>9. /\ sessions' \in Seq(SessionRow) /\ Len(sessions') = Len(sessions) /\ sessions'[s] = newRow
      /\ \A r \in DOMAIN sessions : r # s => sessions'[r] = sessions[r]
  BY <1>4, <1>7, <1>8, OneChanged
<1>10. \A r : activeTokens(r)' = activeTokens(r)
  BY <1>2 DEF activeTokens
<1>11. Grows
  BY <1>2, <1>4, <1>7, <1>9, OneGrows DEF AuthTyped
<1>12. k.then \in AuthSteps
  BY <1>2 DEF AuthCall, AuthSteps
<1>13. PICK C, step :
         /\ C = k.clearing \ {s}
         /\ step = IF k.revoking = {} /\ k.clearing = {s} THEN k.then ELSE k.step
         /\ step \in AuthSteps
  <2>1. PICK step : step = IF k.revoking = {} /\ k.clearing = {s} THEN k.then ELSE k.step
    OBVIOUS
  <2>2. step \in AuthSteps
    BY <1>2, <1>12, <2>1 DEF AuthCall
  <2>3. PICK C : C = k.clearing \ {s}
    OBVIOUS
  <2> QED
    BY <2>1, <2>2, <2>3
<1>14. C \in SUBSET Nat
  BY <1>2, <1>13 DEF AuthCall
<1>15. PICK next : next = [k EXCEPT !.clearing = C, !.step = step]
  OBVIOUS
<1>16. /\ next \in AuthCall /\ next.step = step /\ next.op = k.op /\ next.session = k.session
       /\ next.token = k.token /\ next.password = k.password /\ next.then = k.then
       /\ next.revoking = k.revoking /\ next.clearing = C
  <2>1. PICK cleared : cleared = [k EXCEPT !.clearing = C]
    OBVIOUS
  <2>2. /\ cleared \in AuthCall /\ cleared.step = k.step /\ cleared.op = k.op
        /\ cleared.session = k.session /\ cleared.token = k.token /\ cleared.password = k.password
        /\ cleared.then = k.then /\ cleared.revoking = k.revoking /\ cleared.clearing = C
    BY <1>2, <1>14, <2>1 DEF AuthCall
  <2>3. next = [cleared EXCEPT !.step = step]
    BY <1>2, <1>15, <2>1 DEF AuthCall
  <2> QED
    BY <1>13, <2>2, <2>3, Stepped
<1>17. Go(c, next)
  BY <1>1, <1>3, <1>13, <1>15
<1>18. AuthCallTyped(k)'
  BY <1>1, <1>11, StaysTyped
<1>19. /\ k.op # "none" /\ k # Rest
       /\ LogsIn(k) => k.session = 0 /\ k.then = "create"
       /\ ~LogsIn(k) => k.then = "idle"
       /\ k.op = "rotate" => k.revoking \cup k.clearing = {k.session}
  BY <1>1, <1>2, RestCall DEF AuthCallTyped, AuthStepTyped, LogsIn
<1>20. step # "revoke" => next.revoking = {} /\ next.clearing = {} /\ step = k.then
  BY <1>2, <1>13, <1>16
<1>21. k.op = "rotate" /\ step = "revoke" => next.revoking \cup next.clearing = {next.session}
  <2>1. CASE s \in k.revoking
    BY <1>4, <1>13, <1>16, <1>19, <2>1
  <2>2. CASE s \notin k.revoking
    BY <1>2, <1>4, <1>13, <1>16, <1>19, <2>2 DEF AuthCall
  <2> QED
    BY <2>1, <2>2
<1>22. next.step = "idle" \/ AuthCallTyped(next)'
  <2>1. next.step = "idle" \/ AuthStepTyped(next)'
    <3>1. CASE LogsIn(k)
      <4>1. step \in {"revoke", "create"} /\ LogsIn(next)
        BY <1>2, <1>13, <1>16, <1>19, <3>1 DEF LogsIn
      <4> QED
        BY <1>16, <1>19, <3>1, <4>1 DEF AuthStepTyped
    <3>2. CASE ~LogsIn(k)
      <4>1. step \in {"revoke", "idle"}
        BY <1>2, <1>13, <1>19, <3>2
      <4> QED
        BY <1>2, <1>16, <1>18, <1>19, <1>21, <3>2, <4>1 DEF AuthCallTyped, AuthStepTyped, LogsIn
    <3> QED
      BY <3>1, <3>2
  <2>2. worksOn(next) \subseteq worksOn(k)
    BY <1>13, <1>16 DEF worksOn
  <2> QED
    BY <1>13, <1>16, <1>18, <1>20, <2>1, <2>2 DEF AuthCallTyped
<1>23. AuthTyped'
  BY <1>11, <1>17, <1>22, TypedGo
<1>24. PICK new : new = IF next.step = "idle" THEN Rest ELSE next
  OBVIOUS
<1>25. acall'[c] = new /\ \A d \in ACalls : d # c => acall'[d] = acall[d]
  BY <1>17, <1>24, AuthCallGoes
<1>26. /\ new.revoking = k.revoking /\ new.clearing = C
       /\ new = Rest \/ (new.op = k.op /\ new.session = k.session /\ new.password = k.password)
       /\ new = Rest \/ LogsIn(k) \/ new.step = "revoke"
  BY <1>2, <1>13, <1>16, <1>19, <1>20, <1>24, RestCall
<1>27. Issues(k) => k.session \in {0, s}
  BY <1>4, <1>19 DEF Issues, LogsIn
<1>28. Turned(c, k, new, s)
  <2>1. \A r \in DOMAIN sessions : r # s =>
          (r \in new.revoking <=> r \in k.revoking) /\ (r \in new.clearing <=> r \in k.clearing)
    BY <1>13, <1>26
  <2>2. /\ Issues(new) => new.session \in {0, s}
        /\ LogsIn(new) => LogsIn(k) /\ new.op = k.op /\ new.password = k.password
        /\ setsPassword(k) => new = Rest \/ setsPassword(new)
        /\ Opening(new) => Opening(k)
    BY <1>2, <1>26, <1>27, RestCall DEF Issues, LogsIn, setsPassword, Opening
  <2>3. \A r \in DOMAIN sessions : SameOrigin(sessions'[r], sessions[r])
    BY <1>7, <1>9 DEF SameOrigin
  <2> QED
    BY <1>1, <1>2, <1>4, <1>7, <1>9, <1>10, <1>23, <1>25, <1>27, <2>1, <2>2, <2>3 DEF Turned
<1>29. /\ new = Rest \/ LogsIn(new) \/ (new.step = "revoke" /\ new.op = k.op)
       /\ LogsIn(new) => new.session = 0
  BY <1>19, <1>26, RestCall DEF LogsIn
<1> QED
  BY <1>1, <1>2, <1>4, <1>7, <1>9, <1>10, <1>28, <1>29

LEMMA Reuses ==
  ASSUME AuthTyped, NEW c \in ACalls, Reuse(c)
  PROVE  \E k, new, s :
           /\ Turned(c, k, new, s) /\ AuthCallTyped(k)
           /\ k.op = "rotate" /\ k.session = s /\ k.step = "reuse"
           /\ new.op = "rotate" /\ new.step = "revoke" /\ s \in new.revoking
           /\ sessions'[s] = sessions[s]
           /\ activeTokens(s)' = {}
<1>1. PICK k : k = acall[c] /\ AuthCallTyped(k)
  BY DEF AuthTyped
<1>2. k.step = "reuse" /\ k \in AuthCall /\ UNCHANGED <<sessions, account>>
  BY <1>1 DEF Reuse, At, AuthCallTyped
<1>3. k.op = "rotate" /\ k.session # 0 /\ k.revoking = {} /\ k.clearing = {}
  BY <1>1, <1>2, RestCall DEF AuthCallTyped, AuthStepTyped, LogsIn
<1>4. PICK s \in DOMAIN sessions : s = k.session
  BY <1>1, <1>3, SessionRows DEF AuthCallTyped, worksOn
<1>5. tokens' = [t \in DOMAIN tokens |->
                   IF tokens[t].session = s /\ tokens[t].status \in {"ACTIVE", "USED"}
                   THEN [tokens[t] EXCEPT !.status = "REVOKED"] ELSE tokens[t]]
  BY <1>1, <1>4 DEF Reuse
<1>6. ASSUME NEW t \in DOMAIN tokens
      PROVE  /\ tokens'[t] \in TokenRow /\ tokens'[t].session = tokens[t].session
             /\ tokens'[t].status = "ACTIVE" <=> tokens[t].status = "ACTIVE" /\ tokens[t].session # s
  <2>1. tokens[t] \in TokenRow
    BY SessionRows
  <2>2. PICK token : token = [tokens[t] EXCEPT !.status = "REVOKED"]
    OBVIOUS
  <2>3. token \in TokenRow /\ token.session = tokens[t].session /\ token.status = "REVOKED"
    BY <2>1, <2>2 DEF TokenRow
  <2>4. tokens'[t] = IF tokens[t].session = s /\ tokens[t].status \in {"ACTIVE", "USED"} THEN token ELSE tokens[t]
    BY <1>5, <2>2
  <2> QED
    BY <2>1, <2>3, <2>4
<1>7. DOMAIN tokens' = DOMAIN tokens /\ tokens' \in Seq(TokenRow)
  BY <1>5, <1>6, SessionRows
<1>8. \A r : activeTokens(r)' = IF r = s THEN {} ELSE activeTokens(r)
  BY <1>6, <1>7 DEF activeTokens
<1>9. Grows
  BY <1>2, <1>6, <1>7, OneGrows DEF AuthTyped
<1>10. PICK next : next = revokeThen(k, {s}, "idle")
  OBVIOUS
<1>11. {s} \subseteq Nat /\ {s} # {}
  BY SessionRows
<1>12. /\ next \in AuthCall /\ next.op = k.op /\ next.session = k.session /\ next.token = k.token
       /\ next.clearing = {} /\ next.step = "revoke" /\ next.then = "idle" /\ next.revoking = {s}
  BY <1>2, <1>3, <1>10, <1>11, RevokesThen
<1>13. AuthCallTyped(k)' /\ DOMAIN sessions' = DOMAIN sessions
  BY <1>1, <1>2, <1>9, StaysTyped
<1>14. AuthStepTyped(next)'
  BY <1>2, <1>3, <1>4, <1>12, <1>13, RestCall DEF AuthCallTyped, AuthStepTyped, LogsIn
<1>15. AuthCallTyped(next)'
  BY <1>4, <1>12, <1>13, <1>14 DEF AuthCallTyped, worksOn
<1>16. Go(c, next)
  BY <1>1, <1>4, <1>10 DEF Reuse
<1>17. AuthTyped'
  BY <1>9, <1>15, <1>16, TypedGo
<1>18. acall'[c] = next /\ \A d \in ACalls : d # c => acall'[d] = acall[d]
  BY <1>12, <1>16, AuthCallGoes
<1>19. ~LogsIn(next) /\ ~setsPassword(k) /\ ~Opening(next)
  BY <1>3, <1>12 DEF LogsIn, setsPassword, Opening
<1>20. Turned(c, k, next, s)
  BY <1>1, <1>2, <1>3, <1>4, <1>8, <1>12, <1>17, <1>18, <1>19 DEF Turned, SameOrigin
<1> QED
  BY <1>1, <1>2, <1>3, <1>4, <1>8, <1>12, <1>20

(* A session is opened: it has no token yet, and nobody else is at work on   *)
(* it.                                                                       *)
LEMMA Creates ==
  ASSUME AuthTyped, NEW c \in ACalls, CreateSession(c)
  PROVE  \E k, new, s :
           /\ k = acall[c] /\ AuthCallTyped(k) /\ LogsIn(k) /\ k.step = "create" /\ k.revoking = {}
           /\ new = acall'[c] /\ \A d \in ACalls : d # c => acall'[d] = acall[d]
           /\ AuthTyped' /\ s = Len(sessions') /\ s = Len(sessions) + 1 /\ s \notin DOMAIN sessions
           /\ account' = account /\ DOMAIN sessions' = DOMAIN sessions \cup {s}
           /\ \A r \in DOMAIN sessions : sessions'[r] = sessions[r]
           /\ \A r : activeTokens(r)' = activeTokens(r)
           /\ activeTokens(s) = {} /\ sessions'[s].status = "ACTIVE" /\ ~sessions'[s].expired
           /\ sessions'[s].password = k.password /\ sessions'[s].by = k.op
           /\ sessions'[s].since = account.password /\ new.op = k.op
           /\ LogsIn(new) /\ new.step = "token" /\ new.session = s /\ new.password = k.password
           /\ new.revoking = {} /\ new.clearing = {} /\ k.clearing = {} /\ k.session = 0
<1>1. PICK k : k = acall[c] /\ AuthCallTyped(k)
  BY DEF AuthTyped
<1>2. k.step = "create" /\ k \in AuthCall /\ UNCHANGED <<tokens, account>>
  BY <1>1 DEF CreateSession, At, AuthCallTyped
<1>3. LogsIn(k) /\ k.session = 0 /\ k.revoking = {} /\ k.clearing = {}
  BY <1>1, <1>2, RestCall DEF AuthCallTyped, AuthStepTyped, LogsIn
<1>4. PICK newRow : newRow = [status |-> "ACTIVE", cached |-> FALSE, expired |-> FALSE, password |-> k.password,
                              by |-> k.op, since |-> account.password]
  OBVIOUS
<1>5. /\ newRow \in SessionRow /\ newRow.status = "ACTIVE" /\ ~newRow.expired
      /\ newRow.password = k.password /\ newRow.by = k.op /\ newRow.since = account.password
  <2>1. account.password \in Nat
    BY DEF AuthTyped, AccountRow
  <2>2. k.op \in {"login", "verify"} /\ k.password \in Nat
    BY <1>2, <1>3 DEF LogsIn, AuthCall
  <2> QED
    BY <1>4, <2>1, <2>2 DEF SessionRow
<1>6. sessions' = Append(sessions, newRow)
  BY <1>1, <1>4 DEF CreateSession
<1>7. PICK s \in Nat : s = Len(sessions) + 1
  BY SessionRows
<1>8. /\ sessions' \in Seq(SessionRow) /\ Len(sessions') = s /\ sessions'[s] = newRow
      /\ DOMAIN sessions' = DOMAIN sessions \cup {s} /\ s \notin DOMAIN sessions
      /\ Len(sessions) <= Len(sessions')
      /\ \A r \in DOMAIN sessions : sessions'[r] = sessions[r]
  BY <1>5, <1>6, <1>7 DEF AuthTyped
<1>9. \A r : activeTokens(r)' = activeTokens(r)
  BY <1>2 DEF activeTokens
<1>10. activeTokens(s) = {}
  BY <1>8 DEF activeTokens, AuthTyped
<1>11. Grows
  BY <1>2, <1>8 DEF Grows, AuthTyped
<1>12. "token" \in AuthSteps
  BY DEF AuthSteps
<1>13. PICK next : next = [k EXCEPT !.step = "token", !.session = s]
  OBVIOUS
<1>14. /\ next \in AuthCall /\ next.step = "token" /\ next.op = k.op /\ next.session = s
       /\ next.password = k.password /\ next.revoking = {} /\ next.clearing = {}
  BY <1>2, <1>3, <1>12, <1>13 DEF AuthCall
<1>15. Go(c, next)
  BY <1>1, <1>8, <1>13 DEF CreateSession
<1>16. LogsIn(next) /\ s # 0
  BY <1>3, <1>7, <1>14, SessionRows DEF LogsIn
<1>17. AuthCallTyped(next)'
  <2>1. AuthStepTyped(next)'
    BY <1>14, <1>16 DEF AuthStepTyped
  <2>2. worksOn(next) \subseteq 0 .. Len(sessions')
    BY <1>7, <1>8, <1>14 DEF worksOn
  <2> QED
    BY <1>14, <2>1, <2>2 DEF AuthCallTyped
<1>18. AuthTyped'
  BY <1>11, <1>15, <1>17, TypedGo
<1>19. acall'[c] = next /\ \A d \in ACalls : d # c => acall'[d] = acall[d]
  BY <1>14, <1>15, AuthCallGoes
<1> QED
  BY <1>1, <1>2, <1>3, <1>5, <1>7, <1>8, <1>9, <1>10, <1>14, <1>16, <1>18, <1>19

(* Administrators and time; the links.                                       *)
LEMMA Outside ==
  ASSUME AuthTyped, RequestReset \/ Suspend \/ Unlock \/ LockExpires \/ SessionExpires \/ ChallengeExpires
  PROVE  /\ AuthTyped' /\ acall' = acall /\ account'.password = account.password /\ tokens' = tokens
         /\ Len(sessions') = Len(sessions) /\ DOMAIN sessions' = DOMAIN sessions
         /\ \A s \in DOMAIN sessions :
              /\ sessions'[s].status = sessions[s].status /\ SameOrigin(sessions'[s], sessions[s])
              /\ \/ sessions'[s].expired = sessions[s].expired /\ sessions'[s].cached = sessions[s].cached
                 \/ sessions'[s].expired /\ ~sessions'[s].cached
<1>0. SessionExpires => acall' = acall /\ tokens' = tokens /\ account' = account
  BY Zenon DEF SessionExpires
<1>1. acall' = acall /\ tokens' = tokens
  BY <1>0 DEF RequestReset, Suspend, Unlock, LockExpires, ChallengeExpires, rows
<1>2. account' \in AccountRow /\ account'.password = account.password
  <2>1. account \in AccountRow
    BY DEF AuthTyped
  <2>2. CASE RequestReset \/ SessionExpires \/ ChallengeExpires
    BY <1>0, <2>1, <2>2 DEF RequestReset, ChallengeExpires
  <2>3. PICK off \in BOOLEAN, none \in Nat : off = FALSE /\ none = 0
    OBVIOUS
  <2>4. CASE Suspend
    BY <2>1, <2>4 DEF Suspend, AccountRow
  <2>5. CASE Unlock
    <3>1. account' = [account EXCEPT !.status = "ACTIVE", !.failed = none, !.locked = off]
      BY <2>3, <2>5 DEF Unlock
    <3> QED
      BY <2>1, <3>1 DEF AccountRow
  <2>6. CASE LockExpires
    <3>1. account' = [account EXCEPT !.locked = off]
      BY <2>3, <2>6 DEF LockExpires
    <3> QED
      BY <2>1, <3>1 DEF AccountRow
  <2> QED
    BY <2>2, <2>4, <2>5, <2>6
<1>3. CASE ~SessionExpires
  <2>1. sessions' = sessions
    BY <1>3 DEF RequestReset, Suspend, Unlock, LockExpires, ChallengeExpires, rows
  <2>2. AuthTyped'
    BY <1>1, <1>2, <2>1 DEF AuthTyped, AuthCallTyped, AuthStepTyped
  <2> QED
    BY <1>1, <1>2, <2>1, <2>2 DEF SameOrigin
<1>4. CASE SessionExpires
  <2>1. PICK s \in DOMAIN sessions : sessions' = [sessions EXCEPT ![s].expired = TRUE, ![s].cached = FALSE]
    BY <1>4, Zenon DEF SessionExpires
  <2>2. PICK yes \in BOOLEAN, no \in BOOLEAN : yes = TRUE /\ no = FALSE
    OBVIOUS
  <2>3. PICK newRow : newRow = [sessions[s] EXCEPT !.expired = yes, !.cached = no]
    OBVIOUS
  <2>4. /\ newRow \in SessionRow /\ newRow.status = sessions[s].status /\ SameOrigin(newRow, sessions[s])
        /\ newRow.expired = yes /\ newRow.cached = no
    BY <2>3, SessionRows DEF SessionRow, SameOrigin
  <2>5. sessions' = [sessions EXCEPT ![s] = newRow]
    BY <2>1, <2>2, <2>3, SessionRows
  <2>6. /\ sessions' \in Seq(SessionRow) /\ Len(sessions') = Len(sessions) /\ sessions'[s] = newRow
        /\ \A r \in DOMAIN sessions : r # s => sessions'[r] = sessions[r]
    BY <2>4, <2>5, OneChanged
  <2>7. account' = account
    BY <1>0, <1>4
  <2>8. Grows /\ DOMAIN sessions' = DOMAIN sessions
    BY <1>1, <2>2, <2>4, <2>6, <2>7, OneGrows DEF AuthTyped
  <2>9. \A c \in ACalls : AuthCallTyped(acall[c])'
    <3> SUFFICES ASSUME NEW c \in ACalls PROVE AuthCallTyped(acall[c])'
      OBVIOUS
    <3>1. PICK k : k = acall[c] /\ AuthCallTyped(k)
      BY DEF AuthTyped
    <3>2. AuthCallTyped(k)'
      BY <2>8, <3>1, StaysTyped
    <3> QED
      BY <1>1, <3>1, <3>2
  <2>10. AuthTyped'
    BY <1>1, <2>8, <2>9 DEF AuthTyped, Grows
  <2> QED
    BY <1>1, <1>2, <2>2, <2>4, <2>6, <2>8, <2>10 DEF SameOrigin
<1> QED
  BY <1>3, <1>4

LEMMA RacesKnown ==
  ASSUME AuthTyped, AuthTyped', Races
  PROVE  /\ Unraced'
         /\ \A s \in DOMAIN sessions : s \notin raced' => s \notin raced
         /\ \A c \in ACalls : acall'[c].step # "idle" /\ c \notin raced' => c \notin raced
         /\ \A s \in DOMAIN sessions' \ DOMAIN sessions : Len(sessions') = s /\ s \notin raced' =>
              \A c \in raced \cap ACalls : acall'[c].session # s
<1> DEFINE atWork == {c \in ACalls : acall'[c].step # "idle"}
           bothOn(s, c, d) == s \in worksOn(acall'[c]) \cap worksOn(acall'[d])
           resting == {c \in ACalls : acall'[c].step = "idle"}
           raceNow == {s \in 1 .. Len(sessions') : \E c, d \in atWork : c # d /\ Issues(acall'[c]) /\ bothOn(s, c, d)}
           reset == {c \in atWork : Issues(acall'[c]) /\ \E d \in atWork : setsPassword(acall'[d])}
           born == IF Len(sessions') > Len(sessions)
                   THEN {s \in {Len(sessions')} : \E c \in raced \cap ACalls : acall'[c].session = s}
                   ELSE {}
<1>1. raced' = (raced \ resting) \cup raceNow \cup reset \cup born
  BY DEF Races, Issues
<1>2. \A c \in ACalls : acall'[c].step = "idle" => acall'[c] = Rest
  BY DEF AuthTyped, AuthCallTyped, AuthStepTyped
<1>3. DOMAIN sessions = 1 .. Len(sessions) /\ DOMAIN sessions' = 1 .. Len(sessions')
      /\ Len(sessions) \in Nat /\ Len(sessions') \in Nat
  BY DEF AuthTyped
<1>4. ASSUME NEW s \in DOMAIN sessions' \ raced' PROVE NobodyElseAt(s)'
  <2> SUFFICES ASSUME NEW c \in ACalls, NEW d \in ACalls, Issues(acall'[c]), c # d,
                      s \in worksOn(acall'[c]) \cap worksOn(acall'[d])
               PROVE  FALSE
    BY DEF NobodyElseAt
  <2>1. s # 0
    BY <1>3
  <2>2. c \in atWork /\ d \in atWork
    BY <1>2, <2>1, RestCall
  <2>3. s \in raceNow
    BY <1>3, <2>2
  <2> QED
    BY <1>1, <2>3
<1>5. ASSUME NEW c \in ACalls \ raced', Issues(acall'[c]), NEW d \in ACalls, setsPassword(acall'[d])
      PROVE  FALSE
  <2>1. c \in atWork /\ d \in atWork
    BY <1>2, <1>5, RestCall
  <2>2. c \in reset
    BY <1>5, <2>1
  <2> QED
    BY <1>1, <1>5, <2>2
<1>6. Unraced'
  BY <1>4, <1>5 DEF Unraced
<1>7. \A s \in DOMAIN sessions : s \notin resting
  BY <1>3, AuthAssumption
<1>8. \A s \in DOMAIN sessions' \ DOMAIN sessions : Len(sessions') = s => Len(sessions') > Len(sessions)
  BY <1>3
<1> QED
  BY <1>1, <1>6, <1>7, <1>8

(* A session that a step does not touch keeps what it has, if the call that  *)
(* takes the step holds what it needs.                                       *)
LEMMA SessionKept ==
  ASSUME AuthTyped, NEW c \in ACalls, NEW k, k = acall[c], NEW new, new = acall'[c],
         \A d \in ACalls : d # c => acall'[d] = acall[d],
         NEW r \in DOMAIN sessions, OverWhenRevoked(r), OneTokenWhenActive(r),
         sessions'[r].status = sessions[r].status, sessions'[r].cached = sessions[r].cached,
         sessions'[r].expired = sessions[r].expired,
         NEW T, T = activeTokens(r), activeTokens(r)' = T,
         r \in k.clearing => r \in new.clearing,
         Issues(new) /\ new.session = r =>
           /\ sessions[r].status = "REVOKED" => new.step \in {"reuse", "expire", "revoke"}
           /\ sessions[r].status = "ACTIVE" /\ ~sessions[r].expired => TokensAt(new, T),
         sessions[r].status = "ACTIVE" /\ ~sessions[r].expired =>
           \/ r \in new.revoking
           \/ Issues(new) /\ new.session = r
           \/ r \notin k.revoking /\ (Issues(k) => k.session # r)
  PROVE  OverWhenRevoked(r)' /\ OneTokenWhenActive(r)'
<1>1. OverWhenRevoked(r)'
  <2> SUFFICES ASSUME sessions[r].status = "REVOKED"
               PROVE  /\ T = {}
                      /\ sessions[r].cached => \E d \in ACalls : r \in acall'[d].clearing
                      /\ \A d \in ACalls : Issues(acall'[d]) /\ acall'[d].session = r =>
                           acall'[d].step \in {"reuse", "expire", "revoke"}
    BY DEF OverWhenRevoked
  <2>1. /\ T = {}
        /\ sessions[r].cached => \E d \in ACalls : r \in acall[d].clearing
        /\ \A d \in ACalls : Issues(acall[d]) /\ acall[d].session = r =>
             acall[d].step \in {"reuse", "expire", "revoke"}
    BY DEF OverWhenRevoked
  <2>2. \A d \in ACalls : r \in acall[d].clearing => r \in acall'[d].clearing
    OBVIOUS
  <2> QED
    BY <2>1, <2>2
<1>2. OneTokenWhenActive(r)'
  <2> SUFFICES ASSUME sessions[r].status = "ACTIVE", ~sessions[r].expired
               PROVE  /\ \A d \in ACalls : Issues(acall'[d]) /\ acall'[d].session = r => TokensAt(acall'[d], T)
                      /\ LeftAlone(r)' => \E n \in T : T = {n}
    BY DEF OneTokenWhenActive, TokensAt
  <2>1. /\ \A d \in ACalls : Issues(acall[d]) /\ acall[d].session = r => TokensAt(acall[d], T)
        /\ LeftAlone(r) => \E n \in T : T = {n}
    BY DEF OneTokenWhenActive
  <2>2. LeftAlone(r)' => LeftAlone(r)
    <3> SUFFICES ASSUME LeftAlone(r)', NEW d \in ACalls
                 PROVE  r \notin acall[d].revoking /\ (Issues(acall[d]) => acall[d].session # r)
      BY DEF LeftAlone
    <3>1. r \notin acall'[d].revoking /\ (Issues(acall'[d]) => acall'[d].session # r)
      BY DEF LeftAlone
    <3>2. CASE d = c
      BY <3>1, <3>2
    <3>3. CASE d # c
      BY <3>1, <3>3
    <3> QED
      BY <3>2, <3>3
  <2>3. \A d \in ACalls : Issues(acall'[d]) /\ acall'[d].session = r => TokensAt(acall'[d], T)
    <3> SUFFICES ASSUME NEW d \in ACalls, Issues(acall'[d]), acall'[d].session = r PROVE TokensAt(acall'[d], T)
      OBVIOUS
    <3>1. CASE d = c
      BY <3>1
    <3>2. CASE d # c
      BY <2>1, <3>2
    <3> QED
      BY <3>1, <3>2
  <2> QED
    BY <2>1, <2>2, <2>3
<1> QED
  BY <1>1, <1>2

(* The steps by kind.                                                        *)
LEMMA StepKinds ==
  ASSUME AuthTyped, LinksTyped, AuthStep
  PROVE  \/ \E c \in ACalls : \E k, next : Plain(c, k, next)
         \/ \E c \in ACalls :
              \/ RevokeOne(c) \/ ClearOne(c) \/ Cache(c) \/ Reuse(c) \/ CreateSession(c)
              \/ FirstToken(c) \/ Replace(c) \/ MarkUsed(c) \/ TokenExpired(c)
         \/ RequestReset \/ Suspend \/ Unlock \/ LockExpires \/ SessionExpires \/ ChallengeExpires
<1>1. ASSUME NEW c \in ACalls,
             \/ Revoke(c) \/ RevokeAll(c) \/ Others(c) \/ Login(c) \/ WrongPassword(c) \/ Lock(c)
             \/ RightPassword(c) \/ Challenge(c) \/ Verify(c) \/ RightCode(c) \/ Limit(c) \/ Rotate(c)
             \/ ReadUser(c) \/ Touch(c) \/ ChangePassword(c) \/ WritePassword(c) \/ Reset(c)
             \/ LinkLapsed(c) \/ UseLink(c)
      PROVE  \E k, next : Plain(c, k, next)
  BY <1>1, RevokeBegins, RevokeAllBegins, OthersTurns, LoginBegins, LoginTurns, LimitTurns, RotateBegins,
     ReadUserTurns, TouchTurns, PasswordBegins, PasswordTurns, LinkTurns
<1> QED
  BY <1>1 DEF AuthStep

LEMMA AuthTypedStep ==
  ASSUME AuthTyped, LinksTyped, AuthStep
  PROVE  AuthTyped'
<1>1. CASE \E c \in ACalls : \E k, next : Plain(c, k, next)
  BY <1>1, PlainTyped
<1>2. ASSUME NEW c \in ACalls,
             \/ RevokeOne(c) \/ ClearOne(c) \/ Cache(c) \/ Reuse(c)
             \/ FirstToken(c) \/ Replace(c) \/ MarkUsed(c) \/ TokenExpired(c)
      PROVE  AuthTyped'
  <2>1. \E k, new, s : Turned(c, k, new, s)
    BY <1>2, Revokes, Clears, Caches, Reuses, Issuing, Marking
  <2> QED
    BY <2>1 DEF Turned
<1>3. ASSUME NEW c \in ACalls, CreateSession(c) PROVE AuthTyped'
  BY <1>3, Creates
<1>4. CASE RequestReset \/ Suspend \/ Unlock \/ LockExpires \/ SessionExpires \/ ChallengeExpires
  BY <1>4, Outside
<1> QED
  BY <1>1, <1>2, <1>3, <1>4, StepKinds

(* A challenge is issued to a login, and closed by its answer or by time.    *)
LEMMA ChallengesStep ==
  ASSUME AuthTyped, LinksTyped,
         ChallengeExpires \/ \E c \in ACalls : Challenge(c) \/ RightCode(c)
  PROVE  challenges' \in Seq(ChallengeRow) /\ links' = links
<1>1. ASSUME NEW n, closeChallenge(n) PROVE challenges' \in Seq(ChallengeRow)
  <2>1. CASE n \in DOMAIN challenges
    <3>1. challenges[n] \in ChallengeRow
      BY <2>1 DEF LinksTyped
    <3>2. PICK closed : closed = [challenges[n] EXCEPT !.open = FALSE]
      OBVIOUS
    <3>3. closed \in ChallengeRow
      BY <3>1, <3>2 DEF ChallengeRow
    <3>4. challenges' = [challenges EXCEPT ![n] = closed]
      BY <1>1, <3>2 DEF closeChallenge
    <3> QED
      BY <2>1, <3>3, <3>4 DEF LinksTyped
  <2>2. CASE n \notin DOMAIN challenges
    <3>1. challenges' = [m \in DOMAIN challenges |-> challenges[m]]
      BY <1>1, <2>2 DEF closeChallenge
    <3> QED
      BY <3>1 DEF LinksTyped
  <2> QED
    BY <2>1, <2>2
<1>2. CASE ChallengeExpires
  <2>1. PICK n : closeChallenge(n)
    BY <1>2 DEF ChallengeExpires
  <2> QED
    BY <1>1, <1>2, <2>1 DEF ChallengeExpires
<1>3. ASSUME NEW c \in ACalls, RightCode(c) PROVE challenges' \in Seq(ChallengeRow) /\ links' = links
  <2>1. PICK n : n = acall[c].token
    OBVIOUS
  <2>2. closeChallenge(n) /\ links' = links
    BY <1>3, <2>1 DEF RightCode
  <2> QED
    BY <1>1, <2>2
<1>4. ASSUME NEW c \in ACalls, Challenge(c) PROVE challenges' \in Seq(ChallengeRow) /\ links' = links
  <2>1. acall[c].password \in Nat
    BY DEF AuthTyped, AuthCallTyped, AuthCall
  <2>2. PICK issued : issued = [password |-> acall[c].password, open |-> TRUE]
    OBVIOUS
  <2>3. issued \in ChallengeRow
    BY <2>1, <2>2 DEF ChallengeRow
  <2>4. challenges' = Append(challenges, issued) /\ links' = links
    BY <1>4, <2>2 DEF Challenge
  <2> QED
    BY <2>3, <2>4 DEF LinksTyped
<1> QED
  BY <1>2, <1>3, <1>4

LEMMA LinksStep == ASSUME AuthTyped, LinksTyped, AuthStep PROVE LinksTyped'
<1>1. CASE RequestReset
  <2>1. links = <<>> /\ links' = Append([l \in DOMAIN links |-> IF links[l] = "ACTIVE" THEN "REVOKED" ELSE links[l]],
                                        "ACTIVE")
    BY <1>1 DEF RequestReset
  <2>2. PICK old : old = [l \in DOMAIN links |-> IF links[l] = "ACTIVE" THEN "REVOKED" ELSE links[l]]
    OBVIOUS
  <2>3. DOMAIN old = {}
    BY <2>1, <2>2
  <2>4. old = <<>>
    BY <2>2, <2>3
  <2>5. links' = Append(<<>>, "ACTIVE")
    BY <2>1, <2>2, <2>4
  <2> QED
    BY <1>1, <2>5 DEF LinksTyped, RequestReset
<1>2. ASSUME NEW c \in ACalls, LinkLapsed(c) \/ UseLink(c) PROVE LinksTyped'
  BY <1>2 DEF LinkLapsed, UseLink, LinksTyped
<1>3. CASE SessionExpires
  <2>1. links' = links /\ challenges' = challenges
    BY <1>3, Zenon DEF SessionExpires
  <2> QED
    BY <2>1 DEF LinksTyped
<1>4. CASE Suspend \/ Unlock \/ LockExpires
  BY <1>4 DEF Suspend, Unlock, LockExpires, LinksTyped
<1>5. ASSUME NEW c \in ACalls, RevokeOne(c) \/ ClearOne(c) PROVE UNCHANGED <<links, challenges>>
  BY <1>5, Zenon DEF RevokeOne, ClearOne
<1>6. ASSUME NEW c \in ACalls,
             \/ Revoke(c) \/ RevokeAll(c) \/ Others(c) \/ Login(c) \/ WrongPassword(c) \/ Lock(c)
             \/ RightPassword(c) \/ Verify(c) \/ Limit(c)
      PROVE  UNCHANGED <<links, challenges>>
  BY <1>6 DEF Revoke, RevokeAll, Others, Login, WrongPassword, Lock, RightPassword, Verify, Limit
<1>7. ASSUME NEW c \in ACalls,
             \/ CreateSession(c) \/ FirstToken(c) \/ Cache(c) \/ Reuse(c) \/ TokenExpired(c)
             \/ ReadUser(c) \/ Replace(c) \/ MarkUsed(c) \/ Touch(c) \/ WritePassword(c)
      PROVE  UNCHANGED <<links, challenges>>
  BY <1>7 DEF CreateSession, FirstToken, Cache, Reuse, TokenExpired, ReadUser, Replace, MarkUsed, Touch,
     WritePassword
<1>9. ASSUME NEW c \in ACalls, Rotate(c) \/ ChangePassword(c) \/ Reset(c) PROVE UNCHANGED <<links, challenges>>
  BY <1>9, Zenon DEF Rotate, ChangePassword, Reset
<1>8. UNCHANGED <<links, challenges>> => LinksTyped'
  BY DEF LinksTyped
<1>10. CASE ChallengeExpires \/ \E c \in ACalls : Challenge(c) \/ RightCode(c)
  BY <1>10, ChallengesStep DEF LinksTyped
<1> QED
  BY <1>1, <1>2, <1>3, <1>4, <1>5, <1>6, <1>7, <1>8, <1>9, <1>10 DEF AuthStep

(* A step that changes one session leaves the others as they were.           *)
LEMMA TurnedElsewhere ==
  ASSUME AuthTyped, NEW c \in ACalls, NEW k, NEW new, NEW s, Turned(c, k, new, s),
         NEW r \in DOMAIN sessions, r # s, OverWhenRevoked(r), OneTokenWhenActive(r)
  PROVE  OverWhenRevoked(r)' /\ OneTokenWhenActive(r)'
<1>1. r # 0
  BY SessionRows
<1>2. sessions'[r] = sessions[r] /\ activeTokens(r)' = activeTokens(r)
  BY DEF Turned
<1>3. (r \in new.revoking <=> r \in k.revoking) /\ (r \in new.clearing <=> r \in k.clearing)
  BY DEF Turned
<1>4. (Issues(k) => k.session # r) /\ (Issues(new) => new.session # r)
  BY <1>1 DEF Turned
<1>5. k = acall[c] /\ new = acall'[c] /\ \A d \in ACalls : d # c => acall'[d] = acall[d]
  BY DEF Turned
<1> QED
  BY <1>2, <1>3, <1>4, <1>5, SessionKept

LEMMA TurnedInv ==
  ASSUME AuthInv, Races, NEW c \in ACalls, NEW k, NEW new, NEW s, Turned(c, k, new, s),
         NobodyElseAt(s)' /\ OverWhenRevoked(s) /\ OneTokenWhenActive(s)
           => OverWhenRevoked(s)' /\ OneTokenWhenActive(s)'
  PROVE  AuthInv'
<1>1. AuthTyped /\ AuthTyped' /\ DOMAIN sessions' = DOMAIN sessions
  <2>1. AuthTyped /\ AuthTyped' /\ Len(sessions') = Len(sessions)
    BY DEF AuthInv, Turned
  <2> QED
    BY <2>1 DEF AuthTyped
<1>2. Unraced' /\ \A r \in DOMAIN sessions : r \notin raced' => r \notin raced
  BY <1>1, RacesKnown
<1>3. ASSUME NEW r \in DOMAIN sessions \ raced' PROVE OverWhenRevoked(r)' /\ OneTokenWhenActive(r)'
  <2>1. OverWhenRevoked(r) /\ OneTokenWhenActive(r)
    BY <1>2, <1>3 DEF AuthInv
  <2>2. NobodyElseAt(r)'
    BY <1>1, <1>2, <1>3 DEF Unraced
  <2>3. CASE r # s
    BY <1>1, <2>1, <2>3, TurnedElsewhere
  <2>4. CASE r = s
    BY <2>1, <2>2, <2>4
  <2> QED
    BY <2>3, <2>4
<1> QED
  BY <1>1, <1>2, <1>3 DEF AuthInv

LEMMA RevokesInv == ASSUME AuthInv, Races, NEW c \in ACalls, RevokeOne(c) PROVE AuthInv'
<1>1. AuthTyped
  BY DEF AuthInv
<1>2. PICK k, new, s :
        /\ Turned(c, k, new, s)
        /\ sessions'[s].status = "REVOKED" /\ activeTokens(s)' = {} /\ s \in new.clearing /\ new.step = "revoke"
  BY <1>1, Revokes
<1>3. new = acall'[c] /\ s \in DOMAIN sessions /\ s \in worksOn(new)
  BY <1>2 DEF Turned, worksOn
<1>4. ASSUME NobodyElseAt(s)' PROVE OverWhenRevoked(s)' /\ OneTokenWhenActive(s)'
  <2>1. ASSUME NEW d \in ACalls, Issues(acall'[d]), acall'[d].session = s PROVE acall'[d].step = "revoke"
    <3>1. s \in worksOn(acall'[d])
      BY <2>1 DEF worksOn
    <3>2. d = c
      BY <1>3, <1>4, <2>1, <3>1 DEF NobodyElseAt
    <3> QED
      BY <1>2, <1>3, <3>2
  <2>2. OverWhenRevoked(s)'
    BY <1>2, <1>3, <2>1 DEF OverWhenRevoked
  <2>3. OneTokenWhenActive(s)'
    BY <1>2 DEF OneTokenWhenActive
  <2> QED
    BY <2>2, <2>3
<1> QED
  BY <1>2, <1>4, TurnedInv

LEMMA ClearsInv == ASSUME AuthInv, Races, NEW c \in ACalls, ClearOne(c) PROVE AuthInv'
<1>1. AuthTyped
  BY DEF AuthInv
<1>2. PICK k, new, s :
        /\ Turned(c, k, new, s) /\ AuthCallTyped(k) /\ s \in k.clearing
        /\ sessions'[s].status = "REVOKED" /\ sessions'[s].cached = FALSE
        /\ activeTokens(s)' = activeTokens(s)
        /\ new = Rest \/ LogsIn(new) \/ (new.step = "revoke" /\ new.op = k.op)
        /\ LogsIn(new) => new.session = 0
  BY <1>1, Clears
<1>3. /\ new = acall'[c] /\ s \in DOMAIN sessions /\ sessions[s].status = "REVOKED"
      /\ \A d \in ACalls : d # c => acall'[d] = acall[d]
  BY <1>2 DEF Turned, AuthCallTyped
<1>4. s # 0
  BY <1>1, <1>3, SessionRows
<1>5. ASSUME OverWhenRevoked(s) PROVE OverWhenRevoked(s)' /\ OneTokenWhenActive(s)'
  <2>1. ASSUME NEW d \in ACalls, Issues(acall'[d]), acall'[d].session = s
        PROVE  acall'[d].step \in {"reuse", "expire", "revoke"}
    <3>1. CASE d = c
      BY <1>2, <1>3, <1>4, <2>1, <3>1, RestCall
    <3>2. CASE d # c
      BY <1>3, <1>5, <2>1, <3>2 DEF OverWhenRevoked
    <3> QED
      BY <3>1, <3>2
  <2>2. OverWhenRevoked(s)'
    BY <1>2, <1>3, <1>5, <2>1 DEF OverWhenRevoked
  <2>3. OneTokenWhenActive(s)'
    BY <1>2 DEF OneTokenWhenActive
  <2> QED
    BY <2>2, <2>3
<1> QED
  BY <1>2, <1>5, TurnedInv

LEMMA CachesInv == ASSUME AuthInv, Races, NEW c \in ACalls, Cache(c) PROVE AuthInv'
<1>1. AuthTyped
  BY DEF AuthInv
<1>2. PICK k, new, s :
        /\ Turned(c, k, new, s) /\ k.step = "cache" /\ Issues(k) /\ k.session = s
        /\ sessions'[s].status = sessions[s].status /\ sessions'[s].expired = sessions[s].expired
        /\ activeTokens(s)' = activeTokens(s) /\ new = Rest
  BY <1>1, Caches
<1>3. /\ k = acall[c] /\ new = acall'[c] /\ s \in DOMAIN sessions
      /\ \A d \in ACalls : d # c => acall'[d] = acall[d]
  BY <1>2 DEF Turned
<1>4. ASSUME OverWhenRevoked(s), OneTokenWhenActive(s) PROVE OverWhenRevoked(s)' /\ OneTokenWhenActive(s)'
  <2>1. sessions[s].status # "REVOKED"
    BY <1>2, <1>3, <1>4 DEF OverWhenRevoked
  <2>2. OverWhenRevoked(s)'
    BY <1>2, <2>1 DEF OverWhenRevoked
  <2>3. PICK T : T = activeTokens(s)
    OBVIOUS
  <2>4. ASSUME sessions[s].status = "ACTIVE", ~sessions[s].expired
        PROVE  /\ \A d \in ACalls : Issues(acall[d]) /\ acall[d].session = s => TokensAt(acall[d], T)
               /\ \E n \in T : T = {n}
    BY <1>2, <1>3, <1>4, <2>3, <2>4 DEF OneTokenWhenActive, TokensAt
  <2>5. ASSUME NEW d \in ACalls, Issues(acall'[d]) PROVE acall'[d] = acall[d]
    BY <1>2, <1>3, <2>5, RestCall
  <2>6. OneTokenWhenActive(s)'
    <3> SUFFICES ASSUME sessions[s].status = "ACTIVE", ~sessions[s].expired
                 PROVE  /\ \A d \in ACalls : Issues(acall'[d]) /\ acall'[d].session = s => TokensAt(acall'[d], T)
                        /\ \E n \in T : T = {n}
      BY <1>2, <2>3 DEF OneTokenWhenActive, TokensAt
    <3> QED
      BY <2>4, <2>5
  <2> QED
    BY <2>2, <2>6
<1> QED
  BY <1>2, <1>4, TurnedInv

LEMMA ReusesInv == ASSUME AuthInv, Races, NEW c \in ACalls, Reuse(c) PROVE AuthInv'
<1>1. AuthTyped
  BY DEF AuthInv
<1>2. PICK k, new, s :
        /\ Turned(c, k, new, s) /\ AuthCallTyped(k)
        /\ k.op = "rotate" /\ k.session = s /\ k.step = "reuse"
        /\ new.op = "rotate" /\ new.step = "revoke" /\ s \in new.revoking
        /\ sessions'[s] = sessions[s]
        /\ activeTokens(s)' = {}
  BY <1>1, Reuses
<1>3. /\ k = acall[c] /\ new = acall'[c] /\ s \in DOMAIN sessions /\ k.clearing = {}
      /\ \A d \in ACalls : d # c => acall'[d] = acall[d]
  BY <1>2 DEF Turned, AuthCallTyped
<1>4. s \in worksOn(new)
  BY <1>2 DEF worksOn
<1>5. ASSUME NobodyElseAt(s)', OverWhenRevoked(s) PROVE OverWhenRevoked(s)' /\ OneTokenWhenActive(s)'
  <2>1. ASSUME NEW d \in ACalls, Issues(acall'[d]), acall'[d].session = s PROVE acall'[d].step = "revoke"
    <3>1. s \in worksOn(acall'[d])
      BY <2>1 DEF worksOn
    <3>2. d = c
      BY <1>3, <1>4, <1>5, <2>1, <3>1 DEF NobodyElseAt
    <3> QED
      BY <1>2, <1>3, <3>2
  <2>2. sessions[s].status = "REVOKED" /\ sessions[s].cached => \E d \in ACalls : s \in acall'[d].clearing
    <3> SUFFICES ASSUME sessions[s].status = "REVOKED", sessions[s].cached
                 PROVE  \E d \in ACalls : s \in acall'[d].clearing
      OBVIOUS
    <3>1. PICK d \in ACalls : s \in acall[d].clearing
      BY <1>5 DEF OverWhenRevoked
    <3> QED
      BY <1>3, <3>1
  <2>3. OverWhenRevoked(s)'
    BY <1>2, <2>1, <2>2 DEF OverWhenRevoked
  <2>4. ~LeftAlone(s)'
    BY <1>2, <1>3 DEF LeftAlone
  <2>5. OneTokenWhenActive(s)'
    BY <2>1, <2>4 DEF OneTokenWhenActive, TokensAt
  <2> QED
    BY <2>3, <2>5
<1> QED
  BY <1>2, <1>5, TurnedInv

LEMMA IssuingInv == ASSUME AuthInv, Races, NEW c \in ACalls, FirstToken(c) \/ Replace(c) PROVE AuthInv'
<1>1. AuthTyped
  BY DEF AuthInv
<1>2. PICK k, new, s, n :
        /\ Turned(c, k, new, s)
        /\ Issues(k) /\ k.session = s /\ Issues(new) /\ new.session = s /\ new.token = k.token
        /\ \/ k.step = "token" /\ new.step = "cache"
           \/ k.step = "replace" /\ new.step = "used" /\ k.token \in DOMAIN tokens
        /\ sessions'[s] = sessions[s]
        /\ n \notin DOMAIN tokens /\ activeTokens(s)' = activeTokens(s) \cup {n}
  BY <1>1, Issuing
<1>3. k = acall[c] /\ new = acall'[c] /\ s \in DOMAIN sessions /\ s \in worksOn(new)
  BY <1>2 DEF Turned, worksOn
<1>4. ASSUME NobodyElseAt(s)', OverWhenRevoked(s), OneTokenWhenActive(s)
      PROVE  OverWhenRevoked(s)' /\ OneTokenWhenActive(s)'
  <2>1. OverWhenRevoked(s)'
    BY <1>2, <1>3, <1>4 DEF OverWhenRevoked
  <2>2. PICK T : T = activeTokens(s)
    OBVIOUS
  <2>3. sessions[s].status = "ACTIVE" /\ ~sessions[s].expired => TokensAt(k, T)
    BY <1>2, <1>3, <1>4, <2>2 DEF OneTokenWhenActive
  <2>4. ASSUME NEW d \in ACalls, Issues(acall'[d]), acall'[d].session = s PROVE acall'[d] = new
    <3>1. s \in worksOn(acall'[d])
      BY <2>4 DEF worksOn
    <3>2. d = c
      BY <1>3, <1>4, <2>4, <3>1 DEF NobodyElseAt
    <3> QED
      BY <1>3, <3>2
  <2>5. TokensAt(k, T) => TokensAt(new, T \cup {n})
    BY <1>2 DEF TokensAt
  <2>6. ~LeftAlone(s)'
    BY <1>2, <1>3 DEF LeftAlone
  <2>7. sessions'[s].status = "ACTIVE" /\ ~sessions'[s].expired => TokensAt(new, T \cup {n})
    BY <1>2, <2>3, <2>5
  <2>8. activeTokens(s)' = T \cup {n}
    BY <1>2, <2>2
  <2>9. OneTokenWhenActive(s)'
    <3> SUFFICES ASSUME sessions'[s].status = "ACTIVE", ~sessions'[s].expired
                 PROVE  \A d \in ACalls : Issues(acall'[d]) /\ acall'[d].session = s
                                            => TokensAt(acall'[d], activeTokens(s)')
      BY <2>6 DEF OneTokenWhenActive, TokensAt
    <3> QED
      BY <2>4, <2>7, <2>8
  <2> QED
    BY <2>1, <2>9
<1> QED
  BY <1>2, <1>4, TurnedInv

LEMMA MarkingInv == ASSUME AuthInv, Races, NEW c \in ACalls, MarkUsed(c) \/ TokenExpired(c) PROVE AuthInv'
<1>1. AuthTyped
  BY DEF AuthInv
<1>2. PICK k, new, s :
        /\ Turned(c, k, new, s) /\ AuthCallTyped(k)
        /\ k.op = "rotate" /\ k.session = s
        /\ \/ /\ k.step = "used" /\ new.step = "touch" /\ new.op = "rotate" /\ new.session = s
           \/ /\ k.step = "expire" /\ new = Rest /\ sessions[s].expired
        /\ sessions'[s] = sessions[s]
        /\ activeTokens(s)' = activeTokens(s) \ {k.token}
  BY <1>1, Marking
<1>3. /\ k = acall[c] /\ new = acall'[c] /\ s \in DOMAIN sessions /\ Issues(k) /\ k.clearing = {}
      /\ \A d \in ACalls : d # c => acall'[d] = acall[d]
  BY <1>2 DEF Turned, Issues, AuthCallTyped
<1>4. PICK T : T = activeTokens(s)
  OBVIOUS
<1>5. ASSUME NobodyElseAt(s)', OverWhenRevoked(s), OneTokenWhenActive(s), k.step = "used"
      PROVE  OverWhenRevoked(s)' /\ OneTokenWhenActive(s)'
  <2>1. /\ new.step = "touch" /\ new.op = "rotate" /\ new.session = s /\ s \in worksOn(new) /\ Issues(new)
    BY <1>2, <1>5 DEF worksOn, Issues
  <2>2. OverWhenRevoked(s)'
    BY <1>2, <1>3, <1>5 DEF OverWhenRevoked
  <2>3. sessions[s].status = "ACTIVE" /\ ~sessions[s].expired => TokensAt(k, T)
    BY <1>2, <1>3, <1>4, <1>5 DEF OneTokenWhenActive
  <2>4. ASSUME NEW d \in ACalls, Issues(acall'[d]), acall'[d].session = s PROVE acall'[d] = new
    <3>1. s \in worksOn(acall'[d])
      BY <2>4 DEF worksOn
    <3>2. d = c
      BY <1>3, <1>5, <2>1, <2>4, <3>1 DEF NobodyElseAt
    <3> QED
      BY <1>3, <3>2
  <2>5. TokensAt(k, T) => TokensAt(new, T \ {k.token})
    <3> SUFFICES ASSUME TokensAt(k, T) PROVE \E n \in T \ {k.token} : T \ {k.token} = {n}
      BY <2>1 DEF TokensAt
    <3>1. PICK n \in T : n # k.token /\ T = {k.token, n}
      BY <1>5 DEF TokensAt
    <3> QED
      BY <3>1
  <2>6. ~LeftAlone(s)'
    BY <1>3, <2>1 DEF LeftAlone
  <2>7. sessions'[s].status = "ACTIVE" /\ ~sessions'[s].expired => TokensAt(new, activeTokens(s)')
    BY <1>2, <1>4, <2>3, <2>5
  <2>8. OneTokenWhenActive(s)'
    <3> SUFFICES ASSUME sessions'[s].status = "ACTIVE", ~sessions'[s].expired
                 PROVE  \A d \in ACalls : Issues(acall'[d]) /\ acall'[d].session = s
                                            => TokensAt(acall'[d], activeTokens(s)')
      BY <2>6 DEF OneTokenWhenActive, TokensAt
    <3> QED
      BY <2>4, <2>7
  <2> QED
    BY <2>2, <2>8
<1>6. ASSUME OverWhenRevoked(s), k.step # "used" PROVE OverWhenRevoked(s)' /\ OneTokenWhenActive(s)'
  <2>1. new = Rest /\ sessions[s].expired
    BY <1>2, <1>6
  <2>2. OneTokenWhenActive(s)'
    BY <1>2, <2>1 DEF OneTokenWhenActive
  <2>3. ASSUME NEW d \in ACalls, Issues(acall'[d]) PROVE acall'[d] = acall[d]
    BY <1>3, <2>1, <2>3, RestCall
  <2>4. \A d \in ACalls : s \in acall[d].clearing => s \in acall'[d].clearing
    BY <1>3
  <2>5. OverWhenRevoked(s)'
    BY <1>2, <1>6, <2>3, <2>4 DEF OverWhenRevoked
  <2> QED
    BY <2>2, <2>5
<1> QED
  BY <1>2, <1>5, <1>6, TurnedInv

LEMMA CreatesInv == ASSUME AuthInv, Races, NEW c \in ACalls, CreateSession(c) PROVE AuthInv'
<1>1. AuthTyped
  BY DEF AuthInv
<1>2. PICK k, new, s :
        /\ k = acall[c] /\ AuthCallTyped(k) /\ LogsIn(k) /\ k.step = "create" /\ k.revoking = {}
        /\ new = acall'[c] /\ \A d \in ACalls : d # c => acall'[d] = acall[d]
        /\ AuthTyped' /\ s = Len(sessions') /\ s = Len(sessions) + 1 /\ s \notin DOMAIN sessions
        /\ account' = account /\ DOMAIN sessions' = DOMAIN sessions \cup {s}
        /\ \A r \in DOMAIN sessions : sessions'[r] = sessions[r]
        /\ \A r : activeTokens(r)' = activeTokens(r)
        /\ activeTokens(s) = {} /\ sessions'[s].status = "ACTIVE" /\ ~sessions'[s].expired
        /\ sessions'[s].password = k.password /\ sessions'[s].by = k.op
        /\ sessions'[s].since = account.password /\ new.op = k.op
        /\ LogsIn(new) /\ new.step = "token" /\ new.session = s /\ new.password = k.password
        /\ new.revoking = {} /\ new.clearing = {} /\ k.clearing = {} /\ k.session = 0
  BY <1>1, Creates
<1>3. Unraced' /\ \A r \in DOMAIN sessions : r \notin raced' => r \notin raced
  BY <1>1, <1>2, RacesKnown
<1>4. Issues(new)
  BY <1>2 DEF Issues, LogsIn
<1>5. ASSUME NEW r \in DOMAIN sessions \ raced' PROVE OverWhenRevoked(r)' /\ OneTokenWhenActive(r)'
  <2>1. OverWhenRevoked(r) /\ OneTokenWhenActive(r)
    BY <1>3, <1>5 DEF AuthInv
  <2>2. r # 0 /\ r # s
    BY <1>1, <1>2, <1>5, SessionRows
  <2>3. sessions'[r] = sessions[r] /\ activeTokens(r)' = activeTokens(r)
    BY <1>2, <1>5
  <2> QED
    BY <1>1, <1>2, <2>1, <2>2, <2>3, SessionKept
<1>6. OverWhenRevoked(s)' /\ OneTokenWhenActive(s)'
  <2>1. ASSUME NEW d \in ACalls, Issues(acall'[d]), acall'[d].session = s PROVE acall'[d] = new
    <3>1. CASE d = c
      BY <1>2, <3>1
    <3>2. CASE d # c
      <4>1. acall[d].session = s /\ AuthCallTyped(acall[d])
        BY <1>1, <1>2, <2>1, <3>2 DEF AuthTyped
      <4>2. s \in 0 .. Len(sessions)
        BY <4>1 DEF AuthCallTyped, worksOn
      <4> QED
        BY <1>1, <1>2, <4>2, SessionRows
    <3> QED
      BY <3>1, <3>2
  <2>2. ~LeftAlone(s)'
    BY <1>2, <1>4 DEF LeftAlone
  <2>3. activeTokens(s)' = {}
    BY <1>2
  <2>4. TokensAt(new, {})
    BY <1>2 DEF TokensAt
  <2>5. OneTokenWhenActive(s)'
    BY <2>1, <2>2, <2>3, <2>4 DEF OneTokenWhenActive
  <2> QED
    BY <1>2, <2>5 DEF OverWhenRevoked
<1> QED
  BY <1>2, <1>3, <1>5, <1>6 DEF AuthInv

LEMMA OutsideInv ==
  ASSUME AuthInv, Races, RequestReset \/ Suspend \/ Unlock \/ LockExpires \/ SessionExpires \/ ChallengeExpires
  PROVE  AuthInv'
<1>1. AuthTyped
  BY DEF AuthInv
<1>2. /\ AuthTyped' /\ acall' = acall /\ tokens' = tokens /\ DOMAIN sessions' = DOMAIN sessions
      /\ \A s \in DOMAIN sessions :
           /\ sessions'[s].status = sessions[s].status
           /\ \/ sessions'[s].expired = sessions[s].expired /\ sessions'[s].cached = sessions[s].cached
              \/ sessions'[s].expired /\ ~sessions'[s].cached
  BY <1>1, Outside
<1>3. Unraced' /\ \A r \in DOMAIN sessions : r \notin raced' => r \notin raced
  BY <1>1, <1>2, RacesKnown
<1>4. ASSUME NEW r \in DOMAIN sessions \ raced' PROVE OverWhenRevoked(r)' /\ OneTokenWhenActive(r)'
  <2>1. OverWhenRevoked(r) /\ OneTokenWhenActive(r)
    BY <1>3, <1>4 DEF AuthInv
  <2>2. activeTokens(r)' = activeTokens(r)
    BY <1>2 DEF activeTokens
  <2>3. sessions'[r].status = sessions[r].status /\ (sessions'[r].cached => sessions[r].cached)
        /\ (~sessions'[r].expired => ~sessions[r].expired)
    BY <1>2, <1>4
  <2>4. OverWhenRevoked(r)'
    BY <1>2, <2>1, <2>2, <2>3 DEF OverWhenRevoked
  <2>5. LeftAlone(r)' <=> LeftAlone(r)
    BY <1>2 DEF LeftAlone
  <2>6. OneTokenWhenActive(r)'
    BY <1>2, <2>1, <2>2, <2>3, <2>5 DEF OneTokenWhenActive, TokensAt
  <2> QED
    BY <2>4, <2>6
<1> QED
  BY <1>2, <1>3, <1>4 DEF AuthInv

LEMMA PlainInv ==
  ASSUME AuthInv, Races, NEW c \in ACalls, NEW k, NEW next, Plain(c, k, next)
  PROVE  AuthInv'
<1>1. AuthTyped /\ AuthTyped'
  BY PlainTyped DEF AuthInv
<1>2. PICK new : new = IF next.step = "idle" THEN Rest ELSE next
  OBVIOUS
<1>3. /\ k = acall[c] /\ k.step # "revoke" /\ SameRows /\ PlainTurn(k, next) /\ Go(c, next)
      /\ Issues(k) /\ k.session # 0 => next.step # "idle" /\ Issues(next) /\ next.session = k.session
  BY DEF Plain
<1>4. new = acall'[c] /\ \A d \in ACalls : d # c => acall'[d] = acall[d]
  BY <1>1, <1>2, <1>3, AuthCallGoes
<1>5. k.revoking = {} /\ k.clearing = {}
  BY <1>1, <1>3 DEF AuthTyped, AuthCallTyped
<1>6. DOMAIN sessions' = DOMAIN sessions /\ tokens' = tokens
  BY <1>1, <1>3 DEF SameRows, AuthTyped
<1>7. Unraced' /\ \A r \in DOMAIN sessions : r \notin raced' => r \notin raced
  BY <1>1, RacesKnown
<1>8. ASSUME NEW r \in DOMAIN sessions \ raced' PROVE OverWhenRevoked(r)' /\ OneTokenWhenActive(r)'
  <2>1. OverWhenRevoked(r) /\ OneTokenWhenActive(r) /\ r # 0
    BY <1>1, <1>7, <1>8, SessionRows DEF AuthInv
  <2>2. NobodyElseAt(r)'
    BY <1>6, <1>7, <1>8 DEF Unraced
  <2>3. PICK T : T = activeTokens(r)
    OBVIOUS
  <2>4. activeTokens(r)' = T
    BY <1>6, <2>3 DEF activeTokens
  <2>5. ASSUME Issues(new), new.session = r
        PROVE  /\ sessions[r].status = "REVOKED" => new.step \in {"reuse", "expire", "revoke"}
               /\ sessions[r].status = "ACTIVE" /\ ~sessions[r].expired => TokensAt(new, T)
    <3>1. next.step # "idle" /\ new = next
      BY <1>2, <2>5, RestCall
    <3>2. CASE k = Rest
      <4>1. /\ next.op = "rotate"
            /\ next.step \in {"reuse", "expire"} \/ (next.step = "user" /\ next.token \in T)
        BY <1>3, <2>1, <2>3, <2>5, <3>1, <3>2, RestCall DEF PlainTurn
      <4>2. sessions[r].status = "REVOKED" => new.step \in {"reuse", "expire", "revoke"}
        BY <2>1, <2>3, <3>1, <4>1 DEF OverWhenRevoked
      <4>3. LeftAlone(r)
        <5> SUFFICES ASSUME NEW d \in ACalls
                     PROVE  r \notin acall[d].revoking /\ (Issues(acall[d]) => acall[d].session # r)
          BY DEF LeftAlone
        <5>1. CASE d = c
          BY <1>3, <3>2, <5>1, RestCall
        <5>2. CASE d # c
          <6>1. r \in worksOn(new)
            BY <2>5 DEF worksOn
          <6>2. r \notin worksOn(acall[d])
            BY <1>4, <2>2, <2>5, <5>2, <6>1 DEF NobodyElseAt
          <6> QED
            BY <6>2 DEF worksOn
        <5> QED
          BY <5>1, <5>2
      <4>4. sessions[r].status = "ACTIVE" /\ ~sessions[r].expired => \E n \in T : T = {n}
        BY <2>1, <2>3, <4>3 DEF OneTokenWhenActive
      <4>5. sessions[r].status = "ACTIVE" /\ ~sessions[r].expired => TokensAt(new, T)
        BY <3>1, <4>1, <4>4 DEF TokensAt
      <4> QED
        BY <4>2, <4>5
    <3>3. CASE k # Rest
      <4>1. /\ Issues(k) /\ k.session = r /\ next.token = k.token
            /\ \/ next.step = "revoke"
               \/ k.step = "user" /\ next.step = "replace"
               \/ k.step = "touch" /\ next.step = "cache"
        BY <1>3, <2>1, <2>5, <3>1, <3>3 DEF PlainTurn
      <4>2. sessions[r].status = "REVOKED" => new.step \in {"reuse", "expire", "revoke"}
        BY <1>3, <2>1, <3>1, <4>1 DEF OverWhenRevoked
      <4>3. sessions[r].status = "ACTIVE" /\ ~sessions[r].expired => TokensAt(k, T)
        BY <1>3, <2>1, <2>3, <4>1 DEF OneTokenWhenActive
      <4>4. TokensAt(k, T) => TokensAt(new, T)
        BY <3>1, <4>1 DEF TokensAt
      <4> QED
        BY <4>2, <4>3, <4>4
    <3> QED
      BY <3>2, <3>3
  <2>6. sessions[r].status = "ACTIVE" /\ ~sessions[r].expired =>
           \/ r \in new.revoking
           \/ Issues(new) /\ new.session = r
           \/ r \notin k.revoking /\ (Issues(k) => k.session # r)
    BY <1>2, <1>3, <1>5, <2>1
  <2>7. /\ sessions'[r].status = sessions[r].status /\ sessions'[r].cached = sessions[r].cached
        /\ sessions'[r].expired = sessions[r].expired
    BY <1>3 DEF SameRows
  <2> QED
    BY <1>1, <1>3, <1>4, <1>5, <2>1, <2>3, <2>4, <2>5, <2>6, <2>7, SessionKept
<1> QED
  BY <1>1, <1>6, <1>7, <1>8 DEF AuthInv

LEMMA AuthInvStep == ASSUME AuthInv, LinksTyped, AuthStep, Races PROVE AuthInv'
<1>1. AuthTyped
  BY DEF AuthInv
<1>2. CASE \E c \in ACalls : \E k, next : Plain(c, k, next)
  BY <1>2, PlainInv
<1>3. CASE \E c \in ACalls :
             \/ RevokeOne(c) \/ ClearOne(c) \/ Cache(c) \/ Reuse(c) \/ CreateSession(c)
             \/ FirstToken(c) \/ Replace(c) \/ MarkUsed(c) \/ TokenExpired(c)
  BY <1>3, RevokesInv, ClearsInv, CachesInv, ReusesInv, CreatesInv, IssuingInv, MarkingInv
<1>4. CASE RequestReset \/ Suspend \/ Unlock \/ LockExpires \/ SessionExpires \/ ChallengeExpires
  BY <1>4, OutsideInv
<1> QED
  BY <1>1, <1>2, <1>3, <1>4, StepKinds

LEMMA AuthUnchanged ==
  ASSUME UNCHANGED avars
  PROVE  /\ AuthInv => AuthInv'
         /\ LinksTyped => LinksTyped'
<1>1. UNCHANGED <<account, sessions, tokens, links, challenges, acall, raced>>
  BY DEF avars, rows
<1>2. \A s : activeTokens(s)' = activeTokens(s) /\ LeftAlone(s)' = LeftAlone(s)
  BY <1>1 DEF activeTokens, LeftAlone
<1>3. \A s : OverWhenRevoked(s)' = OverWhenRevoked(s) /\ OneTokenWhenActive(s)' = OneTokenWhenActive(s)
  BY <1>1, <1>2 DEF OverWhenRevoked, OneTokenWhenActive, TokensAt
<1>4. AuthTyped' = AuthTyped
  BY <1>1 DEF AuthTyped, AuthCallTyped, AuthStepTyped
<1>5. Unraced' = Unraced
  BY <1>1 DEF Unraced, NobodyElseAt
<1> QED
  BY <1>1, <1>3, <1>4, <1>5 DEF AuthInv, LinksTyped

LEMMA AuthInitTyped == ASSUME AuthInit PROVE AuthTyped /\ Unraced /\ LinksTyped /\ DOMAIN sessions = {}
<1>1. sessions = <<>> /\ tokens = <<>> /\ links = <<>> /\ challenges = <<>> /\ acall = [c \in ACalls |-> Rest]
  BY DEF AuthInit
<1>2. account \in AccountRow
  <2>0. ("verify" \in scope.ops) \in BOOLEAN
    OBVIOUS
  <2>1. PICK no \in BOOLEAN, none \in Nat : no = FALSE /\ none = 0
    OBVIOUS
  <2>2. account = [status |-> "ACTIVE", password |-> none, failed |-> none, locked |-> no, twoFactor |-> "verify" \in scope.ops]
    BY <2>1, Zenon DEF AuthInit
  <2> QED
    BY <2>0, <2>2 DEF AccountRow
<1>3. sessions \in Seq(SessionRow) /\ tokens \in Seq(TokenRow) /\ Len(sessions) = 0
      /\ DOMAIN tokens = {} /\ DOMAIN sessions = {}
  BY <1>1
<1>4. AuthCallTyped(Rest)
  BY <1>3, RestCall DEF AuthCallTyped, AuthStepTyped
<1>5. AuthTyped
  BY <1>1, <1>2, <1>3, <1>4 DEF AuthTyped
<1>6. Unraced
  BY <1>1, <1>3, RestCall DEF Unraced
<1>7. LinksTyped
  BY <1>1 DEF LinksTyped
<1> QED
  BY <1>3, <1>5, <1>6, <1>7

LEMMA AuthInvAlways == AuthSpec => [](AuthInv /\ LinksTyped)
<1>1. AuthInit => AuthInv /\ LinksTyped
  BY AuthInitTyped DEF AuthInv
<1>2. AuthInv /\ LinksTyped /\ [AuthNext]_avars => (AuthInv /\ LinksTyped)'
  BY AuthInvStep, LinksStep, AuthUnchanged DEF AuthNext, AuthInv
<1> QED
  BY <1>1, <1>2, PTL DEF AuthSpec

LEMMA RestLeavesAlone ==
  ASSUME AuthTyped, NEW s \in DOMAIN sessions, atRest(s)
  PROVE  LeftAlone(s) /\ \A c \in ACalls : s \notin acall[c].clearing
  BY DEF atRest, worksOn, LeftAlone

(* Once a session is revoked and no call is at work on it, it has left       *)
(* Redis, and none of its tokens can be rotated, for every number of calls   *)
(* and every limit, if nothing raced its own login and rotations             *)
(* (session.service.ts:300-313 against 104-186).                             *)
THEOREM RevokedCorrect == AuthSpec => []RevokedIsOver
<1>1. AuthInv => RevokedIsOver
  <2> SUFFICES ASSUME AuthInv, NEW s \in DOMAIN sessions, sessions[s].status = "REVOKED", atRest(s),
                      s \notin raced
               PROVE  ~isActive(s) /\ activeTokens(s) = {}
    BY DEF RevokedIsOver
  <2>1. OverWhenRevoked(s) /\ AuthTyped
    BY DEF AuthInv
  <2>2. \A c \in ACalls : s \notin acall[c].clearing
    BY <2>1, RestLeavesAlone
  <2> QED
    BY <2>1, <2>2 DEF OverWhenRevoked, isActive
<1> QED
  BY <1>1, AuthInvAlways, PTL

(* A session nobody is at work on has exactly one token that can be rotated, *)
(* if it was not raced (session.service.ts:162, 170).                        *)
THEOREM OneTokenCorrect == AuthSpec => []LivesByOneToken
<1>1. AuthInv => LivesByOneToken
  <2> SUFFICES ASSUME AuthInv, NEW s \in DOMAIN sessions, sessions[s].status = "ACTIVE",
                      ~sessions[s].expired, atRest(s), s \notin raced
               PROVE  Cardinality(activeTokens(s)) = 1
    BY DEF LivesByOneToken
  <2>1. OneTokenWhenActive(s) /\ AuthTyped
    BY DEF AuthInv
  <2>2. LeftAlone(s)
    BY <2>1, RestLeavesAlone
  <2>3. PICK n \in activeTokens(s) : activeTokens(s) = {n}
    BY <2>1, <2>2 DEF OneTokenWhenActive
  <2> QED
    BY <2>3, FS_Singleton
<1> QED
  BY <1>1, AuthInvAlways, PTL

LEMMA CallsLoggingIn ==
  ASSUME AuthTyped', NEW c \in ACalls, LogsIn(acall'[c])
  PROVE  acall'[c].step # "idle"
  BY RestCall DEF AuthTyped, AuthCallTyped, AuthStepTyped

LEMMA TurnedPassword ==
  ASSUME PasswordInv, Races, NEW c \in ACalls, NEW k, NEW new, NEW s, Turned(c, k, new, s),
         sessions'[s].status = "ACTIVE" => sessions[s].status = "ACTIVE"
  PROVE  PasswordInv'
<1>1. AuthTyped /\ AuthTyped' /\ DOMAIN sessions' = DOMAIN sessions
  <2>1. AuthTyped /\ AuthTyped' /\ Len(sessions') = Len(sessions)
    BY DEF PasswordInv, Turned
  <2> QED
    BY <2>1 DEF AuthTyped
<1>2. /\ Unraced' /\ \A r \in DOMAIN sessions : r \notin raced' => r \notin raced
      /\ \A d \in ACalls : acall'[d].step # "idle" /\ d \notin raced' => d \notin raced
  BY <1>1, RacesKnown
<1>3. /\ k = acall[c] /\ new = acall'[c] /\ \A d \in ACalls : d # c => acall'[d] = acall[d]
      /\ account' = account
      /\ LogsIn(new) => LogsIn(k) /\ new.op = k.op /\ new.password = k.password
      /\ setsPassword(k) => /\ sessions'[s].status = "REVOKED" /\ k.step = "revoke"
                            /\ new = Rest \/ setsPassword(new)
  BY DEF Turned
<1>4. ASSUME NEW r \in DOMAIN sessions \ raced', sessions'[r].status = "ACTIVE"
      PROVE  \/ OpenedWith(sessions'[r], account'.password)
             \/ \E d \in ACalls : /\ setsPassword(acall'[d])
                                  /\ \/ r \in acall'[d].revoking
                                     \/ acall'[d].step = "others" /\ acall'[d].session # r
  <2>1. /\ SameOrigin(sessions'[r], sessions[r]) /\ sessions[r].status = "ACTIVE"
        /\ r # s => (r \in new.revoking <=> r \in k.revoking)
    BY <1>4 DEF Turned
  <2>2. CASE OpenedWith(sessions[r], account.password)
    BY <1>3, <2>1, <2>2 DEF OpenedWith, SameOrigin
  <2>3. CASE ~OpenedWith(sessions[r], account.password)
    <3>1. PICK d \in ACalls :
            /\ setsPassword(acall[d])
            /\ r \in acall[d].revoking \/ (acall[d].step = "others" /\ acall[d].session # r)
      BY <1>2, <1>4, <2>1, <2>3 DEF PasswordInv, HasPassword
    <3>2. CASE d = c
      <4>1. r # s /\ r \in k.revoking
        BY <1>3, <1>4, <3>1, <3>2
      <4>2. r \in new.revoking /\ new # Rest
        BY <2>1, <4>1, RestCall
      <4> QED
        BY <1>3, <3>1, <3>2, <4>2
    <3>3. CASE d # c
      BY <1>3, <3>1, <3>3
    <3> QED
      BY <3>2, <3>3
  <2> QED
    BY <2>2, <2>3
<1>5. ASSUME NEW d \in ACalls \ raced', ShowsPassword(acall'[d]) PROVE acall'[d].password = account'.password
  <2>1. d \notin raced
    BY <1>1, <1>2, <1>5, CallsLoggingIn DEF ShowsPassword, LogsIn
  <2>2. ShowsPassword(acall[d]) /\ acall'[d].password = acall[d].password
    BY <1>3, <1>5 DEF ShowsPassword, LogsIn
  <2> QED
    BY <1>3, <2>1, <2>2 DEF PasswordInv
<1> QED
  BY <1>1, <1>2, <1>4, <1>5 DEF PasswordInv, HasPassword

LEMMA PlainPassword ==
  ASSUME PasswordInv, Races, NEW c \in ACalls, NEW k, NEW next, Plain(c, k, next)
  PROVE  PasswordInv'
<1>1. AuthTyped /\ AuthTyped'
  BY PlainTyped DEF PasswordInv
<1>2. PICK new : new = IF next.step = "idle" THEN Rest ELSE next
  OBVIOUS
<1>3. /\ k = acall[c] /\ k.step # "revoke" /\ SameRows /\ PasswordTurn(k, next) /\ Go(c, next)
      /\ ShowsPassword(next) /\ next.step # "idle" =>
           \/ ShowsPassword(k) /\ next.password = k.password
           \/ k = Rest /\ next.password = account.password
  BY DEF Plain
<1>4. new = acall'[c] /\ \A d \in ACalls : d # c => acall'[d] = acall[d]
  BY <1>1, <1>2, <1>3, AuthCallGoes
<1>5. k.revoking = {} /\ k.clearing = {}
  BY <1>1, <1>3 DEF AuthTyped, AuthCallTyped
<1>6. DOMAIN sessions' = DOMAIN sessions /\ \A r \in DOMAIN sessions : sessions'[r].status = sessions[r].status
  BY <1>1, <1>3 DEF SameRows, AuthTyped
<1>7. /\ Unraced' /\ \A r \in DOMAIN sessions : r \notin raced' => r \notin raced
      /\ \A d \in ACalls : acall'[d].step # "idle" /\ d \notin raced' => d \notin raced
  BY <1>1, RacesKnown
<1>8. CASE /\ SamePassword
           /\ setsPassword(k) /\ k.step = "others" =>
                \A s \in DOMAIN sessions : sessions[s].status = "ACTIVE" /\ s # k.session =>
                  s \in next.revoking /\ next.step = "revoke" /\ setsPassword(next)
  <2>1. sessions' = sessions /\ account'.password = account.password
    BY <1>8 DEF SamePassword
  <2>2. ASSUME NEW r \in DOMAIN sessions \ raced', sessions[r].status = "ACTIVE",
               ~OpenedWith(sessions[r], account.password)
        PROVE  \E d \in ACalls : /\ setsPassword(acall'[d])
                                 /\ \/ r \in acall'[d].revoking
                                    \/ acall'[d].step = "others" /\ acall'[d].session # r
    <3>1. PICK d \in ACalls :
            /\ setsPassword(acall[d])
            /\ r \in acall[d].revoking \/ (acall[d].step = "others" /\ acall[d].session # r)
      BY <1>7, <2>2 DEF PasswordInv, HasPassword
    <3>2. CASE d = c
      <4>1. r \in next.revoking /\ next.step = "revoke" /\ setsPassword(next)
        BY <1>3, <1>5, <1>8, <2>2, <3>1, <3>2
      <4> QED
        BY <1>2, <1>4, <4>1
    <3>3. CASE d # c
      BY <1>4, <3>1, <3>3
    <3> QED
      BY <3>2, <3>3
  <2>3. ASSUME NEW d \in ACalls \ raced', ShowsPassword(acall'[d]) PROVE acall'[d].password = account.password
    <3>1. d \notin raced
      BY <1>1, <1>7, <2>3, CallsLoggingIn DEF ShowsPassword, LogsIn
    <3>2. CASE d = c
      <4>1. ShowsPassword(next) /\ next.step # "idle" /\ new = next
        BY <1>2, <1>4, <2>3, <3>2, RestCall DEF ShowsPassword
      <4>2. ShowsPassword(k) => k.password = account.password
        BY <1>3, <3>1, <3>2 DEF PasswordInv
      <4> QED
        BY <1>3, <1>4, <3>2, <4>1, <4>2
    <3>3. CASE d # c
      BY <1>4, <2>3, <3>1, <3>3 DEF PasswordInv
    <3> QED
      BY <3>2, <3>3
  <2> QED
    BY <1>1, <1>6, <1>7, <2>1, <2>2, <2>3 DEF PasswordInv, HasPassword
<1>9. CASE /\ setsPassword(next) /\ next.step = "others"
           /\ \A s \in DOMAIN sessions : s = next.session => sessions'[s].password = account'.password
  <2>1. new = next
    BY <1>2, <1>9
  <2>2. \A d \in ACalls \ raced' : ~Issues(acall'[d])
    BY <1>4, <1>7, <1>9, <2>1 DEF Unraced
  <2>3. \A d \in ACalls \ raced' : ~ShowsPassword(acall'[d])
    BY <2>2 DEF Issues, ShowsPassword
  <2>4. ASSUME NEW r \in DOMAIN sessions
        PROVE  \/ OpenedWith(sessions'[r], account'.password)
               \/ \E d \in ACalls : setsPassword(acall'[d]) /\ acall'[d].step = "others" /\ acall'[d].session # r
    BY <1>4, <1>9, <2>1 DEF OpenedWith
  <2> QED
    BY <1>1, <1>6, <1>7, <2>3, <2>4 DEF PasswordInv, HasPassword
<1> QED
  BY <1>3, <1>8, <1>9 DEF PasswordTurn

LEMMA CreatesPassword == ASSUME PasswordInv, Races, NEW c \in ACalls, CreateSession(c) PROVE PasswordInv'
<1>1. AuthTyped
  BY DEF PasswordInv
<1>2. PICK k, new, s :
        /\ k = acall[c] /\ AuthCallTyped(k) /\ LogsIn(k) /\ k.step = "create" /\ k.revoking = {}
        /\ new = acall'[c] /\ \A d \in ACalls : d # c => acall'[d] = acall[d]
        /\ AuthTyped' /\ s = Len(sessions') /\ s = Len(sessions) + 1 /\ s \notin DOMAIN sessions
        /\ account' = account /\ DOMAIN sessions' = DOMAIN sessions \cup {s}
        /\ \A r \in DOMAIN sessions : sessions'[r] = sessions[r]
        /\ \A r : activeTokens(r)' = activeTokens(r)
        /\ activeTokens(s) = {} /\ sessions'[s].status = "ACTIVE" /\ ~sessions'[s].expired
        /\ sessions'[s].password = k.password /\ sessions'[s].by = k.op
        /\ sessions'[s].since = account.password /\ new.op = k.op
        /\ LogsIn(new) /\ new.step = "token" /\ new.session = s /\ new.password = k.password
        /\ new.revoking = {} /\ new.clearing = {} /\ k.clearing = {} /\ k.session = 0
  BY <1>1, Creates
<1>3. /\ Unraced' /\ \A r \in DOMAIN sessions : r \notin raced' => r \notin raced
      /\ \A d \in ACalls : acall'[d].step # "idle" /\ d \notin raced' => d \notin raced
      /\ s \notin raced' => c \notin raced
  <2>1. s \in DOMAIN sessions' \ DOMAIN sessions
    BY <1>2
  <2> QED
    BY <1>1, <1>2, <2>1, RacesKnown
<1>4. ~setsPassword(k)
  BY <1>2 DEF LogsIn, setsPassword
<1>5. ASSUME NEW d \in ACalls, setsPassword(acall[d]) PROVE acall'[d] = acall[d]
  BY <1>2, <1>4, <1>5
<1>6. ASSUME NEW r \in DOMAIN sessions \ raced', sessions[r].status = "ACTIVE",
             ~OpenedWith(sessions[r], account.password)
      PROVE  \E d \in ACalls : /\ setsPassword(acall'[d])
                               /\ \/ r \in acall'[d].revoking
                                  \/ acall'[d].step = "others" /\ acall'[d].session # r
  <2>1. PICK d \in ACalls :
          /\ setsPassword(acall[d])
          /\ r \in acall[d].revoking \/ (acall[d].step = "others" /\ acall[d].session # r)
    BY <1>3, <1>6 DEF PasswordInv, HasPassword
  <2> QED
    BY <1>5, <2>1
<1>7. s \notin raced' => OpenedWith(sessions'[s], account'.password)
  <2>1. CASE k.op = "verify"
    BY <1>2, <2>1 DEF OpenedWith
  <2>2. CASE k.op = "login"
    BY <1>2, <1>3, <2>2 DEF PasswordInv, OpenedWith, ShowsPassword
  <2> QED
    BY <1>2, <2>1, <2>2 DEF LogsIn
<1>8. ASSUME NEW d \in ACalls \ raced', ShowsPassword(acall'[d]) PROVE acall'[d].password = account'.password
  <2>1. d \notin raced
    BY <1>2, <1>3, <1>8, CallsLoggingIn DEF ShowsPassword, LogsIn
  <2>2. ShowsPassword(acall[d]) /\ acall'[d].password = acall[d].password
    <3>1. CASE d = c
      BY <1>2, <1>8, <3>1 DEF ShowsPassword
    <3>2. CASE d # c
      BY <1>2, <1>8, <3>2
    <3> QED
      BY <3>1, <3>2
  <2> QED
    BY <1>2, <2>1, <2>2 DEF PasswordInv
<1>9. ASSUME NEW r \in DOMAIN sessions' \ raced' PROVE HasPassword(r)'
  <2>1. CASE r = s
    BY <1>7, <1>9, <2>1 DEF HasPassword
  <2>2. CASE r # s
    <3>1. r \in DOMAIN sessions /\ sessions'[r] = sessions[r] /\ account' = account
      BY <1>2, <1>9, <2>2
    <3> QED
      BY <1>6, <1>9, <3>1 DEF HasPassword
  <2> QED
    BY <2>1, <2>2
<1> QED
  BY <1>2, <1>3, <1>8, <1>9 DEF PasswordInv

LEMMA OutsidePassword ==
  ASSUME PasswordInv, Races, RequestReset \/ Suspend \/ Unlock \/ LockExpires \/ SessionExpires \/ ChallengeExpires
  PROVE  PasswordInv'
<1>1. AuthTyped
  BY DEF PasswordInv
<1>2. /\ AuthTyped' /\ acall' = acall /\ account'.password = account.password /\ DOMAIN sessions' = DOMAIN sessions
      /\ \A s \in DOMAIN sessions :
           sessions'[s].status = sessions[s].status /\ SameOrigin(sessions'[s], sessions[s])
  BY <1>1, Outside
<1>3. /\ Unraced' /\ \A r \in DOMAIN sessions : r \notin raced' => r \notin raced
      /\ \A d \in ACalls : acall'[d].step # "idle" /\ d \notin raced' => d \notin raced
  BY <1>1, <1>2, RacesKnown
<1>4. ASSUME NEW d \in ACalls \ raced', ShowsPassword(acall'[d]) PROVE acall'[d].password = account'.password
  <2>1. d \notin raced
    BY <1>2, <1>3, <1>4, CallsLoggingIn DEF ShowsPassword, LogsIn
  <2> QED
    BY <1>2, <1>4, <2>1 DEF PasswordInv
<1>5. ASSUME NEW r \in DOMAIN sessions \ raced' PROVE HasPassword(r)'
  <2>1. HasPassword(r)
    BY <1>3, <1>5 DEF PasswordInv
  <2> QED
    BY <1>2, <1>5, <2>1 DEF HasPassword, OpenedWith, SameOrigin
<1> QED
  BY <1>2, <1>3, <1>4, <1>5 DEF PasswordInv

LEMMA PasswordStep == ASSUME PasswordInv, LinksTyped, AuthStep, Races PROVE PasswordInv'
<1>1. AuthTyped
  BY DEF PasswordInv
<1>2. CASE \E c \in ACalls : \E k, next : Plain(c, k, next)
  BY <1>2, PlainPassword
<1>3. ASSUME NEW c \in ACalls,
             \/ RevokeOne(c) \/ ClearOne(c) \/ Cache(c) \/ Reuse(c)
             \/ FirstToken(c) \/ Replace(c) \/ MarkUsed(c) \/ TokenExpired(c)
      PROVE  PasswordInv'
  <2>1. \E k, new, s : Turned(c, k, new, s) /\ (sessions'[s].status = "ACTIVE" => sessions[s].status = "ACTIVE")
    <3>1. CASE RevokeOne(c)
      <4>1. \E k, new, s : Turned(c, k, new, s) /\ sessions'[s].status = "REVOKED"
        BY <1>1, <3>1, Revokes
      <4> QED
        BY <4>1
    <3>2. CASE ClearOne(c)
      <4>1. \E k, new, s : Turned(c, k, new, s) /\ sessions'[s].status = "REVOKED"
        BY <1>1, <3>2, Clears
      <4> QED
        BY <4>1
    <3>3. CASE Cache(c)
      BY <1>1, <3>3, Caches
    <3>4. CASE Reuse(c) \/ FirstToken(c) \/ Replace(c) \/ MarkUsed(c) \/ TokenExpired(c)
      <4>1. \E k, new, s : Turned(c, k, new, s) /\ sessions'[s] = sessions[s]
        BY <1>1, <3>4, Reuses, Issuing, Marking
      <4> QED
        BY <4>1
    <3> QED
      BY <1>3, <3>1, <3>2, <3>3, <3>4
  <2> QED
    BY <2>1, TurnedPassword
<1>4. ASSUME NEW c \in ACalls, CreateSession(c) PROVE PasswordInv'
  BY <1>4, CreatesPassword
<1>5. CASE RequestReset \/ Suspend \/ Unlock \/ LockExpires \/ SessionExpires \/ ChallengeExpires
  BY <1>5, OutsidePassword
<1> QED
  BY <1>1, <1>2, <1>3, <1>4, <1>5, StepKinds

(* Once no change or reset of the password is under way, every active        *)
(* session was opened with the password the account has, or since that was   *)
(* set by the answer to a two-factor challenge, but for logins that          *)
(* overlapped the change (auth.service.ts:132-145, 221,                      *)
(* password-reset.service.ts:87-97).                                         *)
THEOREM PasswordCorrect == AuthSpec => []PasswordEndsSessions
<1>1. AuthInit => PasswordInv /\ LinksTyped
  <2> SUFFICES ASSUME AuthInit PROVE PasswordInv /\ LinksTyped
    OBVIOUS
  <2>1. \A c \in ACalls : acall[c] = Rest
    BY DEF AuthInit
  <2> QED
    BY <2>1, AuthInitTyped, RestCall DEF PasswordInv, ShowsPassword
<1>2. PasswordInv /\ LinksTyped /\ [AuthNext]_avars => (PasswordInv /\ LinksTyped)'
  <2>1. ASSUME PasswordInv, UNCHANGED avars PROVE PasswordInv'
    <3>1. UNCHANGED <<account, sessions, tokens, acall, raced>>
      BY <2>1 DEF avars, rows
    <3>2. AuthTyped' = AuthTyped
      BY <3>1 DEF AuthTyped, AuthCallTyped, AuthStepTyped
    <3>3. Unraced' = Unraced
      BY <3>1 DEF Unraced, NobodyElseAt
    <3> QED
      BY <2>1, <3>1, <3>2, <3>3 DEF PasswordInv, HasPassword
  <2> QED
    BY <2>1, PasswordStep, LinksStep, AuthUnchanged DEF AuthNext, PasswordInv
<1>3. PasswordInv => PasswordEndsSessions
  BY DEF PasswordInv, HasPassword, OpenedWith, PasswordEndsSessions
<1> QED
  BY <1>1, <1>2, <1>3, PTL DEF AuthSpec

LEMMA LimitFinite ==
  ASSUME AuthTyped
  PROVE  /\ IsFiniteSet(activeSessions) /\ Cardinality(activeSessions) \in Nat
         /\ Cardinality(ACalls) \in Nat /\ MaxActive \in Nat \ {0}
         /\ \A X : IsFiniteSet(spared(X)) /\ Cardinality(spared(X)) \in Nat
         /\ \A X \in SUBSET ACalls : /\ IsFiniteSet(X) /\ Cardinality(X) \in Nat
                                     /\ Cardinality(X) <= Cardinality(ACalls)
<1>1. DOMAIN sessions = 1 .. Len(sessions) /\ Len(sessions) \in Nat
  BY SessionRows
<1>2. IsFiniteSet(DOMAIN sessions)
  BY <1>1, FS_Interval
<1>3. IsFiniteSet(activeSessions)
  BY <1>2, FS_Subset DEF activeSessions
<1>4. \A X : IsFiniteSet(spared(X))
  BY <1>3, FS_Subset DEF spared
<1>5. \A X \in SUBSET ACalls : IsFiniteSet(X) /\ Cardinality(X) <= Cardinality(ACalls)
  BY AuthAssumption, FS_Subset
<1> QED
  BY <1>3, <1>4, <1>5, AuthAssumption, FS_CardinalityType

(* The sessions spared after a step are among those that were spared.        *)
LEMMA LimitFrom ==
  ASSUME LimitInv, NEW X \in SUBSET ACalls, \A c \in X : Opening(acall[c]), spared(X)' \subseteq spared(X)
  PROVE  Cardinality(spared(X)') + Cardinality(X) <= MaxActive - 1 + Cardinality(ACalls)
<1>1. AuthTyped
  BY DEF LimitInv
<1>2. Cardinality(spared(X)) + Cardinality(X) <= MaxActive - 1 + Cardinality(ACalls)
  BY DEF LimitInv
<1>3. PICK S : S = spared(X)
  OBVIOUS
<1>4. PICK T : T = spared(X)'
  OBVIOUS
<1>5. IsFiniteSet(S) /\ Cardinality(S) \in Nat /\ Cardinality(X) \in Nat /\ MaxActive \in Nat
      /\ Cardinality(ACalls) \in Nat
  BY <1>1, <1>3, LimitFinite
<1>6. T \subseteq S
  BY <1>3, <1>4
<1>7. Cardinality(T) <= Cardinality(S) /\ Cardinality(T) \in Nat
  BY <1>5, <1>6, FS_Subset, FS_CardinalityType
<1> QED
  BY <1>2, <1>3, <1>4, <1>5, <1>7

LEMMA TurnedLimit ==
  ASSUME LimitInv, NEW c \in ACalls, NEW k, NEW new, NEW s, Turned(c, k, new, s),
         s \in activeSessions' => s \in activeSessions
  PROVE  LimitInv'
<1>1. AuthTyped /\ AuthTyped' /\ DOMAIN sessions' = DOMAIN sessions
  <2>1. AuthTyped /\ AuthTyped' /\ Len(sessions') = Len(sessions)
    BY DEF LimitInv, Turned
  <2> QED
    BY <2>1 DEF AuthTyped
<1>2. /\ k = acall[c] /\ new = acall'[c] /\ \A d \in ACalls : d # c => acall'[d] = acall[d]
      /\ Opening(new) => Opening(k) /\ sessions'[s].status = "REVOKED"
      /\ \A r \in DOMAIN sessions : r # s => sessions'[r] = sessions[r] /\ (r \in new.revoking <=> r \in k.revoking)
  BY DEF Turned
<1>3. activeSessions' \subseteq activeSessions
  BY <1>1, <1>2 DEF activeSessions
<1>4. ASSUME NEW X \in SUBSET ACalls, \A d \in X : Opening(acall'[d])
      PROVE  Cardinality(spared(X)') + Cardinality(X) <= MaxActive - 1 + Cardinality(ACalls)
  <2>1. \A d \in X : Opening(acall[d])
    BY <1>2, <1>4
  <2>2. ASSUME NEW r \in activeSessions', \A d \in X : r \notin acall'[d].revoking, NEW d \in X
        PROVE  r \notin acall[d].revoking
    <3>1. CASE d = c
      <4>1. Opening(new)
        BY <1>2, <1>4, <3>1
      <4>2. r \in DOMAIN sessions /\ r # s
        BY <1>1, <1>2, <2>2, <4>1 DEF activeSessions
      <4> QED
        BY <1>2, <2>2, <3>1, <4>2
    <3>2. CASE d # c
      BY <1>2, <2>2, <3>2
    <3> QED
      BY <3>1, <3>2
  <2>3. spared(X)' \subseteq spared(X)
    BY <1>3, <2>2 DEF spared
  <2> QED
    BY <2>1, <2>3, LimitFrom
<1> QED
  BY <1>1, <1>4 DEF LimitInv

LEMMA PlainLimit ==
  ASSUME LimitInv, NEW c \in ACalls, NEW k, NEW next, Plain(c, k, next)
  PROVE  LimitInv'
<1>1. AuthTyped /\ AuthTyped'
  BY PlainTyped DEF LimitInv
<1>2. PICK new : new = IF next.step = "idle" THEN Rest ELSE next
  OBVIOUS
<1>3. /\ SameRows /\ Go(c, next)
      /\ Opening(next) => Cardinality(activeSessions \ next.revoking) <= MaxActive - 1
  BY DEF Plain
<1>4. new = acall'[c] /\ \A d \in ACalls : d # c => acall'[d] = acall[d]
  BY <1>1, <1>2, <1>3, AuthCallGoes
<1>5. activeSessions' = activeSessions
  BY <1>1, <1>3 DEF SameRows, AuthTyped, activeSessions
<1>6. ASSUME NEW X \in SUBSET ACalls, \A d \in X : Opening(acall'[d])
      PROVE  Cardinality(spared(X)') + Cardinality(X) <= MaxActive - 1 + Cardinality(ACalls)
  <2>1. CASE c \in X
    <3>1. Opening(next) /\ new = next
      BY <1>2, <1>4, <1>6, <2>1, RestCall
    <3>2. PICK S : S = activeSessions \ next.revoking
      OBVIOUS
    <3>3. PICK T : T = spared(X)'
      OBVIOUS
    <3>4. T \subseteq S
      BY <1>4, <1>5, <2>1, <3>1, <3>2, <3>3 DEF spared
    <3>5. IsFiniteSet(S)
      BY <1>1, <3>2, LimitFinite, FS_Subset
    <3>6. Cardinality(T) <= Cardinality(S) /\ Cardinality(T) \in Nat /\ Cardinality(S) \in Nat
      BY <3>4, <3>5, FS_Subset, FS_CardinalityType
    <3>7. Cardinality(S) <= MaxActive - 1
      BY <1>3, <3>1, <3>2
    <3>8. Cardinality(X) \in Nat /\ Cardinality(X) <= Cardinality(ACalls) /\ Cardinality(ACalls) \in Nat
          /\ MaxActive \in Nat
      BY <1>1, LimitFinite
    <3> QED
      BY <3>3, <3>6, <3>7, <3>8
  <2>2. CASE c \notin X
    <3>1. \A d \in X : acall'[d] = acall[d]
      BY <1>4, <2>2
    <3>2. spared(X)' \subseteq spared(X) /\ \A d \in X : Opening(acall[d])
      BY <1>5, <1>6, <3>1 DEF spared
    <3> QED
      BY <3>2, LimitFrom
  <2> QED
    BY <2>1, <2>2
<1> QED
  BY <1>1, <1>6 DEF LimitInv

LEMMA CreatesLimit == ASSUME LimitInv, NEW c \in ACalls, CreateSession(c) PROVE LimitInv'
<1>1. AuthTyped
  BY DEF LimitInv
<1>2. PICK k, new, s :
        /\ k = acall[c] /\ AuthCallTyped(k) /\ LogsIn(k) /\ k.step = "create" /\ k.revoking = {}
        /\ new = acall'[c] /\ \A d \in ACalls : d # c => acall'[d] = acall[d]
        /\ AuthTyped' /\ s = Len(sessions') /\ s = Len(sessions) + 1 /\ s \notin DOMAIN sessions
        /\ account' = account /\ DOMAIN sessions' = DOMAIN sessions \cup {s}
        /\ \A r \in DOMAIN sessions : sessions'[r] = sessions[r]
        /\ \A r : activeTokens(r)' = activeTokens(r)
        /\ activeTokens(s) = {} /\ sessions'[s].status = "ACTIVE" /\ ~sessions'[s].expired
        /\ sessions'[s].password = k.password /\ sessions'[s].by = k.op
        /\ sessions'[s].since = account.password /\ new.op = k.op
        /\ LogsIn(new) /\ new.step = "token" /\ new.session = s /\ new.password = k.password
        /\ new.revoking = {} /\ new.clearing = {} /\ k.clearing = {} /\ k.session = 0
  BY <1>1, Creates
<1>3. activeSessions' = activeSessions \cup {s}
  BY <1>2 DEF activeSessions
<1>4. ASSUME NEW X \in SUBSET ACalls, \A d \in X : Opening(acall'[d])
      PROVE  Cardinality(spared(X)') + Cardinality(X) <= MaxActive - 1 + Cardinality(ACalls)
  <2>1. c \notin X
    BY <1>2, <1>4 DEF Opening
  <2>2. PICK Y \in SUBSET ACalls : Y = X \cup {c}
    OBVIOUS
  <2>3. \A d \in Y : Opening(acall[d])
    BY <1>2, <1>4, <2>1, <2>2 DEF Opening
  <2>4. Cardinality(spared(Y)) + Cardinality(Y) <= MaxActive - 1 + Cardinality(ACalls)
    BY <2>3 DEF LimitInv
  <2>5. PICK S : S = spared(Y)
    OBVIOUS
  <2>6. PICK T : T = spared(X)'
    OBVIOUS
  <2>7. \A d \in X : acall'[d].revoking = acall[d].revoking
    BY <1>2, <2>1
  <2>8. T \subseteq S \cup {s}
    BY <1>2, <1>3, <2>2, <2>5, <2>6, <2>7 DEF spared
  <2>9. IsFiniteSet(S) /\ Cardinality(S) \in Nat
    BY <1>1, <2>5, LimitFinite
  <2>10. IsFiniteSet(S \cup {s}) /\ Cardinality(S \cup {s}) <= Cardinality(S) + 1
    <3>1. s \notin S
      BY <1>2, <2>5 DEF spared, activeSessions
    <3>2. IsFiniteSet(S \cup {s})
      BY <2>9, FS_AddElement
    <3>3. Cardinality(S \cup {s}) = Cardinality(S) + 1
      BY <2>9, <3>1, FS_AddElement
    <3> QED
      BY <2>9, <3>2, <3>3
  <2>11. Cardinality(T) <= Cardinality(S \cup {s}) /\ Cardinality(T) \in Nat /\ Cardinality(S \cup {s}) \in Nat
    BY <2>8, <2>10, FS_Subset, FS_CardinalityType
  <2>12. IsFiniteSet(X) /\ Cardinality(X) \in Nat /\ Cardinality(ACalls) \in Nat /\ MaxActive \in Nat
    BY <1>1, LimitFinite
  <2>13. Cardinality(Y) = Cardinality(X) + 1
    BY <2>1, <2>2, <2>12, FS_AddElement
  <2> QED
    BY <2>4, <2>5, <2>6, <2>9, <2>10, <2>11, <2>12, <2>13
<1> QED
  BY <1>2, <1>4 DEF LimitInv

LEMMA OutsideLimit ==
  ASSUME LimitInv, RequestReset \/ Suspend \/ Unlock \/ LockExpires \/ SessionExpires \/ ChallengeExpires
  PROVE  LimitInv'
<1>1. AuthTyped
  BY DEF LimitInv
<1>2. /\ AuthTyped' /\ acall' = acall /\ DOMAIN sessions' = DOMAIN sessions
      /\ \A s \in DOMAIN sessions :
           /\ sessions'[s].status = sessions[s].status
           /\ \/ sessions'[s].expired = sessions[s].expired /\ sessions'[s].cached = sessions[s].cached
              \/ sessions'[s].expired /\ ~sessions'[s].cached
  BY <1>1, Outside
<1>3. activeSessions' \subseteq activeSessions
  BY <1>2 DEF activeSessions
<1>4. ASSUME NEW X \in SUBSET ACalls, \A d \in X : Opening(acall'[d])
      PROVE  Cardinality(spared(X)') + Cardinality(X) <= MaxActive - 1 + Cardinality(ACalls)
  <2>1. spared(X)' \subseteq spared(X) /\ \A d \in X : Opening(acall[d])
    BY <1>2, <1>3, <1>4 DEF spared
  <2> QED
    BY <2>1, LimitFrom
<1> QED
  BY <1>2, <1>4 DEF LimitInv

LEMMA LimitStep == ASSUME LimitInv, LinksTyped, AuthStep PROVE LimitInv'
<1>1. AuthTyped
  BY DEF LimitInv
<1>2. CASE \E c \in ACalls : \E k, next : Plain(c, k, next)
  BY <1>2, PlainLimit
<1>3. ASSUME NEW c \in ACalls,
             \/ RevokeOne(c) \/ ClearOne(c) \/ Cache(c) \/ Reuse(c)
             \/ FirstToken(c) \/ Replace(c) \/ MarkUsed(c) \/ TokenExpired(c)
      PROVE  LimitInv'
  <2>1. \E k, new, s : /\ Turned(c, k, new, s)
                       /\ \/ sessions'[s].status = "REVOKED"
                          \/ sessions'[s].status = sessions[s].status /\ sessions'[s].expired = sessions[s].expired
    <3>1. CASE RevokeOne(c)
      <4>1. \E k, new, s : Turned(c, k, new, s) /\ sessions'[s].status = "REVOKED"
        BY <1>1, <3>1, Revokes
      <4> QED
        BY <4>1
    <3>4. CASE ClearOne(c)
      <4>1. \E k, new, s : Turned(c, k, new, s) /\ sessions'[s].status = "REVOKED"
        BY <1>1, <3>4, Clears
      <4> QED
        BY <4>1
    <3>2. CASE Cache(c)
      BY <1>1, <3>2, Caches
    <3>3. CASE Reuse(c) \/ FirstToken(c) \/ Replace(c) \/ MarkUsed(c) \/ TokenExpired(c)
      <4>1. \E k, new, s : Turned(c, k, new, s) /\ sessions'[s] = sessions[s]
        BY <1>1, <3>3, Reuses, Issuing, Marking
      <4> QED
        BY <4>1
    <3> QED
      BY <1>3, <3>1, <3>2, <3>3, <3>4
  <2>2. PICK k, new, s :
          /\ Turned(c, k, new, s)
          /\ \/ sessions'[s].status = "REVOKED"
             \/ sessions'[s].status = sessions[s].status /\ sessions'[s].expired = sessions[s].expired
    BY <2>1
  <2>3. s \in DOMAIN sessions
    BY <2>2 DEF Turned
  <2>4. s \in activeSessions' => s \in activeSessions
    BY <2>2, <2>3 DEF activeSessions
  <2> QED
    BY <2>2, <2>4, TurnedLimit
<1>4. ASSUME NEW c \in ACalls, CreateSession(c) PROVE LimitInv'
  BY <1>4, CreatesLimit
<1>5. CASE RequestReset \/ Suspend \/ Unlock \/ LockExpires \/ SessionExpires \/ ChallengeExpires
  BY <1>5, OutsideLimit
<1> QED
  BY <1>1, <1>2, <1>3, <1>4, <1>5, StepKinds

(* However many logins race each other, each of them opens at most one       *)
(* session that it had no room for: with N calls no more than MaxActive - 1  *)
(* + N sessions are active (session.service.ts:336-348).                     *)
THEOREM LimitCorrect == AuthSpec => []SessionsLimited
<1>1. AuthInit => LimitInv /\ LinksTyped
  <2> SUFFICES ASSUME AuthInit PROVE LimitInv
    BY AuthInitTyped
  <2>1. AuthTyped /\ DOMAIN sessions = {} /\ \A c \in ACalls : acall[c] = Rest
    BY AuthInitTyped DEF AuthInit
  <2>2. ASSUME NEW X \in SUBSET ACalls, \A c \in X : Opening(acall[c])
        PROVE  Cardinality(spared(X)) + Cardinality(X) <= MaxActive - 1 + Cardinality(ACalls)
    <3>1. X = {}
      BY <2>1, <2>2, RestCall
    <3>2. spared(X) = {}
      BY <2>1 DEF spared, activeSessions
    <3>3. Cardinality(ACalls) \in Nat /\ MaxActive \in Nat \ {0}
      BY <2>1, LimitFinite
    <3> QED
      BY <3>1, <3>2, <3>3, FS_EmptySet
  <2> QED
    BY <2>1, <2>2 DEF LimitInv
<1>2. LimitInv /\ LinksTyped /\ [AuthNext]_avars => (LimitInv /\ LinksTyped)'
  <2>1. ASSUME LimitInv, UNCHANGED avars PROVE LimitInv'
    <3>1. UNCHANGED <<account, sessions, tokens, acall>>
      BY <2>1 DEF avars, rows
    <3>2. AuthTyped' = AuthTyped
      BY <3>1 DEF AuthTyped, AuthCallTyped, AuthStepTyped
    <3>3. \A X : spared(X)' = spared(X)
      BY <3>1 DEF spared, activeSessions
    <3> QED
      BY <2>1, <3>1, <3>2, <3>3 DEF LimitInv
  <2> QED
    BY <2>1, LimitStep, LinksStep, AuthUnchanged DEF AuthNext, LimitInv
<1>3. LimitInv => SessionsLimited
  <2> SUFFICES ASSUME LimitInv PROVE SessionsLimited
    OBVIOUS
  <2>1. {} \in SUBSET ACalls
    OBVIOUS
  <2>2. spared({}) = activeSessions
    BY DEF spared
  <2>3. Cardinality(spared({})) + Cardinality({}) <= MaxActive - 1 + Cardinality(ACalls)
    BY <2>1 DEF LimitInv
  <2>4. Cardinality({}) = 0 /\ Cardinality(activeSessions) \in Nat
    BY FS_EmptySet, LimitFinite DEF LimitInv
  <2> QED
    BY <2>2, <2>3, <2>4 DEF SessionsLimited
<1> QED
  BY <1>1, <1>2, <1>3, PTL DEF AuthSpec
-----------------------------------------------------------------------------
(* The type of what AuthTyped leaves out.  Wrong passwords are counted past  *)
(* the limit by the calls that were let in before the lock: while it is      *)
(* open, each count past the bound is a call about to lock the account; once *)
(* locked, only who is at the password counts on.                            *)
LinkStates == {"ACTIVE", "USED", "REVOKED", "EXPIRED"}

CallsAt(step) == {c \in ACalls : acall[c].step = step}

CountedOut ==
  \/ account.failed < 2 * MaxAttempts
  \/ ~account.locked /\ account.failed < 2 * MaxAttempts + Cardinality(CallsAt("lock"))
  \/ /\ account.locked
     /\ account.failed + Cardinality(CallsAt("password")) < 2 * MaxAttempts + Cardinality(ACalls)

RecencyTyped ==
  recency \in Seq(Nat) /\ ToSet(recency) = DOMAIN sessions /\ IsInjective(recency)

LinksKnown == \A l \in DOMAIN links : links[l] \in LinkStates

AuthMore == CountedOut /\ RecencyTyped /\ LinksKnown

LEMMA CallsAtFinite ==
  /\ Cardinality(ACalls) \in Nat
  /\ \A step : /\ IsFiniteSet(CallsAt(step)) /\ Cardinality(CallsAt(step)) \in Nat
               /\ Cardinality(CallsAt(step)) <= Cardinality(ACalls)
  /\ Cardinality(CallsAt("lock")) + Cardinality(CallsAt("password")) <= Cardinality(ACalls)
<1>1. IsFiniteSet(ACalls)
  BY AuthAssumption
<1>2. \A step : CallsAt(step) \subseteq ACalls
  BY DEF CallsAt
<1>3. \A step : /\ IsFiniteSet(CallsAt(step)) /\ Cardinality(CallsAt(step)) \in Nat
                /\ Cardinality(CallsAt(step)) <= Cardinality(ACalls)
  BY <1>1, <1>2, FS_Subset, FS_CardinalityType
<1>4. CallsAt("lock") \cap CallsAt("password") = {}
  BY DEF CallsAt
<1>5. PICK both : both = CallsAt("lock") \cup CallsAt("password")
  OBVIOUS
<1>6. Cardinality(both) = Cardinality(CallsAt("lock")) + Cardinality(CallsAt("password")) - 0
  BY <1>3, <1>4, <1>5, FS_Union, FS_EmptySet
<1>7. Cardinality(both) <= Cardinality(ACalls)
  BY <1>1, <1>2, <1>5, FS_Subset
<1> QED
  BY <1>1, <1>3, <1>6, <1>7, FS_CardinalityType

(* A call comes to a step, or leaves it, alone.                              *)
LEMMA CallsAtMove ==
  ASSUME AuthTyped, NEW c \in ACalls, \A d \in ACalls : d # c => acall'[d] = acall[d], NEW step,
         NEW n, n = Cardinality(CallsAt(step)), NEW m, m = Cardinality(CallsAt(step)')
  PROVE  /\ (acall[c].step = step <=> acall'[c].step = step) => m = n
         /\ acall[c].step = step /\ acall'[c].step # step => m = n - 1
         /\ acall[c].step # step /\ acall'[c].step = step => m = n + 1
<1>0. CallsAt(step)' = {d \in ACalls : acall'[d].step = step}
  BY DEF CallsAt
<1>1. ASSUME acall[c].step = step <=> acall'[c].step = step PROVE m = n
  <2>1. CallsAt(step)' = CallsAt(step)
    BY <1>0, <1>1 DEF CallsAt
  <2> QED
    BY <2>1
<1>2. ASSUME acall[c].step = step, acall'[c].step # step PROVE m = n - 1
  <2>1. CallsAt(step)' = CallsAt(step) \ {c} /\ c \in CallsAt(step)
    BY <1>0, <1>2 DEF CallsAt
  <2> QED
    BY <2>1, CallsAtFinite, FS_RemoveElement
<1>3. ASSUME acall[c].step # step, acall'[c].step = step PROVE m = n + 1
  <2>1. CallsAt(step)' = CallsAt(step) \cup {c} /\ c \notin CallsAt(step)
    BY <1>0, <1>3 DEF CallsAt
  <2> QED
    BY <2>1, CallsAtFinite, FS_AddElement
<1> QED
  BY <1>1, <1>2, <1>3

(* Nothing is counted, nobody comes to the password or leaves the lock.      *)
LEMMA CountKept ==
  ASSUME AuthTyped, AuthTyped', CountedOut,
         account'.failed = account.failed /\ account'.locked = account.locked,
         CallsAt("lock")' = CallsAt("lock") /\ CallsAt("password")' = CallsAt("password")
  PROVE  CountedOut'
  BY DEF CountedOut

LEMMA CountCleared ==
  ASSUME account'.failed = 0 PROVE CountedOut'
<1>1. 0 < 2 * MaxAttempts
  BY AuthAssumption
<1> QED
  BY <1>1 DEF CountedOut

LEMMA CallsAtKept ==
  ASSUME AuthTyped, NEW c \in ACalls, NEW next, Go(c, next), NEW step, step # "idle",
         acall[c].step # step, next.step # step
  PROVE  CallsAt(step)' = CallsAt(step)
<1>1. /\ acall'[c] = IF next.step = "idle" THEN Rest ELSE next
      /\ \A d \in ACalls : d # c => acall'[d] = acall[d]
  BY AuthCallGoes
<1>2. acall'[c].step # step
  BY <1>1, RestCall
<1> QED
  BY <1>1, <1>2 DEF CallsAt

(* The steps that are not taken at the password or before the lock.          *)
GuessesKept == CallsAt("lock")' = CallsAt("lock") /\ CallsAt("password")' = CallsAt("password")

LEMMA GuessesStay ==
  ASSUME AuthTyped, NEW c \in ACalls, NEW next, Go(c, next),
         acall[c].step \notin {"password", "lock"}, next.step \notin {"password", "lock"}
  PROVE  GuessesKept
  BY CallsAtKept DEF GuessesKept

LEMMA BeginsElsewhere ==
  ASSUME AuthTyped, NEW c \in ACalls,
         Revoke(c) \/ RevokeAll(c) \/ Verify(c) \/ Rotate(c) \/ ChangePassword(c) \/ Reset(c)
  PROVE  GuessesKept
<1>1. PICK next : Begin(c, next) /\ next.step \notin {"password", "lock"}
  <2>0. /\ {"revoke", "revokeAll", "verify", "rotate", "change", "reset"} \subseteq AuthOps
        /\ {"idle", "others", "code", "reuse", "expire", "user", "change", "reset", "lapse"} \subseteq AuthSteps
    BY DEF AuthOps, AuthSteps
  <2>1. CASE Revoke(c)
    <3>1. PICK s \in DOMAIN sessions : Begin(c, revokeThen(calling("revoke", "idle"), {s}, "idle"))
      BY <2>1 DEF Revoke
    <3>2. PICK called, next : called = calling("revoke", "idle") /\ next = revokeThen(called, {s}, "idle")
      OBVIOUS
    <3>3. "revoke" \in AuthOps /\ "idle" \in AuthSteps
      BY <2>0
    <3>4. called \in AuthCall
      BY <3>2, <3>3, Called
    <3>5. {s} \subseteq Nat
      BY SessionRows
    <3>6. next.step = "revoke"
      BY <3>2, <3>4, <3>5, RevokesThen
    <3> QED
      BY <3>1, <3>2, <3>6
  <2>2. CASE RevokeAll(c)
    <3>1. PICK s : Begin(c, [calling("revokeAll", "others") EXCEPT !.session = s])
      BY <2>2 DEF RevokeAll
    <3>2. PICK called : called = calling("revokeAll", "others")
      OBVIOUS
    <3>3. called \in AuthCall /\ called.step = "others"
      BY <2>0, <3>2, Called
    <3>4. [called EXCEPT !.session = s].step = "others"
      BY <3>3 DEF AuthCall
    <3> QED
      BY <3>1, <3>2, <3>4
  <2>3. CASE Verify(c)
    <3>1. PICK n, p : Begin(c, [calling("verify", "code") EXCEPT !.token = n, !.password = p])
      BY <2>3 DEF Verify
    <3>2. PICK called : called = calling("verify", "code")
      OBVIOUS
    <3>3. called \in AuthCall /\ called.step = "code"
      BY <2>0, <3>2, Called
    <3>4. [called EXCEPT !.token = n, !.password = p].step = "code"
      BY <3>3 DEF AuthCall
    <3> QED
      BY <3>1, <3>2, <3>4
  <2>4. CASE Rotate(c)
    <3>1. PICK t \in DOMAIN tokens :
            Begin(c, [calling("rotate", CASE tokens[t].status # "ACTIVE" -> "reuse"
                                          [] sessions[tokens[t].session].expired -> "expire"
                                          [] OTHER -> "user")
                        EXCEPT !.token = t, !.session = tokens[t].session])
      BY <2>4, Zenon DEF Rotate
    <3>2. PICK step : step = CASE tokens[t].status # "ACTIVE" -> "reuse"
                               [] sessions[tokens[t].session].expired -> "expire"
                               [] OTHER -> "user"
      OBVIOUS
    <3>3. step \in {"reuse", "expire", "user"}
      BY <3>2
    <3>4. PICK called, s : called = calling("rotate", step) /\ s = tokens[t].session
      OBVIOUS
    <3>5. called \in AuthCall /\ called.step = step
      BY <2>0, <3>3, <3>4, Called
    <3>6. [called EXCEPT !.token = t, !.session = s].step = step
      BY <3>5 DEF AuthCall
    <3> QED
      BY <3>1, <3>2, <3>3, <3>4, <3>6
  <2>5. CASE ChangePassword(c)
    <3>1. PICK s : Begin(c, [calling("change", "change") EXCEPT !.session = s])
      BY <2>5 DEF ChangePassword
    <3>2. PICK called : called = calling("change", "change")
      OBVIOUS
    <3>3. called \in AuthCall /\ called.step = "change"
      BY <2>0, <3>2, Called
    <3>4. [called EXCEPT !.session = s].step = "change"
      BY <3>3 DEF AuthCall
    <3> QED
      BY <3>1, <3>2, <3>4
  <2>6. CASE Reset(c)
    <3>1. PICK l \in DOMAIN links, step \in {"reset", "lapse"} :
            Begin(c, [calling("reset", step) EXCEPT !.token = l])
      BY <2>6 DEF Reset
    <3>2. PICK called : called = calling("reset", step)
      OBVIOUS
    <3>3. called \in AuthCall /\ called.step = step
      BY <2>0, <3>2, Called
    <3>4. [called EXCEPT !.token = l].step = step
      BY <3>3 DEF AuthCall
    <3> QED
      BY <3>1, <3>2, <3>4
  <2> QED
    BY <2>1, <2>2, <2>3, <2>4, <2>5, <2>6
<1> QED
  BY <1>1, GuessesStay DEF Begin, At

LEMMA RevokesElsewhere ==
  ASSUME AuthTyped, NEW c \in ACalls,
         RevokeOne(c) \/ ClearOne(c) \/ Others(c) \/ Limit(c) \/ Reuse(c) \/ ReadUser(c) \/ CreateSession(c)
  PROVE  GuessesKept
<1>1. PICK k : k = acall[c] /\ k \in AuthCall /\ AuthCallTyped(k)
  BY DEF AuthTyped, AuthCallTyped
<1>2. {"revoke", "token", "idle", "create", "replace"} \subseteq AuthSteps
  BY DEF AuthSteps
<1>3. CASE RevokeOne(c)
  <2>1. PICK s : Go(c, [k EXCEPT !.revoking = k.revoking \ {s}, !.clearing = k.clearing \cup {s}])
    BY <1>1, <1>3, Zenon DEF RevokeOne
  <2>2. [k EXCEPT !.revoking = k.revoking \ {s}, !.clearing = k.clearing \cup {s}].step = k.step
    BY <1>1 DEF AuthCall
  <2>3. k.step = "revoke"
    BY <1>1, <1>3 DEF RevokeOne, At
  <2> QED
    BY <1>1, <2>1, <2>2, <2>3, GuessesStay
<1>4. CASE ClearOne(c)
  <2>1. PICK s : Go(c, [k EXCEPT !.clearing = k.clearing \ {s},
                                 !.step = IF k.revoking = {} /\ k.clearing = {s} THEN k.then ELSE k.step])
    BY <1>1, <1>4, Zenon DEF ClearOne
  <2>2. PICK step : step = IF k.revoking = {} /\ k.clearing = {s} THEN k.then ELSE k.step
    OBVIOUS
  <2>3. k.step = "revoke" /\ k.then \in {"idle", "create"}
    BY <1>1, <1>4 DEF ClearOne, At, AuthCall
  <2>4. [k EXCEPT !.clearing = k.clearing \ {s}, !.step = step].step = step
    BY <1>1 DEF AuthCall
  <2> QED
    BY <1>1, <2>1, <2>2, <2>3, <2>4, GuessesStay
<1>5. ASSUME NEW S, S \subseteq DOMAIN sessions, NEW then \in {"idle", "create"}, Go(c, revokeThen(k, S, then)),
             k.step \notin {"password", "lock"}
      PROVE  GuessesKept
  <2>1. PICK next : next = revokeThen(k, S, then)
    OBVIOUS
  <2>2. S \subseteq Nat
    BY <1>5, SessionRows
  <2>3. next.step \in {"revoke", then}
    BY <1>1, <1>5, <2>1, <2>2, RevokesThen
  <2> QED
    BY <1>1, <1>5, <2>1, <2>3, GuessesStay
<1>6. CASE Others(c)
  <2>1. k.step = "others" /\ Go(c, revokeThen(k, others(k.session), "idle"))
    BY <1>1, <1>6 DEF Others, At
  <2>2. others(k.session) \subseteq DOMAIN sessions
    BY DEF others
  <2> QED
    BY <1>5, <2>1, <2>2
<1>7. CASE Limit(c)
  <2>1. PICK S \in SUBSET activeSessions : Go(c, revokeThen(k, S, "create"))
    BY <1>1, <1>7, Zenon DEF Limit
  <2>2. S \subseteq DOMAIN sessions /\ k.step = "limit"
    BY <1>1, <1>7 DEF Limit, At, activeSessions
  <2> QED
    BY <1>5, <2>1, <2>2
<1>8. ASSUME k.op = "rotate", k.session # 0 PROVE {k.session} \subseteq DOMAIN sessions
  BY <1>1, <1>8, SessionRows DEF AuthCallTyped, worksOn
<1>9. k.step \in {"reuse", "user"} => k.op = "rotate" /\ k.session # 0
  BY <1>1, RestCall DEF AuthCallTyped, AuthStepTyped
<1>10. CASE Reuse(c)
  <2>1. k.step = "reuse" /\ Go(c, revokeThen(k, {k.session}, "idle"))
    BY <1>1, <1>10, Zenon DEF Reuse, At
  <2> QED
    BY <1>5, <1>8, <1>9, <2>1
<1>11. CASE ReadUser(c)
  <2>1. k.step = "user" /\ (Go(c, revokeThen(k, {k.session}, "idle")) \/ GoTo(c, "replace"))
    BY <1>1, <1>11, Zenon DEF ReadUser, At
  <2>2. CASE Go(c, revokeThen(k, {k.session}, "idle"))
    BY <1>5, <1>8, <1>9, <2>1, <2>2
  <2>3. CASE GoTo(c, "replace")
    <3>1. PICK next : next = [k EXCEPT !.step = "replace"]
      OBVIOUS
    <3>2. next.step = "replace" /\ Go(c, next)
      BY <1>1, <1>2, <2>3, <3>1, Stepped DEF GoTo
    <3> QED
      BY <1>1, <2>1, <3>2, GuessesStay
  <2> QED
    BY <2>1, <2>2, <2>3
<1>12. CASE CreateSession(c)
  <2>1. PICK n : Go(c, [k EXCEPT !.step = "token", !.session = n]) /\ k.step = "create"
    BY <1>1, <1>12, Zenon DEF CreateSession, At
  <2>2. [k EXCEPT !.step = "token", !.session = n].step = "token"
    BY <1>1 DEF AuthCall
  <2> QED
    BY <1>1, <2>1, <2>2, GuessesStay
<1> QED
  BY <1>3, <1>4, <1>6, <1>7, <1>10, <1>11, <1>12

LEMMA StepsElsewhere ==
  ASSUME AuthTyped, NEW c \in ACalls,
         \/ Challenge(c) \/ RightCode(c) \/ FirstToken(c) \/ Cache(c) \/ TokenExpired(c) \/ Replace(c)
         \/ MarkUsed(c) \/ Touch(c) \/ WritePassword(c) \/ LinkLapsed(c) \/ UseLink(c)
  PROVE  GuessesKept
<1>1. PICK k : k = acall[c] /\ k \in AuthCall
  BY DEF AuthTyped, AuthCallTyped
<1>2. PICK step \in {"idle", "limit", "cache", "used", "touch", "others"} : GoTo(c, step)
  BY DEF Challenge, RightCode, FirstToken, Cache, TokenExpired, Replace, MarkUsed, Touch, WritePassword,
     LinkLapsed, UseLink
<1>3. k.step \notin {"password", "lock"}
  BY <1>1 DEF Challenge, RightCode, FirstToken, Cache, TokenExpired, Replace, MarkUsed, Touch, WritePassword,
     LinkLapsed, UseLink, At
<1>4. PICK next : next = [k EXCEPT !.step = step]
  OBVIOUS
<1>5. step \in AuthSteps
  BY <1>2 DEF AuthSteps
<1>6. next.step = step /\ Go(c, next)
  BY <1>1, <1>2, <1>4, <1>5, Stepped DEF GoTo
<1> QED
  BY <1>1, <1>2, <1>3, <1>6, GuessesStay

(* The account counts on, is locked or is cleared.                           *)
LEMMA CountStep ==
  ASSUME AuthTyped, AuthTyped', CountedOut, AuthStep
  PROVE  CountedOut'
<1>0. account \in AccountRow /\ account.failed \in Nat /\ MaxAttempts \in Nat \ {0}
  BY AuthAssumption DEF AuthTyped, AccountRow
<1>1. ASSUME NEW c \in ACalls,
             \/ Revoke(c) \/ RevokeAll(c) \/ Verify(c) \/ Rotate(c) \/ ChangePassword(c) \/ Reset(c)
             \/ RevokeOne(c) \/ ClearOne(c) \/ Others(c) \/ Limit(c) \/ Reuse(c) \/ ReadUser(c) \/ CreateSession(c)
             \/ Challenge(c) \/ RightCode(c) \/ FirstToken(c) \/ Cache(c) \/ TokenExpired(c) \/ Replace(c)
             \/ MarkUsed(c) \/ Touch(c) \/ LinkLapsed(c)
      PROVE  CountedOut'
  <2>1. GuessesKept
    BY <1>1, BeginsElsewhere, RevokesElsewhere, StepsElsewhere
  <2>2. account' = account
    BY <1>1, Zenon DEF Revoke, RevokeAll, Verify, Rotate, ChangePassword, Reset, RevokeOne, ClearOne, Others, Limit,
       Reuse, ReadUser, CreateSession, Challenge, RightCode, FirstToken, Cache, TokenExpired, Replace, MarkUsed,
       Touch, LinkLapsed
  <2> QED
    BY <2>1, <2>2, CountKept DEF GuessesKept
<1>2. ASSUME NEW c \in ACalls, WritePassword(c) PROVE CountedOut'
  <2>1. GuessesKept
    BY <1>2, StepsElsewhere
  <2>2. account' = [account EXCEPT !.password = account.password + 1]
    BY <1>2 DEF WritePassword
  <2>3. account'.failed = account.failed /\ account'.locked = account.locked
    BY <1>0, <2>2 DEF AccountRow
  <2> QED
    BY <2>1, <2>3, CountKept DEF GuessesKept
<1>3. ASSUME NEW c \in ACalls, UseLink(c) \/ RightPassword(c) PROVE CountedOut'
  <2>1. account'.failed = 0
    BY <1>0, <1>3 DEF UseLink, RightPassword, AccountRow
  <2> QED
    BY <2>1, CountCleared
<1>4. CASE Unlock
  <2>1. account'.failed = 0
    BY <1>0, <1>4 DEF Unlock, AccountRow
  <2> QED
    BY <2>1, CountCleared
<1>5. CASE LockExpires
  <2>1. account'.failed = account.failed /\ account.failed < 2 * MaxAttempts
    BY <1>0, <1>5 DEF LockExpires, AccountRow
  <2> QED
    BY <2>1 DEF CountedOut
<1>6. CASE RequestReset \/ Suspend \/ SessionExpires \/ ChallengeExpires
  <2>1. acall' = acall
    BY <1>6, Zenon DEF RequestReset, Suspend, SessionExpires, ChallengeExpires
  <2>2. account'.failed = account.failed /\ account'.locked = account.locked
    <3>1. account' = account \/ account' = [account EXCEPT !.status = "SUSPENDED"]
      BY <1>6, Zenon DEF RequestReset, Suspend, SessionExpires, ChallengeExpires
    <3> QED
      BY <1>0, <3>1 DEF AccountRow
  <2> QED
    BY <2>1, <2>2, CountKept DEF CallsAt
<1>7. PICK N, L, P, L1, P1 :
        /\ N = Cardinality(ACalls) /\ L = Cardinality(CallsAt("lock")) /\ P = Cardinality(CallsAt("password"))
        /\ L1 = Cardinality(CallsAt("lock")') /\ P1 = Cardinality(CallsAt("password")')
  OBVIOUS
<1>8. N \in Nat /\ L \in Nat /\ P \in Nat /\ L + P <= N
  BY <1>7, CallsAtFinite
<1>9. ASSUME NEW c \in ACalls, Login(c) \/ WrongPassword(c) \/ Lock(c)
      PROVE  CountedOut'
  <2>1. PICK k : k = acall[c] /\ k \in AuthCall
    BY DEF AuthTyped, AuthCallTyped
  <2>2. PICK next : /\ Go(c, next)
                    /\ Login(c) => next.step = "password"
                    /\ WrongPassword(c) => next.step = IF account.failed + 1 >= MaxAttempts THEN "lock" ELSE "idle"
                    /\ Lock(c) => next.step = "idle"
    <3>1. CASE Login(c)
      <4>1. PICK p : Begin(c, [calling("login", "password") EXCEPT !.password = p])
        BY <3>1 DEF Login
      <4>2. PICK called : called = calling("login", "password")
        OBVIOUS
      <4>3. called \in AuthCall /\ called.step = "password"
        <5>1. "login" \in AuthOps /\ "password" \in AuthSteps
          BY DEF AuthOps, AuthSteps
        <5> QED
          BY <4>2, <5>1, Called
      <4>4. [called EXCEPT !.password = p].step = "password"
        BY <4>3 DEF AuthCall
      <4>5. ~WrongPassword(c) /\ ~Lock(c)
        BY <4>1 DEF WrongPassword, Lock, At, Begin
      <4> QED
        BY <4>1, <4>2, <4>4, <4>5 DEF Begin
    <3>2. ASSUME NEW step \in {"lock", "idle"}, GoTo(c, step)
          PROVE  \E next : Go(c, next) /\ next.step = step
      <4>1. PICK next : next = [k EXCEPT !.step = step]
        OBVIOUS
      <4>2. step \in AuthSteps
        BY DEF AuthSteps
      <4> QED
        BY <2>1, <3>2, <4>1, <4>2, Stepped DEF GoTo
    <3>3. CASE WrongPassword(c)
      <4>1. PICK step : step = IF account.failed + 1 >= MaxAttempts THEN "lock" ELSE "idle"
        OBVIOUS
      <4>2. GoTo(c, step) /\ step \in {"lock", "idle"}
        BY <3>3, <4>1 DEF WrongPassword
      <4>3. ~Login(c) /\ ~Lock(c)
        BY <3>3 DEF WrongPassword, Lock, Login, At, Begin
      <4> QED
        BY <3>2, <4>1, <4>2, <4>3
    <3>4. CASE Lock(c)
      <4>1. GoTo(c, "idle") /\ ~Login(c) /\ ~WrongPassword(c)
        BY <3>4 DEF WrongPassword, Lock, Login, At, Begin
      <4> QED
        BY <3>2, <4>1
    <3> QED
      BY <1>9, <3>1, <3>3, <3>4
  <2>3. /\ acall'[c] = IF next.step = "idle" THEN Rest ELSE next
        /\ \A d \in ACalls : d # c => acall'[d] = acall[d]
    BY <2>2, AuthCallGoes
  <2>4. acall'[c].step = next.step
    BY <2>3, RestCall
  <2>5. CountedOut' <=>
          \/ account'.failed < 2 * MaxAttempts
          \/ ~account'.locked /\ account'.failed < 2 * MaxAttempts + L1
          \/ account'.locked /\ account'.failed + P1 < 2 * MaxAttempts + N
    BY <1>7 DEF CountedOut
  <2>6. \/ account.failed < 2 * MaxAttempts
        \/ ~account.locked /\ account.failed < 2 * MaxAttempts + L
        \/ account.locked /\ account.failed + P < 2 * MaxAttempts + N
    BY <1>7 DEF CountedOut
  <2>7. CASE Login(c)
    <3>1. k.step = "idle" /\ ~account.locked /\ account' = account /\ next.step = "password"
      BY <2>1, <2>2, <2>7 DEF Login, Begin, At, isLocked
    <3>2. L1 = L
      BY <1>7, <2>1, <2>3, <2>4, <3>1, CallsAtMove
    <3> QED
      BY <2>5, <2>6, <3>1, <3>2
  <2>8. CASE WrongPassword(c)
    <3>1. k.step = "password" /\ account' = [account EXCEPT !.failed = account.failed + 1]
      BY <2>1, <2>8 DEF WrongPassword, At
    <3>2. account'.failed = account.failed + 1 /\ account'.locked = account.locked
      BY <1>0, <3>1 DEF AccountRow
    <3>3. P1 = P - 1
      BY <1>7, <2>1, <2>2, <2>3, <2>4, <2>8, <3>1, CallsAtMove
    <3>4. account.failed + 1 >= MaxAttempts => L1 = L + 1
      BY <1>7, <2>1, <2>2, <2>3, <2>4, <2>8, <3>1, CallsAtMove
    <3>5. CASE account.failed + 1 < 2 * MaxAttempts
      BY <2>5, <3>2, <3>5
    <3>6. CASE account.failed + 1 >= 2 * MaxAttempts
      <4>1. L1 = L + 1
        BY <1>0, <3>4, <3>6
      <4>2. CASE account.locked
        <5>1. account.failed + P < 2 * MaxAttempts + N
          BY <1>0, <1>8, <2>6, <4>2
        <5> QED
          BY <1>0, <1>8, <2>5, <3>2, <3>3, <4>2, <5>1
      <4>3. CASE ~account.locked
        <5>1. account.failed < 2 * MaxAttempts + L
          BY <1>0, <1>8, <2>6, <4>3
        <5> QED
          BY <1>0, <1>8, <2>5, <3>2, <4>1, <4>3, <5>1
      <4> QED
        BY <4>2, <4>3
    <3> QED
      BY <1>0, <3>5, <3>6
  <2>9. CASE Lock(c)
    <3>1. k.step = "lock" /\ account' = [account EXCEPT !.locked = TRUE] /\ next.step = "idle"
      BY <2>1, <2>2, <2>9 DEF Lock, At
    <3>2. account'.failed = account.failed /\ account'.locked
      BY <1>0, <3>1 DEF AccountRow
    <3>3. P1 = P
      BY <1>7, <2>1, <2>3, <2>4, <3>1, CallsAtMove
    <3>4. P + L <= N /\ (account.failed < 2 * MaxAttempts \/ account.failed + P < 2 * MaxAttempts + N)
      BY <1>0, <1>8, <2>6
    <3> QED
      BY <2>5, <3>2, <3>3, <3>4
  <2> QED
    BY <1>9, <2>7, <2>8, <2>9
<1> QED
  BY <1>1, <1>2, <1>3, <1>4, <1>5, <1>6, <1>9 DEF AuthStep

(* Around place i of n: the places before it, and those after it.            *)
LEMMA PlacesAround ==
  ASSUME NEW n \in Int, NEW i \in 1 .. n
  PROVE  /\ (i - 1) + (n - i) = n - 1
         /\ n - (i + 1) + 1 = n - i /\ \A j \in Int : (i + 1) + j - 1 = i + j
         /\ \A j \in 1 .. (n - 1) : IF j < i THEN j \in 1 .. (i - 1) /\ j <= i - 1
                                     ELSE /\ j - (i - 1) \in 1 .. (n - i) /\ ~(j <= i - 1)
                                          /\ i + (j - (i - 1)) = j + 1
  OBVIOUS

(* A session that was used moves to the end.                                 *)
LEMMA MovedLast ==
  ASSUME NEW s \in Seq(Nat), IsInjective(s), NEW i \in DOMAIN s, NEW new, new = Append(RemoveAt(s, i), s[i])
  PROVE  new \in Seq(Nat) /\ ToSet(new) = ToSet(s) /\ IsInjective(new)
<1>1. PICK n \in Nat : n = Len(s) /\ DOMAIN s = 1 .. n /\ i \in 1 .. n /\ i \in Int
  OBVIOUS
<1>p. /\ (i - 1) + (n - i) = n - 1
      /\ n - (i + 1) + 1 = n - i /\ \A j \in Int : (i + 1) + j - 1 = i + j
      /\ \A j \in 1 .. (n - 1) : IF j < i THEN j \in 1 .. (i - 1) /\ j <= i - 1
                                  ELSE /\ j - (i - 1) \in 1 .. (n - i) /\ ~(j <= i - 1)
                                       /\ i + (j - (i - 1)) = j + 1
  <2>1. n \in Int
    OBVIOUS
  <2> QED
    BY <1>1, <2>1, PlacesAround, Zenon
<1>2. PICK front, back : front = SubSeq(s, 1, i - 1) /\ back = SubSeq(s, i + 1, n)
  OBVIOUS
<1>3. /\ front \in Seq(Nat) /\ Len(front) = i - 1 /\ \A j \in 1 .. (i - 1) : front[j] = s[j]
  <2>1. i - 1 \in Int /\ \A j \in 1 .. (i - 1) : s[j] \in Nat
    BY <1>1
  <2>2. /\ front \in Seq(Nat) /\ Len(front) = IF 1 <= i - 1 THEN (i - 1) - 1 + 1 ELSE 0
        /\ \A j \in 1 .. ((i - 1) - 1 + 1) : front[j] = s[1 + j - 1]
    BY <1>2, <2>1, SubSeqProperties
  <2>3. (i - 1) - 1 + 1 = i - 1 /\ \A j \in 1 .. (i - 1) : 1 + j - 1 = j
    BY <1>1
  <2> QED
    BY <1>1, <2>2, <2>3
<1>4. back \in Seq(Nat) /\ Len(back) = n - i /\ \A j \in 1 .. (n - i) : back[j] = s[i + j]
  <2>1. PICK a \in Int : a = i + 1 /\ a >= 1
    BY <1>1
  <2>2. n \in Int /\ \A j \in a .. n : s[j] \in Nat
    BY <1>1, <2>1
  <2>3. back = SubSeq(s, a, n)
    BY <1>2, <2>1
  <2>4. /\ back \in Seq(Nat) /\ Len(back) = IF a <= n THEN n - a + 1 ELSE 0
        /\ \A j \in 1 .. (n - a + 1) : back[j] = s[a + j - 1]
    BY <2>2, <2>3, SubSeqProperties
  <2>5. n - a + 1 = n - i /\ \A j \in Int : a + j - 1 = i + j
    BY <1>p, <2>1, Zenon
  <2>6. Len(back) = n - i
    BY <1>1, <2>1, <2>4
  <2>7. \A j \in 1 .. (n - i) : j \in Int
    OBVIOUS
  <2> QED
    BY <2>4, <2>5, <2>6, <2>7
<1>5. PICK rest : rest = front \o back
  OBVIOUS
<1>6. rest \in Seq(Nat) /\ Len(rest) = n - 1
  <2>1. Len(rest) = Len(front) + Len(back) /\ rest \in Seq(Nat)
    BY <1>3, <1>4, <1>5, ConcatProperties
  <2> QED
    BY <1>3, <1>4, <1>p, <2>1, Zenon
<1>a. Len(front) = i - 1 /\ Len(back) = n - i
  BY <1>3, <1>4, Zenon
<1>7. ASSUME NEW j \in 1 .. (n - 1) PROVE rest[j] = IF j < i THEN s[j] ELSE s[j + 1]
  <2>1. j \in 1 .. (Len(front) + Len(back)) /\ j \in Int
    BY <1>1, <1>a, <1>7
  <2>2. rest[j] = IF j <= Len(front) THEN front[j] ELSE back[j - Len(front)]
    BY <1>3, <1>4, <1>5, <2>1, ConcatProperties
  <2>3. CASE j < i
    <3>1. j \in 1 .. (i - 1) /\ j <= Len(front)
      BY <1>a, <1>p, <2>3, Zenon
    <3> QED
      BY <1>3, <2>2, <2>3, <3>1
  <2>4. CASE ~(j < i)
    <3>1. j - (i - 1) \in 1 .. (n - i) /\ ~(j <= Len(front)) /\ i + (j - (i - 1)) = j + 1
      BY <1>a, <1>p, <2>4, Zenon
    <3>2. back[j - (i - 1)] = s[i + (j - (i - 1))]
      BY <1>4, <3>1
    <3> QED
      BY <1>3, <2>2, <2>4, <3>1, <3>2
  <2> QED
    BY <2>3, <2>4
<1>8. new = Append(rest, s[i])
  BY <1>1, <1>2, <1>5 DEF RemoveAt
<1>9. /\ new \in Seq(Nat) /\ DOMAIN new = 1 .. n /\ new[n] = s[i]
      /\ \A j \in 1 .. (n - 1) : new[j] = rest[j]
  <2>1. Len(rest) + 1 = n /\ s[i] \in Nat
    BY <1>1, <1>6
  <2> QED
    BY <1>1, <1>6, <1>8, <2>1
<1>10. PICK at : at = [j \in 1 .. n |-> IF j = n THEN i ELSE IF j < i THEN j ELSE j + 1]
  OBVIOUS
<1>11. ASSUME NEW j \in 1 .. n PROVE at[j] \in 1 .. n /\ new[j] = s[at[j]]
  <2>1. CASE j = n
    BY <1>1, <1>9, <1>10, <2>1
  <2>2. CASE j # n
    <3>1. j \in 1 .. (n - 1)
      BY <1>1, <2>2
    <3>2. new[j] = IF j < i THEN s[j] ELSE s[j + 1]
      BY <1>7, <1>9, <3>1
    <3>3. at[j] = IF j < i THEN j ELSE j + 1
      BY <1>10, <2>2
    <3> QED
      BY <1>1, <3>1, <3>2, <3>3
  <2> QED
    BY <2>1, <2>2
<1>12. \A j \in 1 .. n, l \in 1 .. n : at[j] = at[l] => j = l
  BY <1>1, <1>10
<1>13. \A l \in 1 .. n : \E j \in 1 .. n : at[j] = l
  <2> SUFFICES ASSUME NEW l \in 1 .. n PROVE \E j \in 1 .. n : at[j] = l
    OBVIOUS
  <2>1. CASE l = i
    BY <1>1, <1>10, <2>1
  <2>2. CASE l < i
    BY <1>1, <1>10, <2>2
  <2>3. CASE l > i
    <3>1. l - 1 \in 1 .. n /\ l - 1 # n /\ ~(l - 1 < i) /\ (l - 1) + 1 = l
      BY <1>1, <2>3
    <3> QED
      BY <1>10, <3>1
  <2> QED
    BY <1>1, <2>1, <2>2, <2>3
<1>14. ASSUME NEW j \in 1 .. n, NEW l \in 1 .. n, new[j] = new[l] PROVE j = l
  <2>1. s[at[j]] = s[at[l]] /\ at[j] \in 1 .. n /\ at[l] \in 1 .. n
    BY <1>11, <1>14
  <2>2. at[j] = at[l]
    BY <1>1, <2>1 DEF IsInjective
  <2> QED
    BY <1>12, <2>2
<1>15. \A e : (\E j \in 1 .. n : new[j] = e) <=> (\E l \in 1 .. n : s[l] = e)
  <2>1. ASSUME NEW l \in 1 .. n PROVE \E j \in 1 .. n : new[j] = s[l]
    <3>1. PICK j \in 1 .. n : at[j] = l
      BY <1>13
    <3>2. new[j] = s[at[j]]
      BY <1>11
    <3> QED
      BY <3>1, <3>2
  <2>2. ASSUME NEW j \in 1 .. n PROVE \E l \in 1 .. n : s[l] = new[j]
    BY <1>11
  <2>3. ASSUME NEW e, NEW l \in 1 .. n, s[l] = e PROVE \E j \in 1 .. n : new[j] = e
    BY <2>1, <2>3
  <2>4. ASSUME NEW e, NEW j \in 1 .. n, new[j] = e PROVE \E l \in 1 .. n : s[l] = e
    BY <2>2, <2>4
  <2> QED
    BY <2>3, <2>4, Zenon
<1>16. \A e : e \in ToSet(new) <=> e \in ToSet(s)
  <2>1. \A e : e \in ToSet(new) <=> \E j \in 1 .. n : new[j] = e
    BY <1>9 DEF ToSet
  <2>2. \A e : e \in ToSet(s) <=> \E j \in 1 .. n : s[j] = e
    BY <1>1 DEF ToSet
  <2> QED
    BY <1>15, <2>1, <2>2
<1>17. ToSet(new) = ToSet(s)
  BY <1>16
<1>18. IsInjective(new)
  BY <1>9, <1>14 DEF IsInjective
<1> QED
  BY <1>9, <1>17, <1>18

LEMMA RecencyStep ==
  ASSUME AuthTyped, RecencyTyped, AuthStep
  PROVE  RecencyTyped'
<1>0. DOMAIN sessions = 1 .. Len(sessions) /\ Len(sessions) \in Nat
  BY SessionRows
<1>1. ASSUME recency' = recency, DOMAIN sessions' = DOMAIN sessions PROVE RecencyTyped'
  BY <1>1 DEF RecencyTyped
<1>2. ASSUME NEW c \in ACalls,
             \/ Revoke(c) \/ RevokeAll(c) \/ Others(c) \/ Login(c) \/ WrongPassword(c) \/ Lock(c)
             \/ RightPassword(c) \/ Challenge(c) \/ Verify(c) \/ RightCode(c) \/ Limit(c)
             \/ FirstToken(c) \/ Rotate(c) \/ Reuse(c) \/ TokenExpired(c) \/ ReadUser(c) \/ Replace(c)
             \/ MarkUsed(c) \/ ChangePassword(c) \/ Reset(c) \/ LinkLapsed(c) \/ UseLink(c)
      PROVE  RecencyTyped'
  <2>1. recency' = recency /\ sessions' = sessions
    BY <1>2, Zenon DEF Revoke, RevokeAll, Others, Login, WrongPassword, Lock, RightPassword, Challenge, Verify,
       RightCode, Limit, FirstToken, Rotate, Reuse, TokenExpired, ReadUser, Replace, MarkUsed, ChangePassword,
       Reset, LinkLapsed, UseLink, rows
  <2> QED
    BY <1>1, <2>1
<1>3. CASE RequestReset \/ Suspend \/ Unlock \/ LockExpires \/ ChallengeExpires
  <2>1. recency' = recency /\ sessions' = sessions
    BY <1>3 DEF RequestReset, Suspend, Unlock, LockExpires, ChallengeExpires, rows
  <2> QED
    BY <1>1, <2>1
<1>4. ASSUME NEW s, NEW new, sessions' = [sessions EXCEPT ![s] = new] PROVE DOMAIN sessions' = DOMAIN sessions
  BY <1>4
<1>5. ASSUME NEW c \in ACalls, RevokeOne(c) \/ ClearOne(c) \/ Cache(c) \/ WritePassword(c) PROVE RecencyTyped'
  <2>1. recency' = recency
    BY <1>5, Zenon DEF RevokeOne, ClearOne, Cache, WritePassword
  <2>2. DOMAIN sessions' = DOMAIN sessions
    <3>1. CASE RevokeOne(c)
      <4>1. PICK s : sessions' = [sessions EXCEPT ![s].status = "REVOKED"]
        BY <3>1, Zenon DEF RevokeOne, revokeSession
      <4> QED
        BY <4>1
    <3>2. CASE ClearOne(c)
      <4>1. PICK s : sessions' = [sessions EXCEPT ![s].cached = FALSE]
        BY <3>2, Zenon DEF ClearOne
      <4> QED
        BY <4>1
    <3>3. CASE Cache(c)
      BY <3>3 DEF Cache
    <3>4. CASE WritePassword(c)
      BY <3>4 DEF WritePassword
    <3> QED
      BY <1>5, <3>1, <3>2, <3>3, <3>4
  <2> QED
    BY <1>1, <2>1, <2>2
<1>6. CASE SessionExpires
  <2>1. recency' = recency
    BY <1>6, Zenon DEF SessionExpires
  <2>2. PICK s : sessions' = [sessions EXCEPT ![s].expired = TRUE, ![s].cached = FALSE]
    BY <1>6, Zenon DEF SessionExpires
  <2>3. DOMAIN sessions' = DOMAIN sessions
    BY <2>2
  <2> QED
    BY <1>1, <2>1, <2>3
<1>7. ASSUME NEW c \in ACalls, CreateSession(c) PROVE RecencyTyped'
  <2>1. PICK new : sessions' = Append(sessions, new)
    BY <1>7 DEF CreateSession
  <2>2. PICK n \in Nat : n = Len(sessions)
    BY <1>0
  <2>3. Len(sessions') = n + 1 /\ DOMAIN sessions' = 1 .. (n + 1)
    BY <1>0, <2>1, <2>2 DEF AuthTyped
  <2>4. recency' = Append(recency, n + 1)
    BY <1>7, <2>3 DEF CreateSession
  <2>5. PICK m \in Nat : m = Len(recency) /\ DOMAIN recency = 1 .. m
    BY DEF RecencyTyped
  <2>6. /\ recency' \in Seq(Nat) /\ DOMAIN recency' = 1 .. (m + 1) /\ recency'[m + 1] = n + 1
        /\ \A j \in 1 .. m : recency'[j] = recency[j]
    BY <2>4, <2>5 DEF RecencyTyped
  <2>7. \A j \in 1 .. m : recency[j] \in 1 .. n
    BY <1>0, <2>2, <2>5 DEF RecencyTyped, ToSet
  <2>8. \A k \in 1 .. n : \E j \in 1 .. m : recency[j] = k
    BY <1>0, <2>2, <2>5 DEF RecencyTyped, ToSet
  <2>9. \A j, l \in 1 .. (m + 1) : recency'[j] = recency'[l] => j = l
    <3>1. \A j, l \in 1 .. m : recency[j] = recency[l] => j = l
      BY <2>5 DEF RecencyTyped, IsInjective
    <3> QED
      BY <2>2, <2>5, <2>6, <2>7, <3>1
  <2>10. ToSet(recency') = DOMAIN sessions'
    <3>1. \A k \in 1 .. (n + 1) : \E j \in 1 .. (m + 1) : recency'[j] = k
      <4> SUFFICES ASSUME NEW k \in 1 .. (n + 1) PROVE \E j \in 1 .. (m + 1) : recency'[j] = k
        OBVIOUS
      <4>1. CASE k = n + 1
        BY <2>5, <2>6, <4>1
      <4>2. CASE k # n + 1
        <5>1. PICK j \in 1 .. m : recency[j] = k
          BY <2>2, <2>8, <4>2
        <5> QED
          BY <2>5, <2>6, <5>1
      <4> QED
        BY <4>1, <4>2
    <3>2. \A j \in 1 .. (m + 1) : recency'[j] \in 1 .. (n + 1)
      BY <2>2, <2>5, <2>6, <2>7
    <3>3. \A v : v \in ToSet(recency') <=> \E j \in 1 .. (m + 1) : recency'[j] = v
      BY <2>6 DEF ToSet
    <3>4. \A v : v \in ToSet(recency') <=> v \in 1 .. (n + 1)
      BY <3>1, <3>2, <3>3
    <3> QED
      BY <2>3, <3>4
  <2> QED
    BY <2>6, <2>9, <2>10 DEF RecencyTyped, IsInjective
<1>8. ASSUME NEW c \in ACalls, Touch(c) PROVE RecencyTyped'
  <2>1. PICK i \in DOMAIN recency : recency[i] = acall[c].session
                                    /\ recency' = Append(RemoveAt(recency, i), acall[c].session)
    BY <1>8 DEF Touch
  <2>2. recency' = Append(RemoveAt(recency, i), recency[i])
    BY <2>1
  <2>3. recency' \in Seq(Nat) /\ ToSet(recency') = ToSet(recency) /\ IsInjective(recency')
    BY <2>2, MovedLast DEF RecencyTyped
  <2>4. sessions' = sessions
    BY <1>8 DEF Touch
  <2> QED
    BY <2>3, <2>4 DEF RecencyTyped
<1> QED
  BY <1>2, <1>3, <1>5, <1>6, <1>7, <1>8 DEF AuthStep

LEMMA LinksKnownStep ==
  ASSUME LinksKnown, AuthStep
  PROVE  LinksKnown'
<1>1. ASSUME links' = links PROVE LinksKnown'
  BY <1>1 DEF LinksKnown
<1>2. ASSUME NEW c \in ACalls,
             \/ Revoke(c) \/ RevokeAll(c) \/ Others(c) \/ Login(c) \/ WrongPassword(c) \/ Lock(c)
             \/ RightPassword(c) \/ Verify(c) \/ Limit(c) \/ CreateSession(c) \/ Cache(c) \/ Touch(c)
             \/ FirstToken(c) \/ Rotate(c) \/ Reuse(c) \/ TokenExpired(c) \/ ReadUser(c) \/ Replace(c)
             \/ MarkUsed(c) \/ ChangePassword(c) \/ Reset(c) \/ WritePassword(c) \/ RevokeOne(c) \/ ClearOne(c)
      PROVE  links' = links
  BY <1>2, Zenon DEF Revoke, RevokeAll, Others, Login, WrongPassword, Lock, RightPassword, Verify, Limit,
     CreateSession, Cache, Touch, FirstToken, Rotate, Reuse, TokenExpired, ReadUser, Replace, MarkUsed,
     ChangePassword, Reset, WritePassword, RevokeOne, ClearOne
<1>3. CASE Suspend \/ Unlock \/ LockExpires \/ SessionExpires \/ ChallengeExpires
  BY <1>1, <1>3, Zenon DEF Suspend, Unlock, LockExpires, SessionExpires, ChallengeExpires
<1>4. ASSUME NEW c \in ACalls, Challenge(c) \/ RightCode(c) PROVE LinksKnown'
  <2>1. links' = links
    BY <1>4 DEF Challenge, RightCode
  <2> QED
    BY <1>1, <2>1
<1>5. ASSUME NEW c \in ACalls, LinkLapsed(c) \/ UseLink(c) PROVE LinksKnown'
  <2>1. \E l : \E state \in LinkStates : links' = [links EXCEPT ![l] = state]
    <3>1. \E l : links' = [links EXCEPT ![l] = "EXPIRED"] \/ links' = [links EXCEPT ![l] = "USED"]
      BY <1>5, Zenon DEF LinkLapsed, UseLink
    <3>2. "EXPIRED" \in LinkStates /\ "USED" \in LinkStates
      BY DEF LinkStates
    <3> QED
      BY <3>1, <3>2, Zenon
  <2>3. ASSUME NEW l, NEW state \in LinkStates, links' = [links EXCEPT ![l] = state] PROVE LinksKnown'
    BY <2>3 DEF LinksKnown
  <2> QED
    BY <2>1, <2>3
<1>6. CASE RequestReset
  <2>1. links = <<>>
    BY <1>6 DEF RequestReset
  <2>2. PICK old : old = [l \in DOMAIN links |-> IF links[l] = "ACTIVE" THEN "REVOKED" ELSE links[l]]
    OBVIOUS
  <2>3. links' = Append(old, "ACTIVE")
    BY <1>6, <2>2 DEF RequestReset
  <2>4. DOMAIN old = {}
    BY <2>1, <2>2
  <2>5. old = <<>>
    BY <2>2, <2>4
  <2>6. links' = <<"ACTIVE">>
    BY <2>3, <2>5
  <2>7. DOMAIN links' = {1} /\ links'[1] = "ACTIVE"
    BY <2>6
  <2> QED
    BY <2>7 DEF LinksKnown, LinkStates
<1> QED
  BY <1>1, <1>2, <1>3, <1>4, <1>5, <1>6 DEF AuthStep

LEMMA AuthMoreStep == AuthTyped /\ LinksTyped /\ AuthMore /\ [AuthNext]_avars => AuthMore'
<1> SUFFICES ASSUME AuthTyped, LinksTyped, AuthMore, [AuthNext]_avars PROVE AuthMore'
  OBVIOUS
<1>1. CASE AuthNext
  <2>1. AuthStep /\ AuthTyped'
    BY <1>1, AuthTypedStep DEF AuthNext
  <2> QED
    BY <2>1, CountStep, RecencyStep, LinksKnownStep DEF AuthMore
<1>2. CASE UNCHANGED avars
  <2>1. UNCHANGED <<account, sessions, recency, links, acall>>
    BY <1>2 DEF avars, rows
  <2> QED
    BY <2>1 DEF AuthMore, CountedOut, CallsAt, RecencyTyped, LinksKnown
<1> QED
  BY <1>1, <1>2

(* Sessions, tokens and links are well formed, the order of use lists every  *)
(* session once, and wrong passwords are not counted further past the limit  *)
(* than the calls that are let in before the lock                            *)
(* (account-security.service.ts:55-78).                                      *)
THEOREM AuthTypeCorrect == AuthSpec => []AuthTypeOK
<1>1. AuthInit => AuthMore
  <2> SUFFICES ASSUME AuthInit PROVE AuthMore
    OBVIOUS
  <2>1. account.failed = 0
    BY DEF AuthInit
  <2>2. CountedOut
    BY <2>1, AuthAssumption DEF CountedOut
  <2>3. recency = <<>> /\ sessions = <<>> /\ links = <<>>
    BY DEF AuthInit
  <2>4. RecencyTyped
    BY <2>3 DEF RecencyTyped, ToSet, IsInjective
  <2> QED
    BY <2>2, <2>3, <2>4 DEF AuthMore, LinksKnown
<1>2. AuthTyped /\ LinksTyped /\ AuthMore => AuthTypeOK
  <2> SUFFICES ASSUME AuthTyped, LinksTyped, AuthMore PROVE AuthTypeOK
    OBVIOUS
  <2>1. account.status \in {"ACTIVE", "SUSPENDED"} /\ account.failed \in Nat
    BY DEF AuthTyped, AccountRow
  <2>2. account.failed < 2 * MaxAttempts + Cardinality(ACalls)
    <3>1. /\ MaxAttempts \in Nat /\ Cardinality(ACalls) \in Nat
          /\ Cardinality(CallsAt("lock")) \in Nat /\ Cardinality(CallsAt("password")) \in Nat
          /\ Cardinality(CallsAt("lock")) <= Cardinality(ACalls)
      BY CallsAtFinite, AuthAssumption
    <3>2. CountedOut
      BY DEF AuthMore
    <3>3. CASE account.failed < 2 * MaxAttempts
      BY <2>1, <3>1, <3>3
    <3>4. CASE account.failed < 2 * MaxAttempts + Cardinality(CallsAt("lock"))
      BY <2>1, <3>1, <3>4
    <3>5. CASE account.failed + Cardinality(CallsAt("password")) < 2 * MaxAttempts + Cardinality(ACalls)
      BY <2>1, <3>1, <3>5
    <3> QED
      BY <3>2, <3>3, <3>4, <3>5 DEF CountedOut
  <2>3. \A s \in DOMAIN sessions : sessions[s].status \in {"ACTIVE", "REVOKED"}
    BY SessionRows DEF SessionRow
  <2>4. \A t \in DOMAIN tokens : /\ tokens[t].session \in DOMAIN sessions
                                 /\ tokens[t].status \in {"ACTIVE", "USED", "REVOKED", "EXPIRED"}
    BY SessionRows DEF TokenRow, AuthTyped
  <2>5. ToSet(links) \subseteq {"ACTIVE", "USED", "REVOKED", "EXPIRED"}
    BY DEF AuthMore, LinksKnown, LinkStates, ToSet
  <2>6. \A n \in DOMAIN challenges : challenges[n].password \in Nat
    BY ChallengeRows
  <2> QED
    BY <2>1, <2>2, <2>3, <2>4, <2>5, <2>6 DEF AuthTypeOK, AuthMore, RecencyTyped
<1>3. AuthInv => AuthTyped
  BY DEF AuthInv
<1> QED
  BY <1>1, <1>2, <1>3, AuthMoreStep, AuthInvAlways, PTL DEF AuthSpec
-----------------------------------------------------------------------------
(* Side by side, each service behaves as it does alone: the wallet bridge is *)
(* the only state two of them share, and the game table's debits and credits *)
(* are made while only the table is followed.                                *)
THEOREM ServicesImplementAuth == ServicesSpec => AuthSpec
<1>1. ServicesInit => AuthInit
  BY DEF ServicesInit
<1>2. [ServicesNext]_svcVars => [AuthNext]_avars
  <2>1. ServicesNext => AuthNext \/ UNCHANGED avars
    BY Zenon DEF ServicesNext, FollowTournament, FollowAuth, FollowTable, FollowSports, FollowRewards, FollowBoard,
       FollowRuntime
  <2>2. UNCHANGED svcVars => UNCHANGED avars
    BY DEF svcVars
  <2> QED
    BY <2>1, <2>2
<1> QED
  BY <1>1, <1>2, PTL DEF ServicesSpec, AuthSpec

(* The same for rewards, boards, the runtime of a room and bets.             *)
THEOREM ServicesImplementPlay == ServicesSpec => RewardsSpec /\ BoardSpec /\ RuntimeSpec /\ SportsSpec
<1>1. ServicesInit => RewardsInit /\ BoardInit /\ RuntimeInit /\ SportsInit
  BY DEF ServicesInit
<1>2. [ServicesNext]_svcVars =>
        /\ [RewardsNext]_rvars /\ [BoardNext]_bvars /\ [RuntimeNext]_hvars /\ [SportsNext]_svars
  <2>1. ServicesNext => /\ RewardsNext \/ UNCHANGED rvars
                        /\ BoardNext \/ UNCHANGED bvars
                        /\ RuntimeNext \/ UNCHANGED hvars
                        /\ SportsNext \/ UNCHANGED svars
    BY Zenon DEF ServicesNext, FollowTournament, FollowAuth, FollowTable, FollowSports, FollowRewards, FollowBoard,
       FollowRuntime
  <2>2. UNCHANGED svcVars => UNCHANGED rvars /\ UNCHANGED bvars /\ UNCHANGED hvars /\ UNCHANGED svars
    BY DEF svcVars
  <2> QED
    BY <2>1, <2>2
<1> QED
  BY <1>1, <1>2, PTL DEF ServicesSpec, RewardsSpec, BoardSpec, RuntimeSpec, SportsSpec

(* The table shares the wallet bridge with the tournament: it behaves as it  *)
(* does alone in the behaviours that follow it.                              *)
THEOREM ServicesImplementTable == ServicesSpec /\ focus = "table" => TableSpec
<1>1. ServicesInit => TableInit
  BY DEF ServicesInit
<1>2. focus = "table" /\ [ServicesNext]_svcVars => (focus = "table")' /\ [TableNext]_gvars
  <2>1. focus = "table" /\ ServicesNext => focus' = "table" /\ TableNext
    BY DEF ServicesNext, FollowTournament, FollowAuth, FollowTable, FollowSports, FollowRewards, FollowBoard,
       FollowRuntime
  <2>2. UNCHANGED svcVars => UNCHANGED focus /\ UNCHANGED gvars
    BY DEF svcVars, tableVars, gvars
  <2> QED
    BY <2>1, <2>2
<1> QED
  BY <1>1, <1>2, PTL DEF ServicesSpec, TableSpec

(* The tournament shares the wallet bridge with the table: it behaves as it  *)
(* does alone in the behaviours that follow it.                              *)
THEOREM ServicesImplementTournament == ServicesSpec /\ focus = "tournament" => TournamentSpec
<1>1. ServicesInit => TournamentInit
  BY DEF ServicesInit
<1>2. focus = "tournament" /\ [ServicesNext]_svcVars => (focus = "tournament")' /\ [TournamentNext]_tvars
  <2>1. focus = "tournament" /\ ServicesNext => focus' = "tournament" /\ TournamentNext
    BY DEF ServicesNext, FollowTournament, FollowAuth, FollowTable, FollowSports, FollowRewards, FollowBoard,
       FollowRuntime
  <2>2. UNCHANGED svcVars => UNCHANGED focus /\ UNCHANGED tvars
    BY DEF svcVars, tournamentVars, tvars
  <2> QED
    BY <2>1, <2>2
<1> QED
  BY <1>1, <1>2, PTL DEF ServicesSpec, TournamentSpec

(* The types, whichever service is followed.  The wallet bridge serves the   *)
(* tournament and the table: neither makes a reservation without a stake.    *)
LEMMA TableStaked == ASSUME TableTyped, WalletShaped, Staked, TableNext PROVE WalletShaped' /\ Staked'
<1>1. ASSUME NEW c \in GCalls, StakeRound(c) PROVE WalletShaped' /\ Staked'
  <2>1. gcall[c].step \in Persisting
    BY <1>1 DEF StakeRound, Persisting
  <2>2. gcall[c].result.stake > 0
    BY <2>1, Persists, GameTableAssumption DEF RoundResult
  <2>3. ReserveBet(gcall[c].result.round, gcall[c].result.stake) \/ UNCHANGED wallet
    BY <1>1 DEF StakeRound, BetRefused
  <2> QED
    BY <2>2, <2>3, BetsStaked, BetsKeep, WalletRests DEF Staked
<1>2. ASSUME NEW c \in GCalls, SettleRound(c) \/ SettleRoundFails(c) PROVE WalletShaped' /\ Staked'
  <2>1. PICK k, win : k = gcall[c].result.round /\ win = gcall[c].result.win
    OBVIOUS
  <2>2. SettleBet(k, win) \/ SettleBetFails(k, win)
    BY <1>2, <2>1 DEF SettleRound, SettleRoundFails
  <2>3. CASE k \in DOMAIN wallet
    <3>1. WalletShaped'
      BY <2>2, <2>3, SettlesKeep, FailsKeep
    <3>2. Staked'
      BY <2>2, <2>3, SettlesStaked
    <3> QED
      BY <3>1, <3>2
  <2>4. CASE k \notin DOMAIN wallet
    <3>0. PICK r : wallet' = [wallet EXCEPT ![k] = r]
      BY <2>2, Zenon DEF SettleBet, SettleBetFails
    <3>1. DOMAIN wallet' = DOMAIN wallet /\ \A j \in DOMAIN wallet : wallet'[j] = wallet[j]
      BY <2>4, <3>0
    <3> QED
      BY <3>1 DEF WalletShaped, Staked
  <2> QED
    BY <2>3, <2>4
<1>3. ASSUME UNCHANGED wallet PROVE WalletShaped' /\ Staked'
  BY <1>3 DEF WalletShaped, Staked
<1>4. ASSUME NEW c \in GCalls, Play(c) \/ Deal(c) \/ Hit(c) \/ Stand(c) \/ EndTable(c) PROVE UNCHANGED wallet
  BY <1>4 DEF Play, Deal, Hit, Stand, EndTable, Reads
<1>5. ASSUME NEW c \in GCalls, Write(c) \/ WriteBust(c) \/ FinishRound(c) \/ RecordResult(c) \/ Tally(c)
                               \/ CompleteSession(c) \/ Delete(c)
      PROVE  UNCHANGED wallet
  BY <1>5 DEF Write, WriteBust, FinishRound, RecordResult, Tally, CompleteSession, Delete
<1> QED
  BY <1>1, <1>2, <1>3, <1>4, <1>5, Zenon DEF TableNext

(* What is typed of the tournament and the table, followed or not.           *)
SharedTypes ==
  /\ TableTyped /\ WalletShaped /\ Staked
  /\ TypedRow(row) /\ tpc \in [TCalls -> TournamentSteps] /\ toverlapped \in BOOLEAN
  /\ focus = "tournament" => TypesInv

LEMMA SharedStep == ASSUME PaysTyped PROVE SharedTypes /\ [ServicesNext]_svcVars => SharedTypes'
<1> SUFFICES ASSUME SharedTypes, [ServicesNext]_svcVars PROVE SharedTypes'
  OBVIOUS
<1>1. CASE FollowTournament /\ UNCHANGED focus
  <2>1. TypesInv'
    BY <1>1, TypesStep DEF FollowTournament, SharedTypes
  <2>2. TableTyped'
    BY <1>1 DEF FollowTournament, tableVars, SharedTypes, TableTyped, CallTyped
  <2> QED
    BY <2>1, <2>2 DEF SharedTypes, TypesInv, EntrantsInv
<1>2. CASE FollowTable /\ UNCHANGED focus
  <2>1. TableTyped'
    BY <1>2, TypedStep DEF FollowTable, SharedTypes
  <2>2. WalletShaped' /\ Staked'
    BY <1>2, TableStaked DEF FollowTable, SharedTypes
  <2>3. UNCHANGED <<row, tpc, toverlapped>> /\ focus' # "tournament"
    BY <1>2 DEF FollowTable, tournamentVars, tcalls
  <2> QED
    BY <2>1, <2>2, <2>3 DEF SharedTypes, TypedRow
<1>3. CASE UNCHANGED <<focus, wallet, tournamentVars, tableVars>>
  <2>1. UNCHANGED <<focus, wallet, row, tpc, tcall, tseen, toverlapped>>
    BY <1>3 DEF tournamentVars, tcalls
  <2>2. TableTyped' /\ WalletShaped' /\ Staked' /\ TypedRow(row)'
    BY <1>3, <2>1 DEF tableVars, SharedTypes, TableTyped, CallTyped, WalletShaped, Staked, TypedRow
  <2>3. focus = "tournament" => TypesInv'
    <3>1. UNCHANGED tvars
      BY <2>1 DEF tvars, tcalls
    <3> QED
      BY <3>1, TypesStep DEF SharedTypes
  <2> QED
    BY <2>1, <2>2, <2>3 DEF SharedTypes
<1>4. ServicesNext => \/ FollowTournament /\ UNCHANGED focus
                      \/ FollowTable /\ UNCHANGED focus
                      \/ UNCHANGED <<focus, wallet, tournamentVars, tableVars>>
  BY Zenon DEF ServicesNext, FollowAuth, FollowSports, FollowRewards, FollowBoard, FollowRuntime
<1>5. UNCHANGED svcVars => UNCHANGED <<focus, wallet, tournamentVars, tableVars>>
  BY DEF svcVars
<1> QED
  BY <1>1, <1>2, <1>3, <1>4, <1>5

(* Every variable of every service is well formed, whichever is followed.    *)
THEOREM ServicesTypeCorrect ==
  ASSUME PaysTyped
  PROVE  ServicesSpec => []ServicesTypeOK
<1>1. ServicesInit => SharedTypes
  <2> SUFFICES ASSUME ServicesInit PROVE SharedTypes
    OBVIOUS
  <2>1. TypesInv
    BY TypesStart DEF ServicesInit
  <2>2. TableTyped
    BY TypedInit DEF ServicesInit
  <2> QED
    BY <2>1, <2>2 DEF SharedTypes, TypesInv, EntrantsInv
<1>2. SharedTypes => TournamentTypeOK /\ TableTypeOK
  <2> SUFFICES ASSUME SharedTypes PROVE TournamentTypeOK /\ TableTypeOK
    OBVIOUS
  <2>1. TournamentTypeOK
    BY TypedRowsFit DEF SharedTypes
  <2>2. TableTypeOK
    BY TypedTables DEF SharedTypes
  <2> QED
    BY <2>1, <2>2
<1>3. ServicesSpec => [](TournamentTypeOK /\ TableTypeOK)
  BY <1>1, <1>2, SharedStep, PTL DEF ServicesSpec
<1> QED
  BY <1>3, ServicesImplementAuth, ServicesImplementPlay, AuthTypeCorrect, SportsTypeCorrect, RewardsTypeCorrect,
     BoardTypeCorrect, RuntimeTypeCorrect, PTL DEF ServicesTypeOK

(* So what is proved of a session, a reward, a board, a room or a bet holds  *)
(* however the services are composed.                                        *)
THEOREM ServicesCorrect ==
  ServicesSpec =>
    /\ [](RevokedIsOver /\ LivesByOneToken /\ SessionsLimited /\ PasswordEndsSessions)
    /\ [](RewardsPaidOnce /\ RanksFollowScores /\ RoomHearsRuntime /\ SlipFollowsLegs)
    /\ SlipsSettleOnce
  BY ServicesImplementAuth, ServicesImplementPlay, RevokedCorrect, OneTokenCorrect, LimitCorrect, PasswordCorrect,
     RewardsCorrect, RanksCorrect, RoomCorrect, SlipsCorrect, SettleOnceCorrect, PTL
=============================================================================
