------------------------------ MODULE Rewards -------------------------------
(* What a user is given: reward claims (reward.service.ts) and bonus wallets *)
(* (bonus-wallet.service.ts).  Each call is a reading, some payment and a    *)
(* plain update, with other calls between them; any of them may stop         *)
(* half-way.  Every reward and every bonus is worth one unit.                *)
EXTENDS Naturals, FiniteSets, Sequences

CONSTANTS RCalls,     \* requests that can be in flight at once
          Kinds,      \* types of the rewards that are granted
          Wagers,     \* wagering requirements of a bonus
          MaxClaims,  \* bounds: on claims,
          MaxBonuses  \* and on bonus wallets, when one more is asked for

ASSUME RewardsAssumption == Wagers \subseteq Nat

VARIABLES claims,  \* reward claims
          bonuses, \* bonus wallets
          moves,   \* credits of the main wallet
          rcall,   \* call -> where it is, and what it read
          rshared, \* claims and bonuses two calls worked on at once
          rlost    \* bonuses whose conversion stopped half-way

rewardRows == <<claims, bonuses>>

rvars == <<rewardRows, moves, rcall, rshared, rlost>>

RRest == [step |-> "idle", on |-> <<"none">>]

RewardsInit ==
  /\ claims = <<>>
  /\ bonuses = <<>>
  /\ moves = <<>>
  /\ rcall = [c \in RCalls |-> RRest]
  /\ rshared = {}
  /\ rlost = {}

RGo(c, next) == rcall' = [rcall EXCEPT ![c] = next]

(* A call is at work on a claim or a bonus.                                  *)
RBegin(c, next) ==
  /\ rcall[c] = RRest
  /\ RGo(c, next)
  /\ rshared' = rshared \cup {on \in {next.on} : \E d \in RCalls \ {c} : rcall[d].on = on}
  /\ UNCHANGED <<rewardRows, moves, rlost>>

(* Mutant: a credit without a key.                                           *)
creditAgain(key) == moves' = Append(moves, key)

(* The wallet engine credits once per key (WalletEngine, DuplicatesAgree).   *)
creditOnce(key) == moves' = IF key \in {moves[i] : i \in DOMAIN moves} THEN moves ELSE Append(moves, key)
-----------------------------------------------------------------------------
(* grant: a pending claim.                                                   *)
GrantReward ==
  /\ Len(claims) < MaxClaims
  /\ \E kind \in Kinds : claims' = Append(claims, [kind |-> kind, status |-> "PENDING", worthless |-> FALSE])
  /\ UNCHANGED <<bonuses, moves, rcall, rshared, rlost>>

(* claim: a pending claim is paid by a credit or by a bonus, or not at all   *)
(* when the request names no currency.                                       *)
ClaimReward(c) ==
  \E i \in DOMAIN claims, currency \in BOOLEAN :
    /\ claims[i].status = "PENDING"
    /\ RBegin(c, [on |-> <<"claim", i>>, paying |-> currency,
                  step |-> CASE currency /\ claims[i].kind \in {"CASH", "CASHBACK"} -> "credit"
                             [] currency /\ claims[i].kind = "BONUS" -> "bonus"
                             [] OTHER -> "mark"])

(* The credit may be refused: then the claim stays pending.                  *)
CreditClaim(c) ==
  /\ rcall[c].step = "credit"
  /\ \/ creditOnce(rcall[c].on) /\ RGo(c, [rcall[c] EXCEPT !.step = "mark"])
     \/ UNCHANGED moves /\ RGo(c, RRest)
  /\ UNCHANGED <<rewardRows, rshared, rlost>>

(* BonusWalletService.grant: a new wallet, whoever asks and however often.   *)
BonusFor(origin, required) ==
  [origin |-> origin, required |-> required, wagered |-> 0, balance |-> 1, status |-> "ACTIVE"]

BonusClaim(c) ==
  /\ rcall[c].step = "bonus"
  /\ Len(bonuses) <= MaxBonuses \* bound
  /\ bonuses' = Append(bonuses, BonusFor(rcall[c].on, 0))
  /\ RGo(c, [rcall[c] EXCEPT !.step = "mark"])
  /\ UNCHANGED <<claims, moves, rshared, rlost>>

MarkClaimed(c) ==
  /\ rcall[c].step = "mark"
  /\ LET i == rcall[c].on[2] IN
     claims' = [claims EXCEPT ![i].status = "CLAIMED", ![i].worthless = @ \/ ~rcall[c].paying]
  /\ RGo(c, RRest)
  /\ UNCHANGED <<bonuses, moves, rshared, rlost>>
-----------------------------------------------------------------------------
GrantBonus ==
  /\ Len(bonuses) < MaxBonuses
  /\ \E required \in Wagers : bonuses' = Append(bonuses, BonusFor(<<"request">>, required))
  /\ UNCHANGED <<claims, moves, rcall, rshared, rlost>>

(* addWagering: the progress that was read and one more.                     *)
Wager(c) ==
  \E b \in DOMAIN bonuses :
    /\ bonuses[b].wagered < bonuses[b].required \* bound
    /\ RBegin(c, [on |-> <<"bonus", b>>, step |-> "wager", progress |-> bonuses[b].wagered + 1])

WriteWager(c) ==
  /\ rcall[c].step = "wager"
  /\ bonuses' = [bonuses EXCEPT ![rcall[c].on[2]].wagered = rcall[c].progress]
  /\ RGo(c, RRest)
  /\ UNCHANGED <<claims, moves, rshared, rlost>>

(* convert: the wallet is emptied and closed, then the balance that was read *)
(* is credited, once per wallet.                                             *)
Convert(c) ==
  \E b \in DOMAIN bonuses :
    /\ bonuses[b].wagered >= bonuses[b].required
    /\ bonuses[b].balance > 0
    /\ RBegin(c, [on |-> <<"bonus", b>>, step |-> "close"])

CloseBonus(c) ==
  /\ rcall[c].step = "close"
  /\ bonuses' = [bonuses EXCEPT ![rcall[c].on[2]].balance = 0, ![rcall[c].on[2]].status = "CLOSED"]
  /\ RGo(c, [rcall[c] EXCEPT !.step = "pay"])
  /\ UNCHANGED <<claims, moves, rshared, rlost>>

PayBonus(c) ==
  /\ rcall[c].step = "pay"
  /\ \/ creditOnce(rcall[c].on) /\ UNCHANGED rlost
     \/ UNCHANGED moves /\ rlost' = rlost \cup {rcall[c].on[2]}
  /\ RGo(c, RRest)
  /\ UNCHANGED <<rewardRows, rshared>>
-----------------------------------------------------------------------------
(* A call stops where it is: an error of the database, or the process dies.  *)
CallDies(c) ==
  /\ rcall[c] # RRest
  /\ RGo(c, RRest)
  /\ rlost' = rlost \cup (IF rcall[c].step = "pay" THEN {rcall[c].on[2]} ELSE {})
  /\ rshared' = rshared \cup {rcall[c].on}
  /\ UNCHANGED <<rewardRows, moves>>

RewardsNext ==
  \/ GrantReward
  \/ GrantBonus
  \/ \E c \in RCalls :
       \/ ClaimReward(c) \/ CreditClaim(c) \/ BonusClaim(c) \/ MarkClaimed(c)
       \/ Wager(c) \/ WriteWager(c) \/ Convert(c) \/ CloseBonus(c) \/ PayBonus(c)
       \/ CallDies(c)

RewardsSpec == RewardsInit /\ [][RewardsNext]_rvars
-----------------------------------------------------------------------------
(* Type invariant.                                                           *)
RewardsTypeOK ==
  /\ \A i \in DOMAIN claims : claims[i].kind \in Kinds /\ claims[i].status \in {"PENDING", "CLAIMED"}
  /\ \A b \in DOMAIN bonuses : bonuses[b].balance \in 0..1 /\ bonuses[b].status \in {"ACTIVE", "CLOSED"}
  /\ rlost \subseteq DOMAIN bonuses

paid(key) == Cardinality({i \in DOMAIN moves : moves[i] = key})

given(key) == Cardinality({b \in DOMAIN bonuses : bonuses[b].origin = key})

(* Requests that race, fail half-way and are repeated neither pay a reward   *)
(* or a bonus twice nor lose one: a claim that was settled with a currency   *)
(* is paid exactly once (a bonus reward, which has no key, may be given      *)
(* again when two requests share it or one died); a converted bonus is paid  *)
(* exactly once, unless its conversion stopped between the closing and the   *)
(* credit (reward.service.ts:53-74, bonus-wallet.service.ts:61-83).          *)
RewardsPaidOnce ==
  /\ \A i \in DOMAIN claims :
       LET key  == <<"claim", i>>
           done == claims[i].status = "CLAIMED" /\ ~claims[i].worthless IN
       CASE claims[i].kind \in {"CASH", "CASHBACK"} ->
              paid(key) <= 1 /\ (done => paid(key) = 1)
         [] claims[i].kind = "BONUS" ->
              /\ done => given(key) >= 1
              /\ key \notin rshared => given(key) <= 1
         [] OTHER -> paid(key) + given(key) = 0
  /\ \A b \in DOMAIN bonuses :
       LET key == <<"bonus", b>>
           busy == \E c \in RCalls : rcall[c].on = key IN
       /\ paid(key) + bonuses[b].balance <= 1
       /\ paid(key) + bonuses[b].balance = 0 => busy \/ b \in rlost
=============================================================================
