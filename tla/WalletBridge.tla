---------------------------- MODULE WalletBridge ----------------------------
(* wallet-bridge.service.ts, through which games and tournaments move money. *)
(* The wallet itself is WalletEngine; here it is what a caller sees of it:   *)
(* under the key of a round there is a reservation, open until it is settled *)
(* with a win.                                                               *)
EXTENDS Naturals

VARIABLE wallet \* key of a round -> its reservation

NoMoves == [k \in {} |-> 0]

IsOpen(k) == k \in DOMAIN wallet /\ wallet[k].open

IsSettled(k) == k \in DOMAIN wallet /\ ~wallet[k].open

(* `failed' is no field of the code's: the caller that settled it last was   *)
(* answered with an error.                                                   *)
Reservation(stake) == [stake |-> stake, win |-> 0, open |-> TRUE, failed |-> FALSE]

(* The wallet with more under the new keys K.                                *)
also(K, r) == [k \in K \cup DOMAIN wallet |-> IF k \in DOMAIN wallet THEN wallet[k] ELSE r]

(* reserveBet opens a reservation, or finds the open one its key made.       *)
ReserveBet(k, stake) ==
  \/ /\ k \notin DOMAIN wallet
     /\ wallet' = also({k}, Reservation(stake))
  \/ /\ IsOpen(k)
     /\ UNCHANGED wallet

(* Funds or limits refuse it; or its key is used and nothing is open: then   *)
(* reserve answers with the id of a transaction, for which no reservation is *)
(* found.                                                                    *)
BetRefused(k) ==
  /\ ~IsOpen(k)
  /\ UNCHANGED wallet

(* settle resolves an open reservation and leaves a resolved one alone.      *)
committed(r, win) == IF r.open THEN [r EXCEPT !.win = win, !.open = FALSE] ELSE r

SettleBet(k, win) == wallet' = [wallet EXCEPT ![k] = [committed(wallet[k], win) EXCEPT !.failed = FALSE]]

(* Its transaction may also fail (retries that are used up, a database that  *)
(* is lost): the error is logged and thrown on, the reservation stays as it  *)
(* was, or was resolved all the same before the answer was lost.             *)
SettleBetFails(k, win) ==
  \E r \in {wallet[k], committed(wallet[k], win)} :
    wallet' = [wallet EXCEPT ![k] = [r EXCEPT !.failed = TRUE]]

(* settleImmediate does nothing without a stake.                             *)
HasStake(stake) == stake > 0

(* settleImmediate for many keys, of callers that wait for each in turn and  *)
(* hold nothing else meanwhile.                                              *)
SettleImmediately(keys, stake, win) ==
  IF HasStake(stake)
  THEN wallet' = also(keys, [stake |-> stake, win |-> win, open |-> FALSE, failed |-> FALSE])
  ELSE UNCHANGED wallet
=============================================================================
