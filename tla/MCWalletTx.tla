----------------------------- MODULE MCWalletTx -----------------------------
(* WalletTx bounded for TLC.  One player, two wallets; the MAIN wallet was   *)
(* credited 3 and holds two reservations of 1, a state WalletEngine reaches  *)
(* in three steps, so that the requests race for it at once.                 *)
EXTENDS WalletTx

CONSTANTS u1, bonus, r1, r2, r3, k1, k2, MaxTxns

VARIABLE load  \* the requests that arrive in this behaviour

main == <<u1, MAIN>>
side == <<u1, bonus>>

MCIdOrder == [w \in Wallets |-> IF w = main THEN 1 ELSE 2]

Held(amount, ref) ==
  [wallet |-> main, amount |-> amount, reason |-> ref, status |-> "LOCKED"]

MCStart ==
  LET b0 == emptyBalance
      b1 == credit(b0, 3)
      b2 == reserve(b1, 1)
      b3 == reserve(b2, 1)
  IN
  /\ TxStart
  /\ status = [w \in Wallets |-> "ACTIVE"]
  /\ balance = [w \in Wallets |-> IF w = main THEN b3 ELSE b0]
  /\ lockedFunds = <<Held(1, r1), Held(1, r2)>>
  /\ txns = <<Row(main, "CREDIT", 3, b0, b1, NoKey, AutoRef, 0),
              Row(main, "RESERVE", 1, b1, b2, NoKey, <<"stake", r1>>, 0),
              Row(main, "RESERVE", 1, b2, b3, NoKey, <<"stake", r2>>, 0)>>
  /\ books = postCash([a \in Accounts |-> [play |-> 0, cash |-> 0]], House, main, 3)

Bounded == Len(txns') <= MaxTxns

Commit(win, key) == [op |-> "commit", fund |-> 1, win |-> win, key |-> key]
Release(key)     == [op |-> "release", fund |-> 1, key |-> key]
Debit1(key)      == [op |-> "debit", wallet |-> main, amount |-> 1, key |-> key]
Undo(row, key)   == [op |-> "rollback", row |-> row, key |-> key]
Credit1(key)     == [op |-> "credit", wallet |-> side, amount |-> 1, key |-> key]
Move(f, t, key)  ==
  [op |-> "transfer", from |-> f, to |-> t, amount |-> 1, key |-> key]
Reserve1(ref, key) ==
  [op |-> "reserve", wallet |-> main, amount |-> 1, ref |-> ref, key |-> key]

(* A round settled twice and cancelled while the player stakes on the next   *)
(* one, twice ...                                                            *)
SettleRequests == {Commit(2, k2), Commit(0, NoKey), Release(NoKey), Reserve1(r3, k1)}

(* ... movements between the wallets, in both directions, and a correction   *)
(* ...                                                                       *)
MoveRequests == {Move(main, side, k1), Move(side, main, NoKey), Undo(1, NoKey)}

(* ... and requests under one key, retried, for one wallet and for the       *)
(* other, and a freeze.                                                      *)
DuplicateRequests == {Debit1(k1), Credit1(k1)}

Loads == {SettleRequests, MoveRequests, DuplicateRequests}

MCRequests == UNION Loads

ASSUME CommitKeysApart

MCInit == MCStart /\ load \in Loads

Arrive == \E p \in Procs, r \in load : Submit(p, r)

Freeze ==
  /\ load = DuplicateRequests
  /\ \E to \in {"ACTIVE", "FROZEN"} : TxSetStatus(main, to)

MCNext ==
  /\ \/ Arrive
     \/ \E p \in Procs : Serve(p) \/ Crash(p)
     \/ \E w \in Wallets : Expire(w)
     \/ Freeze
  /\ Bounded
  /\ UNCHANGED load

(* A caller whose backend died is not answered; everybody else is.           *)
MCSpec ==
  /\ MCInit
  /\ [][MCNext]_<<txVars, load>>
  /\ \A p \in Procs : WF_txVars(Serve(p) /\ Bounded)
=============================================================================
