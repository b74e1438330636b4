--------------------------- MODULE MCWalletEngine ---------------------------
(* WalletEngine bounded for TLC: one player with two wallets and at most     *)
(* MaxTxns transaction rows.  Nothing tells the rounds apart but equality.   *)
EXTENDS WalletEngine, TLC

CONSTANT MaxTxns

MCNext == Next /\ Len(txns') <= MaxTxns

MCSpec == Init /\ [][MCNext]_vars

RoundSymmetry == Permutations(Refs)
=============================================================================
