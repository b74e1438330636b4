---------------------------- MODULE MCWalletCore ----------------------------
(* WalletCore bounded for TLC: at most MaxReservations stakes and at most    *)
(* MaxDeposited of outside money in the wallets.                             *)
EXTENDS WalletCore

CONSTANTS MaxReservations, MaxDeposited

MCNext ==
  /\ Next
  /\ Len(reservations') <= MaxReservations
  /\ -system'.external <= MaxDeposited

MCSpec == Init /\ [][MCNext]_vars
=============================================================================
