--------------------------- MODULE MCCrashSession ---------------------------
(* A stake with an automatic cash-out and one without; rounds that bust at   *)
(* once and rounds that one of the two multipliers comes before, in turn.    *)
EXTENDS CrashSession

MCBets == {[bet |-> 1, auto |-> 0], [bet |-> 2, auto |-> 2]}

MCCrashPoint(n) == IF n % 2 = 0 THEN 3 ELSE 1

(* The schedules RoundEnds speaks of: rounds started over the socket, and a  *)
(* table that takes one call after another.                                  *)
SocketSpec ==
  /\ Init
  /\ [][Next /\ ~overlapped' /\ ~overHttp']_vars
  /\ Fairness
=============================================================================
