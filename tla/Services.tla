------------------------------ MODULE Services ------------------------------
(* The services around the wallet, side by side.  They share no state but    *)
(* the wallet bridge, under keys of their own, so a behaviour follows one of *)
(* them, its `focus', while the others stay as they began.                   *)
EXTENDS Tournament, AuthSession, GameTable, Sportsbook, Rewards, Leaderboard, GameRuntime

VARIABLE focus \* the service whose calls are followed

ServiceNames == {"tournament", "auth", "table", "sports", "rewards", "board", "runtime"}

tournamentVars == <<row, tcalls, toverlapped>>

tableVars == <<opened, grecord, gcall, gresults, gsession, unfunded, goverlapped>>

svcVars == <<focus, wallet, tournamentVars, avars, tableVars, svars, rvars, bvars, hvars>>

(* A service that is not followed begins in one of its states, whichever.    *)
AtRest ==
  /\ focus # "tournament" => row = Created(CHOOSE s \in Setups : s.invited = Users)
  /\ focus # "auth" => scope = CHOOSE s \in Scopes : TRUE
  /\ focus # "table" => opened = CHOOSE t \in Tables : TRUE
  /\ focus # "sports" => book = CHOOSE b \in Books : TRUE

ServicesInit ==
  /\ focus \in ServiceNames
  /\ TournamentInit
  /\ AuthInit
  /\ TableInit
  /\ SportsInit
  /\ RewardsInit
  /\ BoardInit
  /\ RuntimeInit
  /\ AtRest

FollowTournament ==
  /\ focus = "tournament"
  /\ TournamentNext
  /\ UNCHANGED <<avars, tableVars, svars, rvars, bvars, hvars>>

FollowAuth ==
  /\ focus = "auth"
  /\ AuthNext
  /\ UNCHANGED <<wallet, tournamentVars, tableVars, svars, rvars, bvars, hvars>>

FollowTable ==
  /\ focus = "table"
  /\ TableNext
  /\ UNCHANGED <<tournamentVars, avars, svars, rvars, bvars, hvars>>

FollowSports ==
  /\ focus = "sports"
  /\ SportsNext
  /\ UNCHANGED <<wallet, tournamentVars, avars, tableVars, rvars, bvars, hvars>>

FollowRewards ==
  /\ focus = "rewards"
  /\ RewardsNext
  /\ UNCHANGED <<wallet, tournamentVars, avars, tableVars, svars, bvars, hvars>>

FollowBoard ==
  /\ focus = "board"
  /\ BoardNext
  /\ UNCHANGED <<wallet, tournamentVars, avars, tableVars, svars, rvars, hvars>>

FollowRuntime ==
  /\ focus = "runtime"
  /\ RuntimeNext
  /\ UNCHANGED <<wallet, tournamentVars, avars, tableVars, svars, rvars, bvars>>

ServicesNext ==
  /\ \/ FollowTournament
     \/ FollowAuth
     \/ FollowTable
     \/ FollowSports
     \/ FollowRewards
     \/ FollowBoard
     \/ FollowRuntime
  /\ UNCHANGED focus

ServicesSpec == ServicesInit /\ [][ServicesNext]_svcVars

(* Type invariant: those of the services.                                    *)
ServicesTypeOK ==
  /\ TournamentTypeOK
  /\ AuthTypeOK
  /\ TableTypeOK
  /\ SportsTypeOK
  /\ RewardsTypeOK
  /\ BoardTypeOK
  /\ RuntimeTypeOK
=============================================================================
