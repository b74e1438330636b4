---------------------------- MODULE AuthSession -----------------------------
(* The sessions of one user: session.service.ts with its callers in          *)
(* auth.service.ts, account-security.service.ts and                          *)
(* password-reset.service.ts.                                                *)
(*                                                                           *)
(* A session is a database row and a key in Redis; its refresh tokens are    *)
(* rows of their own, one family per session.  Every call is a sequence of   *)
(* statements with other calls between them.  Passwords are numbered in the  *)
(* order in which they are set.                                              *)
EXTENDS Naturals, FiniteSets, SequencesExt

CONSTANTS ACalls,      \* requests that can be in flight at once
          Scopes,      \* bound: operations called together, and how many sessions
                       \* and tokens may exist before no login and no rotation begins
          MaxActive,   \* maxConcurrentSessions
          MaxAttempts  \* accountLockMaxAttempts

ASSUME AuthAssumption ==
  MaxActive \in Nat \ {0} /\ MaxAttempts \in Nat \ {0} /\ IsFiniteSet(ACalls) /\ ACalls \cap Nat = {}

VARIABLES scope,    \* the operations that are called
          account,  \* the user's row
          sessions, \* session rows, each with its key in Redis
          recency,  \* sessions, the one longest inactive first
          tokens,   \* refresh token rows
          links,    \* password reset token rows
          challenges, \* two-factor challenges, each with its key in Redis
          acall,    \* call -> what it does and where it is
          raced     \* calls and sessions that a concurrent call got between

rows == <<sessions, recency, tokens>>

avars == <<scope, account, rows, links, challenges, acall, raced>>

Rest == [step |-> "idle", op |-> "none", session |-> 0, token |-> 0, password |-> 0,
         revoking |-> {}, clearing |-> {}, then |-> "idle"]

AuthInit ==
  /\ scope \in Scopes
  /\ account = [status |-> "ACTIVE", password |-> 0, failed |-> 0, locked |-> FALSE,
                twoFactor |-> "verify" \in scope.ops]
  /\ sessions = <<>>
  /\ recency = <<>>
  /\ tokens = <<>>
  /\ links = <<>>
  /\ challenges = <<>>
  /\ acall = [c \in ACalls |-> Rest]
  /\ raced = {}

At(c, step) == acall[c].step = step

(* The call goes on, or is over when it goes on to "idle".                   *)
Go(c, next) == acall' = [acall EXCEPT ![c] = IF next.step = "idle" THEN Rest ELSE next]

GoTo(c, step) == Go(c, [acall[c] EXCEPT !.step = step])

calling(op, step) == [Rest EXCEPT !.op = op, !.step = step]

Begin(c, next) ==
  /\ At(c, "idle")
  /\ next.op \in scope.ops
  /\ Go(c, next)

(* The rows a call is at work on: its session, and those it revokes.         *)
worksOn(k) == {k.session} \cup k.revoking \cup k.clearing

setsPassword(k) == k.op \in {"change", "reset"}

(* A rotation or a login between whose steps another call on its session, or *)
(* a change of the password, takes one of its own.                           *)
Races ==
  LET atWork == {c \in ACalls : acall'[c].step # "idle"}
      bothOn(s, c, d) == s \in worksOn(acall'[c]) \cap worksOn(acall'[d])
      issues(c) == acall'[c].op \in {"login", "verify", "rotate"} IN
  raced' = (raced \ {c \in ACalls : acall'[c].step = "idle"})
    \cup {s \in 1..Len(sessions') : \E c, d \in atWork : c # d /\ issues(c) /\ bothOn(s, c, d)}
    \cup {c \in atWork : issues(c) /\ \E d \in atWork : setsPassword(acall'[d])}
    \cup (IF Len(sessions') > Len(sessions)
          THEN {s \in {Len(sessions')} : \E c \in raced \cap ACalls : acall'[c].session = s}
          ELSE {})
-----------------------------------------------------------------------------
(* revokeSessionInternal, for one session or for many at once: the row and   *)
(* its active tokens in one transaction, then the key in Redis.              *)
revokeThen(k, S, then) ==
  IF S = {} THEN [k EXCEPT !.step = then]
  ELSE [k EXCEPT !.step = "revoke", !.revoking = S, !.then = then]

(* Mutant: only the row is revoked.                                          *)
revokeRowOnly(s) ==
  /\ sessions' = [sessions EXCEPT ![s].status = "REVOKED"]
  /\ UNCHANGED tokens

revokeSession(s) ==
  /\ sessions' = [sessions EXCEPT ![s].status = "REVOKED"]
  /\ tokens' = [t \in DOMAIN tokens |->
                  IF tokens[t].session = s /\ tokens[t].status = "ACTIVE"
                  THEN [tokens[t] EXCEPT !.status = "REVOKED"] ELSE tokens[t]]

RevokeOne(c) ==
  /\ At(c, "revoke")
  /\ \E s \in acall[c].revoking :
       /\ revokeSession(s)
       /\ Go(c, [acall[c] EXCEPT !.revoking = @ \ {s}, !.clearing = @ \cup {s}])
  /\ UNCHANGED <<recency, account, links, challenges>>

ClearOne(c) ==
  /\ At(c, "revoke")
  /\ \E s \in acall[c].clearing :
       /\ sessions' = [sessions EXCEPT ![s].cached = FALSE]
       /\ Go(c, [acall[c] EXCEPT !.clearing = @ \ {s},
                    !.step = IF acall[c].revoking = {} /\ acall[c].clearing = {s} THEN acall[c].then ELSE @])
  /\ UNCHANGED <<recency, tokens, account, links, challenges>>

Revoke(c) ==
  /\ \E s \in DOMAIN sessions : Begin(c, revokeThen(calling("revoke", "idle"), {s}, "idle"))
  /\ UNCHANGED <<rows, account, links, challenges>>

(* revokeAll reads the active rows; `session' is the one that is kept.       *)
RevokeAll(c) ==
  /\ \E s \in 0..Len(sessions) : Begin(c, [calling("revokeAll", "others") EXCEPT !.session = s])
  /\ UNCHANGED <<rows, account, links, challenges>>

(* Mutant: the sessions themselves are not looked for.                       *)
NoOthers(kept) == {}

others(kept) == {s \in DOMAIN sessions : sessions[s].status = "ACTIVE"} \ {kept}

Others(c) ==
  /\ At(c, "others")
  /\ Go(c, revokeThen(acall[c], others(acall[c].session), "idle"))
  /\ UNCHANGED <<rows, account, links, challenges>>
-----------------------------------------------------------------------------
(* login: the account as it is read decides; a wrong password is counted,    *)
(* and locks the account once there were too many.                           *)
isLocked(a) == a.status = "SUSPENDED" \/ a.locked

Login(c) ==
  /\ Len(sessions) < scope.sessions
  /\ ~isLocked(account)
  /\ Begin(c, [calling("login", "password") EXCEPT !.password = account.password])
  /\ UNCHANGED <<rows, account, links, challenges>>

WrongPassword(c) ==
  /\ At(c, "password")
  /\ "wrong" \in scope.ops
  /\ account' = [account EXCEPT !.failed = @ + 1]
  /\ GoTo(c, IF account.failed + 1 >= MaxAttempts THEN "lock" ELSE "idle")
  /\ UNCHANGED <<rows, links, challenges>>

Lock(c) ==
  /\ At(c, "lock")
  /\ account' = [account EXCEPT !.locked = TRUE]
  /\ GoTo(c, "idle")
  /\ UNCHANGED <<rows, links, challenges>>

RightPassword(c) ==
  /\ At(c, "password")
  /\ account' = [account EXCEPT !.failed = 0, !.locked = FALSE]
  /\ GoTo(c, IF account.twoFactor THEN "challenge" ELSE "limit")
  /\ UNCHANGED <<rows, links, challenges>>

(* The challenge remembers the login, not its password, and nothing that is  *)
(* done with the password later touches it: it is open until it is answered  *)
(* or its five minutes are over.                                             *)
Challenge(c) ==
  /\ At(c, "challenge")
  /\ Len(challenges) < scope.sessions \* bound
  /\ challenges' = Append(challenges, [password |-> acall[c].password, open |-> TRUE])
  /\ GoTo(c, "idle")
  /\ UNCHANGED <<rows, account, links>>

closeChallenge(n) == challenges' = [challenges EXCEPT ![n].open = FALSE]

ChallengeExpires ==
  /\ \E n \in DOMAIN challenges : challenges[n].open /\ closeChallenge(n)
  /\ UNCHANGED <<rows, account, links, acall>>

(* verifyTwoFactor: the challenge is read, and dropped once the code is      *)
(* right.  Two answers to one challenge both go on.  The session is opened   *)
(* by the password that was shown when the challenge was issued.             *)
Verify(c) ==
  /\ Len(sessions) < scope.sessions
  /\ \E n \in DOMAIN challenges :
       /\ challenges[n].open
       /\ Begin(c, [calling("verify", "code") EXCEPT !.token = n, !.password = challenges[n].password])
  /\ UNCHANGED <<rows, account, links, challenges>>

RightCode(c) ==
  /\ At(c, "code")
  /\ closeChallenge(acall[c].token)
  /\ GoTo(c, "limit")
  /\ UNCHANGED <<rows, account, links>>

(* start: the limit is enforced on the rows read before the new one exists.  *)
(* Mutant: one session too few is revoked.                                   *)
overflowOfLimit(n) == IF n > MaxActive THEN n - MaxActive ELSE 0

overflow(n) == IF n > MaxActive - 1 THEN n - (MaxActive - 1) ELSE 0

activeSessions == {s \in DOMAIN sessions : sessions[s].status = "ACTIVE" /\ ~sessions[s].expired}

longerInactive(r, s) ==
  \E i, j \in DOMAIN recency : i < j /\ recency[i] = r /\ recency[j] = s

Limit(c) ==
  /\ At(c, "limit")
  /\ \E S \in SUBSET activeSessions :
       /\ Cardinality(S) = overflow(Cardinality(activeSessions))
       /\ \A r \in S, s \in activeSessions \ S : longerInactive(r, s)
       /\ Go(c, revokeThen(acall[c], S, "create"))
  /\ UNCHANGED <<rows, account, links, challenges>>

CreateSession(c) ==
  /\ At(c, "create")
  /\ sessions' = Append(sessions, [status |-> "ACTIVE", cached |-> FALSE, expired |-> FALSE,
                                   password |-> acall[c].password, by |-> acall[c].op,
                                   since |-> account.password])
  /\ recency' = Append(recency, Len(sessions'))
  /\ Go(c, [acall[c] EXCEPT !.step = "token", !.session = Len(sessions')])
  /\ UNCHANGED <<tokens, account, links, challenges>>

persistRefreshToken(s) == tokens' = Append(tokens, [session |-> s, status |-> "ACTIVE"])

FirstToken(c) ==
  /\ At(c, "token")
  /\ persistRefreshToken(acall[c].session)
  /\ GoTo(c, "cache")
  /\ UNCHANGED <<sessions, recency, account, links, challenges>>

(* The key in Redis lives as long as the token.                              *)
Cache(c) ==
  /\ At(c, "cache")
  /\ sessions' = [sessions EXCEPT ![acall[c].session].cached =
                    ~sessions[acall[c].session].expired]
  /\ GoTo(c, "idle")
  /\ UNCHANGED <<recency, tokens, account, links, challenges>>
-----------------------------------------------------------------------------
(* rotate: what is read of the token decides.                                *)
Rotate(c) ==
  /\ Len(tokens) < scope.tokens
  /\ \E t \in DOMAIN tokens :
       LET s == tokens[t].session
           step == CASE tokens[t].status # "ACTIVE" -> "reuse"
                     [] sessions[s].expired -> "expire"
                     [] OTHER -> "user" IN
       Begin(c, [calling("rotate", step) EXCEPT !.token = t, !.session = s])
  /\ UNCHANGED <<rows, account, links, challenges>>

(* handleReuse: the whole family, then the session.                          *)
Reuse(c) ==
  /\ At(c, "reuse")
  /\ tokens' = [t \in DOMAIN tokens |->
                  IF tokens[t].session = acall[c].session /\ tokens[t].status \in {"ACTIVE", "USED"}
                  THEN [tokens[t] EXCEPT !.status = "REVOKED"] ELSE tokens[t]]
  /\ Go(c, revokeThen(acall[c], {acall[c].session}, "idle"))
  /\ UNCHANGED <<sessions, recency, account, links, challenges>>

markToken(t, status) == tokens' = [tokens EXCEPT ![t].status = status]

TokenExpired(c) ==
  /\ At(c, "expire")
  /\ markToken(acall[c].token, "EXPIRED")
  /\ GoTo(c, "idle")
  /\ UNCHANGED <<sessions, recency, account, links, challenges>>

ReadUser(c) ==
  /\ At(c, "user")
  /\ IF account.status = "SUSPENDED" THEN Go(c, revokeThen(acall[c], {acall[c].session}, "idle"))
     ELSE GoTo(c, "replace")
  /\ UNCHANGED <<rows, account, links, challenges>>

Replace(c) ==
  /\ At(c, "replace")
  /\ persistRefreshToken(acall[c].session)
  /\ GoTo(c, "used")
  /\ UNCHANGED <<sessions, recency, account, links, challenges>>

(* Mutant: the token that was replaced stays active.                         *)
StaysActive(c) ==
  /\ At(c, "used")
  /\ GoTo(c, "touch")
  /\ UNCHANGED <<sessions, recency, tokens, account, links, challenges>>

MarkUsed(c) ==
  /\ At(c, "used")
  /\ markToken(acall[c].token, "USED")
  /\ GoTo(c, "touch")
  /\ UNCHANGED <<sessions, recency, account, links, challenges>>

Touch(c) ==
  /\ At(c, "touch")
  /\ \E i \in DOMAIN recency : /\ recency[i] = acall[c].session
                              /\ recency' = Append(RemoveAt(recency, i), acall[c].session)
  /\ GoTo(c, "cache")
  /\ UNCHANGED <<sessions, tokens, account, links, challenges>>
-----------------------------------------------------------------------------
(* changePassword keeps the session it is called from; its holder has shown  *)
(* the old password and set the new one.                                     *)
ChangePassword(c) ==
  /\ account.password = 0 \* bound
  /\ \E s \in DOMAIN sessions :
       /\ sessions[s].status = "ACTIVE"
       /\ Begin(c, [calling("change", "change") EXCEPT !.session = s])
  /\ UNCHANGED <<rows, account, links, challenges>>

WritePassword(c) ==
  /\ At(c, "change")
  /\ account' = [account EXCEPT !.password = @ + 1]
  /\ sessions' = [sessions EXCEPT ![acall[c].session].password = account.password + 1]
  /\ GoTo(c, "others")
  /\ UNCHANGED <<recency, tokens, links, challenges>>

(* A reset link: asking for one revokes the earlier ones; using it sets a    *)
(* password, clears the lock and revokes every session.                      *)
RequestReset ==
  /\ "reset" \in scope.ops
  /\ links = <<>> \* bound
  /\ links' = Append([l \in DOMAIN links |-> IF links[l] = "ACTIVE" THEN "REVOKED" ELSE links[l]],
                     "ACTIVE")
  /\ UNCHANGED <<rows, account, challenges, acall>>

Reset(c) ==
  /\ \E l \in DOMAIN links, step \in {"reset", "lapse"} :
       /\ links[l] = "ACTIVE"
       /\ Begin(c, [calling("reset", step) EXCEPT !.token = l])
  /\ UNCHANGED <<rows, account, links, challenges>>

LinkLapsed(c) ==
  /\ At(c, "lapse")
  /\ links' = [links EXCEPT ![acall[c].token] = "EXPIRED"]
  /\ GoTo(c, "idle")
  /\ UNCHANGED <<rows, account, challenges>>

UseLink(c) ==
  /\ At(c, "reset")
  /\ links' = [links EXCEPT ![acall[c].token] = "USED"]
  /\ account' = [account EXCEPT !.password = @ + 1, !.failed = 0, !.locked = FALSE]
  /\ GoTo(c, "others")
  /\ UNCHANGED <<rows, challenges>>

(* Administrators, and time.                                                 *)
Suspend ==
  /\ "suspend" \in scope.ops
  /\ account' = [account EXCEPT !.status = "SUSPENDED"]
  /\ UNCHANGED <<rows, links, challenges, acall>>

Unlock ==
  /\ "suspend" \in scope.ops
  /\ account' = [account EXCEPT !.status = "ACTIVE", !.failed = 0, !.locked = FALSE]
  /\ UNCHANGED <<rows, links, challenges, acall>>

LockExpires ==
  /\ account.locked
  /\ account.failed < 2 * MaxAttempts \* bound
  /\ account' = [account EXCEPT !.locked = FALSE]
  /\ UNCHANGED <<rows, links, challenges, acall>>

SessionExpires ==
  /\ "expire" \in scope.ops
  /\ \E s \in DOMAIN sessions :
       sessions' = [sessions EXCEPT ![s].expired = TRUE, ![s].cached = FALSE]
  /\ UNCHANGED <<recency, tokens, account, links, challenges, acall>>

AuthStep ==
  \/ \E c \in ACalls :
       \/ RevokeOne(c) \/ ClearOne(c) \/ Revoke(c) \/ RevokeAll(c) \/ Others(c)
       \/ Login(c) \/ WrongPassword(c) \/ Lock(c) \/ RightPassword(c)
       \/ Challenge(c) \/ Verify(c) \/ RightCode(c)
       \/ Limit(c) \/ CreateSession(c) \/ FirstToken(c) \/ Cache(c)
       \/ Rotate(c) \/ Reuse(c) \/ TokenExpired(c) \/ ReadUser(c)
       \/ Replace(c) \/ MarkUsed(c) \/ Touch(c)
       \/ ChangePassword(c) \/ WritePassword(c) \/ Reset(c) \/ LinkLapsed(c) \/ UseLink(c)
  \/ RequestReset
  \/ Suspend
  \/ Unlock
  \/ LockExpires
  \/ SessionExpires
  \/ ChallengeExpires

AuthNext == AuthStep /\ Races /\ UNCHANGED scope

AuthSpec == AuthInit /\ [][AuthNext]_avars
-----------------------------------------------------------------------------
(* Type invariant.                                                           *)
AuthTypeOK ==
  /\ account.status \in {"ACTIVE", "SUSPENDED"}
  /\ account.failed < 2 * MaxAttempts + Cardinality(ACalls)
  /\ \A s \in DOMAIN sessions : sessions[s].status \in {"ACTIVE", "REVOKED"}
  /\ ToSet(recency) = DOMAIN sessions /\ IsInjective(recency)
  /\ \A t \in DOMAIN tokens : /\ tokens[t].session \in DOMAIN sessions
                              /\ tokens[t].status \in {"ACTIVE", "USED", "REVOKED", "EXPIRED"}
  /\ ToSet(links) \subseteq {"ACTIVE", "USED", "REVOKED", "EXPIRED"}
  /\ \A n \in DOMAIN challenges : challenges[n].password \in Nat

activeTokens(s) == {t \in DOMAIN tokens : tokens[t].session = s /\ tokens[t].status = "ACTIVE"}

isActive(s) == sessions[s].cached \/ (sessions[s].status = "ACTIVE" /\ ~sessions[s].expired)

atRest(s) == \A c \in ACalls : s \notin worksOn(acall[c])

(* A revoked session is over, in Redis as in the database, and none of its   *)
(* tokens can be rotated again, whatever other calls did meanwhile, unless   *)
(* one of its own rotations or its own login was under way                   *)
(* (session.service.ts:300-313 against 104-186).                             *)
RevokedIsOver ==
  \A s \in DOMAIN sessions :
    (sessions[s].status = "REVOKED" /\ atRest(s) /\ s \notin raced)
      => ~isActive(s) /\ activeTokens(s) = {}

(* A session lives by exactly one token: rotations, reuse and revocations    *)
(* leave neither two nor none, unless they raced (session.service.ts:162,    *)
(* 170).                                                                     *)
LivesByOneToken ==
  \A s \in DOMAIN sessions :
    (sessions[s].status = "ACTIVE" /\ ~sessions[s].expired /\ atRest(s) /\ s \notin raced)
      => Cardinality(activeTokens(s)) = 1

(* The limit on concurrent sessions is passed by no more than the calls that *)
(* can race each other (session.service.ts:336-348).                         *)
SessionsLimited == Cardinality(activeSessions) <= MaxActive - 1 + Cardinality(ACalls)

(* Once a change or a reset of the password is done, no session opened with  *)
(* an earlier password is left, unless its login overlapped the change - or  *)
(* it was opened since, by the answer to a two-factor challenge issued for   *)
(* that password: the code leaves challenges open (auth.service.ts:132-145,  *)
(* 165, 221, password-reset.service.ts:87-97).                               *)
PasswordEndsSessions ==
  (\A c \in ACalls : ~setsPassword(acall[c])) =>
    \A s \in DOMAIN sessions \ raced :
      sessions[s].status = "ACTIVE" =>
        \/ sessions[s].password = account.password
        \/ sessions[s].by = "verify" /\ sessions[s].since = account.password
=============================================================================
