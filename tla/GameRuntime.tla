---------------------------- MODULE GameRuntime -----------------------------
(* One session of the game runtime: the record in Redis                      *)
(* (runtime-session.service.ts), the GameRuntime objects the backend hosts   *)
(* for it in memory (active-runtime.service.ts over game-sdk's runtime.ts    *)
(* and lifecycle.ts), and the room its events are broadcast to               *)
(* (runtime.gateway.ts).  Every await is a place where other calls run.      *)
EXTENDS Naturals, Sequences

CONSTANTS HCalls,     \* requests that can be in flight at once
          MaxRuntimes \* bound: on the objects ever made

VARIABLES exists,       \* the record is in Redis
          runtimes,     \* the objects: lifecycle status, broadcasters listening
          hosted,       \* the one in the map of active runtimes, or 0
          broadcasting, \* the gateway counts the session as broadcast
          hcall,        \* call -> where it is, and the object it works on
          disturbed     \* starts overlapped, or a runtime was stopped, since the
                        \* backend last started

hvars == <<exists, runtimes, hosted, broadcasting, hcall, disturbed>>

HRest == [step |-> "idle", then |-> "idle", runtime |-> 0]

RuntimeInit ==
  /\ exists = TRUE
  /\ runtimes = <<>>
  /\ hosted = 0
  /\ broadcasting = FALSE
  /\ hcall = [c \in HCalls |-> HRest]
  /\ disturbed = FALSE

HGo(c, next) == hcall' = [hcall EXCEPT ![c] = next]

HStep(c, step) == HGo(c, [hcall[c] EXCEPT !.step = step])

HEnd(c) == HGo(c, HRest)
-----------------------------------------------------------------------------
(* lifecycle.ts.  Every status but the last may also become ERROR or         *)
(* DESTROYED.                                                                *)
TRANSITIONS ==
  [IDLE |-> "INITIALIZING", INITIALIZING |-> "LOADING_CONFIG", LOADING_CONFIG |-> "LOADING_ASSETS",
   LOADING_ASSETS |-> "READY", READY |-> "STARTING", STARTING |-> "RUNNING"]

canMove(from, to) ==
  /\ from # "DESTROYED"
  /\ to \in {"ERROR", "DESTROYED"} \/ (from \in DOMAIN TRANSITIONS /\ TRANSITIONS[from] = to)

move(r, to) == runtimes' = [runtimes EXCEPT ![r].status = IF canMove(@, to) THEN to ELSE @]
-----------------------------------------------------------------------------
(* join and action read the record, then ask for the runtime to be started.  *)
Enter(c) ==
  /\ hcall[c] = HRest
  /\ \E then \in {"join", "act"} : HGo(c, [step |-> "start", then |-> then, runtime |-> 0])
  /\ exists
  /\ UNCHANGED <<exists, runtimes, hosted, broadcasting, disturbed>>

(* start: a hosted runtime is returned; else the plugin is loaded.           *)
isHosted == hosted # 0

isStarting(c) == hcall[c].step \in {"load", "advance"}

FindRuntime(c) ==
  /\ hcall[c].step = "start"
  /\ HStep(c, IF isHosted THEN hcall[c].then ELSE "load")
  /\ disturbed' = (disturbed \/ (~isHosted /\ \E d \in HCalls : isStarting(d)))
  /\ UNCHANGED <<exists, runtimes, hosted, broadcasting>>

LoadRuntime(c) ==
  /\ hcall[c].step = "load"
  /\ Len(runtimes) < MaxRuntimes
  /\ runtimes' = Append(runtimes, [status |-> "IDLE", listeners |-> 0])
  /\ HGo(c, [hcall[c] EXCEPT !.step = "advance", !.runtime = Len(runtimes')])
  /\ UNCHANGED <<exists, hosted, broadcasting, disturbed>>

(* initialize and start, one status after the other.  The runtime is hosted  *)
(* once it is running, in the place of whatever is hosted by then.           *)
(* Mutant: it is hosted as soon as it is loaded, and not when it runs.       *)
HostsEarly(r, status) == status = "INITIALIZING"

Hosts(r, status) == status = "RUNNING"

Advance(c) ==
  /\ hcall[c].step = "advance"
  /\ LET r == hcall[c].runtime
         next == TRANSITIONS[runtimes[r].status] IN
     /\ move(r, next)
     /\ hosted' = IF Hosts(r, next) THEN r ELSE hosted
     /\ HStep(c, IF next = "RUNNING" THEN hcall[c].then ELSE "advance")
  /\ UNCHANGED <<exists, broadcasting, disturbed>>

(* A hook of the plugin throws: the runtime is never hosted.                 *)
StartFails(c) ==
  /\ hcall[c].step = "advance"
  /\ move(hcall[c].runtime, "ERROR")
  /\ HEnd(c)
  /\ UNCHANGED <<exists, hosted, broadcasting, disturbed>>

(* The room's broadcaster is attached to what is hosted, once per session.   *)
attachListener == runtimes' = IF isHosted THEN [runtimes EXCEPT ![hosted].listeners = @ + 1] ELSE runtimes

needsBroadcaster == ~broadcasting

Join(c) ==
  /\ hcall[c].step = "join"
  /\ IF needsBroadcaster THEN attachListener ELSE UNCHANGED runtimes
  /\ broadcasting' = TRUE
  /\ HEnd(c)
  /\ UNCHANGED <<exists, hosted, disturbed>>

(* What an action does to the game is the engine's; here it ends.            *)
Act(c) ==
  /\ hcall[c].step = "act"
  /\ HEnd(c)
  /\ UNCHANGED <<exists, runtimes, hosted, broadcasting, disturbed>>
-----------------------------------------------------------------------------
(* stop: out of the map, then the plugin is destroyed, or fails to be.       *)
stopping(c, then) ==
  /\ hosted' = 0
  /\ disturbed' = (disturbed \/ isHosted)
  /\ HGo(c, [step |-> IF isHosted THEN "destroy" ELSE then, then |-> then, runtime |-> hosted])

EndRuntime(c) ==
  /\ hcall[c] = HRest
  /\ stopping(c, "forget")
  /\ UNCHANGED <<exists, runtimes, broadcasting>>

(* The sweep stops a runtime that was idle for too long.                     *)
Idle(c) ==
  /\ hcall[c] = HRest
  /\ isHosted
  /\ stopping(c, "idle")
  /\ UNCHANGED <<exists, runtimes, broadcasting>>

DestroyRuntime(c) ==
  /\ hcall[c].step = "destroy"
  /\ \/ runtimes' = [runtimes EXCEPT ![hcall[c].runtime] = [status |-> "DESTROYED", listeners |-> 0]]
     \/ UNCHANGED runtimes
  /\ IF hcall[c].then = "idle" THEN HEnd(c) ELSE HStep(c, hcall[c].then)
  /\ UNCHANGED <<exists, hosted, broadcasting, disturbed>>

(* end: the game session is completed and the record deleted.                *)
ForgetRecord(c) ==
  /\ hcall[c].step = "forget"
  /\ exists' = FALSE
  /\ HEnd(c)
  /\ UNCHANGED <<runtimes, hosted, broadcasting, disturbed>>

(* The record's hour ends; a restart loses whatever is kept in memory.       *)
RecordExpires ==
  /\ exists' = FALSE
  /\ UNCHANGED <<runtimes, hosted, broadcasting, hcall, disturbed>>

Restart ==
  /\ runtimes # <<>>
  /\ runtimes' = [r \in DOMAIN runtimes |-> [status |-> "DESTROYED", listeners |-> 0]]
  /\ hosted' = 0
  /\ broadcasting' = FALSE
  /\ hcall' = [c \in HCalls |-> HRest]
  /\ disturbed' = FALSE
  /\ UNCHANGED exists

RuntimeNext ==
  \/ \E c \in HCalls :
       \/ Enter(c) \/ FindRuntime(c) \/ LoadRuntime(c) \/ Advance(c) \/ StartFails(c)
       \/ Join(c) \/ Act(c)
       \/ EndRuntime(c) \/ Idle(c) \/ DestroyRuntime(c) \/ ForgetRecord(c)
  \/ RecordExpires
  \/ Restart

RuntimeSpec == RuntimeInit /\ [][RuntimeNext]_hvars
-----------------------------------------------------------------------------
LifecycleStatuses == DOMAIN TRANSITIONS \cup {"RUNNING", "ERROR", "DESTROYED"}

(* Type invariant.                                                           *)
RuntimeTypeOK ==
  /\ hosted \in 0..Len(runtimes)
  /\ \A r \in DOMAIN runtimes : runtimes[r].status \in LifecycleStatuses /\ runtimes[r].listeners \in Nat
  /\ exists \in BOOLEAN /\ broadcasting \in BOOLEAN

(* What is hosted is running; no event of a session reaches its room twice;  *)
(* and unless two starts overlapped or a runtime was stopped, every event    *)
(* reaches a room that was joined, and no runtime goes on unhosted           *)
(* (active-runtime.service.ts:62-95, runtime.gateway.ts:86-99).              *)
RoomHearsRuntime ==
  /\ isHosted => runtimes[hosted].status = "RUNNING"
  /\ \A r \in DOMAIN runtimes : runtimes[r].listeners <= 1
  /\ ~disturbed =>
       /\ (isHosted /\ broadcasting) => runtimes[hosted].listeners = 1
       /\ \A r \in DOMAIN runtimes : runtimes[r].status = "RUNNING" => r = hosted
=============================================================================
