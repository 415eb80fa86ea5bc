------------------------------ MODULE Sandboxes -----------------------------
(***************************************************************************)
(* The sandbox manager: a session's code runs in a sandbox of an external  *)
(* service, found again through two Redis keys with a time to live (the    *)
(* session's sandbox, and the sandbox's own ref key) and counted in a      *)
(* Redis set of active ids.  A reaper kills what is in the set without a   *)
(* ref key.  A run holds a Redis lock on its session, which expires.       *)
(***************************************************************************)
EXTENDS Integers, FiniteSets

CONSTANTS
  Boxes,         \* ids the service may hand out
  BoxSessions,   \* sessions whose code is run
  Runners,       \* requests that run code
  Runs,          \* <<r, s, via>>: r may run code of session s with run_code ("run") or run_code_stream
  MaxSandboxes,  \* max_sandboxes
  BusyAttempts,  \* _SESSION_BUSY_RETRY_ATTEMPTS
  MaxMishaps     \* bound: crashes, failed kills, lost connections, expired locks

VARIABLES
  box,       \* box[b]: the service's sandbox
  active,    \* KEY_ACTIVE_SET
  refKey,    \* ids whose ref key exists
  sessKey,   \* sessKey[s]: the sandbox id under the session's key
  runLock,   \* runLock[s]: who holds the session's lock
  runner,    \* runner[r]
  reap,      \* reap[a]: progress of reap_zombies in a runner or in the background loop
  lost,      \* sandboxes the manager has forgotten after a crash or a failed kill
  mishaps    \* mishaps so far

sandboxVars == <<box, active, refKey, sessKey, runLock, runner, reap, lost, mishaps>>

NoBox == "nobox"
NoRunner == "norunner"
Loop == "loop"
BoxStates == {"unborn", "live", "dead"}

RunnerIdle == [at |-> "idle", via |-> "stream", session |-> CHOOSE s \in BoxSessions : TRUE,
               box |-> NoBox, attempt |-> 1]
ReapIdle == [at |-> "idle", todo |-> {}, id |-> NoBox]

Init ==
  /\ box = [b \in Boxes |-> "unborn"]
  /\ active = {}
  /\ refKey = {}
  /\ sessKey = [s \in BoxSessions |-> NoBox]
  /\ runLock = [s \in BoxSessions |-> NoRunner]
  /\ runner = [r \in Runners |-> RunnerIdle]
  /\ reap = [a \in Runners \cup {Loop} |-> ReapIdle]
  /\ lost = {}
  /\ mishaps = 0

At(r, s) == runner[r].at = s
Go(r, s) == runner' = [runner EXCEPT ![r].at = s]
Mishap == mishaps < MaxMishaps /\ mishaps' = mishaps + 1

\* Who runs code in sandbox b, as the service sees it.
Running(b) == {r \in Runners : At(r, "running") /\ runner[r].box = b}

\* The lock is given back by its holder only; the runner ends, with or without a result.
Ends(r) ==
  /\ runner' = [runner EXCEPT ![r] = RunnerIdle]
  /\ runLock' = [s \in BoxSessions |-> IF runLock[s] = r THEN NoRunner ELSE runLock[s]]

-----------------------------------------------------------------------------
(* The lock, and the session's sandbox *)

\* run_code_stream and run_code: under the session's lock, or not at all.
TakeLock(r, s, via) ==
  /\ At(r, "idle")
  /\ runLock[s] = NoRunner
  /\ runLock' = [runLock EXCEPT ![s] = r]
  /\ runner' = [runner EXCEPT ![r] = [RunnerIdle EXCEPT !.at = "lookup", !.session = s, !.via = via]]
  /\ UNCHANGED <<box, active, refKey, sessKey, reap, lost, mishaps>>

\* get_or_create_sandbox reads the session's key.
LookUp(r) ==
  LET b == sessKey[runner[r].session] IN
  /\ At(r, "lookup")
  /\ runner' = [runner EXCEPT ![r].at = IF b = NoBox THEN "count" ELSE "connect", ![r].box = b]
  /\ UNCHANGED <<box, active, refKey, sessKey, runLock, reap, lost, mishaps>>

\* _connect_sandbox: the service knows the sandbox.
Connect(r) ==
  /\ At(r, "connect")
  /\ box[runner[r].box] = "live"
  /\ Go(r, "renew")
  /\ UNCHANGED <<box, active, refKey, sessKey, runLock, reap, lost, mishaps>>

\* The sandbox is gone: _clear_stale_sandbox_mapping, and a new one.
ClearStale(r) ==
  LET b == runner[r].box IN
  /\ At(r, "connect")
  /\ box[b] = "dead"
  /\ sessKey' = [sessKey EXCEPT ![runner[r].session] = NoBox]
  /\ refKey' = refKey \ {b}
  /\ active' = active \ {b}
  /\ Go(r, "count")
  /\ UNCHANGED <<box, runLock, reap, lost, mishaps>>

\* The service is not reached: the mapping stays and a new sandbox is made.
ConnectFails(r) ==
  /\ At(r, "connect")
  /\ Mishap
  /\ Go(r, "count")
  /\ UNCHANGED <<box, active, refKey, sessKey, runLock, reap, lost>>

\* Both keys are written again, for the next half hour.
Bind(r) ==
  /\ At(r, "renew")
  /\ sessKey' = [sessKey EXCEPT ![runner[r].session] = runner[r].box]
  /\ refKey' = refKey \cup {runner[r].box}
  /\ Go(r, "run")
  /\ UNCHANGED <<box, active, runLock, reap, lost, mishaps>>

-----------------------------------------------------------------------------
(* A new sandbox *)

\* _create_sandbox: at the limit the zombies are reaped first and counted again.
Count(r) ==
  /\ At(r, "count")
  /\ IF Cardinality(active) < MaxSandboxes
     THEN Go(r, "create") /\ UNCHANGED reap
     ELSE /\ Go(r, "recount")
          /\ reap' = [reap EXCEPT ![r] = [at |-> "check", todo |-> active, id |-> NoBox]]
  /\ UNCHANGED <<box, active, refKey, sessKey, runLock, lost, mishaps>>

Recount(r) ==
  /\ At(r, "recount")
  /\ reap[r].at = "idle"
  /\ IF Cardinality(active) < MaxSandboxes
     THEN Go(r, "create") /\ UNCHANGED runLock
     ELSE Ends(r)
  /\ UNCHANGED <<box, active, refKey, sessKey, reap, lost, mishaps>>

\* The service makes the sandbox, and then its id is added to the set.
Create(r) ==
  LET b == CHOOSE c \in Boxes : box[c] = "unborn" IN
  /\ At(r, "create")
  /\ box' = [box EXCEPT ![b] = "live"]
  /\ runner' = [runner EXCEPT ![r].at = "register", ![r].box = b]
  /\ UNCHANGED <<active, refKey, sessKey, runLock, reap, lost, mishaps>>

Register(r) ==
  /\ At(r, "register")
  /\ active' = active \cup {runner[r].box}
  /\ Go(r, "ready")
  /\ UNCHANGED <<box, refKey, sessKey, runLock, reap, lost, mishaps>>

\* The service refuses to make one.
CreateFails(r) ==
  /\ At(r, "create")
  /\ Mishap
  /\ Ends(r)
  /\ UNCHANGED <<box, active, refKey, sessKey, reap, lost>>

\* check_ready waits up to a minute; only then are the keys written.
CheckReady(r) ==
  /\ At(r, "ready")
  /\ IF box[runner[r].box] = "live"
     THEN Go(r, "renew") /\ UNCHANGED runLock
     ELSE Ends(r)
  /\ UNCHANGED <<box, active, refKey, sessKey, reap, lost, mishaps>>

-----------------------------------------------------------------------------
(* The run *)

RunCode(r) ==
  LET b == runner[r].box IN
  /\ At(r, "run")
  /\ box[b] = "live"
  /\ Running(b) = {}
  /\ Go(r, "running")
  /\ UNCHANGED <<box, active, refKey, sessKey, runLock, reap, lost, mishaps>>

\* The code ends, or its sandbox is gone: the caller has a result or an error.
RunEnds(r) ==
  LET b == runner[r].box IN
  /\ At(r, "running") \/ (At(r, "run") /\ box[b] # "live")
  /\ Ends(r)
  /\ UNCHANGED <<box, active, refKey, sessKey, reap, lost, mishaps>>

\* "session is busy": run_code_stream gives up; _run_code_locked stops the sandbox
\* and starts over, BusyAttempts times in all.
RunBusy(r) ==
  LET b == runner[r].box
      again == runner[r].via = "run" /\ runner[r].attempt < BusyAttempts
  IN
  /\ At(r, "run")
  /\ box[b] = "live"
  /\ Running(b) # {}
  /\ IF again THEN /\ runner' = [runner EXCEPT ![r].at = "stop", ![r].attempt = @ + 1]
                   /\ UNCHANGED runLock
              ELSE Ends(r)
  /\ UNCHANGED <<box, active, refKey, sessKey, reap, lost, mishaps>>

\* kill_sandbox, in which a sandbox that is gone counts as killed; another error leaves
\* it running.
KillSandbox(b, killed) ==
  IF killed THEN box' = [box EXCEPT ![b] = "dead"] /\ UNCHANGED <<lost, mishaps>>
            ELSE lost' = lost \cup {b} /\ Mishap /\ UNCHANGED box

\* stop_sandbox: the keys go first, and the id leaves the set even if the kill fails.
StopSandbox(r, killed) ==
  LET b == runner[r].box IN
  /\ At(r, "stop")
  /\ sessKey' = [sessKey EXCEPT ![runner[r].session] = NoBox]
  /\ refKey' = refKey \ {b}
  /\ active' = active \ {b}
  /\ KillSandbox(b, killed)
  /\ runner' = [runner EXCEPT ![r].at = "lookup", ![r].box = NoBox]
  /\ UNCHANGED <<runLock, reap>>

-----------------------------------------------------------------------------
(* The reaper *)

\* _cleanup_loop, once a minute.
ReapZombies ==
  /\ reap[Loop].at = "idle"
  /\ active # {}
  /\ reap' = [reap EXCEPT ![Loop] = [at |-> "check", todo |-> active, id |-> NoBox]]
  /\ UNCHANGED <<box, active, refKey, sessKey, runLock, runner, lost, mishaps>>

\* reap_zombies asks for the ref key of one id after the other ...
ReapCheck(a, b) ==
  /\ reap[a].at = "check"
  /\ b \in reap[a].todo
  /\ reap' = [reap EXCEPT ![a] =
       IF b \notin refKey THEN [at |-> "kill", todo |-> @.todo \ {b}, id |-> b]
       ELSE [@ EXCEPT !.todo = reap[a].todo \ {b}]]
  /\ UNCHANGED <<box, active, refKey, sessKey, runLock, runner, lost, mishaps>>

\* ... kills the sandbox, and removes the id even if the kill fails.
ReapKill(a, killed) ==
  LET b == reap[a].id IN
  /\ reap[a].at = "kill"
  /\ active' = active \ {b}
  /\ KillSandbox(b, killed)
  /\ reap' = [reap EXCEPT ![a].at = "check", ![a].id = NoBox]
  /\ UNCHANGED <<refKey, sessKey, runLock, runner>>

ReapDone(a) ==
  /\ reap[a].at = "check"
  /\ reap[a].todo = {}
  /\ reap' = [reap EXCEPT ![a] = ReapIdle]
  /\ UNCHANGED <<box, active, refKey, sessKey, runLock, runner, lost, mishaps>>

-----------------------------------------------------------------------------
(* Time, and processes that die *)

\* The session's key is written before the ref key with the same time to live, which
\* no run outlasts: the keys of a sandbox in use do not expire.
KeysExpire(b) ==
  /\ b \in refKey
  /\ \A r \in Runners : runner[r].box = b => runner[r].at \notin {"run", "running", "stop"}
  /\ refKey' = refKey \ {b}
  /\ sessKey' = [s \in BoxSessions |-> IF sessKey[s] = b THEN NoBox ELSE sessKey[s]]
  /\ UNCHANGED <<box, active, runLock, runner, reap, lost, mishaps>>

\* The service ends a sandbox whose own time is over.
BoxExpires(b) ==
  /\ box[b] = "live"
  /\ b \notin refKey
  /\ \A r \in Runners : runner[r].box # b
  /\ box' = [box EXCEPT ![b] = "dead"]
  /\ UNCHANGED <<active, refKey, sessKey, runLock, runner, reap, lost, mishaps>>

\* A run that takes longer than the lock's time to live, or one that has died.
LockExpires(s) ==
  /\ runLock[s] # NoRunner
  /\ runner[runLock[s]].session # s \/ runner[runLock[s]].at \in {"idle", "ready", "running"}
  /\ runner[runLock[s]].at = "idle" \/ mishaps < MaxMishaps
  /\ mishaps' = IF runner[runLock[s]].at = "idle" THEN mishaps ELSE mishaps + 1
  /\ runLock' = [runLock EXCEPT ![s] = NoRunner]
  /\ UNCHANGED <<box, active, refKey, sessKey, runner, reap, lost>>

\* The process dies with its lock held; a sandbox it had not registered is forgotten.
RunnerDies(r) ==
  /\ ~At(r, "idle")
  /\ Mishap
  /\ lost' = IF At(r, "register") THEN lost \cup {runner[r].box} ELSE lost
  /\ runner' = [runner EXCEPT ![r] = RunnerIdle]
  /\ reap' = [reap EXCEPT ![r] = ReapIdle]
  /\ UNCHANGED <<box, active, refKey, sessKey, runLock>>

-----------------------------------------------------------------------------
RunnerStep(r) ==
  \/ LookUp(r) \/ Connect(r) \/ ClearStale(r) \/ ConnectFails(r) \/ Bind(r)
  \/ Count(r) \/ Recount(r) \/ Register(r) \/ CreateFails(r) \/ CheckReady(r)
  \/ RunCode(r) \/ RunEnds(r) \/ RunBusy(r)
  \/ Create(r)
  \/ \E killed \in BOOLEAN : StopSandbox(r, killed)

ReapStep(a) ==
  \/ ReapDone(a)
  \/ \E b \in Boxes : ReapCheck(a, b)
  \/ \E killed \in BOOLEAN : ReapKill(a, killed)

\* The service has an id left for whoever is about to make a sandbox.
Supplied == Cardinality({r \in Runners : ~At(r, "idle")}) < Cardinality({b \in Boxes : box[b] = "unborn"})

Next ==
  \/ \E r \in Runners : RunnerStep(r) \/ RunnerDies(r)
  \/ \E run \in Runs : Supplied /\ TakeLock(run[1], run[2], run[3])
  \/ \E a \in Runners \cup {Loop} : ReapStep(a)
  \/ ReapZombies
  \/ \E b \in Boxes : KeysExpire(b) \/ BoxExpires(b)
  \/ \E s \in BoxSessions : LockExpires(s)

Fairness ==
  /\ \A r \in Runners : WF_sandboxVars(RunnerStep(r))
  /\ \A a \in Runners \cup {Loop} : WF_sandboxVars(ReapStep(a))

Spec == Init /\ [][Next]_sandboxVars /\ Fairness

-----------------------------------------------------------------------------
\* The service's sandboxes, the Redis keys, the runners and the reapers stay in range.
TypeOK ==
  /\ \A b \in Boxes : box[b] \in BoxStates
  /\ active \cup refKey \cup lost \subseteq Boxes
  /\ \A s \in BoxSessions : sessKey[s] \in Boxes \cup {NoBox} /\ runLock[s] \in Runners \cup {NoRunner}
  /\ \A r \in Runners : runner[r].attempt \in 1..BusyAttempts
  /\ \A a \in Runners \cup {Loop} : reap[a].todo \subseteq Boxes

\* No sandbox is forgotten while it lives: it is in the active set, or the request
\* that made it is about to put it there, or a crash or a failed kill lost it, through
\* any mixture of reaping, renewing, stopping and expiry (stop_sandbox, reap_zombies).
NoneForgotten ==
  \A b \in Boxes : box[b] = "live" =>
    b \in active \cup lost \/ \E r \in Runners : At(r, "register") /\ runner[r].box = b

\* The limit is checked before the sandbox is made and counted after: it can be
\* exceeded, but never by more than the requests that can pass the check together.
LimitNearlyHolds == Cardinality(active) <= MaxSandboxes + Cardinality(Runners) - 1

\* Code of two sessions never runs in one sandbox, whatever keys expire in between.
OwnSandbox ==
  \A b \in Boxes : \A r, q \in Running(b) : runner[r].session = runner[q].session

\* A run ends, whatever the service answers.
RunsEnd == \A r \in Runners : []<>At(r, "idle")

\* The reaper kills only sandboxes whose keys have expired, never one that a request
\* is starting or using (the docstring of _cleanup_loop). Not so: a sandbox is in the
\* set before its keys are.
ReapsOnlyExpired ==
  [][\A a \in Runners \cup {Loop} : ReapKill(a, TRUE) =>
       \A r \in Runners : runner[r].at \in {"ready", "running"} => runner[r].box # reap[a].id]_sandboxVars
=============================================================================
