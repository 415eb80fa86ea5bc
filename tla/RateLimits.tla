----------------------------- MODULE RateLimits -----------------------------
(***************************************************************************)
(* RateLimitStep: the requests per window at the levels of a request (its  *)
(* API key, its client address, the whole gateway), then the token bucket  *)
(* of the key.                                                             *)
(*                                                                         *)
(* The levels are sorted sets in Redis that the script reads and writes in *)
(* one go.  Without the script the step reads and writes them one level    *)
(* after the other, and without Redis it counts only the first level, in   *)
(* the process.  Time is a clock of ticks; a window is Window ticks.       *)
(***************************************************************************)
EXTENDS Integers, FiniteSets

CONSTANTS
  Requests,    \* requests in progress
  ApiKeyIds,   \* keys of the requests
  Limit,       \* Limit[l]: requests per window at level l
  Window,      \* RATE_LIMIT_WINDOW_SECONDS
  Bucket,      \* tokens per window of a key
  MaxClock     \* bound on the clock

Levels == ApiKeyIds \cup {"global"}
\* script: Redis with the script; serial: without the script; memory: no Redis.
Modes == {"script", "serial", "memory"}

VARIABLES
  mode,     \* how the levels are kept
  clock,
  hits,     \* hits[l]: the members of level l
  tokens,   \* tokens[k]: -1 without bucket
  request   \* request[r]: stage, key and the level it is at

limitVars == <<mode, clock, hits, tokens, request>>

Times == 0..MaxClock

\* A member of a sorted set: its score, the key of the request it stands for, and a
\* number that tells apart the requests of a key at a time. The fallback's members are
\* named after the time alone.
Members == [at : Times, of : ApiKeyIds \cup {"fallback"}, no : Nat]
New == [at |-> "idle", key |-> "none", level |-> 0]

Init ==
  /\ mode \in Modes
  /\ clock = 0
  /\ hits = [l \in Levels |-> {}]
  /\ tokens = [k \in ApiKeyIds |-> -1]
  /\ request = [r \in Requests |-> New]

\* _build_rate_limit_specs: the levels of a request, in order.
Specs(r) == <<request[r].key, "global">>
At(r, s) == request[r].at = s
Move(r, s) == request' = [request EXCEPT ![r].at = s]

\* How many members of level l are in the window that ends at time t.
Within(l, t) == Cardinality({m \in hits[l] : m.at > t - Window /\ m.at <= t})

\* Mutant: the limit itself still lets one more in.
FullBeyond(l) == Within(l, clock) > Limit[l]

Full(l) == Within(l, clock) >= Limit[l]

\* The member of a request with key k.
NewMember(k) ==
  [at |-> clock, of |-> k, no |-> Cardinality({m \in hits[k] : m.at = clock})]

\* Of some levels the members older than the window go, and they get the new ones.
Trim(levels, new) ==
  hits' = [l \in Levels |-> IF l \in levels THEN {m \in hits[l] : m.at > clock - Window} \cup new
                            ELSE hits[l]]

Arrive(r, k) ==
  /\ At(r, "idle")
  /\ request' = [request EXCEPT ![r] = [New EXCEPT !.at = "rpm", !.key = k, !.level = 1]]
  /\ UNCHANGED <<mode, clock, hits, tokens>>

\* sliding_window_rate_limit.lua: the levels are checked up to the first that is full;
\* if none is, every level counts.
CheckScript(r) ==
  LET k == Specs(r)[1]
      g == Specs(r)[2] IN
  /\ mode = "script"
  /\ At(r, "rpm")
  /\ IF Full(k) \/ Full(g)
     THEN Trim(IF Full(k) THEN {k} ELSE {k, g}, {}) /\ Move(r, "refused")
     ELSE Trim({k, g}, {NewMember(k)}) /\ Move(r, "tpm")
  /\ UNCHANGED <<mode, clock, tokens>>

\* A failing call of the script lets the request pass.
ScriptFails(r) ==
  /\ mode = "script"
  /\ At(r, "rpm")
  /\ Move(r, "tpm")
  /\ UNCHANGED <<mode, clock, hits, tokens>>

\* The fallback removes the old members of one level and counts the others ...
SerialCheck(r) ==
  LET l == Specs(r)[request[r].level] IN
  /\ mode = "serial"
  /\ At(r, "rpm")
  /\ Trim({l}, {})
  /\ Move(r, IF Full(l) THEN "refused" ELSE "add")
  /\ UNCHANGED <<mode, clock, tokens>>

\* ... and adds a member named after the time alone, which a second request of the
\* same time only overwrites; then comes the next level.
SerialAdd(r) ==
  LET i == request[r].level IN
  /\ At(r, "add")
  /\ hits' = [hits EXCEPT ![Specs(r)[i]] = @ \cup {[at |-> clock, of |-> "fallback", no |-> 0]}]
  /\ request' = [request EXCEPT ![r].at = IF i = 2 THEN "tpm" ELSE "rpm", ![r].level = 2]
  /\ UNCHANGED <<mode, clock, tokens>>

\* Without Redis only the first level counts, in the process, without an await.
CheckMemory(r) ==
  LET l == Specs(r)[1] IN
  /\ mode = "memory"
  /\ At(r, "rpm")
  /\ IF Full(l)
     THEN Move(r, "refused") /\ UNCHANGED hits
     ELSE Trim({l}, {NewMember(l)}) /\ Move(r, "passed")
  /\ UNCHANGED <<mode, clock, tokens>>

\* The token bucket of the key: the script starts it empty.
CheckTpm(r) ==
  LET k == request[r].key
      have == IF tokens[k] = -1 THEN 0 ELSE tokens[k] IN
  /\ At(r, "tpm")
  /\ tokens' = [tokens EXCEPT ![k] = IF have >= 1 THEN have - 1 ELSE have]
  /\ Move(r, IF have >= 1 THEN "passed" ELSE "refused")
  /\ UNCHANGED <<mode, clock, hits>>

\* An error of Redis, or a key without TPM, lets the request pass.
NoTpm(r) ==
  /\ At(r, "tpm")
  /\ Move(r, "passed")
  /\ UNCHANGED <<mode, clock, hits, tokens>>

Leave(r) ==
  /\ At(r, "passed") \/ At(r, "refused")
  /\ request' = [request EXCEPT ![r] = New]
  /\ UNCHANGED <<mode, clock, hits, tokens>>

Tick ==
  /\ clock < MaxClock
  /\ clock' = clock + 1
  /\ tokens' = [k \in ApiKeyIds |-> IF tokens[k] \in {-1, Bucket} THEN tokens[k] ELSE tokens[k] + 1]
  /\ UNCHANGED <<mode, hits, request>>

Next ==
  \/ \E r \in Requests :
       \/ \E k \in ApiKeyIds : Arrive(r, k)
       \/ CheckScript(r) \/ ScriptFails(r) \/ SerialCheck(r) \/ SerialAdd(r) \/ CheckMemory(r)
       \/ CheckTpm(r) \/ NoTpm(r) \/ Leave(r)
  \/ Tick

Spec == Init /\ [][Next]_limitVars

-----------------------------------------------------------------------------
(* Properties *)

\* Types, and with them the limit: no bucket of a window counts more than its level
\* allows, whichever of the three implementations counts.
TypeOK ==
  /\ mode \in Modes
  /\ clock \in 0..MaxClock
  /\ \A l \in Levels :
       /\ hits[l] \subseteq Members
       /\ \A t \in Times : Cardinality({m \in hits[l] : m.at = t}) <= Limit[l]
  /\ tokens \in [ApiKeyIds -> -1..Bucket]
  /\ request \in [Requests -> [at : {"idle", "rpm", "add", "tpm", "passed", "refused"},
                               key : ApiKeyIds \cup {"none"}, level : 0..2]]

\* With the script or in memory no window ever holds more requests than its limit,
\* and with the script a request is counted at all of its levels or at none: a key
\* that is refused by the gateway's own limit keeps its allowance.
WindowsHold ==
  /\ mode # "serial" => \A l \in Levels, t \in Times : Within(l, t) <= Limit[l]
  /\ mode = "script" => \A k \in ApiKeyIds :
       {m \in hits["global"] : m.of = k /\ m.at > clock - Window}
         = {m \in hits[k] : m.at > clock - Window}
=============================================================================
